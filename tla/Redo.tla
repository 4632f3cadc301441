-------------------------------- MODULE Redo --------------------------------
(***************************************************************************)
(* The incremental build engine of src/src/redo.erl: the evaluator process *)
(* (handle/2), the worker processes it spawns (worker/4), the transaction  *)
(* process in front of it (handle_outer/2), the files being built from and *)
(* a crash of the evaluator followed by merge_state/2.                     *)
(*                                                                         *)
(* A worker is named by its product.  The evaluator takes one message at a *)
(* time, so every action that reads or writes its map is one message.      *)
(* tools:pmap/2 sends each {eval,P} call from a process of its own, so the *)
(* calls of one need/2 reach the evaluator in any order: todo[c] is the    *)
(* set of calls of client c that the evaluator has not taken yet.          *)
(***************************************************************************)
EXTENDS Integers, FiniteSets

CONSTANTS
    Source,    \* products whose update polls a file (update_file/1)
    Derived,   \* products whose update calls need/2 and then builds
    Unknown,   \* the derived products the update table has no clause for
    Outer,     \* the transaction process, as a caller of the evaluator
    First,     \* First[d]: what the rule of d needs first
    Second,    \* Second[d][v]: what it needs next, given the control file's v
    Control,   \* the file whose contents decide about Second
    Seconds,   \* the mtimes files get, in whole seconds
    Pulls,     \* the sets of products that clients pull
    Pushes,    \* the <<changed, not changed>> pairs that clients push
    Resume,    \* whether the evaluator may crash and be resumed from a file
    MaxEdits,  \* bound: edits of the files
    MaxFails   \* bound: builds that fail

Product == Source \cup Derived
Client  == Product \cup {Outer}
Version == 0 .. MaxEdits
NoStamp == -1
Mtime   == Seconds \cup {NoStamp}
NoVersion == -1   \* what a product that was never built is made of
Verdict == {"true", "false", "error"}

ASSUME RedoAssumption ==
    /\ Source \cap Derived = {} /\ Outer \notin Product
    /\ IsFiniteSet(Product)
    /\ Unknown \subseteq Derived /\ Control \in Source
    /\ Seconds \subseteq Nat /\ MaxEdits \in Nat /\ MaxFails \in Nat
    /\ First  \in [Derived -> SUBSET Product]
    /\ Second \in [Derived -> [Version -> SUBSET Product]]
    /\ Pulls \subseteq SUBSET Product
    /\ Pushes \subseteq (SUBSET Source) \X (SUBSET Source)
    /\ Resume \in BOOLEAN

VARIABLES
    \* the evaluator's map
    phase,     \* {phase,P}: "none" (no entry), "waiting", or a verdict
    waiters,   \* the callers on the wait list of {phase,P}
    deps,      \* {deps,P}
    rdeps,     \* {rdeps,P}
    stamp,     \* {stamp,S}
    val,       \* {val,D}, or {stamp,D} of a rule that uses stamp_hash/2
    tracked,   \* the workers that have a {need,Pid} entry
    needed,    \* ... and what it holds
    \* the processes
    pc,        \* where a worker, or the transaction process, is
    todo,      \* the {eval,P} calls it has in the evaluator's mailbox
    acc,       \* any_changed/1 of the answers it got to its current need/2
    update,    \* the PhaseUpdate a finished worker has sent
    asked,     \* the products of the current or last transaction
    answer,    \* what that transaction answered
    \* the outside
    content,   \* the version of a file; 0 is a file that is not there
    mtime,     \* the time in its directory entry
    edits,     \* how many edits there were
    fails,     \* how many builds failed
    out,       \* the file versions a derived product was built from
    edited,    \* the files edited since the last transaction began
    saved,     \* the file save_state/2 wrote
    uses,      \* what the last run of a derived product's rule has needed
    behind     \* the products a change was hidden from (see SingleMoment), and
               \* what was built from them, or left as it was because of them

table   == <<phase, waiters, deps, rdeps, stamp, val, tracked, needed>>
process == <<pc, todo, acc, update, asked, answer>>
outside == <<content, mtime, edits, fails, out, edited, saved, uses, behind>>
vars    == <<table, process, outside>>

-----------------------------------------------------------------------------
(* any_changed/1: an error wins over a change, a change over no change.    *)
Join(a, b) ==
    IF "error" \in {a, b} THEN "error"
    ELSE IF "true" \in {a, b} THEN "true" ELSE "false"

WaitPc == {"old_wait", "first_wait", "second_wait", "outer_wait"}

(* Faulty variants.  No specification uses them: each one stands for a     *)
(* plausible bug in the definition it is named after, and with it in that  *)
(* definition's place a property of the runs fails.                        *)
AnsweredWhenTaken(c) == todo[c] = {}

ClosureOneLevel(C) ==
    {t \in UNION {rdeps[x] : x \in C} : rdeps[t] = {}} \ C

(* c has all the answers its current need/2 is waiting for.                *)
Answered(c) ==
    /\ todo[c] = {}
    /\ \A p \in Product : c \notin waiters[p]

(* The {worker_needs,D} message of c, after which c's pmap asks for D.     *)
NeedCall(c, D) ==
    /\ needed' = IF c \in tracked THEN [needed EXCEPT ![c] = @ \cup D]
                                  ELSE needed
    /\ todo' = [todo EXCEPT ![c] = D]
    /\ acc'  = [acc EXCEPT ![c] = "false"]

(* collect_worker_deps: its answer, and the entry it removes.              *)
Collected(p) == IF p \in tracked THEN needed[p] ELSE {}
Collect(p) ==
    /\ tracked' = tracked \ {p}
    /\ needed'  = [needed EXCEPT ![p] = {}]

(* The worker sends {worker_done,P,PhaseUpdate} and ends.                  *)
SendDone(p, verdict, newDeps) ==
    /\ update' = [update EXCEPT ![p] = [changed |-> verdict, deps |-> newDeps]]
    /\ pc' = [pc EXCEPT ![p] = "done"]

(* transitive_closure/2: the products without reverse dependencies that    *)
(* the changed ones lead to, without the changed ones themselves.          *)
Upward(C) ==
    LET up[n \in 0 .. Cardinality(Product)] ==
            IF n = 0 THEN C
            ELSE up[n-1] \cup UNION {rdeps[x] : x \in up[n-1]}
    IN  up[Cardinality(Product)]
Closure(C) == {t \in Product : t \in Upward(C) /\ rdeps[t] = {}} \ C

NoUpdate == [changed |-> "false", deps |-> {}]

(* A file has the mtime that was recorded for it, whatever its contents.   *)
LooksTheSame(s) == content[s] # 0 /\ mtime[s] = stamp[s]

(* The products built from a version of a file of S that is not there now. *)
MadeOfOther(S) ==
    {d \in Derived : \E y \in out[d] : y[1] \in S /\ y[2] # content[y[1]]}

(* The products left out of a transaction that found a change below them.  *)
LeftOut ==
    {d \in Derived : phase[d] = "none" /\ \E x \in deps[d] : phase[x] = "true"}

-----------------------------------------------------------------------------
(* Faulty variants, of the kind of AnsweredWhenTaken.                      *)
EvalKnownTooEarly(c, p) ==
    /\ phase[p] # "none"
    /\ acc' = [acc EXCEPT ![c] = phase[p]]
    /\ UNCHANGED <<table, pc>>

EvalJoinReplaces(c, p) ==
    /\ phase[p] = "waiting"
    /\ waiters' = [waiters EXCEPT ![p] = {c}]
    /\ UNCHANGED <<phase, deps, rdeps, stamp, val, tracked, needed, pc, acc>>

EvalJoinUnchanged(c, p) ==
    /\ phase[p] = "waiting"
    /\ UNCHANGED <<table, pc, acc>>

EvalSpawnUnawaited(c, p) ==
    /\ phase[p] = "none" /\ p \notin Unknown
    /\ phase'   = [phase EXCEPT ![p] = "waiting"]
    /\ tracked' = tracked \cup {p}
    /\ needed'  = [needed EXCEPT ![p] = {}]
    /\ pc' = [pc EXCEPT ![p] = IF deps[p] = {} THEN "run" ELSE "old"]
    /\ UNCHANGED <<waiters, deps, rdeps, stamp, val, acc>>

PollMissingUnchanged(s) ==
    /\ pc[s] = "run"
    /\ stamp' = IF content[s] = 0 THEN stamp ELSE [stamp EXCEPT ![s] = mtime[s]]
    /\ SendDone(s, IF content[s] # 0 /\ mtime[s] # stamp[s]
                   THEN "true" ELSE "false", Collected(s))
    /\ Collect(s)
    /\ behind' = IF LooksTheSame(s) THEN behind \cup MadeOfOther({s}) ELSE behind
    /\ UNCHANGED <<phase, waiters, deps, rdeps, val, todo, acc, asked, answer,
                   content, mtime, edits, fails, out, edited, saved, uses>>

NeedFailedUncaught(d) ==
    /\ pc[d] \in {"first_wait", "second_wait"} /\ Answered(d) /\ acc[d] = "error"
    /\ pc' = [pc EXCEPT ![d] = "idle"]
    /\ UNCHANGED <<table, todo, acc, update, asked, answer, outside>>

UpdateRdepsAddsOnly(p, newDeps) ==
    [x \in Product |-> IF x \in newDeps THEN rdeps[x] \cup {p} ELSE rdeps[x]]

-----------------------------------------------------------------------------
Init ==
    /\ phase   = [p \in Product |-> "none"]
    /\ waiters = [p \in Product |-> {}]
    /\ deps    = [p \in Product |-> {}]
    /\ rdeps   = [p \in Product |-> {}]
    /\ stamp   = [s \in Source |-> NoStamp]
    /\ val     = [d \in Derived |-> {<<Control, NoVersion>>}]
    /\ tracked = {}
    /\ needed  = [p \in Product |-> {}]
    /\ pc      = [c \in Client |-> "idle"]
    /\ todo    = [c \in Client |-> {}]
    /\ acc     = [c \in Client |-> "false"]
    /\ update  = [p \in Product |-> NoUpdate]
    /\ asked   = {}
    /\ answer  = "none"
    /\ content = [s \in Source |-> 0]
    /\ mtime   = [s \in Source |-> NoStamp]
    /\ edits   = 0
    /\ fails   = 0
    /\ out     = val
    /\ edited  = {}
    /\ saved   = [stamp |-> stamp, val |-> val, deps |-> deps, behind |-> {}]
    /\ uses    = [d \in Derived |-> {}]
    /\ behind  = {}

(* A file is written, touched, removed or put back from outside, at any    *)
(* moment.  Its mtime says little about its contents: two edits may fall   *)
(* into one second, and what is moved or unpacked brings its old mtime.    *)
Edit(s) ==
    /\ edits < MaxEdits
    /\ edits' = edits + 1
    /\ \/ content' = [content EXCEPT ![s] = 0] /\ mtime' = [mtime EXCEPT ![s] = NoStamp]
       \/ \E v \in 1 .. edits + 1, m \in Seconds :
             /\ content' = [content EXCEPT ![s] = v]
             /\ mtime'   = [mtime EXCEPT ![s] = m]
    /\ edited' = edited \cup {s}
    /\ UNCHANGED <<table, process, fails, out, saved, uses, behind>>

(* {with_eval,Fun} of a pull: start_pull drops phases and needs, then the  *)
(* transaction process itself calls need/2.  It has no {need,Pid} entry.   *)
BeginPull(R) ==
    /\ pc[Outer] = "idle"
    /\ phase'   = [p \in Product |-> "none"]
    /\ waiters' = [p \in Product |-> {}]
    /\ tracked' = {}
    /\ needed'  = [p \in Product |-> {}]
    /\ pc'   = [pc EXCEPT ![Outer] = "outer_wait"]
    /\ todo' = [todo EXCEPT ![Outer] = R]
    /\ acc'  = [acc EXCEPT ![Outer] = "false"]
    /\ asked' = R /\ answer' = "none" /\ edited' = {}
    /\ UNCHANGED <<deps, rdeps, stamp, val, update, content, mtime, edits, fails, out, saved, uses, behind>>

(* {push,C,NC}: start_push, then need/2 of the closure of C.               *)
BeginPush(C, NC) ==
    /\ pc[Outer] = "idle"
    /\ phase' = [p \in Product |-> IF p \in C THEN "true"
                                   ELSE IF p \in NC THEN "false" ELSE "none"]
    /\ waiters' = [p \in Product |-> {}]
    /\ pc'   = [pc EXCEPT ![Outer] = "outer_wait"]
    /\ todo' = [todo EXCEPT ![Outer] = Closure(C)]
    /\ acc'  = [acc EXCEPT ![Outer] = "false"]
    /\ asked' = Closure(C) /\ answer' = "none" /\ edited' = edited \ C
    /\ behind' = behind \cup MadeOfOther(NC)
    /\ UNCHANGED <<deps, rdeps, stamp, val, tracked, needed, update,
                   content, mtime, edits, fails, out, saved, uses>>

(* The transaction process has its answers and replies to the client.      *)
Reply ==
    /\ pc[Outer] = "outer_wait" /\ Answered(Outer)
    /\ pc' = [pc EXCEPT ![Outer] = "idle"]
    /\ answer' = acc[Outer]
    /\ behind' = behind \cup LeftOut
    /\ UNCHANGED <<table, todo, acc, update, asked,
                   content, mtime, edits, fails, out, edited, saved, uses>>

-----------------------------------------------------------------------------
(* {eval,P}: the product was evaluated in this transaction.                *)
EvalKnown(c, p) ==
    /\ phase[p] \in Verdict
    /\ acc' = [acc EXCEPT ![c] = Join(@, phase[p])]
    /\ UNCHANGED <<table, pc>>

(* {eval,P}: it is being evaluated; the caller joins the wait list.        *)
EvalJoin(c, p) ==
    /\ phase[p] = "waiting"
    /\ waiters' = [waiters EXCEPT ![p] = @ \cup {c}]
    /\ UNCHANGED <<phase, deps, rdeps, stamp, val, tracked, needed, pc, acc>>

(* {eval,P}: a worker is spawned, with the dependencies of the last run.   *)
EvalSpawn(c, p) ==
    /\ phase[p] = "none" /\ p \notin Unknown
    /\ phase'   = [phase EXCEPT ![p] = "waiting"]
    /\ waiters' = [waiters EXCEPT ![p] = {c}]
    /\ tracked' = tracked \cup {p}
    /\ needed'  = [needed EXCEPT ![p] = {}]
    /\ pc' = [pc EXCEPT ![p] = IF deps[p] = {} THEN "run" ELSE "old"]
    /\ UNCHANGED <<deps, rdeps, stamp, val, acc>>

(* {eval,P}: looking up the update function fails.  The code computes the  *)
(* map with {phase,P} set to error and returns the old one.                *)
EvalUnknown(c, p) ==
    /\ phase[p] = "none" /\ p \in Unknown
    /\ acc' = [acc EXCEPT ![c] = "error"]
    /\ UNCHANGED <<table, pc>>

Eval(c, p) ==
    /\ p \in todo[c]
    /\ todo' = [todo EXCEPT ![c] = @ \ {p}]
    /\ \/ EvalKnown(c, p)
       \/ EvalJoin(c, p)
       \/ EvalSpawn(c, p)
       \/ EvalUnknown(c, p)
    /\ UNCHANGED <<update, asked, answer, outside>>

-----------------------------------------------------------------------------
(* need_or_error(Eval, OldDeps): the dependencies of the last run first.   *)
CheckOld(p) ==
    /\ pc[p] = "old"
    /\ NeedCall(p, deps[p])
    /\ pc' = [pc EXCEPT ![p] = "old_wait"]
    /\ UNCHANGED <<phase, waiters, deps, rdeps, stamp, val, tracked, update,
                   asked, answer, outside>>

(* Their answers are in: skip the rule if none of them changed.  The needs *)
(* are collected, which removes the worker's {need,Pid} entry, either way. *)
OldChecked(p) ==
    /\ pc[p] = "old_wait" /\ Answered(p)
    /\ Collect(p)
    /\ IF acc[p] = "false"
         THEN /\ SendDone(p, "false", deps[p])
              /\ behind' = behind \cup {d \in Derived \cap {p} : deps[d] \cap behind # {}}
         ELSE pc' = [pc EXCEPT ![p] = "run"] /\ UNCHANGED <<update, behind>>
    /\ UNCHANGED <<phase, waiters, deps, rdeps, stamp, val, todo, acc, asked, answer,
                   content, mtime, edits, fails, out, edited, saved, uses>>

(* The rule of a source: file_changed/3 compares the mtime with the last   *)
(* stamp and replaces it in one set_stamp message.  A missing file counts  *)
(* as changed and keeps the stamp of the file that was there before.       *)
Poll(s) ==
    /\ pc[s] = "run"
    /\ stamp' = IF content[s] = 0 THEN stamp ELSE [stamp EXCEPT ![s] = mtime[s]]
    /\ SendDone(s, IF content[s] = 0 \/ mtime[s] # stamp[s]
                   THEN "true" ELSE "false", Collected(s))
    /\ Collect(s)
    /\ behind' = IF LooksTheSame(s) THEN behind \cup MadeOfOther({s}) ELSE behind
    /\ UNCHANGED <<phase, waiters, deps, rdeps, val, todo, acc, asked, answer,
                   content, mtime, edits, fails, out, edited, saved, uses>>

(* The rule of a derived product calls need/2 ...                          *)
NeedFirst(d) ==
    /\ pc[d] = "run"
    /\ NeedCall(d, First[d])
    /\ uses' = [uses EXCEPT ![d] = First[d]]
    /\ pc' = [pc EXCEPT ![d] = "first_wait"]
    /\ UNCHANGED <<phase, waiters, deps, rdeps, stamp, val, tracked, update, asked,
                   answer, content, mtime, edits, fails, out, edited, saved, behind>>

(* ... and need/2 again, for products that depend on what it has read.     *)
NeedSecond(d) ==
    /\ pc[d] = "first_wait" /\ Answered(d) /\ acc[d] # "error"
    /\ NeedCall(d, Second[d][content[Control]])
    /\ uses' = [uses EXCEPT ![d] = @ \cup Second[d][content[Control]]]
    /\ pc' = [pc EXCEPT ![d] = "second_wait"]
    /\ UNCHANGED <<phase, waiters, deps, rdeps, stamp, val, tracked, update, asked,
                   answer, content, mtime, edits, fails, out, edited, saved, behind>>

(* need/2 throws error_need inside the rule: the worker catches it, reports*)
(* error without dependencies, and does not collect its needs.             *)
NeedFailed(d) ==
    /\ pc[d] \in {"first_wait", "second_wait"} /\ Answered(d) /\ acc[d] = "error"
    /\ SendDone(d, "error", {})
    /\ UNCHANGED <<table, todo, acc, asked, answer, outside>>

(* The file versions a build of d now would be made from.                  *)
Inputs(d) ==
    UNION {IF x \in Source THEN {<<x, content[x]>>} ELSE out[x] : x \in uses[d]}

(* The rule builds its product.  It may say that nothing changed only after*)
(* comparing with what it last recorded (put_val_changed/3, stamp_hash/2). *)
Build(d) ==
    /\ pc[d] = "second_wait" /\ Answered(d) /\ acc[d] # "error"
    /\ out' = [out EXCEPT ![d] = Inputs(d)]
    /\ val' = [val EXCEPT ![d] = Inputs(d)]
    /\ \/ SendDone(d, "true", Collected(d))
       \/ val' = val /\ SendDone(d, "false", Collected(d))
    /\ Collect(d)
    /\ behind' = IF uses[d] \cap behind = {} THEN behind \ {d} ELSE behind \cup {d}
    /\ UNCHANGED <<phase, waiters, deps, rdeps, stamp, todo, acc, asked, answer,
                   content, mtime, edits, fails, edited, saved, uses>>

(* The rule returns error (the needs are collected, then discarded).       *)
BuildFails(d) ==
    /\ pc[d] = "second_wait" /\ Answered(d) /\ acc[d] # "error"
    /\ fails < MaxFails
    /\ fails' = fails + 1
    /\ SendDone(d, "error", {})
    /\ Collect(d)
    /\ UNCHANGED <<phase, waiters, deps, rdeps, stamp, val, todo, acc, asked, answer,
                   content, mtime, edits, out, edited, saved, uses, behind>>

(* update_reverse_deps/3: only the differences between the two lists.      *)
UpdateRdeps(p, newDeps) ==
    [x \in Product |->
        IF x \in deps[p] \ newDeps THEN rdeps[x] \ {p}
        ELSE IF x \in newDeps \ deps[p] THEN rdeps[x] \cup {p}
        ELSE rdeps[x]]

(* {worker_done,P,PhaseUpdate}: dependencies first, then every waiter is   *)
(* answered and the phase is recorded.                                     *)
WorkerDone(p) ==
    /\ pc[p] = "done"
    /\ phase[p] = "waiting"
    /\ rdeps' = UpdateRdeps(p, update[p].deps)
    /\ deps'  = [deps EXCEPT ![p] = update[p].deps]
    /\ acc' = [c \in Client |-> IF c \in waiters[p]
                                THEN Join(acc[c], update[p].changed) ELSE acc[c]]
    /\ waiters' = [waiters EXCEPT ![p] = {}]
    /\ phase'   = [phase EXCEPT ![p] = update[p].changed]
    /\ pc'      = [pc EXCEPT ![p] = "idle"]
    /\ update'  = [update EXCEPT ![p] = NoUpdate]
    /\ UNCHANGED <<stamp, val, tracked, needed, todo, asked, answer, outside>>

-----------------------------------------------------------------------------
(* save_state/2 goes through the transaction process, so it reads the map  *)
(* between two transactions.                                               *)
Save ==
    /\ Resume /\ pc[Outer] = "idle"
    /\ saved' = [stamp |-> stamp, val |-> val, deps |-> deps, behind |-> behind]
    /\ UNCHANGED <<table, process, content, mtime, edits, fails, out, edited, uses, behind>>

(* The evaluator dies, and its linked workers with it; a new one starts    *)
(* and merge_state/2 loads the file: {stamp,_}, {val,_}, {deps,_}, no {rdeps,_}.*)
CrashAndResume ==
    /\ Resume
    /\ phase'   = [p \in Product |-> "none"]
    /\ waiters' = [p \in Product |-> {}]
    /\ rdeps'   = [p \in Product |-> {}]
    /\ stamp' = saved.stamp /\ val' = saved.val /\ deps' = saved.deps
    /\ tracked' = {}
    /\ needed'  = [p \in Product |-> {}]
    /\ pc'     = [c \in Client |-> "idle"]
    /\ todo'   = [c \in Client |-> {}]
    /\ acc'    = [c \in Client |-> "false"]
    /\ update' = [p \in Product |-> NoUpdate]
    /\ asked' = {} /\ answer' = "none"
    /\ behind' = behind \cup saved.behind \cup {d \in Derived : out[d] # saved.val[d]}
    /\ UNCHANGED <<content, mtime, edits, fails, out, edited, saved, uses>>

-----------------------------------------------------------------------------
WorkerStep(p) == CheckOld(p) \/ OldChecked(p) \/ WorkerDone(p)
RuleStep(d)   == NeedFirst(d) \/ NeedSecond(d) \/ NeedFailed(d) \/ Build(d)

(* What the processes do once a transaction is under way.                  *)
Work ==
    \/ \E c \in Client, p \in Product : Eval(c, p)
    \/ \E p \in Product : WorkerStep(p)
    \/ \E s \in Source : Poll(s)
    \/ \E d \in Derived : RuleStep(d)
    \/ Reply

(* What clients, files and failures do to them.                            *)
Environment ==
    \/ \E s \in Source : Edit(s)
    \/ \E R \in Pulls : BeginPull(R)
    \/ \E P \in Pushes : BeginPush(P[1], P[2])
    \/ \E d \in Derived : BuildFails(d)
    \/ Save
    \/ CrashAndResume

Next == Work \/ Environment

Spec == Init /\ [][Next]_vars

(* Erlang schedules every runnable process, so work that can be done is    *)
(* done; a rule is assumed to return.  Nothing is assumed of clients,      *)
(* editors or failures.                                                    *)
FairSpec == Spec /\ WF_vars(Work)

-----------------------------------------------------------------------------
Made == Source \X (Version \cup {NoVersion})

(* Every variable has the shape redo.erl gives it.                         *)
TypeOK ==
    /\ phase   \in [Product -> {"none", "waiting"} \cup Verdict]
    /\ waiters \in [Product -> SUBSET Client]
    /\ deps    \in [Product -> SUBSET Product]
    /\ rdeps   \in [Product -> SUBSET Product]
    /\ stamp   \in [Source -> Mtime]
    /\ val     \in [Derived -> SUBSET Made]
    /\ tracked \subseteq Product
    /\ needed  \in [Product -> SUBSET Product]
    /\ pc      \in [Client -> WaitPc \cup {"idle", "old", "run", "done"}]
    /\ todo    \in [Client -> SUBSET Product]
    /\ acc     \in [Client -> Verdict]
    /\ update  \in [Product -> [changed : Verdict, deps : SUBSET Product]]
    /\ asked   \subseteq Product
    /\ answer  \in Verdict \cup {"none"}
    /\ content \in [Source -> Version]
    /\ mtime   \in [Source -> Mtime]
    /\ edits   \in Version
    /\ fails   \in 0 .. MaxFails
    /\ out     \in [Derived -> SUBSET Made]
    /\ edited  \subseteq Source
    /\ saved   \in [stamp  : [Source -> Mtime],
                   val    : [Derived -> SUBSET Made],
                   deps   : [Product -> SUBSET Product],
                   behind : SUBSET Derived]
    /\ uses    \in [Derived -> SUBSET Product]
    /\ behind  \subseteq Derived

Live == {p \in Product : pc[p] # "idle"}

(* A product is marked waiting exactly while a worker of its own is at it, *)
(* somebody waits for every such product, and whoever has a call in the    *)
(* mailbox or is on a wait list is a process that is receiving.  With it,  *)
(* worker_done never finds a phase that is not waiting (redo.erl:600).     *)
WaitersServed ==
    /\ \A p \in Product : (phase[p] = "waiting") <=> (p \in Live)
    /\ \A p \in Product : (waiters[p] # {}) <=> (p \in Live)
    /\ \A c \in Client, p \in Product :
          (c \in waiters[p] \/ p \in todo[c]) => pc[c] \in WaitPc
    /\ \A c \in Client, p \in Product : ~(c \in waiters[p] /\ p \in todo[c])

(* Once the transaction process has its answers no worker is left behind,  *)
(* so start_pull and start_push never erase the phase of a running one.    *)
QuietWhenIdle == pc[Outer] = "idle" => Live = {}

(* Why QuietWhenIdle holds: whichever workers one picks, one of them is    *)
(* awaited by somebody else, so the waiting starts at the transaction.     *)
Rooted ==
    \A S \in SUBSET Live : S # {} => \E p \in S : \E c \in waiters[p] : c \notin S

(* {rdeps,_} never names a product that does not depend on the entry, and  *)
(* as long as no state was merged it is exactly the inverse of {deps,_}.   *)
RdepsInverse ==
    \A p, x \in Product :
        /\ p \in rdeps[x] => x \in deps[p]
        /\ ~Resume => (x \in deps[p] => p \in rdeps[x])

(* However needs turn around between runs, no cycle is ever recorded: the  *)
(* walk of add_outputs (redo.erl:817), which does not look where it has    *)
(* been, comes to an end.                                                  *)
ClosureEnds == \A p \in Product : p \notin Upward(rdeps[p])

(* "Each pull conceptually corresponds to a single moment in time"         *)
(* (redo.erl:73): if no file changed since the transaction began, and it   *)
(* did not answer error, all that was asked for is built from the files.   *)
(* A product may miss a change that is hidden from it, and only then:      *)
(*   - a file it was made of is other now, but has the mtime recorded for  *)
(*     it, or a push says that the file has not changed (redo.erl:1268);   *)
(*   - the change was found by a transaction that left the product out,    *)
(*     for the one stamp of a file does not know for whom it was polled    *)
(*     (the FIXME of redo.erl:110);                                        *)
(*   - the evaluator resumed a state that is older than the product;       *)
(*   - a product below it missed the change.                               *)
Undisturbed == pc[Outer] = "idle" /\ answer \in {"true", "false"} /\ edited = {}
BuiltFromFiles(d) == \A y \in out[d] : y[2] = content[y[1]]

SingleMoment == Undisturbed => \A d \in (asked \cap Derived) \ behind : BuiltFromFiles(d)

(* The same of all that was asked for.                                     *)
EverySingleMoment == Undisturbed => \A d \in asked \cap Derived : BuiltFromFiles(d)

(* "This dependency structure is then updated on every product update"     *)
(* (redo.erl:94): a product rebuilt in the transaction has in {deps,_}     *)
(* what its rule needed.                                                   *)
DepsRecorded ==
    \A d \in Derived : phase[d] = "true" => deps[d] = uses[d]

(* A push asks for something above everything that is recorded to depend,  *)
(* through any number of products, on what changed.                        *)
PushCovers ==
    [][\A P \in Pushes : BeginPush(P[1], P[2]) =>
          \A p \in Upward(P[1]) \ P[1] : asked' \cap Upward({p}) # {}]_vars

(* The evaluator implements its abstract promise (EvalOnce): a verdict is  *)
(* found once per transaction and is what every caller is told, also those *)
(* that came while it was being found.                                     *)
Open == [c \in Client |-> todo[c] \cup {p \in Product : c \in waiters[p]}]
Once == INSTANCE EvalOnce WITH status <- phase, open <- Open, sum <- acc
EvaluatesOnce == Once!Spec

(* Every transaction is answered, whatever fails in it.                    *)
EveryPullAnswered == (pc[Outer] = "outer_wait") ~> (pc[Outer] = "idle")
=============================================================================
