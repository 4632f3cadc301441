----------------------------- MODULE RedoProofs -----------------------------
(* Theorems about Redo, for every network, every set of transactions and   *)
(* every bound.                                                            *)
EXTENDS Redo, FiniteSetTheorems, TLAPS

(* Joining two verdicts gives a verdict.                                   *)
LEMMA JoinType == \A v, w \in Verdict : Join(v, w) \in Verdict
  BY DEF Join, Verdict

(* The closure a push evaluates consists of products.                      *)
LEMMA ClosureType == \A C : Closure(C) \subseteq Product
  BY DEF Closure

(* A build reads versions of files only.                                   *)
LEMMA InputsType ==
  ASSUME TypeOK, NEW d \in Derived
  PROVE  Inputs(d) \in SUBSET Made
  <1> SUFFICES ASSUME NEW x \in uses[d],
                      NEW y \in (IF x \in Source THEN {<<x, content[x]>>} ELSE out[x])
               PROVE  y \in Made
    BY DEF Inputs
  <1>1. uses[d] \subseteq Product
    BY DEF TypeOK
  <1>2. CASE x \in Source
    BY <1>2 DEF TypeOK, Made
  <1>3. CASE x \notin Source
    <2>1. x \in Derived
      BY <1>1, <1>3 DEF Product
    <2> QED BY <1>3, <2>1 DEF TypeOK
  <1> QED BY <1>2, <1>3

(* What collect_worker_deps answers is a set of products.                  *)
LEMMA CollectedType ==
  ASSUME TypeOK, NEW p \in Product
  PROVE  Collected(p) \in SUBSET Product
  BY DEF TypeOK, Collected

(* The products a change is hidden from are built ones.                    *)
LEMMA MissedType ==
  /\ \A S : MadeOfOther(S) \subseteq Derived
  /\ LeftOut \subseteq Derived
  BY DEF MadeOfOther, LeftOut

-----------------------------------------------------------------------------
(* The shape of the evaluator's map and of the processes, for all Redo.    *)
THEOREM TypeCorrect == Spec => []TypeOK
<1>1. Init => TypeOK
  <2> SUFFICES ASSUME Init PROVE TypeOK
    OBVIOUS
  <2> USE RedoAssumption
  <2>1. val \in [Derived -> SUBSET Made] /\ out = val
    BY DEF Init, Made
  <2>2. stamp \in [Source -> Mtime] /\ mtime \in [Source -> Mtime]
    BY DEF Init, Mtime
  <2>3. content \in [Source -> Version] /\ edits \in Version /\ fails \in 0 .. MaxFails
    BY DEF Init, Version
  <2>4. deps \in [Product -> SUBSET Product]
    BY DEF Init
  <2>5. saved \in [stamp  : [Source -> Mtime], val : [Derived -> SUBSET Made],
                   deps   : [Product -> SUBSET Product], behind : SUBSET Derived]
    BY <2>1, <2>2, <2>4 DEF Init
  <2> QED BY <2>1, <2>2, <2>3, <2>4, <2>5 DEF Init, TypeOK, Verdict, NoUpdate
<1>2. TypeOK /\ [Next]_vars => TypeOK'
  <2> SUFFICES ASSUME TypeOK, [Next]_vars PROVE TypeOK'
    OBVIOUS
  <2> USE RedoAssumption DEF TypeOK
  <2>1. ASSUME NEW s \in Source, Edit(s) PROVE TypeOK'
    <3>1. edits' \in Version /\ edited' \subseteq Source
      BY <2>1 DEF Edit, Version
    <3>2. content' \in [Source -> Version] /\ mtime' \in [Source -> Mtime]
      <4>1. 0 \in Version /\ NoStamp \in Mtime /\ Seconds \subseteq Mtime
            /\ 1 .. edits + 1 \subseteq Version
        BY <2>1 DEF Edit, Version, Mtime
      <4>2. \E v \in Version, m \in Mtime : /\ content' = [content EXCEPT ![s] = v]
                                           /\ mtime' = [mtime EXCEPT ![s] = m]
        BY <2>1, <4>1, Zenon DEF Edit
      <4> QED BY <4>2
    <3> QED BY <2>1, <3>1, <3>2 DEF Edit, table, process
  <2>2. ASSUME NEW R \in Pulls, BeginPull(R) PROVE TypeOK'
    <3>1. R \in SUBSET Product
      OBVIOUS
    <3> QED BY <2>2, <3>1 DEF BeginPull, Client, WaitPc, Verdict
  <2>3. ASSUME NEW P \in Pushes, BeginPush(P[1], P[2]) PROVE TypeOK'
    <3>1. phase' \in [Product -> {"none", "waiting"} \cup Verdict]
      BY <2>3 DEF BeginPush, Verdict
    <3>2. todo' \in [Client -> SUBSET Product] /\ asked' \subseteq Product
      BY <2>3, ClosureType DEF BeginPush, Client
    <3> QED BY <2>3, <3>1, <3>2, MissedType DEF BeginPush, Client, WaitPc, Verdict
  <2>4. ASSUME Reply PROVE TypeOK'
    BY <2>4, MissedType DEF Reply, Client, table
  <2>5. ASSUME NEW c \in Client, NEW p \in Product, Eval(c, p) PROVE TypeOK'
    <3>1. todo' \in [Client -> SUBSET Product]
      BY <2>5 DEF Eval
    <3>2. CASE EvalKnown(c, p)
      <4>1. acc' \in [Client -> Verdict]
        BY <3>2, JoinType DEF EvalKnown
      <4> QED BY <2>5, <3>1, <3>2, <4>1 DEF Eval, EvalKnown, table, outside
    <3>3. CASE EvalJoin(c, p)
      BY <2>5, <3>1, <3>3 DEF Eval, EvalJoin, outside
    <3>4. CASE EvalSpawn(c, p)
      <4>1. pc' \in [Client -> WaitPc \cup {"idle", "old", "run", "done"}]
        BY <3>4 DEF EvalSpawn, Client
      <4> QED BY <2>5, <3>1, <3>4, <4>1 DEF Eval, EvalSpawn, outside
    <3>5. CASE EvalUnknown(c, p)
      <4>1. acc' \in [Client -> Verdict]
        BY <3>5 DEF EvalUnknown, Verdict
      <4> QED BY <2>5, <3>1, <3>5, <4>1 DEF Eval, EvalUnknown, table, outside
    <3> QED BY <2>5, <3>2, <3>3, <3>4, <3>5 DEF Eval
  <2>6. ASSUME NEW p \in Product, CheckOld(p) PROVE TypeOK'
    <3>1. p \in Client /\ deps[p] \in SUBSET Product
      BY DEF Client
    <3>2. needed' \in [Product -> SUBSET Product] /\ todo' \in [Client -> SUBSET Product]
          /\ acc' \in [Client -> Verdict]
      BY <2>6, <3>1 DEF CheckOld, NeedCall, Verdict
    <3>3. pc' \in [Client -> WaitPc \cup {"idle", "old", "run", "done"}]
      BY <2>6, <3>1 DEF CheckOld, WaitPc
    <3> QED BY <2>6, <3>2, <3>3 DEF CheckOld, outside
  <2>7. ASSUME NEW p \in Product, OldChecked(p) PROVE TypeOK'
    <3>1. p \in Client
      BY DEF Client
    <3>2. tracked' \subseteq Product /\ needed' \in [Product -> SUBSET Product]
      BY <2>7 DEF OldChecked, Collect
    <3>3. update' \in [Product -> [changed : Verdict, deps : SUBSET Product]]
      <4> DEFINE r == [changed |-> "false", deps |-> deps[p]]
      <4>1. r \in [changed : Verdict, deps : SUBSET Product]
        BY DEF Verdict
      <4>2. update' = update \/ update' = [update EXCEPT ![p] = r]
        BY <2>7 DEF OldChecked, SendDone
      <4>3. CASE update' = update
        BY <4>3
      <4>4. CASE update' = [update EXCEPT ![p] = r]
        BY <4>1, <4>4
      <4> QED BY <4>2, <4>3, <4>4
    <3>4. pc' \in [Client -> WaitPc \cup {"idle", "old", "run", "done"}]
      <4>1. \E v \in {"done", "run"} : pc' = [pc EXCEPT ![p] = v]
        BY <2>7 DEF OldChecked, SendDone
      <4> QED BY <3>1, <4>1
    <3>5. behind' \subseteq Derived
      BY <2>7 DEF OldChecked
    <3> QED BY <2>7, <3>2, <3>3, <3>4, <3>5 DEF OldChecked
  <2>8. ASSUME NEW s \in Source, Poll(s) PROVE TypeOK'
    <3>1. s \in Client /\ s \in Product
      BY DEF Client, Product
    <3>2. tracked' \subseteq Product /\ needed' \in [Product -> SUBSET Product]
      BY <2>8, <3>1 DEF Poll, Collect
    <3>3. update' \in [Product -> [changed : Verdict, deps : SUBSET Product]]
      BY <2>8, <3>1, CollectedType DEF Poll, SendDone, Verdict
    <3>4. pc' \in [Client -> WaitPc \cup {"idle", "old", "run", "done"}]
      BY <2>8, <3>1 DEF Poll, SendDone
    <3>5. stamp' \in [Source -> Mtime] /\ behind' \subseteq Derived
      BY <2>8, MissedType DEF Poll
    <3> QED BY <2>8, <3>2, <3>3, <3>4, <3>5 DEF Poll
  <2>9. ASSUME NEW d \in Derived, NeedFirst(d) PROVE TypeOK'
    <3>1. d \in Client /\ d \in Product /\ First[d] \in SUBSET Product
      BY DEF Client, Product
    <3> QED BY <2>9, <3>1 DEF NeedFirst, NeedCall, WaitPc, Verdict
  <2>10. ASSUME NEW d \in Derived, NeedSecond(d) PROVE TypeOK'
    <3>1. d \in Client /\ d \in Product /\ Second[d][content[Control]] \in SUBSET Product
      BY DEF Client, Product
    <3>2. needed' \in [Product -> SUBSET Product] /\ todo' \in [Client -> SUBSET Product]
          /\ acc' \in [Client -> Verdict]
      BY <2>10, <3>1 DEF NeedSecond, NeedCall, Verdict
    <3>3. uses' \in [Derived -> SUBSET Product]
      BY <2>10, <3>1 DEF NeedSecond
    <3>4. pc' \in [Client -> WaitPc \cup {"idle", "old", "run", "done"}]
      BY <2>10, <3>1 DEF NeedSecond, WaitPc
    <3> QED BY <2>10, <3>2, <3>3, <3>4 DEF NeedSecond
  <2>11. ASSUME NEW d \in Derived, NeedFailed(d) PROVE TypeOK'
    <3>1. d \in Client /\ d \in Product
      BY DEF Client, Product
    <3> QED BY <2>11, <3>1 DEF NeedFailed, SendDone, Verdict, table, outside
  <2>12. ASSUME NEW d \in Derived, Build(d) PROVE TypeOK'
    <3>1. d \in Client /\ d \in Product
      BY DEF Client, Product
    <3>2. tracked' \subseteq Product /\ needed' \in [Product -> SUBSET Product]
      BY <2>12, <3>1 DEF Build, Collect
    <3>3. update' \in [Product -> [changed : Verdict, deps : SUBSET Product]]
      <4>1. \E v \in Verdict :
               update' = [update EXCEPT ![d] = [changed |-> v, deps |-> Collected(d)]]
        BY <2>12 DEF Build, SendDone, Verdict
      <4>2. Collected(d) \in SUBSET Product
        BY <3>1, CollectedType
      <4> QED BY <3>1, <4>1, <4>2
    <3>4. pc' \in [Client -> WaitPc \cup {"idle", "old", "run", "done"}]
      <4>1. pc' = [pc EXCEPT ![d] = "done"]
        BY <2>12 DEF Build, SendDone
      <4> QED BY <3>1, <4>1
    <3>5. /\ out' \in [Derived -> SUBSET Made]
          /\ val' \in [Derived -> SUBSET Made]
          /\ behind' \subseteq Derived
      BY <2>12, InputsType DEF Build
    <3> QED BY <2>12, <3>2, <3>3, <3>4, <3>5 DEF Build
  <2>13. ASSUME NEW d \in Derived, BuildFails(d) PROVE TypeOK'
    <3>1. d \in Client /\ d \in Product
      BY DEF Client, Product
    <3>2. fails' \in 0 .. MaxFails
      BY <2>13 DEF BuildFails
    <3>3. tracked' \subseteq Product /\ needed' \in [Product -> SUBSET Product]
      BY <2>13, <3>1 DEF BuildFails, Collect
    <3>4. /\ update' \in [Product -> [changed : Verdict, deps : SUBSET Product]]
      BY <2>13, <3>1 DEF BuildFails, SendDone, Verdict
    <3>5. pc' \in [Client -> WaitPc \cup {"idle", "old", "run", "done"}]
      BY <2>13, <3>1 DEF BuildFails, SendDone
    <3> QED BY <2>13, <3>2, <3>3, <3>4, <3>5 DEF BuildFails
  <2>14. ASSUME NEW p \in Product, WorkerDone(p) PROVE TypeOK'
    <3>1. /\ update[p].changed \in Verdict /\ update[p].deps \in SUBSET Product
          /\ p \in Client
      BY DEF Client
    <3>2. acc' \in [Client -> Verdict]
      BY <2>14, <3>1, JoinType DEF WorkerDone
    <3>3. rdeps' \in [Product -> SUBSET Product]
      BY <2>14, <3>1 DEF WorkerDone, UpdateRdeps
    <3>4. update' \in [Product -> [changed : Verdict, deps : SUBSET Product]]
      BY <2>14 DEF WorkerDone, NoUpdate, Verdict
    <3> QED BY <2>14, <3>1, <3>2, <3>3, <3>4 DEF WorkerDone, outside
  <2>15. ASSUME Save PROVE TypeOK'
    BY <2>15 DEF Save, table, process
  <2>16. ASSUME CrashAndResume PROVE TypeOK'
    BY <2>16 DEF CrashAndResume, NoUpdate, Verdict, outside
  <2>17. CASE UNCHANGED vars
    BY <2>17 DEF vars, table, process, outside
  <2> QED
    BY <2>1, <2>2, <2>3, <2>4, <2>5, <2>6, <2>7, <2>8, <2>9, <2>10, <2>11, <2>12,
       <2>13, <2>14, <2>15, <2>16, <2>17 DEF Next, Work, Environment, WorkerStep, RuleStep
<1> QED BY <1>1, <1>2, PTL DEF Spec

-----------------------------------------------------------------------------
(* The inductive invariant behind the two properties about waiting.        *)
WaitInv == WaitersServed /\ Rooted /\ QuietWhenIdle

(* A process that is not receiving has no call outstanding.                *)
LEMMA NotReceiving ==
  ASSUME WaitersServed, TypeOK, NEW c \in Client, pc[c] \notin WaitPc
  PROVE  Answered(c)
  BY DEF WaitersServed, Answered, TypeOK

(* A worker that has all its answers moves on, and may ask for more.       *)
LEMMA WorkerMoves ==
  ASSUME TypeOK, WaitInv, NEW p \in Product, p \in Live, Answered(p),
         NEW place, place # "idle", pc' = [pc EXCEPT ![p] = place],
         NEW D \in SUBSET Product, D # {} => place \in WaitPc,
         todo' = [todo EXCEPT ![p] = D],
         UNCHANGED <<phase, waiters>>
  PROVE  WaitInv'
  <1> p \in Client
    BY DEF Client
  <1>1. Live' = Live
    BY DEF Live, TypeOK, Client
  <1>2. WaitersServed'
    <2>1. /\ \A q \in Product : (phase'[q] = "waiting") <=> (q \in Live')
          /\ \A q \in Product : (waiters'[q] # {}) <=> (q \in Live')
      BY <1>1 DEF WaitInv, WaitersServed
    <2>2. ASSUME NEW c \in Client, NEW q \in Product, c \in waiters[q] \/ q \in todo'[c]
          PROVE  pc'[c] \in WaitPc /\ ~(c \in waiters[q] /\ q \in todo'[c])
      <3>1. CASE c = p
        BY <2>2, <3>1 DEF Answered, TypeOK
      <3>2. CASE c # p
        BY <2>2, <3>2 DEF WaitInv, WaitersServed, TypeOK
      <3> QED BY <3>1, <3>2
    <2> QED BY <2>1, <2>2 DEF WaitersServed
  <1>3. Rooted'
    BY <1>1 DEF WaitInv, Rooted
  <1>4. QuietWhenIdle'
    BY <1>1 DEF WaitInv, QuietWhenIdle, TypeOK
  <1> QED BY <1>2, <1>3, <1>4 DEF WaitInv

(* A transaction begins: nothing is being evaluated.                       *)
LEMMA TransactionBegins ==
  ASSUME TypeOK, WaitInv, pc[Outer] = "idle",
         \A p \in Product : phase'[p] # "waiting",
         waiters' = [p \in Product |-> {}],
         pc' = [pc EXCEPT ![Outer] = "outer_wait"],
         NEW D \in SUBSET Product, todo' = [todo EXCEPT ![Outer] = D]
  PROVE  WaitInv'
  <1>1. Live = {} /\ Live' = {}
    BY RedoAssumption DEF WaitInv, QuietWhenIdle, Live, TypeOK, Client
  <1>2. ASSUME NEW c \in Client, NEW q \in Product, q \in todo'[c]
        PROVE  pc'[c] \in WaitPc
    <2>1. CASE c = Outer
      BY <2>1 DEF TypeOK, WaitPc, Client
    <2>2. CASE c # Outer
      BY <1>2, <2>2 DEF WaitInv, WaitersServed, TypeOK
    <2> QED BY <2>1, <2>2
  <1> QED BY <1>1, <1>2 DEF WaitInv, WaitersServed, Rooted, QuietWhenIdle

(* The answer of a transaction is its own: no worker is left behind.       *)
LEMMA TransactionEnds ==
  ASSUME TypeOK, WaitInv, Reply PROVE WaitInv'
  <1> USE DEF Reply, table
  <1>1. Live = {}
    <2>1. SUFFICES ASSUME Live # {} PROVE FALSE
      OBVIOUS
    <2>2. PICK p \in Live : \E c \in waiters[p] : c \notin Live
      BY <2>1 DEF WaitInv, Rooted
    <2>3. PICK c \in waiters[p] : c \notin Live
      BY <2>2
    <2>4. p \in Product /\ c \in Client
      BY DEF Live, TypeOK
    <2>5. pc[c] # "idle"
      BY <2>4 DEF WaitInv, WaitersServed, WaitPc
    <2>6. c = Outer
      BY <2>3, <2>4, <2>5 DEF Live, Client
    <2> QED BY <2>4, <2>6 DEF Answered
  <1>2. Live' = {}
    BY <1>1, RedoAssumption DEF Live, TypeOK, Client
  <1>3. ASSUME NEW c \in Client, NEW q \in Product, c \in waiters[q] \/ q \in todo[c]
        PROVE  pc'[c] \in WaitPc
    <2>1. c # Outer
      BY <1>3 DEF Answered, TypeOK
    <2> QED BY <1>3, <2>1 DEF WaitInv, WaitersServed, TypeOK
  <1> QED BY <1>1, <1>2, <1>3 DEF WaitInv, WaitersServed, Rooted, QuietWhenIdle

(* A call is taken from the mailbox.                                       *)
LEMMA EvalKeepsWaitInv ==
  ASSUME TypeOK, WaitInv, NEW c \in Client, NEW p \in Product, Eval(c, p)
  PROVE  WaitInv'
  <1>1. /\ p \in todo[c] /\ todo' = [todo EXCEPT ![c] = @ \ {p}]
        /\ pc[c] \in WaitPc /\ pc[c] # "idle"
    BY DEF Eval, WaitInv, WaitersServed, WaitPc
  <1>2. \A k \in Client, q \in Product : q \in todo'[k] => q \in todo[k]
    BY <1>1 DEF TypeOK
  <1>3. ASSUME UNCHANGED <<phase, waiters, pc>> PROVE WaitInv'
    BY <1>2, <1>3 DEF WaitInv, WaitersServed, Rooted, QuietWhenIdle, Live
  <1>4. CASE EvalKnown(c, p)
    BY <1>3, <1>4 DEF EvalKnown, table
  <1>5. CASE EvalUnknown(c, p)
    BY <1>3, <1>5 DEF EvalUnknown, table
  <1>6. CASE EvalJoin(c, p)
    <2> USE <1>6 DEF EvalJoin
    <2>1. Live' = Live /\ p \in Live
      BY DEF Live, WaitInv, WaitersServed
    <2>2. \A q \in Product : waiters[q] \subseteq waiters'[q]
      BY DEF TypeOK
    <2>3. \A q \in Product : (waiters'[q] # {}) <=> (q \in Live')
      BY <2>1 DEF WaitInv, WaitersServed, TypeOK
    <2>4. ASSUME NEW k \in Client, NEW q \in Product
          PROVE  /\ (k \in waiters'[q] \/ q \in todo'[k]) => pc'[k] \in WaitPc
                 /\ ~(k \in waiters'[q] /\ q \in todo'[k])
      BY <1>1, <1>2 DEF WaitInv, WaitersServed, TypeOK
    <2>5. Rooted'
      <3>1. Live \subseteq Product
        BY DEF Live
      <3> QED BY <2>1, <2>2, <3>1 DEF WaitInv, Rooted
    <2> QED BY <2>1, <2>3, <2>4, <2>5 DEF WaitInv, WaitersServed, QuietWhenIdle
  <1>7. CASE EvalSpawn(c, p)
    <2> USE <1>7 DEF EvalSpawn
    <2> p \in Client
      BY DEF Client
    <2>1. /\ p \notin Live /\ c # p /\ waiters[p] = {} /\ todo[p] = {}
          /\ \A q \in Product : p \notin waiters[q]
      BY <1>1 DEF WaitInv, WaitersServed, Live, WaitPc, TypeOK
    <2>2. pc'[p] # "idle" /\ \A k \in Client : k # p => pc'[k] = pc[k]
      BY DEF TypeOK
    <2>3. Live' = Live \cup {p}
      BY <2>2 DEF Live, Client
    <2>4. \A q \in Product : phase'[q] = "waiting" <=> q \in Live'
      BY <2>3 DEF WaitInv, WaitersServed, TypeOK
    <2>5. \A q \in Product : waiters'[q] # {} <=> q \in Live'
      BY <2>3 DEF WaitInv, WaitersServed, TypeOK
    <2>6. ASSUME NEW k \in Client, NEW q \in Product
          PROVE  /\ (k \in waiters'[q] \/ q \in todo'[k]) => pc'[k] \in WaitPc
                 /\ ~(k \in waiters'[q] /\ q \in todo'[k])
      BY <1>1, <1>2, <2>1, <2>2 DEF WaitInv, WaitersServed, TypeOK
    <2>7. Rooted'
      <3> SUFFICES ASSUME NEW S \in SUBSET Live', S # {}
                   PROVE  \E q \in S : \E k \in waiters'[q] : k \notin S
        BY DEF Rooted
      <3>1. CASE S = {p}
        BY <2>1, <3>1 DEF TypeOK
      <3>2. CASE S # {p}
        <4>1. S \ {p} \in SUBSET Live /\ S \ {p} # {}
          BY <2>3, <3>2
        <4>2. PICK q \in S \ {p} : \E k \in waiters[q] : k \notin S \ {p}
          BY <4>1 DEF WaitInv, Rooted
        <4>3. q \in Product /\ waiters'[q] = waiters[q]
          BY <4>1, <4>2 DEF Live, TypeOK
        <4> QED BY <2>1, <4>2, <4>3
      <3> QED BY <3>1, <3>2
    <2>8. QuietWhenIdle'
      <3>1. pc[Outer] # "idle"
        BY <1>1 DEF WaitInv, QuietWhenIdle, Live, Client
      <3>2. Outer \in Client /\ (Outer = p => pc'[Outer] # "idle")
        BY <2>2 DEF Client
      <3> QED BY <2>2, <3>1, <3>2 DEF QuietWhenIdle
    <2> QED BY <2>4, <2>5, <2>6, <2>7, <2>8 DEF WaitInv, WaitersServed
  <1> QED BY <1>4, <1>5, <1>6, <1>7 DEF Eval

(* A finished worker answers all who wait for it and is gone.              *)
LEMMA DoneKeepsWaitInv ==
  ASSUME TypeOK, WaitInv, NEW p \in Product, WorkerDone(p)
  PROVE  WaitInv'
  <1> USE DEF WorkerDone
  <1> p \in Client
    BY DEF Client
  <1>1. /\ \A q \in Product : p \notin waiters[q]
        /\ todo[p] = {} /\ p \in Live
    BY DEF WaitInv, WaitersServed, Live, WaitPc, TypeOK
  <1>2. Live' = Live \ {p}
    BY DEF Live, TypeOK, Client
  <1>3. phase'[p] # "waiting" /\ waiters'[p] = {}
    BY DEF TypeOK, Verdict
  <1>4. \A q \in Product : q # p => phase'[q] = phase[q] /\ waiters'[q] = waiters[q]
    BY DEF TypeOK
  <1>5. \A q \in Product : /\ phase'[q] = "waiting" <=> q \in Live'
                           /\ waiters'[q] # {} <=> q \in Live'
    BY <1>2, <1>3, <1>4 DEF WaitInv, WaitersServed
  <1>6. ASSUME NEW k \in Client, NEW q \in Product
        PROVE  /\ (k \in waiters'[q] \/ q \in todo[k]) => pc'[k] \in WaitPc
               /\ ~(k \in waiters'[q] /\ q \in todo[k])
    BY <1>1, <1>3, <1>4 DEF WaitInv, WaitersServed, TypeOK
  <1>7. Rooted'
    <2>1. \A q \in Live' : q \in Product /\ waiters'[q] = waiters[q]
      BY <1>2, <1>4 DEF Live
    <2> QED BY <1>2, <2>1 DEF WaitInv, Rooted
  <1>8. QuietWhenIdle'
    <2>1. Outer # p
      BY RedoAssumption
    <2> QED BY <1>2, <2>1 DEF QuietWhenIdle, WaitInv, TypeOK
  <1> QED BY <1>5, <1>6, <1>7, <1>8 DEF WaitInv, WaitersServed

(* The invariant holds in every behaviour of every network.                *)
LEMMA WaitInvariance == Spec => []WaitInv
<1>1. Init => WaitInv
  <2> SUFFICES ASSUME Init PROVE WaitInv
    OBVIOUS
  <2>1. Live = {}
    BY DEF Init, Live, Client
  <2> QED BY <2>1 DEF Init, WaitInv, WaitersServed, Rooted, QuietWhenIdle
<1>2. TypeOK /\ WaitInv /\ [Next]_vars => WaitInv'
  <2> SUFFICES ASSUME TypeOK, WaitInv, [Next]_vars PROVE WaitInv'
    OBVIOUS
  <2> USE RedoAssumption
  <2>1. ASSUME UNCHANGED <<phase, waiters, pc, todo>> PROVE WaitInv'
    BY <2>1 DEF WaitInv, WaitersServed, Rooted, QuietWhenIdle, Live
  <2>2. ASSUME NEW s \in Source, Edit(s) PROVE WaitInv'
    BY <2>1, <2>2 DEF Edit, table, process
  <2>3. ASSUME NEW R \in Pulls, BeginPull(R) PROVE WaitInv'
    BY <2>3, TransactionBegins DEF BeginPull
  <2>4. ASSUME NEW P \in Pushes, BeginPush(P[1], P[2]) PROVE WaitInv'
    <3>1. \A p \in Product : phase'[p] # "waiting"
      BY <2>4 DEF BeginPush
    <3>2. /\ pc[Outer] = "idle" /\ waiters' = [p \in Product |-> {}]
          /\ pc' = [pc EXCEPT ![Outer] = "outer_wait"]
          /\ todo' = [todo EXCEPT ![Outer] = Closure(P[1])]
      BY <2>4 DEF BeginPush
    <3>3. PICK D \in SUBSET Product : D = Closure(P[1])
      BY ClosureType, Zenon
    <3>4. todo' = [todo EXCEPT ![Outer] = D]
      BY <3>2, <3>3, Zenon
    <3> QED BY <3>1, <3>2, <3>3, <3>4, TransactionBegins
  <2>5. ASSUME Reply PROVE WaitInv'
    BY <2>5, TransactionEnds
  <2>6. ASSUME NEW c \in Client, NEW p \in Product, Eval(c, p) PROVE WaitInv'
    BY <2>6, EvalKeepsWaitInv
  <2>7. ASSUME NEW p \in Product, p \in Live, Answered(p), UNCHANGED <<phase, waiters, todo>>,
               NEW place, place # "idle", pc' = [pc EXCEPT ![p] = place]
        PROVE  WaitInv'
    <3>1. todo' = [todo EXCEPT ![p] = {}]
      BY <2>7 DEF Answered, TypeOK, Client
    <3> QED BY <2>7, <3>1, WorkerMoves
  <2>8. ASSUME NEW p \in Product, pc[p] \in {"old", "run"} PROVE p \in Live /\ Answered(p)
    BY <2>8, NotReceiving DEF Live, WaitInv, WaitPc, Client
  <2>9. ASSUME NEW p \in Product, pc[p] \in WaitPc PROVE p \in Live
    BY <2>9 DEF Live, WaitPc
  <2>10. ASSUME NEW p \in Product, CheckOld(p) PROVE WaitInv'
    <3>1. deps[p] \in SUBSET Product
      BY DEF TypeOK
    <3> QED BY <2>8, <2>10, <3>1, WorkerMoves, ZenonT(30) DEF CheckOld, NeedCall, WaitPc
  <2>11. ASSUME NEW p \in Product, OldChecked(p) PROVE WaitInv'
    <3>1. p \in Live /\ Answered(p)
      BY <2>9, <2>11 DEF OldChecked, WaitPc
    <3>2. \E v \in {"done", "run"} : pc' = [pc EXCEPT ![p] = v]
      BY <2>11 DEF OldChecked, SendDone
    <3>3. UNCHANGED <<phase, waiters, todo>>
      BY <2>11 DEF OldChecked
    <3> QED BY <2>7, <3>1, <3>2, <3>3
  <2>12. ASSUME NEW s \in Source, Poll(s) PROVE WaitInv'
    <3>1. s \in Product /\ s \in Live /\ Answered(s)
      BY <2>8, <2>12 DEF Poll, Product
    <3> QED BY <2>7, <2>12, <3>1 DEF Poll, SendDone
  <2>13. ASSUME NEW d \in Derived, NeedFirst(d) PROVE WaitInv'
    <3>1. d \in Product /\ d \in Live /\ Answered(d) /\ First[d] \in SUBSET Product
      BY <2>8, <2>13 DEF NeedFirst, Product
    <3> QED BY <2>13, <3>1, WorkerMoves DEF NeedFirst, NeedCall, WaitPc
  <2>14. ASSUME NEW d \in Derived, NeedSecond(d) PROVE WaitInv'
    <3>1. d \in Product /\ Second[d][content[Control]] \in SUBSET Product
      BY DEF TypeOK, Product
    <3>2. d \in Live /\ Answered(d)
      BY <2>9, <2>14, <3>1 DEF NeedSecond, WaitPc
    <3>3. PICK D \in SUBSET Product : todo' = [todo EXCEPT ![d] = D]
      BY <2>14, <3>1 DEF NeedSecond, NeedCall
    <3>5. pc' = [pc EXCEPT ![d] = "second_wait"] /\ UNCHANGED <<phase, waiters>>
      BY <2>14 DEF NeedSecond
    <3>4. "second_wait" # "idle" /\ "second_wait" \in WaitPc
      BY DEF WaitPc
    <3> QED BY <3>1, <3>2, <3>3, <3>4, <3>5, WorkerMoves
  <2>15. ASSUME NEW d \in Derived, NeedFailed(d) \/ Build(d) \/ BuildFails(d)
         PROVE  WaitInv'
    <3>1. d \in Product
      BY DEF Product
    <3>2. d \in Live /\ Answered(d)
      BY <2>9, <2>15, <3>1 DEF NeedFailed, Build, BuildFails, WaitPc
    <3>3. pc' = [pc EXCEPT ![d] = "done"] /\ UNCHANGED <<phase, waiters, todo>>
      BY <2>15 DEF NeedFailed, Build, BuildFails, SendDone, table
    <3> QED BY <2>7, <3>1, <3>2, <3>3
  <2>16. ASSUME NEW p \in Product, WorkerDone(p) PROVE WaitInv'
    BY <2>16, DoneKeepsWaitInv
  <2>17. ASSUME Save PROVE WaitInv'
    BY <2>1, <2>17 DEF Save, table, process
  <2>18. ASSUME CrashAndResume PROVE WaitInv'
    <3>1. Live' = {}
      BY <2>18 DEF CrashAndResume, Live, Client
    <3> QED BY <2>18, <3>1 DEF CrashAndResume, WaitInv, WaitersServed, Rooted, QuietWhenIdle
  <2>19. CASE UNCHANGED vars
    BY <2>1, <2>19 DEF vars, table, process
  <2> QED
    BY <2>2, <2>3, <2>4, <2>5, <2>6, <2>10, <2>11, <2>12, <2>13, <2>14, <2>15, <2>16,
       <2>17, <2>18, <2>19 DEF Next, Work, Environment, WorkerStep, RuleStep
<1> QED BY <1>1, <1>2, TypeCorrect, PTL DEF Spec

(* Nobody waits for a product that no worker is at, in any network.        *)
THEOREM WaitersAreServed == Spec => []WaitersServed
<1>1. WaitInv => WaitersServed
  BY DEF WaitInv
<1> QED BY <1>1, WaitInvariance, PTL

(* A transaction that was answered has left no worker running.             *)
THEOREM QuietAfterAnswer == Spec => []QuietWhenIdle
<1>1. WaitInv => QuietWhenIdle
  BY DEF WaitInv
<1> QED BY <1>1, WaitInvariance, PTL

-----------------------------------------------------------------------------
(* The table that push follows is the inverse of the recorded dependencies *)
(* as long as no state was merged, and never claims more than they do.     *)
THEOREM ReverseDependencies == Spec => []RdepsInverse
<1>1. Init => RdepsInverse
  BY DEF Init, RdepsInverse
<1>2. TypeOK /\ RdepsInverse /\ [Next]_vars => RdepsInverse'
  <2> SUFFICES ASSUME TypeOK, RdepsInverse, [Next]_vars PROVE RdepsInverse'
    OBVIOUS
  <2>1. ASSUME UNCHANGED <<deps, rdeps>> PROVE RdepsInverse'
    BY <2>1 DEF RdepsInverse
  <2>2. ASSUME NEW p \in Product, WorkerDone(p) PROVE RdepsInverse'
    <3> DEFINE new == update[p].deps
    <3>1. deps' = [deps EXCEPT ![p] = new] /\ rdeps' = UpdateRdeps(p, new)
      BY <2>2 DEF WorkerDone
    <3>2. ASSUME NEW q \in Product, NEW x \in Product
          PROVE  /\ q \in rdeps'[x] => x \in deps'[q]
                 /\ ~Resume => (x \in deps'[q] => q \in rdeps'[x])
      BY <3>1 DEF UpdateRdeps, RdepsInverse, TypeOK
    <3> QED BY <3>2 DEF RdepsInverse
  <2>3. ASSUME CrashAndResume PROVE RdepsInverse'
    BY <2>3 DEF CrashAndResume, RdepsInverse
  <2>4. CASE Work
    <3>1. ASSUME NEW c \in Client, NEW p \in Product, Eval(c, p) PROVE RdepsInverse'
      BY <2>1, <3>1 DEF Eval, EvalKnown, EvalJoin, EvalSpawn, EvalUnknown, table
    <3>2. ASSUME NEW p \in Product, CheckOld(p) \/ OldChecked(p) PROVE RdepsInverse'
      BY <2>1, <3>2 DEF CheckOld, OldChecked
    <3>3. ASSUME NEW s \in Source, Poll(s) PROVE RdepsInverse'
      BY <2>1, <3>3 DEF Poll
    <3>4. ASSUME NEW d \in Derived, RuleStep(d) PROVE RdepsInverse'
      BY <2>1, <3>4 DEF RuleStep, NeedFirst, NeedSecond, NeedFailed, Build, table
    <3>5. ASSUME Reply PROVE RdepsInverse'
      BY <2>1, <3>5 DEF Reply, table
    <3> QED BY <2>2, <2>4, <3>1, <3>2, <3>3, <3>4, <3>5 DEF Work, WorkerStep
  <2>5. CASE Environment
    <3>1. ASSUME NEW s \in Source, Edit(s) PROVE RdepsInverse'
      BY <2>1, <3>1 DEF Edit, table
    <3>2. ASSUME NEW R \in Pulls, BeginPull(R) PROVE RdepsInverse'
      BY <2>1, <3>2 DEF BeginPull
    <3>3. ASSUME NEW P \in Pushes, BeginPush(P[1], P[2]) PROVE RdepsInverse'
      BY <2>1, <3>3 DEF BeginPush
    <3>4. ASSUME NEW d \in Derived, BuildFails(d) PROVE RdepsInverse'
      BY <2>1, <3>4 DEF BuildFails
    <3>5. ASSUME Save PROVE RdepsInverse'
      BY <2>1, <3>5 DEF Save, table
    <3> QED BY <2>3, <2>5, <3>1, <3>2, <3>3, <3>4, <3>5 DEF Environment
  <2>6. CASE UNCHANGED vars
    BY <2>1, <2>6 DEF vars, table
  <2> QED BY <2>4, <2>5, <2>6 DEF Next
<1> QED BY <1>1, <1>2, TypeCorrect, PTL DEF Spec

-----------------------------------------------------------------------------
(* The refinement of EvalOnce.  What changes neither phases, nor calls that*)
(* were not answered, nor answers, is no step of it.                       *)
LEMMA NoOpenCalls ==
  ASSUME TypeOK, WaitInv, pc[Outer] = "idle"
  PROVE  /\ \A p \in Product : phase[p] # "waiting" /\ waiters[p] = {}
         /\ \A c \in Client : todo[c] = {} /\ Open[c] = {}
<1>1. Live = {}
  BY DEF WaitInv, QuietWhenIdle
<1>2. \A p \in Product : phase[p] # "waiting" /\ waiters[p] = {}
  BY <1>1 DEF WaitInv, WaitersServed
<1>3. \A c \in Client : pc[c] \notin WaitPc
  BY <1>1 DEF Live, Client, WaitPc
<1>4. \A c \in Client : todo[c] = {}
  BY <1>3 DEF WaitInv, WaitersServed, TypeOK
<1> QED
  BY <1>2, <1>4 DEF Open

LEMMA BeginsOnce ==
  ASSUME TypeOK, WaitInv, pc[Outer] = "idle", \A p \in Product : phase'[p] # "waiting",
         waiters' = [p \in Product |-> {}], acc' = [acc EXCEPT ![Outer] = "false"],
         NEW D \in SUBSET Product, todo' = [todo EXCEPT ![Outer] = D]
  PROVE  Once!Begin(Outer)
<1>1. Outer \in Client /\ Open = [c \in Client |-> {}]
  BY NoOpenCalls DEF Client, Open
<1>2. Open' = [Open EXCEPT ![Outer] = Open'[Outer]]
  BY <1>1, NoOpenCalls, ZenonT(30) DEF Open, TypeOK
<1> QED
  BY <1>1, <1>2, NoOpenCalls DEF Once!Begin, Once!Call

LEMMA AsksOnce ==
  ASSUME TypeOK, NEW c \in Client, Answered(c), NEW D \in SUBSET Product,
         todo' = [todo EXCEPT ![c] = D], acc' = [acc EXCEPT ![c] = "false"],
         UNCHANGED <<phase, waiters>>
  PROVE  Once!Ask(c)
<1>1. Open[c] = {}
  BY DEF Open, Answered
<1>2. Open' = [Open EXCEPT ![c] = Open'[c]]
  <2>1. \A k \in Client : k # c => todo'[k] = todo[k]
    BY DEF TypeOK
  <2>2. \A k \in Client : k # c => Open'[k] = Open[k]
    BY <2>1 DEF Open
  <2>3. Open' = [k \in Client |-> Open'[k]] /\ Open = [k \in Client |-> Open[k]]
    BY DEF Open
  <2> HIDE DEF Open
  <2> QED
    BY <2>2, <2>3
<1> QED
  BY <1>1, <1>2 DEF Once!Ask, Once!Call

LEMMA EvalsOnce ==
  ASSUME TypeOK, WaitInv, NEW c \in Client, NEW p \in Product, Eval(c, p)
  PROVE  [Once!Next]_(Once!vars)
<1>1. p \in todo[c] /\ c \notin waiters[p] /\ todo' = [todo EXCEPT ![c] = @ \ {p}]
  BY DEF Eval, WaitInv, WaitersServed
<1>2. p \in Open[c]
  BY <1>1 DEF Open
<1>3. ASSUME waiters' = waiters PROVE Open' = [Open EXCEPT ![c] = @ \ {p}]
  <2>1. todo'[c] = todo[c] \ {p} /\ \A k \in Client : k # c => todo'[k] = todo[k]
    BY <1>1 DEF TypeOK
  <2>2. Open'[c] = Open[c] \ {p}
    BY <1>1, <1>3, <2>1 DEF Open
  <2>3. \A k \in Client : k # c => Open'[k] = Open[k]
    BY <1>3, <2>1 DEF Open
  <2>4. Open' = [k \in Client |-> Open'[k]] /\ Open = [k \in Client |-> Open[k]]
    BY DEF Open
  <2> HIDE DEF Open
  <2> QED
    BY <2>2, <2>3, <2>4
<1>4. ASSUME waiters' = [waiters EXCEPT ![p] = @ \cup {c}] PROVE Open' = Open
  BY <1>1, <1>4 DEF Open, TypeOK
<1>5. CASE EvalKnown(c, p)
  <2>1. Once!Tell(c, p)
    BY <1>2, <1>3, <1>5 DEF EvalKnown, table, Once!Tell
  <2> QED
    BY <2>1 DEF Once!Next
<1>6. CASE EvalJoin(c, p)
  BY <1>4, <1>6 DEF EvalJoin, Once!vars
<1>7. CASE EvalSpawn(c, p)
  <2>1. waiters[p] = {}
    BY <1>7 DEF EvalSpawn, WaitInv, WaitersServed
  <2>2. waiters' = [waiters EXCEPT ![p] = @ \cup {c}]
    BY <1>7, <2>1 DEF EvalSpawn
  <2>3. Once!Start(p)
    BY <1>2, <1>4, <1>7, <2>2 DEF EvalSpawn, Once!Start
  <2> QED
    BY <2>3 DEF Once!Next
<1>8. CASE EvalUnknown(c, p)
  <2>1. Once!Refuse(c, p)
    BY <1>2, <1>3, <1>8 DEF EvalUnknown, table, Once!Refuse
  <2> QED
    BY <2>1 DEF Once!Next
<1> QED
  BY <1>5, <1>6, <1>7, <1>8 DEF Eval

LEMMA SettlesOnce ==
  ASSUME TypeOK, WaitInv, NEW p \in Product, WorkerDone(p)
  PROVE  Once!Settle(p)
<1>1. /\ phase[p] = "waiting" /\ phase' = [phase EXCEPT ![p] = update[p].changed]
      /\ waiters' = [waiters EXCEPT ![p] = {}] /\ todo' = todo
      /\ acc' = [c \in Client |-> IF c \in waiters[p] THEN Join(acc[c], update[p].changed) ELSE acc[c]]
      /\ update[p].changed \in Verdict
  BY DEF WorkerDone, TypeOK
<1>2. phase'[p] = update[p].changed
  BY <1>1 DEF TypeOK
<1>3. \A c \in waiters[p] : c \in Client /\ p \notin todo[c]
  BY DEF WaitInv, WaitersServed, TypeOK
<1>4. {c \in Client : p \in Open[c] /\ p \notin Open'[c]} = waiters[p]
  BY <1>1, <1>3 DEF Open, TypeOK
<1>5. Open' = [c \in Client |-> IF c \in waiters[p] THEN Open[c] \ {p} ELSE Open[c]]
  BY <1>1, <1>3 DEF Open, TypeOK
<1> QED
  BY <1>1, <1>2, <1>4, <1>5 DEF Once!Settle

LEMMA OnceStep == TypeOK /\ WaitInv /\ [Next]_vars => [Once!Next]_(Once!vars)
<1> SUFFICES ASSUME TypeOK, WaitInv, [Next]_vars PROVE [Once!Next]_(Once!vars)
  OBVIOUS
<1> USE RedoAssumption
<1>1. ASSUME UNCHANGED <<phase, waiters, todo, acc>> PROVE UNCHANGED Once!vars
  BY <1>1 DEF Open, Once!vars
<1>2. ASSUME NEW s \in Source, Edit(s) PROVE UNCHANGED Once!vars
  BY <1>1, <1>2 DEF Edit, table, process
<1>3. ASSUME NEW R \in Pulls, BeginPull(R) PROVE Once!Begin(Outer)
  <2>1. \A p \in Product : phase'[p] # "waiting"
    BY <1>3 DEF BeginPull
  <2> QED
    BY <1>3, <2>1, BeginsOnce DEF BeginPull
<1>4. ASSUME NEW P \in Pushes, BeginPush(P[1], P[2]) PROVE Once!Begin(Outer)
  <2>1. \A p \in Product : phase'[p] # "waiting"
    BY <1>4 DEF BeginPush
  <2>2. /\ pc[Outer] = "idle" /\ waiters' = [p \in Product |-> {}]
        /\ todo' = [todo EXCEPT ![Outer] = Closure(P[1])]
        /\ acc' = [acc EXCEPT ![Outer] = "false"]
        /\ phase' \in [Product -> {"none", "waiting"} \cup Verdict]
    BY <1>4 DEF BeginPush, Verdict
  <2> QED BY <2>1, <2>2, ClosureType, BeginsOnce
<1>5. ASSUME Reply \/ Save PROVE UNCHANGED Once!vars
  BY <1>1, <1>5 DEF Reply, Save, table, process
<1>6. ASSUME NEW p \in Product, CheckOld(p) PROVE Once!Ask(p)
  <2>1. p \in Client /\ deps[p] \in SUBSET Product /\ Answered(p)
    BY <1>6, NotReceiving DEF CheckOld, Client, TypeOK, WaitInv, WaitPc
  <2> QED
    BY <1>6, <2>1, AsksOnce DEF CheckOld, NeedCall
<1>7. ASSUME NEW p \in Product, OldChecked(p) PROVE UNCHANGED Once!vars
  BY <1>1, <1>7 DEF OldChecked
<1>8. ASSUME NEW s \in Source, Poll(s) PROVE UNCHANGED Once!vars
  BY <1>1, <1>8 DEF Poll
<1>9. ASSUME NEW d \in Derived, NeedFirst(d) PROVE Once!Ask(d)
  <2>1. d \in Client /\ First[d] \in SUBSET Product /\ Answered(d)
    BY <1>9, NotReceiving DEF NeedFirst, Client, Product, WaitInv, WaitPc
  <2> QED
    BY <1>9, <2>1, AsksOnce DEF NeedFirst, NeedCall
<1>10. ASSUME NEW d \in Derived, NeedSecond(d) PROVE Once!Ask(d)
  <2>1. d \in Client /\ Answered(d)
    BY <1>10 DEF NeedSecond, Client, Product
  <2>2. Second[d][content[Control]] \in SUBSET Product
    BY DEF TypeOK
  <2>3. PICK D \in SUBSET Product : D = Second[d][content[Control]]
    BY <2>2
  <2>4. /\ todo' = [todo EXCEPT ![d] = D] /\ acc' = [acc EXCEPT ![d] = "false"]
        /\ UNCHANGED <<phase, waiters>>
    BY <1>10, <2>3 DEF NeedSecond, NeedCall
  <2> QED
    BY <2>1, <2>4, AsksOnce
<1>11. ASSUME NEW d \in Derived, NeedFailed(d) \/ Build(d) \/ BuildFails(d) PROVE UNCHANGED Once!vars
  BY <1>1, <1>11 DEF NeedFailed, Build, BuildFails, table
<1>12. ASSUME NEW p \in Product, WorkerDone(p) PROVE Once!Settle(p)
  BY <1>12, SettlesOnce
<1>13. ASSUME CrashAndResume PROVE Once!Lose
  <2>1. Open' = [c \in Client |-> {}]
    BY <1>13 DEF CrashAndResume, Open
  <2> QED
    BY <1>13, <2>1 DEF CrashAndResume, Once!Lose
<1>14. CASE UNCHANGED vars
  BY <1>1, <1>14 DEF vars, table, process
<1>15. CASE Work
  <2>1. ASSUME NEW p \in Product, WorkerStep(p) PROVE [Once!Next]_(Once!vars)
    <3>1. p \in Client
      BY DEF Client
    <3> QED
      BY <1>6, <1>7, <1>12, <2>1, <3>1 DEF WorkerStep, Once!Next
  <2>2. ASSUME NEW d \in Derived, RuleStep(d) PROVE [Once!Next]_(Once!vars)
    <3>1. d \in Client
      BY DEF Client, Product
    <3> QED
      BY <1>9, <1>10, <1>11, <2>2, <3>1 DEF RuleStep, Once!Next
  <2> QED
    BY <1>5, <1>8, <1>15, <2>1, <2>2, EvalsOnce DEF Work
<1>16. CASE Environment
  <2>1. Outer \in Client
    BY DEF Client
  <2> QED
    BY <1>2, <1>3, <1>4, <1>5, <1>11, <1>13, <1>16, <2>1 DEF Environment, Once!Next
<1> QED
  BY <1>14, <1>15, <1>16 DEF Next

(* In any network, whatever is pulled, pushed, saved, resumed or fails: a  *)
(* product is evaluated at most once in a transaction, and every caller is *)
(* told its one verdict.                                                   *)
THEOREM EvaluatesAtMostOnce == Spec => EvaluatesOnce
<1>1. Init => Once!Init
  BY DEF Init, Open, Once!Init
<1> QED
  BY <1>1, OnceStep, TypeCorrect, WaitInvariance, PTL DEF Spec, EvaluatesOnce, Once!Spec

-----------------------------------------------------------------------------
(* Induction, in the form these proofs use it: what is true of some number *)
(* is true of a least one.                                                 *)
LEMMA LeastNumber ==
  ASSUME NEW T \in SUBSET Nat, T # {}
  PROVE  \E x \in T : \A y \in T : x <= y
<1> DEFINE I == {1 .. n : n \in T}
           R == StrictSubsetOrdering(Nat)
<1>1. IsWellFoundedOn(R, FiniteSubsetsOf(Nat))
  BY FS_StrictSubsetOrderingWellFounded
<1>2. I \subseteq FiniteSubsetsOf(Nat)
  <2> SUFFICES ASSUME NEW n \in T PROVE 1 .. n \in SUBSET Nat /\ IsFiniteSet(1 .. n)
    BY DEF FiniteSubsetsOf
  <2>1. n \in Nat /\ 1 \in Int /\ n \in Int
    OBVIOUS
  <2> QED
    BY <2>1, FS_Interval
<1>3. PICK X \in I : \A Y \in I : ~(<<Y, X>> \in R)
  <2>1. I # {}
    OBVIOUS
  <2> HIDE DEF R, I
  <2> QED
    BY <1>1, <1>2, <2>1, WFMin
<1>4. PICK x \in T : X = 1 .. x
  OBVIOUS
<1>5. ASSUME NEW y \in T PROVE x <= y
  <2>1. ~(<<1 .. y, 1 .. x>> \in R)
    BY <1>3, <1>4
  <2>2. ~(1 .. y \subseteq 1 .. x /\ 1 .. y # 1 .. x)
    BY <2>1 DEF StrictSubsetOrdering
  <2>3. y \in Nat /\ x \in Nat
    OBVIOUS
  <2>4. ASSUME y < x PROVE FALSE
    <3>1. 1 .. y \subseteq 1 .. x
      BY <2>3, <2>4
    <3>2. x \in 1 .. x /\ x \notin 1 .. y
      BY <2>3, <2>4
    <3> QED
      BY <2>2, <3>1, <3>2
  <2> QED
    BY <2>3, <2>4
<1> QED
  BY <1>5

(* The walk of transitive_closure/2 is defined, one step of it a number.   *)
IsWalk(f, n, C, R) ==
  f = [m \in 0 .. n |-> IF m = 0 THEN C ELSE f[m-1] \cup UNION {R[x] : x \in f[m-1]}]

LEMMA WalkExists ==
  ASSUME NEW N \in Nat, NEW C, NEW R
  PROVE  \E f : IsWalk(f, N, C, R)
<1> DEFINE T == {n \in 0 .. N : ~ \E f : IsWalk(f, n, C, R)}
<1>1. T = {}
  <2> SUFFICES ASSUME T # {} PROVE FALSE
    OBVIOUS
  <2>1. PICK n \in T : \A m \in T : n <= m
    <3>1. T \in SUBSET Nat
      OBVIOUS
    <3> HIDE DEF T
    <3> QED
      BY <3>1, LeastNumber
  <2>2. n \in 0 .. N /\ n \in Nat /\ ~ \E f : IsWalk(f, n, C, R)
    OBVIOUS
  <2>3. CASE n = 0
    <3>1. PICK f : f = [m \in 0 .. 0 |-> C]
      OBVIOUS
    <3>2. f = [m \in 0 .. 0 |-> IF m = 0 THEN C ELSE f[m-1] \cup UNION {R[x] : x \in f[m-1]}]
      BY <3>1
    <3> QED
      BY <2>2, <2>3, <3>2 DEF IsWalk
  <2>4. CASE n # 0
    <3>1. n - 1 \in 0 .. N /\ ~(n <= n - 1)
      BY <2>2, <2>4
    <3>2. n - 1 \notin T
      BY <2>1, <3>1
    <3>3. PICK g : IsWalk(g, n - 1, C, R)
      BY <3>1, <3>2
    <3>4. PICK f : f = [m \in 0 .. n |-> IF m = n THEN g[n-1] \cup UNION {R[x] : x \in g[n-1]} ELSE g[m]]
      OBVIOUS
    <3>5. ASSUME NEW m \in 0 .. n
          PROVE  f[m] = IF m = 0 THEN C ELSE f[m-1] \cup UNION {R[x] : x \in f[m-1]}
      <4>1. CASE m = n
        <5>1. m # 0 /\ m - 1 \in 0 .. n /\ m - 1 # n
          BY <2>2, <2>4, <4>1
        <5>2. f[m-1] = g[n-1]
          BY <3>4, <4>1, <5>1
        <5> QED
          BY <3>4, <4>1, <5>1, <5>2
      <4>2. CASE m # n
        <5>1. m \in 0 .. n - 1 /\ f[m] = g[m]
          BY <2>2, <3>4, <4>2
        <5>2. g[m] = IF m = 0 THEN C ELSE g[m-1] \cup UNION {R[x] : x \in g[m-1]}
          BY <3>3, <5>1 DEF IsWalk
        <5>3. m # 0 => f[m-1] = g[m-1]
          <6>1. m # 0 => m - 1 \in 0 .. n /\ m - 1 # n
            BY <2>2, <5>1
          <6> QED
            BY <3>4, <6>1
        <5> QED
          BY <5>1, <5>2, <5>3
      <4> QED
        BY <4>1, <4>2
    <3>6. f = [m \in 0 .. n |-> IF m = 0 THEN C ELSE f[m-1] \cup UNION {R[x] : x \in f[m-1]}]
      <4>1. f = [m \in 0 .. n |-> f[m]]
        BY <3>4
      <4> QED
        BY <3>5, <4>1
    <3> QED
      BY <2>2, <3>6 DEF IsWalk
  <2> QED
    BY <2>3, <2>4
<1> QED
  BY <1>1

LEMMA UpwardIs ==
  ASSUME NEW C
  PROVE  \E f : IsWalk(f, Cardinality(Product), C, rdeps) /\ Upward(C) = f[Cardinality(Product)]
<1> DEFINE N == Cardinality(Product)
<1>1. N \in Nat
  BY RedoAssumption, FS_CardinalityType
<1>2. \E f : IsWalk(f, N, C, rdeps)
  <2> HIDE DEF N
  <2> QED
    BY <1>1, WalkExists
<1>3. Upward(C) = (CHOOSE f : IsWalk(f, N, C, rdeps))[N]
  BY DEF Upward, IsWalk
<1> QED
  BY <1>2, <1>3

(* The walk stays within what is closed under it.                          *)
LEMMA UpwardWithin ==
  ASSUME NEW C, NEW V, C \subseteq V, \A x \in V : rdeps[x] \subseteq V
  PROVE  Upward(C) \subseteq V
<1> DEFINE N == Cardinality(Product)
<1>1. N \in Nat
  BY RedoAssumption, FS_CardinalityType
<1>2. PICK f : IsWalk(f, N, C, rdeps) /\ Upward(C) = f[N]
  BY UpwardIs
<1> HIDE DEF N
<1>3. \A n \in 0 .. N : f[n] = IF n = 0 THEN C ELSE f[n-1] \cup UNION {rdeps[x] : x \in f[n-1]}
  BY <1>2 DEF IsWalk
<1> DEFINE T == {n \in 0 .. N : ~(f[n] \subseteq V)}
<1>4. T = {}
  <2> SUFFICES ASSUME T # {} PROVE FALSE
    OBVIOUS
  <2>1. PICK n \in T : \A m \in T : n <= m
    <3>1. T \in SUBSET Nat
      OBVIOUS
    <3> HIDE DEF T
    <3> QED
      BY <3>1, LeastNumber
  <2>2. n \in 0 .. N /\ n \in Nat /\ ~(f[n] \subseteq V)
    OBVIOUS
  <2>3. n # 0
    BY <1>3, <2>2
  <2>4. n - 1 \in 0 .. N /\ ~(n <= n - 1)
    BY <1>1, <2>2, <2>3
  <2>5. f[n-1] \subseteq V
    BY <2>1, <2>4
  <2>6. f[n] = f[n-1] \cup UNION {rdeps[x] : x \in f[n-1]}
    BY <1>3, <2>2, <2>3
  <2> QED
    BY <2>2, <2>5, <2>6
<1>5. N \in 0 .. N
  BY <1>1
<1> QED
  BY <1>2, <1>4, <1>5

-----------------------------------------------------------------------------
(* No cycle of dependencies.  There is no rank of products to go by, since *)
(* needs turn around between runs: for every product there is a set that   *)
(* holds what it depends on, whatever that depends on, and not itself.     *)
Settled == {p \in Product : phase[p] \in Verdict}
Closed(W, D) == \A x \in W : D[x] \subseteq W
Acyclic(D) == \A p \in Product : \E W \in SUBSET Product : Closed(W, D) /\ D[p] \subseteq W /\ p \notin W
Owed(p) == Settled \cup Open[p]

(* What a worker has needed was settled in this transaction, or is open:   *)
(* so what it records was settled before it, and nothing that was settled  *)
(* depends on it.                                                          *)
Needing(p) ==
  /\ pc[p] \in {"old", "run"} => needed[p] = {}
  /\ pc[p] \in WaitPc => acc[p] = "error" \/ needed[p] \subseteq Owed(p)
  /\ pc[p] = "old_wait" => acc[p] = "error" \/ deps[p] \subseteq Owed(p)
  /\ pc[p] = "done" => update[p].deps \subseteq Settled

SourceNeeds(s) == /\ deps[s] = {} /\ saved.deps[s] = {} /\ update[s].deps = {}
                  /\ pc[s] \in {"idle", "run", "done"}

NeedsInv ==
  /\ Acyclic(deps) /\ Acyclic(saved.deps)
  /\ \A s \in Source : SourceNeeds(s)
  /\ Closed(Settled, deps)
  /\ \A p \in Product : Needing(p)

LEMMA AcyclicGrows ==
  ASSUME NEW D \in [Product -> SUBSET Product], Acyclic(D),
         NEW V \in SUBSET Product, Closed(V, D), NEW p \in Product, p \notin V,
         NEW N \in SUBSET V, NEW E, E = [D EXCEPT ![p] = N]
  PROVE  Acyclic(E) /\ Closed(V \cup {p}, E)
<1>1. E[p] = N /\ \A x \in Product : x # p => E[x] = D[x]
  OBVIOUS
<1>2. Closed(V, E)
  BY <1>1 DEF Closed
<1>3. ASSUME NEW q \in Product
      PROVE  \E W \in SUBSET Product : Closed(W, E) /\ E[q] \subseteq W /\ q \notin W
  <2>1. CASE q = p
    BY <1>1, <1>2, <2>1
  <2>2. CASE q # p
    <3>1. PICK W \in SUBSET Product : Closed(W, D) /\ D[q] \subseteq W /\ q \notin W
      BY DEF Acyclic
    <3>2. CASE q \in V
      <4>1. Closed(W \cap V, E)
        BY <1>1, <3>1 DEF Closed
      <4>2. E[q] \subseteq W \cap V /\ q \notin W \cap V
        BY <1>1, <2>2, <3>1, <3>2 DEF Closed
      <4> QED
        BY <4>1, <4>2
    <3>3. CASE q \notin V
      <4>1. Closed(W \cup V, E)
        BY <1>1, <3>1 DEF Closed
      <4>2. E[q] \subseteq W \cup V /\ q \notin W \cup V
        BY <1>1, <2>2, <3>1, <3>3
      <4> QED
        BY <4>1, <4>2
    <3> QED
      BY <3>2, <3>3
  <2> QED
    BY <2>1, <2>2
<1> QED
  BY <1>1, <1>2, <1>3 DEF Acyclic, Closed

(* A step that leaves the dependencies alone and settles nothing less, by  *)
(* which no process is owed less than before.                              *)
LEMMA NeedsKept ==
  ASSUME TypeOK, NeedsInv, UNCHANGED <<phase, deps, saved>>,
         \A s \in Source : SourceNeeds(s)', \A p \in Product : Needing(p)'
  PROVE  NeedsInv'
<1>1. Settled' = Settled
  BY DEF Settled
<1> QED
  BY <1>1 DEF NeedsInv, Acyclic, Closed

LEMMA AnsweredNeeds ==
  ASSUME TypeOK, NeedsInv, NEW p \in Product, Answered(p), pc[p] \in WaitPc, acc[p] # "error"
  PROVE  needed[p] \subseteq Settled /\ (pc[p] = "old_wait" => deps[p] \subseteq Settled)
<1>1. Open[p] = {}
  BY DEF Open, Answered, Client
<1> QED
  BY <1>1 DEF NeedsInv, Needing, Owed

(* A worker takes a step by itself.                                        *)
LEMMA OneWorkerNeeds ==
  ASSUME TypeOK, NeedsInv, NEW p \in Product,
         UNCHANGED <<phase, waiters, deps, saved>>,
         \A q \in Product : q # p => /\ pc'[q] = pc[q] /\ needed'[q] = needed[q] /\ todo'[q] = todo[q]
                                     /\ acc'[q] = acc[q] /\ update'[q] = update[q],
         p \in Source => SourceNeeds(p)', Needing(p)'
  PROVE  NeedsInv'
<1>1. Settled' = Settled
  BY DEF Settled
<1>2. ASSUME NEW q \in Product, q # p PROVE Needing(q)'
  <2>1. q \in Client
    BY DEF Client
  <2>2. Owed(q)' = Owed(q)
    BY <1>1, <1>2, <2>1 DEF Owed, Open
  <2> QED
    BY <1>1, <1>2, <2>2 DEF NeedsInv, Needing
<1>3. ASSUME NEW s \in Source, s # p PROVE SourceNeeds(s)'
  BY <1>3 DEF NeedsInv, SourceNeeds, Product
<1> QED
  BY <1>2, <1>3, NeedsKept

LEMMA EvalNeeds ==
  ASSUME TypeOK, WaitInv, NeedsInv, NEW c \in Client, NEW p \in Product, Eval(c, p)
  PROVE  NeedsInv'
<1>1. /\ p \in todo[c] /\ c \notin waiters[p] /\ todo' = [todo EXCEPT ![c] = @ \ {p}] /\ pc[c] \in WaitPc
      /\ update' = update /\ saved' = saved
  BY DEF Eval, outside, WaitInv, WaitersServed
<1>2. p \in Open[c] /\ \A q \in Product : q \in Client
  BY <1>1 DEF Open, Client
<1>3. ASSUME waiters' = waiters, NEW q \in Client PROVE Open'[q] = IF q = c THEN Open[q] \ {p} ELSE Open[q]
  BY <1>1, <1>3 DEF Open, TypeOK
<1>4. ASSUME waiters' = [waiters EXCEPT ![p] = @ \cup {c}] PROVE Open' = Open
  BY <1>1, <1>4 DEF Open, TypeOK
<1>5. CASE EvalKnown(c, p)
  <2>1. /\ phase[p] \in Verdict /\ acc' = [acc EXCEPT ![c] = Join(@, phase[p])]
        /\ UNCHANGED <<phase, waiters, deps, rdeps, stamp, val, tracked, needed, pc>>
    BY <1>5 DEF EvalKnown, table
  <2>2. Settled' = Settled /\ p \in Settled
    BY <2>1 DEF Settled
  <2>3. ASSUME NEW q \in Product PROVE Needing(q)'
    <3>1. Owed(q)' = Owed(q)
      BY <1>2, <1>3, <2>1, <2>2 DEF Owed
    <3>2. acc[q] = "error" => acc'[q] = "error"
      BY <1>2, <2>1 DEF TypeOK, Join
    <3> QED
      BY <1>1, <2>1, <2>2, <3>1, <3>2 DEF NeedsInv, Needing
  <2>4. \A s \in Source : SourceNeeds(s)'
    BY <1>1, <2>1 DEF NeedsInv, SourceNeeds
  <2> QED
    BY <1>1, <2>1, <2>3, <2>4, NeedsKept
<1>6. CASE EvalJoin(c, p)
  <2>1. /\ waiters' = [waiters EXCEPT ![p] = @ \cup {c}]
        /\ UNCHANGED <<phase, deps, rdeps, stamp, val, tracked, needed, pc, acc>>
    BY <1>6 DEF EvalJoin
  <2>2. Settled' = Settled /\ Open' = Open
    BY <1>4, <2>1 DEF Settled
  <2>3. \A q \in Product : Needing(q)'
    BY <1>1, <2>1, <2>2 DEF NeedsInv, Needing, Owed
  <2>4. \A s \in Source : SourceNeeds(s)'
    BY <1>1, <2>1 DEF NeedsInv, SourceNeeds
  <2> QED
    BY <1>1, <2>1, <2>3, <2>4, NeedsKept
<1>7. CASE EvalSpawn(c, p)
  <2>1. /\ phase[p] = "none" /\ phase' = [phase EXCEPT ![p] = "waiting"] /\ waiters' = [waiters EXCEPT ![p] = {c}]
        /\ needed'  = [needed EXCEPT ![p] = {}]
        /\ pc' = [pc EXCEPT ![p] = IF deps[p] = {} THEN "run" ELSE "old"]
        /\ UNCHANGED <<deps, rdeps, stamp, val, acc>>
    BY <1>7 DEF EvalSpawn
  <2>2. waiters[p] = {}
    BY <2>1 DEF WaitInv, WaitersServed
  <2>3. Open' = Open
    <3>1. waiters' = [waiters EXCEPT ![p] = @ \cup {c}]
      BY <2>1, <2>2
    <3> QED
      BY <1>4, <3>1
  <2>4. Settled' = Settled
    BY <2>1 DEF Settled, Verdict, TypeOK
  <2>5. ASSUME NEW q \in Product PROVE Needing(q)'
    <3>1. CASE q = p
      <4>1. needed'[p] = {} /\ pc'[p] \in {"old", "run"}
        BY <1>2, <2>1 DEF TypeOK
      <4> QED
        BY <3>1, <4>1 DEF Needing, WaitPc
    <3>2. CASE q # p
      <4>1. needed'[q] = needed[q] /\ pc'[q] = pc[q] /\ Owed(q)' = Owed(q)
        BY <1>2, <2>1, <2>3, <2>4, <3>2 DEF TypeOK, Owed
      <4> QED
        BY <1>1, <2>1, <2>4, <4>1 DEF NeedsInv, Needing
    <3> QED
      BY <3>1, <3>2
  <2>6. ASSUME NEW s \in Source PROVE SourceNeeds(s)'
    BY <1>1, <1>2, <2>1 DEF NeedsInv, SourceNeeds, TypeOK
  <2>7. Acyclic(deps)' /\ Acyclic(saved.deps)' /\ Closed(Settled, deps)'
    BY <1>1, <2>1, <2>4 DEF NeedsInv, Acyclic, Closed
  <2> QED
    BY <2>5, <2>6, <2>7 DEF NeedsInv
<1>8. CASE EvalUnknown(c, p)
  <2>1. /\ acc' = [acc EXCEPT ![c] = "error"]
        /\ UNCHANGED <<phase, waiters, deps, rdeps, stamp, val, tracked, needed, pc>>
    BY <1>8 DEF EvalUnknown, table
  <2>2. Settled' = Settled
    BY <2>1 DEF Settled
  <2>3. ASSUME NEW q \in Product PROVE Needing(q)'
    <3>1. CASE q = c
      <4>1. acc'[q] = "error"
        BY <1>2, <2>1, <3>1 DEF TypeOK
      <4>2. pc'[q] \in WaitPc
        BY <1>1, <2>1, <3>1
      <4> QED
        BY <4>1, <4>2 DEF Needing, WaitPc
    <3>2. CASE q # c
      <4>1. acc'[q] = acc[q] /\ Owed(q)' = Owed(q)
        BY <1>2, <1>3, <2>1, <2>2, <3>2 DEF TypeOK, Owed
      <4> QED
        BY <1>1, <2>1, <2>2, <4>1 DEF NeedsInv, Needing
    <3> QED
      BY <3>1, <3>2
  <2>4. \A s \in Source : SourceNeeds(s)'
    BY <1>1, <2>1 DEF NeedsInv, SourceNeeds
  <2> QED
    BY <1>1, <2>1, <2>3, <2>4, NeedsKept
<1> QED
  BY <1>5, <1>6, <1>7, <1>8 DEF Eval

LEMMA DoneNeeds ==
  ASSUME TypeOK, WaitInv, NeedsInv, NEW p \in Product, WorkerDone(p)
  PROVE  NeedsInv'
<1> DEFINE new == update[p].deps
<1>1. /\ pc[p] = "done" /\ phase[p] = "waiting" /\ phase' = [phase EXCEPT ![p] = update[p].changed]
      /\ deps' = [deps EXCEPT ![p] = new] /\ waiters' = [waiters EXCEPT ![p] = {}]
      /\ pc' = [pc EXCEPT ![p] = "idle"] /\ update' = [update EXCEPT ![p] = NoUpdate]
      /\ acc' = [c \in Client |-> IF c \in waiters[p] THEN Join(acc[c], update[p].changed) ELSE acc[c]]
      /\ UNCHANGED <<needed, todo, saved>> /\ update[p].changed \in Verdict
  BY DEF WorkerDone, outside, TypeOK
<1>2. \A q \in Product : q \in Client
  BY DEF Client
<1>3. new \subseteq Settled /\ p \notin Settled
  BY <1>1, <1>2 DEF NeedsInv, Needing, Settled, Verdict, WaitPc
<1>4. Settled' = Settled \cup {p}
  BY <1>1 DEF Settled, TypeOK
<1>5. Acyclic(deps)' /\ Closed(Settled, deps)'
  <2>1. deps \in [Product -> SUBSET Product] /\ Settled \in SUBSET Product /\ Acyclic(deps) /\ Closed(Settled, deps)
        /\ new \in SUBSET Settled
    BY <1>3 DEF TypeOK, Settled, NeedsInv
  <2>2. Acyclic(deps') /\ Closed(Settled \cup {p}, deps')
    BY <1>1, <1>3, <2>1, AcyclicGrows
  <2> QED
    BY <1>4, <2>2 DEF Acyclic, Closed
<1>6. ASSUME NEW q \in Product PROVE Needing(q)'
  <2>1. CASE q = p
    BY <1>1, <1>2, <2>1 DEF Needing, WaitPc, TypeOK
  <2>2. CASE q # p
    <3>1. pc'[q] = pc[q] /\ update'[q] = update[q] /\ deps'[q] = deps[q] /\ needed'[q] = needed[q]
      BY <1>1, <1>2, <2>2 DEF TypeOK
    <3>2. Owed(q) \subseteq Owed(q)'
      <4>1. Open[q] \subseteq Open'[q] \cup {p}
        BY <1>1, <1>2 DEF Open, TypeOK
      <4> QED
        BY <1>4, <4>1 DEF Owed
    <3>3. acc[q] = "error" => acc'[q] = "error"
      BY <1>1, <1>2 DEF TypeOK, Join
    <3> QED
      BY <1>4, <3>1, <3>2, <3>3 DEF NeedsInv, Needing
  <2> QED
    BY <2>1, <2>2
<1>7. ASSUME NEW s \in Source PROVE SourceNeeds(s)'
  <2>1. s \in Product /\ s \in Client /\ SourceNeeds(s)
    BY <1>2 DEF Product, NeedsInv
  <2> QED
    BY <1>1, <2>1 DEF SourceNeeds, TypeOK, NoUpdate
<1>8. Acyclic(saved.deps)'
  BY <1>1 DEF NeedsInv, Acyclic, Closed
<1> QED
  BY <1>5, <1>6, <1>7, <1>8 DEF NeedsInv

LEMMA BeginNeeds ==
  ASSUME TypeOK, WaitInv, NeedsInv, pc[Outer] = "idle", pc' = [pc EXCEPT ![Outer] = "outer_wait"],
         \A p \in Product \ Source : phase'[p] \notin Verdict, UNCHANGED <<deps, update, saved>>
  PROVE  NeedsInv'
<1>1. \A p \in Product : pc[p] = "idle" /\ pc'[p] = "idle"
  <2>1. \A p \in Product : pc[p] = "idle"
    BY DEF WaitInv, QuietWhenIdle, Live
  <2> QED
    BY <2>1, RedoAssumption DEF TypeOK, Client
<1>2. \A p \in Product : Needing(p)'
  BY <1>1 DEF Needing, WaitPc
<1>3. \A s \in Source : SourceNeeds(s)'
  BY <1>1 DEF NeedsInv, SourceNeeds, Product
<1>4. Closed(Settled, deps)'
  BY DEF Closed, Settled, NeedsInv, SourceNeeds
<1> QED
  BY <1>2, <1>3, <1>4 DEF NeedsInv, Acyclic, Closed

LEMMA NeedsInvariance == Spec => []NeedsInv
<1>1. Init => NeedsInv
  <2> SUFFICES ASSUME Init PROVE NeedsInv
    OBVIOUS
  <2>1. Acyclic(deps) /\ Acyclic(saved.deps)
    <3>1. \A p \in Product : deps[p] = {} /\ saved.deps[p] = {}
      BY DEF Init
    <3>2. {} \in SUBSET Product /\ Closed({}, deps) /\ Closed({}, saved.deps)
      BY DEF Closed
    <3> QED
      BY <3>1, <3>2 DEF Acyclic
  <2>2. \A s \in Source : SourceNeeds(s)
    BY DEF Init, SourceNeeds, Product, Client, NoUpdate
  <2>3. Closed(Settled, deps)
    BY DEF Init, Closed, Settled, Verdict
  <2>4. \A p \in Product : Needing(p)
    BY DEF Init, Needing, Client, WaitPc
  <2> QED
    BY <2>1, <2>2, <2>3, <2>4 DEF NeedsInv
<1>2. TypeOK /\ WaitInv /\ NeedsInv /\ [Next]_vars => NeedsInv'
  <2> SUFFICES ASSUME TypeOK, WaitInv, NeedsInv, [Next]_vars PROVE NeedsInv'
    OBVIOUS
  <2>0. \A p \in Product : p \in Client /\ p # Outer
    BY RedoAssumption DEF Client
  <2>1. ASSUME UNCHANGED <<phase, waiters, deps, needed, todo, acc, update, saved>>,
               \A p \in Product : pc'[p] = pc[p]
        PROVE  NeedsInv'
    <3>1. Settled' = Settled /\ Open' = Open
      BY <2>1 DEF Settled, Open
    <3>2. \A p \in Product : Needing(p)'
      BY <2>1, <3>1 DEF NeedsInv, Needing, Owed
    <3>3. \A s \in Source : SourceNeeds(s)'
      BY <2>1 DEF NeedsInv, SourceNeeds, Product
    <3> QED
      BY <2>1, <3>2, <3>3, NeedsKept
  <2>2. ASSUME NEW s \in Source, Edit(s) PROVE NeedsInv'
    BY <2>1, <2>2 DEF Edit, table, process
  <2>3. ASSUME NEW R \in Pulls, BeginPull(R) PROVE NeedsInv'
    BY <2>3, BeginNeeds DEF BeginPull, Verdict
  <2>4. ASSUME NEW P \in Pushes, BeginPush(P[1], P[2]) PROVE NeedsInv'
    <3>1. P[1] \subseteq Source /\ P[2] \subseteq Source
      BY RedoAssumption
    <3>2. \A p \in Product \ Source : phase'[p] \notin Verdict
      BY <2>4, <3>1 DEF BeginPush, Verdict
    <3> QED
      BY <2>4, <3>2, BeginNeeds DEF BeginPush
  <2>5. ASSUME Reply PROVE NeedsInv'
    BY <2>0, <2>1, <2>5 DEF Reply, table, outside, TypeOK
  <2>6. ASSUME NEW p \in Product, CheckOld(p) PROVE NeedsInv'
    <3>1. /\ pc[p] = "old" /\ todo' = [todo EXCEPT ![p] = deps[p]]
          /\ needed' = (IF p \in tracked THEN [needed EXCEPT ![p] = @ \cup deps[p]] ELSE needed)
          /\ acc' = [acc EXCEPT ![p] = "false"] /\ pc' = [pc EXCEPT ![p] = "old_wait"]
          /\ UNCHANGED <<phase, waiters, deps, update, saved>>
      BY <2>6 DEF CheckOld, NeedCall, outside
    <3>2. needed[p] = {} /\ deps[p] \subseteq Open'[p] /\ needed'[p] \subseteq deps[p]
      BY <2>0, <3>1 DEF NeedsInv, Needing, Open, TypeOK
    <3>3. Needing(p)'
      BY <2>0, <3>1, <3>2 DEF Needing, Owed, TypeOK
    <3>4. p \in Source => SourceNeeds(p)'
      BY <3>1 DEF NeedsInv, SourceNeeds
    <3>5. \A q \in Product : q # p => /\ pc'[q] = pc[q] /\ needed'[q] = needed[q] /\ todo'[q] = todo[q]
                                      /\ acc'[q] = acc[q] /\ update'[q] = update[q]
      BY <2>0, <3>1 DEF TypeOK
    <3> QED
      BY <3>1, <3>3, <3>4, <3>5, OneWorkerNeeds
  <2>7. ASSUME NEW p \in Product, OldChecked(p) PROVE NeedsInv'
    <3>1. /\ pc[p] = "old_wait" /\ Answered(p) /\ needed' = [needed EXCEPT ![p] = {}]
          /\ UNCHANGED <<phase, waiters, deps, todo, acc, saved>>
          /\ \/ /\ acc[p] = "false" /\ update' = [update EXCEPT ![p] = [changed |-> "false", deps |-> deps[p]]]
                /\ pc' = [pc EXCEPT ![p] = "done"]
             \/ /\ pc' = [pc EXCEPT ![p] = "run"] /\ update' = update
      BY <2>7 DEF OldChecked, Collect, SendDone, outside
    <3>2. needed'[p] = {} /\ Settled' = Settled
      BY <3>1 DEF TypeOK, Settled
    <3>3. Needing(p)'
      <4>1. CASE acc[p] = "false" /\ update' = [update EXCEPT ![p] = [changed |-> "false", deps |-> deps[p]]]
                 /\ pc' = [pc EXCEPT ![p] = "done"]
        <5>1. deps[p] \subseteq Settled
          BY <3>1, <4>1, AnsweredNeeds DEF WaitPc
        <5>2. pc'[p] = "done" /\ update'[p].deps = deps[p]
          BY <2>0, <4>1 DEF TypeOK
        <5> QED
          BY <3>2, <5>1, <5>2 DEF Needing, WaitPc
      <4>2. CASE pc' = [pc EXCEPT ![p] = "run"]
        BY <2>0, <3>2, <4>2 DEF Needing, WaitPc, TypeOK
      <4> QED
        BY <3>1, <4>1, <4>2
    <3>4. p \in Source => SourceNeeds(p)'
      BY <3>1 DEF NeedsInv, SourceNeeds
    <3>5. \A q \in Product : q # p => /\ pc'[q] = pc[q] /\ needed'[q] = needed[q] /\ todo'[q] = todo[q]
                                      /\ acc'[q] = acc[q] /\ update'[q] = update[q]
      BY <2>0, <3>1 DEF TypeOK
    <3> QED
      BY <3>1, <3>3, <3>4, <3>5, OneWorkerNeeds
  <2>8. ASSUME NEW s \in Source, Poll(s) PROVE NeedsInv'
    <3>1. s \in Product /\ SourceNeeds(s) /\ Needing(s)
      BY DEF Product, NeedsInv
    <3>2. PICK v : update' = [update EXCEPT ![s] = [changed |-> v, deps |-> Collected(s)]]
      BY <2>8 DEF Poll, SendDone
    <3>3. /\ pc[s] = "run" /\ pc' = [pc EXCEPT ![s] = "done"] /\ needed' = [needed EXCEPT ![s] = {}]
          /\ UNCHANGED <<phase, waiters, deps, todo, acc, saved>>
      BY <2>8 DEF Poll, SendDone, Collect, outside
    <3>4. update'[s].deps = {} /\ pc'[s] = "done"
      BY <2>0, <3>1, <3>2, <3>3 DEF Collected, Needing, TypeOK
    <3>5. Needing(s)' /\ SourceNeeds(s)'
      BY <3>1, <3>3, <3>4 DEF Needing, SourceNeeds, WaitPc
    <3>6. \A q \in Product : q # s => /\ pc'[q] = pc[q] /\ needed'[q] = needed[q] /\ todo'[q] = todo[q]
                                      /\ acc'[q] = acc[q] /\ update'[q] = update[q]
      BY <2>0, <3>2, <3>3 DEF TypeOK
    <3> QED
      BY <3>1, <3>3, <3>5, <3>6, OneWorkerNeeds
  <2>9. ASSUME NEW d \in Derived, NeedFirst(d) \/ NeedSecond(d) PROVE NeedsInv'
    <3>1. d \in Product /\ d \notin Source
      BY RedoAssumption DEF Product
    <3>2. PICK D : NeedCall(d, D)
      BY <2>9 DEF NeedFirst, NeedSecond
    <3>3. PICK w \in {"first_wait", "second_wait"} : pc' = [pc EXCEPT ![d] = w]
      BY <2>9 DEF NeedFirst, NeedSecond
    <3>4. UNCHANGED <<phase, waiters, deps, update, saved>>
      BY <2>9 DEF NeedFirst, NeedSecond
    <3>5. needed[d] \subseteq Settled
      <4>1. CASE pc[d] = "run"
        BY <3>1, <4>1 DEF NeedsInv, Needing
      <4>2. CASE pc[d] = "first_wait" /\ Answered(d) /\ acc[d] # "error"
        BY <3>1, <4>2, AnsweredNeeds DEF WaitPc
      <4> QED
        BY <2>9, <4>1, <4>2 DEF NeedFirst, NeedSecond
    <3>6. Settled' = Settled
      BY <3>4 DEF Settled
    <3>7. needed'[d] \subseteq needed[d] \cup D /\ todo'[d] = D /\ pc'[d] = w
      BY <2>0, <3>1, <3>2, <3>3 DEF NeedCall, TypeOK
    <3>8. D \subseteq Open'[d]
      BY <2>0, <3>1, <3>7 DEF Open
    <3>9. Needing(d)'
      BY <3>3, <3>5, <3>6, <3>7, <3>8 DEF Needing, WaitPc, Owed
    <3>10. \A q \in Product : q # d => /\ pc'[q] = pc[q] /\ needed'[q] = needed[q] /\ todo'[q] = todo[q]
                                       /\ acc'[q] = acc[q] /\ update'[q] = update[q]
      BY <2>0, <3>2, <3>3, <3>4 DEF TypeOK, NeedCall
    <3> QED
      BY <3>1, <3>4, <3>9, <3>10, OneWorkerNeeds
  <2>10. ASSUME NEW d \in Derived, NeedFailed(d) \/ Build(d) \/ BuildFails(d) PROVE NeedsInv'
    <3>1. d \in Product /\ d \notin Source
      BY RedoAssumption DEF Product
    <3>2. PICK v, N : update' = [update EXCEPT ![d] = [changed |-> v, deps |-> N]] /\ N \subseteq Settled
      <4>1. CASE NeedFailed(d) \/ BuildFails(d)
        BY <4>1 DEF NeedFailed, BuildFails, SendDone
      <4>2. CASE Build(d)
        <5>1. needed[d] \subseteq Settled
          BY <3>1, <4>2, AnsweredNeeds DEF Build, WaitPc
        <5>2. Collected(d) \subseteq Settled
          BY <5>1 DEF Collected
        <5> QED
          BY <4>2, <5>2 DEF Build, SendDone
      <4> QED
        BY <2>10, <4>1, <4>2
    <3>3. /\ pc' = [pc EXCEPT ![d] = "done"] /\ UNCHANGED <<phase, waiters, deps, todo, acc, saved>>
          /\ needed' = needed \/ needed' = [needed EXCEPT ![d] = {}]
      BY <2>10 DEF NeedFailed, Build, BuildFails, SendDone, Collect, table, outside
    <3>4. update'[d].deps = N /\ pc'[d] = "done" /\ Settled' = Settled
      BY <2>0, <3>1, <3>2, <3>3 DEF TypeOK, Settled
    <3>5. Needing(d)'
      BY <3>2, <3>4 DEF Needing, WaitPc
    <3>6. \A q \in Product : q # d => /\ pc'[q] = pc[q] /\ needed'[q] = needed[q] /\ todo'[q] = todo[q]
                                      /\ acc'[q] = acc[q] /\ update'[q] = update[q]
      BY <2>0, <3>2, <3>3 DEF TypeOK
    <3> QED
      BY <3>1, <3>3, <3>5, <3>6, OneWorkerNeeds
  <2>11. ASSUME Save PROVE NeedsInv'
    <3>1. UNCHANGED <<phase, waiters, deps, needed, todo, acc, update, pc>> /\ saved'.deps = deps
      BY <2>11 DEF Save, table, process
    <3>2. Settled' = Settled /\ Open' = Open
      BY <3>1 DEF Settled, Open
    <3>3. \A p \in Product : Needing(p)'
      BY <3>1, <3>2 DEF NeedsInv, Needing, Owed
    <3>4. \A s \in Source : SourceNeeds(s)'
      BY <3>1 DEF NeedsInv, SourceNeeds
    <3>5. Acyclic(deps)' /\ Acyclic(saved.deps)' /\ Closed(Settled, deps)'
      BY <3>1, <3>2 DEF NeedsInv, Acyclic, Closed
    <3> QED
      BY <3>3, <3>4, <3>5 DEF NeedsInv
  <2>12. ASSUME CrashAndResume PROVE NeedsInv'
    <3>1. /\ phase' = [p \in Product |-> "none"] /\ deps' = saved.deps /\ saved' = saved
          /\ pc' = [c \in Client |-> "idle"] /\ update' = [p \in Product |-> NoUpdate]
      BY <2>12 DEF CrashAndResume, outside
    <3>2. Settled' = {}
      BY <3>1 DEF Settled, Verdict
    <3>3. \A p \in Product : Needing(p)'
      BY <2>0, <3>1 DEF Needing, WaitPc
    <3>4. \A s \in Source : SourceNeeds(s)'
      BY <2>0, <3>1 DEF NeedsInv, SourceNeeds, Product, NoUpdate
    <3>5. Acyclic(deps)' /\ Acyclic(saved.deps)' /\ Closed(Settled, deps)'
      BY <3>1, <3>2 DEF NeedsInv, Acyclic, Closed
    <3> QED
      BY <3>3, <3>4, <3>5 DEF NeedsInv
  <2>13. CASE UNCHANGED vars
    BY <2>1, <2>13 DEF vars, table, process, outside
  <2> QED
    BY <2>2, <2>3, <2>4, <2>5, <2>6, <2>7, <2>8, <2>9, <2>10, <2>11, <2>12, <2>13, EvalNeeds, DoneNeeds
       DEF Next, Work, Environment, WorkerStep, RuleStep
<1> QED BY <1>1, <1>2, TypeCorrect, WaitInvariance, PTL DEF Spec

LEMMA AcyclicUpward ==
  ASSUME RdepsInverse, TypeOK, Acyclic(deps), NEW q \in Product
  PROVE  q \notin Upward(rdeps[q])
<1> DEFINE V == {y \in Product : \A W \in SUBSET Product : Closed(W, deps) /\ deps[y] \subseteq W => q \in W}
<1>1. \A y, z \in Product : z \in rdeps[y] => y \in deps[z]
  BY DEF RdepsInverse
<1>2. rdeps[q] \subseteq V
  BY <1>1 DEF TypeOK
<1>3. ASSUME NEW y \in V PROVE rdeps[y] \subseteq V
  <2> SUFFICES ASSUME NEW z \in rdeps[y] PROVE z \in V
    OBVIOUS
  <2>1. z \in Product /\ y \in deps[z]
    BY <1>1 DEF TypeOK
  <2>2. ASSUME NEW W \in SUBSET Product, Closed(W, deps), deps[z] \subseteq W PROVE q \in W
    <3>1. deps[y] \subseteq W
      BY <2>1, <2>2 DEF Closed
    <3> QED
      BY <2>2, <3>1
  <2> QED
    BY <2>1, <2>2
<1>4. q \notin V
  BY DEF Acyclic
<1> HIDE DEF V
<1>5. Upward(rdeps[q]) \subseteq V
  BY <1>2, <1>3, UpwardWithin
<1> QED
  BY <1>4, <1>5

LEMMA NeedsEnd == RdepsInverse /\ TypeOK /\ NeedsInv => ClosureEnds
BY AcyclicUpward DEF ClosureEnds, NeedsInv

(* In any network, however needs turn around between runs and whatever is  *)
(* saved, lost and resumed, no cycle of dependencies is recorded: the walk *)
(* from a change to what depends on it comes to an end.                    *)
THEOREM ClosuresEnd == Spec => []ClosureEnds
BY NeedsEnd, TypeCorrect, ReverseDependencies, NeedsInvariance, PTL

-----------------------------------------------------------------------------
(* The walk finds everything: after as many steps as there are products it *)
(* has stood still, since every step before that found another product.    *)
LEMMA UpwardClosed ==
  ASSUME TypeOK, NEW C \in SUBSET Product
  PROVE  C \subseteq Upward(C) /\ Upward(C) \subseteq Product /\ \A x \in Upward(C) : rdeps[x] \subseteq Upward(C)
<1> DEFINE N == Cardinality(Product)
           Still(X) == \A x \in X : rdeps[x] \subseteq X
<1>1. N \in Nat
  BY RedoAssumption, FS_CardinalityType
<1>2. PICK f : IsWalk(f, N, C, rdeps) /\ Upward(C) = f[N]
  BY UpwardIs
<1>3. Upward(C) \subseteq Product
  BY UpwardWithin DEF TypeOK
<1> HIDE DEF N
<1>4. \A n \in 0 .. N : f[n] = IF n = 0 THEN C ELSE f[n-1] \cup UNION {rdeps[x] : x \in f[n-1]}
  BY <1>2 DEF IsWalk
<1>5. ASSUME NEW n \in 0 .. N, n # 0
      PROVE  /\ n - 1 \in 0 .. N /\ n \in Nat /\ n - 1 \in Nat /\ ~(n <= n - 1)
             /\ f[n-1] \subseteq f[n] /\ \A x \in f[n-1] : rdeps[x] \subseteq f[n]
             /\ Still(f[n-1]) => f[n] = f[n-1]
  <2>1. n - 1 \in 0 .. N /\ n \in Nat /\ n - 1 \in Nat /\ ~(n <= n - 1)
    BY <1>1, <1>5
  <2>2. f[n] = f[n-1] \cup UNION {rdeps[x] : x \in f[n-1]}
    BY <1>4, <1>5
  <2> QED
    BY <2>1, <2>2
<1>6. \A n \in 0 .. N : C \subseteq f[n] /\ f[n] \subseteq Product
  <2> DEFINE T == {n \in 0 .. N : ~(C \subseteq f[n] /\ f[n] \subseteq Product)}
  <2> SUFFICES ASSUME T # {} PROVE FALSE
    OBVIOUS
  <2>1. PICK n \in T : \A m \in T : n <= m
    <3>1. T \in SUBSET Nat
      OBVIOUS
    <3> HIDE DEF T
    <3> QED
      BY <3>1, LeastNumber
  <2>2. n \in 0 .. N /\ ~(C \subseteq f[n] /\ f[n] \subseteq Product)
    OBVIOUS
  <2>3. n # 0
    BY <1>4, <2>2
  <2>4. C \subseteq f[n-1] /\ f[n-1] \subseteq Product
    BY <1>5, <2>1, <2>2, <2>3
  <2>5. f[n] = f[n-1] \cup UNION {rdeps[x] : x \in f[n-1]}
    BY <1>4, <2>2, <2>3
  <2> QED
    BY <2>2, <2>4, <2>5 DEF TypeOK
<1>7. N \in 0 .. N
  BY <1>1
<1>8. ASSUME NEW m \in 0 .. N, Still(f[m]) PROVE f[N] = f[m]
  <2> DEFINE T == {n \in m .. N : f[n] # f[m]}
  <2> SUFFICES ASSUME T # {} PROVE FALSE
    BY <1>1
  <2>1. PICK n \in T : \A k \in T : n <= k
    <3>1. T \in SUBSET Nat
      BY <1>1
    <3> HIDE DEF T
    <3> QED
      BY <3>1, LeastNumber
  <2>2. n \in m .. N /\ f[n] # f[m]
    OBVIOUS
  <2>3. n \in 0 .. N /\ n # 0 /\ n - 1 \in m .. N
    BY <1>1, <2>2
  <2>4. f[n-1] = f[m]
    BY <1>5, <2>1, <2>3
  <2> HIDE DEF Still
  <2> QED
    BY <1>5, <1>8, <2>2, <2>3, <2>4
<1>9. ASSUME C # {}, \A n \in 0 .. N : ~Still(f[n]) PROVE FALSE
  <2> DEFINE T == {n \in 0 .. N : ~(Cardinality(f[n]) > n)}
  <2>1. \A n \in 0 .. N : IsFiniteSet(f[n]) /\ Cardinality(f[n]) \in Nat /\ Cardinality(f[n]) <= N
    BY <1>6, RedoAssumption, FS_Subset, FS_CardinalityType DEF N
  <2>2. N \in T
    BY <1>1, <1>7, <2>1
  <2>3. PICK n \in T : \A k \in T : n <= k
    <3>1. T \in SUBSET Nat
      OBVIOUS
    <3> HIDE DEF T
    <3> QED
      BY <2>2, <3>1, LeastNumber
  <2>4. n \in 0 .. N /\ ~(Cardinality(f[n]) > n)
    OBVIOUS
  <2>5. n # 0
    <3>1. 0 \in 0 .. N /\ f[0] = C /\ IsFiniteSet(C)
      <4>1. 0 \in 0 .. N
        BY <1>1
      <4>2. f[0] = C
        BY <1>4, <4>1
      <4> QED
        BY <2>1, <4>1, <4>2
    <3>2. Cardinality(C) # 0
      BY <1>9, <3>1, FS_EmptySet
    <3> QED
      BY <2>1, <2>4, <3>1, <3>2
  <2>6. Cardinality(f[n-1]) > n - 1
    BY <1>5, <2>3, <2>4, <2>5
  <2>7. f[n-1] \subseteq f[n] /\ f[n-1] # f[n] /\ n - 1 \in 0 .. N
    <3>1. f[n-1] \subseteq f[n] /\ n - 1 \in 0 .. N /\ \A x \in f[n-1] : rdeps[x] \subseteq f[n]
      BY <1>5, <2>4, <2>5
    <3>2. ~Still(f[n-1])
      BY <1>9, <3>1
    <3> QED
      BY <3>1, <3>2
  <2>8. Cardinality(f[n-1]) < Cardinality(f[n])
    <3>1. /\ Cardinality(f[n-1]) <= Cardinality(f[n])
          /\ Cardinality(f[n]) = Cardinality(f[n-1]) => f[n] = f[n-1]
      BY <2>1, <2>4, <2>7, FS_Subset
    <3> QED
      BY <2>1, <2>4, <2>7, <3>1
  <2> QED
    BY <2>1, <2>4, <2>6, <2>7, <2>8
<1>10. \A x \in Upward(C) : rdeps[x] \subseteq Upward(C)
  <2>1. CASE C = {}
    BY <2>1, UpwardWithin
  <2>2. CASE C # {}
    <3>1. PICK m \in 0 .. N : Still(f[m])
      BY <1>9, <2>2
    <3>2. f[N] = f[m]
      BY <1>8, <3>1
    <3> QED
      BY <1>2, <3>1, <3>2
  <2> QED
    BY <2>1, <2>2
<1> QED
  BY <1>2, <1>3, <1>6, <1>7, <1>10

(* Above every product there is one that nothing depends on.               *)
LEMMA TopExists ==
  ASSUME TypeOK, ClosureEnds, NEW p \in Product
  PROVE  \E t \in Upward({p}) : rdeps[t] = {}
<1> DEFINE U == Upward({p})
           Size(t) == Cardinality(Upward(rdeps[t]))
           T == {Size(t) : t \in U}
<1>1. p \in U /\ U \subseteq Product /\ \A x \in U : rdeps[x] \subseteq U
  BY UpwardClosed
<1>2. ASSUME NEW t \in U
      PROVE  /\ rdeps[t] \in SUBSET Product /\ Upward(rdeps[t]) \subseteq Product
             /\ IsFiniteSet(Upward(rdeps[t])) /\ Size(t) \in Nat
  <2>1. rdeps[t] \in SUBSET Product
    BY <1>1 DEF TypeOK
  <2>2. Upward(rdeps[t]) \subseteq Product
    BY <2>1, UpwardClosed
  <2> QED
    BY <2>1, <2>2, RedoAssumption, FS_Subset, FS_CardinalityType
<1>3. PICK n \in T : \A m \in T : n <= m
  <2>1. T \in SUBSET Nat /\ T # {}
    BY <1>1, <1>2
  <2> HIDE DEF T
  <2> QED
    BY <2>1, LeastNumber
<1>4. PICK t \in U : n = Size(t)
  OBVIOUS
<1>5. ASSUME NEW s \in rdeps[t] PROVE FALSE
  <2>1. s \in U /\ s \in Product
    BY <1>1
  <2>2. s \in Upward(rdeps[t]) /\ rdeps[s] \subseteq Upward(rdeps[t])
        /\ \A x \in Upward(rdeps[t]) : rdeps[x] \subseteq Upward(rdeps[t])
    BY <1>2, UpwardClosed
  <2>3. Upward(rdeps[s]) \subseteq Upward(rdeps[t])
    BY <2>2, UpwardWithin
  <2>4. s \notin Upward(rdeps[s])
    BY <2>1 DEF ClosureEnds
  <2>5. /\ Size(s) <= Size(t) /\ (Size(t) = Size(s) => Upward(rdeps[t]) = Upward(rdeps[s]))
    BY <1>2, <2>3, FS_Subset
  <2>6. Size(s) < Size(t) /\ Size(s) \in Nat /\ Size(t) \in Nat
    BY <1>2, <2>1, <2>2, <2>4, <2>5
  <2>7. n <= Size(s)
    BY <1>3, <2>1
  <2> HIDE DEF Size
  <2> QED
    BY <1>4, <2>6, <2>7
<1> QED
  BY <1>5

LEMMA PushesCover ==
  ASSUME TypeOK, RdepsInverse, NeedsInv, NEW P \in Pushes, BeginPush(P[1], P[2]),
         NEW p \in Upward(P[1]) \ P[1]
  PROVE  asked' \cap Upward({p}) # {}
<1> DEFINE C == P[1]
<1>1. C \subseteq Source /\ C \in SUBSET Product /\ asked' = Closure(C)
  BY RedoAssumption DEF BeginPush, Product
<1> HIDE DEF C
<1>2. p \in Upward(C) /\ p \notin C
  BY DEF C
<1>3. p \in Product /\ \A x \in Upward(C) : rdeps[x] \subseteq Upward(C)
  BY <1>1, <1>2, UpwardClosed
<1>4. PICK t \in Upward({p}) : rdeps[t] = {}
  BY <1>3, NeedsEnd, TopExists
<1>5. Upward({p}) \subseteq Upward(C)
  BY <1>2, <1>3, UpwardWithin
<1>6. t \in Product
  BY <1>1, <1>4, <1>5, UpwardClosed
<1>7. t \notin C
  <2> DEFINE V == {p} \cup {y \in Product : y \notin Source}
  <2>1. ASSUME NEW x \in V PROVE rdeps[x] \subseteq V
    <3>1. x \in Product
      BY <1>3
    <3>2. \A y \in rdeps[x] : y \in Product /\ x \in deps[y]
      BY <3>1 DEF RdepsInverse, TypeOK
    <3>3. \A y \in Source : deps[y] = {}
      BY DEF NeedsInv, SourceNeeds
    <3> QED
      BY <3>2, <3>3
  <2>2. {p} \subseteq V
    OBVIOUS
  <2> HIDE DEF V
  <2>3. Upward({p}) \subseteq V
    BY <2>1, <2>2, UpwardWithin
  <2> QED
    BY <1>1, <1>2, <1>4, <2>3 DEF V
<1>8. t \in Closure(C)
  BY <1>4, <1>5, <1>6, <1>7 DEF Closure
<1> QED
  BY <1>1, <1>4, <1>8

(* A push of changed files asks for something above every product that is  *)
(* recorded to depend on them, in any network and after any history.       *)
THEOREM PushesReachAll == Spec => PushCovers
<1>1. TypeOK /\ RdepsInverse /\ NeedsInv /\ [Next]_vars =>
        [\A P \in Pushes : BeginPush(P[1], P[2]) =>
           \A p \in Upward(P[1]) \ P[1] : asked' \cap Upward({p}) # {}]_vars
  BY PushesCover
<1> QED
  BY <1>1, TypeCorrect, ReverseDependencies, NeedsInvariance, PTL DEF Spec, PushCovers

-----------------------------------------------------------------------------
(* A single moment in time.  First what a process is told of what it has   *)
(* asked for.                                                              *)
Fresh(p) == phase[p] \in {"true", "false"}

(* What a process has asked for, it still waits for, or was told.          *)
Checking(d) ==
  /\ pc[d] \in {"old", "old_wait"} => deps[d] # {}
  /\ pc[d] = "old_wait" /\ acc[d] = "false" => \A x \in deps[d] : x \in Open[d] \/ phase[x] = "false"

Running(d) ==
  pc[d] \in {"first_wait", "second_wait"} =>
    /\ d \in tracked => needed[d] = uses[d]
    /\ acc[d] # "error" => \A x \in uses[d] : x \in Open[d] \/ Fresh(x)

Transacting ==
  /\ pc[Outer] = "outer_wait" =>
       \A x \in asked : \/ x \in Open[Outer] \/ Fresh(x)
                        \/ acc[Outer] = "error" /\ (phase[x] = "error" \/ x \in Unknown)
  /\ pc[Outer] = "idle" /\ answer \in {"true", "false"} => \A x \in asked : Fresh(x)

AskInv ==
  /\ \A d \in Derived : Checking(d) /\ Running(d)
  /\ Transacting
  /\ \A u \in Unknown : phase[u] = "none" /\ deps[u] = {} /\ saved.deps[u] = {}

LEMMA AskKept ==
  ASSUME AskInv, UNCHANGED <<phase, waiters, deps, tracked, needed, todo, acc, pc, asked, answer, uses, saved>>
  PROVE  AskInv'
<1>1. Open' = Open
  BY DEF Open
<1> QED
  BY <1>1 DEF AskInv, Checking, Running, Transacting, Fresh

(* A worker takes a step by itself.                                        *)
LEMMA OneWorkerAsks ==
  ASSUME TypeOK, AskInv, NEW p \in Product, UNCHANGED <<phase, waiters, deps, asked, answer, saved>>,
         \A c \in Client : c # p => pc'[c] = pc[c] /\ todo'[c] = todo[c] /\ acc'[c] = acc[c],
         \A d \in Derived : d # p => /\ uses'[d] = uses[d] /\ needed'[d] = needed[d]
                                     /\ (d \in tracked' <=> d \in tracked),
         p \in Derived => Checking(p)' /\ Running(p)'
  PROVE  AskInv'
<1>1. Outer \in Client /\ Outer # p /\ \A d \in Derived : d \in Client
  BY RedoAssumption DEF Client, Product
<1>2. \A c \in Client : c # p => Open'[c] = Open[c]
  BY DEF Open
<1>3. \A q \in Product : Fresh(q)' = Fresh(q)
  BY DEF Fresh
<1>4. ASSUME NEW d \in Derived PROVE Checking(d)' /\ Running(d)'
  <2>1. CASE d = p
    BY <2>1
  <2>2. CASE d # p
    <3>1. /\ pc'[d] = pc[d] /\ acc'[d] = acc[d] /\ Open'[d] = Open[d] /\ uses'[d] = uses[d]
          /\ needed'[d] = needed[d] /\ (d \in tracked' <=> d \in tracked)
      BY <1>1, <1>2, <2>2
    <3>2. Checking(d)'
      BY <3>1 DEF AskInv, Checking
    <3>3. Running(d)'
      <4>1. uses[d] \subseteq Product
        BY DEF TypeOK
      <4> QED
        BY <1>3, <3>1, <4>1 DEF AskInv, Running
    <3> QED
      BY <3>2, <3>3
  <2> QED
    BY <2>1, <2>2
<1>5. Transacting'
  <2>1. pc'[Outer] = pc[Outer] /\ acc'[Outer] = acc[Outer] /\ Open'[Outer] = Open[Outer]
    BY <1>1, <1>2
  <2> QED
    BY <2>1 DEF AskInv, Transacting, Fresh
<1> QED
  BY <1>4, <1>5 DEF AskInv

LEMMA EvalAsks ==
  ASSUME TypeOK, WaitInv, AskInv, NEW c \in Client, NEW p \in Product, Eval(c, p)
  PROVE  AskInv'
<1>1. /\ p \in todo[c] /\ c \notin waiters[p] /\ todo' = [todo EXCEPT ![c] = @ \ {p}] /\ pc[c] \in WaitPc
      /\ UNCHANGED <<asked, answer, uses, saved>>
  BY DEF Eval, outside, WaitInv, WaitersServed
<1>2. p \in Open[c] /\ Outer \in Client /\ \A d \in Derived : d \in Client /\ d \in Product
  BY <1>1 DEF Open, Client, Product
<1>3. ASSUME waiters' = waiters, NEW q \in Client PROVE Open'[q] = IF q = c THEN Open[q] \ {p} ELSE Open[q]
  BY <1>1, <1>3 DEF Open, TypeOK
<1>4. ASSUME waiters' = [waiters EXCEPT ![p] = @ \cup {c}] PROVE Open' = Open
  BY <1>1, <1>4 DEF Open, TypeOK
<1>5. CASE EvalKnown(c, p)
  <2>1. /\ phase[p] \in Verdict /\ acc' = [acc EXCEPT ![c] = Join(@, phase[p])]
        /\ UNCHANGED <<phase, waiters, deps, tracked, needed, pc>>
    BY <1>5 DEF EvalKnown, table
  <2>2. acc'[c] = Join(acc[c], phase[p]) /\ \A q \in Client : q # c => acc'[q] = acc[q]
    BY <2>1 DEF TypeOK
  <2>3. /\ \A q \in Client : acc[q] = "error" => acc'[q] = "error"
        /\ \A q \in Client : acc'[q] = "false" => acc[q] = "false"
        /\ phase[p] = "error" => acc'[c] = "error"
        /\ acc'[c] = "false" => phase[p] = "false"
    BY <2>1, <2>2 DEF Join, Verdict, TypeOK
  <2>4. ASSUME NEW d \in Derived PROVE Checking(d)' /\ Running(d)'
    <3>1. Open'[d] = IF d = c THEN Open[d] \ {p} ELSE Open[d]
      BY <1>2, <1>3, <2>1
    <3>2. Checking(d)'
      BY <1>2, <2>1, <2>3, <3>1 DEF AskInv, Checking
    <3>3. Running(d)'
      BY <1>1, <1>2, <2>1, <2>3, <3>1 DEF AskInv, Running, Fresh, Verdict
    <3> QED
      BY <3>2, <3>3
  <2>5. Transacting'
    <3>1. Open'[Outer] = IF Outer = c THEN Open[Outer] \ {p} ELSE Open[Outer]
      BY <1>2, <1>3, <2>1
    <3> QED
      BY <1>1, <1>2, <2>1, <2>3, <3>1 DEF AskInv, Transacting, Fresh, Verdict
  <2> QED
    BY <1>1, <2>1, <2>4, <2>5 DEF AskInv
<1>6. CASE EvalJoin(c, p)
  <2>1. /\ waiters' = [waiters EXCEPT ![p] = @ \cup {c}]
        /\ UNCHANGED <<phase, deps, tracked, needed, pc, acc>>
    BY <1>6 DEF EvalJoin
  <2>2. Open' = Open
    BY <1>4, <2>1
  <2> QED
    BY <1>1, <2>1, <2>2 DEF AskInv, Checking, Running, Transacting, Fresh
<1>7. CASE EvalSpawn(c, p)
  <2>1. /\ phase[p] = "none" /\ phase' = [phase EXCEPT ![p] = "waiting"] /\ waiters' = [waiters EXCEPT ![p] = {c}]
        /\ needed'  = [needed EXCEPT ![p] = {}] /\ tracked' = tracked \cup {p} /\ p \notin Unknown
        /\ pc' = [pc EXCEPT ![p] = IF deps[p] = {} THEN "run" ELSE "old"]
        /\ UNCHANGED <<deps, acc>>
    BY <1>7 DEF EvalSpawn
  <2>2. Open' = Open
    <3>1. waiters[p] = {}
      BY <2>1 DEF WaitInv, WaitersServed
    <3>2. waiters' = [waiters EXCEPT ![p] = @ \cup {c}]
      BY <2>1, <3>1
    <3> QED
      BY <1>4, <3>2
  <2>3. \A q \in Product : /\ phase[q] \in Verdict => phase'[q] = phase[q]
                           /\ Fresh(q) => Fresh(q)'
    BY <2>1 DEF Verdict, TypeOK, Fresh
  <2>4. ASSUME NEW d \in Derived PROVE Checking(d)' /\ Running(d)'
    <3>1. CASE d = p
      <4>1. pc'[d] \in {"run", "old"} /\ (pc'[d] = "old" => deps'[d] # {})
        BY <1>2, <2>1, <3>1 DEF TypeOK
      <4> QED
        BY <4>1 DEF Checking, Running
    <3>2. CASE d # p
      <4>1. pc'[d] = pc[d] /\ needed'[d] = needed[d] /\ (d \in tracked' <=> d \in tracked)
        BY <1>2, <2>1, <3>2 DEF TypeOK
      <4>2. uses[d] \subseteq Product /\ deps[d] \subseteq Product
        BY <1>2 DEF TypeOK
      <4>3. Checking(d)'
        BY <1>1, <2>1, <2>2, <2>3, <4>1, <4>2 DEF AskInv, Checking, Verdict
      <4>4. Running(d)'
        BY <1>1, <2>1, <2>2, <2>3, <4>1, <4>2 DEF AskInv, Running
      <4> QED
        BY <4>3, <4>4
    <3> QED
      BY <3>1, <3>2
  <2>5. Transacting'
    <3>1. p # Outer /\ pc'[Outer] = pc[Outer]
      BY <1>2, <2>1, RedoAssumption DEF TypeOK
    <3>2. pc[Outer] # "idle"
      BY <1>1 DEF WaitInv, QuietWhenIdle, Live, Client, WaitPc
    <3>3. asked \subseteq Product
      BY DEF TypeOK
    <3> QED
      BY <1>1, <2>1, <2>2, <2>3, <3>1, <3>2, <3>3 DEF AskInv, Transacting, Verdict
  <2>6. ASSUME NEW u \in Unknown PROVE phase'[u] = "none" /\ deps'[u] = {}
    BY <1>1, <2>1, <2>6 DEF AskInv, TypeOK
  <2> QED
    BY <1>1, <2>4, <2>5, <2>6 DEF AskInv
<1>8. CASE EvalUnknown(c, p)
  <2>1. /\ acc' = [acc EXCEPT ![c] = "error"] /\ p \in Unknown
        /\ UNCHANGED <<phase, waiters, deps, tracked, needed, pc>>
    BY <1>8 DEF EvalUnknown, table
  <2>2. acc'[c] = "error" /\ \A q \in Client : q # c => acc'[q] = acc[q]
    BY <2>1 DEF TypeOK
  <2>3. ASSUME NEW d \in Derived PROVE Checking(d)' /\ Running(d)'
    <3>1. CASE d = c
      <4>1. acc'[d] = "error" /\ pc'[d] = pc[d] /\ deps'[d] = deps[d]
        BY <2>1, <2>2, <3>1
      <4>2. Checking(d)'
        BY <4>1 DEF AskInv, Checking
      <4>3. Running(d)'
        BY <1>1, <2>1, <4>1 DEF AskInv, Running
      <4> QED
        BY <4>2, <4>3
    <3>2. CASE d # c
      <4>1. Open'[d] = Open[d] /\ acc'[d] = acc[d]
        BY <1>2, <1>3, <2>1, <2>2, <3>2
      <4> QED
        BY <1>1, <2>1, <4>1 DEF AskInv, Checking, Running, Fresh
    <3> QED
      BY <3>1, <3>2
  <2>4. Transacting'
    <3>1. Open'[Outer] = IF Outer = c THEN Open[Outer] \ {p} ELSE Open[Outer]
      BY <1>2, <1>3, <2>1
    <3> QED
      BY <1>1, <1>2, <2>1, <2>2, <3>1 DEF AskInv, Transacting, Fresh
  <2> QED
    BY <1>1, <2>1, <2>3, <2>4 DEF AskInv
<1> QED
  BY <1>5, <1>6, <1>7, <1>8 DEF Eval

LEMMA DoneAsks ==
  ASSUME TypeOK, WaitInv, AskInv, NEW p \in Product, WorkerDone(p)
  PROVE  AskInv'
<1> DEFINE v == update[p].changed
<1>1. /\ pc[p] = "done" /\ phase[p] = "waiting" /\ phase' = [phase EXCEPT ![p] = v]
      /\ deps' = [deps EXCEPT ![p] = update[p].deps] /\ waiters' = [waiters EXCEPT ![p] = {}]
      /\ pc' = [pc EXCEPT ![p] = "idle"]
      /\ acc' = [c \in Client |-> IF c \in waiters[p] THEN Join(acc[c], v) ELSE acc[c]]
      /\ UNCHANGED <<needed, tracked, todo, asked, answer, uses, saved>> /\ v \in Verdict
  BY DEF WorkerDone, outside, TypeOK
<1> HIDE DEF v
<1>2. Outer \in Client /\ \A q \in Product : q \in Client
  BY DEF Client
<1>3. ASSUME NEW c \in Client, NEW x \in Open[c], x \notin Open'[c] PROVE x = p /\ c \in waiters[p]
  BY <1>1, <1>3 DEF Open, TypeOK
<1>4. ASSUME NEW c \in Client
      PROVE  /\ acc[c] = "error" => acc'[c] = "error"
             /\ acc'[c] = "false" => acc[c] = "false"
             /\ c \in waiters[p] /\ v = "error" => acc'[c] = "error"
             /\ c \in waiters[p] /\ acc'[c] = "false" => v = "false"
  BY <1>1, JoinType DEF TypeOK, Join, Verdict
<1>5. phase'[p] = v /\ \A q \in Product : q # p => phase'[q] = phase[q]
  BY <1>1 DEF TypeOK
<1>6. \A q \in Product : /\ phase[q] \in Verdict => phase'[q] = phase[q]
                         /\ Fresh(q) => Fresh(q)'
  BY <1>1, <1>5 DEF Verdict, Fresh
<1>7. ASSUME NEW d \in Derived PROVE Checking(d)' /\ Running(d)'
  <2>0. d \in Product /\ d \in Client
    BY <1>2 DEF Product
  <2>1. CASE d = p
    <3>1. pc'[d] = "idle"
      BY <1>1, <2>0, <2>1 DEF TypeOK
    <3> QED
      BY <3>1 DEF Checking, Running
  <2>2. CASE d # p
    <3>1. pc'[d] = pc[d] /\ deps'[d] = deps[d]
      BY <1>1, <2>0, <2>2 DEF TypeOK
    <3>2. uses[d] \subseteq Product /\ deps[d] \subseteq Product
      BY <2>0 DEF TypeOK
    <3>3. Checking(d)'
      <4>1. ASSUME pc[d] = "old_wait", acc'[d] = "false", NEW x \in deps[d]
            PROVE  x \in Open'[d] \/ phase'[x] = "false"
        <5>1. x \in Open[d] \/ phase[x] = "false"
          BY <1>4, <2>0, <4>1 DEF AskInv, Checking
        <5>2. CASE x \in Open[d]
          BY <1>3, <1>4, <1>5, <2>0, <4>1, <5>2
        <5>3. CASE phase[x] = "false"
          BY <1>6, <3>2, <5>3 DEF Verdict
        <5> QED
          BY <5>1, <5>2, <5>3
      <4> QED
        BY <3>1, <4>1 DEF AskInv, Checking
    <3>4. Running(d)'
      <4>1. ASSUME pc[d] \in {"first_wait", "second_wait"}, acc'[d] # "error", NEW x \in uses[d]
            PROVE  x \in Open'[d] \/ Fresh(x)'
        <5>1. x \in Open[d] \/ Fresh(x)
          BY <1>4, <2>0, <4>1 DEF AskInv, Running
        <5>2. CASE x \in Open[d]
          BY <1>1, <1>3, <1>4, <1>5, <2>0, <4>1, <5>2 DEF Fresh, Verdict
        <5>3. CASE Fresh(x)
          BY <1>6, <3>2, <5>3
        <5> QED
          BY <5>1, <5>2, <5>3
      <4> QED
        BY <1>1, <3>1, <4>1 DEF AskInv, Running
    <3> QED
      BY <3>3, <3>4
  <2> QED
    BY <2>1, <2>2
<1>8. Transacting'
  <2>1. pc'[Outer] = pc[Outer]
    BY <1>1, RedoAssumption DEF TypeOK
  <2>2. pc[Outer] # "idle"
    BY <1>1 DEF WaitInv, QuietWhenIdle, Live
  <2>3. ASSUME pc[Outer] = "outer_wait", NEW x \in asked
        PROVE  \/ x \in Open'[Outer] \/ Fresh(x)'
               \/ acc'[Outer] = "error" /\ (phase'[x] = "error" \/ x \in Unknown)
    <3>1. x \in Product
      BY DEF TypeOK
    <3>2. \/ x \in Open[Outer] \/ Fresh(x)
          \/ acc[Outer] = "error" /\ (phase[x] = "error" \/ x \in Unknown)
      BY <2>3 DEF AskInv, Transacting
    <3>3. CASE x \in Open[Outer]
      BY <1>1, <1>2, <1>3, <1>4, <1>5, <3>3 DEF Fresh, Verdict
    <3>4. CASE Fresh(x)
      BY <1>6, <3>1, <3>4
    <3>5. CASE acc[Outer] = "error" /\ (phase[x] = "error" \/ x \in Unknown)
      BY <1>2, <1>4, <1>6, <3>1, <3>5 DEF Verdict
    <3> QED
      BY <3>2, <3>3, <3>4, <3>5
  <2> QED
    BY <1>1, <2>1, <2>2, <2>3 DEF AskInv, Transacting
<1>9. ASSUME NEW u \in Unknown PROVE phase'[u] = "none" /\ deps'[u] = {}
  BY <1>1, <1>9 DEF AskInv, TypeOK
<1> QED
  BY <1>1, <1>7, <1>8, <1>9 DEF AskInv

LEMMA AskInvariance == Spec => []AskInv
<1>1. Init => AskInv
  <2> SUFFICES ASSUME Init PROVE AskInv
    OBVIOUS
  <2>1. \A d \in Derived : /\ pc[d] = "idle" /\ deps[d] = {} /\ phase[d] = "none"
                           /\ saved.deps[d] = {}
    BY DEF Init, Client, Product
  <2>2. pc[Outer] = "idle" /\ answer = "none"
    BY DEF Init, Client
  <2>3. Unknown \subseteq Derived
    BY RedoAssumption
  <2> QED
    BY <2>1, <2>2, <2>3 DEF AskInv, Checking, Running, Transacting
<1>2. TypeOK /\ WaitInv /\ NeedsInv /\ AskInv /\ [Next]_vars => AskInv'
  <2> SUFFICES ASSUME TypeOK, WaitInv, NeedsInv, AskInv, [Next]_vars PROVE AskInv'
    OBVIOUS
  <2>0. Outer \in Client /\ Outer \notin Product /\ \A p \in Product : p \in Client
    BY RedoAssumption DEF Client
  <2>1. ASSUME NEW s \in Source, Edit(s) PROVE AskInv'
    BY <2>1, AskKept DEF Edit, table, process
  <2>2. ASSUME NEW R \in Pulls, BeginPull(R) PROVE AskInv'
    <3>1. /\ pc[Outer] = "idle" /\ phase' = [p \in Product |-> "none"]
          /\ pc' = [pc EXCEPT ![Outer] = "outer_wait"] /\ todo' = [todo EXCEPT ![Outer] = R]
          /\ asked' = R /\ deps' = deps /\ saved' = saved
      BY <2>2 DEF BeginPull
    <3>2. ASSUME NEW d \in Derived PROVE pc'[d] = "idle"
      <4>1. d \in Product /\ pc[d] = "idle"
        BY <3>1 DEF WaitInv, QuietWhenIdle, Live, Product
      <4> QED
        BY <2>0, <3>1, <4>1 DEF TypeOK
    <3>3. R \subseteq Open'[Outer]
      <4>1. R \subseteq Product /\ todo'[Outer] = R
        BY <2>0, <3>1, RedoAssumption DEF TypeOK
      <4> QED
        BY <2>0, <4>1 DEF Open
    <3>4. pc'[Outer] = "outer_wait"
      BY <2>0, <3>1 DEF TypeOK
    <3>5. Transacting'
      BY <3>1, <3>3, <3>4 DEF Transacting
    <3>6. \A u \in Unknown : phase'[u] = "none" /\ deps'[u] = {} /\ saved'.deps[u] = {}
      BY <3>1, RedoAssumption DEF AskInv, Product
    <3> QED
      BY <3>2, <3>5, <3>6 DEF AskInv, Checking, Running
  <2>3. ASSUME NEW P \in Pushes, BeginPush(P[1], P[2]) PROVE AskInv'
    <3>1. PICK C, NC : C = P[1] /\ NC = P[2]
      OBVIOUS
    <3>2. C \subseteq Source /\ NC \subseteq Source
      BY <3>1, RedoAssumption
    <3>3. PICK T : T = Closure(C)
      OBVIOUS
    <3>4. T \subseteq Product
      BY <3>3, ClosureType
    <3>5. /\ pc[Outer] = "idle"
          /\ phase' = [p \in Product |-> IF p \in C THEN "true"
                                        ELSE IF p \in NC THEN "false" ELSE "none"]
          /\ pc' = [pc EXCEPT ![Outer] = "outer_wait"] /\ todo' = [todo EXCEPT ![Outer] = T]
          /\ asked' = T /\ deps' = deps /\ saved' = saved
      BY <2>3, <3>1, <3>3 DEF BeginPush
    <3>6. ASSUME NEW d \in Derived PROVE pc'[d] = "idle"
      <4>1. d \in Product /\ pc[d] = "idle"
        BY <3>5 DEF WaitInv, QuietWhenIdle, Live, Product
      <4> QED
        BY <2>0, <3>5, <4>1 DEF TypeOK
    <3>7. T \subseteq Open'[Outer] /\ pc'[Outer] = "outer_wait"
      BY <2>0, <3>4, <3>5 DEF Open, TypeOK
    <3>8. Transacting'
      BY <3>5, <3>7 DEF Transacting
    <3>9. \A u \in Unknown : phase'[u] = "none" /\ deps'[u] = {} /\ saved'.deps[u] = {}
      BY <3>2, <3>5, RedoAssumption DEF AskInv, Product
    <3> QED
      BY <3>6, <3>8, <3>9 DEF AskInv, Checking, Running
  <2>4. ASSUME Reply PROVE AskInv'
    <3>1. /\ pc[Outer] = "outer_wait" /\ Answered(Outer) /\ pc' = [pc EXCEPT ![Outer] = "idle"]
          /\ answer' = acc[Outer]
          /\ UNCHANGED <<phase, waiters, deps, tracked, needed, todo, acc, asked, uses, saved>>
      BY <2>4 DEF Reply, table
    <3>2. Open[Outer] = {} /\ Open' = Open
      BY <2>0, <3>1 DEF Open, Answered
    <3>3. pc'[Outer] = "idle" /\ \A d \in Derived : pc'[d] = pc[d]
      BY <2>0, <3>1 DEF TypeOK, Product
    <3>4. \A d \in Derived : Checking(d)' /\ Running(d)'
      BY <3>1, <3>2, <3>3 DEF AskInv, Checking, Running, Fresh
    <3>6. acc[Outer] \in {"true", "false"} => \A x \in asked : Fresh(x)
      BY <3>1, <3>2 DEF AskInv, Transacting
    <3>7. Transacting'
      BY <3>1, <3>3, <3>6 DEF Transacting, Fresh
    <3> QED
      BY <3>1, <3>4, <3>7 DEF AskInv
  <2>5. ASSUME NEW c \in Client, NEW p \in Product, Eval(c, p) PROVE AskInv'
    BY <2>5, EvalAsks
  <2>6. ASSUME NEW p \in Product, CheckOld(p) PROVE AskInv'
    <3>1. /\ pc[p] = "old" /\ todo' = [todo EXCEPT ![p] = deps[p]]
          /\ needed' = (IF p \in tracked THEN [needed EXCEPT ![p] = @ \cup deps[p]] ELSE needed)
          /\ acc' = [acc EXCEPT ![p] = "false"] /\ pc' = [pc EXCEPT ![p] = "old_wait"]
          /\ UNCHANGED <<phase, waiters, deps, tracked, asked, answer, uses, saved>>
      BY <2>6 DEF CheckOld, NeedCall, outside
    <3>2. pc'[p] = "old_wait" /\ deps[p] \subseteq Open'[p]
      BY <2>0, <3>1 DEF Open, TypeOK
    <3>3. p \in Derived => Checking(p)' /\ Running(p)'
      BY <3>1, <3>2 DEF AskInv, Checking, Running
    <3>4. \A c \in Client : c # p => pc'[c] = pc[c] /\ todo'[c] = todo[c] /\ acc'[c] = acc[c]
      BY <3>1 DEF TypeOK
    <3>5. \A d \in Derived : d # p => /\ uses'[d] = uses[d] /\ needed'[d] = needed[d]
                                     /\ (d \in tracked' <=> d \in tracked)
      BY <3>1 DEF TypeOK, Product
    <3> QED
      BY <3>1, <3>3, <3>4, <3>5, OneWorkerAsks
  <2>7. ASSUME NEW p \in Product, NEW w \in {"run", "done"}, pc' = [pc EXCEPT ![p] = w],
               UNCHANGED <<phase, waiters, deps, todo, acc, asked, answer, uses, saved>>,
               UNCHANGED <<tracked, needed>> \/ Collect(p)
        PROVE  AskInv'
    <3>1. pc'[p] = w
      BY <2>0, <2>7 DEF TypeOK
    <3>2. Checking(p)' /\ Running(p)'
      BY <3>1 DEF Checking, Running
    <3>3. \A c \in Client : c # p => pc'[c] = pc[c] /\ todo'[c] = todo[c] /\ acc'[c] = acc[c]
      BY <2>7 DEF TypeOK
    <3>4. \A d \in Derived : d # p => /\ uses'[d] = uses[d] /\ needed'[d] = needed[d]
                                     /\ (d \in tracked' <=> d \in tracked)
      BY <2>7 DEF TypeOK, Product, Collect
    <3> QED
      BY <2>7, <3>2, <3>3, <3>4, OneWorkerAsks
  <2>8. ASSUME NEW p \in Product, OldChecked(p) PROVE AskInv'
    <3>1. /\ \/ pc' = [pc EXCEPT ![p] = "done"] \/ pc' = [pc EXCEPT ![p] = "run"]
          /\ UNCHANGED <<phase, waiters, deps, todo, acc, asked, answer, uses, saved>> /\ Collect(p)
      BY <2>8 DEF OldChecked, SendDone
    <3> QED
      BY <2>7, <3>1
  <2>9. ASSUME NEW s \in Source, Poll(s) PROVE AskInv'
    <3>1. /\ s \in Product /\ pc' = [pc EXCEPT ![s] = "done"] /\ Collect(s)
          /\ UNCHANGED <<phase, waiters, deps, todo, acc, asked, answer, uses, saved>>
      BY <2>9 DEF Poll, SendDone, Product
    <3> QED
      BY <2>7, <3>1
  <2>10. ASSUME NEW d \in Derived, NeedFailed(d) \/ Build(d) \/ BuildFails(d) PROVE AskInv'
    <3>1. /\ d \in Product /\ pc' = [pc EXCEPT ![d] = "done"]
          /\ UNCHANGED <<tracked, needed>> \/ Collect(d)
          /\ UNCHANGED <<phase, waiters, deps, todo, acc, asked, answer, uses, saved>>
      BY <2>10 DEF NeedFailed, Build, BuildFails, SendDone, table, outside, Product
    <3> QED
      BY <2>7, <3>1
  <2>11. ASSUME NEW d \in Derived, NEW D \in SUBSET Product, NEW U \in SUBSET Product,
                NEW w \in {"first_wait", "second_wait"}, NeedCall(d, D),
                pc' = [pc EXCEPT ![d] = w], uses' = [uses EXCEPT ![d] = U \cup D],
                UNCHANGED <<phase, waiters, deps, tracked, asked, answer, saved>>,
                d \in tracked => needed[d] = U, \A x \in U : Fresh(x)
         PROVE  AskInv'
    <3>1. d \in Product /\ d \in Client
      BY <2>0 DEF Product
    <3>2. /\ pc'[d] = w /\ uses'[d] = U \cup D /\ D \subseteq Open'[d]
          /\ d \in tracked' => needed'[d] = U \cup D
      BY <2>11, <3>1 DEF NeedCall, TypeOK, Open
    <3>3. \A x \in U : Fresh(x)'
      BY <2>11 DEF Fresh
    <3>4. Checking(d)' /\ Running(d)'
      BY <2>11, <3>2, <3>3 DEF Checking, Running
    <3>5. \A c \in Client : c # d => pc'[c] = pc[c] /\ todo'[c] = todo[c] /\ acc'[c] = acc[c]
      BY <2>11 DEF TypeOK, NeedCall
    <3>6. \A e \in Derived : e # d => /\ uses'[e] = uses[e] /\ needed'[e] = needed[e]
                                     /\ (e \in tracked' <=> e \in tracked)
      BY <2>11 DEF TypeOK, Product, NeedCall
    <3> QED
      BY <2>11, <3>1, <3>4, <3>5, <3>6, OneWorkerAsks
  <2>12. ASSUME NEW d \in Derived, NeedFirst(d) PROVE AskInv'
    <3>1. d \in Product /\ First[d] \in SUBSET Product /\ {} \in SUBSET Product
      BY RedoAssumption DEF Product
    <3>2. needed[d] = {}
      BY <2>12, <3>1 DEF NeedFirst, NeedsInv, Needing
    <3>3. /\ NeedCall(d, First[d]) /\ pc' = [pc EXCEPT ![d] = "first_wait"]
          /\ uses' = [uses EXCEPT ![d] = {} \cup First[d]]
          /\ UNCHANGED <<phase, waiters, deps, tracked, asked, answer, saved>>
      BY <2>12 DEF NeedFirst
    <3> QED
      BY <2>11, <3>1, <3>2, <3>3
  <2>13. ASSUME NEW d \in Derived, NeedSecond(d) PROVE AskInv'
    <3>1. PICK D, U : D = Second[d][content[Control]] /\ U = uses[d]
      OBVIOUS
    <3>2. D \in SUBSET Product /\ U \in SUBSET Product /\ d \in Client
      BY <2>0, <3>1, RedoAssumption DEF TypeOK, Product
    <3>3. /\ pc[d] = "first_wait" /\ Answered(d) /\ acc[d] # "error"
          /\ NeedCall(d, D) /\ pc' = [pc EXCEPT ![d] = "second_wait"]
          /\ uses' = [uses EXCEPT ![d] = U \cup D]
          /\ UNCHANGED <<phase, waiters, deps, tracked, asked, answer, saved>>
      BY <2>13, <3>1 DEF NeedSecond
    <3>4. Open[d] = {}
      BY <3>2, <3>3 DEF Open, Answered
    <3>5. /\ d \in tracked => needed[d] = U
          /\ \A x \in U : Fresh(x)
      BY <3>1, <3>3, <3>4 DEF AskInv, Running
    <3> QED
      BY <2>11, <3>2, <3>3, <3>5
  <2>14. ASSUME Save PROVE AskInv'
    <3>1. /\ UNCHANGED <<phase, waiters, deps, tracked, needed, todo, acc, pc, asked, answer, uses>>
          /\ saved'.deps = deps
      BY <2>14 DEF Save, table, process
    <3>2. Open' = Open
      BY <3>1 DEF Open
    <3> QED
      BY <3>1, <3>2 DEF AskInv, Checking, Running, Transacting, Fresh
  <2>16. ASSUME CrashAndResume PROVE AskInv'
    <3>1. /\ phase' = [p \in Product |-> "none"] /\ pc' = [c \in Client |-> "idle"]
          /\ deps' = saved.deps /\ saved' = saved /\ answer' = "none"
      BY <2>16 DEF CrashAndResume
    <3>2. \A d \in Derived : pc'[d] = "idle" /\ phase'[d] = "none"
      BY <2>0, <3>1 DEF Product
    <3>3. pc'[Outer] = "idle" /\ Unknown \subseteq Derived
      BY <2>0, <3>1, RedoAssumption
    <3> QED
      BY <3>1, <3>2, <3>3 DEF AskInv, Checking, Running, Transacting
  <2>15. CASE UNCHANGED vars
    BY <2>15, AskKept DEF vars, table, process, outside
  <2> QED
    BY <2>1, <2>2, <2>3, <2>4, <2>5, <2>6, <2>8, <2>9, <2>10, <2>12, <2>13, <2>14, <2>15, <2>16, DoneAsks
       DEF Next, Work, Environment, WorkerStep, RuleStep
<1> QED BY <1>1, <1>2, TypeCorrect, WaitInvariance, NeedsInvariance, PTL DEF Spec

-----------------------------------------------------------------------------
(* What a product was built from, against the record of what it depends    *)
(* on.  A product whose record says otherwise is still to be looked at in  *)
(* this transaction, as one of its dependencies has changed in it; what no *)
(* transaction looks at any more is behind.                                *)
Changed(p) == phase[p] = "true" \/ (pc[p] = "done" /\ update[p].changed = "true")

From(made, D, vals) ==
  \A y \in made : y[1] \in D \/ \E x \in D \cap Derived : y \in vals[x]

Recorded(d) ==
  d \notin behind =>
    /\ out[d] = val[d]
    /\ deps[d] # {} /\ pc[d] # "done" =>
         \/ From(val[d], deps[d], val)
         \/ phase[d] \notin Verdict /\ \E x \in deps[d] : Changed(x)

Finishing(d) ==
  pc[d] = "done" =>
    /\ d \notin behind /\ update[d].deps # {} => From(val[d], update[d].deps, val)
    /\ update[d].changed = "error" => update[d].deps = {}

Resting(d) ==
  /\ pc[Outer] = "idle" /\ d \notin behind /\ deps[d] # {} => From(val[d], deps[d], val)
  /\ d \notin saved.behind /\ saved.deps[d] # {} => From(saved.val[d], saved.deps[d], saved.val)

Sound(d) ==
  /\ Fresh(d) \/ (pc[d] = "done" /\ update[d].changed # "error")
  /\ d \notin behind /\ edited = {}
  => BuiltFromFiles(d)

(* A file that is said not to have changed has the contents that whatever  *)
(* is not behind was made from.                                            *)
Polled(s) ==
  /\ phase[s] = "false" \/ (pc[s] = "done" /\ update[s].changed = "false")
  /\ edited = {}
  => \A d \in Derived \ behind : \A y \in out[d] : y[1] = s => y[2] = content[s]

MadeInv ==
  /\ \A d \in Derived : Recorded(d)
  /\ \A d \in Derived : Finishing(d)
  /\ \A d \in Derived : Resting(d)
  /\ \A d \in Derived : Sound(d)
  /\ \A s \in Source : Polled(s)

(* A step of the processes by which nobody comes to a verdict.             *)
LEMMA MadeKept ==
  ASSUME MadeInv, TypeOK,
         UNCHANGED <<deps, out, val, content, edited, behind, update, saved>>,
         pc'[Outer] = "idle" => pc[Outer] = "idle",
         \A p \in Product : pc'[p] = "done" <=> pc[p] = "done",
         \A p \in Product : phase'[p] = phase[p] \/ (phase[p] \notin Verdict /\ phase'[p] \notin Verdict)
  PROVE  MadeInv'
<1>1. \A p \in Product : Fresh(p)' <=> Fresh(p)
  BY DEF Fresh, Verdict
<1>2. \A p \in Product : Changed(p)' <=> Changed(p)
  BY DEF Changed, Verdict
<1>3. ASSUME NEW d \in Derived PROVE Recorded(d)'
  <2>1. d \in Product /\ deps[d] \subseteq Product
    BY DEF Product, TypeOK
  <2> QED
    BY <1>2, <2>1 DEF MadeInv, Recorded
<1>4. ASSUME NEW d \in Derived PROVE Finishing(d)'
  BY DEF MadeInv, Finishing, Product
<1>5. ASSUME NEW d \in Derived PROVE Resting(d)'
  BY DEF MadeInv, Resting
<1>6. ASSUME NEW d \in Derived PROVE Sound(d)'
  BY <1>1 DEF MadeInv, Sound, BuiltFromFiles, Product
<1>7. ASSUME NEW s \in Source PROVE Polled(s)'
  BY DEF MadeInv, Polled, Product, Verdict
<1> QED
  BY <1>3, <1>4, <1>5, <1>6, <1>7 DEF MadeInv

(* p has its verdict; nothing is built, and perhaps more is behind.        *)
LEMMA WorkerEnds ==
  ASSUME TypeOK, MadeInv, NEW p \in Product, pc[p] # "done", phase[p] = "waiting",
         NEW v \in Verdict, NEW N \in SUBSET Product,
         pc' = [pc EXCEPT ![p] = "done"],
         update' = [update EXCEPT ![p] = [changed |-> v, deps |-> N]],
         UNCHANGED <<deps, out, val, content, edited, phase, saved>>,
         behind \subseteq behind',
         p \in Derived => Finishing(p)' /\ Sound(p)',
         p \in Source => Polled(p)'
  PROVE  MadeInv'
<1>0. p \in Client /\ Outer \in Client /\ Outer # p
  BY RedoAssumption DEF Client
<1>1. /\ pc'[p] = "done" /\ update'[p].changed = v /\ update'[p].deps = N
      /\ \A q \in Product : q # p => pc'[q] = pc[q] /\ update'[q] = update[q]
      /\ pc'[Outer] = pc[Outer]
  BY <1>0 DEF TypeOK
<1>2. \A q \in Product : Changed(q) => Changed(q)'
  BY <1>1 DEF Changed
<1>3. ASSUME NEW d \in Derived PROVE Recorded(d)'
  <2>1. d \in Product /\ deps[d] \subseteq Product
    BY DEF Product, TypeOK
  <2>2. CASE d = p
    BY <1>1, <2>2 DEF MadeInv, Recorded
  <2>3. CASE d # p
    BY <1>1, <1>2, <2>1, <2>3 DEF MadeInv, Recorded
  <2> QED
    BY <2>2, <2>3
<1>4. ASSUME NEW d \in Derived, d # p PROVE Finishing(d)'
  BY <1>1, <1>4 DEF MadeInv, Finishing, Product
<1>5. ASSUME NEW d \in Derived PROVE Resting(d)'
  BY <1>1 DEF MadeInv, Resting
<1>6. ASSUME NEW d \in Derived, d # p PROVE Sound(d)'
  BY <1>1, <1>6 DEF MadeInv, Sound, BuiltFromFiles, Product, Fresh
<1>7. ASSUME NEW s \in Source, s # p PROVE Polled(s)'
  BY <1>1, <1>7 DEF MadeInv, Polled, Product
<1> QED
  BY <1>3, <1>4, <1>5, <1>6, <1>7 DEF MadeInv

(* As long as a file of the transaction is edited nothing is claimed.      *)
LEMMA EditMade ==
  ASSUME TypeOK, MadeInv, NEW s \in Source, Edit(s) PROVE MadeInv'
<1>1. /\ edited' # {}
      /\ UNCHANGED <<deps, out, val, behind, update, pc, phase, saved>>
  BY DEF Edit, table, process
<1>2. ASSUME NEW d \in Derived PROVE Recorded(d)' /\ Finishing(d)' /\ Resting(d)'
  BY <1>1 DEF MadeInv, Recorded, Finishing, Resting, Changed
<1> QED
  BY <1>1, <1>2 DEF MadeInv, Sound, Polled

(* A transaction begins: whoever is to be looked at was left behind.       *)
LEMMA BeginMade ==
  ASSUME TypeOK, WaitInv, MadeInv, pc[Outer] = "idle",
         pc' = [pc EXCEPT ![Outer] = "outer_wait"], behind \subseteq behind',
         UNCHANGED <<deps, out, val, content, update, saved>>,
         \A d \in Derived : phase'[d] = "none",
         \A s \in Source : phase'[s] = "false" => MadeOfOther({s}) \subseteq behind'
  PROVE  MadeInv'
<1>1. \A p \in Product : pc[p] = "idle" /\ pc'[p] = "idle"
  <2> TAKE p \in Product
  <2>1. p \in Client /\ p # Outer /\ pc[p] = "idle"
    BY RedoAssumption DEF WaitInv, QuietWhenIdle, Live, Client
  <2> QED
    BY <2>1 DEF TypeOK
<1>2. pc'[Outer] = "outer_wait"
  BY DEF TypeOK, Client
<1>3. ASSUME NEW d \in Derived PROVE Recorded(d)' /\ Resting(d)'
  BY <1>2 DEF MadeInv, Recorded, Resting
<1>4. ASSUME NEW d \in Derived PROVE Finishing(d)' /\ Sound(d)'
  BY <1>1 DEF Finishing, Sound, Fresh, Product
<1>5. ASSUME NEW s \in Source PROVE Polled(s)'
  BY <1>1 DEF Polled, Product, MadeOfOther
<1> QED
  BY <1>3, <1>4, <1>5 DEF MadeInv

(* A transaction ends: what is still to be looked at is left behind.       *)
LEMMA ReplyMade ==
  ASSUME TypeOK, WaitInv, MadeInv, Reply PROVE MadeInv'
<1>1. /\ pc[Outer] = "outer_wait" /\ pc' = [pc EXCEPT ![Outer] = "idle"] /\ behind' = behind \cup LeftOut
      /\ UNCHANGED <<phase, deps, out, val, content, edited, update, saved>>
  BY DEF Reply, table
<1>2. pc'[Outer] = "idle" /\ \A p \in Product : pc'[p] = pc[p]
  BY <1>1, RedoAssumption DEF TypeOK, Client
<1>3. Live = {}
  <2>1. WaitInv' /\ pc'[Outer] = "idle"
    BY <1>2, TransactionEnds
  <2> QED
    BY <1>2, <2>1 DEF WaitInv, QuietWhenIdle, Live
<1>4. ASSUME NEW d \in Derived, d \notin behind', deps[d] # {} PROVE From(val[d], deps[d], val)
  <2>1. d \in Product /\ d \notin behind /\ pc[d] = "idle" /\ deps[d] \subseteq Product
    BY <1>1, <1>3, <1>4 DEF Live, Product, TypeOK
  <2>2. ~\E x \in deps[d] : phase[d] \notin Verdict /\ Changed(x)
    <3> SUFFICES ASSUME NEW x \in deps[d], phase[d] \notin Verdict, Changed(x) PROVE FALSE
      OBVIOUS
    <3>1. pc[x] = "idle" /\ phase[x] = "true"
      BY <1>3, <2>1 DEF Live, Changed
    <3>2. phase[d] = "none"
      BY <2>1 DEF WaitInv, WaitersServed, Live, TypeOK
    <3> QED
      BY <1>1, <1>4, <3>1, <3>2 DEF LeftOut
  <2> QED
    BY <1>4, <2>1, <2>2 DEF MadeInv, Recorded
<1>5. ASSUME NEW d \in Derived PROVE Recorded(d)'
  BY <1>1, <1>4 DEF MadeInv, Recorded
<1>6. ASSUME NEW d \in Derived PROVE Resting(d)'
  BY <1>1, <1>4 DEF MadeInv, Resting
<1>7. ASSUME NEW d \in Derived PROVE Finishing(d)'
  BY <1>1, <1>2 DEF MadeInv, Finishing, Product
<1>8. ASSUME NEW d \in Derived PROVE Sound(d)'
  BY <1>1, <1>2 DEF MadeInv, Sound, BuiltFromFiles, Product, Fresh
<1>9. ASSUME NEW s \in Source PROVE Polled(s)'
  BY <1>1, <1>2 DEF MadeInv, Polled, Product
<1> QED
  BY <1>5, <1>6, <1>7, <1>8, <1>9 DEF MadeInv

(* A rule that is skipped: what it was built from is what there is.        *)
LEMMA SkipMade ==
  ASSUME TypeOK, WaitInv, NeedsInv, AskInv, MadeInv, NEW p \in Product, OldChecked(p) PROVE MadeInv'
<1>0. p \in Client /\ Outer \in Client /\ Outer # p
  BY RedoAssumption DEF Client
<1>1. /\ pc[p] = "old_wait" /\ Answered(p)
      /\ UNCHANGED <<deps, out, val, content, edited, phase, saved>>
  BY DEF OldChecked
<1>2. p \in Derived
  BY <1>1 DEF NeedsInv, SourceNeeds, Product
<1>3. CASE acc[p] # "false"
  <2>1. pc' = [pc EXCEPT ![p] = "run"] /\ update' = update /\ behind' = behind
    BY <1>3 DEF OldChecked
  <2>2. /\ \A q \in Product : pc'[q] = "done" <=> pc[q] = "done"
        /\ pc'[Outer] = pc[Outer]
    BY <1>0, <1>1, <2>1 DEF TypeOK
  <2> QED
    BY <1>1, <2>1, <2>2, MadeKept
<1>4. CASE acc[p] = "false"
  <2>1. /\ pc' = [pc EXCEPT ![p] = "done"]
        /\ update' = [update EXCEPT ![p] = [changed |-> "false", deps |-> deps[p]]]
        /\ behind' = behind \cup {d \in Derived \cap {p} : deps[d] \cap behind # {}}
    BY <1>4 DEF OldChecked, SendDone
  <2>2. deps[p] # {} /\ \A x \in deps[p] : x \in Product /\ phase[x] = "false"
    BY <1>0, <1>1, <1>2, <1>4 DEF AskInv, Checking, Answered, Open, TypeOK
  <2>3. \A x \in deps[p] : ~Changed(x)
    BY <2>2 DEF WaitInv, WaitersServed, Live, Changed
  <2>4. p \notin behind => out[p] = val[p] /\ From(val[p], deps[p], val)
    BY <1>1, <1>2, <2>2, <2>3 DEF MadeInv, Recorded
  <2>5. ASSUME p \notin behind', edited = {}, NEW y \in out[p] PROVE y[2] = content[y[1]]
    <3>0. p \notin behind /\ deps[p] \cap behind = {}
      BY <1>2, <2>1, <2>5
    <3>1. y[1] \in Source /\ (y[1] \in deps[p] \/ \E x \in deps[p] \cap Derived : y \in val[x])
      BY <1>2, <2>4, <2>5, <3>0 DEF From, TypeOK, Made
    <3>2. CASE \E x \in deps[p] \cap Derived : y \in val[x]
      <4>1. PICK x \in deps[p] \cap Derived : y \in val[x]
        BY <3>2
      <4>2. x \notin behind /\ y \in out[x]
        BY <3>0, <4>1 DEF MadeInv, Recorded
      <4>3. BuiltFromFiles(x)
        BY <2>2, <2>5, <4>1, <4>2 DEF MadeInv, Sound, Fresh
      <4> QED
        BY <4>2, <4>3 DEF BuiltFromFiles
    <3>3. CASE y[1] \in deps[p]
      BY <1>2, <2>2, <2>5, <3>0, <3>1, <3>3 DEF MadeInv, Polled
    <3> QED
      BY <3>1, <3>2, <3>3
  <2>6. pc'[p] = "done" /\ update'[p].changed = "false" /\ update'[p].deps = deps[p]
    BY <1>0, <2>1 DEF TypeOK
  <2>7. Finishing(p)'
    BY <1>1, <2>1, <2>4, <2>6 DEF Finishing
  <2>8. Sound(p)'
    BY <1>1, <2>5 DEF Sound, BuiltFromFiles
  <2>9. phase[p] = "waiting" /\ pc[p] # "done" /\ deps[p] \in SUBSET Product /\ "false" \in Verdict
    BY <1>0, <1>1 DEF WaitInv, WaitersServed, Live, TypeOK, Verdict
  <2>10. p \notin Source /\ behind \subseteq behind'
    BY <1>2, <2>1, RedoAssumption
  <2> QED
    BY <1>1, <2>1, <2>7, <2>8, <2>9, <2>10, WorkerEnds
<1> QED
  BY <1>3, <1>4

(* A rule that failed records nothing.                                     *)
LEMMA FailMade ==
  ASSUME TypeOK, WaitInv, MadeInv, NEW d \in Derived, NeedFailed(d) \/ BuildFails(d) PROVE MadeInv'
<1>1. /\ pc[d] \in {"first_wait", "second_wait"} /\ pc' = [pc EXCEPT ![d] = "done"]
      /\ update' = [update EXCEPT ![d] = [changed |-> "error", deps |-> {}]]
      /\ UNCHANGED <<deps, out, val, content, edited, behind, phase, saved>>
  BY DEF NeedFailed, BuildFails, SendDone, table, outside
<1>2. d \in Product /\ d \in Client /\ d \notin Source
  BY RedoAssumption DEF Product, Client
<1>3. /\ phase[d] = "waiting" /\ pc[d] # "done" /\ {} \in SUBSET Product /\ "error" \in Verdict
      /\ pc'[d] = "done" /\ update'[d].changed = "error" /\ update'[d].deps = {}
  BY <1>1, <1>2 DEF WaitInv, WaitersServed, Live, TypeOK, Verdict
<1>4. Finishing(d)' /\ Sound(d)'
  BY <1>1, <1>3 DEF Finishing, Sound, Fresh
<1> QED
  BY <1>1, <1>2, <1>3, <1>4, WorkerEnds

(* A file is polled: if it looks the same, whatever has missed a change of *)
(* it is behind.                                                           *)
LEMMA PollMade ==
  ASSUME TypeOK, WaitInv, MadeInv, NEW s \in Source, Poll(s) PROVE MadeInv'
<1>0. s \in Product /\ s \in Client /\ s \notin Derived
  BY RedoAssumption DEF Product, Client
<1>1. PICK v : v = IF content[s] = 0 \/ mtime[s] # stamp[s] THEN "true" ELSE "false"
  OBVIOUS
<1>2. /\ pc[s] = "run" /\ pc' = [pc EXCEPT ![s] = "done"]
      /\ update' = [update EXCEPT ![s] = [changed |-> v, deps |-> Collected(s)]]
      /\ behind' = IF LooksTheSame(s) THEN behind \cup MadeOfOther({s}) ELSE behind
      /\ UNCHANGED <<deps, out, val, content, edited, phase, saved>>
  BY <1>1 DEF Poll, SendDone
<1>3. /\ pc'[s] = "done" /\ update'[s].changed = v
      /\ phase[s] = "waiting" /\ pc[s] # "done" /\ v \in Verdict
  BY <1>0, <1>1, <1>2 DEF WaitInv, WaitersServed, Live, TypeOK, Verdict
<1>4. Polled(s)'
  <2>1. v = "false" => MadeOfOther({s}) \subseteq behind'
    BY <1>1, <1>2 DEF LooksTheSame
  <2>2. phase'[s] # "false"
    BY <1>2, <1>3
  <2> QED
    BY <1>2, <1>3, <2>1, <2>2 DEF Polled, MadeOfOther
<1>5. behind \subseteq behind' /\ Collected(s) \in SUBSET Product
  BY <1>0, <1>2, CollectedType
<1> QED
  BY <1>0, <1>2, <1>3, <1>4, <1>5, WorkerEnds

(* A product is built: who was built from the old one is to be looked at.  *)
LEMMA BuildMade ==
  ASSUME TypeOK, WaitInv, NeedsInv, AskInv, MadeInv, NEW d \in Derived, Build(d) PROVE MadeInv'
<1>0. d \in Product /\ d \in Client /\ d \notin Source /\ Outer \in Client /\ Outer # d
  BY RedoAssumption DEF Product, Client
<1>1. PICK N : N = Inputs(d)
  OBVIOUS
<1>2. PICK v \in {"true", "false"} :
        /\ update' = [update EXCEPT ![d] = [changed |-> v, deps |-> Collected(d)]]
        /\ v = "false" => val' = val
  BY DEF Build, SendDone
<1>3. /\ pc[d] = "second_wait" /\ Answered(d) /\ acc[d] # "error" /\ pc' = [pc EXCEPT ![d] = "done"]
      /\ out' = [out EXCEPT ![d] = N] /\ val' = [val EXCEPT ![d] = N]
      /\ UNCHANGED <<deps, content, edited, phase, saved>>
      /\ behind' = IF uses[d] \cap behind = {} THEN behind \ {d} ELSE behind \cup {d}
  BY <1>1 DEF Build, SendDone
<1>4. /\ pc'[d] = "done" /\ update'[d].changed = v /\ update'[d].deps = Collected(d)
      /\ out'[d] = N /\ val'[d] = N /\ pc'[Outer] = pc[Outer]
      /\ \A q \in Product : q # d => pc'[q] = pc[q] /\ update'[q] = update[q]
      /\ \A e \in Derived : e # d => out'[e] = out[e] /\ val'[e] = val[e]
  BY <1>0, <1>2, <1>3 DEF TypeOK
<1>5. /\ phase[d] = "waiting"
      /\ \A e \in Derived : e # d /\ e \notin behind' => e \notin behind
      /\ d \notin behind' => uses[d] \cap behind = {}
  BY <1>0, <1>3 DEF WaitInv, WaitersServed, Live
<1>6. \A x \in uses[d] : x \in Product /\ Fresh(x) /\ x # d
  <2>1. Open[d] = {}
    BY <1>0, <1>3 DEF Open, Answered
  <2> QED
    BY <1>3, <1>5, <2>1 DEF AskInv, Running, Fresh, TypeOK
<1>7. \A y \in N : \/ \E x \in uses[d] \cap Source : y = <<x, content[x]>>
                   \/ \E x \in uses[d] \cap Derived : y \in out[x]
  BY <1>1, <1>6 DEF Inputs, Product
<1>8. Sound(d)'
  <2>1. ASSUME d \notin behind', edited = {}, NEW y \in N PROVE y[2] = content[y[1]]
    <3>1. CASE \E x \in uses[d] \cap Source : y = <<x, content[x]>>
      BY <3>1
    <3>2. CASE \E x \in uses[d] \cap Derived : y \in out[x]
      <4>1. PICK x \in uses[d] \cap Derived : y \in out[x]
        BY <3>2
      <4>2. Fresh(x) /\ x \notin behind
        BY <1>5, <1>6, <2>1, <4>1
      <4> QED
        BY <2>1, <4>1, <4>2 DEF MadeInv, Sound, BuiltFromFiles
    <3> QED
      BY <1>7, <2>1, <3>1, <3>2
  <2> QED
    BY <1>3, <1>4, <2>1 DEF Sound, BuiltFromFiles
<1>9. Finishing(d)'
  <2>1. PICK U : U = uses[d]
    OBVIOUS
  <2>2. Collected(d) # {} => Collected(d) = U
    BY <1>3, <2>1 DEF Collected, AskInv, Running
  <2>3. ASSUME d \notin behind', NEW y \in N
        PROVE  y[1] \in U \/ \E x \in U \cap Derived : y \in val'[x]
    <3>1. CASE \E x \in U \cap Source : y = <<x, content[x]>>
      BY <3>1
    <3>2. CASE \E x \in U \cap Derived : y \in out[x]
      <4>1. PICK x \in U \cap Derived : y \in out[x]
        BY <3>2
      <4>2. x # d /\ x \notin behind
        BY <1>5, <1>6, <2>1, <2>3, <4>1
      <4>3. y \in val'[x]
        BY <1>4, <4>1, <4>2 DEF MadeInv, Recorded
      <4> QED
        BY <4>1, <4>3
    <3> QED
      BY <1>7, <2>1, <2>3, <3>1, <3>2
  <2>4. d \notin behind' => From(N, U, val')
    BY <2>3 DEF From
  <2>5. PICK C : C = Collected(d)
    OBVIOUS
  <2>6. update'[d].deps = C /\ (d \notin behind' /\ C # {} => From(val'[d], C, val'))
    BY <1>4, <2>2, <2>4, <2>5
  <2> QED
    BY <1>2, <1>4, <2>6 DEF Finishing
<1>10. ASSUME NEW e \in Derived, NEW D \in SUBSET Product, e # d, d \notin D \/ v = "false", From(val[e], D, val)
       PROVE  From(val'[e], D, val')
  <2>1. val'[e] = val[e] /\ \A x \in D \cap Derived : val'[x] = val[x]
    BY <1>2, <1>4, <1>10
  <2> QED
    BY <1>10, <2>1 DEF From
<1>11. \A x \in Product : Changed(x) => Changed(x)'
  BY <1>3, <1>4, <1>5 DEF Changed
<1>12. ASSUME NEW e \in Derived PROVE Recorded(e)'
  <2>1. e \in Product /\ deps[e] \in SUBSET Product
    BY DEF Product, TypeOK
  <2>2. CASE e = d
    BY <1>4, <2>2 DEF Recorded
  <2>3. CASE e # d
    <3>1. /\ pc'[e] = pc[e] /\ out'[e] = out[e] /\ val'[e] = val[e] /\ deps'[e] = deps[e]
          /\ phase'[e] = phase[e] /\ (e \notin behind' => e \notin behind)
      BY <1>3, <1>4, <1>5, <2>1, <2>3
    <3>2. CASE d \in deps[e] /\ v = "true"
      <4>1. Changed(d)'
        BY <1>4, <3>2 DEF Changed
      <4>2. phase[e] \notin Verdict
        BY <1>5, <2>1, <3>2 DEF NeedsInv, Closed, Settled, Verdict
      <4> QED
        BY <3>1, <3>2, <4>1, <4>2 DEF MadeInv, Recorded
    <3>3. CASE d \notin deps[e] \/ v = "false"
      <4>1. From(val[e], deps[e], val) => From(val'[e], deps[e], val')
        BY <1>10, <2>1, <2>3, <3>3
      <4>2. (\E x \in deps[e] : Changed(x)) => \E x \in deps[e] : Changed(x)'
        BY <1>11, <2>1
      <4> QED
        BY <3>1, <4>1, <4>2 DEF MadeInv, Recorded
    <3> QED
      BY <1>2, <3>2, <3>3
  <2> QED
    BY <2>2, <2>3
<1>13. ASSUME NEW e \in Derived, e # d PROVE Finishing(e)'
  <2>1. e \in Product /\ pc'[e] = pc[e] /\ update'[e] = update[e]
    BY <1>4, <1>13 DEF Product
  <2>2. ASSUME pc[e] = "done", e \notin behind', update[e].deps # {} PROVE From(val'[e], update[e].deps, val')
    <3>1. d \notin update[e].deps /\ update[e].deps \in SUBSET Product
      BY <1>5, <2>1, <2>2 DEF NeedsInv, Needing, Settled, Verdict
    <3>2. From(val[e], update[e].deps, val)
      BY <1>5, <1>13, <2>2 DEF MadeInv, Finishing
    <3> QED
      BY <1>10, <1>13, <3>1, <3>2
  <2> QED
    BY <2>1, <2>2 DEF MadeInv, Finishing
<1>14. ASSUME NEW e \in Derived, e # d PROVE Sound(e)'
  <2>1. pc'[e] = pc[e] /\ update'[e] = update[e] /\ out'[e] = out[e] /\ (e \notin behind' => e \notin behind)
    BY <1>4, <1>5, <1>14 DEF Product
  <2> QED
    BY <1>3, <2>1 DEF MadeInv, Sound, BuiltFromFiles, Fresh
<1>15. ASSUME NEW s \in Source PROVE Polled(s)'
  <2>1. s \in Product /\ s # d /\ pc'[s] = pc[s] /\ update'[s] = update[s] /\ phase'[s] = phase[s]
    BY <1>0, <1>3, <1>4 DEF Product
  <2> SUFFICES ASSUME phase[s] = "false" \/ (pc[s] = "done" /\ update[s].changed = "false"), edited = {},
                      NEW e \in Derived, e \notin behind', NEW y \in out'[e], y[1] = s
               PROVE  y[2] = content[s]
    BY <1>3, <2>1 DEF Polled
  <2>2. CASE e # d
    BY <1>4, <1>5, <2>2 DEF MadeInv, Polled
  <2>3. CASE e = d
    <3>1. CASE \E x \in uses[d] \cap Source : y = <<x, content[x]>>
      BY <3>1
    <3>2. CASE \E x \in uses[d] \cap Derived : y \in out[x]
      BY <1>5, <2>3, <3>2 DEF MadeInv, Polled
    <3> QED
      BY <1>4, <1>7, <2>3, <3>1, <3>2
  <2> QED
    BY <2>2, <2>3
<1>16. ASSUME NEW e \in Derived PROVE Resting(e)'
  <2>1. pc'[Outer] # "idle"
    BY <1>0, <1>3, <1>4 DEF WaitInv, QuietWhenIdle, Live
  <2> QED
    BY <1>3, <2>1 DEF MadeInv, Resting
<1> QED
  BY <1>8, <1>9, <1>12, <1>13, <1>14, <1>15, <1>16 DEF MadeInv

(* A verdict is recorded.                                                  *)
LEMMA DoneMade ==
  ASSUME TypeOK, WaitInv, MadeInv, NEW p \in Product, WorkerDone(p) PROVE MadeInv'
<1>0. p \in Client /\ Outer \in Client /\ Outer # p
  BY RedoAssumption DEF Client
<1>1. PICK v, N : v = update[p].changed /\ N = update[p].deps
  OBVIOUS
<1>2. /\ pc[p] = "done" /\ phase[p] = "waiting" /\ phase' = [phase EXCEPT ![p] = v]
      /\ deps' = [deps EXCEPT ![p] = N] /\ pc' = [pc EXCEPT ![p] = "idle"]
      /\ update' = [update EXCEPT ![p] = NoUpdate] /\ v \in Verdict
      /\ UNCHANGED <<out, val, content, edited, behind, saved>>
  BY <1>1 DEF WorkerDone, outside, TypeOK
<1>3. /\ pc'[p] = "idle" /\ phase'[p] = v /\ deps'[p] = N /\ pc'[Outer] = pc[Outer]
      /\ \A q \in Product : q # p => /\ pc'[q] = pc[q] /\ update'[q] = update[q]
                                     /\ phase'[q] = phase[q] /\ deps'[q] = deps[q]
  BY <1>0, <1>2 DEF TypeOK
<1>4. \A q \in Product : Changed(q) => Changed(q)'
  BY <1>1, <1>2, <1>3 DEF Changed
<1>5. ASSUME NEW d \in Derived PROVE Recorded(d)'
  <2>1. d \in Product
    BY DEF Product
  <2>2. CASE d = p
    <3>1. d \notin behind /\ N # {} => From(val[d], N, val)
      BY <1>1, <1>2, <2>2 DEF MadeInv, Finishing
    <3> QED
      BY <1>2, <1>3, <2>2, <3>1 DEF MadeInv, Recorded
  <2>3. CASE d # p
    <3>1. pc'[d] = pc[d] /\ phase'[d] = phase[d] /\ deps'[d] = deps[d] /\ deps[d] \subseteq Product
      BY <1>3, <2>1, <2>3 DEF TypeOK
    <3>2. (\E x \in deps[d] : Changed(x)) => \E x \in deps[d] : Changed(x)'
      BY <1>4, <3>1
    <3> QED
      BY <1>2, <3>1, <3>2 DEF MadeInv, Recorded
  <2> QED
    BY <2>2, <2>3
<1>6. ASSUME NEW d \in Derived PROVE Finishing(d)'
  BY <1>2, <1>3 DEF MadeInv, Finishing, Product
<1>7. ASSUME NEW d \in Derived PROVE Resting(d)'
  <2>1. pc'[Outer] # "idle"
    BY <1>0, <1>2, <1>3 DEF WaitInv, QuietWhenIdle, Live
  <2> QED
    BY <1>2, <2>1 DEF MadeInv, Resting
<1>8. ASSUME NEW d \in Derived PROVE Sound(d)'
  <2>1. CASE d = p
    BY <1>1, <1>2, <1>3, <2>1 DEF MadeInv, Sound, BuiltFromFiles, Fresh
  <2>2. CASE d # p
    BY <1>2, <1>3, <2>2 DEF MadeInv, Sound, BuiltFromFiles, Fresh, Product
  <2> QED
    BY <2>1, <2>2
<1>9. ASSUME NEW s \in Source PROVE Polled(s)'
  <2>1. CASE s = p
    BY <1>1, <1>2, <1>3, <2>1 DEF MadeInv, Polled
  <2>2. CASE s # p
    BY <1>2, <1>3, <2>2 DEF MadeInv, Polled, Product
  <2> QED
    BY <2>1, <2>2
<1> QED
  BY <1>5, <1>6, <1>7, <1>8, <1>9 DEF MadeInv

(* What is saved is at rest, and what is resumed was saved.                *)
LEMMA SavedMade ==
  ASSUME TypeOK, MadeInv, Save \/ CrashAndResume PROVE MadeInv'
<1>1. CASE Save
  <2>1. /\ pc[Outer] = "idle" /\ saved'.val = val /\ saved'.deps = deps /\ saved'.behind = behind
        /\ UNCHANGED <<phase, deps, out, val, content, edited, behind, update, pc>>
    BY <1>1 DEF Save, table, process
  <2>2. ASSUME NEW d \in Derived PROVE Recorded(d)' /\ Finishing(d)'
    BY <2>1 DEF MadeInv, Recorded, Finishing, Changed
  <2>3. ASSUME NEW d \in Derived PROVE Resting(d)'
    BY <2>1 DEF MadeInv, Resting
  <2>4. ASSUME NEW d \in Derived PROVE Sound(d)'
    BY <2>1 DEF MadeInv, Sound, BuiltFromFiles, Fresh
  <2>5. ASSUME NEW s \in Source PROVE Polled(s)'
    BY <2>1 DEF MadeInv, Polled
  <2> QED
    BY <2>2, <2>3, <2>4, <2>5 DEF MadeInv
<1>2. CASE CrashAndResume
  <2>1. /\ phase' = [p \in Product |-> "none"] /\ pc' = [c \in Client |-> "idle"]
        /\ val' = saved.val /\ deps' = saved.deps /\ saved' = saved /\ out' = out
        /\ behind' = behind \cup saved.behind \cup {d \in Derived : out[d] # saved.val[d]}
    BY <1>2 DEF CrashAndResume
  <2>2. \A p \in Product : pc'[p] = "idle" /\ phase'[p] = "none"
    BY <2>1 DEF Client
  <2>3. ASSUME NEW d \in Derived PROVE Recorded(d)'
    BY <2>1 DEF MadeInv, Resting, Recorded
  <2>4. ASSUME NEW d \in Derived PROVE Resting(d)'
    BY <2>1 DEF MadeInv, Resting
  <2>5. ASSUME NEW d \in Derived PROVE Finishing(d)' /\ Sound(d)'
    BY <2>2 DEF Finishing, Sound, Fresh, Product
  <2>6. ASSUME NEW s \in Source PROVE Polled(s)'
    BY <2>2 DEF Polled, Product
  <2> QED
    BY <2>3, <2>4, <2>5, <2>6 DEF MadeInv
<1> QED
  BY <1>1, <1>2

LEMMA MadeInvariance == Spec => []MadeInv
<1>1. Init => MadeInv
  <2> SUFFICES ASSUME Init PROVE MadeInv
    OBVIOUS
  <2>1. /\ \A p \in Product : pc[p] = "idle" /\ deps[p] = {} /\ phase[p] = "none" /\ saved.deps[p] = {}
        /\ out = val
    BY DEF Init, Client
  <2>2. \A d \in Derived : Recorded(d) /\ Finishing(d) /\ Resting(d) /\ Sound(d)
    BY <2>1 DEF Product, Recorded, Finishing, Resting, Sound, Fresh
  <2>3. \A s \in Source : Polled(s)
    BY <2>1 DEF Product, Polled
  <2> QED
    BY <2>2, <2>3 DEF MadeInv
<1>2. TypeOK /\ WaitInv /\ NeedsInv /\ AskInv /\ MadeInv /\ [Next]_vars => MadeInv'
  <2> SUFFICES ASSUME TypeOK, WaitInv, NeedsInv, AskInv, MadeInv, [Next]_vars PROVE MadeInv'
    OBVIOUS
  <2>0. Outer \notin Product /\ Outer \in Client /\ \A p \in Product : p \in Client
    BY RedoAssumption DEF Client
  <2>1. ASSUME NEW P \in Pushes, BeginPush(P[1], P[2]) PROVE MadeInv'
    <3>1. PICK C, NC : C = P[1] /\ NC = P[2]
      OBVIOUS
    <3>2. C \subseteq Source /\ NC \subseteq Source /\ Source \cap Derived = {}
      BY <3>1, RedoAssumption
    <3>3. /\ pc[Outer] = "idle" /\ pc' = [pc EXCEPT ![Outer] = "outer_wait"]
          /\ phase' = [p \in Product |-> IF p \in C THEN "true"
                                        ELSE IF p \in NC THEN "false" ELSE "none"]
          /\ behind' = behind \cup MadeOfOther(NC)
          /\ UNCHANGED <<deps, out, val, content, update, saved>>
      BY <2>1, <3>1 DEF BeginPush
    <3>4. \A d \in Derived : phase'[d] = "none"
      BY <3>2, <3>3 DEF Product
    <3>5. ASSUME NEW s \in Source, phase'[s] = "false" PROVE MadeOfOther({s}) \subseteq behind'
      <4>1. s \in NC
        BY <3>3, <3>5 DEF Product
      <4> QED
        BY <3>3, <4>1 DEF MadeOfOther
    <3> QED
      BY <3>3, <3>4, <3>5, BeginMade
  <2>2. ASSUME NEW R \in Pulls, BeginPull(R) PROVE MadeInv'
    <3>1. /\ pc[Outer] = "idle" /\ pc' = [pc EXCEPT ![Outer] = "outer_wait"] /\ behind' = behind
          /\ UNCHANGED <<deps, out, val, content, update, saved>>
          /\ \A p \in Product : phase'[p] = "none"
      BY <2>2 DEF BeginPull
    <3> QED
      BY <3>1, BeginMade DEF Product
  <2>3. ASSUME NEW c \in Client, NEW p \in Product, Eval(c, p) PROVE MadeInv'
    <3>1. UNCHANGED <<deps, out, val, content, edited, behind, update, saved>>
      BY <2>3 DEF Eval, EvalKnown, EvalJoin, EvalSpawn, EvalUnknown, table, outside
    <3>2. CASE EvalSpawn(c, p)
      <4>1. /\ phase[p] = "none" /\ phase' = [phase EXCEPT ![p] = "waiting"]
            /\ pc' = [pc EXCEPT ![p] = IF deps[p] = {} THEN "run" ELSE "old"]
        BY <3>2 DEF EvalSpawn
      <4>2. pc[p] # "done" /\ pc'[p] # "done" /\ phase'[p] = "waiting" /\ pc'[Outer] = pc[Outer]
        BY <2>0, <4>1 DEF WaitInv, WaitersServed, Live, TypeOK
      <4>3. \A q \in Product : q # p => pc'[q] = pc[q] /\ phase'[q] = phase[q]
        BY <2>0, <4>1 DEF TypeOK
      <4>4. \A q \in Product : /\ pc'[q] = "done" <=> pc[q] = "done"
                               /\ phase'[q] = phase[q] \/ (phase[q] \notin Verdict /\ phase'[q] \notin Verdict)
        BY <4>1, <4>2, <4>3 DEF Verdict
      <4> QED
        BY <3>1, <4>2, <4>4, MadeKept
    <3>3. CASE EvalKnown(c, p) \/ EvalJoin(c, p) \/ EvalUnknown(c, p)
      <4>1. UNCHANGED <<phase, pc>>
        BY <3>3 DEF EvalKnown, EvalJoin, EvalUnknown, table
      <4> QED
        BY <3>1, <4>1, MadeKept
    <3> QED
      BY <2>3, <3>2, <3>3 DEF Eval
  <2>4. ASSUME NEW p \in Product, NEW w, w # "done", pc[p] # "done", pc' = [pc EXCEPT ![p] = w],
               UNCHANGED <<phase, deps, out, val, content, edited, behind, update, saved>>
        PROVE  MadeInv'
    <3>1. /\ \A q \in Product : pc'[q] = "done" <=> pc[q] = "done"
          /\ pc'[Outer] = pc[Outer]
      BY <2>0, <2>4 DEF TypeOK
    <3> QED
      BY <2>4, <3>1, MadeKept
  <2>5. ASSUME NEW p \in Product, CheckOld(p) PROVE MadeInv'
    <3>1. /\ pc[p] # "done" /\ pc' = [pc EXCEPT ![p] = "old_wait"]
          /\ UNCHANGED <<phase, deps, out, val, content, edited, behind, update, saved>>
      BY <2>5 DEF CheckOld, outside
    <3> QED
      BY <2>4, <3>1
  <2>6. ASSUME NEW d \in Derived, NeedFirst(d) \/ NeedSecond(d) PROVE MadeInv'
    <3>1. PICK w \in {"first_wait", "second_wait"} : pc' = [pc EXCEPT ![d] = w]
      BY <2>6 DEF NeedFirst, NeedSecond
    <3>2. /\ d \in Product /\ pc[d] # "done" /\ w # "done"
          /\ UNCHANGED <<phase, deps, out, val, content, edited, behind, update, saved>>
      BY <2>6 DEF NeedFirst, NeedSecond, Product
    <3> QED
      BY <2>4, <3>1, <3>2
  <2>7. CASE UNCHANGED vars
    BY <2>7, MadeKept DEF vars, table, process, outside
  <2> QED
    BY <2>1, <2>2, <2>3, <2>5, <2>6, <2>7, EditMade, ReplyMade, SkipMade, FailMade, PollMade, BuildMade,
       DoneMade, SavedMade DEF Next, Work, Environment, WorkerStep, RuleStep
<1> QED BY <1>1, <1>2, TypeCorrect, WaitInvariance, NeedsInvariance, AskInvariance, PTL DEF Spec

(* In any network, for any pulls and pushes, however files are edited and  *)
(* whatever mtimes they get, whatever rules turn around and fail and       *)
(* whichever state is resumed: a transaction that finds the files at rest  *)
(* answers one moment of them, except for the products of SingleMoment's   *)
(* list.                                                                   *)
THEOREM PullsAreMoments == Spec => []SingleMoment
<1>1. AskInv /\ MadeInv => SingleMoment
  <2> SUFFICES ASSUME AskInv, MadeInv, Undisturbed, NEW d \in (asked \cap Derived) \ behind PROVE BuiltFromFiles(d)
    BY DEF SingleMoment
  <2>1. Fresh(d)
    BY DEF AskInv, Transacting, Undisturbed
  <2> QED
    BY <2>1 DEF MadeInv, Sound, Undisturbed
<1> QED BY <1>1, AskInvariance, MadeInvariance, PTL

-----------------------------------------------------------------------------
(* When nothing has to be excused: every edit brings contents and an mtime *)
(* that the file never had, every pull asks for every product, nothing is  *)
(* pushed and no older state is resumed.                                   *)
FineEdit ==
  \A s \in Source :
    Edit(s) => content'[s] \in {0, edits'} /\ (content'[s] # 0 => mtime'[s] = edits')

WholePulls ==
  /\ ~Resume /\ Pushes = {}
  /\ \A R \in Pulls : Derived \subseteq R

(* What is recorded was looked at by the last transaction.                 *)
WholeInv ==
  /\ pc[Outer] = "outer_wait" => Derived \subseteq asked
  /\ pc[Outer] = "idle" => \A d \in Derived : deps[d] # {} => phase[d] \in Verdict

(* As long as a file is what it was when it was last polled, a build that  *)
(* took it from there has its contents.                                    *)
Still(s) == content[s] = stamp[s] /\ content[s] # 0

Traced(y, D) ==
  \/ \E x \in D \cap Derived : y \in out[x]
  \/ y[1] \in D /\ (Still(y[1]) => y[2] = content[y[1]])

MadeFrom(d, D) == \A y \in out[d] : Traced(y, D)

ExactlyRecorded(d) ==
  deps[d] # {} /\ pc[d] # "done" =>
    \/ MadeFrom(d, deps[d])
    \/ phase[d] \notin Verdict /\ \E x \in deps[d] : Changed(x)

ExactlyFinishing(d) ==
  pc[d] = "done" => /\ update[d].deps # {} => MadeFrom(d, update[d].deps)
                    /\ update[d].changed = "error" => update[d].deps = {}

ExactlySound(d) ==
  /\ Fresh(d) \/ (pc[d] = "done" /\ update[d].changed # "error")
  /\ edited = {}
  => BuiltFromFiles(d)

ExactlyPolled(s) ==
  /\ stamp[s] <= edits /\ content[s] <= edits
  /\ content[s] # 0 => mtime[s] = content[s]
  /\ (phase[s] = "false" \/ (pc[s] = "done" /\ update[s].changed = "false")) /\ edited = {} => Still(s)

ExactInv ==
  /\ \A d \in Derived : ExactlyRecorded(d)
  /\ \A d \in Derived : ExactlyFinishing(d)
  /\ \A d \in Derived : ExactlySound(d)
  /\ \A s \in Source : ExactlyPolled(s)
  /\ out = val

LEMMA WholeInvariance == WholePulls => (Spec => []WholeInv)
<1> SUFFICES ASSUME WholePulls PROVE Spec => []WholeInv
  OBVIOUS
<1>1. Init => WholeInv
  BY DEF Init, WholeInv, Client, Product
<1>2. TypeOK /\ WaitInv /\ AskInv /\ WholeInv /\ [Next]_vars => WholeInv'
  <2> SUFFICES ASSUME TypeOK, WaitInv, AskInv, WholeInv, [Next]_vars PROVE WholeInv'
    OBVIOUS
  <2>0. Outer \in Client /\ Outer \notin Product /\ \A p \in Product : p \in Client
    BY RedoAssumption DEF Client
  <2>1. ASSUME pc[Outer] # "idle", pc'[Outer] = pc[Outer], asked' = asked PROVE WholeInv'
    BY <2>1 DEF WholeInv
  <2>2. ASSUME UNCHANGED <<pc, asked, deps, phase>> PROVE WholeInv'
    BY <2>2 DEF WholeInv
  <2>3. ASSUME NEW R \in Pulls, BeginPull(R) PROVE WholeInv'
    <3>1. pc'[Outer] = "outer_wait" /\ asked' = R
      BY <2>0, <2>3 DEF BeginPull, TypeOK
    <3> QED
      BY <3>1 DEF WholeInv, WholePulls
  <2>4. ASSUME NEW P \in Pushes PROVE FALSE
    BY DEF WholePulls
  <2>5. ASSUME Reply PROVE WholeInv'
    <3>1. /\ pc[Outer] = "outer_wait" /\ Answered(Outer) /\ pc' = [pc EXCEPT ![Outer] = "idle"]
          /\ UNCHANGED <<phase, deps, asked>>
      BY <2>5 DEF Reply, table
    <3>2. pc'[Outer] = "idle" /\ Open[Outer] = {}
      BY <2>0, <3>1 DEF TypeOK, Open, Answered
    <3>3. ASSUME NEW d \in Derived, deps[d] # {} PROVE phase[d] \in Verdict
      BY <3>1, <3>2, <3>3 DEF WholeInv, AskInv, Transacting, Fresh, Verdict
    <3> QED
      BY <3>1, <3>2, <3>3 DEF WholeInv
  <2>6. ASSUME NEW c \in Client, NEW p \in Product, Eval(c, p) PROVE WholeInv'
    <3>1. pc[c] \in WaitPc /\ pc[Outer] # "idle" /\ asked' = asked
      BY <2>6 DEF Eval, WaitInv, WaitersServed, QuietWhenIdle, Live, Client, WaitPc
    <3>2. pc' = pc \/ \E w : pc' = [pc EXCEPT ![p] = w]
      BY <2>6, Zenon DEF Eval, EvalKnown, EvalJoin, EvalSpawn, EvalUnknown
    <3>3. pc'[Outer] = pc[Outer]
      BY <2>0, <3>2 DEF TypeOK
    <3> QED
      BY <2>1, <3>1, <3>3
  <2>7. ASSUME NEW p \in Product, pc[p] # "idle", NEW w, pc' = [pc EXCEPT ![p] = w], asked' = asked
        PROVE  WholeInv'
    <3>1. pc[Outer] # "idle" /\ pc'[Outer] = pc[Outer]
      BY <2>0, <2>7 DEF WaitInv, QuietWhenIdle, Live, TypeOK
    <3> QED
      BY <2>1, <2>7, <3>1
  <2>8. ASSUME NEW p \in Product, WorkerStep(p) PROVE WholeInv'
    <3>1. \E w : pc' = [pc EXCEPT ![p] = w]
      BY <2>8, Zenon DEF WorkerStep, CheckOld, OldChecked, WorkerDone, SendDone
    <3>2. pc[p] # "idle" /\ asked' = asked
      BY <2>8 DEF WorkerStep, CheckOld, OldChecked, WorkerDone
    <3> QED
      BY <2>7, <3>1, <3>2
  <2>9. ASSUME NEW d \in Derived, RuleStep(d) \/ BuildFails(d) PROVE WholeInv'
    <3>1. \E w : pc' = [pc EXCEPT ![d] = w]
      BY <2>9, Zenon DEF RuleStep, NeedFirst, NeedSecond, NeedFailed, Build, BuildFails, SendDone
    <3>2. pc[d] # "idle" /\ asked' = asked /\ d \in Product
      BY <2>9 DEF RuleStep, NeedFirst, NeedSecond, NeedFailed, Build, BuildFails, Product
    <3> QED
      BY <2>7, <3>1, <3>2
  <2>10. ASSUME NEW s \in Source, Poll(s) PROVE WholeInv'
    <3>1. s \in Product /\ pc[s] # "idle" /\ pc' = [pc EXCEPT ![s] = "done"] /\ asked' = asked
      BY <2>10 DEF Poll, SendDone, Product
    <3> QED
      BY <2>7, <3>1
  <2>11. ASSUME NEW s \in Source, Edit(s) PROVE WholeInv'
    BY <2>2, <2>11 DEF Edit, table, process
  <2>12. ASSUME Save \/ CrashAndResume PROVE FALSE
    BY <2>12 DEF Save, CrashAndResume, WholePulls
  <2>13. CASE UNCHANGED vars
    BY <2>2, <2>13 DEF vars, table, process
  <2> QED
    BY <2>3, <2>4, <2>5, <2>6, <2>8, <2>9, <2>10, <2>11, <2>12, <2>13 DEF Next, Work, Environment
<1> QED BY <1>1, <1>2, TypeCorrect, WaitInvariance, AskInvariance, PTL DEF Spec

(* A step of the processes by which nobody comes to a verdict.             *)
LEMMA ExactKept ==
  ASSUME ExactInv, UNCHANGED <<deps, out, val, stamp, content, edits, mtime, edited, update>>,
         \A p \in Product : pc'[p] = "done" <=> pc[p] = "done",
         \A p \in Product : phase'[p] = phase[p] \/ (phase[p] \notin Verdict /\ phase'[p] \notin Verdict),
         TypeOK
  PROVE  ExactInv'
<1>1. \A p \in Product : Fresh(p)' <=> Fresh(p)
  BY DEF Fresh, Verdict
<1>2. \A p \in Product : Changed(p)' <=> Changed(p)
  BY DEF Changed, Verdict
<1>3. \A d, D : MadeFrom(d, D)' <=> MadeFrom(d, D)
  BY DEF MadeFrom, Traced, Still
<1>4. ASSUME NEW d \in Derived PROVE ExactlyRecorded(d)'
  <2>1. d \in Product /\ deps[d] \subseteq Product
    BY DEF Product, TypeOK
  <2> QED
    BY <1>2, <1>3, <2>1 DEF ExactInv, ExactlyRecorded
<1>5. ASSUME NEW d \in Derived PROVE ExactlyFinishing(d)'
  BY <1>3 DEF ExactInv, ExactlyFinishing, Product
<1>6. ASSUME NEW d \in Derived PROVE ExactlySound(d)'
  BY <1>1 DEF ExactInv, ExactlySound, BuiltFromFiles, Product
<1>7. ASSUME NEW s \in Source PROVE ExactlyPolled(s)'
  BY DEF ExactInv, ExactlyPolled, Still, Product, Verdict
<1> QED
  BY <1>4, <1>5, <1>6, <1>7 DEF ExactInv

(* p has its verdict, with nothing written elsewhere.                      *)
LEMMA WorkerEndsExact ==
  ASSUME TypeOK, ExactInv, NEW p \in Product, pc[p] # "done",
         NEW v \in Verdict, NEW N \in SUBSET Product,
         pc' = [pc EXCEPT ![p] = "done"],
         update' = [update EXCEPT ![p] = [changed |-> v, deps |-> N]],
         UNCHANGED <<deps, out, val, stamp, content, edits, mtime, edited, phase>>,
         phase[p] = "waiting",
         p \in Derived => ExactlyFinishing(p)' /\ ExactlySound(p)',
         p \in Source => ExactlyPolled(p)'
  PROVE  ExactInv'
<1>0. p \in Client
  BY DEF Client
<1>1. /\ pc'[p] = "done" /\ update'[p].changed = v /\ update'[p].deps = N
      /\ \A q \in Product : q # p => pc'[q] = pc[q] /\ update'[q] = update[q]
  BY <1>0 DEF TypeOK
<1>2. \A q \in Product : Changed(q) => Changed(q)'
  BY <1>1 DEF Changed
<1>3. \A d, D : MadeFrom(d, D)' <=> MadeFrom(d, D)
  BY DEF MadeFrom, Traced, Still
<1>4. ASSUME NEW d \in Derived PROVE ExactlyRecorded(d)'
  <2>1. d \in Product /\ deps[d] \subseteq Product
    BY DEF Product, TypeOK
  <2>2. CASE d = p
    BY <1>1, <2>2 DEF ExactInv, ExactlyRecorded
  <2>3. CASE d # p
    BY <1>1, <1>2, <1>3, <2>1, <2>3 DEF ExactInv, ExactlyRecorded
  <2> QED
    BY <2>2, <2>3
<1>5. ASSUME NEW d \in Derived, d # p PROVE ExactlyFinishing(d)'
  BY <1>1, <1>3, <1>5 DEF ExactInv, ExactlyFinishing, Product
<1>6. ASSUME NEW d \in Derived, d # p PROVE ExactlySound(d)'
  BY <1>1, <1>6 DEF ExactInv, ExactlySound, BuiltFromFiles, Product, Fresh
<1>7. ASSUME NEW s \in Source, s # p PROVE ExactlyPolled(s)'
  BY <1>1, <1>7 DEF ExactInv, ExactlyPolled, Still, Product
<1> QED
  BY <1>4, <1>5, <1>6, <1>7 DEF ExactInv

LEMMA EditExact ==
  ASSUME TypeOK, ExactInv, NEW s \in Source, Edit(s), FineEdit PROVE ExactInv'
<1>1. PICK v \in {0, edits + 1} : content' = [content EXCEPT ![s] = v]
  <2>1. \E v : content' = [content EXCEPT ![s] = v]
    BY DEF Edit
  <2>2. content'[s] \in {0, edits + 1}
    BY DEF FineEdit, Edit
  <2> QED
    BY <2>1, <2>2 DEF TypeOK
<1>2. /\ edits' = edits + 1 /\ edits \in Nat /\ s \in edited'
      /\ UNCHANGED <<deps, out, val, stamp, update, pc, phase>>
  BY RedoAssumption DEF Edit, table, process, TypeOK, Version
<1>3. \A q \in Source : /\ stamp[q] \in Int /\ stamp[q] <= edits
                        /\ content[q] \in Int /\ content[q] <= edits
  <2> TAKE q \in Source
  <2>1. Mtime \subseteq Int /\ Version \subseteq Int
    BY RedoAssumption DEF Mtime, Version, NoStamp
  <2>2. stamp[q] \in Mtime /\ content[q] \in Version
    BY DEF TypeOK
  <2> QED
    BY <2>1, <2>2 DEF ExactInv, ExactlyPolled
<1>4. /\ content'[s] = v /\ \A q \in Source : q # s => content'[q] = content[q]
      /\ content'[s] # 0 => mtime'[s] = edits'
      /\ \A q \in Source : q # s => mtime'[q] = mtime[q]
  BY <1>1 DEF TypeOK, FineEdit, Edit
<1>5. ~Still(s)'
  BY <1>2, <1>3, <1>4 DEF Still
<1>6. ASSUME NEW d \in Derived, NEW D, MadeFrom(d, D) PROVE MadeFrom(d, D)'
  <2> SUFFICES ASSUME NEW y \in out[d] PROVE Traced(y, D)'
    BY <1>2 DEF MadeFrom
  <2>1. y[1] \in Source
    BY DEF TypeOK, Made
  <2>2. Traced(y, D)
    BY <1>6 DEF MadeFrom
  <2>3. CASE y[1] = s
    BY <1>2, <1>5, <2>2, <2>3 DEF Traced
  <2>4. CASE y[1] # s
    BY <1>2, <1>4, <2>1, <2>2, <2>4 DEF Traced, Still
  <2> QED
    BY <2>3, <2>4
<1>7. ASSUME NEW d \in Derived PROVE ExactlyRecorded(d)'
  BY <1>2, <1>6 DEF ExactInv, ExactlyRecorded, Changed
<1>8. ASSUME NEW d \in Derived PROVE ExactlyFinishing(d)'
  BY <1>2, <1>6 DEF ExactInv, ExactlyFinishing
<1>9. ASSUME NEW d \in Derived PROVE ExactlySound(d)'
  BY <1>2 DEF ExactInv, ExactlySound, Fresh
<1>10. ASSUME NEW q \in Source PROVE ExactlyPolled(q)'
  <2>1. stamp'[q] <= edits' /\ content'[q] <= edits' /\ (content'[q] # 0 => mtime'[q] = content'[q])
    BY <1>1, <1>2, <1>3, <1>4 DEF ExactInv, ExactlyPolled
  <2> QED
    BY <1>2, <2>1 DEF ExactlyPolled
<1> QED
  BY <1>2, <1>7, <1>8, <1>9, <1>10 DEF ExactInv

LEMMA PullExact ==
  ASSUME TypeOK, WaitInv, WholeInv, ExactInv, NEW R \in Pulls, BeginPull(R) PROVE ExactInv'
<1>1. /\ pc[Outer] = "idle" /\ phase' = [p \in Product |-> "none"] /\ pc' = [pc EXCEPT ![Outer] = "outer_wait"]
      /\ UNCHANGED <<deps, out, val, stamp, content, edits, mtime, update>>
  BY DEF BeginPull
<1>2. ASSUME NEW p \in Product PROVE pc[p] = "idle" /\ pc'[p] = "idle" /\ phase'[p] = "none"
  <2>1. p \in Client /\ p # Outer /\ pc[p] = "idle"
    BY <1>1, RedoAssumption DEF WaitInv, QuietWhenIdle, Live, Client
  <2> QED
    BY <1>1, <2>1 DEF TypeOK
<1>3. \A d, D : MadeFrom(d, D)' <=> MadeFrom(d, D)
  BY <1>1 DEF MadeFrom, Traced, Still
<1>4. ASSUME NEW d \in Derived PROVE ExactlyRecorded(d)'
  <2>1. d \in Product
    BY DEF Product
  <2>2. deps[d] # {} => MadeFrom(d, deps[d])
    BY <1>1, <1>2, <2>1 DEF ExactInv, ExactlyRecorded, WholeInv
  <2> QED
    BY <1>1, <1>3, <2>2 DEF ExactInv, ExactlyRecorded
<1>5. ASSUME NEW d \in Derived PROVE ExactlyFinishing(d)' /\ ExactlySound(d)'
  BY <1>2 DEF ExactlyFinishing, ExactlySound, Fresh, Product
<1>6. ASSUME NEW s \in Source PROVE ExactlyPolled(s)'
  BY <1>1, <1>2 DEF ExactInv, ExactlyPolled, Product
<1> QED
  BY <1>1, <1>4, <1>5, <1>6 DEF ExactInv

(* A rule that is skipped: what it was built from is what there is.        *)
LEMMA SkipExact ==
  ASSUME TypeOK, WaitInv, NeedsInv, AskInv, ExactInv, NEW p \in Product, OldChecked(p) PROVE ExactInv'
<1>0. p \in Client
  BY DEF Client
<1>1. /\ pc[p] = "old_wait" /\ Answered(p)
      /\ UNCHANGED <<deps, out, val, stamp, content, edits, mtime, edited, phase>>
  BY DEF OldChecked
<1>2. p \in Derived
  BY <1>1 DEF NeedsInv, SourceNeeds, Product
<1>3. CASE acc[p] # "false"
  <2>1. pc' = [pc EXCEPT ![p] = "run"] /\ update' = update
    BY <1>3 DEF OldChecked
  <2>2. \A q \in Product : pc'[q] = "done" <=> pc[q] = "done"
    BY <1>0, <1>1, <2>1 DEF TypeOK
  <2> QED
    BY <1>1, <2>1, <2>2, ExactKept
<1>4. CASE acc[p] = "false"
  <2>1. /\ pc' = [pc EXCEPT ![p] = "done"]
        /\ update' = [update EXCEPT ![p] = [changed |-> "false", deps |-> deps[p]]]
    BY <1>4 DEF OldChecked, SendDone
  <2>2. deps[p] # {} /\ \A x \in deps[p] : x \in Product /\ phase[x] = "false"
    BY <1>0, <1>1, <1>2, <1>4 DEF AskInv, Checking, Answered, Open, TypeOK
  <2>3. \A x \in deps[p] : ~Changed(x)
    BY <2>2 DEF WaitInv, WaitersServed, Live, Changed
  <2>4. MadeFrom(p, deps[p])
    BY <1>1, <1>2, <2>2, <2>3 DEF ExactInv, ExactlyRecorded
  <2>5. edited = {} => BuiltFromFiles(p)
    <3> SUFFICES ASSUME edited = {}, NEW y \in out[p] PROVE y[2] = content[y[1]]
      BY <2>4 DEF BuiltFromFiles
    <3>1. Traced(y, deps[p]) /\ y[1] \in Source
      BY <1>2, <2>4 DEF MadeFrom, TypeOK, Made
    <3>2. CASE \E x \in deps[p] \cap Derived : y \in out[x]
      <4>1. PICK x \in deps[p] \cap Derived : y \in out[x]
        BY <3>2
      <4>2. BuiltFromFiles(x)
        BY <2>2, <4>1 DEF ExactInv, ExactlySound, Fresh
      <4> QED
        BY <4>1, <4>2 DEF BuiltFromFiles
    <3>3. CASE y[1] \in deps[p] /\ (Still(y[1]) => y[2] = content[y[1]])
      BY <2>2, <3>1, <3>3 DEF ExactInv, ExactlyPolled
    <3> QED
      BY <3>1, <3>2, <3>3 DEF Traced
  <2>6. pc'[p] = "done" /\ update'[p].changed = "false" /\ update'[p].deps = deps[p]
    BY <1>0, <2>1 DEF TypeOK
  <2>7. ExactlyFinishing(p)'
    <3>1. MadeFrom(p, deps[p])'
      BY <1>1, <2>4 DEF MadeFrom, Traced, Still
    <3> QED
      BY <1>1, <2>6, <3>1 DEF ExactlyFinishing
  <2>8. ExactlySound(p)'
    BY <1>1, <2>4, <2>5 DEF ExactlySound, BuiltFromFiles
  <2>9. phase[p] = "waiting" /\ pc[p] # "done" /\ deps[p] \in SUBSET Product /\ "false" \in Verdict
    BY <1>0, <1>1 DEF WaitInv, WaitersServed, Live, TypeOK, Verdict
  <2>10. p \notin Source
    BY <1>2, RedoAssumption
  <2> QED
    BY <1>1, <2>1, <2>7, <2>8, <2>9, <2>10, WorkerEndsExact
<1> QED
  BY <1>3, <1>4

(* A rule that failed records nothing.                                     *)
LEMMA FailExact ==
  ASSUME TypeOK, WaitInv, ExactInv, NEW d \in Derived, NeedFailed(d) \/ BuildFails(d) PROVE ExactInv'
<1>1. /\ pc[d] \in {"first_wait", "second_wait"} /\ pc' = [pc EXCEPT ![d] = "done"]
      /\ update' = [update EXCEPT ![d] = [changed |-> "error", deps |-> {}]]
      /\ UNCHANGED <<deps, out, val, stamp, content, edits, mtime, edited, phase>>
  BY DEF NeedFailed, BuildFails, SendDone, table, outside
<1>2. d \in Product /\ d \in Client /\ d \notin Source
  BY RedoAssumption DEF Product, Client
<1>3. /\ phase[d] = "waiting" /\ pc[d] # "done" /\ {} \in SUBSET Product /\ "error" \in Verdict
      /\ pc'[d] = "done" /\ update'[d].changed = "error" /\ update'[d].deps = {}
  BY <1>1, <1>2 DEF WaitInv, WaitersServed, Live, TypeOK, Verdict
<1>4. ExactlyFinishing(d)' /\ ExactlySound(d)'
  BY <1>1, <1>3 DEF ExactlyFinishing, ExactlySound, Fresh
<1> QED
  BY <1>1, <1>2, <1>3, <1>4, WorkerEndsExact

(* A file is polled: who was built from older contents is to be looked at. *)
LEMMA PollExact ==
  ASSUME TypeOK, WaitInv, NeedsInv, ExactInv, NEW s \in Source, Poll(s) PROVE ExactInv'
<1>0. s \in Product /\ s \in Client /\ s \notin Derived
  BY RedoAssumption DEF Product, Client
<1>t. content[s] # 0 => mtime[s] = content[s]
  BY DEF ExactInv, ExactlyPolled
<1>1. PICK v : v = IF content[s] = 0 \/ content[s] # stamp[s] THEN "true" ELSE "false"
  OBVIOUS
<1>2. /\ pc[s] = "run" /\ pc' = [pc EXCEPT ![s] = "done"]
      /\ update' = [update EXCEPT ![s] = [changed |-> v, deps |-> Collected(s)]]
      /\ stamp' = IF content[s] = 0 THEN stamp ELSE [stamp EXCEPT ![s] = content[s]]
      /\ UNCHANGED <<deps, out, val, content, edits, mtime, edited, phase>>
  BY <1>1, <1>t DEF Poll, SendDone
<1>3. /\ pc'[s] = "done" /\ update'[s].changed = v
      /\ \A q \in Product : q # s => pc'[q] = pc[q] /\ update'[q] = update[q]
  BY <1>0, <1>2 DEF TypeOK
<1>4. /\ \A q \in Source : q # s => stamp'[q] = stamp[q]
      /\ content[s] # 0 => stamp'[s] = content[s]
      /\ content[s] = 0 => stamp'[s] = stamp[s]
  BY <1>2 DEF TypeOK
<1>5. phase[s] = "waiting"
  BY <1>0, <1>2 DEF WaitInv, WaitersServed, Live
<1>6. \A x \in Product : Changed(x) => Changed(x)'
  BY <1>2, <1>3, <1>5 DEF Changed
<1>7. ASSUME NEW d \in Derived, NEW D, MadeFrom(d, D), s \notin D \/ v = "false"
      PROVE  MadeFrom(d, D)'
  <2> SUFFICES ASSUME NEW y \in out[d] PROVE Traced(y, D)'
    BY <1>2 DEF MadeFrom
  <2>1. Traced(y, D) /\ y[1] \in Source
    BY <1>7 DEF MadeFrom, TypeOK, Made
  <2>2. CASE y[1] = s /\ v = "false"
    <3>1. stamp'[s] = stamp[s]
      BY <1>1, <1>4, <2>2
    <3> QED
      BY <1>2, <2>1, <2>2, <3>1 DEF Traced, Still
  <2>3. CASE y[1] = s /\ s \notin D
    BY <1>2, <2>1, <2>3 DEF Traced
  <2>4. CASE y[1] # s
    BY <1>2, <1>4, <2>1, <2>4 DEF Traced, Still
  <2> QED
    BY <1>7, <2>2, <2>3, <2>4
<1>8. ASSUME NEW d \in Derived PROVE ExactlyRecorded(d)'
  <2>1. d \in Product /\ d # s /\ deps[d] \subseteq Product
    BY <1>0 DEF Product, TypeOK
  <2>2. pc'[d] = pc[d]
    BY <1>3, <2>1
  <2>3. CASE s \in deps[d] /\ v = "true"
    <3>1. Changed(s)'
      BY <1>3, <2>3 DEF Changed
    <3>2. phase[d] \notin Verdict
      BY <1>5, <2>1, <2>3 DEF NeedsInv, Closed, Settled, Verdict
    <3> QED
      BY <1>2, <2>2, <2>3, <3>1, <3>2 DEF ExactInv, ExactlyRecorded
  <2>4. CASE s \notin deps[d] \/ v = "false"
    <3>1. MadeFrom(d, deps[d]) => MadeFrom(d, deps[d])'
      BY <1>2, <1>7, <2>4
    <3>2. (\E x \in deps[d] : Changed(x)) => \E x \in deps[d] : Changed(x)'
      BY <1>6, <2>1
    <3> QED
      BY <1>2, <2>2, <3>1, <3>2 DEF ExactInv, ExactlyRecorded
  <2> QED
    BY <1>1, <2>3, <2>4
<1>9. ASSUME NEW d \in Derived PROVE ExactlyFinishing(d)'
  <2>1. d \in Product /\ d # s
    BY <1>0 DEF Product
  <2>2. pc'[d] = pc[d] /\ update'[d] = update[d]
    BY <1>3, <2>1
  <2>3. ASSUME pc[d] = "done", update[d].deps # {} PROVE MadeFrom(d, update[d].deps)'
    <3>1. s \notin update[d].deps
      BY <1>5, <2>1, <2>3 DEF NeedsInv, Needing, Settled, Verdict
    <3>2. MadeFrom(d, update[d].deps)
      BY <2>3 DEF ExactInv, ExactlyFinishing
    <3>3. PICK D : D = update[d].deps
      OBVIOUS
    <3>4. MadeFrom(d, D)'
      BY <1>7, <3>1, <3>2, <3>3
    <3> QED
      BY <2>2, <3>3, <3>4
  <2> QED
    BY <2>2, <2>3 DEF ExactInv, ExactlyFinishing
<1>10. ASSUME NEW d \in Derived PROVE ExactlySound(d)'
  <2>1. d \in Product /\ d # s
    BY <1>0 DEF Product
  <2> QED
    BY <1>2, <1>3, <2>1 DEF ExactInv, ExactlySound, BuiltFromFiles, Fresh
<1>11. ASSUME NEW q \in Source PROVE ExactlyPolled(q)'
  <2>1. CASE q = s
    <3>1. v = "false" => Still(s)'
      BY <1>1, <1>2, <1>4 DEF Still
    <3>2. stamp'[s] <= edits /\ content[s] <= edits
      BY <1>4 DEF ExactInv, ExactlyPolled
    <3> QED
      BY <1>t, <1>2, <1>3, <1>5, <2>1, <3>1, <3>2 DEF ExactlyPolled
  <2>2. CASE q # s
    BY <1>2, <1>3, <1>4, <2>2 DEF ExactInv, ExactlyPolled, Still, Product
  <2> QED
    BY <2>1, <2>2
<1> QED
  BY <1>2, <1>8, <1>9, <1>10, <1>11 DEF ExactInv

(* A product is built: who was built from the old one is to be looked at.  *)
LEMMA BuildExact ==
  ASSUME TypeOK, WaitInv, NeedsInv, AskInv, ExactInv, NEW d \in Derived, Build(d) PROVE ExactInv'
<1>0. d \in Product /\ d \in Client /\ d \notin Source
  BY RedoAssumption DEF Product, Client
<1>1. PICK N : N = Inputs(d)
  OBVIOUS
<1>2. PICK v \in {"true", "false"} :
        /\ update' = [update EXCEPT ![d] = [changed |-> v, deps |-> Collected(d)]]
        /\ v = "false" => val' = val
  BY DEF Build, SendDone
<1>3. /\ pc[d] = "second_wait" /\ Answered(d) /\ acc[d] # "error" /\ pc' = [pc EXCEPT ![d] = "done"]
      /\ out' = [out EXCEPT ![d] = N] /\ val' = [val EXCEPT ![d] = N]
      /\ UNCHANGED <<deps, stamp, content, edits, mtime, edited, phase>>
  BY <1>1 DEF Build, SendDone
<1>4. /\ pc'[d] = "done" /\ update'[d].changed = v /\ update'[d].deps = Collected(d) /\ out'[d] = N
      /\ \A q \in Product : q # d => pc'[q] = pc[q] /\ update'[q] = update[q]
      /\ \A e \in Derived : e # d => out'[e] = out[e]
      /\ v = "false" => out' = out
  <2>1. v = "false" => val[d] = N
    BY <1>2, <1>3 DEF TypeOK
  <2> QED
    BY <1>0, <1>2, <1>3, <2>1 DEF TypeOK, ExactInv
<1>5. phase[d] = "waiting"
  BY <1>0, <1>3 DEF WaitInv, WaitersServed, Live
<1>6. \A x \in uses[d] : x \in Product /\ Fresh(x) /\ x # d
  <2>1. Open[d] = {}
    BY <1>0, <1>3 DEF Open, Answered
  <2> QED
    BY <1>3, <1>5, <2>1 DEF AskInv, Running, Fresh, TypeOK
<1>7. \A y \in N : \/ \E x \in uses[d] \cap Source : y = <<x, content[x]>>
                   \/ \E x \in uses[d] \cap Derived : y \in out[x]
  BY <1>1, <1>6 DEF Inputs, Product
<1>9. ExactlySound(d)'
  <2>1. edited = {} => \A y \in N : y[2] = content[y[1]]
    BY <1>6, <1>7 DEF ExactInv, ExactlySound, BuiltFromFiles
  <2> QED
    BY <1>3, <1>4, <2>1 DEF ExactlySound, BuiltFromFiles
<1>10. ExactlyFinishing(d)'
  <2>1. PICK U : U = uses[d]
    OBVIOUS
  <2>2. Collected(d) # {} => Collected(d) = U
    BY <1>3, <2>1 DEF Collected, AskInv, Running
  <2>3. ASSUME NEW y \in N PROVE Traced(y, U)'
    <3>1. CASE \E x \in U \cap Source : y = <<x, content[x]>>
      BY <1>3, <3>1 DEF Traced
    <3>2. CASE \E x \in U \cap Derived : y \in out[x]
      BY <1>3, <1>4, <1>6, <2>1, <3>2 DEF Traced
    <3> QED
      BY <1>7, <2>1, <2>3, <3>1, <3>2
  <2>4. MadeFrom(d, U)'
    BY <1>4, <2>3 DEF MadeFrom
  <2>5. PICK C : C = Collected(d)
    OBVIOUS
  <2>6. update'[d].deps = C /\ (C # {} => MadeFrom(d, C)')
    BY <1>4, <2>2, <2>4, <2>5
  <2> QED
    BY <1>2, <1>4, <2>6 DEF ExactlyFinishing
<1>11. ASSUME NEW e \in Derived, NEW D \in SUBSET Product, e # d, d \notin D \/ v = "false", MadeFrom(e, D)
       PROVE  MadeFrom(e, D)'
  <2>1. out'[e] = out[e] /\ \A x \in D \cap Derived : out'[x] = out[x]
    BY <1>4, <1>11
  <2> QED
    BY <1>3, <1>11, <2>1 DEF MadeFrom, Traced, Still
<1>12. \A x \in Product : Changed(x) => Changed(x)'
  BY <1>3, <1>4, <1>5 DEF Changed
<1>13. ASSUME NEW e \in Derived PROVE ExactlyRecorded(e)'
  <2>1. e \in Product /\ deps[e] \in SUBSET Product
    BY DEF Product, TypeOK
  <2>2. CASE e = d
    BY <1>3, <1>4, <2>2 DEF ExactlyRecorded
  <2>3. CASE e # d
    <3>1. pc'[e] = pc[e] /\ out'[e] = out[e]
      BY <1>4, <2>1, <2>3
    <3>2. CASE d \in deps[e] /\ v = "true"
      <4>1. Changed(d)'
        BY <1>4, <3>2 DEF Changed
      <4>2. phase[e] \notin Verdict
        BY <1>5, <2>1, <3>2 DEF NeedsInv, Closed, Settled, Verdict
      <4> QED
        BY <1>3, <3>1, <3>2, <4>1, <4>2 DEF ExactInv, ExactlyRecorded
    <3>3. CASE d \notin deps[e] \/ v = "false"
      <4>1. MadeFrom(e, deps[e]) => MadeFrom(e, deps[e])'
        BY <1>3, <1>11, <2>1, <2>3, <3>3
      <4>2. (\E x \in deps[e] : Changed(x)) => \E x \in deps[e] : Changed(x)'
        BY <1>12, <2>1
      <4> QED
        BY <1>3, <3>1, <4>1, <4>2 DEF ExactInv, ExactlyRecorded
    <3> QED
      BY <1>2, <3>2, <3>3
  <2> QED
    BY <2>2, <2>3
<1>14. ASSUME NEW e \in Derived, e # d PROVE ExactlyFinishing(e)'
  <2>1. e \in Product /\ pc'[e] = pc[e] /\ update'[e] = update[e]
    BY <1>4, <1>14 DEF Product
  <2>2. ASSUME pc[e] = "done", update[e].deps # {} PROVE MadeFrom(e, update[e].deps)'
    <3>1. d \notin update[e].deps /\ update[e].deps \in SUBSET Product
      BY <1>5, <2>1, <2>2 DEF NeedsInv, Needing, Settled, Verdict
    <3>2. MadeFrom(e, update[e].deps)
      BY <2>2 DEF ExactInv, ExactlyFinishing
    <3>3. PICK D : D = update[e].deps
      OBVIOUS
    <3>4. MadeFrom(e, D)'
      BY <1>11, <1>14, <3>1, <3>2, <3>3
    <3> QED
      BY <2>1, <3>3, <3>4
  <2> QED
    BY <2>1, <2>2 DEF ExactInv, ExactlyFinishing
<1>15. ASSUME NEW e \in Derived, e # d PROVE ExactlySound(e)'
  <2>1. pc'[e] = pc[e] /\ update'[e] = update[e] /\ out'[e] = out[e]
    BY <1>4, <1>15 DEF Product
  <2> QED
    BY <1>3, <2>1 DEF ExactInv, ExactlySound, BuiltFromFiles, Fresh
<1>16. ASSUME NEW s \in Source PROVE ExactlyPolled(s)'
  <2>1. s \in Product /\ s # d
    BY <1>0 DEF Product
  <2> QED
    BY <1>3, <1>4, <2>1 DEF ExactInv, ExactlyPolled, Still
<1>17. out' = val'
  BY <1>3 DEF ExactInv
<1> QED
  BY <1>9, <1>10, <1>13, <1>14, <1>15, <1>16, <1>17 DEF ExactInv

(* A verdict is recorded.                                                  *)
LEMMA DoneExact ==
  ASSUME TypeOK, WaitInv, ExactInv, NEW p \in Product, WorkerDone(p) PROVE ExactInv'
<1>0. p \in Client
  BY DEF Client
<1>1. PICK v, N : v = update[p].changed /\ N = update[p].deps
  OBVIOUS
<1>2. /\ pc[p] = "done" /\ phase[p] = "waiting" /\ phase' = [phase EXCEPT ![p] = v]
      /\ deps' = [deps EXCEPT ![p] = N] /\ pc' = [pc EXCEPT ![p] = "idle"]
      /\ update' = [update EXCEPT ![p] = NoUpdate] /\ v \in Verdict
      /\ UNCHANGED <<out, val, stamp, content, edits, mtime, edited>>
  BY <1>1 DEF WorkerDone, outside, TypeOK
<1>3. /\ pc'[p] = "idle" /\ phase'[p] = v /\ deps'[p] = N
      /\ \A q \in Product : q # p => /\ pc'[q] = pc[q] /\ update'[q] = update[q]
                                     /\ phase'[q] = phase[q] /\ deps'[q] = deps[q]
  BY <1>0, <1>2 DEF TypeOK
<1>4. \A q \in Product : Changed(q) => Changed(q)'
  BY <1>1, <1>2, <1>3 DEF Changed
<1>5. \A d, D : MadeFrom(d, D)' <=> MadeFrom(d, D)
  BY <1>2 DEF MadeFrom, Traced, Still
<1>6. ASSUME NEW d \in Derived PROVE ExactlyRecorded(d)'
  <2>1. d \in Product
    BY DEF Product
  <2>2. CASE d = p
    <3>1. N # {} => MadeFrom(p, N) /\ v # "error"
      BY <1>1, <1>2, <2>2 DEF ExactInv, ExactlyFinishing
    <3> QED
      BY <1>2, <1>3, <1>5, <2>2, <3>1 DEF ExactlyRecorded
  <2>3. CASE d # p
    <3>1. pc'[d] = pc[d] /\ phase'[d] = phase[d] /\ deps'[d] = deps[d] /\ deps[d] \subseteq Product
      BY <1>3, <2>1, <2>3 DEF TypeOK
    <3>2. (\E x \in deps[d] : Changed(x)) => \E x \in deps[d] : Changed(x)'
      BY <1>4, <3>1
    <3> QED
      BY <1>2, <1>5, <3>1, <3>2 DEF ExactInv, ExactlyRecorded
  <2> QED
    BY <2>2, <2>3
<1>7. ASSUME NEW d \in Derived PROVE ExactlyFinishing(d)'
  BY <1>3, <1>5 DEF ExactInv, ExactlyFinishing, Product
<1>8. ASSUME NEW d \in Derived PROVE ExactlySound(d)'
  <2>1. CASE d = p
    BY <1>1, <1>2, <1>3, <2>1 DEF ExactInv, ExactlySound, BuiltFromFiles, Fresh
  <2>2. CASE d # p
    BY <1>2, <1>3, <2>2 DEF ExactInv, ExactlySound, BuiltFromFiles, Fresh, Product
  <2> QED
    BY <2>1, <2>2
<1>9. ASSUME NEW s \in Source PROVE ExactlyPolled(s)'
  <2>1. CASE s = p
    BY <1>1, <1>2, <1>3, <2>1 DEF ExactInv, ExactlyPolled, Still
  <2>2. CASE s # p
    BY <1>2, <1>3, <2>2 DEF ExactInv, ExactlyPolled, Still, Product
  <2> QED
    BY <2>1, <2>2
<1> QED
  BY <1>2, <1>6, <1>7, <1>8, <1>9 DEF ExactInv

LEMMA ExactInvariance == WholePulls => (Spec /\ [][FineEdit]_vars => []ExactInv)
<1> SUFFICES ASSUME WholePulls PROVE Spec /\ [][FineEdit]_vars => []ExactInv
  OBVIOUS
<1>1. Init => ExactInv
  <2> SUFFICES ASSUME Init PROVE ExactInv
    OBVIOUS
  <2>1. \A p \in Product : pc[p] = "idle" /\ deps[p] = {} /\ phase[p] = "none"
    BY DEF Init, Client
  <2>2. \A d \in Derived : ExactlyRecorded(d) /\ ExactlyFinishing(d) /\ ExactlySound(d)
    BY <2>1 DEF Product, ExactlyRecorded, ExactlyFinishing, ExactlySound, Fresh
  <2>3. \A s \in Source : ExactlyPolled(s)
    BY <2>1 DEF Init, Product, ExactlyPolled, NoStamp
  <2> QED
    BY <2>2, <2>3 DEF Init, ExactInv
<1>2. TypeOK /\ WaitInv /\ NeedsInv /\ AskInv /\ WholeInv /\ ExactInv /\ [Next]_vars /\ [FineEdit]_vars => ExactInv'
  <2> SUFFICES ASSUME TypeOK, WaitInv, NeedsInv, AskInv, WholeInv, ExactInv, [Next]_vars, [FineEdit]_vars PROVE ExactInv'
    OBVIOUS
  <2>0. Outer \notin Product /\ \A p \in Product : p \in Client
    BY RedoAssumption DEF Client
  <2>1. ASSUME NEW P \in Pushes PROVE FALSE
    BY DEF WholePulls
  <2>2. ASSUME Save \/ CrashAndResume PROVE FALSE
    BY <2>2 DEF Save, CrashAndResume, WholePulls
  <2>3. ASSUME Reply PROVE ExactInv'
    <3>1. \A p \in Product : pc'[p] = pc[p]
      BY <2>0, <2>3 DEF Reply, TypeOK
    <3> QED
      BY <2>3, <3>1, ExactKept DEF Reply, table
  <2>4. ASSUME NEW c \in Client, NEW p \in Product, Eval(c, p) PROVE ExactInv'
    <3>1. UNCHANGED <<deps, out, val, stamp, content, edits, mtime, edited, update>>
      BY <2>4 DEF Eval, EvalKnown, EvalJoin, EvalSpawn, EvalUnknown, table, outside
    <3>2. CASE EvalSpawn(c, p)
      <4>1. /\ phase[p] = "none" /\ phase' = [phase EXCEPT ![p] = "waiting"]
            /\ pc' = [pc EXCEPT ![p] = IF deps[p] = {} THEN "run" ELSE "old"]
        BY <3>2 DEF EvalSpawn
      <4>2. pc[p] # "done" /\ pc'[p] # "done" /\ phase'[p] = "waiting"
        BY <2>0, <4>1 DEF WaitInv, WaitersServed, Live, TypeOK
      <4>3. \A q \in Product : q # p => pc'[q] = pc[q] /\ phase'[q] = phase[q]
        BY <2>0, <4>1 DEF TypeOK
      <4>4. \A q \in Product : /\ pc'[q] = "done" <=> pc[q] = "done"
                               /\ phase'[q] = phase[q] \/ (phase[q] \notin Verdict /\ phase'[q] \notin Verdict)
        BY <4>1, <4>2, <4>3 DEF Verdict
      <4> QED
        BY <3>1, <4>4, ExactKept
    <3>3. CASE EvalKnown(c, p) \/ EvalJoin(c, p) \/ EvalUnknown(c, p)
      <4>1. UNCHANGED <<phase, pc>>
        BY <3>3 DEF EvalKnown, EvalJoin, EvalUnknown, table
      <4> QED
        BY <3>1, <4>1, ExactKept
    <3> QED
      BY <2>4, <3>2, <3>3 DEF Eval
  <2>5. ASSUME NEW p \in Product, NEW w, w # "done", pc[p] # "done", pc' = [pc EXCEPT ![p] = w],
               UNCHANGED <<phase, deps, out, val, stamp, content, edits, mtime, edited, update>>
        PROVE  ExactInv'
    <3>1. \A q \in Product : pc'[q] = "done" <=> pc[q] = "done"
      BY <2>0, <2>5 DEF TypeOK
    <3> QED
      BY <2>5, <3>1, ExactKept
  <2>6. ASSUME NEW p \in Product, CheckOld(p) PROVE ExactInv'
    <3>1. /\ pc[p] # "done" /\ pc' = [pc EXCEPT ![p] = "old_wait"]
          /\ UNCHANGED <<phase, deps, out, val, stamp, content, edits, mtime, edited, update>>
      BY <2>6 DEF CheckOld, outside
    <3> QED
      BY <2>5, <3>1
  <2>7. ASSUME NEW d \in Derived, NeedFirst(d) \/ NeedSecond(d) PROVE ExactInv'
    <3>1. PICK w \in {"first_wait", "second_wait"} : pc' = [pc EXCEPT ![d] = w]
      BY <2>7 DEF NeedFirst, NeedSecond
    <3>2. /\ d \in Product /\ pc[d] # "done" /\ w # "done"
          /\ UNCHANGED <<phase, deps, out, val, stamp, content, edits, mtime, edited, update>>
      BY <2>7 DEF NeedFirst, NeedSecond, Product
    <3> QED
      BY <2>5, <3>1, <3>2
  <2>8. CASE UNCHANGED vars
    BY <2>8, ExactKept DEF vars, table, process, outside
  <2>9. ASSUME NEW s \in Source, Edit(s) PROVE ExactInv'
    <3>1. edits' # edits
      BY <2>9, RedoAssumption DEF Edit, TypeOK, Version
    <3>2. FineEdit
      BY <3>1 DEF vars, outside
    <3> QED
      BY <2>9, <3>2, EditExact
  <2> QED
    BY <2>1, <2>2, <2>3, <2>4, <2>6, <2>7, <2>8, <2>9, PullExact, SkipExact, FailExact, PollExact, BuildExact,
       DoneExact DEF Next, Work, Environment, WorkerStep, RuleStep
<1> QED BY <1>1, <1>2, TypeCorrect, WaitInvariance, NeedsInvariance, AskInvariance, WholeInvariance, PTL DEF Spec

(* Then all that was asked for is of one moment, whatever turns around and *)
(* fails.                                                                  *)
THEOREM NothingExcused == WholePulls => (Spec /\ [][FineEdit]_vars => []EverySingleMoment)
<1> SUFFICES ASSUME WholePulls PROVE Spec /\ [][FineEdit]_vars => []EverySingleMoment
  OBVIOUS
<1>1. AskInv /\ ExactInv => EverySingleMoment
  <2> SUFFICES ASSUME AskInv, ExactInv, Undisturbed, NEW d \in asked \cap Derived PROVE BuiltFromFiles(d)
    BY DEF EverySingleMoment
  <2>1. Fresh(d) /\ edited = {}
    BY DEF Undisturbed, AskInv, Transacting
  <2> QED
    BY <2>1 DEF ExactInv, ExactlySound
<1> QED BY <1>1, AskInvariance, ExactInvariance, PTL
=============================================================================
