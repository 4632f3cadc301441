----------------------------- MODULE TaskQueue -----------------------------
(***************************************************************************)
(* The task queue of src/src/task_queue.erl in the process that uses it,   *)
(* the hub of src/src/gdbstub_hub.erl: clients ask it to run a task with   *)
(* obj:call, it runs one task at a time in a linked process, and answers   *)
(* when that process reports.  The hub traps exits and ignores 'EXIT'.     *)
(*                                                                         *)
(* A request is named by its client and the number of the call.  The code  *)
(* answers whoever is at the head of the queue: which request a report     *)
(* belongs to (its field req) is not in the message, and no guard looks    *)
(* at it.                                                                  *)
(***************************************************************************)
EXTENDS Naturals, Sequences, SequencesExt

CONSTANTS
    Client,
    MaxCalls,  \* bound: the calls of one client
    MaxKills   \* bound: task processes that an exit signal ends

ASSUME QueueAssumption == MaxCalls \in Nat /\ MaxKills \in Nat

Request  == [from : Client, turn : 1 .. MaxCalls]
Outcome  == {"ok", "error"}
TaskNext == [kind |-> "task_next"]
Exit     == [kind |-> "EXIT"]
Message  == [kind : {"task"}, req : Request]
            \cup [kind : {"task_done"}, req : Request, rv : Outcome]
            \cup {TaskNext, Exit}

VARIABLES
    inbox,    \* the hub's mailbox
    queue,    \* task_queue: the requests, the one that runs at its head
    running,  \* the requests that live task processes work for
    kills,    \* how many task processes were killed
    turn,     \* the number of a client's current or last call
    pc,       \* of a client: "idle" or "waiting"
    got       \* the report that answered its last call, <<>> if none did

vars == <<inbox, queue, running, kills, turn, pc, got>>

Init ==
    /\ inbox = <<>> /\ queue = <<>> /\ running = <<>> /\ kills = 0
    /\ turn = [c \in Client |-> 0]
    /\ pc   = [c \in Client |-> "idle"]
    /\ got  = [c \in Client |-> <<>>]

-----------------------------------------------------------------------------
(* A client's obj:call(Hub, {task,T}).                                     *)
Ask(c) ==
    /\ pc[c] = "idle" /\ turn[c] < MaxCalls
    /\ pc'    = [pc EXCEPT ![c] = "waiting"]
    /\ turn'  = [turn EXCEPT ![c] = @ + 1]
    /\ got'   = [got EXCEPT ![c] = <<>>]
    /\ inbox' = Append(inbox, [kind |-> "task", req |-> [from |-> c, turn |-> turn[c] + 1]])
    /\ UNCHANGED <<queue, running, kills>>

(* The calling process ends before it is answered; another one makes the   *)
(* client's next call.                                                     *)
GiveUp(c) ==
    /\ pc[c] = "waiting"
    /\ pc' = [pc EXCEPT ![c] = "idle"]
    /\ UNCHANGED <<inbox, queue, running, kills, turn, got>>

-----------------------------------------------------------------------------
TakeTaskAlwaysNext ==    \* faulty: does not look whether a task is running
    /\ inbox # <<>> /\ Head(inbox).kind = "task"
    /\ queue' = Append(queue, Head(inbox).req)
    /\ inbox' = Append(Tail(inbox), TaskNext)
    /\ UNCHANGED <<running, kills, turn, pc, got>>

TakeTaskNeverNext ==     \* faulty: leaves starting to the end of the last task
    /\ inbox # <<>> /\ Head(inbox).kind = "task"
    /\ queue' = Append(queue, Head(inbox).req)
    /\ inbox' = Tail(inbox)
    /\ UNCHANGED <<running, kills, turn, pc, got>>

(* handle({_,{task,_}}): the first task of a queue needs a task_next, which*)
(* is a message of its own; others may come in before it.                  *)
TakeTask ==
    /\ inbox # <<>> /\ Head(inbox).kind = "task"
    /\ queue' = Append(queue, Head(inbox).req)
    /\ inbox' = IF queue = <<>> THEN Append(Tail(inbox), TaskNext) ELSE Tail(inbox)
    /\ UNCHANGED <<running, kills, turn, pc, got>>

(* handle(task_next) with the queue q: spawn_link for its head.            *)
StartHead(q) == running' = IF q = <<>> THEN running ELSE Append(running, Head(q))

TakeTaskNext ==
    /\ inbox # <<>> /\ Head(inbox).kind = "task_next"
    /\ StartHead(queue)
    /\ inbox' = Tail(inbox)
    /\ UNCHANGED <<queue, kills, turn, pc, got>>

(* obj:reply to the process that made request r, if it is still there.     *)
ReplyLast(r, report) ==    \* faulty: answers the client's call before this one
    IF pc[r.from] = "waiting"
      THEN /\ pc'  = [pc EXCEPT ![r.from] = "idle"]
           /\ got' = [got EXCEPT ![r.from] = <<report>>]
      ELSE UNCHANGED <<pc, got>>

Reply(r, report) ==
    IF pc[r.from] = "waiting" /\ turn[r.from] = r.turn
      THEN /\ pc'  = [pc EXCEPT ![r.from] = "idle"]
           /\ got' = [got EXCEPT ![r.from] = <<report>>]
      ELSE UNCHANGED <<pc, got>>

(* handle({task_done,Rv}): it answers the head of the queue and starts the *)
(* next task at once.                                                      *)
TakeTaskDone ==
    /\ inbox # <<>> /\ Head(inbox).kind = "task_done"
    /\ queue # <<>>
    /\ Reply(Head(queue), [req |-> Head(inbox).req, rv |-> Head(inbox).rv])
    /\ queue' = Tail(queue)
    /\ StartHead(Tail(queue))
    /\ inbox' = Tail(inbox)
    /\ UNCHANGED <<kills, turn>>

TakeExit ==
    /\ inbox # <<>> /\ Head(inbox).kind = "EXIT"
    /\ inbox' = Tail(inbox)
    /\ UNCHANGED <<queue, running, kills, turn, pc, got>>

-----------------------------------------------------------------------------
(* A task returns or raises, either way its process reports and ends.      *)
Finish(i) ==
    /\ \E v \in Outcome :
          inbox' = Append(Append(inbox, [kind |-> "task_done", req |-> running[i], rv |-> v]),
                          Exit)
    /\ running' = RemoveAt(running, i)
    /\ UNCHANGED <<queue, kills, turn, pc, got>>

(* An exit signal ends it: one that catch does not see, from a process it  *)
(* is linked to or from exit/2.                                            *)
Kill(i) ==
    /\ kills < MaxKills
    /\ kills'   = kills + 1
    /\ inbox'   = Append(inbox, Exit)
    /\ running' = RemoveAt(running, i)
    /\ UNCHANGED <<queue, turn, pc, got>>

Hub == TakeTask \/ TakeTaskNext \/ TakeTaskDone \/ TakeExit
Work == \E i \in DOMAIN running : Finish(i)

Next ==
    \/ \E c \in Client : Ask(c) \/ GiveUp(c)
    \/ Hub
    \/ Work
    \/ \E i \in DOMAIN running : Kill(i)

Spec == Init /\ [][Next]_vars

(* The hub handles what is in its mailbox, and tasks come to an end.       *)
FairSpec == Spec /\ WF_vars(Hub) /\ WF_vars(Work)

-----------------------------------------------------------------------------
(* Every variable has the shape task_queue.erl gives it.                   *)
TypeOK ==
    /\ inbox   \in Seq(Message)
    /\ queue   \in Seq(Request)
    /\ running \in Seq(Request)
    /\ kills   \in 0 .. MaxKills
    /\ turn    \in [Client -> 0 .. MaxCalls]
    /\ pc      \in [Client -> {"idle", "waiting"}]
    /\ got     \in [Client -> {<<>>} \cup {<<m>> : m \in [req : Request, rv : Outcome]}]

(* "This was originally written to make bluepill:need/1 sequential"        *)
(* (task_queue.erl:17): two tasks never run at the same time.              *)
OneTask == Len(running) <= 1

(* The messages of a mailbox that keep the queue moving.                   *)
TokensOf(box) == {i \in DOMAIN box : box[i].kind \in {"task_next", "task_done"}}
Tokens == TokensOf(inbox)

(* A queue that is not empty is kept moving by exactly one thing, which is *)
(* for its head: a task_next on its way, one task process, or its report.  *)
(* Only a kill stops it.  An empty queue is moved by nothing, so throw     *)
(* (task_queue.erl:61) is not reached, and tasks run one at a time.        *)
KeptMoving ==
    /\ \A i, j \in Tokens : i = j
    /\ OneTask
    /\ ~(Tokens # {} /\ running # <<>>)
    /\ (Tokens # {} \/ running # <<>>) => queue # <<>>
    /\ kills = 0 => (queue # <<>> => Tokens # {} \/ running # <<>>)
    /\ running # <<>> => running[1] = Head(queue)
    /\ \A i \in Tokens : inbox[i].kind = "task_done" => inbox[i].req = Head(queue)

(* Whatever clients give up in between, the answer to a call is the report *)
(* of its own task.                                                        *)
OwnAnswer == \A c \in Client : got[c] # <<>> => got[c][1].req = [from |-> c, turn |-> turn[c]]

(* A caller is answered when no task process is killed.                    *)
AnsweredUnlessKilled ==
    \A c \in Client : (pc[c] = "waiting") ~> (pc[c] = "idle" \/ kills > 0)

(* "The operations themselves are performed in an isolated process,        *)
(* wrapped in a catch-all error handler" (task_queue.erl:14): whatever     *)
(* happens to a task, callers are answered.                                *)
EveryTaskAnswered == \A c \in Client : (pc[c] = "waiting") ~> (pc[c] = "idle")
=============================================================================
