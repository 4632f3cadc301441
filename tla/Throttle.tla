------------------------------ MODULE Throttle ------------------------------
(***************************************************************************)
(* src/src/throttle.erl: a process that is triggered more often than it    *)
(* may start workers.  It starts one at a time, and what comes in while    *)
(* that one runs is given to the next, all of it, newest first.            *)
(*                                                                         *)
(* Triggers are numbered in the order of their arrival.  start_worker is   *)
(* external: it starts a process that is monitored.                        *)
(***************************************************************************)
EXTENDS Naturals, Sequences

CONSTANT MaxTriggers   \* bound

ASSUME ThrottleAssumption == MaxTriggers \in Nat

VARIABLES
  mbox,      \* triggers and DOWN messages, oldest first
  state,     \* "idle", "busy" or "again"
  refpid,    \* the worker in the state, 0 in idle
  args,      \* the triggers in the state again, newest first
  alive,     \* the workers that run, by the order in which they were started
  batches,   \* history: what each worker was given
  triggers,  \* how many triggers there were
  crashed    \* a message that the state is not made for ended the process

throttleVars == <<mbox, state, refpid, args, alive, batches, triggers, crashed>>

(* The trigger number n, or the DOWN message of worker n.                  *)
Notice == [down: BOOLEAN, n: Nat]

ThrottleInit ==
  /\ mbox = <<>> /\ state = "idle" /\ refpid = 0 /\ args = <<>>
  /\ alive = {} /\ batches = <<>> /\ triggers = 0 /\ crashed = FALSE

Trigger ==
  /\ triggers < MaxTriggers /\ triggers' = triggers + 1
  /\ mbox' = Append(mbox, [down |-> FALSE, n |-> triggers + 1])
  /\ UNCHANGED <<state, refpid, args, alive, batches, crashed>>

-----------------------------------------------------------------------------
StartWorker(batch) ==
  /\ batches' = Append(batches, batch)
  /\ refpid' = Len(batches) + 1
  /\ alive' = alive \cup {Len(batches) + 1}
  /\ state' = "busy" /\ args' = <<>>

TakeTriggerStarts ==   \* faulty: a worker for each trigger that comes in while one runs
  /\ ~crashed /\ mbox # <<>> /\ ~Head(mbox).down
  /\ mbox' = Tail(mbox)
  /\ StartWorker(<<Head(mbox).n>>)
  /\ UNCHANGED <<triggers, crashed>>

TakeTrigger ==
  /\ ~crashed /\ mbox # <<>> /\ ~Head(mbox).down
  /\ mbox' = Tail(mbox)
  /\ \/ state = "idle" /\ StartWorker(<<Head(mbox).n>>)
     \/ /\ state \in {"busy", "again"}
        /\ state' = "again" /\ args' = <<Head(mbox).n>> \o args
        /\ UNCHANGED <<refpid, alive, batches>>
  /\ UNCHANGED <<triggers, crashed>>

TakeDownForgets ==   \* faulty: idle whatever came in while the worker ran
  /\ ~crashed /\ mbox # <<>> /\ Head(mbox).down
  /\ mbox' = Tail(mbox)
  /\ state' = "idle" /\ refpid' = 0 /\ args' = <<>>
  /\ UNCHANGED <<alive, batches, triggers, crashed>>

(* The DOWN message does not have to be of the worker in the state.  In    *)
(* the state idle no clause of the case fits.                              *)
TakeDown ==
  /\ ~crashed /\ mbox # <<>> /\ Head(mbox).down
  /\ mbox' = Tail(mbox)
  /\ crashed' = (state = "idle")
  /\ \/ /\ state = "idle"
        /\ UNCHANGED <<state, refpid, args, alive, batches>>
     \/ /\ state = "busy"
        /\ state' = "idle" /\ refpid' = 0
        /\ UNCHANGED <<args, alive, batches>>
     \/ state = "again" /\ StartWorker(args)
  /\ UNCHANGED triggers

(* A worker ends, in whatever way. *)
WorkerEnds(w) ==
  /\ alive' = alive \ {w}
  /\ mbox' = Append(mbox, [down |-> TRUE, n |-> w])
  /\ UNCHANGED <<state, refpid, args, batches, triggers, crashed>>

ThrottleHandle == TakeTrigger \/ TakeDown
Workers == \E w \in alive : WorkerEnds(w)

ThrottleNext == Trigger \/ ThrottleHandle \/ Workers

ThrottleSpec == ThrottleInit /\ [][ThrottleNext]_throttleVars

(* The process handles its mailbox, and workers come to an end.            *)
ThrottleFairSpec == ThrottleSpec /\ WF_throttleVars(ThrottleHandle) /\ WF_throttleVars(Workers)

-----------------------------------------------------------------------------
ThrottleTypeOK ==
  /\ mbox \in Seq(Notice)
  /\ state \in {"idle", "busy", "again"} /\ refpid \in Nat
  /\ args \in Seq(Nat) /\ alive \in SUBSET Nat
  /\ batches \in Seq(Seq(Nat)) /\ triggers \in 0..MaxTriggers /\ crashed \in BOOLEAN

(* While the state says so there is one worker, or its DOWN message, and   *)
(* in the state idle there is none: two workers never run at once, and no  *)
(* DOWN message finds the state idle.                                      *)
Downs == {i \in DOMAIN mbox : mbox[i].down}

OneWorker ==
  /\ ~crashed
  /\ alive \subseteq {refpid}
  /\ \A i, j \in Downs : i = j
  /\ \A i \in Downs : mbox[i].n = refpid
  /\ alive # {} => Downs = {}
  /\ state = "idle" <=> alive = {} /\ Downs = {}

(* The triggers after lo and up to hi, newest first. *)
NewestFirst(lo, hi) == [j \in 1..(hi - lo) |-> hi - j + 1]

(* The last trigger given to one of the first n workers, and the last one  *)
(* that was handled.                                                       *)
Given(n) == IF n = 0 THEN 0 ELSE batches[n][1]
LastTaken == IF args = <<>> THEN Given(Len(batches)) ELSE args[1]

DownsBefore(i) == IF \E j \in Downs : j < i THEN 1 ELSE 0

GivenInOrder ==
  \A n \in DOMAIN batches :
    batches[n] # <<>> /\ batches[n] = NewestFirst(Given(n - 1), Given(n))

KeptInOrder == args = NewestFirst(Given(Len(batches)), LastTaken)

ComingInOrder ==
  /\ \A i \in DOMAIN mbox \ Downs : mbox[i].n = LastTaken + i - DownsBefore(i)
  /\ triggers = LastTaken + Len(mbox) - DownsBefore(Len(mbox) + 1)

(* "The worker gets passed all the requests that have come in since last   *)
(* finish, most recent one first": every trigger is given to one worker,   *)
(* is in the state, or in the mailbox, and workers get them in the order   *)
(* in which they came.                                                     *)
NothingLost == GivenInOrder /\ KeptInOrder /\ ComingInOrder

(* Every trigger is given to a worker in the end (there is a last one).    *)
EveryTriggerServed == []<>(Given(Len(batches)) = triggers)
=============================================================================
