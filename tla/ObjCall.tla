------------------------------ MODULE ObjCall ------------------------------
(***************************************************************************)
(* The remote call of src/src/obj.erl: callers that resolve a name, monitor*)
(* the process behind it, send it a request and wait for a reply, for its  *)
(* death or for a timeout (call/2,3), and the object, a process that holds *)
(* a map and handles one request at a time (handle/2).  The object can die *)
(* and a supervisor start it again (serv:supervisor_init/2) with an empty  *)
(* map and a new pid.                                                      *)
(*                                                                         *)
(* A reply names the process it comes from and nothing else.  The field    *)
(* "turn" of a request or a reply says whose call it belongs to; it is not *)
(* in the messages of the code, and no guard here looks at it.  The turn   *)
(* of a 'DOWN' message stands for its monitor reference, and the turn of a *)
(* request against born[c] for the pid it was sent from.                   *)
(***************************************************************************)
EXTENDS Integers, Sequences, SequencesExt

CONSTANTS
    Client,    \* the callers
    Patient,   \* those that call with {warn,T} and so wait for ever
    Key,       \* the keys of the map
    MaxValue,  \* bound: values are 1 .. MaxValue, and 0 is a missing key
    Requests,  \* the requests that are made
    MaxCalls,  \* bound: calls of one client
    MaxStarts  \* bound: how often the object is started

Absent  == 0
Maps    == [Key -> 0 .. MaxValue]
Nothing == [k \in Key |-> Absent]
Op == {"dump", "find", "set", "update", "update_all", "remove", "replace", "merge", "shutdown"}
Pid == 1 .. MaxStarts

ASSUME ObjAssumption ==
    /\ Patient \subseteq Client
    /\ MaxValue \in Nat \ {0} /\ MaxCalls \in Nat /\ MaxStarts \in Nat \ {0}
    /\ Requests # {} /\ Requests \subseteq [op : Op, key : Key, map : Maps]

VARIABLES
    up,      \* whether the object is alive, and its name registered
    pid,     \* its process, or the last one it had
    map,     \* its state
    inbox,   \* its mailbox: records [from, turn, req]
    pc,      \* of a caller: "idle", "resolved" or "waiting"
    turn,    \* the number of its current or last call
    born,    \* the number of the first call of the process it is now
    dst,     \* the process it resolved the name to
    req,     \* what it asks for
    mail,    \* its mailbox: records [kind, pid, turn, val]
    watch,   \* the turn of the call it monitors dst for, or 0
    got      \* what its last call returned, <<>> if it failed

object == <<up, pid, map, inbox>>
caller == <<pc, turn, born, dst, req, mail, watch, got>>
vars   == <<object, caller>>

-----------------------------------------------------------------------------
(* handle/2.  A reply is a map: all of it for dump, a part of it for find  *)
(* and update, the empty one for ok, and for an error of find.  The caller *)
(* brings the function of an update; counting up stands for it.            *)
Count(v) == IF v \in {Absent, MaxValue} THEN 1 ELSE v + 1

Reply(r, m) ==
    CASE r.op \in {"dump", "update_all"} -> m
      [] r.op = "find"   -> [Nothing EXCEPT ![r.key] = m[r.key]]
      [] r.op = "update" -> [Nothing EXCEPT ![r.key] = Count(m[r.key])]
      [] OTHER -> Nothing

(* The update of a key that is not there, and shutdown, end the process.   *)
Fails(r, m) ==
    \/ r.op = "update" /\ m[r.key] = Absent
    \/ r.op = "shutdown"

After(r, m) ==
    CASE r.op = "set"     -> [m EXCEPT ![r.key] = r.map[r.key]]
      [] r.op = "update"  -> [m EXCEPT ![r.key] = Count(@)]
      [] r.op = "update_all" -> [k \in Key |-> IF m[k] = Absent THEN Absent ELSE Count(m[k])]
      [] r.op = "remove"  -> [m EXCEPT ![r.key] = Absent]
      [] r.op = "replace" -> r.map
      [] r.op = "merge"   -> [k \in Key |-> IF r.map[k] = Absent THEN m[k] ELSE r.map[k]]
      [] OTHER -> m

-----------------------------------------------------------------------------
Down(p, t) == [kind |-> "DOWN", pid |-> p, turn |-> t, val |-> Nothing]

(* The receive of wait_reply/1 takes the first message it can.             *)
Match(c, m) ==
    \/ m.kind = "obj_reply" /\ m.pid = dst[c]
    \/ m.kind = "DOWN" /\ m.turn = watch[c]
Matches(c) == {i \in DOMAIN mail[c] : Match(c, mail[c][i])}
First(is)  == CHOOSE i \in is : \A j \in is : i <= j

(* demonitor(Ref, [flush]) takes the message of the monitor out, if there  *)
(* is one.                                                                 *)
Flushed(c, ms) ==
    LET downs == {i \in DOMAIN ms : ms[i].kind = "DOWN" /\ ms[i].turn = watch[c]}
    IN  IF downs = {} THEN ms ELSE RemoveAt(ms, First(downs))

Init ==
    /\ up = TRUE /\ pid = 1 /\ map = Nothing /\ inbox = <<>>
    /\ pc    = [c \in Client |-> "idle"]
    /\ turn  = [c \in Client |-> 0]
    /\ born  = [c \in Client |-> 1]
    /\ dst   = [c \in Client |-> 1]
    /\ req   = [c \in Client |-> CHOOSE r \in Requests : TRUE]
    /\ mail  = [c \in Client |-> <<>>]
    /\ watch = [c \in Client |-> 0]
    /\ got   = [c \in Client |-> <<>>]

(* resolve/1.  While the name is not registered a call exits here and      *)
(* changes nothing.                                                        *)
Resolve(c, r) ==
    /\ pc[c] = "idle" /\ up /\ turn[c] < MaxCalls
    /\ pc'   = [pc EXCEPT ![c] = "resolved"]
    /\ turn' = [turn EXCEPT ![c] = @ + 1]
    /\ dst'  = [dst EXCEPT ![c] = pid]
    /\ req'  = [req EXCEPT ![c] = r]
    /\ UNCHANGED <<object, born, mail, watch, got>>

Asked(c) == [from |-> c, turn |-> turn[c], req |-> req[c]]

(* send/2: a monitor, then the request.  The process may have died since   *)
(* it was resolved; its monitor then fires at once and nobody gets the     *)
(* request.                                                                *)
SendUnmonitored(c) ==    \* faulty: relies on a reply
    /\ pc[c] = "resolved"
    /\ pc' = [pc EXCEPT ![c] = "waiting"]
    /\ inbox' = IF up /\ dst[c] = pid
                THEN Append(inbox, Asked(c))
                ELSE inbox
    /\ UNCHANGED <<up, pid, map, turn, born, dst, req, mail, watch, got>>

Send(c) ==
    /\ pc[c] = "resolved"
    /\ pc'    = [pc EXCEPT ![c] = "waiting"]
    /\ watch' = [watch EXCEPT ![c] = turn[c]]
    /\ IF up /\ dst[c] = pid
         THEN /\ inbox' = Append(inbox, Asked(c))
              /\ UNCHANGED mail
         ELSE /\ mail' = [mail EXCEPT ![c] = Append(@, Down(dst[c], turn[c]))]
              /\ UNCHANGED inbox
    /\ UNCHANGED <<up, pid, map, turn, born, dst, req, got>>

DiesTellsAll ==    \* faulty: tells also those whose call has ended
    /\ up' = FALSE /\ map' = Nothing /\ inbox' = <<>>
    /\ mail' = [c \in Client |-> IF dst[c] = pid THEN Append(mail[c], Down(pid, watch[c]))
                                 ELSE mail[c]]
    /\ UNCHANGED <<pid, pc, turn, born, dst, req, watch, got>>

(* The object ends: its mailbox is gone, and whoever monitors it is told.  *)
Dies ==
    /\ up' = FALSE /\ map' = Nothing /\ inbox' = <<>>
    /\ mail' = [c \in Client |-> IF watch[c] # 0 /\ dst[c] = pid
                                 THEN Append(mail[c], Down(pid, watch[c])) ELSE mail[c]]
    /\ UNCHANGED <<pid, pc, turn, born, dst, req, watch, got>>

Killed == up /\ Dies

(* The object handles a request.  The reply reaches the process that asked,*)
(* or nobody when that one has ended.                                      *)
Handle ==
    /\ up /\ inbox # <<>>
    /\ LET m == Head(inbox) IN
       \/ Fails(m.req, map) /\ Dies
       \/ /\ ~Fails(m.req, map)
          /\ map'   = After(m.req, map)
          /\ inbox' = Tail(inbox)
          /\ mail'  = IF m.turn < born[m.from] THEN mail
                      ELSE [mail EXCEPT ![m.from] = Append(@,
                              [kind |-> "obj_reply", pid |-> pid, turn |-> m.turn,
                               val |-> Reply(m.req, map)])]
          /\ UNCHANGED <<up, pid, pc, turn, born, dst, req, watch, got>>

(* The supervisor starts the object again, under its name.                 *)
Restart ==
    /\ ~up /\ pid < MaxStarts
    /\ up' = TRUE /\ pid' = pid + 1
    /\ UNCHANGED <<map, inbox, caller>>

-----------------------------------------------------------------------------
ReceiveUnflushed(c) ==    \* faulty: leaves the monitor and its message behind
    /\ pc[c] = "waiting" /\ Matches(c) # {}
    /\ LET i == First(Matches(c))
       IN  /\ got'  = [got EXCEPT ![c] = IF mail[c][i].kind = "DOWN" THEN <<>>
                                         ELSE <<mail[c][i].val>>]
           /\ mail' = [mail EXCEPT ![c] = RemoveAt(@, i)]
    /\ pc' = [pc EXCEPT ![c] = "idle"]
    /\ UNCHANGED <<object, turn, born, dst, req, watch>>

(* wait_reply/1 has a message: it returns the reply, or throws.            *)
Receive(c) ==
    /\ pc[c] = "waiting" /\ Matches(c) # {}
    /\ LET i == First(Matches(c))
       IN  /\ got'  = [got EXCEPT ![c] = IF mail[c][i].kind = "DOWN" THEN <<>>
                                         ELSE <<mail[c][i].val>>]
           /\ mail' = [mail EXCEPT ![c] = Flushed(c, RemoveAt(@, i))]
    /\ pc'    = [pc EXCEPT ![c] = "idle"]
    /\ watch' = [watch EXCEPT ![c] = 0]
    /\ UNCHANGED <<object, turn, born, dst, req>>

TimeoutSurvived(c) ==    \* faulty: the caller goes on with the same mailbox
    /\ c \notin Patient
    /\ pc[c] = "waiting" /\ Matches(c) = {}
    /\ pc'    = [pc EXCEPT ![c] = "idle"]
    /\ watch' = [watch EXCEPT ![c] = 0]
    /\ got'   = [got EXCEPT ![c] = <<>>]
    /\ UNCHANGED <<object, turn, born, dst, req, mail>>

(* Its timeout passes first: exit({timeout,_,_}) ends the calling process. *)
(* The next call of the client is made by another one.                     *)
Timeout(c) ==
    /\ c \notin Patient
    /\ pc[c] = "waiting" /\ Matches(c) = {}
    /\ pc'    = [pc EXCEPT ![c] = "idle"]
    /\ born'  = [born EXCEPT ![c] = turn[c] + 1]
    /\ mail'  = [mail EXCEPT ![c] = <<>>]
    /\ watch' = [watch EXCEPT ![c] = 0]
    /\ got'   = [got EXCEPT ![c] = <<>>]
    /\ UNCHANGED <<object, turn, dst, req>>

Next ==
    \/ \E c \in Client, r \in Requests : Resolve(c, r)
    \/ \E c \in Client : Send(c) \/ Receive(c) \/ Timeout(c)
    \/ Handle
    \/ Killed
    \/ Restart

Spec == Init /\ [][Next]_vars

(* Every process that can run does; deaths, restarts and timeouts need not *)
(* happen.                                                                 *)
FairSpec == /\ Spec /\ WF_vars(Handle)
            /\ \A c \in Client : WF_vars(Send(c)) /\ WF_vars(Receive(c))

-----------------------------------------------------------------------------
Question == [from : Client, turn : 1 .. MaxCalls, req : Requests]
Letter   == [kind : {"obj_reply", "DOWN"}, pid : Pid, turn : 1 .. MaxCalls, val : Maps]

(* Every variable has the shape obj.erl gives it.                          *)
TypeOK ==
    /\ up \in BOOLEAN /\ pid \in Pid /\ map \in Maps
    /\ inbox \in Seq(Question)
    /\ pc    \in [Client -> {"idle", "resolved", "waiting"}]
    /\ turn  \in [Client -> 0 .. MaxCalls]
    /\ born  \in [Client -> 1 .. MaxCalls + 1]
    /\ dst   \in [Client -> Pid]
    /\ req   \in [Client -> Requests]
    /\ mail  \in [Client -> Seq(Letter)]
    /\ watch \in [Client -> 0 .. MaxCalls]
    /\ got   \in [Client -> {<<>>} \cup {<<m>> : m \in Maps}]

(* A call leaves nothing behind that a later call could take for its own:  *)
(* between two calls the mailbox of a caller is empty and nothing is       *)
(* monitored for it, however the call ended.                               *)
NothingLeft == \A c \in Client : pc[c] # "waiting" => mail[c] = <<>> /\ watch[c] = 0

(* obj.erl implements AtomicObject: a call takes effect at most once, and  *)
(* what it returns is the answer to itself, found in the step in which it  *)
(* took effect -- although a reply does not say which call it is for.      *)
Answers(c) == {i \in DOMAIN mail[c] : mail[c][i].kind = "obj_reply" /\ mail[c][i].turn = turn[c]}
Status == [c \in Client |-> IF pc[c] = "idle" THEN "idle"
                            ELSE IF Answers(c) # {} THEN "done" ELSE "open"]
Value  == [c \in Client |-> IF pc[c] # "idle" /\ Answers(c) # {}
                            THEN mail[c][First(Answers(c))].val ELSE Nothing]
Loose  == {inbox[i] : i \in DOMAIN inbox}
          \cup {Asked(c) : c \in {k \in Client : pc[k] = "resolved" /\ up /\ dst[k] = pid}}
Atomic == INSTANCE AtomicObject WITH
    store <- map, status <- Status, value <- Value, loose <- Loose
CallsAreAtomic == Atomic!Spec

(* No caller waits for ever, whether the object answers, fails or is killed*)
(* and never comes back: a caller with {warn,T} relies on the monitor.     *)
EveryCallEnds == \A c \in Client : (pc[c] = "waiting") ~> (pc[c] = "idle")
=============================================================================
