---------------------------- MODULE AtomicObject ----------------------------
(***************************************************************************)
(* What obj:call promises its callers: a map that a request changes in one *)
(* step.  A call takes effect at most once, after it was made; it returns  *)
(* what that step found, and if it fails its request may still take effect *)
(* later, or never.  The object may be lost, with all that was asked of it.*)
(***************************************************************************)
EXTENDS Naturals

CONSTANTS Client, Requests, Nothing, Reply(_, _), After(_, _), Fails(_, _)

VARIABLES
    store,   \* the map
    turn,    \* turn[c]: how many calls c has made
    status,  \* of c's call: "idle" (there is none), "open" or "done"
    value,   \* of a call that is done: what it is going to return
    got,     \* what c's last call returned, <<>> if it failed
    loose    \* the requests that may yet take effect

vars == <<store, turn, status, value, got, loose>>

Init ==
    /\ store  = Nothing
    /\ turn   = [c \in Client |-> 0]
    /\ status = [c \in Client |-> "idle"]
    /\ value  = [c \in Client |-> Nothing]
    /\ got    = [c \in Client |-> <<>>]
    /\ loose  = {}

Call(c, r) ==
    /\ status[c] = "idle"
    /\ turn'   = [turn EXCEPT ![c] = @ + 1]
    /\ status' = [status EXCEPT ![c] = "open"]
    /\ loose'  = loose \cup {[from |-> c, turn |-> turn[c] + 1, req |-> r]}
    /\ UNCHANGED <<store, value, got>>

(* A request takes effect; if its call is still open, the call is done.    *)
Perform(m) ==
    /\ ~Fails(m.req, store)
    /\ store' = After(m.req, store)
    /\ loose' = loose \ {m}
    /\ LET waited == status[m.from] = "open" /\ turn[m.from] = m.turn
       IN  /\ status' = [status EXCEPT ![m.from] = IF waited THEN "done" ELSE @]
           /\ value'  = [value EXCEPT ![m.from] = IF waited THEN Reply(m.req, store) ELSE @]
    /\ UNCHANGED <<turn, got>>

Lose ==
    /\ store' = Nothing
    /\ loose' = {}
    /\ UNCHANGED <<turn, status, value, got>>

Return(c) ==
    /\ status[c] = "done"
    /\ status' = [status EXCEPT ![c] = "idle"]
    /\ value'  = [value EXCEPT ![c] = Nothing]
    /\ got'    = [got EXCEPT ![c] = <<value[c]>>]
    /\ UNCHANGED <<store, turn, loose>>

Fail(c) ==
    /\ status[c] = "open"
    /\ status' = [status EXCEPT ![c] = "idle"]
    /\ got'    = [got EXCEPT ![c] = <<>>]
    /\ UNCHANGED <<store, turn, value, loose>>

Next ==
    \/ \E c \in Client, r \in Requests : Call(c, r)
    \/ \E m \in loose : Perform(m)
    \/ \E c \in Client : Return(c) \/ Fail(c)
    \/ Lose

Spec == Init /\ [][Next]_vars
=============================================================================
