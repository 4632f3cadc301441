----------------------------- MODULE Broadcast -----------------------------
(***************************************************************************)
(* The broadcaster of src/src/serv.erl, bc_handle/2: processes subscribe   *)
(* with a filter, and what is broadcast is sent to those that it passes.   *)
(* A subscriber is monitored from the moment it is one; monitors are never *)
(* taken back, so a process may have several and leaves as many DOWN       *)
(* messages behind.                                                        *)
(*                                                                         *)
(* The broadcaster traps exits.  It is linked to the process that started  *)
(* it, and exit(Pid, down), with which serv:down/1 is to end it, comes to  *)
(* it as an EXIT message from the process that called.                     *)
(***************************************************************************)
EXTENDS Naturals, Sequences

CONSTANTS
  Subscribers,   \* processes
  Starter,       \* the one that started the broadcaster
  Filters,       \* of subscriptions: sets of the messages that pass
  Messages,      \* what is broadcast
  MaxRequests    \* bound: messages of subscribers and publishers

ASSUME BroadcastAssumption == MaxRequests \in Nat /\ Filters \subseteq SUBSET Messages

VARIABLES
  bcMbox,    \* of the broadcaster
  bcPids,    \* the subscribers' entries: a set of <<process, filter>>
  monitors,  \* process -> how many monitors it has
  present,   \* the processes that run
  received,  \* process -> what was sent to it while it ran
  handled,   \* history: what the broadcaster handled, in order
  requests   \* how many requests there were

bcVars == <<bcMbox, bcPids, monitors, present, received, handled, requests>>

Subscribed(p) == \E e \in bcPids : e[1] = p

BroadcastInit ==
  /\ bcMbox = <<>> /\ bcPids = {} /\ monitors = [p \in Subscribers |-> 0]
  /\ present = Subscribers /\ received = [p \in Subscribers |-> <<>>]
  /\ handled = <<>> /\ requests = 0

-----------------------------------------------------------------------------
(* Anybody may subscribe a process, by its pid or its name, take it out    *)
(* again, and broadcast; whoever calls serv:down sends an EXIT.            *)
Requests ==
  [type: {"subscribe"}, pid: Subscribers, filter: Filters]
  \cup [type: {"name", "unsubscribe", "EXIT"}, pid: Subscribers]
  \cup [type: {"broadcast"}, msg: Messages]

Requested(m) ==
  /\ requests < MaxRequests /\ requests' = requests + 1
  /\ (m.type = "EXIT" => m.pid \in present)
  /\ bcMbox' = Append(bcMbox, m)
  /\ UNCHANGED <<bcPids, monitors, present, received, handled>>

DownOf(p) == [type |-> "DOWN", pid |-> p]
ExitOf(p) == [type |-> "EXIT", pid |-> p]

(* A process ends: a message for its link and one for each monitor. *)
Dies(p) ==
  /\ p \in present
  /\ present' = present \ {p}
  /\ bcMbox' = bcMbox \o (IF p = Starter THEN <<ExitOf(p)>> ELSE <<>>)
                  \o [i \in 1..monitors[p] |-> DownOf(p)]
  /\ monitors' = [monitors EXCEPT ![p] = 0]
  /\ UNCHANGED <<bcPids, received, handled, requests>>

-----------------------------------------------------------------------------
SubscribeAgain(p, filter) ==   \* faulty: another filter is another entry
  /\ bcPids' = bcPids \cup {<<p, filter>>}
  /\ IF p \in present
     THEN monitors' = [monitors EXCEPT ![p] = @ + 1] /\ bcMbox' = Tail(bcMbox)
     ELSE bcMbox' = Append(Tail(bcMbox), DownOf(p)) /\ UNCHANGED monitors

(* "Don't re-monitor": a subscriber stays what it is, with the filter that *)
(* it has.  The monitor of a process that is gone fires at once.           *)
Subscribe(p, filter) ==
  IF Subscribed(p)
  THEN bcMbox' = Tail(bcMbox) /\ UNCHANGED <<bcPids, monitors>>
  ELSE /\ bcPids' = bcPids \cup {<<p, filter>>}
       /\ IF p \in present
          THEN monitors' = [monitors EXCEPT ![p] = @ + 1] /\ bcMbox' = Tail(bcMbox)
          ELSE bcMbox' = Append(Tail(bcMbox), DownOf(p)) /\ UNCHANGED monitors

(* A name that is not registered is only logged. *)
TakeSubscribe ==
  LET m == Head(bcMbox)
  IN /\ \/ m.type = "subscribe" /\ Subscribe(m.pid, m.filter)
        \/ m.type = "name" /\ m.pid \in present /\ Subscribe(m.pid, Messages)
        \/ m.type = "name" /\ m.pid \notin present /\ bcMbox' = Tail(bcMbox) /\ UNCHANGED <<bcPids, monitors>>
     /\ UNCHANGED received

(* unsubscribe, DOWN and EXIT do the same. *)
TakeRemoval ==
  /\ Head(bcMbox).type \in {"unsubscribe", "DOWN", "EXIT"}
  /\ bcPids' = {e \in bcPids : e[1] # Head(bcMbox).pid}
  /\ bcMbox' = Tail(bcMbox)
  /\ UNCHANGED <<monitors, received>>

(* To whom the filter of its entry passes the message; it is noted which   *)
(* of the messages handled that was.                                       *)
TakeBroadcast ==
  /\ Head(bcMbox).type = "broadcast"
  /\ received' = [p \in Subscribers |->
       IF p \in present /\ \E e \in bcPids : e[1] = p /\ Head(bcMbox).msg \in e[2]
       THEN Append(received[p], [msg |-> Head(bcMbox).msg, at |-> Len(handled) + 1])
       ELSE received[p]]
  /\ bcMbox' = Tail(bcMbox)
  /\ UNCHANGED <<bcPids, monitors>>

Handle ==
  /\ bcMbox # <<>>
  /\ TakeSubscribe \/ TakeRemoval \/ TakeBroadcast
  /\ handled' = Append(handled, Head(bcMbox))
  /\ UNCHANGED <<present, requests>>

BroadcastNext ==
  \/ \E m \in Requests : Requested(m)
  \/ \E p \in Subscribers : Dies(p)
  \/ Handle

BroadcastSpec == BroadcastInit /\ [][BroadcastNext]_bcVars /\ WF_bcVars(Handle)

-----------------------------------------------------------------------------
Messaged == Requests \cup [type: {"DOWN"}, pid: Subscribers]

BroadcastTypeOK ==
  /\ bcMbox \in Seq(Messaged) /\ handled \in Seq(Messaged)
  /\ bcPids \subseteq Subscribers \X (Filters \cup {Messages})
  /\ monitors \in [Subscribers -> Nat] /\ present \subseteq Subscribers
  /\ received \in [Subscribers -> Seq([msg: Messages, at: Nat])]
  /\ requests \in 0 .. MaxRequests

(* What a process is entitled to, by what the broadcaster has handled and  *)
(* in what order: from the first subscription on to the next removal, what *)
(* the filter of that first one passes, whatever filters are asked for in  *)
(* between.                                                                *)
Subscribes(m, p) == m.type \in {"subscribe", "name"} /\ m.pid = p
Removes(m, p) == m.type \in {"unsubscribe", "DOWN", "EXIT"} /\ m.pid = p
FilterOf(m) == IF m.type = "name" THEN Messages ELSE m.filter

InForce(p, i) ==
  {s \in 1 .. (i - 1) : Subscribes(handled[s], p) /\ \A k \in s .. (i - 1) : ~Removes(handled[k], p)}

First(p, i, s) == s \in InForce(p, i) /\ \A t \in InForce(p, i) : s <= t

Due(p) ==
  {i \in DOMAIN handled :
     /\ handled[i].type = "broadcast"
     /\ \E s \in InForce(p, i) : First(p, i, s) /\ handled[i].msg \in FilterOf(handled[s])}

SentAt(p) == {received[p][j].at : j \in DOMAIN received[p]}

(* However subscriptions, removals, deaths and broadcasts come together, a *)
(* process gets what it is entitled to, once and in order, until it ends.  *)
DeliveredTo(p) ==
  /\ \A j \in DOMAIN received[p] : received[p][j].msg = handled[received[p][j].at].msg
  /\ \A j, k \in DOMAIN received[p] : j < k => received[p][j].at < received[p][k].at
  /\ SentAt(p) \subseteq Due(p)
  /\ \A i \in Due(p) \ SentAt(p) : p \notin present /\ \A n \in SentAt(p) : n < i

Delivered == \A p \in Subscribers : DeliveredTo(p)

(* Whatever was subscribed in the name of a process that has ended, the    *)
(* message that removes it is on its way.                                  *)
DeadLeave ==
  \A p \in Subscribers \ present : Subscribed(p) => \E i \in DOMAIN bcMbox : bcMbox[i] = DownOf(p)

(* Subscribers get what is due to them, and the dead leave.                *)
BroadcastsReachSubscribers == Delivered /\ DeadLeave
=============================================================================
