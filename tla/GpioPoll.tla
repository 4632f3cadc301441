------------------------------ MODULE GpioPoll ------------------------------
(***************************************************************************)
(* c_src/gpio_poll.c, which tells gpio_poll.erl of the levels of pins: it  *)
(* waits for events, reads each pin that had one, prints a line for it,    *)
(* and flushes the lines of a round together.                              *)
(*                                                                         *)
(* Pins are external: an edge leaves an event behind, which stays until    *)
(* the file is read; a read takes the event first and the level then, and  *)
(* edges may come in between.  Edges while an event is there leave no      *)
(* other one.                                                              *)
(***************************************************************************)
EXTENDS Integers

CONSTANTS
  NbPins,     \* pins on the command line
  MaxEdges    \* bound: edges of a behaviour

Pins == 0..(NbPins - 1)

VARIABLES
  level,      \* external: pin -> 0 or 1
  event,      \* external: pin -> an event is there
  hangup,     \* external: something is to be read from stdin, or it is closed
  edges,      \* external: how many edges there were
  at,         \* "poll", "scan" or "gone"
  ready,      \* pins whose revents are still to be looked at
  reading,    \* the pin that is being read, or none
  printed,    \* pin -> its last line in the buffer of stdout, or none
  shown       \* pin -> its last line that was flushed, or none

pinVars == <<level, event, hangup, edges>>
vars == <<pinVars, at, ready, reading, printed, shown>>

NoPin == -1
NoLine == -1

-----------------------------------------------------------------------------
Edge(p) ==
  /\ edges < MaxEdges /\ edges' = edges + 1
  /\ level' = [level EXCEPT ![p] = 1 - @]
  /\ event' = [event EXCEPT ![p] = TRUE]
  /\ UNCHANGED <<hangup, at, ready, reading, printed, shown>>

HangUp ==
  /\ ~hangup /\ hangup' = TRUE
  /\ UNCHANGED <<level, event, edges, at, ready, reading, printed, shown>>

(* poll returns.  An end of stdin comes before all events. *)
Poll ==
  /\ at = "poll" /\ (hangup \/ \E p \in Pins : event[p])
  /\ IF hangup THEN at' = "gone" /\ UNCHANGED ready
               ELSE at' = "scan" /\ ready' = {p \in Pins : event[p]}
  /\ UNCHANGED <<pinVars, reading, printed, shown>>

(* The pins are looked at in order.  lseek and read: the event is taken... *)
ReadEvent(p) ==
  /\ at = "scan" /\ reading = NoPin /\ p \in ready /\ \A q \in ready : p <= q
  /\ event' = [event EXCEPT ![p] = FALSE]
  /\ reading' = p
  /\ UNCHANGED <<level, hangup, edges, at, ready, printed, shown>>

(* ... and then the level, which printf puts in the buffer. *)
ReadLevel ==
  /\ reading # NoPin
  /\ printed' = [printed EXCEPT ![reading] = level[reading]]
  /\ ready' = ready \ {reading} /\ reading' = NoPin
  /\ UNCHANGED <<pinVars, at, shown>>

FlushForgotten ==   \* faulty: without fflush
  /\ at = "scan" /\ ready = {} /\ reading = NoPin
  /\ at' = "poll"
  /\ UNCHANGED <<pinVars, ready, reading, printed, shown>>

(* fflush at the end of a round. *)
Flush ==
  /\ at = "scan" /\ ready = {} /\ reading = NoPin
  /\ shown' = [p \in Pins |-> IF printed[p] = NoLine THEN shown[p] ELSE printed[p]]
  /\ printed' = [p \in Pins |-> NoLine]
  /\ at' = "poll"
  /\ UNCHANGED <<pinVars, ready, reading>>

(* The first poll finds an event at every pin. *)
Init ==
  /\ level \in [Pins -> {0, 1}] /\ event = [p \in Pins |-> TRUE]
  /\ hangup = FALSE /\ edges = 0
  /\ at = "poll" /\ ready = {} /\ reading = NoPin
  /\ printed = [p \in Pins |-> NoLine] /\ shown = [p \in Pins |-> NoLine]

Program == Poll \/ (\E p \in Pins : ReadEvent(p)) \/ ReadLevel \/ Flush

Next == (\E p \in Pins : Edge(p)) \/ HangUp \/ Program

Spec == Init /\ [][Next]_vars /\ WF_vars(Program)

-----------------------------------------------------------------------------
TypeOK ==
  /\ level \in [Pins -> {0, 1}] /\ event \in [Pins -> BOOLEAN]
  /\ hangup \in BOOLEAN /\ edges \in Nat
  /\ at \in {"poll", "scan", "gone"} /\ ready \subseteq Pins /\ reading \in Pins \cup {NoPin}
  /\ printed \in [Pins -> {0, 1, NoLine}] /\ shown \in [Pins -> {0, 1, NoLine}]

(* Whatever edges come while events are taken and levels are read: when    *)
(* the program waits and a pin has no event, its last line told its level. *)
LastLineTrue == at = "poll" => \A p \in Pins : ~event[p] => shown[p] = level[p]

(* A level that stays is told, unless the program is told to end. *)
EveryLevelShown ==
  \A p \in Pins : \A v \in {0, 1} :
    level[p] = v ~> (level[p] # v \/ shown[p] = v \/ hangup)
=============================================================================
