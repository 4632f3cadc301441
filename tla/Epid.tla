-------------------------------- MODULE Epid --------------------------------
(***************************************************************************)
(* The dispatch table of src/src/epid.erl, as functions: for every event,  *)
(* the addresses to which it goes, latest subscription first.  An address  *)
(* names a process, by its pid or by its registered name, and something    *)
(* that this process stands for; it may be wrapped in filters.             *)
(***************************************************************************)
EXTENDS Sequences, SequencesExt

(* The address without filters. *)
final_epid(dst) == [dst EXCEPT !.wrapped = FALSE]

subscribers(event, table) == table[event]

SubscribeTwice(event, dst, table) ==   \* faulty: does not look whether it is there
  [table EXCEPT ![event] = <<dst>> \o @]

(* The same address is not entered twice. *)
subscribe(event, dst, table) ==
  [table EXCEPT ![event] = IF Contains(@, dst) THEN @ ELSE <<dst>> \o @]

(* The table as a set of connections, an event and an address each. *)
Connections(table) == {<<e, d>> \in (DOMAIN table) \X (UNION {ToSet(table[e]) : e \in DOMAIN table}) :
                         Contains(table[e], d)}

(* Some are kept, and every list is turned around. *)
FilterConnections(kept, table) ==
  [e \in DOMAIN table |-> Reverse(SelectSeq(table[e], LAMBDA d : <<e, d>> \in kept))]

(* All filters of an address go with it. *)
unsubscribe(event, dst, table) ==
  FilterConnections({c \in Connections(table) : ~(c[1] = event /\ final_epid(c[2]) = final_epid(dst))}, table)

unsubscribe_all(event, table) == FilterConnections({c \in Connections(table) : c[1] # event}, table)

(* The function that down/2 filters with knows no address with a filter.   *)
DownFails(table) == \E c \in Connections(table) : c[2].wrapped

(* An address by name is kept: there is no monitor either. *)
down(process, table) ==
  FilterConnections({c \in Connections(table) : ~(c[2].by = "pid" /\ c[2].process = process)}, table)
=============================================================================
