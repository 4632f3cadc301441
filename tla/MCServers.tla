----------------------------- MODULE MCServers -----------------------------
(***************************************************************************)
(* Servers that stand between processes of others: a TCP server with the   *)
(* tunnel on it, the throttle, the broadcaster, and the routers of         *)
(* ecat.erl.  They have no state in common, so each behaviour runs one of  *)
(* them, which `server' names, and leaves the others as they are.          *)
(***************************************************************************)
EXTENDS Tunnel, Throttle, Broadcast

VARIABLES
  server,
  router, programs, inbox, call, answers, budget, doubled

ecatVars == <<router, programs, inbox, call, answers, budget, doubled>>
allVars == <<server, vars, throttleVars, bcVars, ecatVars>>

(* Requests, data and lost nodes for the routers. *)
Some(ops, data, losses) == [ops |-> ops, data |-> data, losses |-> losses]
SomeBudgets == {Some(2, 0, 1), Some(2, 1, 0), Some(1, 2, 0)}

Ecat == INSTANCE Ecat WITH Routers <- {"a", "b"}, Specs <- {"s"}, Budgets <- SomeBudgets

-----------------------------------------------------------------------------
ServersInit ==
  /\ server \in {"tunnel", "throttle", "bc", "ecat"}
  /\ Init /\ ThrottleInit /\ BroadcastInit
  /\ Ecat!Init /\ (server # "ecat" => budget = Some(1, 2, 0))

Runs(s) ==
  /\ server = s /\ UNCHANGED server
  /\ IF s = "tunnel" THEN TRUE ELSE UNCHANGED vars
  /\ IF s = "throttle" THEN TRUE ELSE UNCHANGED throttleVars
  /\ IF s = "bc" THEN TRUE ELSE UNCHANGED bcVars
  /\ IF s = "ecat" THEN TRUE ELSE UNCHANGED ecatVars

TunnelRuns == Runs("tunnel") /\ Next
ThrottleRuns == Runs("throttle") /\ ThrottleNext
BcRuns == Runs("bc") /\ BroadcastNext
EcatRuns == Runs("ecat") /\ Ecat!Next

ServersNext == TunnelRuns \/ ThrottleRuns \/ BcRuns \/ EcatRuns

(* The fairness of Tunnel and Throttle, each of which has two actions that *)
(* it is fair to.  In a behaviour one of them runs.                        *)
GoesOn ==
  \/ Runs("tunnel") /\ Registry
  \/ Runs("throttle") /\ ThrottleHandle

OtherGoesOn(c) ==
  \/ Runs("tunnel") /\ Work(c)
  \/ Runs("throttle") /\ Workers

ServersSpec ==
  ServersInit /\ [][ServersNext]_allVars
    /\ WF_allVars(GoesOn) /\ \A c \in Conn : WF_allVars(OtherGoesOn(c))

-----------------------------------------------------------------------------
(* The properties of the modules, by names that a configuration can give.  *)

(* Ecat: maps and programs agree, connections to lost routers are torn     *)
(* down, what is printed comes once and in order, and transfers go on.     *)
ConnectionsTrue == Ecat!Indexed /\ Ecat!TornDown /\ Ecat!OnceInOrder /\ Ecat!TransferNotForgotten

(* What must happen does: the parts of a connection end together, and      *)
(* triggers are served.                                                    *)
ServersGoOn ==
  /\ EndsTogether /\ ShutdownReachesAll
  /\ server = "throttle" => EveryTriggerServed

(* A router serves all connections of its node: a client that disconnects  *)
(* what has ended already, or a message to a program that has just ended,  *)
(* does not end it.                                                        *)
RoutersSurvive == budget.losses = 0 => Ecat!AllUp
=============================================================================
