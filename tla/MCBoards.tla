------------------------------ MODULE MCBoards ------------------------------
(***************************************************************************)
(* The servers of gdbstub_hub.erl: the hub with its task queue, and the    *)
(* process of a board.  They have no state in common, so each behaviour    *)
(* runs one of them, which `server' names, and leaves the other as it is.  *)
(***************************************************************************)
EXTENDS TaskQueue

VARIABLES server, dev, mbox, call, made, waiter, meta, board, usb

deviceVars == <<dev, mbox, call, made, waiter, meta, board, usb>>
allVars == <<server, vars, deviceVars>>

(* Two of the bytes of calls are those that SLIP has to escape. *)
Device == INSTANCE Device WITH
  Calls <- <<192, 219, 7>>, Kinds <- <<{"call", "rsp"}, {"call", "plus"}, {"call"}>>,
  Pieces <- {4}, Chunks <- {3, 6}, MaxLost <- 1

-----------------------------------------------------------------------------
BoardsInit ==
  /\ server \in {"tasks", "device"}
  /\ Init
  /\ Device!Init /\ (server = "tasks" => dev.app)

TasksRun == server = "tasks" /\ Next /\ UNCHANGED <<server, deviceVars>>
DeviceRuns == server = "device" /\ Device!Next /\ UNCHANGED <<server, vars>>

BoardsNext == TasksRun \/ DeviceRuns

(* The fairness of TaskQueue.  Nothing is assumed of a board and callers.  *)
HubRuns == server = "tasks" /\ Hub /\ UNCHANGED <<server, deviceVars>>
TasksEnd == server = "tasks" /\ Work /\ UNCHANGED <<server, deviceVars>>

BoardsSpec ==
  BoardsInit /\ [][BoardsNext]_allVars /\ WF_allVars(HubRuns) /\ WF_allVars(TasksEnd)

-----------------------------------------------------------------------------
(* Device, by a name that a configuration can give: answers come to their  *)
(* own calls, calls have slots of their own, and nobody is forgotten.      *)
DeviceCalls == Device!TypeOK /\ Device!OwnAnswer /\ Device!SlotsTrue /\ Device!NotForgotten

(* The process of a board handles its messages as long as it is there. *)
DeviceResponsive == Device!Responsive
=============================================================================
