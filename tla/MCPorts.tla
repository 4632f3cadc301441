------------------------------ MODULE MCPorts ------------------------------
(***************************************************************************)
(* The pipe of include/port.h and four port programs, with the servers     *)
(* they belong to.  They have no state in common, so each behaviour runs   *)
(* one of them, which `program' names, and leaves the others as they are.  *)
(***************************************************************************)
EXTENDS GpioPoll, Port, V4l, Axo, Ftdi

VARIABLE program

gpioVars == vars
allVars == <<program, portVars, ftdiVars, axoVars, gpioVars, v4lVars>>

-----------------------------------------------------------------------------
(* Packets of no, two and three bytes, through a pipe that holds less than *)
(* the longest one with its header.                                        *)
SomePackets == {<<>>, <<7, 0>>, <<1, 0, 2>>}

(* Transfers with one full and one short piece, of no byte, and with two   *)
(* full pieces, and what only other users of the program send.             *)
SomeRequests ==
  { [cmd |-> 1, reply |-> 0, data |-> <<129, 2, 17>>],
    [cmd |-> 1, reply |-> 0, data |-> <<>>],
    [cmd |-> 2, reply |-> 0, data |-> <<5, 128, 3, 143>>],
    [cmd |-> 0, reply |-> 2, data |-> <<129, 129>>],
    [cmd |-> 9, reply |-> 0, data |-> <<>>] }

(* Packets of less than a transfer and of exactly one. *)
SomeSizes == [part \in Parts |-> IF part \in {"data", "Axor"} THEN 2 ELSE 1]

-----------------------------------------------------------------------------
Names == {"pipe", "ftdi", "axo", "gpio", "v4l"}

PortsInit ==
  /\ program \in Names
  /\ PortInit /\ (program # "pipe" => reader = "packet4")
  /\ FtdiInit
  /\ AxoInit /\ (program # "axo" => start = 0)
  /\ Init /\ (program # "gpio" => level = [p \in Pins |-> 0])
  /\ CameraInit

Runs(p) ==
  /\ program = p /\ UNCHANGED program
  /\ IF p = "pipe" THEN TRUE ELSE UNCHANGED portVars
  /\ IF p = "ftdi" THEN TRUE ELSE UNCHANGED ftdiVars
  /\ IF p = "axo" THEN TRUE ELSE UNCHANGED axoVars
  /\ IF p = "gpio" THEN TRUE ELSE UNCHANGED gpioVars
  /\ IF p = "v4l" THEN TRUE ELSE UNCHANGED v4lVars

PipeRuns == Runs("pipe") /\ PortNext
FtdiRuns == Runs("ftdi") /\ FtdiNext
AxoRuns == Runs("axo") /\ AxoNext
GpioRuns == Runs("gpio") /\ Next
V4lRuns == Runs("v4l") /\ CameraNext

PortsNext ==
  PipeRuns \/ FtdiRuns \/ AxoRuns \/ GpioRuns \/ V4lRuns

(* The fairness of the specifications.  In a behaviour one of them runs,   *)
(* so the first actions that each is fair to can be one, and so can the    *)
(* second.                                                                 *)
GoesOn ==
  \/ Runs("pipe") /\ WriteSome
  \/ Runs("ftdi") /\ (Step \/ ReadCommand \/ WaitAck)
  \/ Runs("axo") /\ Handle
  \/ Runs("gpio") /\ Program
  \/ Runs("v4l") /\ CameraProgram

OtherGoesOn ==
  \/ Runs("pipe") /\ (ReadSome \/ ReadEof)
  \/ Runs("axo") /\ (NextPacket \/ Transfer)
  \/ Runs("v4l") /\ PassOn

PortsSpec ==
  PortsInit /\ [][PortsNext]_allVars
    /\ WF_allVars(GoesOn) /\ WF_allVars(OtherGoesOn)

-----------------------------------------------------------------------------
(* The properties of the modules, by names that a configuration can give.  *)
PortsTypeOK ==
  /\ TypeOK /\ PortTypeOK /\ FtdiTypeOK /\ AxoTypeOK /\ CameraTypeOK

(* What is asked of a program happens: acknowledgements, packets, levels   *)
(* and pictures arrive, unless the program ends.                           *)
ProgramsGoOn ==
  /\ program = "pipe" => EveryPacketArrives
  /\ program = "ftdi" => EveryRequestAnswered
  /\ program = "axo"  => PacketsArrive
  /\ program = "gpio" => EveryLevelShown
  /\ program = "v4l"  => BuffersReturn
=============================================================================
