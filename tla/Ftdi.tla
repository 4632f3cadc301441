-------------------------------- MODULE Ftdi --------------------------------
(***************************************************************************)
(* A programmer of FPGA boards: the process of ftdi.erl, the port program  *)
(* c_src/ftdi_connect.c, and the chip it drives, which takes a stream of   *)
(* command bytes, moves the select and reset lines of the FPGA, clocks     *)
(* data out, and sends a byte back when it is asked for the state of pins. *)
(*                                                                         *)
(* The chip and the FPGA are external.  A frame is what the FPGA sees from *)
(* one falling edge of its select line to the next rising one; when reset  *)
(* ends while it is selected, the frame is a configuration.                *)
(***************************************************************************)
EXTENDS Integers, SequencesExt

CONSTANTS
  Requests,     \* what the server is asked for: records [cmd, reply, data]
  SpiChunk,     \* bytes of one transfer, 4096 in the code
  MaxRequests   \* bound: requests of a behaviour

VARIABLES
  chip,     \* external: bytes of an unfinished command, lines, frames, and
            \* the answers that are on their way
  fifo,     \* external: answers that can be read
  todo,     \* what the program has still to do for its command
  command,  \* the command it executes
  reply,    \* the bytes received for it
  prog,     \* "start", "poll", "busy" or "gone"
  toProg,   \* packets to the program
  fromProg, \* messages of the port to the server: acknowledgements and the exit
  server,   \* "ping", "idle", "waits" or "dead"
  asked,    \* history: the requests sent to the program
  done,     \* history: the requests executed to the end
  oks       \* history: the requests acknowledged to a caller

chipVars == <<chip, fifo>>
progVars == <<todo, command, reply, prog>>
ftdiVars == <<chipVars, progVars, toProg, fromProg, server, asked, done, oks>>

MPSSE_DO_WRITE  == 16
MPSSE_WRITE_NEG == 1
SET_BITS_LOW    == 128
GET_BITS_LOW    == 129
TCK_DIVISOR     == 134
EN_DIV_5        == 139
CLK_BITS        == 142
CLK_BYTES       == 143
WRITE_EXTENDED  == 147   \* as a direction: the lines the program drives

Ping == [cmd |-> 3, reply |-> 0, data |-> <<>>]

(* Any data for the FPGA.  What is sent to the chip as it is are commands  *)
(* of one byte, which neither move a line nor clock data: no caller in the *)
(* repository sends any.                                                   *)
OneByte == (0..255) \ {MPSSE_DO_WRITE + MPSSE_WRITE_NEG, SET_BITS_LOW, TCK_DIVISOR, CLK_BITS, CLK_BYTES}

ASSUME FtdiAssumption ==
  /\ Requests \subseteq [cmd: Nat, reply: Nat, data: Seq(0..255)]
  /\ \A r \in Requests : r.cmd = 0 => r.data \in Seq(OneByte)
  /\ SpiChunk \in Nat \ {0} /\ SpiChunk <= 256 * 256

-----------------------------------------------------------------------------
(* The chip.  A command is executed when its last byte is there. *)
Unselected == [bytes |-> <<>>, selected |-> FALSE, reset |-> FALSE, open |-> FALSE,
               frames |-> <<>>, answers |-> 0]

Chips == [bytes: Seq(0..255), selected: BOOLEAN, reset: BOOLEAN, open: BOOLEAN,
          frames: Seq([config: BOOLEAN, data: Seq(0..255)]), answers: Nat]

Needs(bytes) ==
  CASE bytes[1] \in {SET_BITS_LOW, TCK_DIVISOR, CLK_BYTES} -> 3
    [] bytes[1] = CLK_BITS -> 2
    [] bytes[1] = MPSSE_DO_WRITE + MPSSE_WRITE_NEG ->
         IF Len(bytes) < 3 THEN 3 ELSE 3 + bytes[2] + 256 * bytes[3] + 1
    [] OTHER -> 1

(* The lines after SET_BITS_LOW.  A frame begins when the FPGA becomes     *)
(* selected and out of reset, and ends when it is either no longer.        *)
Lines(c, value) ==
  LET selected == (value \div 16) % 2 = 0
      reset == (value \div 128) % 2 = 0
      listens == selected /\ ~reset
  IN [c EXCEPT !.selected = selected, !.reset = reset, !.open = listens,
               !.frames = IF listens /\ ~c.open
                          THEN Append(@, [config |-> c.reset, data |-> <<>>]) ELSE @]

Clocked(c, bytes) ==
  IF c.open THEN [c EXCEPT !.frames[Len(c.frames)].data = @ \o bytes] ELSE c

(* A byte more: it may complete a command, which is then executed. *)
Execute[c \in Chips] ==
  LET b == c.bytes
      d == [c EXCEPT !.bytes = <<>>]
  IN IF Len(b) < Needs(b) THEN c
     ELSE CASE b[1] = SET_BITS_LOW -> Lines(d, b[2])
            [] b[1] = MPSSE_DO_WRITE + MPSSE_WRITE_NEG -> Clocked(d, SubSeq(b, 4, Len(b)))
            [] b[1] = GET_BITS_LOW -> [d EXCEPT !.answers = @ + 1]
            [] OTHER -> d

Take[p \in Chips \X (0..255)] == Execute[[p[1] EXCEPT !.bytes = Append(@, p[2])]]

Taken(c, bytes) == FoldLeft(LAMBDA d, byte : Take[<<d, byte>>], c, bytes)

(* An answer reaches the host some time after the chip was asked. *)
Arrive ==
  /\ chip.answers > 0
  /\ chip' = [chip EXCEPT !.answers = @ - 1] /\ fifo' = fifo + 1
  /\ UNCHANGED <<progVars, toProg, fromProg, server, asked, done, oks>>

-----------------------------------------------------------------------------
(* ftdi_connect.c.  What a function does is a list of steps: bytes that it *)
(* sends, a byte that it waits for, and the acknowledgement.               *)
SendBytes(bytes) == <<[do |-> "send", bytes |-> bytes]>>
RecvByte(keep) == <<[do |-> IF keep THEN "keep" ELSE "drop", bytes |-> <<>>]>>

AckTwice ==   \* faulty: acknowledges before and after
  <<[do |-> "ack", bytes |-> <<>>], [do |-> "ack", bytes |-> <<>>]>>
Ack == <<[do |-> "ack", bytes |-> <<>>]>>

SendSpiCount(data) ==   \* faulty: the number of bytes, where the chip expects one less
  IF data = <<>> THEN <<>>
  ELSE SendBytes(<<MPSSE_DO_WRITE + MPSSE_WRITE_NEG, Len(data) % 256, Len(data) \div 256>> \o data)

SendSpi(data) ==
  IF data = <<>> THEN <<>>
  ELSE SendBytes(<<MPSSE_DO_WRITE + MPSSE_WRITE_NEG, (Len(data) - 1) % 256, (Len(data) - 1) \div 256>> \o data)

(* send_spi_chunked: pieces of SpiChunk bytes, the last one shorter. *)
Pieces(n) == (n + SpiChunk - 1) \div SpiChunk

SendSpiChunked(data) ==
  FlattenSeq([i \in 1..Pieces(Len(data)) |->
    SendSpi(SubSeq(data, (i - 1) * SpiChunk + 1,
                   IF i = Pieces(Len(data)) THEN Len(data) ELSE i * SpiChunk))])

SetGpio(slavesel_b, creset_b) ==
  SendBytes(<<SET_BITS_LOW, 1 + 16 * slavesel_b + 128 * creset_b, WRITE_EXTENDED>>)

GetCdone == SendBytes(<<GET_BITS_LOW>>) \o RecvByte(FALSE)

(* prog_sram_write: a reset while selected, the data, and 49 clocks.       *)
ProgSramWrite(data) ==
  SetGpio(0, 0) \o SetGpio(0, 1) \o GetCdone \o SendSpiChunked(data)
  \o SendBytes(<<CLK_BYTES, 5, 0>>) \o SendBytes(<<CLK_BITS, 0>>) \o GetCdone

RawSpiWrite(data) == SetGpio(0, 1) \o SendSpiChunked(data) \o SetGpio(1, 1)

(* cmd 0: bytes for the chip as they are, and as many bytes back as asked. *)
Transaction(data, reply_size) ==
  SendBytes(data) \o FlattenSeq([i \in 1..reply_size |-> RecvByte(TRUE)])

Setup == SendBytes(<<EN_DIV_5>>) \o SendBytes(<<TCK_DIVISOR, 0, 0>>) \o GetCdone \o SetGpio(1, 1)

(* The switch of the command loop. *)
Script(c) ==
  CASE c.cmd = 0 -> Transaction(c.data, c.reply) \o Ack
    [] c.cmd = 1 -> RawSpiWrite(c.data) \o Ack
    [] c.cmd = 2 -> ProgSramWrite(c.data) \o Ack
    [] c.cmd = 3 -> Ack

Tell(m) == fromProg' = Append(fromProg, m)

(* exit: the server hears of it behind all acknowledgements. *)
BoardExit == prog' = "gone" /\ Tell("exit") /\ todo' = <<>> /\ toProg' = <<>>

(* recv_byte is meant to wait for a byte.  rc is assigned the result of    *)
(* the comparison, which is 1 also when nothing was read: it returns at    *)
(* once, without a byte if there is none.  0 stands for what data holds.   *)
Received == IF fifo > 0 THEN 1 ELSE 0

Step ==
  /\ prog \in {"start", "busy"} /\ todo # <<>>
  /\ LET s == Head(todo)
     IN /\ chip' = IF s.do = "send" THEN Taken(chip, s.bytes) ELSE chip
        /\ fifo' = IF s.do \in {"keep", "drop"} THEN fifo - Received ELSE fifo
        /\ reply' = IF s.do = "keep" THEN Append(reply, Received) ELSE reply
        /\ IF s.do = "ack"
           THEN Tell("ack") /\ done' = Append(done, command)
           ELSE UNCHANGED <<fromProg, done>>
  /\ todo' = Tail(todo)
  /\ prog' = IF Tail(todo) = <<>> THEN "poll" ELSE prog
  /\ UNCHANGED <<command, toProg, server, asked, oks>>

(* The poll of the command loop finds a packet. *)
ReadCommand ==
  /\ prog = "poll" /\ toProg # <<>>
  /\ LET c == Head(toProg)
     IN IF c.cmd \in 0..3
        THEN /\ command' = c /\ reply' = <<>> /\ todo' = Script(c) /\ prog' = "busy"
             /\ toProg' = Tail(toProg)
             /\ UNCHANGED fromProg
        ELSE BoardExit /\ UNCHANGED <<command, reply>>
  /\ UNCHANGED <<chipVars, server, asked, done, oks>>

(* ... or runs into its timeout: what the chip has sent is thrown away. *)
PollTimeout ==
  /\ prog = "poll" /\ toProg = <<>> /\ fifo > 0
  /\ fifo' = 0
  /\ UNCHANGED <<chip, progVars, toProg, fromProg, server, asked, done, oks>>

(* The board is unplugged, which an ASSERT around a transfer finds out, the *)
(* read after a timeout of the poll included.                              *)
BoardUnplugged ==
  /\ prog # "gone"
  /\ BoardExit
  /\ UNCHANGED <<chipVars, command, reply, server, asked, done, oks>>

-----------------------------------------------------------------------------
(* ftdi.erl.  To a program that is gone a packet is lost. *)
ToProgram(r) == toProg' = IF prog = "gone" THEN toProg ELSE Append(toProg, r)

(* handle: a request is sent, and the server waits for the next message of *)
(* the port.                                                               *)
Ask(r) ==
  /\ server = "idle" /\ Len(asked) < MaxRequests
  /\ ToProgram(r) /\ asked' = Append(asked, r) /\ server' = "waits"
  /\ UNCHANGED <<chipVars, progVars, fromProg, done, oks>>

(* wait_ack takes any message of the port, the exit as well. *)
WaitAck ==
  /\ server \in {"ping", "waits"} /\ fromProg # <<>>
  /\ fromProg' = Tail(fromProg)
  /\ server' = "idle"
  /\ oks' = Append(oks, asked[Len(asked)])
  /\ UNCHANGED <<chipVars, progVars, toProg, asked, done>>

(* Any other message of the port ends the server. *)
PortMessage ==
  /\ server = "idle" /\ fromProg # <<>>
  /\ fromProg' = Tail(fromProg)
  /\ server' = "dead"
  /\ UNCHANGED <<chipVars, progVars, toProg, asked, done, oks>>

(* start_link: the program is started, and a ping is to show that it is there. *)
FtdiInit ==
  /\ chip = Unselected /\ fifo = 0
  /\ todo = Setup /\ command = Ping /\ reply = <<>> /\ prog = "start"
  /\ toProg = <<Ping>> /\ fromProg = <<>>
  /\ server = "ping" /\ asked = <<Ping>> /\ done = <<>> /\ oks = <<>>

FtdiNext ==
  \/ Arrive
  \/ Step
  \/ ReadCommand
  \/ PollTimeout
  \/ BoardUnplugged
  \/ \E r \in Requests : Ask(r)
  \/ WaitAck
  \/ PortMessage

FtdiSpec ==
  FtdiInit /\ [][FtdiNext]_ftdiVars
    /\ WF_ftdiVars(Step) /\ WF_ftdiVars(ReadCommand) /\ WF_ftdiVars(WaitAck)

-----------------------------------------------------------------------------
FtdiTypeOK ==
  /\ chip \in Chips /\ fifo \in Nat
  /\ prog \in {"start", "poll", "busy", "gone"} /\ (prog \in {"start", "busy"} <=> todo # <<>>)
  /\ server \in {"ping", "idle", "waits", "dead"}
  /\ Len(toProg) <= 1 /\ Len(fromProg) <= 2

(* The program and the chip agree on where a command begins: whenever the  *)
(* program turns to its next request, the chip waits for a new command.    *)
ChipInStep == prog = "poll" => chip.bytes = <<>>

DataOf(frames) == FlattenSeq([i \in DOMAIN frames |-> frames[i].data])

Transfers(requests) ==
  FlattenSeq([i \in DOMAIN requests |-> IF requests[i].cmd \in {1, 2} THEN <<requests[i]>> ELSE <<>>])

Bitstreams(requests) ==
  FlattenSeq([i \in DOMAIN requests |-> IF requests[i].cmd = 2 THEN <<requests[i]>> ELSE <<>>])

Configurations(frames) ==
  FlattenSeq([i \in DOMAIN frames |-> IF frames[i].config THEN <<frames[i]>> ELSE <<>>])

(* Every byte of every transfer reached the FPGA while it listened, once   *)
(* and in order, however the data was cut.                                 *)
BytesAsSent == prog = "poll" => DataOf(chip.frames) = DataOf(Transfers(done))

(* A bitstream is a configuration of its own: the FPGA was reset while     *)
(* selected, and what it got first is the bitstream.                       *)
BitstreamsConfigure ==
  prog = "poll" =>
    LET configs == Configurations(chip.frames)
        streams == Bitstreams(done)
    IN /\ Len(configs) = Len(streams)
       /\ \A i \in DOMAIN streams : IsPrefix(streams[i].data, configs[i].data)

(* Requests are acknowledged in turn, after they were executed: at most    *)
(* one acknowledgement, the last, is not true, and only if the program has *)
(* ended.                                                                  *)
OkMeansDone ==
  /\ \A i \in 1..Len(oks) : i <= Len(done) => oks[i] = done[i]
  /\ Len(oks) <= Len(done) + (IF prog = "gone" THEN 1 ELSE 0)

(* Whatever is sent to the board, program and chip agree on where a        *)
(* command begins, bytes reach the FPGA once and in order, a bitstream is  *)
(* a configuration, and an acknowledgement is of the request that was      *)
(* executed.                                                               *)
FtdiTransfers == ChipInStep /\ BytesAsSent /\ BitstreamsConfigure /\ OkMeansDone

(* A caller gets its answer, unless the program has ended. *)
EveryRequestAnswered == server \in {"ping", "waits"} ~> (server = "idle" \/ prog = "gone")

(* A transfer that was executed is a frame of its own, and so is a         *)
(* configuration.                                                          *)
FtdiTransfersFramed ==
  prog = "poll" =>
    [i \in DOMAIN chip.frames |-> chip.frames[i].data] =
      LET transfers == Transfers(done)
      IN [i \in DOMAIN transfers |-> transfers[i].data]
=============================================================================
