-------------------------------- MODULE Port --------------------------------
(***************************************************************************)
(* Packets through a pipe, as include/port.h writes and reads them.  Every *)
(* port program talks to Erlang through two such pipes, one per direction; *)
(* this module is one of them, byte by byte.  The kernel takes and gives   *)
(* bytes in pieces of any size, so a write may be cut anywhere and a read  *)
(* may return less than it asked for.  port.h has three ways to read a     *)
(* packet, and only one of them reads the body in a loop.                  *)
(*                                                                         *)
(* A read that a signal interrupts is repeated without a change of state   *)
(* and is not a step.                                                      *)
(***************************************************************************)
EXTENDS Integers, SequencesExt

CONSTANTS
  Packets,    \* what is sent: sequences of bytes
  MaxSent,    \* bound: packets per behaviour
  PipeSize,   \* bytes the kernel buffers
  Readers,    \* the functions of port.h that read: "packet4", "static", "packet1"
  BufSize     \* room of the caller of assert_read_packet4_static

Byte == 0..255

(* assert_write counts in an int, and port8 has one byte for the size.     *)
ASSUME PortAssumption ==
  /\ Packets \subseteq Seq(Byte)
  /\ \A p \in Packets : Len(p) <= 2147483647 /\ ("packet1" \in Readers => Len(p) < 256)
  /\ Readers \subseteq {"packet4", "static", "packet1"}
  /\ {MaxSent, PipeSize, BufSize} \subseteq Nat

VARIABLES
  reader,   \* the read function in use; never changes
  sent,     \* the packets that were handed to a write
  whole,    \* how many of them were written to their last byte
  left,     \* what the current assert_write still has to write
  then,     \* the body, while left is the header
  closed,   \* the writing end is closed
  wire,     \* every byte written so far
  taken,    \* how many of them were read
  phase,    \* what is being read: "size" or "body"
  want,     \* bytes to read in this phase
  buf,      \* bytes read in this phase
  got,      \* the packets that were returned
  short,    \* a body was returned before all of it was read
  status    \* of the reading program: "runs", "exit0", "exit1"

writerVars == <<sent, whole, left, then, closed>>
readerVars == <<taken, phase, want, buf, got, short, status>>
portVars == <<reader, writerVars, wire, readerVars>>

-----------------------------------------------------------------------------
ShrLeft(n, bits) == n * 2^bits   \* faulty: the other way

Shr(n, bits) == n \div 2^bits

(* set_u32be, and the one byte of port8. *)
Header(n) == IF reader = "packet1" THEN <<n>>
             ELSE <<Shr(n, 24), Shr(n, 16) % 256, Shr(n, 8) % 256, n % 256>>

HeaderLen == IF reader = "packet1" THEN 1 ELSE 4

(* assert_read_u32 puts the bytes together again. *)
SizeOf(be) == IF reader = "packet1" THEN be[1]
              ELSE be[1] * 2^24 + be[2] * 2^16 + be[3] * 2^8 + be[4]

InPipe == Len(wire) - taken

Idle == left = <<>> /\ then = <<>>

PortInit ==
  /\ reader \in Readers
  /\ sent = <<>> /\ whole = 0 /\ left = <<>> /\ then = <<>> /\ closed = FALSE
  /\ wire = <<>>
  /\ taken = 0 /\ phase = "size" /\ want = HeaderLen /\ buf = <<>>
  /\ got = <<>> /\ short = FALSE /\ status = "runs"

(* assert_write_port32, assert_write_port8: the header, then the body. *)
Send(p) ==
  /\ Idle /\ ~closed /\ Len(sent) < MaxSent
  /\ sent' = Append(sent, p)
  /\ left' = Header(Len(p)) /\ then' = p
  /\ UNCHANGED <<reader, whole, closed, wire, readerVars>>

(* One write of assert_write, of k bytes; the second call follows at once. *)
Write(k) ==
  LET rest == SubSeq(left, k + 1, Len(left))
  IN /\ k <= PipeSize - InPipe
     /\ wire' = wire \o SubSeq(left, 1, k)
     /\ IF rest = <<>> THEN left' = then /\ then' = <<>>
                       ELSE left' = rest /\ then' = then
     /\ whole' = IF rest = <<>> /\ then = <<>> THEN whole + 1 ELSE whole
     /\ UNCHANGED <<reader, sent, closed, readerVars>>

WriteSome == \E k \in 1..Len(left) : ~closed /\ Write(k)

(* The writing program ends, between two packets or in the middle of one. *)
Close ==
  /\ ~closed
  /\ closed' = TRUE /\ left' = <<>> /\ then' = <<>>
  /\ UNCHANGED <<reader, sent, whole, wire, readerVars>>

-----------------------------------------------------------------------------
(* A packet of n bytes whose buffer was filled with b is returned. *)
Return(b, n) ==
  /\ got' = Append(got, [i \in 1..n |-> IF i <= Len(b) THEN b[i] ELSE 0])
  /\ short' = (short \/ Len(b) < n)
  /\ phase' = "size" /\ want' = HeaderLen /\ buf' = <<>>
  /\ UNCHANGED status

TakeSizeNeverEmpty(n) ==   \* faulty: an empty body is waited for
  /\ phase' = "body" /\ want' = n /\ buf' = <<>>
  /\ status' = IF reader = "static" /\ 4 + n > BufSize THEN "exit1" ELSE status
  /\ UNCHANGED <<got, short>>

(* The size is known.  Nothing is read for an empty body. *)
TakeSize(n) ==
  \/ /\ reader = "static" /\ 4 + n > BufSize        \* ASSERT
     /\ status' = "exit1"
     /\ UNCHANGED <<phase, want, buf, got, short>>
  \/ /\ reader # "static" \/ 4 + n <= BufSize
     /\ IF n = 0
        THEN Return(<<>>, 0)
        ELSE /\ phase' = "body" /\ want' = n /\ buf' = <<>>
             /\ UNCHANGED <<got, short, status>>

LoopsForSize == phase = "size"   \* faulty: no body is read in a loop

(* assert_read_fixed repeats until all is there, assert_read does not.  The *)
(* body is read by assert_read_fixed in assert_read_packet4_len alone.      *)
Loops == phase = "size" \/ reader = "packet4"

(* One read that returns k bytes. *)
Read(k) ==
  LET b == buf \o SubSeq(wire, taken + 1, taken + k)
  IN /\ status = "runs"
     /\ taken' = taken + k
     /\ IF Len(b) < want /\ Loops
        THEN buf' = b /\ UNCHANGED <<phase, want, got, short, status>>
        ELSE IF phase = "size" THEN TakeSize(SizeOf(b)) ELSE Return(b, want)
     /\ UNCHANGED <<reader, writerVars, wire>>

ReadSome == \E k \in 1..InPipe : k <= want - Len(buf) /\ Read(k)

(* assert_read at the end of the input. *)
ReadEof ==
  /\ status = "runs" /\ closed /\ InPipe = 0
  /\ status' = "exit0"
  /\ UNCHANGED <<reader, writerVars, wire, taken, phase, want, buf, got, short>>

PortNext ==
  \/ \E p \in Packets : Send(p)
  \/ WriteSome
  \/ Close
  \/ ReadSome
  \/ ReadEof

(* Both programs go on once they write or read.  The program that writes   *)
(* may end, it need not.                                                   *)
PortSpec == PortInit /\ [][PortNext]_portVars
                     /\ WF_portVars(WriteSome) /\ WF_portVars(ReadSome) /\ WF_portVars(ReadEof)

-----------------------------------------------------------------------------
PortTypeOK ==
  /\ reader \in Readers
  /\ sent \in Seq(Packets) /\ whole \in Nat /\ closed \in BOOLEAN
  /\ left \in Seq(Byte) /\ then \in Seq(Byte)
  /\ wire \in Seq(Byte) /\ taken \in 0..Len(wire)
  /\ phase \in {"size", "body"} /\ want \in Nat /\ buf \in Seq(Byte)
  /\ got \in Seq(Seq(Byte)) /\ short \in BOOLEAN
  /\ status \in {"runs", "exit0", "exit1"}

(* However writes and reads are cut, what is returned is what was sent, in *)
(* order and unchanged, and the end of the input ends the reader after the *)
(* last whole packet: none is dropped, and one that was cut off is not     *)
(* returned.  It holds as long as no body was returned before it was read, *)
(* which assert_read_packet4_len, the reader of all programs here, never   *)
(* does.                                                                   *)
PacketsExact ==
  ~short \/ reader = "packet4" =>
    /\ IsPrefix(got, sent)
    /\ status = "exit0" => Len(got) = whole

(* Every packet that was written arrives, unless the caller's buffer is too small. *)
EveryPacketArrives ==
  \A i \in 1..MaxSent :
    whole >= i ~> (Len(got) >= i \/ short \/ status = "exit1")
=============================================================================
