------------------------------- MODULE Device -------------------------------
(***************************************************************************)
(* The process of a board in src/src/gdbstub_hub.erl.  A board speaks RSP  *)
(* until the first other packet starts its application; from then on all   *)
(* packets are framed by SLIP, and RSP goes in packets of its own.  A call *)
(* leaves its caller in a slot {wait,N}, whose number the board sends      *)
(* back with the answer; an RSP request has a process of its own that      *)
(* waits for the pieces of the reply.                                      *)
(*                                                                         *)
(* Every call has a process of its own, as a caller ends when its time is  *)
(* over; it is known by the byte that its answer has to hold.  A tag, a    *)
(* slot and a check sum digit are one byte each.  Lines of TAG_INFO, peers *)
(* and drivers are left out, and SLIP is the framing that boards name.     *)
(* The board and its serial port are external.  Bytes come in pieces, but  *)
(* none that ends behind the + at the beginning of an RSP reply: rsp.erl   *)
(* takes a + at the end of what it has for a reply, and its comment says   *)
(* that it "relies on correct TCP packet borders".                         *)
(***************************************************************************)
EXTENDS Integers, SequencesExt

CONSTANTS
  Calls,      \* the bytes of the calls, in the order in which they are made
  Kinds,      \* bound: what each of them may be: "call", "rsp", and "plus" for an RSP +
  Pieces,     \* bound: bytes of a piece, when it is not all there is
  Chunks,     \* bound: bytes of an RSP reply in its first packet, more than its +
  MaxLost     \* bound: requests that the board does not answer

Meta == 1     \* the first request of the process that asks for meta information

VARIABLES
  dev,      \* [at, app, coded, rest, wait, rsp, serving, accu]: what the process does, what is
            \* in its map, and where it is in rsp:recv_port
  mbox,
  call,     \* a call -> [at, kind, answer]
  made,     \* how many calls were made
  waiter,   \* the process of an RSP request: [at, for, chunks, accu]
  meta,     \* the process that asks for meta information: "asks", "sets", "done"
  board,    \* external: [app, in, lost, gone]
  usb       \* external: bytes that the board has sent

vars == <<dev, mbox, call, made, waiter, meta, board, usb>>

Ids == {Meta} \cup ToSet(Calls)
NoOne == 0

END == 192
ESC == 219
TAG_GDB == 253
TAG_REPLY == 255
Plus == 43
Dollar == 36
Hash == 35

-----------------------------------------------------------------------------
(* slip_encode, and what slip_decode makes of a packet: an ESC in front of *)
(* anything else is dropped.                                               *)
slip_encode(bytes) ==
  <<END>> \o FlattenSeq([i \in DOMAIN bytes |->
               CASE bytes[i] = END -> <<ESC, 220>>
                 [] bytes[i] = ESC -> <<ESC, 221>>
                 [] OTHER          -> <<bytes[i]>>]) \o <<END>>

Escaped(s, i) == i > 1 /\ s[i - 1] = ESC /\ s[i] \in {220, 221}

Dropped == -1

Unescape(s) ==
  SelectSeq([i \in DOMAIN s |-> CASE s[i] = ESC    -> Dropped
                                  [] Escaped(s, i) -> IF s[i] = 220 THEN END ELSE ESC
                                  [] OTHER         -> s[i]],
            LAMBDA c : c # Dropped)

(* The packets in a sequence of bytes, without the empty ones, which mean  *)
(* nothing, and what is left behind the last.                              *)
Ends(s) == SelectSeq([i \in DOMAIN s |-> i], LAMBDA i : s[i] = END)

slip_decode(s) ==
  LET ends == <<0>> \o Ends(s)
  IN SelectSeq([k \in 1..(Len(ends) - 1) |-> Unescape(SubSeq(s, ends[k] + 1, ends[k + 1] - 1))],
               LAMBDA packet : packet # <<>>)

Undecoded(s) == LET ends == <<0>> \o Ends(s) IN SubSeq(s, Last(ends) + 1, Len(s))

(* rsp:delim *)
Delim(s) == s # <<>> /\ (Last(s) = Plus \/ (Len(s) >= 3 /\ s[Len(s) - 2] = Hash))

(* wait/2: the first number that is free. *)
FreeSlotCount(slots) == Cardinality(DOMAIN slots)   \* faulty: as if no number below were free
FreeSlot(slots) == CHOOSE n \in 0..Cardinality(DOMAIN slots) :
                     n \notin DOMAIN slots /\ \A m \in 0..(n - 1) : m \in DOMAIN slots

Reply(calls, id, bytes) ==
  IF calls[id].at = "waits" THEN [calls EXCEPT ![id].at = "answered", ![id].answer = bytes] ELSE calls

-----------------------------------------------------------------------------
NoWaiter == [at |-> "none", for |-> NoOne, chunks |-> <<>>, accu |-> <<>>]
Gone == [at |-> "gone", app |-> FALSE, coded |-> FALSE, rest |-> <<>>, wait |-> <<>>, rsp |-> NoOne,
         serving |-> NoOne, accu |-> <<>>]

Message(type, id, bytes) == [type |-> type, id |-> id, bytes |-> bytes]

(* The process ends, and what it is linked to; callers are told.           *)
Die ==
  /\ dev' = Gone /\ mbox' = <<>> /\ waiter' = NoWaiter /\ meta' = "done"
  /\ call' = [id \in Ids |-> IF call[id].at = "waits" THEN [call[id] EXCEPT !.at = "failed"] ELSE call[id]]
  /\ usb' = <<>> /\ UNCHANGED <<made, board>>

Took(m) == dev.at = "handles" /\ mbox # <<>> /\ m = Head(mbox)

PortCommand(bytes) == board' = [board EXCEPT !.in = Append(@, bytes)]

(* {send_packet,_}: without an encoder the second clause calls itself for  *)
(* ever.  Whatever is sent starts the application.  A command to a port    *)
(* that has ended fails, and the process with it.                          *)
SendPacket(d, bytes) ==
  IF d.coded THEN PortCommand(slip_encode(bytes)) /\ dev' = [d EXCEPT !.app = TRUE]
             ELSE dev' = [d EXCEPT !.at = "loops"] /\ UNCHANGED board

(* {call,Packet} *)
TakeCall(m) ==
  /\ Took(m) /\ m.type = "call"
  /\ IF dev.coded /\ board.gone THEN Die
     ELSE /\ LET slot == FreeSlot(dev.wait)
             IN SendPacket([dev EXCEPT !.wait = (slot :> m.id) @@ @], <<m.id, slot>>)
          /\ mbox' = Tail(mbox)
          /\ UNCHANGED <<call, made, waiter, meta, usb>>

(* {rsp_call,Request} while the application does not run: the process      *)
(* itself waits for the reply.  To + there is none.                        *)
TakeRspCall(m) ==
  /\ Took(m) /\ m.type \in {"rsp", "plus"} /\ ~dev.app
  /\ \/ board.gone /\ Die
     \/ /\ ~board.gone /\ m.type = "plus" /\ PortCommand(<<Plus>>)
        /\ call' = Reply(call, m.id, <<>>)
        /\ mbox' = Tail(mbox) /\ UNCHANGED <<dev, made, waiter, meta, usb>>
     \/ /\ ~board.gone /\ m.type = "rsp" /\ PortCommand(<<Dollar, m.id>>)
        /\ dev' = [dev EXCEPT !.at = "receives", !.serving = m.id, !.accu = <<>>]
        /\ mbox' = Tail(mbox) /\ UNCHANGED <<call, made, waiter, meta, usb>>

Waiting(m) == [NoWaiter EXCEPT !.at = IF m.type = "plus" THEN "sends +" ELSE "sends", !.for = m.id]

RspCallOverlaps(m) ==   \* faulty: the request that waits is replaced
  /\ Took(m) /\ m.type \in {"rsp", "plus"} /\ dev.app
  /\ mbox' = Tail(mbox)
  /\ dev' = [dev EXCEPT !.rsp = m.id]
  /\ waiter' = IF waiter.at = "none" THEN Waiting(m) ELSE waiter
  /\ UNCHANGED <<call, made, meta, board, usb>>

(* While it runs, a process waits; "it will just fail" when there is one.  *)
RspCall(m) ==
  /\ Took(m) /\ m.type \in {"rsp", "plus"} /\ dev.app
  /\ IF dev.rsp # NoOne THEN Die
     ELSE /\ mbox' = Tail(mbox)
          /\ dev' = [dev EXCEPT !.rsp = m.id] /\ waiter' = Waiting(m)
          /\ UNCHANGED <<call, made, meta, board, usb>>

(* The messages of the process that waits. *)
TakeSendPacket(m) ==
  /\ Took(m) /\ m.type = "send_packet"
  /\ IF dev.coded /\ board.gone THEN Die
     ELSE /\ SendPacket(dev, m.bytes) /\ mbox' = Tail(mbox)
          /\ UNCHANGED <<call, made, waiter, meta, usb>>

TakeRspReply(m) ==
  /\ Took(m) /\ m.type = "rsp_call_reply"
  /\ IF dev.rsp = NoOne THEN Die
     ELSE /\ call' = Reply(call, dev.rsp, m.bytes)
          /\ dev' = [dev EXCEPT !.rsp = NoOne] /\ mbox' = Tail(mbox)
          /\ UNCHANGED <<made, waiter, meta, board, usb>>

TakeSetMeta(m) ==
  /\ Took(m) /\ m.type = "set_meta"
  /\ dev' = [dev EXCEPT !.coded = TRUE] /\ meta' = "done"
  /\ mbox' = Tail(mbox)
  /\ UNCHANGED <<call, made, waiter, board, usb>>

(* default_handle_packet: a piece of an RSP reply goes to whoever waits,   *)
(* an answer to the caller in its slot; anything else is printed.          *)
handle_packet(x, packet) ==
  IF packet[1] = TAG_GDB
  THEN IF x.wtr.at \in {"sends", "waits"} THEN [x EXCEPT !.wtr.chunks = Append(@, Tail(packet))] ELSE x
  ELSE IF packet[1] = TAG_REPLY /\ Len(packet) >= 2 /\ packet[2] \in DOMAIN x.slots
  THEN LET slot == packet[2]
       IN [x EXCEPT !.calls = Reply(@, x.slots[slot], SubSeq(packet, 3, Len(packet))),
                    !.slots = [n \in DOMAIN @ \ {slot} |-> @[n]]]
  ELSE x

handle_packets(x, packets) ==
  LET handled[k \in 0..Len(packets)] ==
        IF k = 0 THEN x ELSE handle_packet(handled[k - 1], packets[k])
  IN handled[Len(packets)]

RestForgotten(bytes) == bytes   \* faulty: forgets the piece before
RestAnd(bytes) == dev.rest \o bytes

(* decode_and_handle_packet; there is no clause without a decoder. *)
TakeData(m) ==
  /\ Took(m) /\ m.type = "data"
  /\ IF ~dev.coded THEN Die
     ELSE LET bin == RestAnd(m.bytes)
              x == handle_packets([slots |-> dev.wait, calls |-> call, wtr |-> waiter], slip_decode(bin))
          IN /\ dev' = [dev EXCEPT !.wait = x.slots, !.rest = Undecoded(bin)]
             /\ call' = x.calls /\ waiter' = x.wtr /\ mbox' = Tail(mbox)
             /\ UNCHANGED <<made, meta, board, usb>>

TakeExit(m) == Took(m) /\ m.type = "exit_status" /\ Die

(* rsp:recv_port: the first piece in the mailbox, whatever is before it.   *)
FirstData(box) == SelectInSeq(box, LAMBDA m : m.type = "data")

Receive ==
  /\ dev.at = "receives" /\ FirstData(mbox) > 0
  /\ LET i == FirstData(mbox)
         accu == dev.accu \o mbox[i].bytes
     IN /\ mbox' = RemoveAt(mbox, i)
        /\ IF Delim(accu)
           THEN /\ call' = Reply(call, dev.serving, accu)
                /\ dev' = [dev EXCEPT !.at = "handles", !.serving = NoOne, !.accu = <<>>]
           ELSE dev' = [dev EXCEPT !.accu = accu] /\ UNCHANGED call
  /\ UNCHANGED <<made, waiter, meta, board, usb>>

(* A time limit ends this process, or the one that waits, and both. *)
Timeout ==
  /\ \/ dev.at = "receives" /\ FirstData(mbox) = 0
     \/ waiter.at = "waits" /\ waiter.chunks = <<>>
  /\ Die

Handle ==
  \/ mbox # <<>> /\ LET m == Head(mbox)
                    IN TakeCall(m) \/ TakeRspCall(m) \/ RspCall(m) \/ TakeSendPacket(m)
                         \/ TakeRspReply(m) \/ TakeSetMeta(m) \/ TakeData(m) \/ TakeExit(m)
  \/ Receive

-----------------------------------------------------------------------------
(* The process that waits for an RSP reply: rsp:recv_data. *)
RspReply(bytes) == mbox' = Append(mbox, Message("rsp_call_reply", NoOne, bytes)) /\ waiter' = NoWaiter

WaiterSends ==
  /\ waiter.at \in {"sends", "sends +"}
  /\ LET packet == Message("send_packet", NoOne,
                     IF waiter.at = "sends" THEN <<TAG_GDB, Dollar, waiter.for>> ELSE <<TAG_GDB, Plus>>)
     IN IF waiter.at = "sends"
        THEN mbox' = Append(mbox, packet) /\ waiter' = [waiter EXCEPT !.at = "waits"]
        ELSE mbox' = mbox \o <<packet, Message("rsp_call_reply", NoOne, <<>>)>> /\ waiter' = NoWaiter
  /\ UNCHANGED <<dev, call, made, meta, board, usb>>

WaiterTakes ==
  /\ waiter.at = "waits" /\ waiter.chunks # <<>>
  /\ LET accu == waiter.accu \o Head(waiter.chunks)
     IN IF Delim(accu) THEN RspReply(accu)
        ELSE waiter' = [waiter EXCEPT !.accu = accu, !.chunks = Tail(@)] /\ UNCHANGED mbox
  /\ UNCHANGED <<dev, call, made, meta, board, usb>>

(* What is asked of the board at first; whatever comes of it, the hub is   *)
(* told that the board is up.                                              *)
MetaSets ==
  /\ meta = "asks" /\ call[Meta].at # "waits"
  /\ IF call[Meta].at = "answered"
     THEN meta' = "sets" /\ mbox' = Append(mbox, Message("set_meta", NoOne, <<>>))
     ELSE meta' = "done" /\ UNCHANGED mbox
  /\ UNCHANGED <<dev, call, made, waiter, board, usb>>

Processes == WaiterSends \/ WaiterTakes \/ MetaSets

-----------------------------------------------------------------------------
(* Callers: obj:call with {call,_} or {rsp_call,_}; a caller whose time is *)
(* over ends.                                                              *)
Ask(kind) ==
  /\ dev.at # "gone" /\ made < Len(Calls) /\ made' = made + 1 /\ kind \in Kinds[made + 1]
  /\ LET id == Calls[made + 1]
     IN /\ call' = [call EXCEPT ![id].at = "waits", ![id].kind = kind]
        /\ mbox' = Append(mbox, Message(kind, id, <<>>))
  /\ UNCHANGED <<dev, waiter, meta, board, usb>>

GiveUp(id) ==
  /\ call[id].at = "waits" /\ call' = [call EXCEPT ![id].at = "failed"]
  /\ UNCHANGED <<dev, mbox, made, waiter, meta, board, usb>>

(* The board.  A request that is not answered is lost. *)
FullReply(id) == <<Plus, Dollar, id, Hash, 0, 0>>

BoardLoses ==
  /\ board.in # <<>> /\ board.lost < MaxLost
  /\ board' = [board EXCEPT !.in = Tail(@), !.lost = @ + 1, !.app = @ \/ Head(board.in)[1] = END]
  /\ UNCHANGED <<dev, mbox, call, made, waiter, meta, usb>>

BoardAnswers ==
  /\ board.in # <<>>
  /\ LET bytes  == Head(board.in)
         slip   == bytes[1] = END
         packet == IF slip THEN slip_decode(bytes)[1] ELSE bytes
         rsp    == IF slip /\ packet[1] = TAG_GDB THEN Tail(packet) ELSE packet
     IN /\ board' = [board EXCEPT !.in = Tail(@), !.app = @ \/ slip]
        /\ \/ rsp = <<Plus>> /\ UNCHANGED <<usb>>
           \/ rsp[1] = Dollar /\ ~slip /\ usb' = usb \o FullReply(rsp[2])
           \/ /\ rsp[1] = Dollar /\ slip
              /\ \E k \in Chunks : LET reply == FullReply(rsp[2])
                   IN usb' = usb \o slip_encode(<<TAG_GDB>> \o SubSeq(reply, 1, k))
                                    \o slip_encode(<<TAG_GDB>> \o SubSeq(reply, k + 1, 6))
           \/ /\ slip /\ packet[1] # TAG_GDB
              /\ usb' = usb \o slip_encode(<<TAG_REPLY, packet[2], packet[1]>>)
  /\ UNCHANGED <<dev, mbox, call, made, waiter, meta>>

(* The port takes a piece; the next one when that was taken. *)
Deliver(k) ==
  /\ dev.at # "gone" /\ k \in 1..Len(usb) /\ FirstData(mbox) = 0
  /\ board.app \/ usb[k] # Plus
  /\ mbox' = Append(mbox, Message("data", NoOne, SubSeq(usb, 1, k)))
  /\ usb' = SubSeq(usb, k + 1, Len(usb))
  /\ UNCHANGED <<dev, call, made, waiter, meta, board>>

Unplug ==
  /\ dev.at # "gone" /\ ~board.gone /\ board' = [board EXCEPT !.gone = TRUE, !.in = <<>>]
  /\ mbox' = Append(mbox, Message("exit_status", NoOne, <<>>)) /\ usb' = <<>>
  /\ UNCHANGED <<dev, call, made, waiter, meta>>

Init ==
  /\ \E running \in BOOLEAN :
       /\ dev = [Gone EXCEPT !.at = "handles", !.app = running, !.coded = running]
       /\ board = [app |-> running, in |-> <<>>, lost |-> 0, gone |-> FALSE]
  /\ call = [id \in Ids |-> [at |-> IF id = Meta THEN "waits" ELSE "none", kind |-> "rsp", answer |-> <<>>]]
  /\ mbox = <<Message("rsp", Meta, <<>>)>> /\ meta = "asks" /\ made = 0
  /\ waiter = NoWaiter /\ usb = <<>>

Ports == BoardAnswers \/ \E k \in Pieces \cup {Len(usb)} : Deliver(k)

Next ==
  \/ Handle \/ Timeout \/ Processes \/ Ports \/ BoardLoses \/ Unplug
  \/ \E kind \in {"call", "rsp", "plus"} : Ask(kind)
  \/ \E id \in Ids : GiveUp(id)

Spec == Init /\ [][Next]_vars

-----------------------------------------------------------------------------
TypeOK ==
  /\ dev.at \in {"handles", "receives", "loops", "gone"} /\ {dev.rsp, dev.serving} \subseteq Ids \cup {NoOne}
  /\ dev.rest \in Seq(0..255) /\ \A n \in DOMAIN dev.wait : n \in 0..Len(Calls) /\ dev.wait[n] \in Ids
  /\ \A id \in Ids : call[id].at \in {"none", "waits", "answered", "failed"}
  /\ waiter.at \in {"none", "sends", "sends +", "waits"} /\ waiter.for \in Ids \cup {NoOne}
  /\ meta \in {"asks", "sets", "done"} /\ usb \in Seq(0..255) /\ board.lost \in 0..MaxLost

(* However pieces are cut, slots are used again, callers give up and       *)
(* requests overlap: an answer is what the board sent for this very call.  *)
OwnAnswer ==
  \A id \in Ids : call[id].at = "answered" =>
    CASE call[id].kind = "call" -> call[id].answer = <<id>>
      [] call[id].kind = "plus" -> call[id].answer = <<>>
      [] call[id].kind = "rsp"  -> call[id].answer = FullReply(id)

(* No two calls have one slot or one call two, and requests and answers on *)
(* their way find the slot of their call.                                  *)
Stream ==
  dev.rest \o (IF FirstData(mbox) > 0 THEN mbox[FirstData(mbox)].bytes ELSE <<>>) \o usb

Asked == {p \in {slip_decode(board.in[i])[1] : i \in {j \in DOMAIN board.in : board.in[j][1] = END}} :
            p[1] # TAG_GDB}
Answers == {<<p[3], p[2]>> : p \in {q \in ToSet(slip_decode(Stream)) : Len(q) = 3 /\ q[1] = TAG_REPLY}}

SlotsTrue ==
  dev.at \in {"handles", "receives"} =>
    /\ \A m, n \in DOMAIN dev.wait : dev.wait[m] = dev.wait[n] => m = n
    /\ \A p \in Asked \cup Answers : p[2] \in DOMAIN dev.wait /\ dev.wait[p[2]] = p[1]

(* Whoever waits is answered, told that the board has gone, or has a time  *)
(* limit of the code come, or his request was lost: his request, or what   *)
(* leads to the answer, is on its way.                                     *)
NotForgotten ==
  dev.at \in {"handles", "receives"} => \A id \in Ids : call[id].at = "waits" =>
    \/ dev.serving = id
    \/ \E i \in DOMAIN mbox : mbox[i].id = id
    \/ dev.rsp = id /\ (waiter.for = id \/ \E i \in DOMAIN mbox : mbox[i].type = "rsp_call_reply")
    \/ /\ \E n \in DOMAIN dev.wait : dev.wait[n] = id
       /\ \/ board.lost > 0 \/ \E p \in Asked \cup Answers : p[1] = id
          \/ \E i \in DOMAIN mbox : mbox[i].type = "exit_status"

(* The process goes on to handle messages as long as it is there. *)
Responsive == dev.at # "loops"
=============================================================================
