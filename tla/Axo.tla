-------------------------------- MODULE Axo --------------------------------
(***************************************************************************)
(* A sound board behind USB: the process of axo.erl that serves its        *)
(* clients, and the port program c_src/axo_connect.c with a thread for     *)
(* each direction.  USB moves transfers of at most Chunk bytes, and only a *)
(* transfer that is shorter ends a message.                                *)
(*                                                                         *)
(* The board is external: it puts messages together and answers requests   *)
(* in their order.  A byte is known by the client, the part of its         *)
(* conversation, and the operation it belongs to.                          *)
(***************************************************************************)
EXTENDS Integers, FiniteSets, SequencesExt

CONSTANTS
  Clients,
  Tags,        \* of requests: the answer to a request has the tag of the request
  Chunk,       \* bytes of a full transfer, 64 in the code
  Size,        \* part -> bytes of a packet: "head", "data", and the tags
  ReplySize,   \* bytes of an answer
  RoomSize,    \* bytes of buf in the reader thread, 1024 * 1024 in the code
  Starts,      \* what `total' may hold when the reader thread begins
  MaxOps       \* bound: operations of a client

NoOne == "no client"
Parts == {"head", "data"} \cup Tags

(* A payload may be empty.  Requests and answers begin with their tags.    *)
ASSUME AxoAssumption ==
  /\ NoOne \notin Clients /\ {"head", "data", "garbage"} \cap Tags = {}
  /\ Size \in [Parts -> Nat] /\ \A tag \in Tags : Size[tag] > 0
  /\ {Chunk, ReplySize} \subseteq Nat \ {0} /\ {RoomSize, MaxOps} \cup Starts \subseteq Nat

VARIABLES
  client,      \* client -> [at, tag, ops, answer]
  inbox,       \* messages at the server
  waiting,     \* the {waiting,Tag} entries: tag -> client or none
  serving,     \* the server has not ended
  driver,      \* the program runs
  packets,     \* packets on their way to the program
  rest,        \* main thread: what to_axo has still to transfer
  within,      \* main thread: it is in to_axo
  message,     \* external: what the board has of a message
  board,       \* external: the messages that the board got
  transfers,   \* external: what the board has to transfer
  collected,   \* reader thread: the first `total' bytes of buf
  start,       \* history: what `total' held at first
  written,     \* history: the packets sent, in order
  owed,        \* history: tag -> answers that have not come to the server
  mixed        \* history: tags asked for while an older answer was owed

threadVars == <<driver, packets, rest, within, collected>>
usbVars == <<message, board, transfers>>
axoVars == <<client, inbox, waiting, serving, threadVars, usbVars, start, written, owed, mixed>>

Garbage == <<NoOne, "garbage", 0>>

Packet(c, part) == [i \in 1..Size[part] |-> <<c, part, client[c].ops>>]
Answer(request) == [i \in 1..ReplySize |-> <<request[1], request[2], request[3], "answer">>]

(* A message of n bytes is as many full transfers as it fills, and a short *)
(* one, of no byte if nothing is left.                                     *)
Cut(bytes) ==
  [i \in 1..(Len(bytes) \div Chunk + 1) |->
    SubSeq(bytes, (i - 1) * Chunk + 1, IF i * Chunk <= Len(bytes) THEN i * Chunk ELSE Len(bytes))]

-----------------------------------------------------------------------------
(* axo.erl, call/2.  A write is a header and a payload, sent one after the *)
(* other; nobody answers.                                                  *)
Begin(c) == client[c].at = "idle" /\ client[c].ops < MaxOps

WriteHeader(c) ==
  /\ Begin(c)
  /\ client' = [client EXCEPT ![c].at = "writes"]
  /\ inbox' = Append(inbox, [type |-> "send", bytes |-> Packet(c, "head")])
  /\ UNCHANGED <<waiting, serving, threadVars, usbVars, start, written, owed, mixed>>

WriteData(c) ==
  /\ client[c].at = "writes"
  /\ client' = [client EXCEPT ![c].at = "idle", ![c].ops = @ + 1]
  /\ inbox' = Append(inbox, [type |-> "send", bytes |-> Packet(c, "data")])
  /\ UNCHANGED <<waiting, serving, threadVars, usbVars, start, written, owed, mixed>>

(* call_raw: an obj:call with a limit of 1000 ms. *)
Call(c, tag) ==
  /\ Begin(c)
  /\ client' = [client EXCEPT ![c].at = "waits", ![c].tag = tag]
  /\ inbox' = Append(inbox, [type |-> "call", from |-> c, tag |-> tag, bytes |-> Packet(c, tag)])
  /\ UNCHANGED <<waiting, serving, threadVars, usbVars, start, written, owed, mixed>>

(* The caller ends when time is up, or when the server is gone. *)
GiveUp(c) ==
  /\ client[c].at = "waits"
  /\ client' = [client EXCEPT ![c].at = IF serving THEN "timeout" ELSE "down"]
  /\ UNCHANGED <<inbox, waiting, serving, threadVars, usbVars, start, written, owed, mixed>>

Continue(c) ==
  /\ client[c].at = "got"
  /\ client' = [client EXCEPT ![c].at = "idle", ![c].ops = @ + 1]
  /\ UNCHANGED <<inbox, waiting, serving, threadVars, usbVars, start, written, owed, mixed>>

-----------------------------------------------------------------------------
(* handle({send, _}, _).  To a program that is gone a packet is lost.      *)
SendPacket(bytes) ==
  /\ packets' = IF driver THEN Append(packets, bytes) ELSE packets
  /\ written' = Append(written, bytes)

(* handle({Pid, {call, ReplyTag, RawMsg}}, _) *)
TakeCall(m) ==
  /\ waiting' = [waiting EXCEPT ![m.tag] = m.from]
  /\ owed' = [owed EXCEPT ![m.tag] = @ + 1]
  /\ mixed' = IF owed[m.tag] > 0 THEN mixed \cup {m.tag} ELSE mixed
  /\ SendPacket(m.bytes)
  /\ UNCHANGED <<client, serving>>

WaiterAny(bytes) ==   \* faulty: takes whoever waits, whatever the tag is
  IF bytes[1][2] \in Tags /\ \E t \in Tags : waiting[t] # NoOne
  THEN waiting[CHOOSE t \in Tags : waiting[t] # NoOne] ELSE NoOne

(* handle({Port, {data, _}}, _): a packet of the program.  Its first bytes *)
(* are the tag; what nobody waits for is logged.                           *)
Waiter(bytes) == IF bytes[1][2] \in Tags THEN waiting[bytes[1][2]] ELSE NoOne

TakeData(bytes) ==
  /\ LET c == Waiter(bytes)
     IN IF c = NoOne THEN UNCHANGED <<client, waiting>>
        ELSE /\ client' = IF client[c].at = "waits"
                          THEN [client EXCEPT ![c].at = "got", ![c].answer = bytes] ELSE client
             /\ waiting' = [waiting EXCEPT ![bytes[1][2]] = NoOne]
  /\ owed' = [owed EXCEPT ![Last(bytes)[2]] = @ - 1]
  /\ UNCHANGED <<serving, packets, written, mixed>>

(* An exit_status is no message that obj:handle knows: the server ends.    *)
TakeExit == serving' = FALSE /\ UNCHANGED <<client, waiting, packets, written, owed, mixed>>

Handle ==
  /\ serving /\ inbox # <<>>
  /\ inbox' = Tail(inbox)
  /\ LET m == Head(inbox)
     IN CASE m.type = "send" -> SendPacket(m.bytes) /\ UNCHANGED <<client, waiting, serving, owed, mixed>>
          [] m.type = "call" -> TakeCall(m)
          [] m.type = "data" -> TakeData(m.bytes)
          [] m.type = "exit" -> TakeExit
  /\ UNCHANGED <<driver, rest, within, collected, usbVars, start>>

-----------------------------------------------------------------------------
(* axo_connect.c.  exit ends both threads. *)
Exit ==
  /\ driver' = FALSE /\ packets' = <<>> /\ rest' = <<>> /\ within' = FALSE /\ collected' = <<>>
  /\ inbox' = Append(inbox, [type |-> "exit"])

(* main takes the next packet. *)
NextPacket ==
  /\ driver /\ ~within /\ packets # <<>>
  /\ rest' = Head(packets) /\ packets' = Tail(packets) /\ within' = TRUE
  /\ UNCHANGED <<client, inbox, waiting, serving, driver, collected, usbVars, start, written, owed, mixed>>

FullOnlyAbove(bytes) == Len(bytes) > Chunk   \* faulty: off by one

(* to_axo: a full transfer as long as there is one, then a short one.      *)
Full(bytes) == Len(bytes) >= Chunk

(* What the board makes of a transfer. *)
Receive(bytes) ==
  LET whole == message \o bytes
  IN IF Len(bytes) = Chunk
     THEN message' = whole /\ UNCHANGED <<board, transfers>>
     ELSE /\ message' = <<>>
          /\ board' = Append(board, whole)
          /\ transfers' = IF whole # <<>> /\ whole[1][2] \in Tags
                          THEN transfers \o Cut(Answer(whole[1])) ELSE transfers

TransferNoShort ==   \* faulty: a packet that ends with a full transfer is done
  /\ within
  /\ IF Full(rest)
     THEN /\ Receive(SubSeq(rest, 1, Chunk))
          /\ rest' = SubSeq(rest, Chunk + 1, Len(rest)) /\ within' = (rest' # <<>>)
     ELSE Receive(rest) /\ rest' = <<>> /\ within' = FALSE
  /\ UNCHANGED <<client, inbox, waiting, serving, driver, packets, collected, start, written, owed, mixed>>

Transfer ==
  /\ within
  /\ IF Full(rest)
     THEN /\ Receive(SubSeq(rest, 1, Chunk))
          /\ rest' = SubSeq(rest, Chunk + 1, Len(rest)) /\ UNCHANGED within
     ELSE Receive(rest) /\ rest' = <<>> /\ within' = FALSE
  /\ UNCHANGED <<client, inbox, waiting, serving, driver, packets, collected, start, written, owed, mixed>>

(* The loop of the reader thread begins with an ASSERT.  Its sum is 32     *)
(* bits wide and wraps for a total within Chunk of 2^32.  Then the check   *)
(* passes and the transfer goes 4 GiB beyond the buffer; the model takes   *)
(* it that nothing is mapped there, which ends the program all the same.   *)
Room(bytes) == Chunk + Len(bytes) <= RoomSize

NoRoom ==
  /\ driver /\ ~Room(collected)
  /\ Exit
  /\ UNCHANGED <<client, waiting, serving, usbVars, start, written, owed, mixed>>

(* A short transfer completes a packet. *)
ReadTransfer ==
  /\ driver /\ Room(collected) /\ transfers # <<>>
  /\ transfers' = Tail(transfers)
  /\ LET now == collected \o Head(transfers)
     IN IF Len(Head(transfers)) < Chunk
        THEN /\ inbox' = Append(inbox, [type |-> "data", bytes |-> now])
             /\ collected' = <<>>
        ELSE collected' = now /\ UNCHANGED inbox
  /\ UNCHANGED <<client, waiting, serving, driver, packets, rest, within, message, board, start,
                 written, owed, mixed>>

(* The board is unplugged: the transfer in which a thread is fails.        *)
Unplugged ==
  /\ driver
  /\ Exit
  /\ UNCHANGED <<client, waiting, serving, usbVars, start, written, owed, mixed>>

-----------------------------------------------------------------------------
(* total is not initialised: anything may be in it. *)
AxoInit ==
  /\ client = [c \in Clients |-> [at |-> "idle", tag |-> NoOne, ops |-> 0, answer |-> <<>>]]
  /\ inbox = <<>> /\ waiting = [t \in Tags |-> NoOne] /\ serving = TRUE
  /\ driver = TRUE /\ packets = <<>> /\ rest = <<>> /\ within = FALSE
  /\ message = <<>> /\ board = <<>> /\ transfers = <<>>
  /\ start \in Starts
  /\ collected = [i \in 1..start |-> Garbage]
  /\ written = <<>> /\ owed = [t \in Tags |-> 0] /\ mixed = {}

Operation(c) ==
  \/ WriteHeader(c)
  \/ WriteData(c)
  \/ \E tag \in Tags : Call(c, tag)
  \/ GiveUp(c)
  \/ Continue(c)

AxoNext ==
  \/ \E c \in Clients : Operation(c)
  \/ Handle
  \/ NextPacket
  \/ Transfer
  \/ NoRoom
  \/ ReadTransfer
  \/ Unplugged

AxoSpec ==
  AxoInit /\ [][AxoNext]_axoVars /\ WF_axoVars(Handle) /\ WF_axoVars(NextPacket) /\ WF_axoVars(Transfer)

-----------------------------------------------------------------------------
AxoTypeOK ==
  /\ \A c \in Clients : client[c].at \in {"idle", "writes", "waits", "got", "timeout", "down"}
  /\ waiting \in [Tags -> Clients \cup {NoOne}]
  /\ (Len(collected) <= RoomSize \/ Len(collected) = start) /\ within \in BOOLEAN
  /\ (~driver => packets = <<>> /\ rest = <<>>)

(* However long a packet is, a multiple of the transfer size included, the *)
(* board gets it as one message, and all messages in the order of sending. *)
WholeMessages == IsPrefix(board, written)

(* A caller gets the whole answer to its own request, unless the tag was   *)
(* asked for while an older request was not answered: then the one slot    *)
(* per tag gives the older answer to the newer caller.                     *)
OwnReply ==
  \A c \in Clients :
    client[c].at = "got" /\ client[c].tag \notin mixed =>
      client[c].answer = Answer(<<c, client[c].tag, client[c].ops>>)

(* Packets come to the board whole and in order, and the answer to a       *)
(* request comes back whole and to the caller that made it.                *)
AxoMessages == WholeMessages /\ OwnReply

(* Every packet reaches the board, unless the program ends. *)
PacketsArrive ==
  \A n \in 1..(2 * MaxOps * Cardinality(Clients)) :
    Len(written) >= n ~> (Len(board) >= n \/ ~driver)

(* "It sends two packets: one with header, the other with payload": the    *)
(* two stay together on their way to the board.                            *)
WritesContiguous ==
  \A i \in DOMAIN board :
    i < Len(board) /\ board[i] # <<>> /\ board[i][1][2] = "head" =>
      board[i + 1] # <<>> /\ board[i + 1][1] = <<board[i][1][1], "data", board[i][1][3]>>
=============================================================================
