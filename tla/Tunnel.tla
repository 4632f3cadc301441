------------------------------- MODULE Tunnel -------------------------------
(***************************************************************************)
(* The TCP server of src/src/serv_tcp.erl (a registry and its acceptors)   *)
(* with the connections of src/src/reverse_tunnel.erl on it.               *)
(*                                                                         *)
(* A connection c is served by three processes.  The "tunnel" end is the   *)
(* acceptor that accepted the client; it starts a listener; that starts    *)
(* the "local" end, which accepts one user.  After that the two ends       *)
(* forward what their sockets receive to each other, with the same handler *)
(* (fw_handle/2).  The k-th data that comes in at a socket is the number k.*)
(*                                                                         *)
(* Links: every tunnel end with the registry and its listener, the listener*)
(* with the local end, and that with the registry once it is connected.    *)
(* Only the registry traps exits.                                          *)
(***************************************************************************)
EXTENDS Naturals, Sequences, SequencesExt

CONSTANTS
    Conn,    \* the connections that clients make
    MaxData  \* bound: what one end of a connection receives

ASSUME TunnelAssumption == MaxData \in Nat

Side == {"tunnel", "local"}
Far(s) == IF s = "tunnel" THEN "local" ELSE "tunnel"
Gone == {"hungup", "told", "failed"}   \* the ways in which an end is over
Begun == {"accepted", "asking", "granted", "linked", "setting", "run"}

VARIABLES
    up,        \* whether the registry is alive
    rbox,      \* its mailbox
    pids,      \* the connections whose tunnel end is registered
    acceptors, \* the acceptor processes there are
    st,        \* st[s][c]: where an end is
    box,       \* its mailbox
    other,     \* whether it is "waiting" for the far end, or "connected"
    buf,       \* its buffer, the newest data first
    open,      \* whether its socket is
    sent,      \* how much its peer has sent
    wrote,     \* what was written to its socket
    lst,       \* where the listener is
    lclose     \* whether there is a close in the listener's mailbox

ends == <<st, box, other, buf, open, sent, wrote>>
vars == <<up, rbox, pids, acceptors, ends, lst, lclose>>

Init ==
    /\ up = TRUE /\ rbox = <<[kind |-> "spawn_acceptor"]>> /\ pids = {} /\ acceptors = 0
    /\ st    = [s \in Side |-> [c \in Conn |-> "none"]]
    /\ box   = [s \in Side |-> [c \in Conn |-> <<>>]]
    /\ other = [s \in Side |-> [c \in Conn |-> IF s = "tunnel" THEN "waiting" ELSE "connected"]]
    /\ buf   = [s \in Side |-> [c \in Conn |-> <<>>]]
    /\ open  = [s \in Side |-> [c \in Conn |-> TRUE]]
    /\ sent  = [s \in Side |-> [c \in Conn |-> 0]]
    /\ wrote = [s \in Side |-> [c \in Conn |-> <<>>]]
    /\ lst    = [c \in Conn |-> "none"]
    /\ lclose = [c \in Conn |-> FALSE]

Alive(s, c) == st[s][c] \in Begun

(* A message to the registry; to an end, if there is still one.            *)
Tell(m) == rbox' = IF up THEN Append(rbox, m) ELSE rbox
Put(s, c, ms) == [box EXCEPT ![s][c] = IF Alive(s, c) THEN @ \o ms ELSE @]
Data(n)   == [kind |-> "tcp", n |-> n]
Send(n)   == [kind |-> "send", n |-> n]
Msg(kind) == [kind |-> kind]
Exit(s, c, how) == [kind |-> "EXIT", side |-> s, conn |-> c,
                    reason |-> IF how = "failed" THEN "error" ELSE "normal"]

-----------------------------------------------------------------------------
AcceptUnreplaced(c) ==   \* faulty: does not ask for another acceptor
    /\ acceptors > 0 /\ st["tunnel"][c] = "none"
    /\ acceptors' = acceptors - 1
    /\ st' = [st EXCEPT !["tunnel"][c] = "accepted"]
    /\ rbox' = Append(rbox, [kind |-> "register_connect", conn |-> c])
    /\ UNCHANGED <<up, pids, box, other, buf, open, sent, wrote, lst, lclose>>

(* An acceptor has a client: it reports to the registry and becomes the    *)
(* tunnel end.  Its Init calls the registry for a number ...               *)
Accept(c) ==
    /\ acceptors > 0 /\ st["tunnel"][c] = "none"
    /\ acceptors' = acceptors - 1
    /\ st' = [st EXCEPT !["tunnel"][c] = "accepted"]
    /\ rbox' = rbox \o <<[kind |-> "register_connect", conn |-> c], Msg("spawn_acceptor")>>
    /\ UNCHANGED <<up, pids, box, other, buf, open, sent, wrote, lst, lclose>>

GetConnectionId(c) ==
    /\ st["tunnel"][c] = "accepted"
    /\ st' = [st EXCEPT !["tunnel"][c] = "asking"]
    /\ Tell([kind |-> "get_connection_id", conn |-> c])
    /\ UNCHANGED <<up, pids, acceptors, box, other, buf, open, sent, wrote, lst, lclose>>

(* ... and starts the listener.                                            *)
ForwardInit(c) ==
    /\ st["tunnel"][c] = "granted"
    /\ st'  = [st EXCEPT !["tunnel"][c] = "run"]
    /\ lst' = [lst EXCEPT ![c] = "listen"]
    /\ UNCHANGED <<up, rbox, pids, acceptors, box, other, buf, open, sent, wrote, lclose>>

(* accept fails, and the acceptor with it.                                 *)
AcceptFails ==
    /\ acceptors > 0 /\ up
    /\ acceptors' = acceptors - 1
    /\ rbox' = Append(rbox, [kind |-> "EXIT", side |-> "acceptor", reason |-> "error"])
    /\ UNCHANGED <<up, pids, ends, lst, lclose>>

-----------------------------------------------------------------------------
(* The registry, handle_/2.                                                *)
NextMsg(kind) == up /\ rbox # <<>> /\ Head(rbox).kind = kind

SpawnAcceptor ==
    /\ NextMsg("spawn_acceptor")
    /\ acceptors' = acceptors + 1
    /\ rbox' = Tail(rbox)
    /\ UNCHANGED <<up, pids, ends, lst, lclose>>

RegisterConnect ==
    /\ NextMsg("register_connect")
    /\ pids' = pids \cup {Head(rbox).conn}
    /\ rbox' = Tail(rbox)
    /\ UNCHANGED <<up, acceptors, ends, lst, lclose>>

ConnectionId ==
    /\ NextMsg("get_connection_id")
    /\ LET c == Head(rbox).conn
       IN  st' = [st EXCEPT !["tunnel"][c] = IF @ = "asking" THEN "granted" ELSE @]
    /\ rbox' = Tail(rbox)
    /\ UNCHANGED <<up, pids, acceptors, box, other, buf, open, sent, wrote, lst, lclose>>

ChildExitErrorsOnly ==   \* faulty: a normal exit is ignored first
    /\ NextMsg("EXIT")
    /\ LET m == Head(rbox) IN
       IF m.side = "tunnel" /\ m.reason = "error"
         THEN pids' = pids \ {m.conn} /\ rbox' = Tail(rbox)
         ELSE /\ pids' = pids
              /\ rbox' = IF m.reason = "normal" THEN Tail(rbox)
                         ELSE Append(Tail(rbox), Msg("shutdown"))
    /\ UNCHANGED <<up, acceptors, ends, lst, lclose>>

(* A registered process ended; or another that is linked, and then it is   *)
(* the end of the server unless the exit was normal.                       *)
ChildExit ==
    /\ NextMsg("EXIT")
    /\ LET m == Head(rbox) IN
       IF m.side = "tunnel" /\ m.conn \in pids
         THEN pids' = pids \ {m.conn} /\ rbox' = Tail(rbox)
         ELSE /\ pids' = pids
              /\ rbox' = IF m.reason = "normal" THEN Tail(rbox)
                         ELSE Append(Tail(rbox), Msg("shutdown"))
    /\ UNCHANGED <<up, acceptors, ends, lst, lclose>>

(* Its acceptors are linked to it, and their socket is closed.             *)
Shutdown ==
    /\ NextMsg("shutdown")
    /\ up' = FALSE /\ rbox' = <<>> /\ acceptors' = 0
    /\ UNCHANGED <<pids, ends, lst, lclose>>

Registry == SpawnAcceptor \/ RegisterConnect \/ ConnectionId \/ ChildExit \/ Shutdown

-----------------------------------------------------------------------------
(* The listener: singleshot/4.  No port is free: OnError, and it ends.     *)
NoFreePort(c) ==
    /\ lst[c] = "listen"
    /\ lst' = [lst EXCEPT ![c] = "ended"]
    /\ box' = Put("tunnel", c, <<Msg("close")>>)
    /\ UNCHANGED <<up, rbox, pids, acceptors, st, other, buf, open, sent, wrote, lclose>>

(* HavePort: a call to the tunnel end, which may be over, or end meanwhile.*)
HavePort(c) ==
    /\ lst[c] = "listen"
    /\ lst' = [lst EXCEPT ![c] = "setting"]
    /\ box' = Put("tunnel", c, <<[kind |-> "set", by |-> "listener"]>>)
    /\ UNCHANGED <<up, rbox, pids, acceptors, st, other, buf, open, sent, wrote, lclose>>

HavePortFails(c) ==
    /\ lst[c] = "setting" /\ ~Alive("tunnel", c)
    /\ lst' = [lst EXCEPT ![c] = "failed"]
    /\ UNCHANGED <<up, rbox, pids, acceptors, ends, lclose>>

StartLocal(c) ==
    /\ lst[c] = "set"
    /\ lst' = [lst EXCEPT ![c] = "open"]
    /\ st'  = [st EXCEPT !["local"][c] = "accept"]
    /\ UNCHANGED <<up, rbox, pids, acceptors, box, other, buf, open, sent, wrote, lclose>>

CloseListener(c) ==
    /\ lst[c] = "open" /\ lclose[c]
    /\ lst' = [lst EXCEPT ![c] = "ended"]
    /\ lclose' = [lclose EXCEPT ![c] = FALSE]
    /\ UNCHANGED <<up, rbox, pids, acceptors, ends>>

Listener(c) == NoFreePort(c) \/ HavePort(c) \/ HavePortFails(c) \/ StartLocal(c) \/ CloseListener(c)

-----------------------------------------------------------------------------
(* The local end accepts a user; its Init links it to the registry, tells  *)
(* the tunnel end, and then calls it.                                      *)
AcceptUser(c) ==
    /\ st["local"][c] = "accept" /\ lst[c] = "open"
    /\ st' = [st EXCEPT !["local"][c] = "accepted"]
    /\ lclose' = [lclose EXCEPT ![c] = TRUE]
    /\ UNCHANGED <<up, rbox, pids, acceptors, box, other, buf, open, sent, wrote, lst>>

(* accept fails; it does when the listener has closed its socket.          *)
AcceptUserFails(c) ==
    /\ st["local"][c] = "accept"
    /\ st' = [st EXCEPT !["local"][c] = "failed"]
    /\ UNCHANGED <<up, rbox, pids, acceptors, box, other, buf, open, sent, wrote, lst, lclose>>

SetConnected(c) ==
    /\ st["local"][c] = "accepted"
    /\ st'  = [st EXCEPT !["local"][c] = "linked"]
    /\ box' = Put("tunnel", c, <<Msg("set_connected")>>)
    /\ UNCHANGED <<up, rbox, pids, acceptors, other, buf, open, sent, wrote, lst, lclose>>

SetState(c) ==
    /\ st["local"][c] = "linked"
    /\ st'  = [st EXCEPT !["local"][c] = "setting"]
    /\ box' = Put("tunnel", c, <<[kind |-> "set", by |-> "local"]>>)
    /\ UNCHANGED <<up, rbox, pids, acceptors, other, buf, open, sent, wrote, lst, lclose>>

(* An end is over in one of the ways of Gone; the registry, if it is       *)
(* linked to it, gets an 'EXIT' message.                                   *)
Ends(s, c, how) ==
    /\ st' = [st EXCEPT ![s][c] = how]
    /\ IF s = "tunnel" \/ st[s][c] \in {"linked", "setting", "run"}
         THEN Tell(Exit(s, c, how)) ELSE UNCHANGED rbox

SetStateFails(c) ==
    /\ st["local"][c] = "setting" /\ ~Alive("tunnel", c)
    /\ Ends("local", c, "failed")
    /\ UNCHANGED <<up, pids, acceptors, box, other, buf, open, sent, wrote, lst, lclose>>

LocalInit(c) == SetConnected(c) \/ SetState(c) \/ SetStateFails(c)

-----------------------------------------------------------------------------
(* fw_handle/2, the same at both ends: s takes its next message m.         *)
Takes(s, c, kind) ==
    /\ st[s][c] = "run" /\ box[s][c] # <<>> /\ Head(box[s][c]).kind = kind

(* What s leaves in the mailboxes when it took a message and sends ms on.  *)
Taken(s, c, ms) == [Put(Far(s), c, ms) EXCEPT ![s][c] = Tail(@)]

(* flush/1: the buffer b as messages for the far end, oldest first.        *)
FlushedNewestFirst(b) == [i \in DOMAIN b |-> Send(b[i])]   \* faulty

Flushed(b) == [i \in DOMAIN b |-> Send(Reverse(b)[i])]

TcpData(s, c) ==
    /\ Takes(s, c, "tcp")
    /\ LET b == <<Head(box[s][c]).n>> \o buf[s][c] IN
       IF other[s][c] = "waiting"
         THEN /\ buf' = [buf EXCEPT ![s][c] = b]
              /\ box' = Taken(s, c, <<>>)
         ELSE /\ buf' = [buf EXCEPT ![s][c] = <<>>]
              /\ box' = Taken(s, c, Flushed(b))
    /\ UNCHANGED <<up, rbox, pids, acceptors, st, other, open, sent, wrote, lst, lclose>>

(* ok = gen_tcp:send(...): when the peer has hung up this is no match.     *)
SendData(s, c) ==
    /\ Takes(s, c, "send")
    /\ IF open[s][c]
         THEN /\ wrote' = [wrote EXCEPT ![s][c] = Append(@, Head(box[s][c]).n)]
              /\ UNCHANGED <<st, rbox>>
         ELSE Ends(s, c, "failed") /\ UNCHANGED wrote
    /\ box' = Taken(s, c, <<>>)
    /\ UNCHANGED <<up, pids, acceptors, other, buf, open, sent, lst, lclose>>

TcpClosedSilent(s, c) ==   \* faulty: a connected far end is not told
    /\ Takes(s, c, "tcp_closed")
    /\ lclose' = IF other[s][c] = "waiting" THEN [lclose EXCEPT ![c] = TRUE] ELSE lclose
    /\ box' = Taken(s, c, <<>>)
    /\ Ends(s, c, "hungup")
    /\ UNCHANGED <<up, pids, acceptors, other, buf, open, sent, wrote, lst>>

TcpClosed(s, c) ==
    /\ Takes(s, c, "tcp_closed")
    /\ IF other[s][c] = "waiting"
         THEN lclose' = [lclose EXCEPT ![c] = TRUE] /\ box' = Taken(s, c, <<>>)
         ELSE UNCHANGED lclose /\ box' = Taken(s, c, <<Msg("close")>>)
    /\ Ends(s, c, "hungup")
    /\ UNCHANGED <<up, pids, acceptors, other, buf, open, sent, wrote, lst>>

Close(s, c) ==
    /\ Takes(s, c, "close")
    /\ Ends(s, c, "told")
    /\ box' = Taken(s, c, <<>>)
    /\ UNCHANGED <<up, pids, acceptors, other, buf, open, sent, wrote, lst, lclose>>

Connected(s, c) ==
    /\ Takes(s, c, "set_connected")
    /\ other' = [other EXCEPT ![s][c] = "connected"]
    /\ buf' = [buf EXCEPT ![s][c] = <<>>]
    /\ box' = Taken(s, c, Flushed(buf[s][c]))
    /\ UNCHANGED <<up, rbox, pids, acceptors, st, open, sent, wrote, lst, lclose>>

(* obj:handle/2 of a set: the caller goes on, if it is still there.        *)
HandleSet(s, c) ==
    /\ Takes(s, c, "set")
    /\ IF Head(box[s][c]).by = "listener"
         THEN /\ lst' = [lst EXCEPT ![c] = IF @ = "setting" THEN "set" ELSE @]
              /\ UNCHANGED st
         ELSE /\ st' = [st EXCEPT !["local"][c] = IF @ = "setting" THEN "run" ELSE @]
              /\ UNCHANGED lst
    /\ box' = Taken(s, c, <<>>)
    /\ UNCHANGED <<up, rbox, pids, acceptors, other, buf, open, sent, wrote, lclose>>

Forward(s, c) ==
    TcpData(s, c) \/ SendData(s, c) \/ TcpClosed(s, c) \/ Close(s, c)
    \/ Connected(s, c) \/ HandleSet(s, c)

-----------------------------------------------------------------------------
LinkBreaksUnlinked(s, c) ==   \* faulty: no link(Registry) at the local end
    /\ \/ s = "tunnel" /\ Alive(s, c) /\ (~up \/ lst[c] = "failed")
       \/ s = "local" /\ (Alive(s, c) \/ st[s][c] = "accept") /\ lst[c] = "failed"
    /\ Ends(s, c, "failed")
    /\ UNCHANGED <<up, pids, acceptors, box, other, buf, open, sent, wrote, lst, lclose>>

(* An exit signal: a process that is linked to one that failed fails too.  *)
(* The registry ends with the reason shutdown, which is not normal.        *)
LinkBreaks(s, c) ==
    /\ \/ /\ s = "tunnel" /\ Alive(s, c)
          /\ ~up \/ lst[c] = "failed"
       \/ /\ s = "local" /\ (Alive(s, c) \/ st[s][c] = "accept")
          /\ \/ ~up /\ st[s][c] \in {"linked", "setting", "run"}
             \/ lst[c] = "failed"
    /\ Ends(s, c, "failed")
    /\ UNCHANGED <<up, pids, acceptors, box, other, buf, open, sent, wrote, lst, lclose>>

ListenerLinkBreaks(c) ==
    /\ lst[c] \in {"listen", "setting", "set", "open"}
    /\ "failed" \in {st["tunnel"][c], st["local"][c]}
    /\ lst' = [lst EXCEPT ![c] = "failed"]
    /\ UNCHANGED <<up, rbox, pids, acceptors, ends, lclose>>

(* The peer of a socket sends, or hangs up.  Sockets are {active,true}.    *)
PeerSends(s, c) ==
    /\ Alive(s, c) /\ open[s][c] /\ sent[s][c] < MaxData
    /\ sent' = [sent EXCEPT ![s][c] = @ + 1]
    /\ box'  = [box EXCEPT ![s][c] = Append(@, Data(sent[s][c] + 1))]
    /\ UNCHANGED <<up, rbox, pids, acceptors, st, other, buf, open, wrote, lst, lclose>>

PeerHangsUp(s, c) ==
    /\ Alive(s, c) /\ open[s][c]
    /\ open' = [open EXCEPT ![s][c] = FALSE]
    /\ box'  = [box EXCEPT ![s][c] = Append(@, Msg("tcp_closed"))]
    /\ UNCHANGED <<up, rbox, pids, acceptors, st, other, buf, sent, wrote, lst, lclose>>

Work(c) ==
    \/ GetConnectionId(c) \/ ForwardInit(c) \/ Listener(c) \/ LocalInit(c)
    \/ AcceptUserFails(c) /\ lst[c] # "open"
    \/ ListenerLinkBreaks(c)
    \/ \E s \in Side : Forward(s, c) \/ LinkBreaks(s, c)

Environment ==
    \/ AcceptFails
    \/ \E c \in Conn : \/ Accept(c) \/ AcceptUser(c) \/ AcceptUserFails(c)
                       \/ \E s \in Side : PeerSends(s, c) \/ PeerHangsUp(s, c)

Next == Registry \/ (\E c \in Conn : Work(c)) \/ Environment

Spec == Init /\ [][Next]_vars

(* Every process that can run does, and exit signals arrive.  Nothing is   *)
(* assumed of clients and users.                                           *)
FairSpec == Spec /\ WF_vars(Registry) /\ \A c \in Conn : WF_vars(Work(c))

-----------------------------------------------------------------------------
RegistryMessage ==
    [kind : {"spawn_acceptor", "shutdown"}]
    \cup [kind : {"register_connect", "get_connection_id"}, conn : Conn]
    \cup [kind : {"EXIT"}, side : Side, conn : Conn, reason : {"normal", "error"}]
    \cup [kind : {"EXIT"}, side : {"acceptor"}, reason : {"error"}]
EndMessage ==
    [kind : {"tcp", "send"}, n : 1 .. MaxData]
    \cup [kind : {"tcp_closed", "close", "set_connected"}]
    \cup [kind : {"set"}, by : {"listener", "local"}]

(* Every variable has the shape the code gives it.                         *)
TypeOK ==
    /\ up \in BOOLEAN /\ pids \subseteq Conn /\ acceptors \in Nat
    /\ rbox  \in Seq(RegistryMessage)
    /\ st    \in [Side -> [Conn -> {"none", "accept"} \cup Begun \cup Gone]]
    /\ box   \in [Side -> [Conn -> Seq(EndMessage)]]
    /\ other \in [Side -> [Conn -> {"waiting", "connected"}]]
    /\ buf   \in [Side -> [Conn -> Seq(1 .. MaxData)]]
    /\ open  \in [Side -> [Conn -> BOOLEAN]]
    /\ sent  \in [Side -> [Conn -> 0 .. MaxData]]
    /\ wrote \in [Side -> [Conn -> Seq(1 .. MaxData)]]
    /\ lst   \in [Conn -> {"none", "listen", "setting", "set", "open", "ended", "failed"}]
    /\ lclose \in [Conn -> BOOLEAN]

(* Data comes out at the far end in the order in which it came in, also    *)
(* what was buffered before there was a far end; and an end that is closed *)
(* because the far end hung up has written everything that came in there.  *)
Forwarded ==
    \A s \in Side, c \in Conn :
        /\ IsPrefix(wrote[s][c], [k \in 1 .. sent[Far(s)][c] |-> k])
        /\ st[s][c] = "told" => Len(wrote[s][c]) = sent[Far(s)][c]

(* The registry never loses track: what info/1 is told are the processes   *)
(* that serve a connection, but for messages on their way.                 *)
RegistryAccurate ==
    up => \A c \in Conn :
        /\ (c \in pids /\ ~Alive("tunnel", c)) =>
              Exit("tunnel", c, st["tunnel"][c]) \in ToSet(rbox)
        /\ (Alive("tunnel", c) /\ c \notin pids) =>
              [kind |-> "register_connect", conn |-> c] \in ToSet(rbox)

(* There is one acceptor for the listening socket, or the message that     *)
(* starts it, until a failure takes the server down.                       *)
OneAcceptor ==
    LET coming == {i \in DOMAIN rbox : rbox[i].kind = "spawn_acceptor"}
        ending == {i \in DOMAIN rbox : \/ rbox[i].kind = "shutdown"
                                       \/ rbox[i].kind = "EXIT" /\ rbox[i].reason = "error"}
    IN  up => /\ acceptors <= 1 /\ (acceptors = 1 => coming = {})
              /\ \A i, j \in coming : i = j
              /\ acceptors = 0 /\ coming = {} => ending # {}

(* The registry keeps track of connections and of its one acceptor.        *)
RegistryTrue == RegistryAccurate /\ OneAcceptor

(* When one end is over because its peer hung up, or as it was told to,    *)
(* nothing else of the connection stays behind, whatever it was doing.     *)
Over(c) == ~Alive("tunnel", c) /\ st["local"][c] \in Gone \cup {"none"}
           /\ lst[c] \in {"none", "ended", "failed"}
EndsTogether ==
    \A s \in Side, c \in Conn : (st[s][c] \in {"hungup", "told"}) ~> Over(c)

(* When the server shuts down no process of any connection is left.        *)
ShutdownReachesAll == \A c \in Conn : ~up ~> Over(c)

(* "When anything goes wrong, we close up" (reverse_tunnel.erl:94): when   *)
(* one end is over, the other one does not stay open.                      *)
ClosesUp == \A c \in Conn :
    (st["tunnel"][c] \in Gone) ~> (st["local"][c] \in Gone \cup {"none"})
=============================================================================
