-------------------------------- MODULE Ecat --------------------------------
(***************************************************************************)
(* The routers of src/src/ecat.erl: one process per node that runs         *)
(* programs behind ports and connects them, to programs of its own or of   *)
(* other nodes, by the dispatch table of module Epid.  A program is known  *)
(* by its spec, started when it is first needed, and closed when nobody    *)
(* is subscribed to it any more; what it prints goes to the programs that  *)
(* are connected.  Files are transferred by a program of their own that    *)
(* the router of the source runs.                                          *)
(*                                                                         *)
(* Messages of one sender come in the order in which they were sent, those *)
(* of different senders in any: a router has a queue for each sender.      *)
(* Programs and clients are external.                                      *)
(***************************************************************************)
EXTENDS Epid, Integers

CONSTANTS
  Routers,
  Specs,
  Budgets     \* bounds, one of which holds in a behaviour: how many requests the client
              \* makes, pieces of data programs print, and routers are lost with their node

VARIABLES
  router,     \* router -> [up, port, spec, dispatch, transfer, watch]: what is in its
              \* map, and how many monitors it has for each other router
  programs,   \* the programs that were started: [owner, status, input]
  inbox,      \* router -> sender -> messages
  call,       \* the transfer for which the client waits, by its number, or none
  answers,    \* the transfers that were answered
  budget,     \* what is left: [ops, data, losses]
  doubled     \* history: routers that had two addresses of one program in a list

vars == <<router, programs, inbox, call, answers, budget, doubled>>

Client == "client"
Ports == "ports"
NoPort == 0

Endpoints == [process: Routers, spec: Specs]
Epids == [process: Routers, spec: Specs, by: {"pid", "name"}, wrapped: BOOLEAN]
SameProgram(d, e) == d.process = e.process /\ d.spec = e.spec

Named(e, wrapped) == [process |-> e.process, spec |-> e.spec, by |-> "name", wrapped |-> wrapped]
Self(r, spec) == [process |-> r, spec |-> spec, by |-> "pid", wrapped |-> FALSE]

Send(spec, msg) == [type |-> "epid_send", spec |-> spec, msg |-> msg]
Dst(kind, dst) == [type |-> kind, dst |-> dst]
DownOf(r) == [type |-> "DOWN", process |-> r]

Nobody == [r \in Routers |-> 0]
NoCall == [n |-> 0, src |-> Client, dst |-> Client]

Started == [up |-> TRUE, port |-> [spec \in Specs |-> NoPort], spec |-> {},
            dispatch |-> [spec \in Specs |-> <<>>], transfer |-> {}, watch |-> Nobody]
Lost == [Started EXCEPT !.up = FALSE]

-----------------------------------------------------------------------------
(* A handler works on x: the router r and its state s, all programs, and   *)
(* the messages that it sends, each to a router or to the client.          *)
Out(x, to, msg) == [x EXCEPT !.out = Append(@, [to |-> to, msg |-> msg])]

Fail(x) == [x EXCEPT !.s.up = FALSE]

(* need_port, open_spec. *)
OpenPort(x) ==
  [x EXCEPT !.programs = Append(@, [owner |-> x.r, status |-> "runs", input |-> <<>>])]

need_port(spec, x) ==
  IF x.s.port[spec] # NoPort THEN x
  ELSE LET y == OpenPort(x)
           p == Len(y.programs)
       IN [y EXCEPT !.s.port[spec] = p, !.s.spec = @ \cup {<<p, spec>>}]

PortClose(p, x) ==
  [x EXCEPT !.programs[p].status = IF @ = "runs" THEN "closed" ELSE @]

RemovePortUnlisted(p, x) ==   \* faulty: leaves the port of the spec
  LET entry == CHOOSE e \in x.s.spec : e[1] = p
      y == PortClose(p, x)
  IN [y EXCEPT !.s.dispatch = unsubscribe_all(entry[2], @), !.s.spec = @ \ {entry}]

remove_port(p, x) ==
  LET entry == CHOOSE e \in x.s.spec : e[1] = p
      y == PortClose(p, x)
  IN [y EXCEPT !.s.dispatch = unsubscribe_all(entry[2], @),
               !.s.spec = @ \ {entry}, !.s.port[entry[2]] = NoPort]

(* remove_stale_port looks for the port of a spec that nobody is           *)
(* subscribed to, and fails when it is gone already.                       *)
remove_stale_port(spec, x) ==
  IF subscribers(spec, x.s.dispatch) # <<>> THEN x
  ELSE IF x.s.port[spec] = NoPort THEN Fail(x)
  ELSE remove_port(x.s.port[spec], x)

remove_subscriber(spec, dst, x) ==
  remove_stale_port(spec, [x EXCEPT !.s.dispatch = unsubscribe(spec, dst, @)])

remove_stale_ports(x) ==
  FoldSet(remove_stale_port, x, {e[2] : e \in x.s.spec})

dispatch(spec, msg, x) ==
  FoldLeft(LAMBDA y, dst : Out(y, dst.process, Send(dst.spec, msg)), x, subscribers(spec, x.s.dispatch))

-----------------------------------------------------------------------------
(* port_command writes, or fails when the program has ended and its        *)
(* exit_status is still to come.                                           *)
PortCommand(p, data, x) ==
  IF x.programs[p].status = "exited" THEN Fail(x)
  ELSE [x EXCEPT !.programs[p].input = Append(@, data)]

(* A pid is monitored with every subscription, also with one that is there *)
(* already; the monitor of a process that is gone fires at once.           *)
Subscribe(spec, dst, x) ==
  LET y == [x EXCEPT !.s.dispatch = subscribe(spec, dst, @)]
  IN IF dst.by = "name" THEN y
     ELSE IF router[dst.process].up THEN [y EXCEPT !.s.watch[dst.process] = @ + 1]
     ELSE Out(y, x.r, DownOf(dst.process))

EpidSend(spec, msg, x) ==
  CASE msg.type = "transfer" ->
         Out(x, msg.src.process, [type |-> "transfer_start", call |-> msg.call])
    [] msg.type = "unsubscribe" -> remove_subscriber(spec, msg.dst, x)
    [] msg.type = "unsubscribe_bidir" ->
         remove_subscriber(spec, msg.dst,
           Out(x, msg.dst.process, Send(msg.dst.spec, Dst("unsubscribe", Self(x.r, spec)))))
    [] OTHER ->
         LET y == need_port(spec, x)
         IN CASE msg.type = "subscribe" -> Subscribe(spec, msg.dst, y)
              [] msg.type = "subscribe_bidir" ->
                   Subscribe(spec, msg.dst,
                     Out(y, msg.dst.process, Send(msg.dst.spec, Dst("subscribe", Self(x.r, spec)))))
              [] msg.type = "data" -> PortCommand(y.s.port[spec], msg.data, y)
              [] msg.type = "eof"  -> remove_port(y.s.port[spec], y)

(* A message of a port: of a program, of a transfer, or of a port that was *)
(* closed meanwhile.                                                       *)
PortMessage(p, msg, x) ==
  IF \E e \in x.s.spec : e[1] = p
  THEN LET spec == (CHOOSE e \in x.s.spec : e[1] = p)[2]
       IN IF msg.type = "data" THEN dispatch(spec, msg, x)
          ELSE remove_port(p, dispatch(spec, [type |-> "eof"], x))
  ELSE IF \E t \in x.s.transfer : t[1] = p
  THEN LET t == CHOOSE u \in x.s.transfer : u[1] = p
       IN [Out(PortClose(p, x), Client, t[2]) EXCEPT !.s.transfer = @ \ {t}]
  ELSE x

TransferStart(n, x) ==
  LET y == OpenPort(x) IN [y EXCEPT !.s.transfer = @ \cup {<<Len(y.programs), n>>}]

DownMessage(process, x) ==
  IF DownFails(x.s.dispatch) THEN Fail(x)
  ELSE remove_stale_ports([x EXCEPT !.s.dispatch = down(process, @)])

HandleMessage(m, x) ==
  CASE m.type = "epid_send"      -> EpidSend(m.spec, m.msg, x)
    [] m.type = "port"           -> PortMessage(m.port, m.msg, x)
    [] m.type = "transfer_start" -> TransferStart(m.call, x)
    [] m.type = "DOWN"           -> DownMessage(m.process, x)

-----------------------------------------------------------------------------
(* What a handler has left.  A router that failed, or is lost with its     *)
(* node, closes its programs, what is sent to it is lost, and those that   *)
(* monitor it are told, behind all that it has sent.                       *)
MessagesTo(q, out) ==
  LET to == SelectSeq(out, LAMBDA o : o.to = q) IN [i \in DOMAIN to |-> to[i].msg]

Commit(r, x, box) ==
  /\ router' = [router EXCEPT ![r] = IF x.s.up THEN x.s ELSE Lost]
  /\ programs' = [p \in DOMAIN x.programs |->
       IF x.programs[p].owner = r /\ ~x.s.up /\ x.programs[p].status = "runs"
       THEN [x.programs[p] EXCEPT !.status = "closed"] ELSE x.programs[p]]
  /\ inbox' = [q \in Routers |->
       IF ~router'[q].up THEN [f \in DOMAIN box[q] |-> <<>>]
       ELSE [box[q] EXCEPT ![r] = @ \o MessagesTo(q, x.out)
               \o (IF x.s.up THEN <<>> ELSE [i \in 1..router[q].watch[r] |-> DownOf(r)])]]
  /\ answers' = answers \cup Range(MessagesTo(Client, x.out))
  /\ doubled' = IF \E spec \in Specs : LET list == x.s.dispatch[spec]
                   IN \E i, j \in DOMAIN list : list[i] # list[j] /\ SameProgram(list[i], list[j])
                THEN doubled \cup {r} ELSE doubled

Before(r) == [r |-> r, s |-> router[r], programs |-> programs, out |-> <<>>]

Handle(r, from) ==
  /\ router[r].up /\ inbox[r][from] # <<>>
  /\ Commit(r, HandleMessage(Head(inbox[r][from]), Before(r)), [inbox EXCEPT ![r][from] = Tail(@)])
  /\ UNCHANGED <<call, budget>>

NodeLost(r) ==
  /\ router[r].up /\ budget.losses > 0 /\ budget' = [budget EXCEPT !.losses = @ - 1]
  /\ Commit(r, Fail(Before(r)), inbox)
  /\ UNCHANGED call

-----------------------------------------------------------------------------
(* A program prints, or ends by itself; the port tells its owner. *)
Tell(p, msg) ==
  inbox' = [inbox EXCEPT ![programs[p].owner][Ports] = Append(@, [type |-> "port", port |-> p, msg |-> msg])]

Prints(p) ==
  /\ programs[p].status = "runs" /\ budget.data > 0
  /\ budget' = [budget EXCEPT !.data = @ - 1]
  /\ Tell(p, [type |-> "data", data |-> <<p, -budget.data>>])
  /\ UNCHANGED <<router, programs, call, answers, doubled>>

Ends(p) ==
  /\ programs[p].status = "runs"
  /\ programs' = [programs EXCEPT ![p].status = "exited"]
  /\ Tell(p, [type |-> "exit_status"])
  /\ UNCHANGED <<router, call, answers, budget, doubled>>

(* The client: epid:connect, connect_bidir and their opposites, send, and  *)
(* transfer, which waits for its answer or a DOWN of the router it called. *)
Ask(e, msg) ==
  /\ budget.ops > 0 /\ budget' = [budget EXCEPT !.ops = @ - 1]
  /\ inbox' = IF router[e.process].up
              THEN [inbox EXCEPT ![e.process][Client] = Append(@, Send(e.spec, msg))] ELSE inbox
  /\ UNCHANGED <<router, programs, answers, doubled>>

Connect(src, dst) ==
  /\ \/ \E kind \in {"subscribe_bidir", "unsubscribe_bidir"} : Ask(src, Dst(kind, Named(dst, FALSE)))
     \/ \E kind \in {"subscribe", "unsubscribe"}, wrapped \in BOOLEAN : Ask(src, Dst(kind, Named(dst, wrapped)))
  /\ UNCHANGED call

Transfer(src, dst) ==
  /\ call.n = 0 /\ Ask(dst, [type |-> "transfer", src |-> src, call |-> budget.ops])
  /\ call' = [n |-> budget.ops, src |-> src.process, dst |-> dst.process]

Answered ==
  /\ call.n \in answers \/ (call # NoCall /\ ~router[call.dst].up)
  /\ call' = NoCall
  /\ UNCHANGED <<router, programs, inbox, answers, budget, doubled>>

Init ==
  /\ router = [r \in Routers |-> Started] /\ programs = <<>>
  /\ inbox = [r \in Routers |-> [f \in Routers \cup {Client, Ports} |-> <<>>]]
  /\ call = NoCall /\ answers = {} /\ doubled = {}
  /\ budget \in Budgets

Serve == \E r \in Routers, from \in Routers \cup {Client, Ports} : Handle(r, from)

Next ==
  \/ Serve
  \/ \E r \in Routers : NodeLost(r)
  \/ \E p \in DOMAIN programs : Prints(p) \/ Ends(p)
  \/ \E src, dst \in Endpoints : src # dst /\ (Connect(src, dst) \/ Transfer(src, dst))
  \/ Answered

Spec == Init /\ [][Next]_vars

-----------------------------------------------------------------------------
TypeOK ==
  /\ \A r \in Routers :
       /\ router[r].up \in BOOLEAN /\ router[r].port \in [Specs -> Nat]
       /\ \A spec \in Specs : router[r].dispatch[spec] \in Seq(Epids)
  /\ \A p \in DOMAIN programs : programs[p].status \in {"runs", "exited", "closed"}
  /\ doubled \subseteq Routers

(* {port,Spec} and {spec,Port} are inverse, "to allow fast lookup in both  *)
(* directions"; every program that runs is in the map of its router, as a  *)
(* connection or a transfer, or it could never be closed; and whoever is   *)
(* subscribed is subscribed to a program that is there.                    *)
Indexed ==
  \A r \in Routers :
    LET s == router[r]
    IN /\ s.spec = {<<s.port[spec], spec>> : spec \in {t \in Specs : s.port[t] # NoPort}}
       /\ \A p \in DOMAIN programs :
            programs[p].owner = r /\ programs[p].status = "runs" =>
              \E e \in s.spec \cup s.transfer : e[1] = p
       /\ \A spec \in Specs : s.dispatch[spec] # <<>> => s.port[spec] # NoPort

(* Connections to a router that is lost are torn down: for every entry by  *)
(* pid the message that removes it is on its way.                          *)
TornDown ==
  \A r, q \in Routers, spec \in Specs :
    router[r].up /\ ~router[q].up /\ (\E i \in DOMAIN router[r].dispatch[spec] :
        router[r].dispatch[spec][i].by = "pid" /\ router[r].dispatch[spec][i].process = q) =>
      \E f \in Routers : \E i \in DOMAIN inbox[r][f] : inbox[r][f][i] = DownOf(q)

(* What a program prints comes to another one in order, and once, unless   *)
(* the router had it in one list under two addresses.                      *)
OnceInOrder ==
  \A p \in DOMAIN programs : LET input == programs[p].input
    IN \A i, j \in DOMAIN input :
         i < j /\ input[i][1] = input[j][1] =>
           input[i][2] < input[j][2] \/ programs[input[i][1]].owner \in doubled

(* The caller of a transfer is answered, gets a DOWN, or what leads to its *)
(* answer is under way, unless the router that was to send the file is     *)
(* lost: the caller monitors only the one that is to get it.               *)
OnItsWay(p) ==
  \/ programs[p].status = "runs"
  \/ \E i \in DOMAIN inbox[call.src][Ports] :
       inbox[call.src][Ports][i].port = p /\ inbox[call.src][Ports][i].msg.type = "exit_status"

TransferNotForgotten ==
  call = NoCall \/ call.n \in answers \/ ~router[call.dst].up \/ ~router[call.src].up
    \/ (\E i \in DOMAIN inbox[call.dst][Client] : inbox[call.dst][Client][i].msg.type = "transfer")
    \/ (\E i \in DOMAIN inbox[call.src][call.dst] : inbox[call.src][call.dst][i].type = "transfer_start")
    \/ (\E t \in router[call.src].transfer : t[2] = call.n /\ OnItsWay(t[1]))

(* Every router is there: it fails when a client disconnects what has      *)
(* ended already, when a message comes for a program that has just ended,  *)
(* or when a router is lost while an address with a filter is in a list.   *)
AllUp == \A r \in Routers : router[r].up
=============================================================================
