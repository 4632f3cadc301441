------------------------------- MODULE Sqlite -------------------------------
(***************************************************************************)
(* A database server: the process of sqlite3.erl that runs transactions    *)
(* for its clients, the port program c_src/sqlite3.c that it sends the     *)
(* queries to, and the pipes between them.  The program answers a query by *)
(* a packet for each row, or for an error, and an empty packet behind; the *)
(* server reads packets until the empty one and sends the next query.      *)
(*                                                                         *)
(* Messages are bytes, made and read by module Bert.  A statement is known *)
(* by a number instead of its text, and the table has one column, whose    *)
(* values are unique; a row shows the type of a value and the value.  The  *)
(* SQL library itself is external.                                         *)
(***************************************************************************)
EXTENDS Bert, FiniteSets, SequencesExt

CONSTANTS
  Clients,
  Transactions,   \* what sql/2 is called with: sequences of queries and checks
  MaxSlices,      \* MAX_NB_SLICES, 10 in the code
  MaxKills,       \* bound: ends of the program from outside
  MaxFailures     \* bound: failures of the library that no statement is to blame for

VARIABLES
  cl,      \* client -> [at, op, result]
  mbox,    \* requests at the server, oldest first
  srv,     \* the server: what it is doing, and for whom
  inq,     \* packets on their way to the program
  prog,    \* the program: where it is, its statement and the rows still to come
  out,     \* bytes on their way to the server
  exits,   \* exit_status messages on their way: at most one
  db,      \* the table, and the transaction that is open
  kills,
  lib,     \* failures of the library; and, as history, what they did to the
           \* transaction that runs: how many of its items were left when a
           \* query failed (0: none did), and whether its effects were lost
  log      \* history: the transactions that ended, with their results

vars == <<cl, mbox, srv, inq, prog, out, exits, db, kills, lib, log>>

Text == <<116, 101, 120, 116>>
Blob == <<98, 108, 111, 98>>

Rollback == <<1>>
Begin    == <<2>>
End      == <<3>>
Insert   == <<4>>
Select   == <<5>>

Query(sql, args) == [op |-> "query", sql |-> sql, args |-> args, most |-> 0]
Check(n)         == [op |-> "check", sql |-> <<>>, args |-> <<>>, most |-> n]
Close            == <<>>   \* the request close, told from a transaction by its place

-----------------------------------------------------------------------------
(* The library.  A statement that is wrong changes nothing, and the        *)
(* transaction stays open.                                                 *)
View(d) == IF d.open THEN d.work ELSE d.table

Before(u, v) == u[1][1] > v[1][1] \/ (u[1] = v[1] /\ u[2][1] < v[2][1])

Abandon(d) == [d EXCEPT !.open = FALSE, !.work = {}]

Outcome(d, error, rows) == [db |-> d, error |-> error, rows |-> rows]

Exec(sql, args, d) ==
  CASE sql = Rollback -> Outcome(Abandon(d), ~d.open, <<>>)
    [] sql = Begin    -> IF d.open THEN Outcome(d, TRUE, <<>>)
                         ELSE Outcome([d EXCEPT !.open = TRUE, !.work = d.table], FALSE, <<>>)
    [] sql = End      -> IF ~d.open THEN Outcome(d, TRUE, <<>>)
                         ELSE Outcome([table |-> d.work, open |-> FALSE, work |-> {}], FALSE, <<>>)
    [] sql = Insert   -> IF args[1] \in View(d) THEN Outcome(d, TRUE, <<>>)
                         ELSE Outcome([d EXCEPT !.work = @ \cup {args[1]}], FALSE, <<>>)
    [] sql = Select   -> Outcome(d, FALSE, SetToSortSeq(View(d), Before))
    [] OTHER          -> Outcome(d, TRUE, <<>>)

(* A statement that is right may fail too.  The file is locked by another  *)
(* process (SQLITE_BUSY): the transaction stays open, also when it was to  *)
(* be committed.  Or the disk is full or broken (SQLITE_FULL, _IOERR): the *)
(* transaction may be given up.  A rollback and a deferred begin take no   *)
(* lock and write nothing, and are taken not to fail.                      *)
MayFail(sql, d) == sql \in {Insert, Select, End} /\ d.open

-----------------------------------------------------------------------------
(* term_to_binary of a query, and binary_to_term of an answer. *)
TermToBinary(sql, args) ==
  <<BERT_START>> \o SmallTuple(2) \o Binary(sql)
  \o (IF args = <<>> THEN Nil
      ELSE List(Len(args))
           \o FlattenSeq([i \in DOMAIN args |-> SmallTuple(2) \o Atom(args[i][1]) \o Binary(args[i][2])])
           \o Nil)

BinaryToTerm(bin) ==
  [error |-> bin[2] = BERT_SMALL_TUPLE, cols |-> [i \in DOMAIN Decode(bin).calls |-> Decode(bin).calls[i][2]]]

(* The port driver takes packets from the stream of bytes. *)
PacketLen(bytes) == 4 + UInt(Reader(bytes), 4)
HasPacket == Len(out) >= 4 /\ Len(out) >= PacketLen(out)
Packet == SubSeq(out, 5, PacketLen(out))
Drop == SubSeq(out, PacketLen(out) + 1, Len(out))

-----------------------------------------------------------------------------
(* sqlite3.c: the constructors.  An atom names the type of the next binary, *)
(* which is text unless told otherwise; a third name or too many binaries  *)
(* end the program.                                                        *)
NoSlices == [ok |-> TRUE, bind |-> Text, slices |-> <<>>]

AtomCall(r, bytes) ==
  IF bytes \in {Text, Blob} THEN [r EXCEPT !.bind = bytes] ELSE [r EXCEPT !.ok = FALSE]

BinaryCallUntyped(r, bytes) ==   \* faulty: every value is bound as text
  IF Len(r.slices) >= MaxSlices THEN [r EXCEPT !.ok = FALSE]
  ELSE [r EXCEPT !.slices = Append(@, <<Text, bytes>>)]

BinaryCall(r, bytes) ==
  IF Len(r.slices) >= MaxSlices THEN [r EXCEPT !.ok = FALSE]
  ELSE [r EXCEPT !.slices = Append(@, <<r.bind, bytes>>), !.bind = Text]

Collected == [ok: BOOLEAN, bind: {Text, Blob}, slices: Seq({Text, Blob} \X Seq(0..255))]
Calls == {"atom", "binary", "string"} \X Seq(0..255)

Constructor[r \in Collected, call \in Calls] ==
  IF ~r.ok THEN r
  ELSE IF call[1] = "atom" THEN AtomCall(r, call[2])
  ELSE IF call[1] = "binary" THEN BinaryCall(r, call[2]) ELSE r

Slices(msg) ==
  LET d == Decode(msg)
      r == FoldLeft(LAMBDA s, call : Constructor[s, call], NoSlices, d.calls)
  IN [r EXCEPT !.ok = r.ok /\ d.ok /\ r.slices # <<>>]

(* The first slice is the statement, the others are bound in their order.  *)
Statement(slices) == slices[1][2]
Bindings(slices) == Tail(slices)

Reading == [at |-> "read", sql |-> <<>>, args |-> <<>>, rows |-> <<>>]
Gone == [Reading EXCEPT !.at = "gone"]

(* exit: the pipes close behind what was written. *)
Exit(code) == prog' = Gone /\ exits' = Append(exits, code) /\ inq' = <<>>

(* What sql_row_seq and sql_error_seq write, and the empty packet. *)
Row(cols) == WritePacket(4, List(Len(cols)) \o FlattenSeq([i \in DOMAIN cols |-> Binary(cols[i])]) \o Nil)
SqlError == WritePacket(4, SmallTuple(2) \o Atom(<<101>>) \o Binary(<<33>>))
Sentinel == WUint(4, 0)

ErrorAnswerEndsTwice ==   \* faulty: the message loop writes an empty packet once more
  out' = out \o SqlError \o Sentinel \o Sentinel /\ prog' = Reading

ErrorAnswerEndless == out' = out \o SqlError /\ prog' = Reading   \* faulty: no empty packet

(* sql_error: the error, the empty packet, and back to the message loop,   *)
(* which finalizes the statement.                                          *)
ErrorAnswer == out' = out \o SqlError \o Sentinel /\ prog' = Reading

(* The message loop reads a message; an empty one ends it.  query decodes  *)
(* the message and prepares the statement.                                 *)
ReadMessage ==
  /\ prog.at = "read" /\ inq # <<>>
  /\ LET msg == Head(inq)
         q == Slices(msg)
     IN IF msg = <<>>
        THEN /\ Exit(0)
             /\ db' = Abandon(db)
             /\ UNCHANGED out
        ELSE IF ~q.ok
        THEN /\ Exit(1)
             /\ db' = Abandon(db)
             /\ UNCHANGED out
        ELSE /\ IF Statement(q.slices) \in {Rollback, Begin, End, Insert, Select}
                THEN /\ prog' = [at |-> "step", sql |-> Statement(q.slices),
                                 args |-> Bindings(q.slices), rows |-> <<>>]
                     /\ UNCHANGED out
                ELSE ErrorAnswer
             /\ inq' = Tail(inq)
             /\ UNCHANGED <<exits, db>>
  /\ UNCHANGED <<cl, mbox, srv, kills, lib, log>>

(* sqlite3_step fails, whatever rows it gave before, and the transaction   *)
(* is kept or given up.  Its effects are lost when it is given up and when *)
(* it is its end that failed.                                              *)
StepFails ==
  /\ lib.failures < MaxFailures /\ MayFail(prog.sql, db)
  /\ ErrorAnswer
  /\ \E kept \in BOOLEAN :
       /\ db' = IF kept THEN db ELSE Abandon(db)
       /\ lib' = [failures |-> lib.failures + 1,
                  left |-> IF prog.sql = End THEN lib.left ELSE Len(srv.plan),
                  lost |-> lib.lost \/ ~kept \/ prog.sql = End]

(* The first sqlite3_step runs the statement. *)
FirstStep ==
  /\ prog.at = "step"
  /\ \/ LET r == Exec(prog.sql, prog.args, db)
        IN /\ db' = r.db
           /\ IF r.error
              THEN ErrorAnswer
              ELSE prog' = [prog EXCEPT !.at = "rows", !.rows = r.rows] /\ UNCHANGED out
           /\ UNCHANGED lib
     \/ StepFails
  /\ UNCHANGED <<cl, mbox, srv, inq, exits, kills, log>>

(* SQLITE_ROW writes a row, SQLITE_DONE ends the answer; and the step that *)
(* looks for the next row of a select may fail.                            *)
NextRow ==
  /\ prog.at = "rows"
  /\ \/ /\ prog.rows # <<>>
        /\ out' = out \o Row(Head(prog.rows))
        /\ prog' = [prog EXCEPT !.rows = Tail(@)]
        /\ UNCHANGED <<db, lib>>
     \/ /\ prog.rows = <<>>
        /\ out' = out \o Sentinel /\ prog' = Reading
        /\ UNCHANGED <<db, lib>>
     \/ prog.sql = Select /\ StepFails
  /\ UNCHANGED <<cl, mbox, srv, inq, exits, kills, log>>

(* The program is ended from outside; the transaction it had open is gone. *)
Kill ==
  /\ prog.at # "gone" /\ kills < MaxKills
  /\ Exit(1) /\ kills' = kills + 1
  /\ db' = Abandon(db)
  /\ UNCHANGED <<cl, mbox, srv, out, lib, log>>

Program == ReadMessage \/ FirstStep \/ NextRow

-----------------------------------------------------------------------------
(* sqlite3.erl: the server.  Outside of an answer it handles one message   *)
(* at a time; within port_sync it takes packets of the port alone.         *)
Idle == [at |-> "idle", for |-> {}, stage |-> "none", plan |-> <<>>, acc |-> <<>>,
         rows |-> <<>>, tag |-> "rows"]

(* A packet to a program that is gone is lost without notice. *)
SendPacket(bin) == inq' = IF prog.at = "gone" THEN inq ELSE Append(inq, bin)

(* port_query: send, then wait for the answer. *)
Ask(s, stage, sql, args) ==
  /\ srv' = [s EXCEPT !.at = "sync", !.stage = stage, !.rows = <<>>]
  /\ SendPacket(TermToBinary(sql, args))

ReplyKeepsClient(s, tag) ==   \* faulty: goes on with the state of the request
  /\ cl' = [c \in Clients |->
              IF c \in s.for THEN [cl[c] EXCEPT !.at = "got", !.result = [tag |-> tag, rows |-> s.acc]]
              ELSE cl[c]]
  /\ srv' = [s EXCEPT !.at = "idle", !.rows = <<>>]

Reply(s, tag) ==
  /\ cl' = [c \in Clients |->
              IF c \in s.for THEN [cl[c] EXCEPT !.at = "got", !.result = [tag |-> tag, rows |-> s.acc]]
              ELSE cl[c]]
  /\ srv' = Idle

(* db_handle *)
Take ==
  /\ srv.at = "idle" /\ mbox # <<>>
  /\ mbox' = Tail(mbox)
  /\ LET c == Head(mbox)
         s == [Idle EXCEPT !.for = {c}, !.plan = cl[c].op]
     IN IF cl[c].op = Close
        THEN srv' = [s EXCEPT !.at = "flush"] /\ SendPacket(<<>>)
        ELSE Ask(s, "rollback", Rollback, <<>>)
  /\ UNCHANGED <<cl, prog, out, exits, db, kills, lib, log>>

(* run_until_error, for the next query or check. *)
CheckFails(item, acc) == Len(acc[Len(acc)]) > item.most

Plan ==
  /\ srv.at = "plan"
  /\ IF srv.plan = <<>> THEN Ask(srv, "end", End, <<>>)
     ELSE LET item == Head(srv.plan)
          IN IF item.op = "query"
             THEN Ask(srv, "item", item.sql, item.args)
             ELSE IF CheckFails(item, srv.acc)
             THEN Ask([srv EXCEPT !.tag = "abort", !.acc = <<>>], "abort", Rollback, <<>>)
             ELSE srv' = [srv EXCEPT !.plan = Tail(@)] /\ UNCHANGED inq
  /\ UNCHANGED <<cl, mbox, prog, out, exits, db, kills, lib, log>>

HasError(rows) == \E i \in DOMAIN rows : rows[i].error

(* run_transaction, when the answer to the query of a stage is complete.   *)
(* The query that ends it is sent whatever happened before.                *)
Continue(s) ==
  CASE s.stage = "rollback" -> Ask(s, "begin", Begin, <<>>)
    [] s.stage = "begin"    -> srv' = [s EXCEPT !.at = "plan"] /\ UNCHANGED inq
    [] s.stage = "item"     ->
         IF HasError(s.rows) THEN Ask([s EXCEPT !.tag = "errmsg", !.acc = <<>>], "end", End, <<>>)
         ELSE /\ srv' = [s EXCEPT !.at = "plan", !.plan = Tail(@), !.acc = Append(@, s.rows)]
              /\ UNCHANGED inq
    [] s.stage = "abort"    -> Ask(s, "end", End, <<>>)

(* port_sync: the next packet, the empty one being the end of the answer.  *)
Sync ==
  /\ srv.at = "sync" /\ HasPacket
  /\ out' = Drop
  /\ IF Packet # <<>>
     THEN /\ srv' = [srv EXCEPT !.rows = Append(@, BinaryToTerm(Packet))]
          /\ UNCHANGED <<cl, inq, lib, log>>
     ELSE IF srv.stage = "end"
     THEN /\ Reply(srv, srv.tag)
          /\ log' = Append(log, [txn |-> cl[CHOOSE c \in srv.for : TRUE].op, tag |-> srv.tag,
                                 rows |-> srv.acc, left |-> lib.left, lost |-> lib.lost])
          /\ lib' = [lib EXCEPT !.left = 0, !.lost = FALSE]
          /\ UNCHANGED inq
     ELSE Continue(srv) /\ UNCHANGED <<cl, lib, log>>
  /\ UNCHANGED <<mbox, prog, exits, db, kills>>

(* port_shutdown_flush, and the exit of the program between two requests.  *)
(* Both see the exit_status behind all that was written.                   *)
ExitStatus ==
  /\ srv.at \in {"idle", "flush"} /\ exits # <<>> /\ ~HasPacket
  /\ exits' = Tail(exits)
  /\ IF srv.at = "flush" /\ Head(exits) = 0
     THEN Reply(srv, "closed")
     ELSE srv' = [Idle EXCEPT !.at = "dead"] /\ UNCHANGED cl
  /\ UNCHANGED <<mbox, inq, prog, out, db, kills, lib, log>>

Server == Take \/ Plan \/ Sync \/ ExitStatus

-----------------------------------------------------------------------------
(* Clients: sql/2 and close/1.  close kills the server when it has its     *)
(* answer, and whoever still waits hears of it through its monitor.        *)
Call(c, op) ==
  /\ cl[c].at = "idle"
  /\ cl' = [cl EXCEPT ![c] = [at |-> "waits", op |-> op, result |-> [tag |-> "none", rows |-> <<>>]]]
  /\ mbox' = Append(mbox, c)
  /\ UNCHANGED <<srv, inq, prog, out, exits, db, kills, lib, log>>

KillServer(c) ==
  /\ cl[c].at = "got" /\ cl[c].op = Close
  /\ cl' = [cl EXCEPT ![c].at = "closed"]
  /\ srv' = [Idle EXCEPT !.at = "dead"]
  /\ UNCHANGED <<mbox, inq, prog, out, exits, db, kills, lib, log>>

Down(c) ==
  /\ srv.at = "dead" /\ cl[c].at = "waits"
  /\ cl' = [cl EXCEPT ![c].at = "down"]
  /\ UNCHANGED <<mbox, srv, inq, prog, out, exits, db, kills, lib, log>>

Init ==
  /\ cl = [c \in Clients |-> [at |-> "idle", op |-> Close, result |-> [tag |-> "none", rows |-> <<>>]]]
  /\ mbox = <<>> /\ srv = Idle /\ inq = <<>> /\ prog = Reading /\ out = <<>> /\ exits = <<>>
  /\ db = [table |-> {}, open |-> FALSE, work |-> {}]
  /\ kills = 0 /\ lib = [failures |-> 0, left |-> 0, lost |-> FALSE] /\ log = <<>>

Next ==
  \/ \E c \in Clients : \/ \E t \in Transactions \cup {Close} : Call(c, t)
                        \/ KillServer(c)
                        \/ Down(c)
  \/ Server
  \/ Program
  \/ Kill

Spec == Init /\ [][Next]_vars /\ WF_vars(Server) /\ WF_vars(Program)
             /\ \A c \in Clients : WF_vars(KillServer(c)) /\ WF_vars(Down(c))

-----------------------------------------------------------------------------
TypeOK ==
  /\ \A c \in Clients : cl[c].at \in {"idle", "waits", "got", "closed", "down"}
  /\ mbox \in Seq(Clients)
  /\ srv.at \in {"idle", "plan", "sync", "flush", "dead"}
  /\ Cardinality(srv.for) = (IF srv.at \in {"plan", "sync", "flush"} THEN 1 ELSE 0)
  /\ prog.at \in {"read", "step", "rows", "gone"}
  /\ \A i \in DOMAIN inq : inq[i] \in Seq(0..255)
  /\ out \in Seq(0..255)
  /\ Len(exits) <= 1

(* What a transaction answers and makes of the table, were it alone and    *)
(* without messages: its queries in order up to the first that fails, and  *)
(* nothing at all when a check fails.  The library failed the query before *)
(* which "left" items were left, if any.                                   *)
RowTerm(v) == [error |-> FALSE, cols |-> v]

Alone(txn, table, left) ==
  LET Start == [db |-> [table |-> table, open |-> TRUE, work |-> table], tag |-> "rows", rows |-> <<>>]
      Do(s, i) ==
        IF s.tag # "rows" THEN s
        ELSE IF txn[i].op = "check"
        THEN IF CheckFails(txn[i], s.rows)
             THEN [s EXCEPT !.tag = "abort", !.db.work = table, !.rows = <<>>] ELSE s
        ELSE LET r == Exec(txn[i].sql, txn[i].args, s.db)
             IN IF r.error \/ left = Len(txn) - i + 1 THEN [s EXCEPT !.tag = "errmsg", !.rows = <<>>]
                ELSE [s EXCEPT !.db = r.db, !.rows = Append(@, [j \in DOMAIN r.rows |-> RowTerm(r.rows[j])])]
      e == FoldLeft(Do, Start, [i \in DOMAIN txn |-> i])
  IN [table |-> e.db.work, tag |-> e.tag, rows |-> e.rows]

(* Between transactions the table is what the finished ones make of it one *)
(* after the other, and each was answered what it answers alone: through   *)
(* encoding, flattening, binding, rows, the end of answers and errors, no  *)
(* row is lost, repeated or taken for that of another query, also when the *)
(* library fails behind some of the rows.  A transaction whose effects the *)
(* library lost left none of them, and the next one finds none.  Its       *)
(* client need not know: run_transaction drops the answer to its "end      *)
(* transaction", so the rows may be of a transaction that was lost; what   *)
(* lost it is in the log.                                                  *)
AsIfAlone ==
  LET tables[i \in 0..Len(log)] ==
        IF i = 0 THEN {}
        ELSE IF log[i].lost THEN tables[i - 1]
        ELSE Alone(log[i].txn, tables[i - 1], log[i].left).table
  IN /\ srv.at = "idle" => db.table = tables[Len(log)]
     /\ \A i \in 1..Len(log) : LET a == Alone(log[i].txn, tables[i - 1], log[i].left)
                               IN log[i].tag = a.tag /\ log[i].rows = a.rows

(* An answer ends with its empty packet: nothing that the program writes   *)
(* for one query is still there when the server sends the next one or      *)
(* takes another request, and no query overtakes the one before.  And a    *)
(* close "is serialized and won't interrupt a transaction": the program is *)
(* told to end only while no transaction is open, or one whose end failed, *)
(* which nobody commits any more.                                          *)
LastLost == log # <<>> /\ log[Len(log)].lost

AnswersTakenWhole ==
  /\ srv.at \in {"idle", "plan"} => out = <<>> /\ inq = <<>> /\ prog.at \in {"read", "gone"}
  /\ Len(inq) <= 1
  /\ inq # <<>> /\ Head(inq) = <<>> => ~db.open \/ LastLost

(* Every request is answered or hears that the server is gone, unless the  *)
(* program ends while the server waits for the answer to a query: then     *)
(* port_sync waits for ever, for it takes no exit_status.                  *)
Stuck == srv.at = "sync" /\ prog.at = "gone" /\ ~HasPacket

EveryCallEnds == \A c \in Clients : cl[c].at = "waits" ~> (cl[c].at # "waits" \/ Stuck)
=============================================================================
