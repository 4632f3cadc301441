-------------------------------- MODULE Bert --------------------------------
(***************************************************************************)
(* The reader and the writer of Erlang terms in c_src/bert.c and           *)
(* include/bert.h, as functions on sequences of bytes.                     *)
(*                                                                         *)
(* The reader is a fold: it calls a constructor for every part of a term.  *)
(* A user that keeps no constructor but those of atoms and binaries, as    *)
(* sqlite3.c, sees the term as the sequence of these calls, which is what  *)
(* Decode returns.  The recursion through tuples and lists only decides    *)
(* how many objects are still to come.                                     *)
(***************************************************************************)
EXTENDS Integers, Sequences

Base == 256   \* values of a byte

BERT_START         == 131
BERT_SMALL_ATOM    == 115
BERT_ATOM          == 100
BERT_BINARY        == 109
BERT_SMALL_INTEGER == 97
BERT_INTEGER       == 98
BERT_STRING        == 107
BERT_LIST          == 108
BERT_SMALL_TUPLE   == 104
BERT_LARGE_TUPLE   == 105
BERT_NIL           == 106

-----------------------------------------------------------------------------
(* A reader: the message, how much of it is read, how many objects are     *)
(* still to be read, the constructor calls so far, and whether one of its  *)
(* errors was met.                                                         *)
Readers == [msg: Seq(0..Base-1), offset: Nat, todo: Nat,
            calls: Seq({"atom", "binary", "string"} \X Seq(0..Base-1)), ok: BOOLEAN]

Reader(msg) == [msg |-> msg, offset |-> 0, todo |-> 1, calls |-> <<>>, ok |-> TRUE]

Fail(r) == [r EXCEPT !.ok = FALSE]

(* wind: over the end of the message is an error. *)
Wind(r, n) == IF r.offset + n > Len(r.msg) THEN Fail(r) ELSE [r EXCEPT !.offset = @ + n]

Has(r, n) == r.offset + n <= Len(r.msg)

(* r_uint, which pops n bytes, most significant first. *)
UInt(r, n) ==
  LET acc[i \in 0..n] == IF i = 0 THEN 0 ELSE acc[i - 1] * Base + r.msg[r.offset + i]
  IN acc[n]

(* r_tuple and the elements of r_list: as many objects as the size says. *)
Objects(r, n, more) ==
  IF ~Has(r, n) THEN Fail(r)
  ELSE [Wind(r, n) EXCEPT !.todo = @ + UInt(r, n) + more]

(* r_slice: the constructor is called with the reader at the first byte,   *)
(* and only then is it checked that the message has all of them.           *)
Slice(r, constructor, n) ==
  IF ~Has(r, n) THEN Fail(r)
  ELSE LET size == UInt(r, n)
           at == Wind(r, n)
           end == Wind(at, size)
       IN IF end.ok
          THEN [end EXCEPT !.calls = Append(@, <<constructor, SubSeq(r.msg, at.offset + 1, end.offset)>>)]
          ELSE end

(* r_object: one object, or the head of one. *)
Object[r \in Readers] ==
  IF ~Has(r, 1) THEN Fail(r)
  ELSE LET type == r.msg[r.offset + 1]
           q == [Wind(r, 1) EXCEPT !.todo = @ - 1]
       IN CASE type = BERT_LIST          -> Objects(q, 4, 1)
            [] type = BERT_BINARY        -> Slice(q, "binary", 4)
            [] type = BERT_NIL           -> q
            [] type = BERT_SMALL_ATOM    -> Slice(q, "atom", 1)
            [] type = BERT_ATOM          -> Slice(q, "atom", 2)
            [] type = BERT_SMALL_INTEGER -> Wind(q, 1)
            [] type = BERT_INTEGER       -> Wind(q, 4)
            [] type = BERT_SMALL_TUPLE   -> Objects(q, 1, 0)
            [] type = BERT_LARGE_TUPLE   -> Objects(q, 4, 0)
            [] type = BERT_STRING        -> Slice(q, "string", 2)
            [] OTHER                     -> Fail(q)

Step[r \in Readers] == IF r.ok /\ r.todo > 0 THEN Object[r] ELSE r

(* bert_decode.  Every object takes a byte, so a message of n bytes is     *)
(* read, or has failed, after n of them.                                   *)
Decode(msg) ==
  LET start == Reader(msg)
      begun == IF Has(start, 1) /\ msg[1] = BERT_START THEN Wind(start, 1) ELSE Fail(start)
      after[n \in 0..Len(msg)] ==
        IF n = 0 THEN begun
        ELSE Step[after[n - 1]]
      end == after[Len(msg)]
  IN [ok |-> end.ok /\ end.todo = 0, calls |-> end.calls]

-----------------------------------------------------------------------------
(* w_uint *)
WUint(size, val) == [i \in 1..size |-> (val \div Base^(size - i)) % Base]

TaggedSize(tag, size_size, size) == <<tag>> \o WUint(size_size, size)

TaggedBytes(tag, size_size, bytes) == TaggedSize(tag, size_size, Len(bytes)) \o bytes

SmallTuple(nb_el) == TaggedSize(BERT_SMALL_TUPLE, 1, nb_el)
Atom(bytes)       == TaggedBytes(BERT_ATOM, 2, bytes)
Binary(bytes)     == TaggedBytes(BERT_BINARY, 4, bytes)
List(nb_el)       == TaggedSize(BERT_LIST, 4, nb_el)
Nil               == <<BERT_NIL>>

(* bert_write_packet: seq runs once to count and once to write, and writes *)
(* the same both times.  The size of the packet includes the start byte.   *)
TermSize(seq) == 1 + Len(seq)

WritePacket(size_size, seq) == WUint(size_size, TermSize(seq)) \o <<BERT_START>> \o seq
=============================================================================
