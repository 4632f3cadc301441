---------------------------- MODULE TunnelProofs ----------------------------
(***************************************************************************)
(* That a tunnel forwards what comes in, all of it and in order, and that  *)
(* the registry of the server keeps track of its connections and its       *)
(* acceptor, for any number of connections and of data.                    *)
(*                                                                         *)
(* Data on its way from one socket to the other is in four places: in the  *)
(* mailbox of the end it came in at, in the buffer of that end, in the     *)
(* mailbox of the far end, and written.  Chain says that these hold, one   *)
(* behind the other, the numbers from 1 to that of the last data that came *)
(* in, and that a message that closes a connection is behind all of them.  *)
(***************************************************************************)
EXTENDS Tunnel, SequenceTheorems, TLAPS

-----------------------------------------------------------------------------
(* The data in the messages of one kind in a mailbox; and that they are    *)
(* the numbers from lo + 1 to hi, in this order.                           *)
Nums(b, kind) == {b[i].n : i \in {j \in DOMAIN b : b[j].kind = kind}}
Rising(b, kind) ==
    \A i, j \in DOMAIN b : i < j /\ b[i].kind = kind /\ b[j].kind = kind => b[i].n < b[j].n
Run(b, kind, lo, hi) == Rising(b, kind) /\ Nums(b, kind) = lo + 1 .. hi

HasClose(b) == \E i \in DOMAIN b : b[i].kind = "close"
ClosesBehind(b) == \A i, j \in DOMAIN b : b[i].kind = "close" /\ j > i => b[j].kind # "send"

(* Behind the first p of n data: the rest, in a buffer and a mailbox.      *)
Upstream(buffer, b, p, n) ==
    \E q \in p .. n : /\ Len(buffer) = q - p /\ \A i \in 1 .. q - p : buffer[i] = q + 1 - i
                      /\ Run(b, "tcp", q, n)

(* What an end has written, of n data that came in at the far end, and     *)
(* what is on its way to it.  It is gone, or live and has the mailbox mine;*)
(* the far end is live, with a buffer and a mailbox, or done: no more data *)
(* can come in there.                                                      *)
ChainOf(live, told, written, mine, n, farLive, farDone, buffer, theirs) ==
    /\ Len(written) <= n /\ \A i \in DOMAIN written : written[i] = i
    /\ told => Len(written) = n /\ farDone
    /\ live => /\ HasClose(mine) => farDone
               /\ ClosesBehind(mine)
               /\ \E p \in Len(written) .. n :
                     /\ Run(mine, "send", Len(written), p)
                     /\ HasClose(mine) => p = n
                     /\ farLive => Upstream(buffer, theirs, p, n)

Live(s, c) == st[s][c] \notin Gone
Done(s, c) == st[s][c] \in Gone \/ (s = "local" /\ st[s][c] = "none" /\ lst[c] = "ended")

Chain(s, t, c) ==
    ChainOf(Live(t, c), st[t][c] = "told", wrote[t][c], box[t][c],
            sent[s][c], Live(s, c), Done(s, c), buf[s][c], box[s][c])

(* A peer that has hung up sends nothing any more.                         *)
HangupOf(b, isOpen) ==
    \A i \in DOMAIN b : b[i].kind = "tcp_closed" =>
        ~isOpen /\ \A j \in DOMAIN b : j > i => b[j].kind # "tcp"

Fresh(s, c) == st[s][c] \in {"none", "accept"} =>
    sent[s][c] = 0 /\ box[s][c] = <<>> /\ buf[s][c] = <<>> /\ wrote[s][c] = <<>>

(* The parts of a connection start one after the other, and the tunnel end *)
(* knows of the local end only when that has started.                      *)
Stage(c) ==
    /\ st["tunnel"][c] # "accept"
    /\ lst[c] # "none" => st["tunnel"][c] \in {"run"} \cup Gone
    /\ lst[c] \in {"none", "listen", "setting", "set"} => st["local"][c] = "none"
    /\ other["local"][c] = "connected"

Knows(c) ==
    /\ other["tunnel"][c] = "connected" => st["local"][c] \in Begun \cup Gone
    /\ \A i \in DOMAIN box["tunnel"][c] : box["tunnel"][c][i].kind = "set_connected" =>
          st["local"][c] \in Begun \cup Gone

Sides(c) == \A s \in Side :
    /\ HangupOf(box[s][c], open[s][c]) /\ Fresh(s, c)
    /\ other[s][c] = "connected" => buf[s][c] = <<>>

ConnInv(c) == Stage(c) /\ Knows(c) /\ Sides(c) /\ \A s \in Side : Chain(s, Far(s), c)

DataInv == TypeOK /\ \A c \in Conn : ConnInv(c)

-----------------------------------------------------------------------------
Registers(m, c) == m.kind = "register_connect" /\ m.conn = c
Exits(m, c) == m.kind = "EXIT" /\ m.side = "tunnel" /\ m.conn = c

(* A connection is registered once, by a message or already; its exit is   *)
(* behind that message, and there if and only if it is over.  For a mailbox*)
(* q, the registered connections P, and where the tunnel end is.           *)
TrackedOf(q, P, where, c) ==
    /\ \A i, j \in DOMAIN q : Registers(q[i], c) /\ Registers(q[j], c) => i = j
    /\ c \in P => \A i \in DOMAIN q : ~Registers(q[i], c)
    /\ where = "none" => c \notin P /\ \A i \in DOMAIN q : ~Registers(q[i], c) /\ ~Exits(q[i], c)
    /\ where \in Begun => /\ \A i \in DOMAIN q : ~Exits(q[i], c)
                          /\ c \in P \/ \E i \in DOMAIN q : Registers(q[i], c)
    /\ \A i \in DOMAIN q : Exits(q[i], c) => q[i] = Exit("tunnel", c, where)
    /\ where \in Gone =>
          /\ c \in P => \E j \in DOMAIN q : Exits(q[j], c)
          /\ \A i \in DOMAIN q : Registers(q[i], c) => \E j \in DOMAIN q : j > i /\ Exits(q[j], c)

(* An acceptor, or one message that starts one, or a failure on its way.   *)
Starts(m) == m.kind = "spawn_acceptor"
Failing(m) == m.kind = "shutdown" \/ (m.kind = "EXIT" /\ m.side = "acceptor")
AcceptorOf(q, n) ==
    /\ n <= 1 /\ (n = 1 => \A i \in DOMAIN q : ~Starts(q[i]))
    /\ \A i, j \in DOMAIN q : Starts(q[i]) /\ Starts(q[j]) => i = j
    /\ n = 0 => \E i \in DOMAIN q : Starts(q[i]) \/ Failing(q[i])

RegistryInv ==
    /\ TypeOK
    /\ \A c \in Conn : st["tunnel"][c] # "accept"
    /\ up => (\A c \in Conn : TrackedOf(rbox, pids, st["tunnel"][c], c)) /\ AcceptorOf(rbox, acceptors)
    /\ ~up => acceptors = 0

-----------------------------------------------------------------------------
(* Mailboxes: what is appended, and what is taken.                         *)
LEMMA Concat ==
  ASSUME NEW S, NEW b \in Seq(S), NEW f \in Seq(S)
  PROVE  /\ b \o f \in Seq(S)
         /\ DOMAIN b = 1 .. Len(b) /\ DOMAIN f = 1 .. Len(f) /\ Len(b) \in Nat /\ Len(f) \in Nat
         /\ DOMAIN (b \o f) = 1 .. Len(b) + Len(f)
         /\ \A i \in DOMAIN b : i \in DOMAIN (b \o f) /\ (b \o f)[i] = b[i]
         /\ \A i \in DOMAIN f : Len(b) + i \in DOMAIN (b \o f) /\ (b \o f)[Len(b) + i] = f[i]
         /\ \A i \in DOMAIN (b \o f) : i \in DOMAIN b \/ (i - Len(b) \in DOMAIN f /\ i = Len(b) + (i - Len(b)))
<1>1. b \o f \in Seq(S) /\ Len(b \o f) = Len(b) + Len(f)
  BY ConcatProperties
<1>2. DOMAIN b = 1 .. Len(b) /\ DOMAIN f = 1 .. Len(f) /\ Len(b) \in Nat /\ Len(f) \in Nat
  BY LenProperties
<1>3. DOMAIN (b \o f) = 1 .. Len(b) + Len(f)
  BY <1>1, LenProperties
<1>4. \A i \in 1 .. Len(b) + Len(f) : (b \o f)[i] = IF i <= Len(b) THEN b[i] ELSE f[i - Len(b)]
  BY ConcatProperties
<1>5. \A i \in DOMAIN f : Len(b) + i \in DOMAIN (b \o f) /\ (b \o f)[Len(b) + i] = f[i]
  BY <1>2, <1>3, <1>4
<1> QED
  BY <1>1, <1>2, <1>3, <1>4, <1>5

LEMMA TailIs ==
  ASSUME NEW S, NEW b \in Seq(S), b # <<>>
  PROVE  /\ Tail(b) \in Seq(S) /\ Head(b) = b[1] /\ Head(b) \in S /\ 1 \in DOMAIN b
         /\ \A i \in DOMAIN Tail(b) : i \in Nat \ {0} /\ i + 1 \in DOMAIN b /\ Tail(b)[i] = b[i + 1]
         /\ \A i \in DOMAIN b : i = 1 \/ (i - 1 \in DOMAIN Tail(b) /\ Tail(b)[i - 1] = b[i] /\ i > 1)
<1>1. Tail(b) \in Seq(S) /\ Len(Tail(b)) = Len(b) - 1 /\ Head(b) \in S
  BY HeadTailProperties
<1>2. Len(b) \in Nat \ {0} /\ DOMAIN b = 1 .. Len(b) /\ DOMAIN Tail(b) = 1 .. Len(b) - 1
  BY <1>1, EmptySeq, LenProperties
<1>3. \A i \in 1 .. Len(b) - 1 : Tail(b)[i] = b[i + 1]
  BY <1>1, HeadTailProperties
<1>4. \A i \in DOMAIN b : i = 1 \/ (i - 1 \in DOMAIN Tail(b) /\ Tail(b)[i - 1] = b[i] /\ i > 1)
  BY <1>2, <1>3
<1> QED
  BY <1>1, <1>2, <1>3, <1>4

LEMMA RunKeep ==
  ASSUME NEW S, NEW b \in Seq(S), NEW f \in Seq(S), NEW kind, NEW lo, NEW hi,
         \A i \in DOMAIN f : f[i].kind # kind, Run(b, kind, lo, hi)
  PROVE  Run(b \o f, kind, lo, hi)
<1> DEFINE g == b \o f
<1>1. /\ DOMAIN b \subseteq DOMAIN g /\ \A i \in DOMAIN b : g[i] = b[i]
      /\ \A i \in DOMAIN g : g[i].kind = kind => i \in DOMAIN b
  BY Concat
<1> HIDE DEF g
<1>2. Nums(g, kind) = Nums(b, kind)
  BY <1>1 DEF Nums
<1>3. Rising(g, kind)
  BY <1>1 DEF Rising, Run
<1> QED
  BY <1>2, <1>3 DEF Run, g

LEMMA RunAdd ==
  ASSUME NEW S, NEW b \in Seq(S), NEW f \in Seq(S), NEW kind, NEW lo \in Nat, NEW hi \in Nat, lo <= hi,
         \A i \in DOMAIN f : f[i].kind = kind /\ f[i].n = hi + i, Run(b, kind, lo, hi)
  PROVE  Run(b \o f, kind, lo, hi + Len(f))
<1> DEFINE g == b \o f
           lb == Len(b)
           lf == Len(f)
<1>1. /\ DOMAIN b = 1 .. lb /\ DOMAIN f = 1 .. lf /\ DOMAIN g = 1 .. lb + lf
      /\ lb \in Nat /\ lf \in Nat
      /\ \A i \in DOMAIN b : g[i] = b[i]
      /\ \A i \in DOMAIN f : g[lb + i] = f[i]
  BY Concat
<1> HIDE DEF g, lb, lf
<1>2. \A i \in DOMAIN b : b[i].kind = kind => b[i].n \in lo + 1 .. hi
  BY DEF Run, Nums
<1>3. \A i \in DOMAIN g : i > lb => g[i].kind = kind /\ g[i].n = hi + (i - lb)
  <2>1. \A i \in DOMAIN g : i > lb => i - lb \in DOMAIN f /\ i = lb + (i - lb)
    BY <1>1
  <2> QED
    BY <1>1, <2>1
<1>4. \A i \in DOMAIN g : ~(i > lb) => i \in DOMAIN b /\ g[i] = b[i]
  BY <1>1
<1>5. Rising(g, kind)
  <2> SUFFICES ASSUME NEW i \in DOMAIN g, NEW j \in DOMAIN g, i < j,
                      g[i].kind = kind, g[j].kind = kind
               PROVE  g[i].n < g[j].n
    BY DEF Rising
  <2>1. CASE j > lb /\ i > lb
    BY <1>1, <1>3, <2>1
  <2>2. CASE j > lb /\ ~(i > lb)
    <3>1. g[i].n \in lo + 1 .. hi
      BY <1>2, <1>4, <2>2
    <3>2. g[j].n = hi + (j - lb)
      BY <1>3, <2>2
    <3> QED
      BY <1>1, <2>2, <3>1, <3>2
  <2>3. CASE ~(j > lb)
    BY <1>1, <1>4, <2>3 DEF Run, Rising
  <2> QED
    BY <2>1, <2>2, <2>3
<1>6. Nums(g, kind) = lo + 1 .. hi + lf
  <2>1. ASSUME NEW i \in DOMAIN g, g[i].kind = kind
        PROVE  g[i].n \in lo + 1 .. hi + lf
    BY <1>1, <1>2, <1>3, <1>4, <2>1
  <2>2. ASSUME NEW k \in lo + 1 .. hi + lf
        PROVE  \E i \in DOMAIN g : g[i].kind = kind /\ g[i].n = k
    <3>1. CASE k <= hi
      <4>0. k \in lo + 1 .. hi
        BY <3>1
      <4>1. PICK i \in DOMAIN b : b[i].kind = kind /\ b[i].n = k
        BY <4>0 DEF Run, Nums
      <4> QED
        BY <1>1, <4>1
    <3>2. CASE k > hi
      <4>1. k - hi \in DOMAIN f /\ lb + (k - hi) \in DOMAIN g
        BY <1>1, <3>2
      <4>2. hi + (k - hi) = k
        OBVIOUS
      <4>3. g[lb + (k - hi)].kind = kind /\ g[lb + (k - hi)].n = k
        BY <1>1, <4>1, <4>2
      <4> QED
        BY <4>1, <4>3
    <3> QED
      BY <3>1, <3>2
  <2> QED
    BY <2>1, <2>2 DEF Nums
<1> QED
  BY <1>5, <1>6 DEF Run, g, lf

LEMMA RunSkip ==
  ASSUME NEW S, NEW b \in Seq(S), b # <<>>, NEW kind, NEW lo, NEW hi,
         Head(b).kind # kind, Run(b, kind, lo, hi)
  PROVE  Run(Tail(b), kind, lo, hi)
<1> DEFINE g == Tail(b)
<1>1. /\ Head(b) = b[1] /\ 1 \in DOMAIN b
      /\ \A i \in DOMAIN g : i \in Nat \ {0} /\ i + 1 \in DOMAIN b /\ g[i] = b[i + 1]
      /\ \A i \in DOMAIN b : i = 1 \/ (i - 1 \in DOMAIN g /\ g[i - 1] = b[i])
  BY TailIs
<1> HIDE DEF g
<1>2. Rising(g, kind)
  BY <1>1 DEF Run, Rising
<1>3. Nums(g, kind) = Nums(b, kind)
  <2>1. ASSUME NEW i \in DOMAIN b, b[i].kind = kind
        PROVE  \E j \in DOMAIN g : g[j].kind = kind /\ g[j].n = b[i].n
    BY <1>1, <2>1
  <2> QED
    BY <1>1, <2>1 DEF Nums
<1> QED
  BY <1>2, <1>3 DEF Run, g

LEMMA RunTake ==
  ASSUME NEW S, NEW b \in Seq(S), b # <<>>, NEW kind, NEW lo \in Nat, NEW hi \in Nat,
         Head(b).kind = kind, Run(b, kind, lo, hi)
  PROVE  Head(b).n = lo + 1 /\ lo + 1 <= hi /\ Run(Tail(b), kind, lo + 1, hi)
<1> DEFINE g == Tail(b)
<1>1. /\ Head(b) = b[1] /\ 1 \in DOMAIN b
      /\ \A i \in DOMAIN g : i \in Nat \ {0} /\ i + 1 \in DOMAIN b /\ g[i] = b[i + 1]
      /\ \A i \in DOMAIN b : i = 1 \/ (i - 1 \in DOMAIN g /\ g[i - 1] = b[i] /\ i > 1)
  BY TailIs
<1> HIDE DEF g
<1>2. b[1].n \in lo + 1 .. hi
  BY <1>1 DEF Run, Nums
<1>3. \A i \in DOMAIN b : b[i].kind = kind => i = 1 \/ b[1].n < b[i].n
  BY <1>1 DEF Run, Rising
<1>4. b[1].n = lo + 1
  <2>1. lo + 1 \in lo + 1 .. hi
    BY <1>2
  <2>2. PICK i \in DOMAIN b : b[i].kind = kind /\ b[i].n = lo + 1
    BY <2>1 DEF Run, Nums
  <2> QED
    BY <1>2, <1>3, <2>2
<1>5. Rising(g, kind)
  BY <1>1 DEF Run, Rising
<1>6. Nums(g, kind) = lo + 2 .. hi
  <2>1. ASSUME NEW i \in DOMAIN g, g[i].kind = kind
        PROVE  g[i].n \in lo + 2 .. hi
    <3>1. i + 1 \in DOMAIN b /\ g[i] = b[i + 1] /\ i + 1 # 1
      BY <1>1
    <3>2. b[i + 1].n \in lo + 1 .. hi
      BY <2>1, <3>1 DEF Run, Nums
    <3> QED
      BY <1>3, <1>4, <2>1, <3>1, <3>2
  <2>2. ASSUME NEW k \in lo + 2 .. hi
        PROVE  \E j \in DOMAIN g : g[j].kind = kind /\ g[j].n = k
    <3>1. k \in lo + 1 .. hi /\ k # lo + 1
      OBVIOUS
    <3>2. PICK i \in DOMAIN b : b[i].kind = kind /\ b[i].n = k
      BY <3>1 DEF Run, Nums
    <3>3. i # 1
      BY <1>4, <3>1, <3>2
    <3> QED
      BY <1>1, <3>2, <3>3
  <2> QED
    BY <2>1, <2>2 DEF Nums
<1>7. lo + 1 + 1 = lo + 2
  OBVIOUS
<1> QED
  BY <1>1, <1>2, <1>4, <1>5, <1>6, <1>7 DEF Run, g

(* No message of a kind in a mailbox: the numbers end where they begin.    *)
LEMMA RunEmpty ==
  ASSUME NEW b, NEW kind, NEW lo \in Nat, NEW hi \in Nat, lo <= hi,
         Run(b, kind, lo, hi), \A i \in DOMAIN b : b[i].kind # kind
  PROVE  lo = hi
<1>1. ~(hi \in lo + 1 .. hi)
  BY DEF Run, Nums
<1> QED
  BY <1>1

-----------------------------------------------------------------------------
(* What each way of changing a mailbox, a buffer or a state does to a chain.*)
LEMMA ChainWeakens ==
  ASSUME NEW w, NEW mine, NEW n, NEW buffer, NEW theirs,
         NEW live \in BOOLEAN, NEW told \in BOOLEAN, NEW farLive \in BOOLEAN, NEW farDone \in BOOLEAN,
         NEW live1 \in BOOLEAN, NEW told1 \in BOOLEAN, NEW farLive1 \in BOOLEAN, NEW farDone1 \in BOOLEAN,
         live1 => live, told1 => told, farLive1 => farLive, farDone => farDone1,
         ChainOf(live, told, w, mine, n, farLive, farDone, buffer, theirs)
  PROVE  ChainOf(live1, told1, w, mine, n, farLive1, farDone1, buffer, theirs)
  BY DEF ChainOf

LEMMA ChainDead ==
  ASSUME NEW w, NEW mine, NEW n, NEW buffer, NEW theirs,
         NEW told, NEW farLive, NEW farDone,
         ChainOf(FALSE, told, w, mine, n, farLive, farDone, buffer, theirs),
         NEW mine1, NEW buffer1, NEW theirs1, NEW farLive1
  PROVE  ChainOf(FALSE, told, w, mine1, n, farLive1, farDone, buffer1, theirs1)
  BY DEF ChainOf

LEMMA ChainFarDead ==
  ASSUME NEW w, NEW mine, NEW n, NEW buffer, NEW theirs,
         NEW live, NEW told, NEW farDone,
         ChainOf(live, told, w, mine, n, FALSE, farDone, buffer, theirs),
         NEW buffer1, NEW theirs1
  PROVE  ChainOf(live, told, w, mine, n, FALSE, farDone, buffer1, theirs1)
  BY DEF ChainOf

(* A message of another kind comes or goes.                                *)
LEMMA ChainOther ==
  ASSUME NEW w, NEW mine \in Seq(EndMessage), NEW n, NEW buffer, NEW theirs \in Seq(EndMessage),
         NEW live, NEW told, NEW farLive, NEW farDone,
         ChainOf(live, told, w, mine, n, farLive, farDone, buffer, theirs),
         NEW m \in EndMessage
  PROVE  /\ m.kind \notin {"send", "close"} =>
               ChainOf(live, told, w, mine \o <<m>>, n, farLive, farDone, buffer, theirs)
         /\ m.kind # "tcp" =>
               ChainOf(live, told, w, mine, n, farLive, farDone, buffer, theirs \o <<m>>)
<1>1. <<m>> \in Seq(EndMessage) /\ \A i \in DOMAIN <<m>> : <<m>>[i] = m
  OBVIOUS
<1>2. ASSUME m.kind \notin {"send", "close"}
      PROVE  ChainOf(live, told, w, mine \o <<m>>, n, farLive, farDone, buffer, theirs)
  <2> DEFINE g == mine \o <<m>>
  <2>1. \A p : Run(mine, "send", Len(w), p) => Run(g, "send", Len(w), p)
    BY <1>1, <1>2, RunKeep
  <2>2. \A i \in DOMAIN g : g[i] = m \/ (i \in DOMAIN mine /\ g[i] = mine[i])
    BY <1>1, Concat
  <2> HIDE DEF g
  <2>3. HasClose(g) => HasClose(mine)
    BY <1>2, <2>2 DEF HasClose
  <2>4. ClosesBehind(mine) => ClosesBehind(g)
    BY <1>2, <2>2 DEF ClosesBehind
  <2> QED
    BY <2>1, <2>3, <2>4 DEF ChainOf, g
<1>3. ASSUME m.kind # "tcp"
      PROVE  ChainOf(live, told, w, mine, n, farLive, farDone, buffer, theirs \o <<m>>)
  <2>1. \A q : Run(theirs, "tcp", q, n) => Run(theirs \o <<m>>, "tcp", q, n)
    BY <1>1, <1>3, RunKeep
  <2>2. \A p : Upstream(buffer, theirs, p, n) => Upstream(buffer, theirs \o <<m>>, p, n)
    BY <2>1 DEF Upstream
  <2> QED
    BY <2>2 DEF ChainOf
<1> QED
  BY <1>2, <1>3

LEMMA TakeOther ==
  ASSUME NEW b \in Seq(EndMessage), b # <<>>
  PROVE  /\ HasClose(Tail(b)) => HasClose(b)
         /\ ClosesBehind(b) => ClosesBehind(Tail(b))
<1> DEFINE g == Tail(b)
<1>1. \A i \in DOMAIN g : i \in Nat \ {0} /\ i + 1 \in DOMAIN b /\ g[i] = b[i + 1]
  BY TailIs
<1> HIDE DEF g
<1>2. HasClose(g) => HasClose(b)
  BY <1>1 DEF HasClose
<1>3. ClosesBehind(b) => ClosesBehind(g)
  <2>1. \A i, j \in DOMAIN g : j > i => j + 1 > i + 1
    BY <1>1
  <2> QED
    BY <1>1, <2>1 DEF ClosesBehind
<1> QED
  BY <1>2, <1>3 DEF g

LEMMA ChainSkip ==
  ASSUME NEW w, NEW mine \in Seq(EndMessage), NEW n, NEW buffer, NEW theirs \in Seq(EndMessage),
         NEW live, NEW told, NEW farLive, NEW farDone,
         ChainOf(live, told, w, mine, n, farLive, farDone, buffer, theirs)
  PROVE  /\ mine # <<>> /\ Head(mine).kind # "send" =>
               ChainOf(live, told, w, Tail(mine), n, farLive, farDone, buffer, theirs)
         /\ theirs # <<>> /\ Head(theirs).kind # "tcp" =>
               ChainOf(live, told, w, mine, n, farLive, farDone, buffer, Tail(theirs))
<1>1. ASSUME mine # <<>>, Head(mine).kind # "send"
      PROVE  ChainOf(live, told, w, Tail(mine), n, farLive, farDone, buffer, theirs)
  <2>1. \A p : Run(mine, "send", Len(w), p) => Run(Tail(mine), "send", Len(w), p)
    BY <1>1, RunSkip
  <2> QED
    BY <1>1, <2>1, TakeOther DEF ChainOf
<1>2. ASSUME theirs # <<>>, Head(theirs).kind # "tcp"
      PROVE  ChainOf(live, told, w, mine, n, farLive, farDone, buffer, Tail(theirs))
  <2>1. \A q : Run(theirs, "tcp", q, n) => Run(Tail(theirs), "tcp", q, n)
    BY <1>2, RunSkip
  <2>2. \A p : Upstream(buffer, theirs, p, n) => Upstream(buffer, Tail(theirs), p, n)
    BY <2>1 DEF Upstream
  <2> QED
    BY <2>2 DEF ChainOf
<1> QED
  BY <1>1, <1>2

(* Data comes in.                                                          *)
LEMMA ChainArrives ==
  ASSUME NEW w \in Seq(Nat), NEW mine, NEW n \in Nat, NEW buffer, NEW theirs \in Seq(EndMessage),
         NEW live, NEW told, NEW farLive, n + 1 <= MaxData,
         ChainOf(live, told, w, mine, n, farLive, FALSE, buffer, theirs)
  PROVE  ChainOf(live, told, w, mine, n + 1, farLive, FALSE, buffer, theirs \o <<Data(n + 1)>>)
<1> DEFINE f == <<Data(n + 1)>>
<1>1. /\ f \in Seq(EndMessage) /\ Len(f) = 1
      /\ \A i \in DOMAIN f : i = 1 /\ f[i].kind = "tcp" /\ f[i].n = n + i
  BY TunnelAssumption DEF Data, EndMessage
<1> HIDE DEF f
<1>2. \A q \in 0 .. n : Run(theirs, "tcp", q, n) => Run(theirs \o f, "tcp", q, n + 1)
  <2> SUFFICES ASSUME NEW q \in 0 .. n, Run(theirs, "tcp", q, n)
               PROVE  Run(theirs \o f, "tcp", q, n + 1)
    OBVIOUS
  <2>1. q \in Nat /\ q <= n
    OBVIOUS
  <2>2. Run(theirs \o f, "tcp", q, n + Len(f))
    BY <1>1, <2>1, RunAdd
  <2>3. n + Len(f) = n + 1
    BY <1>1
  <2> QED
    BY <2>2, <2>3
<1>3. \A p \in 0 .. n : Upstream(buffer, theirs, p, n) => Upstream(buffer, theirs \o f, p, n + 1)
  BY <1>2 DEF Upstream
<1>4. Len(w) \in Nat
  BY LenProperties
<1> QED
  BY <1>3, <1>4 DEF ChainOf, f

(* It is put into the buffer.                                              *)
LEMMA ChainBuffers ==
  ASSUME NEW w \in Seq(Nat), NEW mine, NEW n \in Nat, NEW buffer \in Seq(1 .. MaxData),
         NEW theirs \in Seq(EndMessage), theirs # <<>>, Head(theirs).kind = "tcp",
         NEW live, NEW told, NEW farDone,
         ChainOf(live, told, w, mine, n, TRUE, farDone, buffer, theirs)
  PROVE  ChainOf(live, told, w, mine, n, TRUE, farDone, <<Head(theirs).n>> \o buffer, Tail(theirs))
<1> DEFINE x == Head(theirs).n
           b == <<x>> \o buffer
<1>1. Head(theirs) \in EndMessage
  BY TailIs
<1>2. x \in 1 .. MaxData /\ <<x>> \in Seq(1 .. MaxData) /\ Len(<<x>>) = 1
  BY <1>1 DEF EndMessage
<1>3. Len(b) = 1 + Len(buffer)
  BY <1>2, ConcatProperties
<1>4. \A i \in 1 .. 1 + Len(buffer) : b[i] = IF i <= 1 THEN x ELSE buffer[i - 1]
  BY <1>2, ConcatProperties
<1> HIDE DEF x, b
<1>5. ASSUME NEW p \in Nat, Upstream(buffer, theirs, p, n)
      PROVE  Upstream(b, Tail(theirs), p, n)
  <2>1. PICK q \in p .. n : /\ Len(buffer) = q - p /\ \A i \in 1 .. q - p : buffer[i] = q + 1 - i
                            /\ Run(theirs, "tcp", q, n)
    BY <1>5 DEF Upstream
  <2>2. x = q + 1 /\ q + 1 <= n /\ Run(Tail(theirs), "tcp", q + 1, n)
    BY <2>1, RunTake DEF x
  <2>3. Len(b) = q + 1 - p
    BY <1>3, <2>1
  <2>4. ASSUME NEW i \in 1 .. q + 1 - p
        PROVE  b[i] = q + 1 + 1 - i
    <3>1. i \in 1 .. 1 + Len(buffer) /\ q \in Int /\ p \in Int
      BY <2>1
    <3>2. b[i] = IF i <= 1 THEN x ELSE buffer[i - 1]
      BY <1>4, <3>1
    <3>3. CASE i <= 1
      BY <2>2, <3>1, <3>2, <3>3
    <3>4. CASE ~(i <= 1)
      <4>1. i - 1 \in 1 .. q - p
        BY <3>1, <3>4
      <4>2. buffer[i - 1] = q + 1 - (i - 1)
        BY <2>1, <4>1
      <4> QED
        BY <3>1, <3>2, <3>4, <4>2
    <3> QED
      BY <3>3, <3>4
  <2>5. q + 1 \in p .. n
    BY <2>1, <2>2
  <2> QED
    BY <2>2, <2>3, <2>4, <2>5 DEF Upstream
<1>6. Len(w) \in Nat
  BY LenProperties
<1> QED
  BY <1>5, <1>6, SMTT(30) DEF ChainOf, b, x

(* The buffer is passed on, all of it.                                     *)
LEMMA FlushedIs ==
  ASSUME NEW b \in Seq(1 .. MaxData)
  PROVE  /\ Flushed(b) \in Seq(EndMessage) /\ Len(Flushed(b)) = Len(b)
         /\ DOMAIN Flushed(b) = 1 .. Len(b)
         /\ \A i \in 1 .. Len(b) : Flushed(b)[i] = Send(b[Len(b) - i + 1])
<1>1. Len(b) \in Nat /\ DOMAIN b = 1 .. Len(b) /\ \A i \in 1 .. Len(b) : b[i] \in 1 .. MaxData
  BY LenProperties, ElementOfSeq
<1>2. \A i \in 1 .. Len(b) : Len(b) - i + 1 \in 1 .. Len(b)
  BY <1>1
<1>3. Flushed(b) = [i \in 1 .. Len(b) |-> Send(b[Len(b) - i + 1])]
  BY <1>1, <1>2 DEF Flushed, Reverse
<1>4. \A i \in 1 .. Len(b) : Send(b[Len(b) - i + 1]) \in EndMessage
  BY <1>1, <1>2 DEF Send, EndMessage
<1> QED
  BY <1>1, <1>3, <1>4

LEMMA ChainFlushes ==
  ASSUME NEW w \in Seq(Nat), NEW mine \in Seq(EndMessage), NEW n \in Nat, NEW buffer \in Seq(1 .. MaxData),
         NEW theirs, NEW live, NEW told,
         ChainOf(live, told, w, mine, n, TRUE, FALSE, buffer, theirs)
  PROVE  ChainOf(live, told, w, mine \o Flushed(buffer), n, TRUE, FALSE, <<>>, theirs)
<1> DEFINE f == Flushed(buffer)
           g == mine \o f
<1>1. /\ f \in Seq(EndMessage) /\ Len(f) = Len(buffer) /\ DOMAIN f = 1 .. Len(buffer)
      /\ \A i \in 1 .. Len(buffer) : f[i] = Send(buffer[Len(buffer) - i + 1])
  BY FlushedIs
<1>2. Len(w) \in Nat /\ Len(buffer) \in Nat
  BY LenProperties
<1>3. ASSUME NEW p \in Len(w) .. n, Run(mine, "send", Len(w), p), Upstream(buffer, theirs, p, n)
      PROVE  \E q \in Len(w) .. n : Run(g, "send", Len(w), q) /\ Upstream(<<>>, theirs, q, n)
  <2>1. PICK q \in p .. n : /\ Len(buffer) = q - p /\ \A i \in 1 .. q - p : buffer[i] = q + 1 - i
                            /\ Run(theirs, "tcp", q, n)
    BY <1>3 DEF Upstream
  <2>2. \A i \in DOMAIN f : f[i].kind = "send" /\ f[i].n = p + i
    <3>1. \A i \in 1 .. q - p : (q - p) - i + 1 \in 1 .. q - p /\ q + 1 - ((q - p) - i + 1) = p + i
      BY <1>2, <2>1
    <3>2. \A i \in 1 .. q - p : f[i] = Send(buffer[(q - p) - i + 1])
      BY <1>1, <2>1
    <3>3. \A i \in 1 .. q - p : f[i] = Send(p + i)
      BY <2>1, <3>1, <3>2
    <3>4. \A i \in 1 .. q - p : f[i].kind = "send" /\ f[i].n = p + i
      <4>1. \A k : Send(k).kind = "send" /\ Send(k).n = k
        BY DEF Send
      <4> QED
        BY <3>3, <4>1
    <3>5. DOMAIN f = 1 .. q - p
      BY <1>1, <2>1
    <3> QED
      BY <3>4, <3>5
  <2>3. Run(g, "send", Len(w), p + Len(f))
    <3>1. p \in Nat /\ Len(w) <= p
      BY <1>2
    <3> QED
      BY <1>1, <1>2, <1>3, <2>2, <3>1, RunAdd
  <2>4. p + Len(f) = q
    BY <1>1, <1>2, <2>1
  <2>5. Upstream(<<>>, theirs, q, n)
    BY <1>2, <2>1 DEF Upstream
  <2> QED
    BY <1>2, <2>1, <2>3, <2>4, <2>5
<1>4. \A i \in DOMAIN g : (i \in DOMAIN mine /\ g[i] = mine[i]) \/ g[i].kind = "send"
  BY <1>1, Concat DEF Send
<1> HIDE DEF f, g
<1>5. HasClose(g) => HasClose(mine)
  BY <1>4 DEF HasClose
<1>6. live => ~HasClose(mine)
  BY DEF ChainOf
<1>7. ~HasClose(g) => ClosesBehind(g)
  BY DEF HasClose, ClosesBehind
<1> QED
  BY <1>3, <1>5, <1>6, <1>7 DEF ChainOf, f, g

(* The next data is written.                                               *)
LEMMA ChainWrites ==
  ASSUME NEW w \in Seq(Nat), NEW mine \in Seq(EndMessage), NEW n \in Nat, NEW buffer, NEW theirs,
         NEW farLive, NEW farDone, mine # <<>>, Head(mine).kind = "send",
         ChainOf(TRUE, FALSE, w, mine, n, farLive, farDone, buffer, theirs)
  PROVE  ChainOf(TRUE, FALSE, Append(w, Head(mine).n), Tail(mine), n, farLive, farDone, buffer, theirs)
<1> DEFINE x == Head(mine).n
           v == Append(w, x)
<1>1. PICK p \in Len(w) .. n : /\ Run(mine, "send", Len(w), p)
                               /\ HasClose(mine) => p = n
                               /\ farLive => Upstream(buffer, theirs, p, n)
  BY DEF ChainOf
<1>2. Len(w) \in Nat /\ DOMAIN w = 1 .. Len(w)
  BY LenProperties
<1>3. p \in Nat
  BY <1>1, <1>2
<1>4. x = Len(w) + 1 /\ Len(w) + 1 <= p /\ Run(Tail(mine), "send", Len(w) + 1, p)
  BY <1>1, <1>2, <1>3, RunTake
<1>5. x \in Nat
  BY <1>2, <1>4
<1>6. Len(v) = Len(w) + 1 /\ DOMAIN v = 1 .. Len(w) + 1
  BY <1>5, AppendProperties, LenProperties
<1>7. \A i \in 1 .. Len(w) : v[i] = w[i]
  BY <1>5, AppendProperties
<1>8. v[Len(w) + 1] = x
  BY <1>5, AppendProperties
<1> HIDE DEF x, v
<1>9. Len(v) <= n
  BY <1>1, <1>2, <1>3, <1>4, <1>6
<1>10. \A i \in DOMAIN v : v[i] = i
  <2> SUFFICES ASSUME NEW i \in 1 .. Len(w) + 1 PROVE v[i] = i
    BY <1>6
  <2>1. CASE i \in 1 .. Len(w)
    BY <1>2, <1>7, <2>1 DEF ChainOf
  <2>2. CASE i = Len(w) + 1
    BY <1>4, <1>8, <2>2
  <2> QED
    BY <1>2, <2>1, <2>2
<1>11. p \in Len(v) .. n /\ Run(Tail(mine), "send", Len(v), p)
  BY <1>1, <1>2, <1>3, <1>4, <1>6
<1>12. (HasClose(Tail(mine)) => HasClose(mine)) /\ (ClosesBehind(mine) => ClosesBehind(Tail(mine)))
  BY TakeOther
<1> QED
  BY <1>1, <1>9, <1>10, <1>11, <1>12 DEF ChainOf, v, x

(* The far end says that it is over: nothing is upstream.                  *)
LEMMA ChainHangsUp ==
  ASSUME NEW w \in Seq(Nat), NEW mine \in Seq(EndMessage), NEW n \in Nat,
         NEW theirs \in Seq(EndMessage), \A i \in DOMAIN theirs : theirs[i].kind # "tcp",
         NEW live, NEW told, NEW farDone,
         ChainOf(live, told, w, mine, n, TRUE, farDone, <<>>, theirs)
  PROVE  ChainOf(live, told, w, mine \o <<Msg("close")>>, n, FALSE, TRUE, <<>>, theirs)
<1> DEFINE f == <<Msg("close")>>
           g == mine \o f
<1>1. /\ f \in Seq(EndMessage) /\ Len(f) = 1 /\ DOMAIN f = {1}
      /\ \A i \in DOMAIN f : f[i].kind = "close"
  BY DEF Msg, EndMessage
<1> HIDE DEF f
<1>2. Len(w) \in Nat
  BY LenProperties
<1>3. /\ DOMAIN mine = 1 .. Len(mine) /\ Len(mine) \in Nat
      /\ \A i \in DOMAIN mine : g[i] = mine[i]
      /\ DOMAIN g = 1 .. Len(mine) + 1
      /\ g[Len(mine) + 1] = f[1]
  <2>1. 1 \in DOMAIN f
    BY <1>1
  <2>2. g[Len(mine) + 1] = f[1]
    BY <1>1, <2>1, Concat
  <2>3. DOMAIN g = 1 .. Len(mine) + Len(f)
    <3>1. g \in Seq(EndMessage) /\ Len(g) = Len(mine) + Len(f)
      BY <1>1, ConcatProperties
    <3> HIDE DEF g
    <3> QED
      BY <3>1, LenProperties
  <2>4. \A i \in DOMAIN mine : g[i] = mine[i]
    BY <1>1, Concat
  <2> HIDE DEF g
  <2> QED
    BY <1>1, <2>2, <2>3, <2>4, LenProperties
<1>4. ASSUME live PROVE \E p \in Len(w) .. n : Run(g, "send", Len(w), p) /\ p = n
  <2>1. PICK p \in Len(w) .. n : Run(mine, "send", Len(w), p) /\ Upstream(<<>>, theirs, p, n)
    BY <1>4 DEF ChainOf
  <2>2. PICK q \in p .. n : Len(<<>>) = q - p /\ Run(theirs, "tcp", q, n)
    BY <2>1 DEF Upstream
  <2>3. p \in Nat /\ q \in Nat /\ q <= n /\ q = p
    BY <1>2, <2>1, <2>2
  <2>4. q = n
    BY <2>2, <2>3, RunEmpty
  <2>5. Run(g, "send", Len(w), p)
    BY <1>1, <2>1, RunKeep
  <2> QED
    BY <2>3, <2>4, <2>5, <2>1
<1> HIDE DEF g
<1>5. ASSUME live PROVE ClosesBehind(g)
  <2> SUFFICES ASSUME NEW i \in DOMAIN g, NEW j \in DOMAIN g, g[i].kind = "close", j > i
               PROVE  g[j].kind # "send"
    BY DEF ClosesBehind
  <2>1. CASE j = Len(mine) + 1
    BY <1>1, <1>3, <2>1
  <2>2. CASE j # Len(mine) + 1
    <3>1. i \in DOMAIN mine /\ j \in DOMAIN mine
      BY <1>3, <2>2
    <3> QED
      BY <1>3, <1>5, <3>1 DEF ChainOf, ClosesBehind
  <2> QED
    BY <2>1, <2>2
<1> QED
  BY <1>4, <1>5 DEF ChainOf, f, g

(* The end does as it is told.                                             *)
LEMMA ChainCloses ==
  ASSUME NEW w \in Seq(Nat), NEW mine \in Seq(EndMessage), NEW n \in Nat, NEW buffer, NEW theirs,
         NEW told, NEW farLive, NEW farDone, mine # <<>>, Head(mine).kind = "close",
         ChainOf(TRUE, told, w, mine, n, farLive, farDone, buffer, theirs)
  PROVE  ChainOf(FALSE, TRUE, w, Tail(mine), n, farLive, farDone, buffer, theirs)
<1>1. 1 \in DOMAIN mine /\ mine[1].kind = "close" /\ DOMAIN mine = 1 .. Len(mine) /\ Len(mine) \in Nat
  BY TailIs, LenProperties
<1>2. HasClose(mine)
  BY <1>1 DEF HasClose
<1>3. \A i \in DOMAIN mine : i = 1 \/ i > 1
  BY <1>1
<1>4. \A i \in DOMAIN mine : mine[i].kind # "send"
  BY <1>1, <1>3 DEF ChainOf, ClosesBehind
<1>5. Run(mine, "send", Len(w), n) /\ Len(w) <= n /\ farDone
  BY <1>2 DEF ChainOf
<1>6. Len(w) \in Nat
  BY LenProperties
<1>7. Len(w) = n
  BY <1>4, <1>5, <1>6, RunEmpty
<1> QED
  BY <1>5, <1>7 DEF ChainOf

(* There will be no far end.                                               *)
LEMMA ChainNoPort ==
  ASSUME NEW w \in Seq(Nat), NEW mine \in Seq(EndMessage), NEW buffer, NEW theirs,
         NEW live, NEW told, NEW farLive, NEW farDone,
         ChainOf(live, told, w, mine, 0, farLive, farDone, buffer, theirs)
  PROVE  ChainOf(live, told, w, mine \o <<Msg("close")>>, 0, farLive, TRUE, buffer, theirs)
<1> DEFINE f == <<Msg("close")>>
           g == mine \o f
<1>1. /\ f \in Seq(EndMessage) /\ Len(f) = 1 /\ DOMAIN f = {1}
      /\ \A i \in DOMAIN f : f[i].kind = "close"
  BY DEF Msg, EndMessage
<1> HIDE DEF f
<1>2. Len(w) \in Nat
  BY LenProperties
<1>3. /\ DOMAIN mine = 1 .. Len(mine) /\ Len(mine) \in Nat
      /\ \A i \in DOMAIN mine : g[i] = mine[i]
      /\ DOMAIN g = 1 .. Len(mine) + 1
      /\ g[Len(mine) + 1] = f[1]
  <2>1. 1 \in DOMAIN f
    BY <1>1
  <2>2. g[Len(mine) + 1] = f[1]
    BY <1>1, <2>1, Concat
  <2>3. DOMAIN g = 1 .. Len(mine) + Len(f)
    <3>1. g \in Seq(EndMessage) /\ Len(g) = Len(mine) + Len(f)
      BY <1>1, ConcatProperties
    <3> HIDE DEF g
    <3> QED
      BY <3>1, LenProperties
  <2>4. \A i \in DOMAIN mine : g[i] = mine[i]
    BY <1>1, Concat
  <2> HIDE DEF g
  <2> QED
    BY <1>1, <2>2, <2>3, <2>4, LenProperties
<1>4. \A p : Run(mine, "send", Len(w), p) => Run(g, "send", Len(w), p)
  BY <1>1, RunKeep
<1>5. \A p \in Len(w) .. 0 : p = 0
  BY <1>2
<1> HIDE DEF g
<1>6. ASSUME live PROVE ClosesBehind(g)
  <2> SUFFICES ASSUME NEW i \in DOMAIN g, NEW j \in DOMAIN g, g[i].kind = "close", j > i
               PROVE  g[j].kind # "send"
    BY DEF ClosesBehind
  <2>1. CASE j = Len(mine) + 1
    BY <1>1, <1>3, <2>1
  <2>2. CASE j # Len(mine) + 1
    <3>1. i \in DOMAIN mine /\ j \in DOMAIN mine
      BY <1>3, <2>2
    <3> QED
      BY <1>3, <1>6, <3>1 DEF ChainOf, ClosesBehind
  <2> QED
    BY <2>1, <2>2
<1> QED
  BY <1>4, <1>5, <1>6 DEF ChainOf, f, g

-----------------------------------------------------------------------------
(* Tables of the two ends of every connection, changed at one of them.     *)
LEMMA SetIs ==
  ASSUME NEW T, NEW f \in [Side -> [Conn -> T]], NEW s \in Side, NEW c \in Conn, NEW v \in T
  PROVE  /\ [f EXCEPT ![s][c] = v] \in [Side -> [Conn -> T]]
         /\ [f EXCEPT ![s][c] = v][s][c] = v
         /\ \A t \in Side, k \in Conn :
               t # s \/ k # c => [f EXCEPT ![s][c] = v][t][k] = f[t][k]
  OBVIOUS

LEMMA FarIs == /\ Side = {"tunnel", "local"}
               /\ \A s \in Side : Far(s) \in Side /\ Far(s) # s /\ Far(Far(s)) = s
               /\ Far("tunnel") = "local" /\ Far("local") = "tunnel"
  BY DEF Side, Far

LEMMA PutIs ==
  ASSUME TypeOK, NEW s \in Side, NEW c \in Conn, NEW ms \in Seq(EndMessage)
  PROVE  /\ Put(s, c, ms) \in [Side -> [Conn -> Seq(EndMessage)]]
         /\ Put(s, c, ms)[s][c] = IF Alive(s, c) THEN box[s][c] \o ms ELSE box[s][c]
         /\ \A t \in Side, k \in Conn : t # s \/ k # c => Put(s, c, ms)[t][k] = box[t][k]
<1> DEFINE v == IF Alive(s, c) THEN box[s][c] \o ms ELSE box[s][c]
<1>1. box \in [Side -> [Conn -> Seq(EndMessage)]]
  BY DEF TypeOK
<1>2. box[s][c] \in Seq(EndMessage)
  BY <1>1
<1>3. v \in Seq(EndMessage)
  BY <1>2, ConcatProperties
<1>4. Put(s, c, ms) = [box EXCEPT ![s][c] = v]
  BY <1>1 DEF Put
<1> HIDE DEF v
<1>5. /\ Put(s, c, ms) \in [Side -> [Conn -> Seq(EndMessage)]]
      /\ Put(s, c, ms)[s][c] = v
      /\ \A t \in Side, k \in Conn : t # s \/ k # c => Put(s, c, ms)[t][k] = box[t][k]
  BY <1>1, <1>3, <1>4, SetIs
<1> QED
  BY <1>5 DEF v

LEMMA TakenIs ==
  ASSUME TypeOK, NEW s \in Side, NEW c \in Conn, NEW ms \in Seq(EndMessage), box[s][c] # <<>>
  PROVE  /\ Taken(s, c, ms) \in [Side -> [Conn -> Seq(EndMessage)]]
         /\ Taken(s, c, ms)[s][c] = Tail(box[s][c])
         /\ Taken(s, c, ms)[Far(s)][c] = IF Alive(Far(s), c) THEN box[Far(s)][c] \o ms ELSE box[Far(s)][c]
         /\ \A t \in Side, k \in Conn : k # c => Taken(s, c, ms)[t][k] = box[t][k]
<1> DEFINE g == Put(Far(s), c, ms)
           v == Tail(box[s][c])
<1>1. Far(s) \in Side /\ Far(s) # s
  BY FarIs
<1>2. /\ g \in [Side -> [Conn -> Seq(EndMessage)]]
      /\ g[Far(s)][c] = IF Alive(Far(s), c) THEN box[Far(s)][c] \o ms ELSE box[Far(s)][c]
      /\ \A t \in Side, k \in Conn : t # Far(s) \/ k # c => g[t][k] = box[t][k]
  BY <1>1, PutIs
<1>3. g[s][c] = box[s][c] /\ box[s][c] \in Seq(EndMessage)
  BY <1>1, <1>2 DEF TypeOK
<1>4. v \in Seq(EndMessage)
  BY <1>3, HeadTailProperties
<1>5. Taken(s, c, ms) = [g EXCEPT ![s][c] = v]
  BY <1>2, <1>3 DEF Taken
<1> HIDE DEF g, v
<1>6. /\ Taken(s, c, ms) \in [Side -> [Conn -> Seq(EndMessage)]]
      /\ Taken(s, c, ms)[s][c] = v
      /\ \A t \in Side, k \in Conn : t # s \/ k # c => Taken(s, c, ms)[t][k] = g[t][k]
  BY <1>2, <1>4, <1>5, SetIs
<1> QED
  BY <1>1, <1>2, <1>6 DEF v

(* What an end finds at the head of its mailbox.                           *)
LEMMA HeadIs ==
  ASSUME TypeOK, NEW s \in Side, NEW c \in Conn, NEW kind, Takes(s, c, kind)
  PROVE  /\ box[s][c] \in Seq(EndMessage) /\ box[s][c] # <<>> /\ st[s][c] = "run"
         /\ Head(box[s][c]) \in EndMessage /\ Head(box[s][c]).kind = kind
         /\ kind \in {"tcp", "send"} => Head(box[s][c]).n \in 1 .. MaxData
<1>1. box[s][c] \in Seq(EndMessage) /\ box[s][c] # <<>> /\ Head(box[s][c]).kind = kind /\ st[s][c] = "run"
  BY DEF TypeOK, Takes
<1>2. Head(box[s][c]) \in EndMessage
  BY <1>1, HeadTailProperties
<1> QED
  BY <1>1, <1>2 DEF EndMessage

-----------------------------------------------------------------------------
(* Every variable keeps its shape.                                         *)
StateSet == {"none", "accept"} \cup Begun \cup Gone

LEMMA StIs ==
  ASSUME TypeOK, NEW s \in Side, NEW c \in Conn, NEW v \in StateSet
  PROVE  /\ [st EXCEPT ![s][c] = v] \in [Side -> [Conn -> StateSet]]
         /\ [st EXCEPT ![s][c] = v][s][c] = v
         /\ \A t \in Side, k \in Conn :
               t # s \/ k # c => [st EXCEPT ![s][c] = v][t][k] = st[t][k]
<1>1. st \in [Side -> [Conn -> StateSet]]
  BY DEF TypeOK, StateSet
<1> QED
  BY <1>1, SetIs

LEMMA TellIs ==
  ASSUME TypeOK, NEW m \in RegistryMessage, Tell(m)
  PROVE  /\ rbox' \in Seq(RegistryMessage)
         /\ rbox' = IF up THEN Append(rbox, m) ELSE rbox
<1>1. rbox \in Seq(RegistryMessage)
  BY DEF TypeOK
<1> QED
  BY <1>1, AppendProperties DEF Tell

LEMMA EndsIs ==
  ASSUME TypeOK, NEW s \in Side, NEW c \in Conn, NEW how \in Gone, Ends(s, c, how)
  PROVE  /\ st' \in [Side -> [Conn -> StateSet]] /\ st'[s][c] = how
         /\ \A t \in Side, k \in Conn : t # s \/ k # c => st'[t][k] = st[t][k]
         /\ rbox' \in Seq(RegistryMessage)
         /\ rbox' = rbox \/ (up /\ rbox' = Append(rbox, Exit(s, c, how)))
         /\ s = "tunnel" => rbox' = IF up THEN Append(rbox, Exit(s, c, how)) ELSE rbox
<1>1. how \in StateSet
  BY DEF StateSet
<1>2. Exit(s, c, how) \in RegistryMessage
  BY DEF Exit, RegistryMessage
<1>3. st' = [st EXCEPT ![s][c] = how] /\ rbox \in Seq(RegistryMessage)
  BY DEF Ends, TypeOK
<1>4. Tell(Exit(s, c, how)) => /\ rbox' \in Seq(RegistryMessage)
                               /\ rbox' = IF up THEN Append(rbox, Exit(s, c, how)) ELSE rbox
  BY <1>2, TellIs
<1>5. Tell(Exit(s, c, how)) \/ (s # "tunnel" /\ rbox' = rbox)
  BY DEF Ends
<1>6. /\ st' \in [Side -> [Conn -> StateSet]] /\ st'[s][c] = how
      /\ \A t \in Side, k \in Conn : t # s \/ k # c => st'[t][k] = st[t][k]
  BY <1>1, <1>3, StIs
<1> QED
  BY <1>3, <1>4, <1>5, <1>6

LEMMA TypeInit == Init => TypeOK
  BY TunnelAssumption DEF Init, TypeOK, RegistryMessage, Begun, Gone

LEMMA TypeRegistry ==
  ASSUME TypeOK, Registry
  PROVE  TypeOK'
<1>0. /\ rbox # <<>> => Head(rbox) \in RegistryMessage /\ Tail(rbox) \in Seq(RegistryMessage)
      /\ Msg("shutdown") \in RegistryMessage /\ rbox \in Seq(RegistryMessage) /\ <<>> \in Seq(RegistryMessage)
  BY HeadTailProperties DEF TypeOK, Msg, RegistryMessage
<1>1. ASSUME SpawnAcceptor PROVE TypeOK'
  BY <1>0, <1>1 DEF TypeOK, SpawnAcceptor, NextMsg, ends
<1>2. ASSUME RegisterConnect PROVE TypeOK'
  <2>1. Head(rbox).conn \in Conn
    BY <1>0, <1>2 DEF RegisterConnect, NextMsg, RegistryMessage
  <2> QED
    BY <1>0, <1>2, <2>1 DEF TypeOK, RegisterConnect, NextMsg, ends
<1>3. ASSUME ConnectionId PROVE TypeOK'
  <2> DEFINE k == Head(rbox).conn
  <2>1. k \in Conn /\ "tunnel" \in Side
    BY <1>0, <1>3 DEF ConnectionId, NextMsg, RegistryMessage, Side
  <2>2. st[ "tunnel" ][k] \in StateSet
    BY <2>1 DEF TypeOK, StateSet
  <2> DEFINE v == IF st["tunnel"][k] = "asking" THEN "granted" ELSE st["tunnel"][k]
  <2>3. v \in StateSet
    BY <2>2 DEF StateSet, Begun
  <2>4. st' = [st EXCEPT !["tunnel"][k] = v]
    BY <1>3, <2>1 DEF ConnectionId, TypeOK
  <2> HIDE DEF k, v
  <2>5. st' \in [Side -> [Conn -> StateSet]]
    BY <2>1, <2>3, <2>4, StIs
  <2> QED
    BY <1>0, <1>3, <2>5 DEF TypeOK, ConnectionId, NextMsg, StateSet
<1>4. ASSUME ChildExit PROVE TypeOK'
  <2>1. rbox' \in Seq(RegistryMessage) /\ pids' \subseteq Conn
    <3>1. /\ rbox # <<>>
          /\ rbox' = Tail(rbox) \/ rbox' = Append(Tail(rbox), Msg("shutdown"))
          /\ pids' = pids \/ \E k : pids' = pids \ {k}
      BY <1>4 DEF ChildExit, NextMsg
    <3>2. rbox' \in Seq(RegistryMessage)
      BY <1>0, <3>1, AppendProperties
    <3> QED
      BY <3>1, <3>2 DEF TypeOK
  <2> QED
    BY <1>4, <2>1 DEF TypeOK, ChildExit, ends
<1>5. ASSUME Shutdown PROVE TypeOK'
  BY <1>0, <1>5 DEF TypeOK, Shutdown, ends
<1> QED
  BY <1>1, <1>2, <1>3, <1>4, <1>5 DEF Registry

(* Messages that an end is sent.                                           *)
LEMMA LettersAre ==
  /\ Msg("close") \in EndMessage /\ Msg("set_connected") \in EndMessage /\ Msg("tcp_closed") \in EndMessage
  /\ [kind |-> "set", by |-> "listener"] \in EndMessage /\ [kind |-> "set", by |-> "local"] \in EndMessage
  /\ \A n \in 1 .. MaxData : Data(n) \in EndMessage
  /\ \A m \in EndMessage : <<m>> \in Seq(EndMessage)
  /\ <<>> \in Seq(EndMessage)
  BY DEF Msg, Data, EndMessage

LEMMA TypeListener ==
  ASSUME TypeOK, NEW c \in Conn, Listener(c)
  PROVE  TypeOK'
<1>0. "tunnel" \in Side /\ "local" \in Side
  BY FarIs
<1>1. ASSUME NoFreePort(c) PROVE TypeOK'
  <2>1. box' \in [Side -> [Conn -> Seq(EndMessage)]]
    BY <1>0, <1>1, LettersAre, PutIs DEF NoFreePort
  <2> QED
    BY <1>1, <2>1 DEF TypeOK, NoFreePort
<1>2. ASSUME HavePort(c) PROVE TypeOK'
  <2>1. box' \in [Side -> [Conn -> Seq(EndMessage)]]
    BY <1>0, <1>2, LettersAre, PutIs DEF HavePort
  <2> QED
    BY <1>2, <2>1 DEF TypeOK, HavePort
<1>3. ASSUME HavePortFails(c) PROVE TypeOK'
  BY <1>3 DEF TypeOK, HavePortFails, ends
<1>4. ASSUME StartLocal(c) PROVE TypeOK'
  <2>1. st' \in [Side -> [Conn -> StateSet]]
    BY <1>0, <1>4, StIs DEF StartLocal, StateSet
  <2> QED
    BY <1>4, <2>1 DEF TypeOK, StartLocal, StateSet
<1>5. ASSUME CloseListener(c) PROVE TypeOK'
  BY <1>5 DEF TypeOK, CloseListener, ends
<1> QED
  BY <1>1, <1>2, <1>3, <1>4, <1>5 DEF Listener

LEMMA TypeLocalInit ==
  ASSUME TypeOK, NEW c \in Conn, LocalInit(c)
  PROVE  TypeOK'
<1>0. "tunnel" \in Side /\ "local" \in Side
  BY FarIs
<1>1. ASSUME SetConnected(c) PROVE TypeOK'
  <2>1. box' \in [Side -> [Conn -> Seq(EndMessage)]]
    BY <1>0, <1>1, LettersAre, PutIs DEF SetConnected
  <2>2. st' \in [Side -> [Conn -> StateSet]]
    BY <1>0, <1>1, StIs DEF SetConnected, StateSet, Begun
  <2> QED
    BY <1>1, <2>1, <2>2 DEF TypeOK, SetConnected, StateSet
<1>2. ASSUME SetState(c) PROVE TypeOK'
  <2>1. box' \in [Side -> [Conn -> Seq(EndMessage)]]
    BY <1>0, <1>2, LettersAre, PutIs DEF SetState
  <2>2. st' \in [Side -> [Conn -> StateSet]]
    BY <1>0, <1>2, StIs DEF SetState, StateSet, Begun
  <2> QED
    BY <1>2, <2>1, <2>2 DEF TypeOK, SetState, StateSet
<1>3. ASSUME SetStateFails(c) PROVE TypeOK'
  <2>1. st' \in [Side -> [Conn -> StateSet]] /\ rbox' \in Seq(RegistryMessage)
    BY <1>0, <1>3, EndsIs DEF SetStateFails, Gone
  <2> QED
    BY <1>3, <2>1 DEF TypeOK, SetStateFails, StateSet
<1> QED
  BY <1>1, <1>2, <1>3 DEF LocalInit

LEMMA TypeForward ==
  ASSUME TypeOK, NEW s \in Side, NEW c \in Conn, Forward(s, c)
  PROVE  TypeOK'
<1> DEFINE m == Head(box[s][c])
<1>1. ASSUME TcpData(s, c) PROVE TypeOK'
  <2>1. m.n \in 1 .. MaxData /\ box[s][c] # <<>>
    BY <1>1, HeadIs DEF TcpData
  <2> HIDE DEF m
  <2> DEFINE b == <<m.n>> \o buf[s][c]
             e == IF other[s][c] = "waiting" THEN b ELSE <<>>
  <2>2. buf[s][c] \in Seq(1 .. MaxData) /\ buf \in [Side -> [Conn -> Seq(1 .. MaxData)]]
    BY DEF TypeOK
  <2>3. b \in Seq(1 .. MaxData)
    BY <2>1, <2>2, ConcatProperties
  <2>4. Flushed(b) \in Seq(EndMessage) /\ <<>> \in Seq(EndMessage)
    BY <2>3, FlushedIs, LettersAre
  <2>5. /\ other[s][c] = "waiting" => buf' = [buf EXCEPT ![s][c] = b] /\ box' = Taken(s, c, <<>>)
        /\ other[s][c] # "waiting" => buf' = [buf EXCEPT ![s][c] = <<>>] /\ box' = Taken(s, c, Flushed(b))
    BY <1>1 DEF TcpData, m
  <2> HIDE DEF b
  <2>6. box' \in [Side -> [Conn -> Seq(EndMessage)]]
    <3>1. /\ Taken(s, c, <<>>) \in [Side -> [Conn -> Seq(EndMessage)]]
          /\ Taken(s, c, Flushed(b)) \in [Side -> [Conn -> Seq(EndMessage)]]
      BY <2>1, <2>4, TakenIs
    <3>2. box' = Taken(s, c, <<>>) \/ box' = Taken(s, c, Flushed(b))
      BY <2>5
    <3> QED
      BY <3>1, <3>2
  <2>7. e \in Seq(1 .. MaxData) /\ buf' = [buf EXCEPT ![s][c] = e]
    <3>1. <<>> \in Seq(1 .. MaxData)
      OBVIOUS
    <3>2. CASE other[s][c] = "waiting"
      BY <2>3, <2>5, <3>2
    <3>3. CASE other[s][c] # "waiting"
      BY <2>5, <3>1, <3>3
    <3> QED
      BY <3>2, <3>3
  <2> HIDE DEF e
  <2>8. buf' \in [Side -> [Conn -> Seq(1 .. MaxData)]]
    BY <2>2, <2>7, SetIs
  <2> QED
    BY <1>1, <2>6, <2>8 DEF TypeOK, TcpData
<1>2. ASSUME SendData(s, c) PROVE TypeOK'
  <2>1. m.n \in 1 .. MaxData /\ box[s][c] # <<>>
    BY <1>2, HeadIs DEF SendData
  <2>2. box' \in [Side -> [Conn -> Seq(EndMessage)]]
    BY <1>2, <2>1, LettersAre, TakenIs DEF SendData
  <2>3. wrote[s][c] \in Seq(1 .. MaxData) /\ wrote \in [Side -> [Conn -> Seq(1 .. MaxData)]]
    BY DEF TypeOK
  <2>4. CASE open[s][c]
    <3>1. wrote' = [wrote EXCEPT ![s][c] = Append(wrote[s][c], m.n)] /\ UNCHANGED <<st, rbox>>
      BY <1>2, <2>3, <2>4 DEF SendData
    <3>2. Append(wrote[s][c], m.n) \in Seq(1 .. MaxData)
      BY <2>1, <2>3, AppendProperties
    <3> HIDE DEF m
    <3>3. wrote' \in [Side -> [Conn -> Seq(1 .. MaxData)]]
      BY <2>3, <3>1, <3>2, SetIs
    <3> QED
      BY <1>2, <2>2, <3>1, <3>3 DEF TypeOK, SendData
  <2>5. CASE ~open[s][c]
    <3>1. Ends(s, c, "failed") /\ UNCHANGED wrote
      BY <1>2, <2>5 DEF SendData
    <3>2. st' \in [Side -> [Conn -> StateSet]] /\ rbox' \in Seq(RegistryMessage)
      BY <3>1, EndsIs DEF Gone
    <3> QED
      BY <1>2, <2>2, <3>1, <3>2 DEF TypeOK, SendData, StateSet
  <2> QED
    BY <2>4, <2>5
<1>3. ASSUME TcpClosed(s, c) PROVE TypeOK'
  <2>1. st' \in [Side -> [Conn -> StateSet]] /\ rbox' \in Seq(RegistryMessage)
    BY <1>3, EndsIs DEF TcpClosed, Gone
  <2>2. box' = Taken(s, c, <<>>) \/ box' = Taken(s, c, <<Msg("close")>>)
    BY <1>3 DEF TcpClosed
  <2>3. box' \in [Side -> [Conn -> Seq(EndMessage)]]
    <3>1. box[s][c] # <<>>
      BY <1>3, HeadIs DEF TcpClosed
    <3>2. <<>> \in Seq(EndMessage) /\ <<Msg("close")>> \in Seq(EndMessage)
      BY LettersAre
    <3>3. /\ Taken(s, c, <<>>) \in [Side -> [Conn -> Seq(EndMessage)]]
          /\ Taken(s, c, <<Msg("close")>>) \in [Side -> [Conn -> Seq(EndMessage)]]
      BY <3>1, <3>2, TakenIs
    <3> QED
      BY <2>2, <3>3
  <2>4. lclose' \in [Conn -> BOOLEAN]
    BY <1>3 DEF TypeOK, TcpClosed
  <2> QED
    BY <1>3, <2>1, <2>3, <2>4 DEF TypeOK, TcpClosed, StateSet
<1>4. ASSUME Close(s, c) PROVE TypeOK'
  <2>1. st' \in [Side -> [Conn -> StateSet]] /\ rbox' \in Seq(RegistryMessage)
    BY <1>4, EndsIs DEF Close, Gone
  <2>2. box' \in [Side -> [Conn -> Seq(EndMessage)]]
    <3>1. box[s][c] # <<>> /\ box' = Taken(s, c, <<>>)
      BY <1>4, HeadIs DEF Close
    <3> QED
      BY <3>1, LettersAre, TakenIs
  <2> QED
    BY <1>4, <2>1, <2>2 DEF TypeOK, Close, StateSet
<1>5. ASSUME Connected(s, c) PROVE TypeOK'
  <2>1. buf[s][c] \in Seq(1 .. MaxData)
    BY DEF TypeOK
  <2>2. Flushed(buf[s][c]) \in Seq(EndMessage)
    BY <2>1, FlushedIs
  <2>3. box' \in [Side -> [Conn -> Seq(EndMessage)]]
    <3>1. box[s][c] # <<>> /\ box' = Taken(s, c, Flushed(buf[s][c]))
      BY <1>5, HeadIs DEF Connected
    <3> QED
      BY <2>2, <3>1, TakenIs
  <2>4. buf' \in [Side -> [Conn -> Seq(1 .. MaxData)]] /\ other' \in [Side -> [Conn -> {"waiting", "connected"}]]
    BY <1>5 DEF TypeOK, Connected
  <2> QED
    BY <1>5, <2>3, <2>4 DEF TypeOK, Connected
<1>6. ASSUME HandleSet(s, c) PROVE TypeOK'
  <2>1. box' \in [Side -> [Conn -> Seq(EndMessage)]]
    <3>1. box[s][c] # <<>> /\ box' = Taken(s, c, <<>>)
      BY <1>6, HeadIs DEF HandleSet
    <3> QED
      BY <3>1, LettersAre, TakenIs
  <2>2. st' \in [Side -> [Conn -> StateSet]]
    <3> DEFINE v == IF st["local"][c] = "setting" THEN "run" ELSE st["local"][c]
    <3>1. "local" \in Side /\ st["local"][c] \in StateSet
      BY FarIs DEF TypeOK, StateSet
    <3>2. st' = st \/ st' = [st EXCEPT !["local"][c] = v]
      BY <1>6, <3>1 DEF HandleSet
    <3>3. v \in StateSet
      BY <3>1 DEF StateSet, Begun
    <3> HIDE DEF v
    <3>4. [st EXCEPT !["local"][c] = v] \in [Side -> [Conn -> StateSet]]
      BY <3>1, <3>3, StIs
    <3> QED
      BY <3>2, <3>4 DEF TypeOK, StateSet
  <2>3. lst' \in [Conn -> {"none", "listen", "setting", "set", "open", "ended", "failed"}]
    BY <1>6 DEF TypeOK, HandleSet
  <2> QED
    BY <1>6, <2>1, <2>2, <2>3 DEF TypeOK, HandleSet, StateSet
<1> QED
  BY <1>1, <1>2, <1>3, <1>4, <1>5, <1>6 DEF Forward

LEMMA TypeStart ==
  ASSUME TypeOK, NEW c \in Conn,
         \/ Accept(c) \/ GetConnectionId(c) \/ ForwardInit(c) \/ AcceptUser(c) \/ AcceptUserFails(c)
  PROVE  TypeOK'
<1>0. "tunnel" \in Side /\ "local" \in Side
  BY FarIs
<1>1. ASSUME Accept(c) PROVE TypeOK'
  <2>1. st' \in [Side -> [Conn -> StateSet]]
    BY <1>0, <1>1, StIs, SMTT(30) DEF Accept, StateSet, Begun
  <2>2. <<[kind |-> "register_connect", conn |-> c], Msg("spawn_acceptor")>> \in Seq(RegistryMessage)
    BY DEF Msg, RegistryMessage
  <2>3. rbox' \in Seq(RegistryMessage)
    BY <1>1, <2>2, ConcatProperties DEF Accept, TypeOK
  <2>4. acceptors' \in Nat
    BY <1>1 DEF Accept, TypeOK
  <2> QED
    BY <1>1, <2>1, <2>3, <2>4 DEF TypeOK, Accept, StateSet
<1>2. ASSUME GetConnectionId(c) PROVE TypeOK'
  <2>1. st' \in [Side -> [Conn -> StateSet]]
    BY <1>0, <1>2, StIs DEF GetConnectionId, StateSet, Begun
  <2>2. [kind |-> "get_connection_id", conn |-> c] \in RegistryMessage
    BY DEF RegistryMessage
  <2>3. rbox' \in Seq(RegistryMessage)
    BY <1>2, <2>2, TellIs DEF GetConnectionId
  <2> QED
    BY <1>2, <2>1, <2>3 DEF TypeOK, GetConnectionId, StateSet
<1>3. ASSUME ForwardInit(c) PROVE TypeOK'
  <2>1. st' \in [Side -> [Conn -> StateSet]]
    BY <1>0, <1>3, StIs DEF ForwardInit, StateSet, Begun
  <2> QED
    BY <1>3, <2>1 DEF TypeOK, ForwardInit, StateSet
<1>4. ASSUME AcceptUser(c) PROVE TypeOK'
  <2>1. st' \in [Side -> [Conn -> StateSet]]
    BY <1>0, <1>4, StIs DEF AcceptUser, StateSet, Begun
  <2> QED
    BY <1>4, <2>1 DEF TypeOK, AcceptUser, StateSet
<1>5. ASSUME AcceptUserFails(c) PROVE TypeOK'
  <2>1. st' \in [Side -> [Conn -> StateSet]]
    BY <1>0, <1>5, StIs DEF AcceptUserFails, StateSet, Gone
  <2> QED
    BY <1>5, <2>1 DEF TypeOK, AcceptUserFails, StateSet
<1> QED
  BY <1>1, <1>2, <1>3, <1>4, <1>5

LEMMA TypeBreaks ==
  ASSUME TypeOK, NEW c \in Conn, NEW s \in Side, ListenerLinkBreaks(c) \/ LinkBreaks(s, c)
  PROVE  TypeOK'
<1>1. ASSUME ListenerLinkBreaks(c) PROVE TypeOK'
  BY <1>1 DEF TypeOK, ListenerLinkBreaks, ends
<1>2. ASSUME LinkBreaks(s, c) PROVE TypeOK'
  <2>1. st' \in [Side -> [Conn -> StateSet]] /\ rbox' \in Seq(RegistryMessage)
    BY <1>2, EndsIs DEF LinkBreaks, Gone
  <2> QED
    BY <1>2, <2>1 DEF TypeOK, LinkBreaks, StateSet
<1> QED
  BY <1>1, <1>2

(* What the peer of a socket does to the mailbox of an end.                *)
LEMMA PeerIs ==
  ASSUME TypeOK, NEW s \in Side, NEW c \in Conn, NEW m \in EndMessage,
         box' = [box EXCEPT ![s][c] = Append(@, m)]
  PROVE  /\ box' \in [Side -> [Conn -> Seq(EndMessage)]]
         /\ box'[s][c] = box[s][c] \o <<m>>
         /\ \A t \in Side, k \in Conn : t # s \/ k # c => box'[t][k] = box[t][k]
<1>1. box \in [Side -> [Conn -> Seq(EndMessage)]] /\ box[s][c] \in Seq(EndMessage)
  BY DEF TypeOK
<1>2. Append(box[s][c], m) = box[s][c] \o <<m>> /\ Append(box[s][c], m) \in Seq(EndMessage)
  BY <1>1, AppendIsConcat, AppendProperties
<1>3. box' = [box EXCEPT ![s][c] = Append(box[s][c], m)]
  BY <1>1
<1> QED
  BY <1>1, <1>2, <1>3, SetIs

LEMMA TypePeer ==
  ASSUME TypeOK, NEW c \in Conn, NEW s \in Side, PeerSends(s, c) \/ PeerHangsUp(s, c)
  PROVE  TypeOK'
<1>1. ASSUME PeerSends(s, c) PROVE TypeOK'
  <2>1. sent[s][c] + 1 \in 1 .. MaxData /\ sent[s][c] + 1 \in 0 .. MaxData
    BY <1>1, TunnelAssumption DEF PeerSends, TypeOK
  <2>2. Data(sent[s][c] + 1) \in EndMessage
    BY <2>1, LettersAre
  <2>3. box' \in [Side -> [Conn -> Seq(EndMessage)]]
    BY <1>1, <2>2, PeerIs DEF PeerSends
  <2>4. sent \in [Side -> [Conn -> 0 .. MaxData]] /\ sent' = [sent EXCEPT ![s][c] = sent[s][c] + 1]
    BY <1>1 DEF PeerSends, TypeOK
  <2>5. sent' \in [Side -> [Conn -> 0 .. MaxData]]
    BY <2>1, <2>4, SetIs
  <2> QED
    BY <1>1, <2>3, <2>5 DEF TypeOK, PeerSends
<1>2. ASSUME PeerHangsUp(s, c) PROVE TypeOK'
  <2>1. box' \in [Side -> [Conn -> Seq(EndMessage)]]
    BY <1>2, LettersAre, PeerIs DEF PeerHangsUp
  <2>2. open' \in [Side -> [Conn -> BOOLEAN]]
    BY <1>2 DEF TypeOK, PeerHangsUp
  <2> QED
    BY <1>2, <2>1, <2>2 DEF TypeOK, PeerHangsUp
<1> QED
  BY <1>1, <1>2

LEMMA TypeNext == TypeOK /\ [Next]_vars => TypeOK'
<1> SUFFICES ASSUME TypeOK, [Next]_vars PROVE TypeOK'
  OBVIOUS
<1>1. CASE Registry
  BY <1>1, TypeRegistry
<1>2. ASSUME NEW c \in Conn, Work(c) PROVE TypeOK'
  <2>1. "tunnel" \in Side
    BY FarIs
  <2> QED
    BY <1>2, <2>1, TypeStart, TypeListener, TypeLocalInit, TypeBreaks, TypeForward DEF Work
<1>3. CASE Environment
  <2>1. CASE AcceptFails
    <3>1. [kind |-> "EXIT", side |-> "acceptor", reason |-> "error"] \in RegistryMessage
      BY DEF RegistryMessage
    <3>2. rbox' \in Seq(RegistryMessage) /\ acceptors' \in Nat
      BY <2>1, <3>1, AppendProperties DEF AcceptFails, TypeOK
    <3> QED
      BY <2>1, <3>2 DEF TypeOK, AcceptFails, ends
  <2>2. ASSUME NEW c \in Conn, Accept(c) \/ AcceptUser(c) \/ AcceptUserFails(c) PROVE TypeOK'
    BY <2>2, TypeStart
  <2>3. ASSUME NEW c \in Conn, NEW s \in Side, PeerSends(s, c) \/ PeerHangsUp(s, c) PROVE TypeOK'
    BY <2>3, TypePeer
  <2> QED
    BY <1>3, <2>1, <2>2, <2>3 DEF Environment
<1>4. CASE UNCHANGED vars
  BY <1>4 DEF TypeOK, vars, ends
<1> QED
  BY <1>1, <1>2, <1>3, <1>4 DEF Next

(* A tunnel and its server keep the shape of their state.                  *)
THEOREM TypeCorrect == Spec => []TypeOK
  BY TypeInit, TypeNext, PTL DEF Spec

-----------------------------------------------------------------------------
(* What comes after the end of a peer's data.                              *)
LEMMA HangupTail ==
  ASSUME NEW b \in Seq(EndMessage), NEW o, b # <<>>, HangupOf(b, o)
  PROVE  /\ HangupOf(Tail(b), o)
         /\ Head(b).kind = "tcp_closed" => \A i \in DOMAIN Tail(b) : Tail(b)[i].kind # "tcp"
<1> DEFINE g == Tail(b)
<1>1. /\ \A i \in DOMAIN g : i \in Nat \ {0} /\ i + 1 \in DOMAIN b /\ g[i] = b[i + 1]
      /\ Head(b) = b[1] /\ 1 \in DOMAIN b
  BY TailIs
<1> HIDE DEF g
<1>2. \A i, j \in DOMAIN g : j > i => j + 1 > i + 1
  BY <1>1
<1>3. \A j \in DOMAIN g : j + 1 > 1
  BY <1>1
<1>4. HangupOf(g, o)
  BY <1>1, <1>2 DEF HangupOf
<1>5. Head(b).kind = "tcp_closed" => \A i \in DOMAIN g : g[i].kind # "tcp"
  BY <1>1, <1>3 DEF HangupOf
<1> QED
  BY <1>4, <1>5 DEF g

LEMMA HangupPlus ==
  ASSUME NEW b \in Seq(EndMessage), NEW f \in Seq(EndMessage), NEW o, HangupOf(b, o)
  PROVE  /\ (\A i \in DOMAIN f : f[i].kind \notin {"tcp", "tcp_closed"}) => HangupOf(b \o f, o)
         /\ o /\ (\A i \in DOMAIN f : f[i].kind # "tcp_closed") => HangupOf(b \o f, o)
         /\ o /\ Len(f) = 1 => HangupOf(b \o f, FALSE)
<1> DEFINE g == b \o f
<1>1. /\ DOMAIN b = 1 .. Len(b) /\ DOMAIN f = 1 .. Len(f) /\ Len(b) \in Nat /\ Len(f) \in Nat
      /\ DOMAIN g = 1 .. Len(b) + Len(f)
      /\ \A i \in DOMAIN b : g[i] = b[i]
  BY Concat
<1>2. \A i \in DOMAIN g : i \in DOMAIN b \/ (i > Len(b) /\ \E j \in DOMAIN f : g[i] = f[j])
  <2> SUFFICES ASSUME NEW i \in DOMAIN g, i \notin DOMAIN b
               PROVE  i > Len(b) /\ \E j \in DOMAIN f : g[i] = f[j]
    OBVIOUS
  <2>1. i - Len(b) \in DOMAIN f /\ i = Len(b) + (i - Len(b))
    BY Concat
  <2>2. g[Len(b) + (i - Len(b))] = f[i - Len(b)]
    BY <2>1, Concat
  <2>3. i > Len(b)
    BY <1>1
  <2> QED
    BY <2>1, <2>2, <2>3
<1> HIDE DEF g
<1>3. \A i, j \in DOMAIN g : i \in DOMAIN b /\ j \notin DOMAIN b => j > i
  BY <1>1, <1>2
<1>4. ASSUME \A i \in DOMAIN f : f[i].kind \notin {"tcp", "tcp_closed"} PROVE HangupOf(g, o)
  BY <1>1, <1>2, <1>4 DEF HangupOf
<1>5. ASSUME o, \A i \in DOMAIN f : f[i].kind # "tcp_closed" PROVE HangupOf(g, o)
  BY <1>1, <1>2, <1>5 DEF HangupOf
<1>6. ASSUME o, Len(f) = 1 PROVE HangupOf(g, FALSE)
  <2>1. \A i \in DOMAIN b : b[i].kind # "tcp_closed"
    BY <1>6 DEF HangupOf
  <2>2. \A i, j \in DOMAIN g : i \notin DOMAIN b => ~(j > i)
    BY <1>1, <1>6
  <2> QED
    BY <1>1, <2>1, <2>2 DEF HangupOf
<1> QED
  BY <1>4, <1>5, <1>6 DEF g

(* Messages that carry no incoming data do not change what is upstream.    *)
LEMMA ChainMore ==
  ASSUME NEW w, NEW mine, NEW n, NEW buffer, NEW theirs \in Seq(EndMessage),
         NEW live, NEW told, NEW farLive, NEW farDone,
         NEW f \in Seq(EndMessage), \A i \in DOMAIN f : f[i].kind # "tcp",
         ChainOf(live, told, w, mine, n, farLive, farDone, buffer, theirs)
  PROVE  ChainOf(live, told, w, mine, n, farLive, farDone, buffer, theirs \o f)
<1>1. \A q : Run(theirs, "tcp", q, n) => Run(theirs \o f, "tcp", q, n)
  BY RunKeep
<1>2. \A p : Upstream(buffer, theirs, p, n) => Upstream(buffer, theirs \o f, p, n)
  BY <1>1 DEF Upstream
<1> QED
  BY <1>2 DEF ChainOf

-----------------------------------------------------------------------------
(* A step leaves every connection but one alone.                           *)
EndKept(s, k) ==
    /\ st'[s][k] = st[s][k] /\ box'[s][k] = box[s][k] /\ other'[s][k] = other[s][k]
    /\ buf'[s][k] = buf[s][k] /\ open'[s][k] = open[s][k]
    /\ sent'[s][k] = sent[s][k] /\ wrote'[s][k] = wrote[s][k]
ConnKept(k) == (\A s \in Side : EndKept(s, k)) /\ lst'[k] = lst[k]

LEMMA ConnFrame ==
  ASSUME NEW k \in Conn, ConnKept(k), ConnInv(k)
  PROVE  ConnInv(k)'
<1>1. /\ st'["tunnel"][k] = st["tunnel"][k] /\ st'["local"][k] = st["local"][k]
      /\ other'["tunnel"][k] = other["tunnel"][k] /\ other'["local"][k] = other["local"][k]
      /\ box'["tunnel"][k] = box["tunnel"][k] /\ lst'[k] = lst[k]
  BY DEF ConnKept, EndKept, Side
<1>2. Stage(k)' /\ Knows(k)'
  BY <1>1 DEF ConnInv, Stage, Knows
<1>3. Sides(k)'
  BY DEF ConnInv, Sides, Fresh, ConnKept, EndKept
<1>4. ASSUME NEW s \in Side PROVE Chain(s, Far(s), k)'
  <2>1. Far(s) \in Side /\ EndKept(s, k) /\ EndKept(Far(s), k) /\ lst'[k] = lst[k]
    BY FarIs DEF ConnKept
  <2>2. Chain(s, Far(s), k)
    BY DEF ConnInv
  <2> QED
    BY <2>1, <2>2 DEF EndKept, Chain, Live, Done
<1> QED
  BY <1>2, <1>3, <1>4 DEF ConnInv

(* A step of a connection in which no data moves, or only at an end that is*)
(* over by then.                                                           *)
Shifts(b, b1, live) ==
    \/ b1 = b
    \/ \E m \in EndMessage : m.kind \in {"set", "set_connected"} /\ b1 = b \o <<m>>
    \/ b # <<>> /\ b1 = Tail(b) /\ (live => Head(b).kind \notin {"tcp", "send", "close"})

LEMMA ChainShifts ==
  ASSUME NEW w, NEW mine \in Seq(EndMessage), NEW n, NEW buffer, NEW theirs \in Seq(EndMessage),
         NEW told, NEW farDone, NEW mine1 \in Seq(EndMessage), NEW theirs1 \in Seq(EndMessage),
         NEW live \in BOOLEAN, NEW farLive \in BOOLEAN,
         ChainOf(live, told, w, mine, n, farLive, farDone, buffer, theirs),
         Shifts(mine, mine1, live), Shifts(theirs, theirs1, farLive)
  PROVE  ChainOf(live, told, w, mine1, n, farLive, farDone, buffer, theirs1)
<1>1. ChainOf(live, told, w, mine1, n, farLive, farDone, buffer, theirs)
  <2>1. CASE ~live
    <3>1. live = FALSE
      BY <2>1
    <3>2. ChainOf(FALSE, told, w, mine, n, farLive, farDone, buffer, theirs)
      BY <3>1
    <3>3. ChainOf(FALSE, told, w, mine1, n, farLive, farDone, buffer, theirs)
      BY <3>2, ChainDead
    <3> QED
      BY <3>1, <3>3
  <2>2. CASE live
    <3>1. CASE mine1 = mine
      BY <3>1
    <3>2. ASSUME NEW m \in EndMessage, m.kind \in {"set", "set_connected"}, mine1 = mine \o <<m>>
         PROVE  ChainOf(live, told, w, mine1, n, farLive, farDone, buffer, theirs)
      BY <3>2, ChainOther
    <3>3. CASE mine # <<>> /\ mine1 = Tail(mine) /\ Head(mine).kind # "send"
      BY <3>3, ChainSkip
    <3> QED
      BY <2>2, <3>1, <3>2, <3>3 DEF Shifts
  <2> QED
    BY <2>1, <2>2
<1>2. CASE ~farLive
  <2>1. farLive = FALSE
    BY <1>2
  <2>2. ChainOf(live, told, w, mine1, n, FALSE, farDone, buffer, theirs)
    BY <1>1, <2>1
  <2>3. ChainOf(live, told, w, mine1, n, FALSE, farDone, buffer, theirs1)
    BY <2>2, ChainFarDead
  <2> QED
    BY <2>1, <2>3
<1>3. CASE farLive
  <2>1. CASE theirs1 = theirs
    BY <1>1, <2>1
  <2>2. ASSUME NEW m \in EndMessage, m.kind \in {"set", "set_connected"}, theirs1 = theirs \o <<m>>
       PROVE  ChainOf(live, told, w, mine1, n, farLive, farDone, buffer, theirs1)
    BY <1>1, <2>2, ChainOther
  <2>3. CASE theirs # <<>> /\ theirs1 = Tail(theirs) /\ Head(theirs).kind # "tcp"
    BY <1>1, <2>3, ChainSkip
  <2> QED
    BY <1>3, <2>1, <2>2, <2>3 DEF Shifts
<1> QED
  BY <1>2, <1>3

LEMMA HangupShifts ==
  ASSUME NEW b \in Seq(EndMessage), NEW b1, NEW o, NEW live, Shifts(b, b1, live), HangupOf(b, o)
  PROVE  HangupOf(b1, o)
<1>1. \A m \in EndMessage : /\ <<m>> \in Seq(EndMessage) /\ \A i \in DOMAIN <<m>> : <<m>>[i] = m
  OBVIOUS
<1>2. ASSUME NEW m \in EndMessage, m.kind \in {"set", "set_connected"} PROVE HangupOf(b \o <<m>>, o)
  BY <1>1, <1>2, HangupPlus
<1> QED
  BY <1>2, HangupTail DEF Shifts

(* Such a step, with what it must not do.                                  *)
QuietEnd(s, c) ==
    /\ other'[s][c] = other[s][c] /\ buf'[s][c] = buf[s][c] /\ open'[s][c] = open[s][c]
    /\ sent'[s][c] = sent[s][c] /\ wrote'[s][c] = wrote[s][c]
    /\ Shifts(box[s][c], box'[s][c], Live(s, c)')
    /\ (Live(s, c)' => Live(s, c)) /\ (Done(s, c) => Done(s, c)')
    /\ st'[s][c] = "told" => st[s][c] = "told"
    /\ st'[s][c] \in {"none", "accept"} => st[s][c] \in {"none", "accept"} /\ box'[s][c] = box[s][c]

LEMMA QuietConn ==
  ASSUME TypeOK, TypeOK', NEW c \in Conn, ConnInv(c), \A s \in Side : QuietEnd(s, c), Stage(c)',
         st["local"][c] \in Begun \cup Gone => st'["local"][c] \in Begun \cup Gone,
         ~(st'["local"][c] \in Begun \cup Gone) =>
             \A m \in EndMessage : m.kind = "set_connected" => box'["tunnel"][c] # box["tunnel"][c] \o <<m>>
  PROVE  ConnInv(c)'
<1>1. \A s \in Side : box[s][c] \in Seq(EndMessage) /\ box'[s][c] \in Seq(EndMessage)
  BY DEF TypeOK
<1>2. "tunnel" \in Side /\ "local" \in Side
  BY FarIs
<1>3. ASSUME NEW s \in Side PROVE Chain(s, Far(s), c)'
  <2> DEFINE t == Far(s)
  <2>1. t \in Side
    BY FarIs
  <2>2. ChainOf(Live(t, c), st[t][c] = "told", wrote[t][c], box[t][c],
                sent[s][c], Live(s, c), Done(s, c), buf[s][c], box[s][c])
    BY DEF ConnInv, Chain
  <2> HIDE DEF t
  <2>3. QuietEnd(s, c) /\ QuietEnd(t, c)
    BY <2>1
  <2>4. ChainOf(Live(t, c)', st'[t][c] = "told", wrote[t][c], box[t][c],
                sent[s][c], Live(s, c)', Done(s, c)', buf[s][c], box[s][c])
    <3> DEFINE a0 == Live(t, c)
               a1 == Live(t, c)'
               d0 == st[t][c] = "told"
               d1 == st'[t][c] = "told"
               e0 == Live(s, c)
               e1 == Live(s, c)'
               f0 == Done(s, c)
               f1 == Done(s, c)'
    <3>1. /\ a0 \in BOOLEAN /\ a1 \in BOOLEAN /\ d0 \in BOOLEAN /\ d1 \in BOOLEAN
          /\ e0 \in BOOLEAN /\ e1 \in BOOLEAN /\ f0 \in BOOLEAN /\ f1 \in BOOLEAN
      BY DEF Live, Done
    <3>2. (a1 => a0) /\ (d1 => d0) /\ (e1 => e0) /\ (f0 => f1)
      BY <2>3 DEF QuietEnd
    <3>3. ChainOf(a0, d0, wrote[t][c], box[t][c], sent[s][c], e0, f0, buf[s][c], box[s][c])
      BY <2>2
    <3> HIDE DEF a0, a1, d0, d1, e0, e1, f0, f1
    <3>4. ChainOf(a1, d1, wrote[t][c], box[t][c], sent[s][c], e1, f1, buf[s][c], box[s][c])
      BY <3>1, <3>2, <3>3, ChainWeakens
    <3> QED
      BY <3>4 DEF a1, d1, e1, f1
  <2>5. ChainOf(Live(t, c)', st'[t][c] = "told", wrote[t][c], box'[t][c],
                sent[s][c], Live(s, c)', Done(s, c)', buf[s][c], box'[s][c])
    <3>1. Live(t, c)' \in BOOLEAN /\ Live(s, c)' \in BOOLEAN
      BY DEF Live
    <3>2. Shifts(box[s][c], box'[s][c], Live(s, c)') /\ Shifts(box[t][c], box'[t][c], Live(t, c)')
      BY <2>3 DEF QuietEnd
    <3> QED
      BY <1>1, <2>1, <2>4, <3>1, <3>2, ChainShifts
  <2>6. /\ wrote'[t][c] = wrote[t][c] /\ sent'[s][c] = sent[s][c] /\ buf'[s][c] = buf[s][c]
    BY <2>3 DEF QuietEnd
  <2> QED
    BY <2>5, <2>6 DEF Chain, t
<1>4. ASSUME NEW s \in Side
      PROVE  /\ HangupOf(box'[s][c], open'[s][c]) /\ Fresh(s, c)'
             /\ other'[s][c] = "connected" => buf'[s][c] = <<>>
  <2>1. HangupOf(box'[s][c], open[s][c])
    BY <1>1, HangupShifts DEF ConnInv, Sides, QuietEnd
  <2> QED
    BY <2>1 DEF ConnInv, Sides, QuietEnd, Fresh
<1>5. Knows(c)'
  <2>1. ASSUME NEW i \in DOMAIN box'["tunnel"][c], box'["tunnel"][c][i].kind = "set_connected"
        PROVE  st'["local"][c] \in Begun \cup Gone
    <3> DEFINE b == box["tunnel"][c]
               b1 == box'["tunnel"][c]
    <3>1. ASSUME NEW j \in DOMAIN b, b[j].kind = "set_connected"
          PROVE  st'["local"][c] \in Begun \cup Gone
      BY <3>1 DEF ConnInv, Knows
    <3>2. Shifts(b, b1, Live("tunnel", c)') /\ b \in Seq(EndMessage)
      BY <1>1, <1>2 DEF QuietEnd
    <3> HIDE DEF b1
    <3>3. CASE b1 = b
      BY <2>1, <3>1, <3>3 DEF b1
    <3>4. ASSUME NEW m \in EndMessage, b1 = b \o <<m>>
          PROVE  st'["local"][c] \in Begun \cup Gone
      <4>1. CASE m.kind = "set_connected"
        BY <3>4, <4>1 DEF b, b1
      <4>2. CASE m.kind # "set_connected"
        <5>1. <<m>> \in Seq(EndMessage) /\ \A j \in DOMAIN <<m>> : <<m>>[j] = m
          OBVIOUS
        <5>2. i \in DOMAIN b /\ b1[i] = b[i]
          <6> HIDE DEF b
          <6> DEFINE f == <<m>>
          <6>1. \/ i \in DOMAIN b
                \/ i - Len(b) \in DOMAIN f /\ b1[i] = f[i - Len(b)]
            <7> HIDE DEF f
            <7>1. f \in Seq(EndMessage)
              BY <5>1 DEF f
            <7>2. b1 = b \o f
              BY <3>4 DEF f
            <7>3. i \in DOMAIN b1
              BY <2>1 DEF b1
            <7> QED
              BY <3>2, <7>1, <7>2, <7>3, Concat
          <6>2. b1[i].kind = "set_connected"
            BY <2>1 DEF b1
          <6>3. i \in DOMAIN b
            BY <4>2, <5>1, <6>1, <6>2
          <6> QED
            BY <3>2, <3>4, <5>1, <6>3, Concat
        <5> QED
          BY <2>1, <3>1, <5>2 DEF b1
      <4> QED
        BY <4>1, <4>2
    <3>5. CASE b # <<>> /\ b1 = Tail(b)
      <4>1. i \in DOMAIN b1
        BY <2>1 DEF b1
      <4> HIDE DEF b
      <4>2. i + 1 \in DOMAIN b /\ b1[i] = b[i + 1]
        BY <3>2, <3>5, <4>1, TailIs
      <4> QED
        BY <2>1, <3>1, <4>2 DEF b, b1
    <3> QED
      BY <3>2, <3>3, <3>4, <3>5 DEF Shifts
  <2>2. other'["tunnel"][c] = other["tunnel"][c]
    BY <1>2 DEF QuietEnd
  <2> QED
    BY <2>1, <2>2 DEF ConnInv, Knows
<1> QED
  BY <1>3, <1>4, <1>5 DEF ConnInv, Sides

LEMMA DataStep ==
  ASSUME DataInv, TypeOK', NEW c \in Conn, ConnInv(c)',
         \A k \in Conn : k # c => ConnKept(k)
  PROVE  DataInv'
<1>1. ASSUME NEW k \in Conn, k # c PROVE ConnInv(k)'
  BY <1>1, ConnFrame DEF DataInv
<1> QED
  BY <1>1 DEF DataInv

(* An end moves on, or is over; its mailbox stays as it is.                *)
LEMMA MoveStep ==
  ASSUME DataInv, TypeOK', NEW c \in Conn, NEW s \in Side,
         \A t \in Side, k \in Conn : t # s \/ k # c => st'[t][k] = st[t][k],
         UNCHANGED <<box, other, buf, open, sent, wrote>>,
         \A k \in Conn : k # c => lst'[k] = lst[k],
         Stage(c)', st'[s][c] = st[s][c] \/ (st[s][c] \notin Gone /\ st'[s][c] # "told"),
         st'[s][c] \in {"none", "accept"} => st[s][c] \in {"none", "accept"},
         st["local"][c] \in Begun \cup Gone => st'["local"][c] \in Begun \cup Gone,
         Done("local", c) => Done("local", c)'
  PROVE  DataInv'
<1>1. \A k \in Conn : k # c => ConnKept(k)
  BY DEF ConnKept, EndKept
<1>2. ASSUME NEW t \in Side PROVE QuietEnd(t, c)
  <2>1. /\ other'[t][c] = other[t][c] /\ buf'[t][c] = buf[t][c] /\ open'[t][c] = open[t][c]
        /\ sent'[t][c] = sent[t][c] /\ wrote'[t][c] = wrote[t][c] /\ box'[t][c] = box[t][c]
    OBVIOUS
  <2>2. Shifts(box[t][c], box'[t][c], Live(t, c)')
    BY <2>1 DEF Shifts
  <2>3. /\ t # s => st'[t][c] = st[t][c]
        /\ t = s => st'[t][c] = st[t][c] \/ (st[t][c] \notin Gone /\ st'[t][c] # "told")
        /\ t = s => (st'[t][c] \in {"none", "accept"} => st[t][c] \in {"none", "accept"})
    OBVIOUS
  <2>4. Live(t, c)' => Live(t, c)
    BY <2>3 DEF Live
  <2>5. Done(t, c) => Done(t, c)'
    <3>1. CASE t = "local"
      BY <3>1
    <3>2. CASE t # "local"
      BY <2>3, <3>2 DEF Done
    <3> QED
      BY <3>1, <3>2
  <2> QED
    BY <2>1, <2>2, <2>3, <2>4, <2>5 DEF QuietEnd
<1>3. box["tunnel"][c] \in Seq(EndMessage) /\ box'["tunnel"][c] = box["tunnel"][c]
  BY FarIs DEF DataInv, TypeOK
<1>4. \A m \in EndMessage : box["tunnel"][c] # box["tunnel"][c] \o <<m>>
  <2> DEFINE b == box["tunnel"][c]
  <2> SUFFICES ASSUME NEW m \in EndMessage PROVE b # b \o <<m>>
    OBVIOUS
  <2>1. Len(b \o <<m>>) = Len(b) + 1 /\ Len(b) \in Nat
    BY <1>3, ConcatProperties, LenProperties
  <2> HIDE DEF b
  <2>2. Len(b \o <<m>>) # Len(b)
    BY <2>1
  <2> QED
    BY <2>2
<1>5. ConnInv(c)'
  BY <1>2, <1>3, <1>4, QuietConn DEF DataInv
<1> QED
  BY <1>1, <1>5, DataStep

LEMMA DataStart ==
  ASSUME DataInv, TypeOK', NEW c \in Conn,
         \/ Accept(c) \/ GetConnectionId(c) \/ ForwardInit(c) \/ AcceptUser(c) \/ AcceptUserFails(c)
         \/ StartLocal(c)
  PROVE  DataInv'
<1>0. TypeOK /\ Stage(c) /\ "tunnel" \in Side /\ "local" \in Side
  BY FarIs DEF DataInv, ConnInv
<1> USE DEF Begun, Gone, Done, Stage, StateSet
<1>1. ASSUME Accept(c) PROVE DataInv'
  <2>1. /\ st'["tunnel"][c] = "accepted"
        /\ \A t \in Side, k \in Conn : t # "tunnel" \/ k # c => st'[t][k] = st[t][k]
    BY <1>0, <1>1, StIs DEF Accept
  <2> QED
    BY <1>0, <1>1, <2>1, MoveStep DEF Accept
<1>2. ASSUME GetConnectionId(c) PROVE DataInv'
  <2>1. /\ st'["tunnel"][c] = "asking"
        /\ \A t \in Side, k \in Conn : t # "tunnel" \/ k # c => st'[t][k] = st[t][k]
    BY <1>0, <1>2, StIs DEF GetConnectionId
  <2> QED
    BY <1>0, <1>2, <2>1, MoveStep DEF GetConnectionId
<1>3. ASSUME ForwardInit(c) PROVE DataInv'
  <2>1. /\ st'["tunnel"][c] = "run"
        /\ \A t \in Side, k \in Conn : t # "tunnel" \/ k # c => st'[t][k] = st[t][k]
    BY <1>0, <1>3, StIs DEF ForwardInit
  <2>2. lst'[c] = "listen" /\ \A k \in Conn : k # c => lst'[k] = lst[k]
    BY <1>0, <1>3 DEF ForwardInit, TypeOK
  <2> QED
    BY <1>0, <1>3, <2>1, <2>2, MoveStep DEF ForwardInit
<1>4. ASSUME AcceptUser(c) PROVE DataInv'
  <2>1. /\ st'["local"][c] = "accepted"
        /\ \A t \in Side, k \in Conn : t # "local" \/ k # c => st'[t][k] = st[t][k]
    BY <1>0, <1>4, StIs DEF AcceptUser
  <2> QED
    BY <1>0, <1>4, <2>1, MoveStep DEF AcceptUser
<1>5. ASSUME AcceptUserFails(c) PROVE DataInv'
  <2>1. /\ st'["local"][c] = "failed"
        /\ \A t \in Side, k \in Conn : t # "local" \/ k # c => st'[t][k] = st[t][k]
    BY <1>0, <1>5, StIs DEF AcceptUserFails
  <2> QED
    BY <1>0, <1>5, <2>1, MoveStep DEF AcceptUserFails
<1>6. ASSUME StartLocal(c) PROVE DataInv'
  <2>1. /\ st'["local"][c] = "accept"
        /\ \A t \in Side, k \in Conn : t # "local" \/ k # c => st'[t][k] = st[t][k]
    BY <1>0, <1>6, StIs DEF StartLocal
  <2>2. lst'[c] = "open" /\ \A k \in Conn : k # c => lst'[k] = lst[k]
    BY <1>0, <1>6 DEF StartLocal, TypeOK
  <2> QED
    BY <1>0, <1>6, <2>1, <2>2, MoveStep DEF StartLocal
<1> QED
  BY <1>1, <1>2, <1>3, <1>4, <1>5, <1>6

LEMMA DataBreaks ==
  ASSUME DataInv, TypeOK', NEW c \in Conn, NEW s \in Side,
         \/ LinkBreaks(s, c) \/ SetStateFails(c) \/ HavePortFails(c) \/ CloseListener(c)
         \/ ListenerLinkBreaks(c)
  PROVE  DataInv'
<1>0. TypeOK /\ Stage(c) /\ "tunnel" \in Side /\ "local" \in Side
  BY FarIs DEF DataInv, ConnInv
<1> USE DEF Begun, Gone, Done, Stage, StateSet
<1>1. ASSUME LinkBreaks(s, c) PROVE DataInv'
  <2>1. /\ st'[s][c] = "failed"
        /\ \A t \in Side, k \in Conn : t # s \/ k # c => st'[t][k] = st[t][k]
    BY <1>0, <1>1, EndsIs DEF LinkBreaks
  <2>2. st[s][c] \notin Gone /\ (s = "tunnel" => st[s][c] # "accept") /\ st["tunnel"][c] # "accept"
    BY <1>0, <1>1 DEF LinkBreaks, Alive
  <2>3. Stage(c)'
    <3>1. CASE s = "tunnel"
      BY <1>0, <1>1, <2>1, <3>1 DEF LinkBreaks
    <3>2. CASE s = "local"
      BY <1>0, <1>1, <2>1, <2>2, <3>2 DEF LinkBreaks, Alive
    <3> QED
      BY <3>1, <3>2 DEF Side
  <2>4. Done("local", c) => Done("local", c)'
    BY <1>0, <1>1, <2>1 DEF LinkBreaks, Alive
  <2>5. st["local"][c] \in Begun \cup Gone => st'["local"][c] \in Begun \cup Gone
    BY <1>0, <2>1
  <2> QED
    BY <1>0, <1>1, <2>1, <2>2, <2>3, <2>4, <2>5, MoveStep DEF LinkBreaks
<1>2. ASSUME SetStateFails(c) PROVE DataInv'
  <2>1. /\ st'["local"][c] = "failed"
        /\ \A t \in Side, k \in Conn : t # "local" \/ k # c => st'[t][k] = st[t][k]
    BY <1>0, <1>2, EndsIs DEF SetStateFails
  <2> QED
    BY <1>0, <1>2, <2>1, MoveStep DEF SetStateFails
<1>3. ASSUME HavePortFails(c) \/ CloseListener(c) \/ ListenerLinkBreaks(c) PROVE DataInv'
  <2>1. UNCHANGED ends /\ lst[c] \in {"listen", "setting", "set", "open"}
    BY <1>3 DEF HavePortFails, CloseListener, ListenerLinkBreaks
  <2>2. lst'[c] \in {"failed", "ended"} /\ \A k \in Conn : k # c => lst'[k] = lst[k]
    BY <1>0, <1>3 DEF HavePortFails, CloseListener, ListenerLinkBreaks, TypeOK
  <2>3. UNCHANGED st /\ UNCHANGED <<box, other, buf, open, sent, wrote>>
    BY <2>1 DEF ends
  <2>4. st'["local"][c] = st["local"][c]
    BY <2>3
  <2> QED
    BY <1>0, <2>1, <2>2, <2>3, <2>4, MoveStep
<1> QED
  BY <1>1, <1>2, <1>3

(* The registry moves no connection, but the one that gets its number.     *)
LEMMA DataRegistry ==
  ASSUME DataInv, TypeOK', Registry \/ AcceptFails
  PROVE  DataInv'
<1>0. TypeOK
  BY DEF DataInv
<1>1. ASSUME UNCHANGED <<ends, lst>> PROVE DataInv'
  <2>1. \A k \in Conn : ConnKept(k)
    BY <1>1 DEF ConnKept, EndKept, ends
  <2> QED
    BY <2>1, ConnFrame DEF DataInv
<1>2. ASSUME ConnectionId PROVE DataInv'
  <2> DEFINE c == Head(rbox).conn
  <2>1. c \in Conn /\ "tunnel" \in Side /\ "local" \in Side
    BY <1>0, <1>2, HeadTailProperties, FarIs DEF ConnectionId, NextMsg, RegistryMessage, TypeOK
  <2>2. Stage(c)
    BY <2>1 DEF DataInv, ConnInv
  <2> DEFINE v == IF st["tunnel"][c] = "asking" THEN "granted" ELSE st["tunnel"][c]
  <2>3. v \in StateSet /\ st["tunnel"][c] \in StateSet
    BY <1>0, <2>1 DEF TypeOK, StateSet, Begun
  <2>4. st' = [st EXCEPT !["tunnel"][c] = v]
    BY <1>0, <1>2, <2>1 DEF ConnectionId, TypeOK
  <2>5. UNCHANGED <<box, other, buf, open, sent, wrote, lst>>
    BY <1>2 DEF ConnectionId
  <2> HIDE DEF c
  <2>6. /\ st'["tunnel"][c] = v
        /\ \A t \in Side, k \in Conn : t # "tunnel" \/ k # c => st'[t][k] = st[t][k]
    <3> HIDE DEF v
    <3> QED
      BY <1>0, <2>1, <2>3, <2>4, StIs
  <2>7. v = st["tunnel"][c] \/ (st["tunnel"][c] = "asking" /\ v = "granted")
    OBVIOUS
  <2> HIDE DEF v
  <2> USE DEF Begun, Gone, Done, Stage
  <2> QED
    BY <2>1, <2>2, <2>5, <2>6, <2>7, MoveStep
<1>3. SpawnAcceptor \/ RegisterConnect \/ ChildExit \/ Shutdown \/ AcceptFails => UNCHANGED <<ends, lst>>
  BY DEF SpawnAcceptor, RegisterConnect, ChildExit, Shutdown, AcceptFails
<1> QED
  BY <1>1, <1>2, <1>3 DEF Registry

LEMMA Differ ==
  ASSUME NEW b \in Seq(EndMessage), NEW x \in EndMessage, NEW m \in EndMessage
  PROVE  /\ b # b \o <<m>>
         /\ b \o <<x>> = b \o <<m>> => x = m
         /\ b # <<>> => Tail(b) # b \o <<m>>
<1>1. /\ Len(b \o <<m>>) = Len(b) + 1 /\ Len(b) \in Nat
      /\ (b \o <<m>>)[Len(b) + 1] = m /\ (b \o <<x>>)[Len(b) + 1] = x
  BY ConcatProperties, LenProperties
<1>2. b # <<>> => Len(Tail(b)) = Len(b) - 1
  BY HeadTailProperties
<1>3. ASSUME b = b \o <<m>> PROVE FALSE
  BY <1>1, <1>3
<1>4. ASSUME b \o <<x>> = b \o <<m>> PROVE x = m
  <2>1. (b \o <<x>>)[Len(b) + 1] = (b \o <<m>>)[Len(b) + 1]
    BY <1>4
  <2> QED
    BY <1>1, <2>1
<1>5. ASSUME b # <<>>, Tail(b) = b \o <<m>> PROVE FALSE
  <2>1. Len(Tail(b)) = Len(b \o <<m>>)
    BY <1>5
  <2>2. Len(b) - 1 = Len(b) + 1
    BY <1>1, <1>2, <1>5, <2>1
  <2> QED
    BY <1>1, <2>2
<1> QED
  BY <1>3, <1>4, <1>5

(* A message that carries no data is sent to the tunnel end.               *)
LEMMA LetterStep ==
  ASSUME DataInv, TypeOK', NEW c \in Conn, NEW m \in EndMessage, m.kind \in {"set", "set_connected"},
         box' = Put("tunnel", c, <<m>>), UNCHANGED <<other, buf, open, sent, wrote>>,
         \A k \in Conn : k # c => lst'[k] = lst[k],
         \A t \in Side, k \in Conn : t # "local" \/ k # c => st'[t][k] = st[t][k],
         st'["local"][c] = st["local"][c] \/ {st["local"][c], st'["local"][c]} \subseteq Begun,
         m.kind = "set_connected" => st'["local"][c] \in Begun,
         Stage(c)', Done("local", c) => Done("local", c)'
  PROVE  DataInv'
<1>0. TypeOK /\ Stage(c) /\ "tunnel" \in Side /\ "local" \in Side
  BY FarIs DEF DataInv, ConnInv
<1>1. /\ box'["tunnel"][c] = IF Alive("tunnel", c) THEN box["tunnel"][c] \o <<m>> ELSE box["tunnel"][c]
      /\ \A t \in Side, k \in Conn : t # "tunnel" \/ k # c => box'[t][k] = box[t][k]
  <2>1. <<m>> \in Seq(EndMessage)
    BY LettersAre
  <2>2. /\ Put("tunnel", c, <<m>>)["tunnel"][c] =
               IF Alive("tunnel", c) THEN box["tunnel"][c] \o <<m>> ELSE box["tunnel"][c]
        /\ \A t \in Side, k \in Conn :
              t # "tunnel" \/ k # c => Put("tunnel", c, <<m>>)[t][k] = box[t][k]
    BY <1>0, <2>1, PutIs, ZenonT(30)
  <2> QED
    BY <2>2
<1>2. \A k \in Conn : k # c => ConnKept(k)
  BY <1>1 DEF ConnKept, EndKept
<1>3. ASSUME NEW t \in Side PROVE QuietEnd(t, c)
  <2>1. /\ other'[t][c] = other[t][c] /\ buf'[t][c] = buf[t][c] /\ open'[t][c] = open[t][c]
        /\ sent'[t][c] = sent[t][c] /\ wrote'[t][c] = wrote[t][c]
    OBVIOUS
  <2>2. /\ box'[t][c] = box[t][c] \/ box'[t][c] = box[t][c] \o <<m>>
        /\ t = "local" => box'[t][c] = box[t][c]
        /\ t = "tunnel" /\ st["tunnel"][c] \in {"none", "accept"} => box'[t][c] = box[t][c]
    BY <1>0, <1>1 DEF Side, Alive, Begun
  <2>3. Shifts(box[t][c], box'[t][c], Live(t, c)')
    BY <2>2 DEF Shifts
  <2>4. Live(t, c)' => Live(t, c)
    BY <1>0 DEF Live, Begun, Gone, Side
  <2>5. Done(t, c) => Done(t, c)'
    BY <1>0 DEF Done, Side
  <2>6. st'[t][c] = st[t][c] \/ (t = "local" /\ st'[t][c] \in Begun)
    BY <1>0 DEF Side
  <2> QED
    BY <1>0, <2>1, <2>2, <2>3, <2>4, <2>5, <2>6 DEF QuietEnd, Begun, Side
<1>4. box["tunnel"][c] \in Seq(EndMessage)
  BY <1>0 DEF TypeOK
<1>5. ASSUME ~(st'["local"][c] \in Begun \cup Gone), NEW n \in EndMessage, n.kind = "set_connected"
      PROVE  box'["tunnel"][c] # box["tunnel"][c] \o <<n>>
  <2>1. m # n
    BY <1>5
  <2> QED
    BY <1>1, <1>4, <2>1, Differ
<1>6. st["local"][c] \in Begun \cup Gone => st'["local"][c] \in Begun \cup Gone
  OBVIOUS
<1>7. ConnInv(c)'
  BY <1>0, <1>3, <1>5, <1>6, QuietConn DEF DataInv
<1> QED
  BY <1>2, <1>7, DataStep

LEMMA DataLetters ==
  ASSUME DataInv, TypeOK', NEW c \in Conn, HavePort(c) \/ SetConnected(c) \/ SetState(c)
  PROVE  DataInv'
<1>0. TypeOK /\ Stage(c) /\ "tunnel" \in Side /\ "local" \in Side
  BY FarIs DEF DataInv, ConnInv
<1>1. ASSUME HavePort(c) PROVE DataInv'
  <2> DEFINE m == [kind |-> "set", by |-> "listener"]
  <2>1. m \in EndMessage /\ m.kind = "set" /\ box' = Put("tunnel", c, <<m>>)
    BY <1>1, LettersAre DEF HavePort
  <2>2. lst'[c] = "setting" /\ \A k \in Conn : k # c => lst'[k] = lst[k]
    BY <1>0, <1>1 DEF HavePort, TypeOK
  <2> HIDE DEF m
  <2>3. UNCHANGED <<st, other, buf, open, sent, wrote>> /\ lst[c] = "listen"
    BY <1>1 DEF HavePort
  <2>4. Stage(c)' /\ (Done("local", c) => Done("local", c)')
    BY <1>0, <2>2, <2>3 DEF Stage, Done
  <2> QED
    BY <2>1, <2>2, <2>3, <2>4, LetterStep
<1>2. ASSUME SetConnected(c) PROVE DataInv'
  <2> DEFINE m == Msg("set_connected")
  <2>1. m \in EndMessage /\ m.kind = "set_connected" /\ box' = Put("tunnel", c, <<m>>)
    BY <1>2, LettersAre DEF SetConnected, Msg
  <2> HIDE DEF m
  <2>2. /\ st'["local"][c] = "linked"
        /\ \A t \in Side, k \in Conn : t # "local" \/ k # c => st'[t][k] = st[t][k]
    BY <1>0, <1>2, StIs DEF SetConnected, StateSet, Begun
  <2>3. UNCHANGED <<lst, other, buf, open, sent, wrote>> /\ st["local"][c] = "accepted"
    BY <1>2 DEF SetConnected
  <2>4. Stage(c)' /\ (Done("local", c) => Done("local", c)')
    BY <1>0, <2>2, <2>3 DEF Stage, Done, Gone
  <2> QED
    BY <2>1, <2>2, <2>3, <2>4, LetterStep DEF Begun
<1>3. ASSUME SetState(c) PROVE DataInv'
  <2> DEFINE m == [kind |-> "set", by |-> "local"]
  <2>1. m \in EndMessage /\ m.kind = "set" /\ box' = Put("tunnel", c, <<m>>)
    BY <1>3, LettersAre DEF SetState
  <2> HIDE DEF m
  <2>2. /\ st'["local"][c] = "setting"
        /\ \A t \in Side, k \in Conn : t # "local" \/ k # c => st'[t][k] = st[t][k]
    BY <1>0, <1>3, StIs DEF SetState, StateSet, Begun
  <2>3. UNCHANGED <<lst, other, buf, open, sent, wrote>> /\ st["local"][c] = "linked"
    BY <1>3 DEF SetState
  <2>4. Stage(c)' /\ (Done("local", c) => Done("local", c)')
    BY <1>0, <2>2, <2>3 DEF Stage, Done, Gone
  <2> QED
    BY <2>1, <2>2, <2>3, <2>4, LetterStep DEF Begun
<1> QED
  BY <1>1, <1>2, <1>3

(* An end takes a message and sends nothing on; or is over by then.        *)
LEMMA TakeStep ==
  ASSUME DataInv, TypeOK', NEW c \in Conn, NEW s \in Side, NEW kind, Takes(s, c, kind),
         box' = Taken(s, c, <<>>), UNCHANGED <<other, buf, open, sent, wrote>>,
         kind \in {"tcp", "send", "close"} => st'[s][c] \in Gone,
         st'[s][c] = "run" \/ st'[s][c] \in {"hungup", "failed"},
         \A k \in Conn : k # c => lst'[k] = lst[k] /\ \A t \in Side : st'[t][k] = st[t][k],
         \A t \in Side : t # s => st'[t][c] = st[t][c] \/ {st[t][c], st'[t][c]} \subseteq Begun,
         Stage(c)', Done("local", c) => Done("local", c)'
  PROVE  DataInv'
<1>0. TypeOK /\ Stage(c) /\ "tunnel" \in Side /\ "local" \in Side /\ Far(s) \in Side /\ Far(s) # s
  BY FarIs DEF DataInv, ConnInv
<1>1. /\ box[s][c] \in Seq(EndMessage) /\ box[s][c] # <<>> /\ st[s][c] = "run"
      /\ Head(box[s][c]).kind = kind
  BY <1>0, HeadIs
<1>2. /\ box'[s][c] = Tail(box[s][c])
      /\ box'[Far(s)][c] = box[Far(s)][c]
      /\ \A t \in Side, k \in Conn : k # c => box'[t][k] = box[t][k]
  <2>1. box[Far(s)][c] \in Seq(EndMessage)
    BY <1>0 DEF TypeOK
  <2>2. box[Far(s)][c] \o <<>> = box[Far(s)][c]
    BY <2>1, ConcatEmptySeq
  <2>3. <<>> \in Seq(EndMessage)
    BY LettersAre
  <2>4. /\ Taken(s, c, <<>>)[s][c] = Tail(box[s][c])
        /\ Taken(s, c, <<>>)[Far(s)][c] =
               IF Alive(Far(s), c) THEN box[Far(s)][c] \o <<>> ELSE box[Far(s)][c]
        /\ \A t \in Side, k \in Conn : k # c => Taken(s, c, <<>>)[t][k] = box[t][k]
    BY <1>0, <1>1, <2>3, TakenIs, ZenonT(120)
  <2> QED
    BY <2>2, <2>4
<1>3. \A k \in Conn : k # c => ConnKept(k)
  BY <1>2 DEF ConnKept, EndKept
<1>4. ASSUME NEW t \in Side PROVE QuietEnd(t, c)
  <2>1. /\ other'[t][c] = other[t][c] /\ buf'[t][c] = buf[t][c] /\ open'[t][c] = open[t][c]
        /\ sent'[t][c] = sent[t][c] /\ wrote'[t][c] = wrote[t][c]
    OBVIOUS
  <2>2. CASE t = s
    <3>1. Shifts(box[s][c], box'[s][c], Live(s, c)')
      BY <1>1, <1>2 DEF Shifts, Live
    <3>2. Done(s, c) => Done(s, c)'
      BY <1>1 DEF Done, Gone
    <3> QED
      BY <1>1, <2>1, <2>2, <3>1, <3>2 DEF QuietEnd, Live, Gone
  <2>3. CASE t # s
    <3>1. t = Far(s) /\ box'[t][c] = box[t][c]
      BY <1>2, <2>3 DEF Side, Far
    <3>2. Shifts(box[t][c], box'[t][c], Live(t, c)')
      BY <3>1 DEF Shifts
    <3>3. Done(t, c) => Done(t, c)'
      BY <2>3 DEF Done, Side, Gone, Begun
    <3> QED
      BY <2>1, <2>3, <3>1, <3>2, <3>3 DEF QuietEnd, Live, Gone, Begun
  <2> QED
    BY <2>2, <2>3
<1>5. \A m \in EndMessage : box'["tunnel"][c] # box["tunnel"][c] \o <<m>>
  <2>1. box["tunnel"][c] \in Seq(EndMessage)
    BY <1>0 DEF TypeOK
  <2>2. CASE s = "tunnel"
    BY <1>1, <1>2, <2>1, <2>2, Differ
  <2>3. CASE s # "tunnel"
    <3>1. box'["tunnel"][c] = box["tunnel"][c]
      BY <1>2, <2>3 DEF Side, Far
    <3> QED
      BY <2>1, <3>1, Differ
  <2> QED
    BY <2>2, <2>3
<1>6. st["local"][c] \in Begun \cup Gone => st'["local"][c] \in Begun \cup Gone
  BY <1>0 DEF Begun, Gone
<1>7. ConnInv(c)'
  BY <1>0, <1>4, <1>5, <1>6, QuietConn DEF DataInv
<1> QED
  BY <1>3, <1>7, DataStep

(* An end takes a message, and sends f on, as far as there is a far end.   *)
Flows(s, c, kind, f) ==
    /\ Takes(s, c, kind)
    /\ f \in Seq(EndMessage) /\ \A i \in DOMAIN f : f[i].kind \in {"send", "close"}
    /\ box' = Taken(s, c, f)
    /\ \A t \in Side, k \in Conn : t # s \/ k # c =>
          /\ st'[t][k] = st[t][k] /\ other'[t][k] = other[t][k]
          /\ buf'[t][k] = buf[t][k] /\ wrote'[t][k] = wrote[t][k]
    /\ UNCHANGED <<open, sent, lst>>
    /\ st'[s][c] \in {"run"} \cup Gone
    /\ other'[s][c] = other[s][c] \/ other'[s][c] = "connected"
    /\ other'[s][c] = "connected" =>
          buf'[s][c] = <<>> /\ st[Far(s)][c] \in Begun \cup Gone

LEMMA FlowIs ==
  ASSUME DataInv, NEW c \in Conn, NEW s \in Side, NEW kind, NEW f, Flows(s, c, kind, f)
  PROVE  /\ box[s][c] \in Seq(EndMessage) /\ box[s][c] # <<>> /\ box[Far(s)][c] \in Seq(EndMessage)
         /\ Head(box[s][c]).kind = kind /\ st[s][c] = "run"
         /\ box'[s][c] = Tail(box[s][c])
         /\ box'[Far(s)][c] = IF Alive(Far(s), c) THEN box[Far(s)][c] \o f ELSE box[Far(s)][c]
         /\ \A k \in Conn : k # c => ConnKept(k)
<1>1. TypeOK /\ Far(s) \in Side /\ Far(s) # s
  BY FarIs DEF DataInv
<1>2. Takes(s, c, kind) /\ f \in Seq(EndMessage) /\ box' = Taken(s, c, f)
  BY DEF Flows
<1>3. /\ box[s][c] \in Seq(EndMessage) /\ box[s][c] # <<>> /\ box[Far(s)][c] \in Seq(EndMessage)
      /\ Head(box[s][c]).kind = kind /\ st[s][c] = "run"
  BY <1>1, <1>2, HeadIs DEF TypeOK
<1>4. /\ Taken(s, c, f)[s][c] = Tail(box[s][c])
      /\ Taken(s, c, f)[Far(s)][c] = IF Alive(Far(s), c) THEN box[Far(s)][c] \o f ELSE box[Far(s)][c]
      /\ \A t \in Side, k \in Conn : k # c => Taken(s, c, f)[t][k] = box[t][k]
  BY <1>1, <1>2, <1>3, TakenIs
<1>5. \A k \in Conn : k # c => ConnKept(k)
  BY <1>2, <1>4 DEF Flows, ConnKept, EndKept
<1> QED
  BY <1>2, <1>3, <1>4, <1>5

LEMMA FlowStep ==
  ASSUME DataInv, TypeOK', NEW c \in Conn, NEW s \in Side, NEW kind, NEW f, Flows(s, c, kind, f),
         Chain(s, Far(s), c)', Chain(Far(s), s, c)'
  PROVE  DataInv'
<1> DEFINE t == Far(s)
<1>0. TypeOK /\ ConnInv(c) /\ t \in Side /\ t # s /\ Far(t) = s /\ Side = {"tunnel", "local"} /\ Side = {s, t}
  BY FarIs DEF DataInv
<1>1. /\ box[s][c] \in Seq(EndMessage) /\ box[s][c] # <<>> /\ box[t][c] \in Seq(EndMessage)
      /\ Head(box[s][c]).kind = kind /\ st[s][c] = "run"
      /\ box'[s][c] = Tail(box[s][c])
      /\ box'[t][c] = IF Alive(t, c) THEN box[t][c] \o f ELSE box[t][c]
      /\ \A k \in Conn : k # c => ConnKept(k)
  BY FlowIs
<1>2. /\ st'[t][c] = st[t][c] /\ other'[t][c] = other[t][c] /\ buf'[t][c] = buf[t][c]
      /\ wrote'[t][c] = wrote[t][c] /\ UNCHANGED <<open, sent, lst>>
  BY <1>0 DEF Flows
<1>3. /\ st'[s][c] \in {"run"} \cup Gone
      /\ other'[s][c] = other[s][c] \/ other'[s][c] = "connected"
      /\ other'[s][c] = "connected" => buf'[s][c] = <<>> /\ st[t][c] \in Begun \cup Gone
      /\ f \in Seq(EndMessage) /\ \A i \in DOMAIN f : f[i].kind \in {"send", "close"}
  BY DEF Flows
<1>4. Chain(s, t, c)' /\ Chain(t, s, c)'
  OBVIOUS
<1> HIDE DEF t
<1>5. \A u \in Side : Chain(u, Far(u), c)'
  BY <1>0, <1>4 DEF t
<1>6. Stage(c)'
  BY <1>0, <1>1, <1>2, <1>3 DEF ConnInv, Stage, Gone
<1>7. Knows(c)'
  <2>1. CASE s = "tunnel"
    <3>1. t = "local" /\ (st["local"][c] \in Begun \cup Gone => st'["local"][c] \in Begun \cup Gone)
      BY <1>0, <1>2, <2>1
    <3>2. \A i \in DOMAIN box'[s][c] : i + 1 \in DOMAIN box[s][c] /\ box'[s][c][i] = box[s][c][i + 1]
      BY <1>1, TailIs
    <3>3. \A i \in DOMAIN box'["tunnel"][c] : box'["tunnel"][c][i].kind = "set_connected" =>
              st["local"][c] \in Begun \cup Gone
      BY <1>0, <2>1, <3>2 DEF ConnInv, Knows
    <3>4. other'["tunnel"][c] = "connected" => st["local"][c] \in Begun \cup Gone
      BY <1>3, <2>1, <3>1
    <3> QED
      BY <3>1, <3>3, <3>4 DEF Knows
  <2>2. CASE s = "local"
    <3>1. t = "tunnel" /\ st["local"][c] \in Begun \cup Gone /\ st'["local"][c] \in Begun \cup Gone
      BY <1>0, <1>1, <1>3, <2>2 DEF Begun
    <3> QED
      BY <3>1 DEF Knows
  <2> QED
    BY <1>0, <2>1, <2>2
<1>8. /\ HangupOf(box'[s][c], open'[s][c]) /\ Fresh(s, c)'
      /\ other'[s][c] = "connected" => buf'[s][c] = <<>>
  <2>1. HangupOf(box[s][c], open[s][c])
    BY <1>0 DEF ConnInv, Sides
  <2>2. HangupOf(Tail(box[s][c]), open[s][c])
    BY <1>1, <2>1, HangupTail
  <2> QED
    BY <1>1, <1>2, <1>3, <2>2 DEF Fresh, Gone
<1>9. /\ HangupOf(box'[t][c], open'[t][c]) /\ Fresh(t, c)'
      /\ other'[t][c] = "connected" => buf'[t][c] = <<>>
  <2>1. HangupOf(box[t][c], open[t][c]) /\ Fresh(t, c) /\ (other[t][c] = "connected" => buf[t][c] = <<>>)
    BY <1>0 DEF ConnInv, Sides
  <2>2. HangupOf(box[t][c] \o f, open[t][c])
    <3>1. \A i \in DOMAIN f : f[i].kind \notin {"tcp", "tcp_closed"}
      BY <1>3
    <3> QED
      BY <1>1, <1>3, <2>1, <3>1, HangupPlus
  <2>3. HangupOf(box'[t][c], open'[t][c])
    BY <1>1, <1>2, <2>1, <2>2
  <2>4. Fresh(t, c)'
    BY <1>1, <1>2, <2>1 DEF Fresh, Alive, Begun
  <2> QED
    BY <1>2, <2>1, <2>3, <2>4
<1>10. Sides(c)'
  BY <1>0, <1>8, <1>9 DEF Sides
<1>11. ConnInv(c)'
  BY <1>5, <1>6, <1>7, <1>10 DEF ConnInv
<1> QED
  BY <1>1, <1>11, DataStep

(* The two chains of a connection, by their values.                        *)
LEMMA ChainsAre ==
  ASSUME DataInv, NEW c \in Conn, NEW s \in Side, st[s][c] = "run"
  PROVE  /\ ChainOf(Live(Far(s), c), st[Far(s)][c] = "told", wrote[Far(s)][c], box[Far(s)][c],
                    sent[s][c], TRUE, FALSE, buf[s][c], box[s][c])
         /\ ChainOf(TRUE, FALSE, wrote[s][c], box[s][c],
                    sent[Far(s)][c], Live(Far(s), c), Done(Far(s), c), buf[Far(s)][c], box[Far(s)][c])
<1>1. Far(s) \in Side /\ Far(Far(s)) = s
  BY FarIs
<1>2. Chain(s, Far(s), c) /\ Chain(Far(s), s, c)
  BY <1>1 DEF DataInv, ConnInv
<1>3. Live(s, c) = TRUE /\ Done(s, c) = FALSE /\ (st[s][c] = "told") = FALSE
  BY DEF Live, Done, Gone
<1> QED
  BY <1>2, <1>3 DEF Chain

LEMMA ChainsRun ==
  ASSUME NEW c \in Conn, NEW s \in Side, NEW kind, NEW f, Flows(s, c, kind, f), st'[s][c] = "run",
         ChainOf(Live(Far(s), c), st[Far(s)][c] = "told", wrote[Far(s)][c], box'[Far(s)][c],
                 sent[s][c], TRUE, FALSE, buf'[s][c], box'[s][c]),
         ChainOf(TRUE, FALSE, wrote'[s][c], box'[s][c],
                 sent[Far(s)][c], Live(Far(s), c), Done(Far(s), c), buf[Far(s)][c], box'[Far(s)][c])
  PROVE  Chain(s, Far(s), c)' /\ Chain(Far(s), s, c)'
<1>1. Far(s) \in Side /\ Far(s) # s
  BY FarIs
<1>2. /\ st'[Far(s)][c] = st[Far(s)][c] /\ wrote'[Far(s)][c] = wrote[Far(s)][c]
      /\ buf'[Far(s)][c] = buf[Far(s)][c] /\ UNCHANGED <<sent, lst>>
  BY <1>1 DEF Flows
<1>3. Live(s, c)' = TRUE /\ Done(s, c)' = FALSE /\ (st'[s][c] = "told") = FALSE
  BY DEF Live, Done, Gone
<1>4. Live(Far(s), c)' = Live(Far(s), c) /\ Done(Far(s), c)' = Done(Far(s), c)
  BY <1>2 DEF Live, Done
<1> QED
  BY <1>2, <1>3, <1>4 DEF Chain

LEMMA ChainsOver ==
  ASSUME NEW c \in Conn, NEW s \in Side, NEW kind, NEW f, Flows(s, c, kind, f), st'[s][c] \in Gone,
         ChainOf(Live(Far(s), c), st[Far(s)][c] = "told", wrote[Far(s)][c], box'[Far(s)][c],
                 sent[s][c], FALSE, TRUE, buf'[s][c], box'[s][c]),
         ChainOf(FALSE, st'[s][c] = "told", wrote'[s][c], box'[s][c],
                 sent[Far(s)][c], Live(Far(s), c), Done(Far(s), c), buf[Far(s)][c], box'[Far(s)][c])
  PROVE  Chain(s, Far(s), c)' /\ Chain(Far(s), s, c)'
<1>1. Far(s) \in Side /\ Far(s) # s
  BY FarIs
<1>2. /\ st'[Far(s)][c] = st[Far(s)][c] /\ wrote'[Far(s)][c] = wrote[Far(s)][c]
      /\ buf'[Far(s)][c] = buf[Far(s)][c] /\ UNCHANGED <<sent, lst>>
  BY <1>1 DEF Flows
<1>3. Live(s, c)' = FALSE /\ Done(s, c)' = TRUE
  BY DEF Live, Done
<1>4. Live(Far(s), c)' = Live(Far(s), c) /\ Done(Far(s), c)' = Done(Far(s), c)
  BY <1>2 DEF Live, Done
<1> QED
  BY <1>2, <1>3, <1>4 DEF Chain

(* The end that a running end sends to has started, and is over if it is   *)
(* no longer there.                                                        *)
LEMMA FarBegun ==
  ASSUME DataInv, NEW c \in Conn, NEW s \in Side, st[s][c] = "run",
         \/ other[s][c] = "connected"
         \/ box[s][c] # <<>> /\ Head(box[s][c]).kind = "set_connected"
  PROVE  /\ st[Far(s)][c] \in Begun \cup Gone
         /\ ~Alive(Far(s), c) => ~Live(Far(s), c)
<1>1. Stage(c) /\ Knows(c) /\ TypeOK
  BY DEF DataInv, ConnInv
<1>2. CASE s = "local"
  <2>1. lst[c] # "none" /\ st["tunnel"][c] \in {"run"} \cup Gone
    BY <1>1, <1>2 DEF Stage
  <2> QED
    BY <1>2, <2>1, FarIs DEF Begun, Alive, Live
<1>3. CASE s = "tunnel"
  <2>1. box["tunnel"][c] \in Seq(EndMessage)
    BY <1>1, FarIs DEF TypeOK
  <2>2. st["local"][c] \in Begun \cup Gone
    <3>1. CASE other[s][c] = "connected"
      BY <1>1, <1>3, <3>1 DEF Knows
    <3>2. CASE box[s][c] # <<>> /\ Head(box[s][c]).kind = "set_connected"
      BY <1>1, <1>3, <2>1, <3>2, TailIs DEF Knows
    <3> QED
      BY <3>1, <3>2
  <2> QED
    BY <1>3, <2>2, FarIs DEF Alive, Live
<1> QED
  BY <1>2, <1>3, FarIs

LEMMA SendsAre ==
  ASSUME NEW b \in Seq(1 .. MaxData)
  PROVE  /\ Flushed(b) \in Seq(EndMessage)
         /\ \A i \in DOMAIN Flushed(b) : Flushed(b)[i].kind = "send"
<1>1. \A k : Send(k).kind = "send"
  BY DEF Send
<1> QED
  BY <1>1, FlushedIs

LEMMA WroteIs ==
  ASSUME TypeOK, NEW s \in Side, NEW c \in Conn
  PROVE  wrote[s][c] \in Seq(Nat) /\ sent[s][c] \in Nat
<1>1. wrote[s][c] \in Seq(1 .. MaxData) /\ sent[s][c] \in 0 .. MaxData
  BY DEF TypeOK
<1>2. 1 .. MaxData \subseteq Nat
  OBVIOUS
<1>3. Seq(1 .. MaxData) \subseteq Seq(Nat)
  BY <1>2, SeqMonotonic
<1>4. sent[s][c] \in Nat
  BY <1>1
<1> QED
  BY <1>1, <1>3, <1>4

LEMMA DataTcpWaiting ==
  ASSUME DataInv, TypeOK', NEW c \in Conn, NEW s \in Side, TcpData(s, c), other[s][c] = "waiting"
  PROVE  DataInv'
<1> DEFINE t == Far(s)
           x == Head(box[s][c]).n
           b == <<x>> \o buf[s][c]
<1>0. TypeOK /\ t \in Side /\ t # s
  BY FarIs DEF DataInv
<1>1. /\ box[s][c] \in Seq(EndMessage) /\ box[s][c] # <<>> /\ Head(box[s][c]).kind = "tcp"
      /\ st[s][c] = "run" /\ Takes(s, c, "tcp")
  BY <1>0, HeadIs DEF TcpData
<1>2. buf' = [buf EXCEPT ![s][c] = b] /\ box' = Taken(s, c, <<>>)
  BY DEF TcpData
<1>3. UNCHANGED <<st, other, open, sent, wrote, lst>>
  BY DEF TcpData
<1>4. buf \in [Side -> [Conn -> Seq(1 .. MaxData)]] /\ buf[s][c] \in Seq(1 .. MaxData)
  BY <1>0 DEF TypeOK
<1> HIDE DEF t, x, b
<1>5. buf'[s][c] = b /\ \A u \in Side, k \in Conn : u # s \/ k # c => buf'[u][k] = buf[u][k]
  BY <1>2, <1>4
<1>6. <<>> \in Seq(EndMessage) /\ \A i \in DOMAIN <<>> : <<>>[i].kind \in {"send", "close"}
  OBVIOUS
<1>7. Flows(s, c, "tcp", <<>>)
  BY <1>1, <1>2, <1>3, <1>5, <1>6 DEF Flows
<1>8. box'[s][c] = Tail(box[s][c]) /\ box'[t][c] = box[t][c]
  <2>1. /\ box'[s][c] = Tail(box[s][c]) /\ box[t][c] \in Seq(EndMessage)
        /\ box'[t][c] = IF Alive(t, c) THEN box[t][c] \o <<>> ELSE box[t][c]
    BY <1>7, FlowIs DEF t
  <2> QED
    BY <2>1, ConcatEmptySeq
<1>9. wrote[s][c] \in Seq(Nat) /\ wrote[t][c] \in Seq(Nat) /\ sent[s][c] \in Nat /\ sent[t][c] \in Nat
  BY <1>0, WroteIs
<1>10. ChainOf(Live(t, c), st[t][c] = "told", wrote[t][c], box[t][c],
               sent[s][c], TRUE, FALSE, b, Tail(box[s][c]))
  <2>1. ChainOf(Live(t, c), st[t][c] = "told", wrote[t][c], box[t][c],
                sent[s][c], TRUE, FALSE, buf[s][c], box[s][c])
    BY <1>1, ChainsAre DEF t
  <2> QED
    BY <1>1, <1>4, <1>9, <2>1, ChainBuffers DEF b, x
<1>11. ChainOf(TRUE, FALSE, wrote[s][c], Tail(box[s][c]),
               sent[t][c], Live(t, c), Done(t, c), buf[t][c], box[t][c])
  <2>1. ChainOf(TRUE, FALSE, wrote[s][c], box[s][c],
                sent[t][c], Live(t, c), Done(t, c), buf[t][c], box[t][c])
    BY <1>1, ChainsAre DEF t
  <2>2. box[t][c] \in Seq(EndMessage)
    BY <1>0 DEF TypeOK
  <2> QED
    BY <1>1, <2>1, <2>2, ChainSkip
<1>12. Chain(s, Far(s), c)' /\ Chain(Far(s), s, c)'
  BY <1>1, <1>3, <1>5, <1>7, <1>8, <1>10, <1>11, ChainsRun DEF t
<1> QED
  BY <1>7, <1>12, FlowStep

(* The data in b, the newest that is upstream of an end, is sent on.       *)
LEMMA FlushStep ==
  ASSUME DataInv, TypeOK', NEW c \in Conn, NEW s \in Side, NEW kind, kind \notin {"send", "close"},
         NEW b \in Seq(1 .. MaxData), Flows(s, c, kind, Flushed(b)),
         st'[s][c] = "run", wrote'[s][c] = wrote[s][c], buf'[s][c] = <<>>,
         ~Alive(Far(s), c) => ~Live(Far(s), c),
         ChainOf(Live(Far(s), c), st[Far(s)][c] = "told", wrote[Far(s)][c], box[Far(s)][c],
                 sent[s][c], TRUE, FALSE, b, Tail(box[s][c]))
  PROVE  DataInv'
<1> DEFINE t == Far(s)
           f == Flushed(b)
           d == st[t][c] = "told"
<1>0. TypeOK /\ t \in Side /\ t # s
  BY FarIs DEF DataInv
<1>1. f \in Seq(EndMessage) /\ \A i \in DOMAIN f : f[i].kind = "send"
  BY SendsAre
<1>2. /\ box[s][c] \in Seq(EndMessage) /\ box[s][c] # <<>> /\ box[t][c] \in Seq(EndMessage)
      /\ Head(box[s][c]).kind = kind /\ st[s][c] = "run"
      /\ box'[s][c] = Tail(box[s][c])
      /\ box'[t][c] = IF Alive(t, c) THEN box[t][c] \o f ELSE box[t][c]
  BY FlowIs
<1>3. /\ wrote[s][c] \in Seq(Nat) /\ sent[s][c] \in Nat
      /\ wrote[t][c] \in Seq(Nat) /\ sent[t][c] \in Nat
  BY <1>0, WroteIs
<1>4. ChainOf(Live(t, c), d, wrote[t][c], box[t][c], sent[s][c], TRUE, FALSE, b, Tail(box[s][c]))
  OBVIOUS
<1> HIDE DEF t, d
<1>5. ChainOf(Live(t, c), d, wrote[t][c], box'[t][c], sent[s][c], TRUE, FALSE, <<>>, Tail(box[s][c]))
  <2>1. CASE Alive(t, c)
    <3>1. ChainOf(Live(t, c), d, wrote[t][c], box[t][c] \o f, sent[s][c], TRUE, FALSE, <<>>, Tail(box[s][c]))
      BY <1>2, <1>3, <1>4, ChainFlushes
    <3> QED
      BY <1>2, <2>1, <3>1
  <2>2. CASE ~Alive(t, c)
    <3>1. Live(t, c) = FALSE
      BY <2>2 DEF Live, t
    <3>2. ChainOf(FALSE, d, wrote[t][c], box[t][c], sent[s][c], TRUE, FALSE, b, Tail(box[s][c]))
      BY <1>4, <3>1
    <3>3. ChainOf(FALSE, d, wrote[t][c], box'[t][c], sent[s][c], TRUE, FALSE, <<>>, Tail(box[s][c]))
      BY <3>2 DEF ChainOf
    <3> QED
      BY <3>1, <3>3
  <2> QED
    BY <2>1, <2>2
<1>6. ChainOf(TRUE, FALSE, wrote[s][c], Tail(box[s][c]),
              sent[t][c], Live(t, c), Done(t, c), buf[t][c], box'[t][c])
  <2>1. ChainOf(TRUE, FALSE, wrote[s][c], box[s][c],
                sent[t][c], Live(t, c), Done(t, c), buf[t][c], box[t][c])
    BY <1>2, ChainsAre DEF t
  <2>2. ChainOf(TRUE, FALSE, wrote[s][c], Tail(box[s][c]),
                sent[t][c], Live(t, c), Done(t, c), buf[t][c], box[t][c])
    BY <1>2, <2>1, ChainSkip
  <2>3. \A i \in DOMAIN f : f[i].kind # "tcp"
    BY <1>1
  <2>4. Tail(box[s][c]) \in Seq(EndMessage)
    BY <1>2, HeadTailProperties
  <2>5. ChainOf(TRUE, FALSE, wrote[s][c], Tail(box[s][c]),
                sent[t][c], Live(t, c), Done(t, c), buf[t][c], box[t][c] \o f)
    BY <1>1, <1>2, <2>2, <2>3, ChainMore
  <2> QED
    BY <1>2, <2>2, <2>5
<1>7. Chain(s, Far(s), c)' /\ Chain(Far(s), s, c)'
  BY <1>2, <1>5, <1>6, ChainsRun DEF t, d
<1> QED
  BY <1>7, FlowStep

LEMMA DataTcpConnected ==
  ASSUME DataInv, TypeOK', NEW c \in Conn, NEW s \in Side, TcpData(s, c), other[s][c] # "waiting"
  PROVE  DataInv'
<1> DEFINE x == Head(box[s][c]).n
           b == <<x>> \o buf[s][c]
           f == Flushed(b)
<1>0. TypeOK /\ Far(s) \in Side /\ Far(s) # s
  BY FarIs DEF DataInv
<1>1. /\ box[s][c] \in Seq(EndMessage) /\ box[s][c] # <<>> /\ Head(box[s][c]).kind = "tcp"
      /\ st[s][c] = "run" /\ Takes(s, c, "tcp") /\ x \in 1 .. MaxData
  BY <1>0, HeadIs DEF TcpData
<1>2. buf' = [buf EXCEPT ![s][c] = <<>>] /\ box' = Taken(s, c, f)
  BY DEF TcpData
<1>3. UNCHANGED <<st, other, open, sent, wrote, lst>>
  BY DEF TcpData
<1>4. buf \in [Side -> [Conn -> Seq(1 .. MaxData)]] /\ buf[s][c] \in Seq(1 .. MaxData)
  BY <1>0, SMTT(30) DEF TypeOK
<1>5. b \in Seq(1 .. MaxData)
  BY <1>1, <1>4, ConcatProperties
<1> HIDE DEF x
<1>6. ChainOf(Live(Far(s), c), st[Far(s)][c] = "told", wrote[Far(s)][c], box[Far(s)][c],
              sent[s][c], TRUE, FALSE, b, Tail(box[s][c]))
  <2>1. ChainOf(Live(Far(s), c), st[Far(s)][c] = "told", wrote[Far(s)][c], box[Far(s)][c],
                sent[s][c], TRUE, FALSE, buf[s][c], box[s][c])
    BY <1>1, ChainsAre
  <2>2. wrote[Far(s)][c] \in Seq(Nat) /\ sent[s][c] \in Nat
    BY <1>0, WroteIs
  <2> QED
    BY <1>1, <1>4, <2>1, <2>2, ChainBuffers DEF x
<1> HIDE DEF b
<1>7. f \in Seq(EndMessage) /\ \A i \in DOMAIN f : f[i].kind = "send"
  BY <1>5, SendsAre
<1>8. /\ st[Far(s)][c] \in Begun \cup Gone
      /\ ~Alive(Far(s), c) => ~Live(Far(s), c)
  <2>1. other[s][c] = "connected"
    BY <1>0 DEF TypeOK
  <2> QED
    BY <1>1, <2>1, FarBegun
<1>9. buf'[s][c] = <<>> /\ \A u \in Side, k \in Conn : u # s \/ k # c => buf'[u][k] = buf[u][k]
  BY <1>2, <1>4
<1> HIDE DEF f
<1>10. Flows(s, c, "tcp", f)
  BY <1>1, <1>2, <1>3, <1>7, <1>8, <1>9 DEF Flows
<1> QED
  BY <1>1, <1>3, <1>5, <1>6, <1>8, <1>9, <1>10, FlushStep DEF f

LEMMA DataConnected ==
  ASSUME DataInv, TypeOK', NEW c \in Conn, NEW s \in Side, Connected(s, c)
  PROVE  DataInv'
<1> DEFINE b == buf[s][c]
           f == Flushed(b)
<1>0. TypeOK /\ Far(s) \in Side /\ Far(s) # s
  BY FarIs DEF DataInv
<1>1. /\ box[s][c] \in Seq(EndMessage) /\ box[s][c] # <<>> /\ Head(box[s][c]).kind = "set_connected"
      /\ st[s][c] = "run" /\ Takes(s, c, "set_connected")
  BY <1>0, HeadIs DEF Connected
<1>2. /\ buf' = [buf EXCEPT ![s][c] = <<>>] /\ box' = Taken(s, c, f)
      /\ other' = [other EXCEPT ![s][c] = "connected"]
  BY DEF Connected
<1>3. UNCHANGED <<st, open, sent, wrote, lst>>
  BY DEF Connected
<1>4. /\ buf \in [Side -> [Conn -> Seq(1 .. MaxData)]] /\ b \in Seq(1 .. MaxData)
      /\ other \in [Side -> [Conn -> {"waiting", "connected"}]]
  BY <1>0, SMTT(30) DEF TypeOK
<1>5. Far(s) \in Side /\ box[Far(s)][c] \in Seq(EndMessage)
  BY <1>0 DEF TypeOK
<1>6. ChainOf(Live(Far(s), c), st[Far(s)][c] = "told", wrote[Far(s)][c], box[Far(s)][c],
              sent[s][c], TRUE, FALSE, b, Tail(box[s][c]))
  <2>1. ChainOf(Live(Far(s), c), st[Far(s)][c] = "told", wrote[Far(s)][c], box[Far(s)][c],
                sent[s][c], TRUE, FALSE, b, box[s][c])
    BY <1>1, ChainsAre
  <2> HIDE DEF b
  <2> QED
    BY <1>1, <1>5, <2>1, ChainSkip
<1>7. f \in Seq(EndMessage) /\ \A i \in DOMAIN f : f[i].kind = "send"
  BY <1>4, SendsAre
<1>8. /\ st[Far(s)][c] \in Begun \cup Gone
      /\ ~Alive(Far(s), c) => ~Live(Far(s), c)
  BY <1>1, FarBegun
<1>9. /\ buf'[s][c] = <<>> /\ \A u \in Side, k \in Conn : u # s \/ k # c => buf'[u][k] = buf[u][k]
      /\ other'[s][c] = "connected" /\ \A u \in Side, k \in Conn : u # s \/ k # c => other'[u][k] = other[u][k]
  BY <1>2, <1>4
<1> HIDE DEF f, b
<1>10. Flows(s, c, "set_connected", f)
  BY <1>1, <1>2, <1>3, <1>7, <1>8, <1>9 DEF Flows
<1> QED
  BY <1>1, <1>3, <1>4, <1>6, <1>8, <1>9, <1>10, FlushStep DEF f

LEMMA DataSend ==
  ASSUME DataInv, TypeOK', NEW c \in Conn, NEW s \in Side, SendData(s, c)
  PROVE  DataInv'
<1> DEFINE t == Far(s)
           x == Head(box[s][c]).n
<1>0. TypeOK /\ t \in Side /\ t # s /\ Stage(c)
  BY FarIs DEF DataInv, ConnInv
<1>1. /\ box[s][c] \in Seq(EndMessage) /\ box[s][c] # <<>> /\ Head(box[s][c]).kind = "send"
      /\ st[s][c] = "run" /\ Takes(s, c, "send") /\ x \in 1 .. MaxData /\ box' = Taken(s, c, <<>>)
  BY <1>0, HeadIs DEF SendData
<1>2. UNCHANGED <<other, buf, open, sent, lst>>
  BY DEF SendData
<1>3. CASE ~open[s][c]
  <2>1. Ends(s, c, "failed") /\ UNCHANGED wrote
    BY <1>3 DEF SendData
  <2>2. st'[s][c] = "failed" /\ \A u \in Side, k \in Conn : u # s \/ k # c => st'[u][k] = st[u][k]
    BY <1>0, <2>1, EndsIs DEF Gone
  <2>3. Stage(c)' /\ (Done("local", c) => Done("local", c)')
    BY <1>0, <1>1, <1>2, <2>2 DEF Stage, Done, Gone, Side
  <2> QED
    BY <1>1, <1>2, <2>1, <2>2, <2>3, TakeStep DEF Gone
<1>4. CASE open[s][c]
  <2> DEFINE v == Append(wrote[s][c], x)
  <2>1. wrote' = [wrote EXCEPT ![s][c] = v] /\ UNCHANGED st
    BY <1>0, <1>4 DEF SendData, TypeOK
  <2>2. wrote \in [Side -> [Conn -> Seq(1 .. MaxData)]]
    BY <1>0 DEF TypeOK
  <2> HIDE DEF x, v, t
  <2>3. wrote'[s][c] = v /\ \A u \in Side, k \in Conn : u # s \/ k # c => wrote'[u][k] = wrote[u][k]
    BY <2>1, <2>2
  <2>4. <<>> \in Seq(EndMessage) /\ \A i \in DOMAIN <<>> : <<>>[i].kind \in {"send", "close"}
    OBVIOUS
  <2>5. other[s][c] = "connected" => buf[s][c] = <<>> /\ st[Far(s)][c] \in Begun \cup Gone
    BY <1>1, FarBegun DEF DataInv, ConnInv, Sides
  <2>6. Flows(s, c, "send", <<>>)
    BY <1>1, <1>2, <2>1, <2>3, <2>4, <2>5 DEF Flows
  <2>7. box'[s][c] = Tail(box[s][c]) /\ box'[t][c] = box[t][c]
    <3>1. /\ box'[s][c] = Tail(box[s][c]) /\ box[t][c] \in Seq(EndMessage)
          /\ box'[t][c] = IF Alive(t, c) THEN box[t][c] \o <<>> ELSE box[t][c]
      BY <2>6, FlowIs DEF t
    <3> QED
      BY <3>1, ConcatEmptySeq
  <2>8. wrote[s][c] \in Seq(Nat) /\ wrote[t][c] \in Seq(Nat) /\ sent[s][c] \in Nat /\ sent[t][c] \in Nat
    BY <1>0, WroteIs
  <2>9. ChainOf(Live(t, c), st[t][c] = "told", wrote[t][c], box[t][c],
                sent[s][c], TRUE, FALSE, buf[s][c], Tail(box[s][c]))
    <3>1. ChainOf(Live(t, c), st[t][c] = "told", wrote[t][c], box[t][c],
                  sent[s][c], TRUE, FALSE, buf[s][c], box[s][c])
      BY <1>1, ChainsAre DEF t
    <3>2. box[t][c] \in Seq(EndMessage)
      BY <1>0 DEF TypeOK
    <3> QED
      BY <1>1, <3>1, <3>2, ChainSkip
  <2>10. ChainOf(TRUE, FALSE, v, Tail(box[s][c]),
                 sent[t][c], Live(t, c), Done(t, c), buf[t][c], box[t][c])
    <3>1. ChainOf(TRUE, FALSE, wrote[s][c], box[s][c],
                  sent[t][c], Live(t, c), Done(t, c), buf[t][c], box[t][c])
      BY <1>1, ChainsAre DEF t
    <3> QED
      BY <1>1, <2>8, <3>1, ChainWrites DEF v, x
  <2>11. Chain(s, Far(s), c)' /\ Chain(Far(s), s, c)'
    BY <1>1, <1>2, <2>1, <2>3, <2>6, <2>7, <2>9, <2>10, ChainsRun DEF t
  <2> QED
    BY <2>6, <2>11, FlowStep
<1> QED
  BY <1>3, <1>4

LEMMA DataClosedWaiting ==
  ASSUME DataInv, TypeOK', NEW c \in Conn, NEW s \in Side, TcpClosed(s, c), other[s][c] = "waiting"
  PROVE  DataInv'
<1>0. TypeOK /\ Stage(c)
  BY DEF DataInv, ConnInv
<1>1. /\ Takes(s, c, "tcp_closed") /\ box' = Taken(s, c, <<>>) /\ Ends(s, c, "hungup")
      /\ UNCHANGED <<other, buf, open, sent, wrote, lst>> /\ st[s][c] = "run"
  BY DEF TcpClosed, Takes
<1>2. st'[s][c] = "hungup" /\ \A u \in Side, k \in Conn : u # s \/ k # c => st'[u][k] = st[u][k]
  BY <1>0, <1>1, EndsIs DEF Gone
<1>3. Stage(c)' /\ (Done("local", c) => Done("local", c)')
  BY <1>0, <1>1, <1>2 DEF Stage, Done, Gone, Side
<1> QED
  BY <1>1, <1>2, <1>3, TakeStep DEF Gone

LEMMA DataHandleSet ==
  ASSUME DataInv, TypeOK', NEW c \in Conn, NEW s \in Side, HandleSet(s, c)
  PROVE  DataInv'
<1>0. TypeOK /\ Stage(c) /\ "local" \in Side
  BY FarIs DEF DataInv, ConnInv
<1>1. /\ Takes(s, c, "set") /\ box' = Taken(s, c, <<>>) /\ st[s][c] = "run"
      /\ UNCHANGED <<other, buf, open, sent, wrote>>
  BY DEF HandleSet, Takes
<1>2. \/ /\ st' = [st EXCEPT !["local"][c] = IF st["local"][c] = "setting" THEN "run" ELSE st["local"][c]]
         /\ lst' = lst
      \/ lst' = [lst EXCEPT ![c] = IF lst[c] = "setting" THEN "set" ELSE lst[c]] /\ st' = st
  BY <1>0 DEF HandleSet, TypeOK
<1>3. /\ \A k \in Conn : k # c => lst'[k] = lst[k] /\ \A u \in Side : st'[u][k] = st[u][k]
      /\ st'["tunnel"][c] = st["tunnel"][c]
      /\ st'["local"][c] = st["local"][c] \/ (st["local"][c] = "setting" /\ st'["local"][c] = "run")
      /\ lst'[c] = lst[c] \/ (lst[c] = "setting" /\ lst'[c] = "set")
  <2> DEFINE v == IF st["local"][c] = "setting" THEN "run" ELSE st["local"][c]
             l == IF lst[c] = "setting" THEN "set" ELSE lst[c]
  <2>1. v \in StateSet
    <3>1. st["local"][c] \in StateSet
      BY <1>0 DEF TypeOK, StateSet
    <3> QED
      BY <3>1 DEF StateSet, Begun
  <2>2. CASE st' = [st EXCEPT !["local"][c] = v] /\ lst' = lst
    <3>1. v = st["local"][c] \/ (st["local"][c] = "setting" /\ v = "run")
      OBVIOUS
    <3> HIDE DEF v
    <3>2. st'["local"][c] = v /\ \A u \in Side, k \in Conn : u # "local" \/ k # c => st'[u][k] = st[u][k]
      BY <1>0, <2>1, <2>2, StIs
    <3> QED
      BY <2>2, <3>1, <3>2, FarIs
  <2>3. CASE lst' = [lst EXCEPT ![c] = l] /\ st' = st
    <3>1. l = lst[c] \/ (lst[c] = "setting" /\ l = "set")
      OBVIOUS
    <3> HIDE DEF l
    <3> QED
      BY <1>0, <2>3, <3>1 DEF TypeOK
  <2> QED
    BY <1>2, <2>2, <2>3
<1>4. Stage(c)' /\ (Done("local", c) => Done("local", c)')
  BY <1>0, <1>1, <1>3 DEF Stage, Done, Gone
<1>5. st'[s][c] = "run"
  BY <1>1, <1>3 DEF Side
<1>6. \A u \in Side : u # s => st'[u][c] = st[u][c] \/ {st[u][c], st'[u][c]} \subseteq Begun
  BY <1>3 DEF Side, Begun
<1> QED
  BY <1>1, <1>3, <1>4, <1>5, <1>6, TakeStep

(* The peer of an end that knows the far end hung up.                      *)
LEMMA DataClosedConnected ==
  ASSUME DataInv, TypeOK', NEW c \in Conn, NEW s \in Side, TcpClosed(s, c), other[s][c] # "waiting"
  PROVE  DataInv'
<1> DEFINE t == Far(s)
           f == <<Msg("close")>>
           d == st[t][c] = "told"
<1>0. TypeOK /\ t \in Side /\ t # s
  BY FarIs DEF DataInv
<1>1. /\ box[s][c] \in Seq(EndMessage) /\ box[s][c] # <<>> /\ Head(box[s][c]).kind = "tcp_closed"
      /\ st[s][c] = "run" /\ Takes(s, c, "tcp_closed") /\ box' = Taken(s, c, f)
  BY <1>0, HeadIs DEF TcpClosed
<1>2. UNCHANGED <<other, buf, open, sent, wrote, lst>> /\ Ends(s, c, "hungup")
  BY DEF TcpClosed
<1>3. st'[s][c] = "hungup" /\ \A u \in Side, k \in Conn : u # s \/ k # c => st'[u][k] = st[u][k]
  BY <1>0, <1>2, EndsIs DEF Gone
<1>4. other[s][c] = "connected" /\ buf[s][c] = <<>>
  BY <1>0 DEF TypeOK, DataInv, ConnInv, Sides
<1>5. /\ st[Far(s)][c] \in Begun \cup Gone
      /\ ~Alive(Far(s), c) => ~Live(Far(s), c)
  BY <1>1, <1>4, FarBegun
<1>6. f \in Seq(EndMessage) /\ \A i \in DOMAIN f : f[i].kind = "close"
  BY LettersAre DEF Msg
<1> HIDE DEF f
<1>7. Flows(s, c, "tcp_closed", f)
  BY <1>1, <1>2, <1>3, <1>4, <1>5, <1>6 DEF Flows, Gone
<1> HIDE DEF t, d
<1>8. /\ box'[s][c] = Tail(box[s][c]) /\ box[t][c] \in Seq(EndMessage)
      /\ box'[t][c] = IF Alive(t, c) THEN box[t][c] \o f ELSE box[t][c]
  BY <1>7, FlowIs DEF t
<1>9. wrote[t][c] \in Seq(Nat) /\ sent[s][c] \in Nat
  BY <1>0, WroteIs
<1>10. ChainOf(Live(t, c), d, wrote[t][c], box'[t][c], sent[s][c], FALSE, TRUE, <<>>, Tail(box[s][c]))
  <2>1. ChainOf(Live(t, c), d, wrote[t][c], box[t][c], sent[s][c], TRUE, FALSE, <<>>, box[s][c])
    BY <1>1, <1>4, ChainsAre DEF t, d
  <2>2. ChainOf(Live(t, c), d, wrote[t][c], box[t][c], sent[s][c], TRUE, FALSE, <<>>, Tail(box[s][c]))
    BY <1>1, <1>8, <2>1, ChainSkip
  <2>3. CASE Alive(t, c)
    <3>1. \A i \in DOMAIN Tail(box[s][c]) : Tail(box[s][c])[i].kind # "tcp"
      BY <1>1, HangupTail DEF DataInv, ConnInv, Sides
    <3>2. Tail(box[s][c]) \in Seq(EndMessage)
      BY <1>1, HeadTailProperties
    <3>3. ChainOf(Live(t, c), d, wrote[t][c], box[t][c] \o f, sent[s][c], FALSE, TRUE, <<>>, Tail(box[s][c]))
      BY <1>8, <1>9, <2>2, <3>1, <3>2, ChainHangsUp DEF f
    <3> QED
      BY <1>8, <2>3, <3>3
  <2>4. CASE ~Alive(t, c)
    <3>1. Live(t, c) = FALSE
      BY <1>5, <2>4 DEF Live, t
    <3> QED
      BY <2>2, <3>1 DEF ChainOf
  <2> QED
    BY <2>3, <2>4
<1>11. ChainOf(FALSE, st'[s][c] = "told", wrote[s][c], Tail(box[s][c]),
               sent[t][c], Live(t, c), Done(t, c), buf[t][c], box'[t][c])
  <2>1. ChainOf(TRUE, FALSE, wrote[s][c], box[s][c],
                sent[t][c], Live(t, c), Done(t, c), buf[t][c], box[t][c])
    BY <1>1, ChainsAre DEF t
  <2> QED
    BY <1>3, <2>1 DEF ChainOf
<1>12. Chain(s, Far(s), c)' /\ Chain(Far(s), s, c)'
  <2>1. st'[s][c] \in Gone
    BY <1>3 DEF Gone
  <2>2. buf'[s][c] = <<>> /\ wrote'[s][c] = wrote[s][c]
    BY <1>2, <1>4
  <2> QED
    BY <1>7, <1>8, <1>10, <1>11, <2>1, <2>2, ChainsOver DEF t, d
<1> QED
  BY <1>7, <1>12, FlowStep

(* An end closes because it is told to.                                    *)
LEMMA DataClose ==
  ASSUME DataInv, TypeOK', NEW c \in Conn, NEW s \in Side, Close(s, c)
  PROVE  DataInv'
<1> DEFINE t == Far(s)
           d == st[t][c] = "told"
<1>0. TypeOK /\ t \in Side /\ t # s
  BY FarIs DEF DataInv
<1>1. /\ box[s][c] \in Seq(EndMessage) /\ box[s][c] # <<>> /\ Head(box[s][c]).kind = "close"
      /\ st[s][c] = "run" /\ Takes(s, c, "close") /\ box' = Taken(s, c, <<>>)
  BY <1>0, HeadIs DEF Close
<1>2. UNCHANGED <<other, buf, open, sent, wrote, lst>> /\ Ends(s, c, "told")
  BY DEF Close
<1>3. st'[s][c] = "told" /\ \A u \in Side, k \in Conn : u # s \/ k # c => st'[u][k] = st[u][k]
  BY <1>0, <1>2, EndsIs DEF Gone
<1>4. other[s][c] = "connected" => buf[s][c] = <<>> /\ st[Far(s)][c] \in Begun \cup Gone
  BY <1>1, FarBegun DEF DataInv, ConnInv, Sides
<1>5. <<>> \in Seq(EndMessage) /\ \A i \in DOMAIN <<>> : <<>>[i].kind \in {"send", "close"}
  OBVIOUS
<1>6. Flows(s, c, "close", <<>>)
  BY <1>1, <1>2, <1>3, <1>4, <1>5 DEF Flows, Gone
<1> HIDE DEF t, d
<1>7. box'[s][c] = Tail(box[s][c]) /\ box'[t][c] = box[t][c]
  <2>1. /\ box'[s][c] = Tail(box[s][c]) /\ box[t][c] \in Seq(EndMessage)
        /\ box'[t][c] = IF Alive(t, c) THEN box[t][c] \o <<>> ELSE box[t][c]
    BY <1>6, FlowIs DEF t
  <2> QED
    BY <2>1, ConcatEmptySeq
<1>8. wrote[s][c] \in Seq(Nat) /\ sent[t][c] \in Nat
  BY <1>0, WroteIs
<1>9. ChainOf(Live(t, c), d, wrote[t][c], box[t][c], sent[s][c], FALSE, TRUE, buf[s][c], Tail(box[s][c]))
  <2>1. ChainOf(Live(t, c), d, wrote[t][c], box[t][c], sent[s][c], TRUE, FALSE, buf[s][c], box[s][c])
    BY <1>1, ChainsAre DEF t, d
  <2> QED
    BY <2>1 DEF ChainOf
<1>10. ChainOf(FALSE, TRUE, wrote[s][c], Tail(box[s][c]),
               sent[t][c], Live(t, c), Done(t, c), buf[t][c], box[t][c])
  <2>1. ChainOf(TRUE, FALSE, wrote[s][c], box[s][c],
                sent[t][c], Live(t, c), Done(t, c), buf[t][c], box[t][c])
    BY <1>1, ChainsAre DEF t
  <2> QED
    BY <1>1, <1>8, <2>1, ChainCloses
<1>11. Chain(s, Far(s), c)' /\ Chain(Far(s), s, c)'
  <2>1. st'[s][c] \in Gone /\ (st'[s][c] = "told") = TRUE
    BY <1>3 DEF Gone
  <2>2. buf'[s][c] = buf[s][c] /\ wrote'[s][c] = wrote[s][c]
    BY <1>2
  <2> QED
    BY <1>6, <1>7, <1>9, <1>10, <2>1, <2>2, ChainsOver DEF t, d
<1> QED
  BY <1>6, <1>11, FlowStep

(* No port is free for the far end: there will be none.                    *)
LEMMA DataNoPort ==
  ASSUME DataInv, TypeOK', NEW c \in Conn, NoFreePort(c)
  PROVE  DataInv'
<1> DEFINE f == <<Msg("close")>>
           b == box["tunnel"][c]
           b1 == box'["tunnel"][c]
           d == st["tunnel"][c] = "told"
<1>0. TypeOK /\ ConnInv(c) /\ "tunnel" \in Side /\ "local" \in Side /\ Side = {"tunnel", "local"}
      /\ Far("tunnel") = "local" /\ Far("local") = "tunnel"
  BY FarIs DEF DataInv
<1>1. /\ lst[c] = "listen" /\ lst' = [lst EXCEPT ![c] = "ended"]
      /\ box' = Put("tunnel", c, f)
      /\ UNCHANGED <<st, other, buf, open, sent, wrote>>
  BY DEF NoFreePort
<1>2. f \in Seq(EndMessage) /\ Len(f) = 1 /\ \A i \in DOMAIN f : f[i].kind = "close"
  BY LettersAre DEF Msg
<1> HIDE DEF f
<1>3. /\ Put("tunnel", c, f)["tunnel"][c] = IF Alive("tunnel", c) THEN b \o f ELSE b
      /\ \A t \in Side, k \in Conn : t # "tunnel" \/ k # c => Put("tunnel", c, f)[t][k] = box[t][k]
  <2>1. TypeOK /\ "tunnel" \in Side
    BY <1>0
  <2> QED
    BY <1>2, <2>1, PutIs
<1>4. b1 = b \/ b1 = b \o f
  BY <1>1, <1>3
<1>5. lst'[c] = "ended" /\ \A k \in Conn : k # c => lst'[k] = lst[k]
  BY <1>0, <1>1 DEF TypeOK
<1>6. \A k \in Conn : k # c => ConnKept(k)
  BY <1>1, <1>3, <1>5 DEF ConnKept, EndKept
<1>7. /\ st["local"][c] = "none" /\ st["tunnel"][c] \in {"run"} \cup Gone
      /\ sent["local"][c] = 0 /\ box'["local"][c] = box["local"][c]
  BY <1>0, <1>1, <1>3 DEF ConnInv, Stage, Sides, Fresh
<1>8. b \in Seq(EndMessage) /\ box["local"][c] \in Seq(EndMessage) /\ wrote["tunnel"][c] \in Seq(Nat)
  <2>1. TypeOK /\ "tunnel" \in Side /\ "local" \in Side
    BY <1>0
  <2>2. wrote["tunnel"][c] \in Seq(Nat)
    BY <2>1, WroteIs
  <2> QED
    BY <2>1, <2>2 DEF TypeOK
<1>9. Stage(c)'
  BY <1>0, <1>1, <1>5, <1>7 DEF ConnInv, Stage
<1>10. Knows(c)'
  <2>1. ASSUME NEW i \in DOMAIN b1, b1[i].kind = "set_connected" PROVE st["local"][c] \in Begun \cup Gone
    <3>1. i \in DOMAIN b /\ b1[i] = b[i]
      <4>1. CASE b1 = b
        BY <2>1, <4>1
      <4>2. CASE b1 = b \o f
        <5> HIDE DEF b, b1
        <5>1. i \in DOMAIN b \/ (i - Len(b) \in DOMAIN f /\ b1[i] = f[i - Len(b)])
          BY <1>2, <1>8, <2>1, <4>2, Concat
        <5>2. i \in DOMAIN b
          BY <1>2, <2>1, <5>1
        <5> QED
          BY <1>2, <1>8, <4>2, <5>2, Concat
      <4> QED
        BY <1>4, <4>1, <4>2
    <3> QED
      BY <1>0, <2>1, <3>1 DEF ConnInv, Knows
  <2> QED
    BY <1>0, <1>1, <2>1 DEF ConnInv, Knows
<1>11. Sides(c)'
  <2>1. HangupOf(b, open["tunnel"][c]) /\ Fresh("tunnel", c) /\ HangupOf(box["local"][c], open["local"][c])
        /\ Fresh("local", c)
    BY <1>0 DEF ConnInv, Sides
  <2>2. \A i \in DOMAIN f : f[i].kind \notin {"tcp", "tcp_closed"}
    BY <1>2
  <2>3. HangupOf(b \o f, open["tunnel"][c])
    BY <1>2, <1>8, <2>1, <2>2, HangupPlus
  <2>4. HangupOf(b1, open'["tunnel"][c])
    BY <1>1, <1>4, <2>1, <2>3
  <2>5. HangupOf(box'["local"][c], open'["local"][c])
    BY <1>1, <1>7, <2>1
  <2>6. Fresh("local", c)'
    BY <1>1, <1>7, <2>1 DEF Fresh
  <2>7. Fresh("tunnel", c)'
    BY <1>1, <1>7 DEF Fresh, Gone
  <2>8. \A s \in Side : other'[s][c] = "connected" => buf'[s][c] = <<>>
    BY <1>0, <1>1 DEF ConnInv, Sides
  <2> QED
    BY <1>0, <2>4, <2>5, <2>6, <2>7, <2>8 DEF Sides
<1> DEFINE l == Live("tunnel", c)
           e == Live("local", c)
           g == Done("local", c)
<1>12. Live("tunnel", c)' = l /\ Live("local", c)' = e /\ Done("local", c)' = TRUE /\ Done("tunnel", c)' = Done("tunnel", c)
  BY <1>1, <1>5, <1>7 DEF Live, Done
<1>13. ChainOf(l, d, wrote["tunnel"][c], b, sent["local"][c], e, g, buf["local"][c], box["local"][c])
  BY <1>0 DEF ConnInv, Chain
<1>14. l \in BOOLEAN /\ e \in BOOLEAN /\ g \in BOOLEAN /\ d \in BOOLEAN
  BY DEF Live, Done
<1>15. Chain("local", "tunnel", c)'
  <2> HIDE DEF l, e, g, d, b, b1
  <2>1. ChainOf(l, d, wrote["tunnel"][c], b1, sent["local"][c], e, TRUE, buf["local"][c], box["local"][c])
    <3>1. CASE b1 = b
      BY <1>13, <1>14, <3>1 DEF ChainOf
    <3>2. CASE b1 = b \o f
      <4>1. ChainOf(l, d, wrote["tunnel"][c], b, 0, e, g, buf["local"][c], box["local"][c])
        BY <1>7, <1>13
      <4>2. ChainOf(l, d, wrote["tunnel"][c], b \o f, 0, e, TRUE, buf["local"][c], box["local"][c])
        BY <1>8, <4>1, ChainNoPort DEF f
      <4> QED
        BY <1>7, <3>2, <4>2
    <3> QED
      BY <1>4, <3>1, <3>2
  <2> QED
    BY <1>1, <1>7, <1>12, <2>1 DEF Chain, d, b1
<1>16. Chain("tunnel", "local", c)'
  <2>1. ChainOf(Live("local", c), st["local"][c] = "told", wrote["local"][c], box["local"][c],
                sent["tunnel"][c], Live("tunnel", c), Done("tunnel", c), buf["tunnel"][c], b)
    BY <1>0 DEF ConnInv, Chain
  <2> HIDE DEF b, b1
  <2>2. ChainOf(Live("local", c), st["local"][c] = "told", wrote["local"][c], box["local"][c],
                sent["tunnel"][c], Live("tunnel", c), Done("tunnel", c), buf["tunnel"][c], b1)
    <3>1. \A i \in DOMAIN f : f[i].kind # "tcp"
      BY <1>2
    <3>2. ChainOf(Live("local", c), st["local"][c] = "told", wrote["local"][c], box["local"][c],
                  sent["tunnel"][c], Live("tunnel", c), Done("tunnel", c), buf["tunnel"][c], b \o f)
      BY <1>2, <1>8, <2>1, <3>1, ChainMore
    <3> QED
      BY <1>4, <2>1, <3>2
  <2> QED
    BY <1>1, <1>7, <1>12, <2>2 DEF Chain, b1
<1>17. ConnInv(c)'
  BY <1>0, <1>9, <1>10, <1>11, <1>15, <1>16 DEF ConnInv
<1> QED
  BY <1>6, <1>17, DataStep

(* The peer of an end sends, or hangs up.                                  *)
LEMMA PeerStep ==
  ASSUME DataInv, TypeOK', NEW c \in Conn, NEW s \in Side, NEW m \in EndMessage,
         Alive(s, c), box' = [box EXCEPT ![s][c] = Append(@, m)],
         m.kind \in {"tcp", "tcp_closed"},
         UNCHANGED <<st, other, buf, wrote, lst>>,
         \A t \in Side, k \in Conn : t # s \/ k # c => open'[t][k] = open[t][k] /\ sent'[t][k] = sent[t][k],
         HangupOf(box[s][c] \o <<m>>, open'[s][c]),
         ChainOf(Live(Far(s), c), st[Far(s)][c] = "told", wrote[Far(s)][c], box[Far(s)][c],
                 sent'[s][c], TRUE, FALSE, buf[s][c], box[s][c] \o <<m>>)
  PROVE  DataInv'
<1> DEFINE t == Far(s)
<1>0. TypeOK /\ ConnInv(c) /\ t \in Side /\ t # s /\ Far(t) = s
  BY FarIs DEF DataInv
<1>1. Side = {s, t}
  BY DEF Side, Far
<1>2. /\ box'[s][c] = box[s][c] \o <<m>>
      /\ \A u \in Side, k \in Conn : u # s \/ k # c => box'[u][k] = box[u][k]
  BY <1>0, PeerIs, ZenonT(30)
<1>3. box[s][c] \in Seq(EndMessage) /\ box[t][c] \in Seq(EndMessage)
  BY <1>0 DEF TypeOK
<1>4. \A k \in Conn : k # c => ConnKept(k)
  BY <1>2 DEF ConnKept, EndKept
<1>5. st[s][c] \in Begun /\ Live(s, c) = TRUE /\ Done(s, c) = FALSE
  BY DEF Alive, Live, Done, Begun, Gone
<1>6. Chain(s, t, c)'
  <2>1. Live(s, c)' = TRUE /\ Done(s, c)' = FALSE /\ Live(t, c)' = Live(t, c)
    BY <1>5 DEF Live, Done
  <2>2. ChainOf(Live(t, c), st[t][c] = "told", wrote[t][c], box[t][c],
                sent'[s][c], TRUE, FALSE, buf[s][c], box[s][c] \o <<m>>)
    OBVIOUS
  <2>3. box'[t][c] = box[t][c] /\ UNCHANGED <<st, wrote, buf>>
    BY <1>0, <1>2
  <2> HIDE DEF t
  <2> QED
    BY <1>2, <2>1, <2>2, <2>3 DEF Chain
<1> HIDE DEF t
<1>7. Chain(t, s, c)'
  <2>1. ChainOf(Live(s, c), st[s][c] = "told", wrote[s][c], box[s][c],
                sent[t][c], Live(t, c), Done(t, c), buf[t][c], box[t][c])
    BY <1>0 DEF ConnInv, Chain
  <2>2. m.kind \notin {"send", "close"}
    OBVIOUS
  <2>3. ChainOf(Live(s, c), st[s][c] = "told", wrote[s][c], box[s][c] \o <<m>>,
                sent[t][c], Live(t, c), Done(t, c), buf[t][c], box[t][c])
    BY <1>3, <2>1, <2>2, ChainOther
  <2>4. /\ box'[t][c] = box[t][c] /\ sent'[t][c] = sent[t][c]
        /\ UNCHANGED <<st, wrote, buf, lst>>
    BY <1>0, <1>2
  <2>5. Live(s, c)' = Live(s, c) /\ Live(t, c)' = Live(t, c) /\ Done(t, c)' = Done(t, c)
    BY DEF Live, Done
  <2> QED
    BY <1>2, <2>3, <2>4, <2>5 DEF Chain
<1>8. \A u \in Side : Chain(u, Far(u), c)'
  BY <1>0, <1>1, <1>6, <1>7 DEF t
<1>9. Stage(c)'
  BY <1>0 DEF ConnInv, Stage
<1>10. Knows(c)'
  <2>1. ASSUME NEW i \in DOMAIN box'["tunnel"][c], box'["tunnel"][c][i].kind = "set_connected"
        PROVE  st["local"][c] \in Begun \cup Gone
    <3> DEFINE b == box["tunnel"][c]
               b1 == box'["tunnel"][c]
    <3>1. ASSUME NEW j \in DOMAIN b, b[j].kind = "set_connected" PROVE st["local"][c] \in Begun \cup Gone
      BY <1>0, <3>1 DEF ConnInv, Knows
    <3>2. b \in Seq(EndMessage) /\ (b1 = b \/ b1 = b \o <<m>>)
      <4>1. "tunnel" \in Side /\ box \in [Side -> [Conn -> Seq(EndMessage)]]
        BY <1>0, FarIs DEF TypeOK
      <4>2. b \in Seq(EndMessage)
        BY <4>1
      <4>3. CASE s = "tunnel"
        BY <1>2, <4>2, <4>3
      <4>4. CASE s # "tunnel"
        BY <1>2, <4>1, <4>2, <4>4
      <4> QED
        BY <4>3, <4>4
    <3>3. <<m>> \in Seq(EndMessage) /\ \A j \in DOMAIN <<m>> : <<m>>[j] = m
      OBVIOUS
    <3> HIDE DEF b, b1
    <3>4. i \in DOMAIN b1 /\ b1[i].kind = "set_connected"
      BY <2>1 DEF b1
    <3> DEFINE f == <<m>>
    <3>5. CASE b1 = b
      BY <3>1, <3>4, <3>5
    <3>6. CASE b1 = b \o f
      <4>1. f \in Seq(EndMessage) /\ \A j \in DOMAIN f : f[j].kind # "set_connected"
        BY <3>3
      <4> HIDE DEF f
      <4>2. i \in DOMAIN b \/ (i - Len(b) \in DOMAIN f /\ i = Len(b) + (i - Len(b)))
        BY <3>2, <3>4, <3>6, <4>1, Concat
      <4>3. \A j \in DOMAIN f : b1[Len(b) + j] = f[j]
        BY <3>2, <3>6, <4>1, Concat
      <4>4. i \in DOMAIN b
        BY <3>4, <4>1, <4>2, <4>3
      <4>5. b1[i] = b[i]
        BY <3>2, <3>6, <4>1, <4>4, Concat
      <4> QED
        BY <3>1, <3>4, <4>4, <4>5
    <3> QED
      BY <3>2, <3>5, <3>6
  <2> QED
    BY <1>0, <2>1 DEF ConnInv, Knows
<1>11. Sides(c)'
  <2>1. HangupOf(box'[s][c], open'[s][c]) /\ Fresh(s, c)'
    BY <1>2, <1>5 DEF Fresh, Begun
  <2>2. HangupOf(box'[t][c], open'[t][c]) /\ Fresh(t, c)'
    <3>1. box'[t][c] = box[t][c] /\ open'[t][c] = open[t][c] /\ sent'[t][c] = sent[t][c]
      BY <1>0, <1>2
    <3>2. HangupOf(box[t][c], open[t][c]) /\ Fresh(t, c)
      BY <1>0 DEF ConnInv, Sides
    <3> QED
      BY <3>1, <3>2 DEF Fresh
  <2>3. \A u \in Side : other'[u][c] = "connected" => buf'[u][c] = <<>>
    BY <1>0 DEF ConnInv, Sides
  <2> QED
    BY <1>1, <2>1, <2>2, <2>3 DEF Sides
<1>12. ConnInv(c)'
  BY <1>8, <1>9, <1>10, <1>11 DEF ConnInv
<1> QED
  BY <1>4, <1>12, DataStep

LEMMA DataPeer ==
  ASSUME DataInv, TypeOK', NEW c \in Conn, NEW s \in Side, PeerSends(s, c) \/ PeerHangsUp(s, c)
  PROVE  DataInv'
<1> DEFINE t == Far(s)
<1>0. TypeOK /\ ConnInv(c) /\ t \in Side /\ t # s
  BY FarIs DEF DataInv
<1>1. Alive(s, c) /\ open[s][c] = TRUE /\ HangupOf(box[s][c], TRUE)
  BY <1>0 DEF PeerSends, PeerHangsUp, TypeOK, ConnInv, Sides
<1>2. box[s][c] \in Seq(EndMessage) /\ box[t][c] \in Seq(EndMessage)
  BY <1>0 DEF TypeOK
<1>3. Live(s, c) = TRUE /\ Done(s, c) = FALSE
  BY <1>1 DEF Alive, Live, Done, Begun, Gone
<1>4. ChainOf(Live(t, c), st[t][c] = "told", wrote[t][c], box[t][c],
              sent[s][c], TRUE, FALSE, buf[s][c], box[s][c])
  BY <1>0, <1>3 DEF ConnInv, Chain
<1>5. wrote[t][c] \in Seq(Nat) /\ sent[s][c] \in Nat /\ sent[s][c] \in 0 .. MaxData
  <2>1. wrote[t][c] \in Seq(Nat) /\ sent[s][c] \in Nat
    BY <1>0, WroteIs
  <2> QED
    BY <1>0, <2>1 DEF TypeOK
<1>6. ASSUME PeerSends(s, c) PROVE DataInv'
  <2> DEFINE n == sent[s][c] + 1
             m == Data(n)
  <2>1. n \in 1 .. MaxData /\ n <= MaxData /\ n \in 0 .. MaxData
    BY <1>5, <1>6, TunnelAssumption DEF PeerSends
  <2>2. /\ box' = [box EXCEPT ![s][c] = Append(@, m)] /\ sent' = [sent EXCEPT ![s][c] = n]
        /\ UNCHANGED <<st, other, buf, open, wrote, lst>>
    BY <1>0, <1>6 DEF PeerSends, TypeOK
  <2>3. m \in EndMessage /\ m.kind = "tcp"
    BY <2>1, LettersAre DEF Data
  <2>4. ChainOf(Live(t, c), st[t][c] = "told", wrote[t][c], box[t][c],
                n, TRUE, FALSE, buf[s][c], box[s][c] \o <<m>>)
    <3> HIDE DEF t
    <3> QED
      BY <1>2, <1>4, <1>5, <2>1, ChainArrives
  <2> HIDE DEF m, n
  <2>5. sent \in [Side -> [Conn -> 0 .. MaxData]]
    BY <1>0 DEF TypeOK
  <2>6. sent'[s][c] = n /\ \A u \in Side, k \in Conn : u # s \/ k # c => sent'[u][k] = sent[u][k]
    BY <2>1, <2>2, <2>5, SetIs
  <2>7. HangupOf(box[s][c] \o <<m>>, open'[s][c])
    <3>1. <<m>> \in Seq(EndMessage) /\ \A i \in DOMAIN <<m>> : <<m>>[i].kind # "tcp_closed"
      BY <2>3
    <3>2. HangupOf(box[s][c] \o <<m>>, TRUE)
      BY <1>1, <1>2, <3>1, HangupPlus
    <3> QED
      BY <1>1, <2>2, <3>2
  <2> QED
    BY <1>1, <2>2, <2>3, <2>4, <2>6, <2>7, PeerStep, ZenonT(30)
<1>7. ASSUME PeerHangsUp(s, c) PROVE DataInv'
  <2> DEFINE m == Msg("tcp_closed")
  <2>1. /\ box' = [box EXCEPT ![s][c] = Append(@, m)] /\ open' = [open EXCEPT ![s][c] = FALSE]
        /\ UNCHANGED <<st, other, buf, sent, wrote, lst>>
    BY <1>7 DEF PeerHangsUp
  <2>2. m \in EndMessage /\ m.kind = "tcp_closed"
    BY LettersAre DEF Msg
  <2> HIDE DEF m
  <2>3. ChainOf(Live(t, c), st[t][c] = "told", wrote[t][c], box[t][c],
                sent[s][c], TRUE, FALSE, buf[s][c], box[s][c] \o <<m>>)
    BY <1>2, <1>4, <2>2, ChainOther
  <2>4. open \in [Side -> [Conn -> BOOLEAN]]
    BY <1>0 DEF TypeOK
  <2>5. open'[s][c] = FALSE /\ \A u \in Side, k \in Conn : u # s \/ k # c => open'[u][k] = open[u][k]
    BY <2>1, <2>4
  <2>6. HangupOf(box[s][c] \o <<m>>, FALSE)
    <3>1. <<m>> \in Seq(EndMessage) /\ Len(<<m>>) = 1
      BY <2>2
    <3> QED
      BY <1>1, <1>2, <3>1, HangupPlus
  <2> QED
    BY <1>1, <2>1, <2>2, <2>3, <2>5, <2>6, PeerStep
<1> QED
  BY <1>6, <1>7

LEMMA DataInit == Init => DataInv
<1> SUFFICES ASSUME Init PROVE DataInv
  OBVIOUS
<1>1. TypeOK
  BY TypeInit
<1>2. ASSUME NEW c \in Conn PROVE ConnInv(c)
  <2>1. ASSUME NEW s \in Side
        PROVE  /\ st[s][c] = "none" /\ box[s][c] = <<>> /\ buf[s][c] = <<>> /\ sent[s][c] = 0
               /\ wrote[s][c] = <<>> /\ lst[c] = "none"
               /\ other[s][c] = IF s = "tunnel" THEN "waiting" ELSE "connected"
    BY DEF Init
  <2>2. "tunnel" \in Side /\ "local" \in Side
    BY FarIs
  <2>3. Stage(c) /\ Knows(c)
    BY <2>1, <2>2 DEF Stage, Knows
  <2>4. \A b, o : b = <<>> => HangupOf(b, o)
    BY DEF HangupOf
  <2>5. Sides(c)
    BY <2>1, <2>4 DEF Sides, Fresh
  <2>6. Upstream(<<>>, <<>>, 0, 0) /\ Run(<<>>, "send", 0, 0)
    <3>1. \A kind : Run(<<>>, kind, 0, 0)
      BY DEF Run, Rising, Nums
    <3>2. 0 \in 0 .. 0 /\ Len(<<>>) = 0 - 0 /\ \A i \in 1 .. 0 - 0 : <<>>[i] = 0 + 1 - i
      OBVIOUS
    <3> QED
      BY <3>1, <3>2 DEF Upstream
  <2>7. ~HasClose(<<>>) /\ ClosesBehind(<<>>)
    BY DEF HasClose, ClosesBehind
  <2>8. ChainOf(TRUE, FALSE, <<>>, <<>>, 0, TRUE, FALSE, <<>>, <<>>)
    <3>1. Len(<<>>) = 0 /\ 0 \in 0 .. 0
      OBVIOUS
    <3> QED
      BY <2>6, <2>7, <3>1 DEF ChainOf
  <2>9. ASSUME NEW s \in Side PROVE Chain(s, Far(s), c)
    <3>1. Far(s) \in Side
      BY FarIs
    <3>2. Live(s, c) = TRUE /\ Live(Far(s), c) = TRUE /\ Done(s, c) = FALSE
          /\ (st[Far(s)][c] = "told") = FALSE
      BY <2>1, <3>1 DEF Live, Done, Gone
    <3> QED
      BY <2>1, <2>8, <3>1, <3>2 DEF Chain
  <2> QED
    BY <2>3, <2>5, <2>9 DEF ConnInv
<1> QED
  BY <1>1, <1>2 DEF DataInv

LEMMA DataNext == DataInv /\ [Next]_vars => DataInv'
<1> SUFFICES ASSUME DataInv, [Next]_vars PROVE DataInv'
  OBVIOUS
<1>1. TypeOK'
  BY TypeNext DEF DataInv
<1>2. CASE Registry \/ AcceptFails
  BY <1>1, <1>2, DataRegistry
<1>3. ASSUME NEW c \in Conn, Accept(c) \/ AcceptUser(c) \/ AcceptUserFails(c) PROVE DataInv'
  BY <1>1, <1>3, DataStart
<1>4. ASSUME NEW c \in Conn, NEW s \in Side, PeerSends(s, c) \/ PeerHangsUp(s, c) PROVE DataInv'
  BY <1>1, <1>4, DataPeer
<1>5. ASSUME NEW c \in Conn, NEW s \in Side, Forward(s, c) PROVE DataInv'
  <2>1. CASE TcpData(s, c)
    BY <1>1, <2>1, DataTcpWaiting, DataTcpConnected
  <2>2. CASE TcpClosed(s, c)
    BY <1>1, <2>2, DataClosedWaiting, DataClosedConnected
  <2>3. CASE SendData(s, c)
    BY <1>1, <2>3, DataSend
  <2>4. CASE Close(s, c)
    BY <1>1, <2>4, DataClose
  <2>5. CASE Connected(s, c)
    BY <1>1, <2>5, DataConnected
  <2>6. CASE HandleSet(s, c)
    BY <1>1, <2>6, DataHandleSet
  <2> QED
    BY <1>5, <2>1, <2>2, <2>3, <2>4, <2>5, <2>6 DEF Forward
<1>6. ASSUME NEW c \in Conn, Work(c) PROVE DataInv'
  <2>1. CASE GetConnectionId(c) \/ ForwardInit(c) \/ AcceptUserFails(c) \/ StartLocal(c)
    BY <1>1, <2>1, DataStart
  <2>2. CASE NoFreePort(c)
    BY <1>1, <2>2, DataNoPort
  <2>3. CASE HavePort(c) \/ SetConnected(c) \/ SetState(c)
    BY <1>1, <2>3, DataLetters
  <2>4. CASE HavePortFails(c) \/ CloseListener(c) \/ SetStateFails(c) \/ ListenerLinkBreaks(c)
    BY <1>1, <2>4, DataBreaks, FarIs
  <2>5. ASSUME NEW s \in Side, LinkBreaks(s, c) PROVE DataInv'
    BY <1>1, <2>5, DataBreaks
  <2> QED
    BY <1>5, <1>6, <2>1, <2>2, <2>3, <2>4, <2>5 DEF Work, Listener, LocalInit
<1>7. CASE UNCHANGED vars
  <2>1. UNCHANGED <<ends, lst>>
    BY <1>7 DEF vars
  <2>2. \A k \in Conn : ConnKept(k)
    BY <2>1 DEF ConnKept, EndKept, ends
  <2> QED
    BY <1>1, <2>2, ConnFrame DEF DataInv
<1> QED
  BY <1>2, <1>3, <1>4, <1>6, <1>7 DEF Next, Environment

LEMMA CountedPrefix ==
  ASSUME NEW w \in Seq(Nat), NEW n \in Nat, Len(w) <= n, \A i \in DOMAIN w : w[i] = i
  PROVE  IsPrefix(w, [k \in 1 .. n |-> k])
<1> DEFINE all == [k \in 1 .. n |-> k]
           l == Len(w)
<1>1. l \in Nat /\ l <= n /\ w \in [1 .. l -> Nat]
  BY LenProperties
<1>2. all \in Seq(Nat) /\ Len(all) = n
  OBVIOUS
<1>3. \A i \in 1 .. l : w[i] = i /\ i \in 1 .. n
  <2> HIDE DEF l
  <2> QED
    BY <1>1
<1>4. \A i \in 1 .. n : all[i] = i
  OBVIOUS
<1> HIDE DEF all, l
<1>5. \A i \in 1 .. l : i \in 1 .. n
  BY <1>3
<1>6. SubSeq(all, 1, l) = [i \in 1 .. l |-> all[1 + i - 1]]
  BY <1>1, <1>2
<1>7. SubSeq(w, 1, l) = [i \in 1 .. l |-> w[1 + i - 1]]
  BY <1>1
<1>8. \A i \in 1 .. l : w[1 + i - 1] = all[1 + i - 1]
  BY <1>1, <1>3, <1>4
<1>9. SubSeq(w, 1, l) = SubSeq(all, 1, l)
  BY <1>6, <1>7, <1>8
<1> QED
  BY <1>1, <1>2, <1>9 DEF IsPrefix, all, l

(* What is written is a prefix of what came in, all of it at an end that   *)
(* was told to close.                                                      *)
LEMMA DataForwarded == DataInv => Forwarded
<1> SUFFICES ASSUME DataInv, NEW s \in Side, NEW c \in Conn
             PROVE  /\ IsPrefix(wrote[s][c], [k \in 1 .. sent[Far(s)][c] |-> k])
                    /\ st[s][c] = "told" => Len(wrote[s][c]) = sent[Far(s)][c]
  BY DEF Forwarded
<1> DEFINE t == Far(s)
           w == wrote[s][c]
           n == sent[t][c]
           all == [k \in 1 .. n |-> k]
<1>1. t \in Side /\ Far(t) = s /\ TypeOK
  BY FarIs DEF DataInv
<1>2. ChainOf(Live(s, c), st[s][c] = "told", w, box[s][c],
              sent[t][c], Live(t, c), Done(t, c), buf[t][c], box[t][c])
  BY <1>1 DEF DataInv, ConnInv, Chain
<1>3. /\ Len(w) <= n /\ \A i \in DOMAIN w : w[i] = i
      /\ st[s][c] = "told" => Len(w) = n
  BY <1>2 DEF ChainOf
<1>4. w \in Seq(Nat) /\ n \in Nat
  BY <1>1, WroteIs
<1> HIDE DEF w, n
<1>9. IsPrefix(w, all)
  BY <1>3, <1>4, CountedPrefix
<1> QED
  BY <1>3, <1>9 DEF w, n

(* For any number of connections and of data, what is written at one end   *)
(* is what came in at the other, in order, and everything that came in     *)
(* there if the end was told to close.                                     *)
THEOREM ForwardedAlways == Spec => []Forwarded
<1>1. Spec => []DataInv
  BY DataInit, DataNext, PTL DEF Spec
<1> QED
  BY <1>1, DataForwarded, PTL

-----------------------------------------------------------------------------
(* What each way of changing the registry's mailbox does to what it tracks.*)
LEMMA TrackedMoves ==
  ASSUME NEW q, NEW P, NEW s, NEW c, TrackedOf(q, P, s, c), s \in Begun, NEW s1 \in Begun
  PROVE  TrackedOf(q, P, s1, c)
  BY DEF TrackedOf, Begun, Gone

LEMMA TrackedSkip ==
  ASSUME NEW q \in Seq(RegistryMessage), q # <<>>, NEW P, NEW P1, NEW s, NEW c, TrackedOf(q, P, s, c),
         ~Registers(Head(q), c), ~Exits(Head(q), c), c \in P1 <=> c \in P
  PROVE  TrackedOf(Tail(q), P1, s, c)
<1> DEFINE g == Tail(q)
<1>1. /\ Head(q) = q[1] /\ 1 \in DOMAIN q
      /\ \A i \in DOMAIN g : i \in Nat \ {0} /\ i + 1 \in DOMAIN q /\ g[i] = q[i + 1]
      /\ \A i \in DOMAIN q : i = 1 \/ (i - 1 \in DOMAIN g /\ g[i - 1] = q[i] /\ i > 1)
  BY TailIs
<1>2. DOMAIN q \subseteq Nat
  BY LenProperties
<1> HIDE DEF g
<1>3. \A j \in DOMAIN q : Exits(q[j], c) => j - 1 \in DOMAIN g /\ Exits(g[j - 1], c)
  BY <1>1
<1>4. \A j \in DOMAIN q : Registers(q[j], c) => j - 1 \in DOMAIN g /\ Registers(g[j - 1], c)
  BY <1>1
<1>5. s \in Gone => \A i \in DOMAIN g : Registers(g[i], c) => \E j \in DOMAIN g : j > i /\ Exits(g[j], c)
  <2> SUFFICES ASSUME s \in Gone, NEW i \in DOMAIN g, Registers(g[i], c)
               PROVE  \E j \in DOMAIN g : j > i /\ Exits(g[j], c)
    OBVIOUS
  <2>1. i + 1 \in DOMAIN q /\ Registers(q[i + 1], c) /\ i \in Nat
    BY <1>1
  <2>2. PICK j \in DOMAIN q : j > i + 1 /\ Exits(q[j], c)
    BY <2>1 DEF TrackedOf
  <2>3. j - 1 \in DOMAIN g /\ Exits(g[j - 1], c)
    BY <1>3, <2>2
  <2>4. j \in Nat /\ j - 1 > i
    BY <1>2, <2>1, <2>2
  <2> QED
    BY <2>3, <2>4
<1>6. \A i, j \in DOMAIN g : Registers(g[i], c) /\ Registers(g[j], c) => i = j
  <2> SUFFICES ASSUME NEW i \in DOMAIN g, NEW j \in DOMAIN g, Registers(g[i], c), Registers(g[j], c)
               PROVE  i = j
    OBVIOUS
  <2>1. i + 1 = j + 1
    BY <1>1 DEF TrackedOf
  <2> QED
    BY <1>1, <2>1
<1>7. /\ c \in P1 => \A i \in DOMAIN g : ~Registers(g[i], c)
      /\ s = "none" => c \notin P1 /\ \A i \in DOMAIN g : ~Registers(g[i], c) /\ ~Exits(g[i], c)
      /\ s \in Begun => \A i \in DOMAIN g : ~Exits(g[i], c)
      /\ \A i \in DOMAIN g : Exits(g[i], c) => g[i] = Exit("tunnel", c, s)
  BY <1>1 DEF TrackedOf
<1>8. /\ s \in Begun => c \in P1 \/ \E i \in DOMAIN g : Registers(g[i], c)
      /\ s \in Gone /\ c \in P1 => \E j \in DOMAIN g : Exits(g[j], c)
  BY <1>3, <1>4 DEF TrackedOf
<1>9. TrackedOf(g, P1, s, c)
  BY <1>5, <1>6, <1>7, <1>8 DEF TrackedOf
<1> QED
  BY <1>9 DEF g

LEMMA TrackedRegisters ==
  ASSUME NEW q \in Seq(RegistryMessage), q # <<>>, NEW P, NEW P1, NEW s, NEW c, TrackedOf(q, P, s, c),
         Registers(Head(q), c), c \in P1
  PROVE  TrackedOf(Tail(q), P1, s, c)
<1> DEFINE g == Tail(q)
<1>1. /\ Head(q) = q[1] /\ 1 \in DOMAIN q
      /\ \A i \in DOMAIN g : i \in Nat \ {0} /\ i + 1 \in DOMAIN q /\ g[i] = q[i + 1] /\ i + 1 # 1
      /\ \A i \in DOMAIN q : i = 1 \/ (i - 1 \in DOMAIN g /\ g[i - 1] = q[i] /\ i > 1)
  <2>1. \A i \in Nat \ {0} : i + 1 # 1
    OBVIOUS
  <2> QED
    BY <2>1, TailIs
<1> HIDE DEF g
<1>2. \A i \in DOMAIN g : ~Registers(g[i], c)
  BY <1>1 DEF TrackedOf
<1>3. s # "none"
  BY <1>1 DEF TrackedOf
<1>4. /\ s \in Begun => \A i \in DOMAIN g : ~Exits(g[i], c)
      /\ \A i \in DOMAIN g : Exits(g[i], c) => g[i] = Exit("tunnel", c, s)
  BY <1>1 DEF TrackedOf
<1>5. s \in Gone => \E j \in DOMAIN g : Exits(g[j], c)
  <2> SUFFICES ASSUME s \in Gone PROVE \E j \in DOMAIN g : Exits(g[j], c)
    OBVIOUS
  <2>1. PICK j \in DOMAIN q : j > 1 /\ Exits(q[j], c)
    BY <1>1 DEF TrackedOf
  <2>2. ~(1 > 1)
    OBVIOUS
  <2>3. j - 1 \in DOMAIN g /\ g[j - 1] = q[j]
    BY <1>1, <2>1, <2>2
  <2> QED
    BY <2>1, <2>3
<1>6. TrackedOf(g, P1, s, c)
  BY <1>2, <1>3, <1>4, <1>5 DEF TrackedOf
<1> QED
  BY <1>6 DEF g

LEMMA TrackedExits ==
  ASSUME NEW q \in Seq(RegistryMessage), q # <<>>, NEW P, NEW P1, NEW s, NEW c, TrackedOf(q, P, s, c),
         Exits(Head(q), c), c \notin P1
  PROVE  TrackedOf(Tail(q), P1, s, c)
<1> DEFINE g == Tail(q)
<1>1. /\ Head(q) = q[1] /\ 1 \in DOMAIN q
      /\ \A i \in DOMAIN g : i \in Nat \ {0} /\ i + 1 \in DOMAIN q /\ g[i] = q[i + 1]
      /\ \A i \in DOMAIN q : i = 1 \/ (i - 1 \in DOMAIN g /\ g[i - 1] = q[i] /\ i > 1)
  BY TailIs
<1>2. DOMAIN q \subseteq Nat
  BY LenProperties
<1> HIDE DEF g
<1>3. s # "none" /\ s \notin Begun
  BY <1>1 DEF TrackedOf
<1>4. s \in Gone => \A i \in DOMAIN g : Registers(g[i], c) => \E j \in DOMAIN g : j > i /\ Exits(g[j], c)
  <2> SUFFICES ASSUME s \in Gone, NEW i \in DOMAIN g, Registers(g[i], c)
               PROVE  \E j \in DOMAIN g : j > i /\ Exits(g[j], c)
    OBVIOUS
  <2>1. i + 1 \in DOMAIN q /\ Registers(q[i + 1], c) /\ i \in Nat /\ i + 1 >= 1
    BY <1>1
  <2>2. PICK j \in DOMAIN q : j > i + 1 /\ Exits(q[j], c)
    BY <2>1 DEF TrackedOf
  <2>3. j \in Nat /\ j - 1 > i /\ j # 1
    BY <1>2, <2>1, <2>2
  <2>4. j - 1 \in DOMAIN g /\ Exits(g[j - 1], c)
    BY <1>1, <2>2, <2>3
  <2> QED
    BY <2>3, <2>4
<1>5. \A i, j \in DOMAIN g : Registers(g[i], c) /\ Registers(g[j], c) => i = j
  <2> SUFFICES ASSUME NEW i \in DOMAIN g, NEW j \in DOMAIN g, Registers(g[i], c), Registers(g[j], c)
               PROVE  i = j
    OBVIOUS
  <2>1. i + 1 = j + 1
    BY <1>1 DEF TrackedOf
  <2> QED
    BY <1>1, <2>1
<1>6. \A i \in DOMAIN g : Exits(g[i], c) => g[i] = Exit("tunnel", c, s)
  BY <1>1 DEF TrackedOf
<1>7. TrackedOf(g, P1, s, c)
  BY <1>3, <1>4, <1>5, <1>6 DEF TrackedOf
<1> QED
  BY <1>7 DEF g

(* Every message is either in the mailbox or among those appended.         *)
LEMMA TrackedOther ==
  ASSUME NEW q \in Seq(RegistryMessage), NEW f \in Seq(RegistryMessage), NEW P, NEW P1, NEW s, NEW c,
         TrackedOf(q, P, s, c), c \in P1 <=> c \in P,
         \A i \in DOMAIN f : ~Registers(f[i], c) /\ ~Exits(f[i], c)
  PROVE  TrackedOf(q \o f, P1, s, c)
<1> DEFINE g == q \o f
<1>1. \A i \in DOMAIN q : i \in DOMAIN g /\ g[i] = q[i]
  BY Concat
<1>2. \A i \in DOMAIN g : (i \in DOMAIN q /\ g[i] = q[i]) \/ (~Registers(g[i], c) /\ ~Exits(g[i], c))
  BY Concat
<1> HIDE DEF g
<1>3. TrackedOf(g, P1, s, c)
  BY <1>1, <1>2 DEF TrackedOf
<1> QED
  BY <1>3 DEF g

LEMMA TrackedStarts ==
  ASSUME NEW q \in Seq(RegistryMessage), NEW f \in Seq(RegistryMessage), NEW P, NEW c,
         TrackedOf(q, P, "none", c), Len(f) = 2, Registers(f[1], c), ~Registers(f[2], c),
         \A i \in DOMAIN f : ~Exits(f[i], c), NEW s \in Begun
  PROVE  TrackedOf(q \o f, P, s, c)
<1> DEFINE g == q \o f
<1>1. \A i \in DOMAIN q : ~Registers(q[i], c) /\ ~Exits(q[i], c)
  BY DEF TrackedOf
<1>2. DOMAIN f = {1, 2} /\ 1 \in DOMAIN f
  BY LenProperties
<1>3. Len(q) + 1 \in DOMAIN g /\ Registers(g[Len(q) + 1], c)
  BY <1>2, Concat
<1>4. \A i \in DOMAIN g : ~Exits(g[i], c) /\ (Registers(g[i], c) => i = Len(q) + 1)
  <2> SUFFICES ASSUME NEW i \in DOMAIN g
               PROVE  ~Exits(g[i], c) /\ (Registers(g[i], c) => i = Len(q) + 1)
    OBVIOUS
  <2>1. CASE i \in DOMAIN q
    <3>1. g[i] = q[i]
      BY <2>1, Concat
    <3> QED
      BY <1>1, <2>1, <3>1
  <2>2. CASE i - Len(q) \in DOMAIN f /\ i = Len(q) + (i - Len(q))
    <3>1. g[i] = f[i - Len(q)]
      BY <2>2, Concat
    <3>2. i - Len(q) = 1 => i = Len(q) + 1
      BY <2>2
    <3> HIDE DEF g
    <3> QED
      BY <1>2, <2>2, <3>1, <3>2
  <2> QED
    BY <2>1, <2>2, Concat
<1>5. s # "none" /\ s \notin Gone /\ c \notin P
  BY DEF Begun, Gone, TrackedOf
<1> HIDE DEF g
<1>6. TrackedOf(g, P, s, c)
  BY <1>3, <1>4, <1>5 DEF TrackedOf
<1> QED
  BY <1>6 DEF g

LEMMA TrackedEnds ==
  ASSUME NEW q \in Seq(RegistryMessage), NEW P, NEW c \in Conn, NEW s \in Begun, NEW how \in Gone,
         TrackedOf(q, P, s, c)
  PROVE  TrackedOf(Append(q, Exit("tunnel", c, how)), P, how, c)
<1> DEFINE m == Exit("tunnel", c, how)
           g == Append(q, m)
           l == Len(q) + 1
<1>1. m \in RegistryMessage /\ Exits(m, c) /\ ~Registers(m, c)
  BY DEF Exit, RegistryMessage, Side, Exits, Registers
<1>2. Len(q) \in Nat /\ DOMAIN q = 1 .. Len(q)
  BY LenProperties
<1>3. /\ Len(g) = Len(q) + 1 /\ g \in Seq(RegistryMessage) /\ g[Len(q) + 1] = m
      /\ \A i \in 1 .. Len(q) : g[i] = q[i]
  BY <1>1, AppendProperties
<1>4. DOMAIN g = 1 .. Len(q) + 1
  BY <1>3, LenProperties
<1>5. l \in DOMAIN g /\ g[l] = m
  BY <1>2, <1>3, <1>4
<1>6. \A i \in DOMAIN g : i = l \/ (i \in DOMAIN q /\ g[i] = q[i] /\ l > i)
  BY <1>2, <1>3, <1>4
<1>7. \A i \in DOMAIN q : i \in DOMAIN g /\ g[i] = q[i]
  BY <1>2, <1>3, <1>4
<1>8. how # "none" /\ how \notin Begun
  BY DEF Begun, Gone
<1> HIDE DEF m, g, l
<1>9. \A i \in DOMAIN g : Exits(g[i], c) => g[i] = Exit("tunnel", c, how)
  BY <1>5, <1>6 DEF TrackedOf, m
<1>10. TrackedOf(g, P, how, c)
  BY <1>1, <1>5, <1>6, <1>7, <1>8, <1>9 DEF TrackedOf
<1> QED
  BY <1>10 DEF g, m

-----------------------------------------------------------------------------
(* The same for the acceptor.                                              *)
LEMMA AcceptorSkip ==
  ASSUME NEW q \in Seq(RegistryMessage), q # <<>>, NEW n, AcceptorOf(q, n), ~Starts(Head(q))
  PROVE  /\ ~Failing(Head(q)) => AcceptorOf(Tail(q), n)
         /\ \A m \in RegistryMessage : m.kind = "shutdown" => AcceptorOf(Append(Tail(q), m), n)
<1> DEFINE g == Tail(q)
<1>1. /\ Head(q) = q[1] /\ 1 \in DOMAIN q /\ g \in Seq(RegistryMessage)
      /\ \A i \in DOMAIN g : i \in Nat \ {0} /\ i + 1 \in DOMAIN q /\ g[i] = q[i + 1]
      /\ \A i \in DOMAIN q : i = 1 \/ (i - 1 \in DOMAIN g /\ g[i - 1] = q[i] /\ i > 1)
  BY TailIs
<1> HIDE DEF g
<1>2. \A i, j \in DOMAIN g : Starts(g[i]) /\ Starts(g[j]) => i = j
  <2> SUFFICES ASSUME NEW i \in DOMAIN g, NEW j \in DOMAIN g, Starts(g[i]), Starts(g[j])
               PROVE  i = j
    OBVIOUS
  <2>1. i + 1 = j + 1
    BY <1>1 DEF AcceptorOf
  <2> QED
    BY <1>1, <2>1
<1>3. n <= 1 /\ (n = 1 => \A i \in DOMAIN g : ~Starts(g[i]))
  BY <1>1 DEF AcceptorOf
<1>4. ~Failing(Head(q)) /\ n = 0 => \E i \in DOMAIN g : Starts(g[i]) \/ Failing(g[i])
  BY <1>1 DEF AcceptorOf
<1>5. ~Failing(Head(q)) => AcceptorOf(g, n)
  BY <1>2, <1>3, <1>4 DEF AcceptorOf
<1>6. ASSUME NEW m \in RegistryMessage, m.kind = "shutdown" PROVE AcceptorOf(Append(g, m), n)
  <2> DEFINE h == Append(g, m)
             l == Len(g) + 1
  <2>1. Len(g) \in Nat /\ DOMAIN g = 1 .. Len(g)
    BY <1>1, LenProperties
  <2>2. /\ Len(h) = Len(g) + 1 /\ h \in Seq(RegistryMessage) /\ h[Len(g) + 1] = m
        /\ \A i \in 1 .. Len(g) : h[i] = g[i]
    BY <1>1, AppendProperties
  <2>3. DOMAIN h = 1 .. Len(g) + 1
    BY <2>2, LenProperties
  <2>4. l \in DOMAIN h /\ h[l] = m
    BY <2>1, <2>2, <2>3
  <2>5. \A i \in DOMAIN h : i = l \/ (i \in DOMAIN g /\ h[i] = g[i])
    BY <2>1, <2>2, <2>3
  <2>6. ~Starts(m) /\ Failing(m)
    BY <1>6 DEF Starts, Failing
  <2> HIDE DEF h, l
  <2>7. AcceptorOf(h, n)
    BY <1>2, <1>3, <2>4, <2>5, <2>6 DEF AcceptorOf
  <2> QED
    BY <2>7 DEF h
<1> QED
  BY <1>5, <1>6 DEF g

LEMMA AcceptorStarts ==
  ASSUME NEW q \in Seq(RegistryMessage), q # <<>>, NEW n \in Nat, AcceptorOf(q, n), Starts(Head(q))
  PROVE  AcceptorOf(Tail(q), n + 1)
<1> DEFINE g == Tail(q)
<1>1. /\ Head(q) = q[1] /\ 1 \in DOMAIN q
      /\ \A i \in DOMAIN g : i \in Nat \ {0} /\ i + 1 \in DOMAIN q /\ g[i] = q[i + 1] /\ i + 1 # 1
  <2>1. \A i \in Nat \ {0} : i + 1 # 1
    OBVIOUS
  <2> QED
    BY <2>1, TailIs
<1> HIDE DEF g
<1>2. \A i \in DOMAIN g : ~Starts(g[i])
  BY <1>1 DEF AcceptorOf
<1>3. n # 1 /\ n <= 1
  BY <1>1 DEF AcceptorOf
<1>4. n + 1 = 1
  BY <1>3
<1>5. AcceptorOf(g, n + 1)
  BY <1>2, <1>4 DEF AcceptorOf
<1> QED
  BY <1>5 DEF g

LEMMA AcceptorOther ==
  ASSUME NEW q \in Seq(RegistryMessage), NEW f \in Seq(RegistryMessage), NEW n,
         AcceptorOf(q, n), \A i \in DOMAIN f : ~Starts(f[i])
  PROVE  AcceptorOf(q \o f, n)
<1> DEFINE g == q \o f
<1>1. \A i \in DOMAIN q : i \in DOMAIN g /\ g[i] = q[i]
  BY Concat
<1>2. \A i \in DOMAIN g : (i \in DOMAIN q /\ g[i] = q[i]) \/ ~Starts(g[i])
  BY Concat
<1> HIDE DEF g
<1>3. AcceptorOf(g, n)
  BY <1>1, <1>2 DEF AcceptorOf
<1> QED
  BY <1>3 DEF g

(* The acceptor becomes the end of a connection, or fails.                 *)
LEMMA AcceptorEnds ==
  ASSUME NEW q \in Seq(RegistryMessage), NEW f \in Seq(RegistryMessage), NEW n \in Nat, n > 0,
         AcceptorOf(q, n), NEW j \in DOMAIN f, Starts(f[j]) \/ Failing(f[j]),
         \A i \in DOMAIN f : Starts(f[i]) => i = j
  PROVE  AcceptorOf(q \o f, n - 1)
<1> DEFINE g == q \o f
<1>1. n = 1 /\ n - 1 = 0
  BY DEF AcceptorOf
<1>2. \A i \in DOMAIN q : ~Starts(q[i])
  BY <1>1 DEF AcceptorOf
<1>3. Len(q) + j \in DOMAIN g /\ g[Len(q) + j] = f[j]
  BY Concat
<1>4. \A i \in DOMAIN g : Starts(g[i]) => i = Len(q) + j
  <2> SUFFICES ASSUME NEW i \in DOMAIN g, Starts(g[i]) PROVE i = Len(q) + j
    OBVIOUS
  <2>1. CASE i \in DOMAIN q
    <3>1. g[i] = q[i]
      BY <2>1, Concat
    <3> QED
      BY <1>2, <2>1, <3>1
  <2>2. CASE i - Len(q) \in DOMAIN f /\ i = Len(q) + (i - Len(q))
    <3>1. g[i] = f[i - Len(q)]
      BY <2>2, Concat
    <3> HIDE DEF g
    <3>2. i - Len(q) = j
      BY <2>2, <3>1
    <3> QED
      BY <2>2, <3>2
  <2> QED
    BY <2>1, <2>2, Concat
<1> HIDE DEF g
<1>5. AcceptorOf(g, 0)
  BY <1>3, <1>4 DEF AcceptorOf
<1> QED
  BY <1>1, <1>5 DEF g

-----------------------------------------------------------------------------
LEMMA RegistryInit == Init => RegistryInv
<1> SUFFICES ASSUME Init PROVE RegistryInv
  OBVIOUS
<1>1. TypeOK
  BY TypeInit
<1>2. \A c \in Conn : st["tunnel"][c] = "none"
  BY FarIs DEF Init
<1>3. rbox = <<[kind |-> "spawn_acceptor"]>> /\ acceptors = 0 /\ pids = {} /\ up = TRUE
  BY DEF Init
<1>4. DOMAIN rbox = {1} /\ rbox[1].kind = "spawn_acceptor"
  BY <1>3
<1>5. \A c \in Conn : TrackedOf(rbox, pids, "none", c)
  BY <1>3, <1>4 DEF TrackedOf, Registers, Exits, Begun, Gone
<1>6. AcceptorOf(rbox, acceptors)
  BY <1>3, <1>4 DEF AcceptorOf, Starts
<1> QED
  BY <1>1, <1>2, <1>3, <1>5, <1>6 DEF RegistryInv

(* Nothing happens that the registry keeps track of.                       *)
LEMMA RegistryRests ==
  ASSUME RegistryInv, TypeOK', UNCHANGED <<up, rbox, pids, acceptors>>,
         \A c \in Conn : \/ st'["tunnel"][c] = st["tunnel"][c]
                         \/ {st["tunnel"][c], st'["tunnel"][c]} \subseteq Begun
  PROVE  RegistryInv'
<1>1. ASSUME up, NEW c \in Conn PROVE TrackedOf(rbox, pids, st'["tunnel"][c], c)
  <2>1. TrackedOf(rbox, pids, st["tunnel"][c], c)
    BY <1>1 DEF RegistryInv
  <2>2. CASE st'["tunnel"][c] = st["tunnel"][c]
    BY <2>1, <2>2
  <2>3. CASE st["tunnel"][c] \in Begun /\ st'["tunnel"][c] \in Begun
    BY <2>1, <2>3, TrackedMoves
  <2> QED
    BY <2>2, <2>3
<1>2. \A c \in Conn : st'["tunnel"][c] # "accept"
  BY DEF RegistryInv, Begun
<1> QED
  BY <1>1, <1>2 DEF RegistryInv

LEMMA ExitIs ==
  ASSUME NEW s \in Side, NEW c \in Conn, NEW how \in Gone
  PROVE  /\ Exit(s, c, how) \in RegistryMessage /\ <<Exit(s, c, how)>> \in Seq(RegistryMessage)
         /\ ~Starts(Exit(s, c, how))
         /\ \A k : ~Registers(Exit(s, c, how), k)
         /\ \A k : s # "tunnel" \/ k # c => ~Exits(Exit(s, c, how), k)
<1>1. Exit(s, c, how) \in RegistryMessage
  BY DEF Exit, RegistryMessage
<1> QED
  BY <1>1 DEF Exit, Starts, Registers, Exits

(* An end of a connection is over.                                         *)
LEMMA RegistryEnds ==
  ASSUME RegistryInv, TypeOK', NEW s \in Side, NEW c \in Conn, NEW how \in Gone, Ends(s, c, how),
         s = "tunnel" => st["tunnel"][c] \in Begun, UNCHANGED <<up, pids, acceptors>>
  PROVE  RegistryInv'
<1> DEFINE m == Exit(s, c, how)
           f == <<m>>
<1>0. TypeOK /\ rbox \in Seq(RegistryMessage) /\ "tunnel" \in Side /\ "local" \in Side
  BY FarIs DEF RegistryInv, TypeOK
<1>1. /\ st'[s][c] = how
      /\ \A t \in Side, k \in Conn : t # s \/ k # c => st'[t][k] = st[t][k]
      /\ rbox' = rbox \/ (up /\ rbox' = Append(rbox, m))
      /\ s = "tunnel" => rbox' = IF up THEN Append(rbox, m) ELSE rbox
  BY <1>0, EndsIs
<1>2. /\ m \in RegistryMessage /\ f \in Seq(RegistryMessage) /\ ~Starts(m)
      /\ \A k : ~Registers(m, k)
      /\ \A k : s # "tunnel" \/ k # c => ~Exits(m, k)
  BY ExitIs
<1> HIDE DEF m
<1>3. Append(rbox, m) = rbox \o f /\ \A i \in DOMAIN f : f[i] = m
  BY <1>0, <1>2, AppendIsConcat
<1> HIDE DEF f
<1>4. up => \A k \in Conn : TrackedOf(rbox, pids, st["tunnel"][k], k)
  BY DEF RegistryInv
<1>5. ASSUME up, NEW k \in Conn, s # "tunnel" \/ k # c
      PROVE  TrackedOf(rbox', pids, st'["tunnel"][k], k)
  <2>1. st'["tunnel"][k] = st["tunnel"][k] /\ TrackedOf(rbox, pids, st["tunnel"][k], k)
    BY <1>0, <1>1, <1>4, <1>5
  <2>2. \A i \in DOMAIN f : ~Registers(f[i], k) /\ ~Exits(f[i], k)
    BY <1>2, <1>3, <1>5
  <2>3. TrackedOf(rbox \o f, pids, st["tunnel"][k], k)
    BY <1>0, <1>2, <2>1, <2>2, TrackedOther
  <2> QED
    BY <1>1, <1>3, <2>1, <2>3
<1>6. ASSUME up, s = "tunnel" PROVE TrackedOf(rbox', pids, st'["tunnel"][c], c)
  <2>1. TrackedOf(rbox, pids, st["tunnel"][c], c) /\ st["tunnel"][c] \in Begun
    BY <1>4, <1>6
  <2>2. TrackedOf(Append(rbox, m), pids, how, c)
    BY <1>0, <1>6, <2>1, TrackedEnds DEF m
  <2> QED
    BY <1>1, <1>6, <2>2
<1>7. ASSUME up PROVE AcceptorOf(rbox', acceptors)
  <2>1. AcceptorOf(rbox, acceptors) /\ \A i \in DOMAIN f : ~Starts(f[i])
    BY <1>2, <1>3, <1>7 DEF RegistryInv
  <2>2. AcceptorOf(rbox \o f, acceptors)
    BY <1>0, <1>2, <2>1, AcceptorOther
  <2> QED
    BY <1>1, <1>3, <2>1, <2>2
<1>8. \A k \in Conn : st'["tunnel"][k] # "accept"
  BY <1>0, <1>1 DEF RegistryInv, Gone
<1>9. up => \A k \in Conn : TrackedOf(rbox', pids, st'["tunnel"][k], k)
  BY <1>5, <1>6
<1> QED
  BY <1>7, <1>8, <1>9 DEF RegistryInv

(* What an acceptor does.                                                  *)
LEMMA RegistryAccepts ==
  ASSUME RegistryInv, TypeOK', NEW c \in Conn, Accept(c)
  PROVE  RegistryInv'
<1> DEFINE f == <<[kind |-> "register_connect", conn |-> c], Msg("spawn_acceptor")>>
<1>0. TypeOK /\ rbox \in Seq(RegistryMessage) /\ "tunnel" \in Side /\ acceptors \in Nat
  BY FarIs DEF RegistryInv, TypeOK
<1>1. /\ st'["tunnel"][c] = "accepted" /\ st["tunnel"][c] = "none"
      /\ \A t \in Side, k \in Conn : t # "tunnel" \/ k # c => st'[t][k] = st[t][k]
  <2>1. TypeOK /\ "tunnel" \in Side
    BY <1>0
  <2>2. "accepted" \in StateSet
    BY DEF StateSet, Begun
  <2>3. st' = [st EXCEPT !["tunnel"][c] = "accepted"] /\ st["tunnel"][c] = "none"
    BY DEF Accept
  <2> QED
    BY <2>1, <2>2, <2>3, StIs
<1>2. rbox' = rbox \o f /\ acceptors > 0 /\ acceptors' = acceptors - 1 /\ UNCHANGED <<up, pids>>
  BY DEF Accept
<1>3. /\ f \in Seq(RegistryMessage) /\ Len(f) = 2 /\ DOMAIN f = {1, 2}
      /\ f[1] = [kind |-> "register_connect", conn |-> c] /\ f[2] = Msg("spawn_acceptor")
  BY DEF Msg, RegistryMessage
<1> HIDE DEF f
<1>4. Registers(f[1], c) /\ \A k : k # c => ~Registers(f[1], k)
  BY <1>3 DEF Registers
<1>5. /\ \A k : ~Registers(f[2], k) /\ ~Exits(f[1], k) /\ ~Exits(f[2], k)
      /\ ~Starts(f[1]) /\ Starts(f[2])
  BY <1>3 DEF Registers, Exits, Starts, Msg
<1>6. up
  BY <1>0, <1>2 DEF RegistryInv
<1>7. \A k \in Conn : TrackedOf(rbox, pids, st["tunnel"][k], k)
  BY <1>6 DEF RegistryInv
<1>8. TrackedOf(rbox', pids, st'["tunnel"][c], c)
  <2>1. TrackedOf(rbox, pids, "none", c)
    BY <1>1, <1>7
  <2>2. "accepted" \in Begun
    BY DEF Begun
  <2>3. \A i \in DOMAIN f : ~Exits(f[i], c)
    BY <1>3, <1>5
  <2>4. TrackedOf(rbox \o f, pids, "accepted", c)
    BY <1>0, <1>3, <1>4, <1>5, <2>1, <2>2, <2>3, TrackedStarts
  <2> QED
    BY <1>1, <1>2, <2>4
<1>9. ASSUME NEW k \in Conn, k # c PROVE TrackedOf(rbox', pids, st'["tunnel"][k], k)
  <2>1. \A i \in DOMAIN f : ~Registers(f[i], k) /\ ~Exits(f[i], k)
    BY <1>3, <1>4, <1>5, <1>9
  <2>2. TrackedOf(rbox \o f, pids, st["tunnel"][k], k)
    BY <1>0, <1>3, <1>7, <2>1, TrackedOther
  <2> QED
    BY <1>0, <1>1, <1>2, <1>9, <2>2
<1>10. AcceptorOf(rbox', acceptors')
  <2>1. AcceptorOf(rbox, acceptors)
    BY <1>6 DEF RegistryInv
  <2>2. 2 \in DOMAIN f /\ \A i \in DOMAIN f : Starts(f[i]) => i = 2
    BY <1>3, <1>5
  <2>3. AcceptorOf(rbox \o f, acceptors - 1)
    BY <1>0, <1>2, <1>3, <1>5, <2>1, <2>2, AcceptorEnds
  <2> QED
    BY <1>2, <2>3
<1>11. \A k \in Conn : st'["tunnel"][k] # "accept"
  BY <1>0, <1>1 DEF RegistryInv
<1> QED
  BY <1>2, <1>6, <1>8, <1>9, <1>10, <1>11 DEF RegistryInv

LEMMA RegistryAcceptFails ==
  ASSUME RegistryInv, TypeOK', AcceptFails
  PROVE  RegistryInv'
<1> DEFINE m == [kind |-> "EXIT", side |-> "acceptor", reason |-> "error"]
           f == <<m>>
<1>0. rbox \in Seq(RegistryMessage) /\ acceptors \in Nat /\ up
  BY DEF RegistryInv, TypeOK, AcceptFails
<1>1. rbox' = Append(rbox, m) /\ acceptors > 0 /\ acceptors' = acceptors - 1 /\ UNCHANGED <<up, pids, st>>
  BY DEF AcceptFails, ends
<1>2. m \in RegistryMessage /\ ~Starts(m) /\ Failing(m) /\ \A k : ~Registers(m, k) /\ ~Exits(m, k)
  BY DEF RegistryMessage, Starts, Failing, Registers, Exits
<1> HIDE DEF m
<1>3. f \in Seq(RegistryMessage) /\ DOMAIN f = {1} /\ f[1] = m /\ Append(rbox, m) = rbox \o f
  BY <1>0, <1>2, AppendIsConcat
<1> HIDE DEF f
<1>4. ASSUME NEW k \in Conn PROVE TrackedOf(rbox', pids, st'["tunnel"][k], k)
  <2>1. TrackedOf(rbox, pids, st["tunnel"][k], k)
    BY <1>0 DEF RegistryInv
  <2>2. \A i \in DOMAIN f : ~Registers(f[i], k) /\ ~Exits(f[i], k)
    BY <1>2, <1>3
  <2>3. TrackedOf(rbox \o f, pids, st["tunnel"][k], k)
    BY <1>0, <1>3, <2>1, <2>2, TrackedOther
  <2> QED
    BY <1>1, <1>3, <2>3
<1>5. AcceptorOf(rbox', acceptors')
  <2>1. AcceptorOf(rbox, acceptors)
    BY <1>0 DEF RegistryInv
  <2>2. 1 \in DOMAIN f /\ Failing(f[1]) /\ \A i \in DOMAIN f : Starts(f[i]) => i = 1
    BY <1>2, <1>3
  <2>3. AcceptorOf(rbox \o f, acceptors - 1)
    BY <1>0, <1>1, <1>3, <2>1, <2>2, AcceptorEnds
  <2> QED
    BY <1>1, <1>3, <2>3
<1>6. \A k \in Conn : st'["tunnel"][k] # "accept"
  BY <1>1 DEF RegistryInv
<1> QED
  BY <1>0, <1>1, <1>4, <1>5, <1>6 DEF RegistryInv

LEMMA RegistryAsked ==
  ASSUME RegistryInv, TypeOK', NEW c \in Conn, GetConnectionId(c)
  PROVE  RegistryInv'
<1> DEFINE m == [kind |-> "get_connection_id", conn |-> c]
           f == <<m>>
<1>0. TypeOK /\ rbox \in Seq(RegistryMessage) /\ "tunnel" \in Side
  BY FarIs DEF RegistryInv, TypeOK
<1>1. /\ st'["tunnel"][c] = "asking" /\ st["tunnel"][c] = "accepted"
      /\ \A t \in Side, k \in Conn : t # "tunnel" \/ k # c => st'[t][k] = st[t][k]
  <2>1. TypeOK /\ "tunnel" \in Side
    BY <1>0
  <2>2. "asking" \in StateSet
    BY DEF StateSet, Begun
  <2>3. st' = [st EXCEPT !["tunnel"][c] = "asking"] /\ st["tunnel"][c] = "accepted"
    BY DEF GetConnectionId
  <2> QED
    BY <2>1, <2>2, <2>3, StIs
<1>2. Tell(m) /\ UNCHANGED <<up, pids, acceptors>>
  BY DEF GetConnectionId
<1>3. m \in RegistryMessage /\ ~Starts(m) /\ \A k : ~Registers(m, k) /\ ~Exits(m, k)
  BY DEF RegistryMessage, Starts, Registers, Exits
<1> HIDE DEF m
<1>4. f \in Seq(RegistryMessage) /\ DOMAIN f = {1} /\ f[1] = m /\ Append(rbox, m) = rbox \o f
  BY <1>0, <1>3, AppendIsConcat
<1>5. up => rbox' = rbox \o f
  BY <1>2, <1>4 DEF Tell
<1> HIDE DEF f
<1>6. ASSUME up, NEW k \in Conn PROVE TrackedOf(rbox', pids, st'["tunnel"][k], k)
  <2>1. TrackedOf(rbox, pids, st["tunnel"][k], k)
    BY <1>6 DEF RegistryInv
  <2>2. TrackedOf(rbox, pids, st'["tunnel"][k], k)
    <3>1. "accepted" \in Begun /\ "asking" \in Begun
      BY DEF Begun
    <3>2. CASE k = c
      BY <1>1, <2>1, <3>1, <3>2, TrackedMoves
    <3>3. CASE k # c
      BY <1>0, <1>1, <2>1, <3>3
    <3> QED
      BY <3>2, <3>3
  <2>3. \A i \in DOMAIN f : ~Registers(f[i], k) /\ ~Exits(f[i], k)
    BY <1>3, <1>4
  <2>4. TrackedOf(rbox \o f, pids, st'["tunnel"][k], k)
    BY <1>0, <1>4, <2>2, <2>3, TrackedOther
  <2> QED
    BY <1>5, <1>6, <2>4
<1>7. up => AcceptorOf(rbox', acceptors)
  <2>1. \A i \in DOMAIN f : ~Starts(f[i])
    BY <1>3, <1>4
  <2> QED
    BY <1>0, <1>4, <1>5, <2>1, AcceptorOther DEF RegistryInv
<1>8. \A k \in Conn : st'["tunnel"][k] # "accept"
  BY <1>0, <1>1 DEF RegistryInv
<1> QED
  BY <1>2, <1>6, <1>7, <1>8 DEF RegistryInv

(* What the registry does with the messages in its mailbox.                *)
LEMMA HeadOfRegistry ==
  ASSUME RegistryInv, NEW kind, NextMsg(kind)
  PROVE  /\ TypeOK /\ up /\ rbox \in Seq(RegistryMessage) /\ rbox # <<>> /\ Tail(rbox) \in Seq(RegistryMessage)
         /\ Head(rbox) \in RegistryMessage /\ Head(rbox).kind = kind /\ acceptors \in Nat
         /\ \A k \in Conn : TrackedOf(rbox, pids, st["tunnel"][k], k) /\ st["tunnel"][k] # "accept"
         /\ AcceptorOf(rbox, acceptors)
<1>1. TypeOK /\ up /\ rbox # <<>> /\ Head(rbox).kind = kind
  BY DEF RegistryInv, NextMsg
<1>2. rbox \in Seq(RegistryMessage) /\ acceptors \in Nat
  BY <1>1 DEF TypeOK
<1>3. Tail(rbox) \in Seq(RegistryMessage) /\ Head(rbox) \in RegistryMessage
  BY <1>1, <1>2, TailIs
<1> QED
  BY <1>1, <1>2, <1>3 DEF RegistryInv

LEMMA RegistrySpawns ==
  ASSUME RegistryInv, TypeOK', SpawnAcceptor
  PROVE  RegistryInv'
<1> DEFINE m == Head(rbox)
<1>1. /\ rbox \in Seq(RegistryMessage) /\ rbox # <<>> /\ m.kind = "spawn_acceptor" /\ up /\ acceptors \in Nat
      /\ \A k \in Conn : TrackedOf(rbox, pids, st["tunnel"][k], k) /\ st["tunnel"][k] # "accept"
      /\ AcceptorOf(rbox, acceptors)
  BY HeadOfRegistry DEF SpawnAcceptor
<1>2. rbox' = Tail(rbox) /\ acceptors' = acceptors + 1 /\ UNCHANGED <<up, pids, st>>
  BY DEF SpawnAcceptor, ends
<1>3. Starts(m) /\ \A k : ~Registers(m, k) /\ ~Exits(m, k)
  BY <1>1 DEF Starts, Registers, Exits
<1>4. ASSUME NEW k \in Conn PROVE TrackedOf(rbox', pids', st'["tunnel"][k], k)
  <2>1. TrackedOf(Tail(rbox), pids, st["tunnel"][k], k)
    BY <1>1, <1>3, TrackedSkip
  <2> QED
    BY <1>2, <2>1
<1>5. AcceptorOf(rbox', acceptors')
  BY <1>1, <1>2, <1>3, AcceptorStarts
<1> QED
  BY <1>1, <1>2, <1>4, <1>5 DEF RegistryInv

LEMMA RegistryRegisters ==
  ASSUME RegistryInv, TypeOK', RegisterConnect
  PROVE  RegistryInv'
<1> DEFINE m == Head(rbox)
           c == m.conn
<1>1. /\ rbox \in Seq(RegistryMessage) /\ rbox # <<>> /\ m.kind = "register_connect" /\ up /\ acceptors \in Nat
      /\ \A k \in Conn : TrackedOf(rbox, pids, st["tunnel"][k], k) /\ st["tunnel"][k] # "accept"
      /\ AcceptorOf(rbox, acceptors)
  BY HeadOfRegistry DEF RegisterConnect
<1>2. rbox' = Tail(rbox) /\ pids' = pids \cup {c} /\ UNCHANGED <<up, acceptors, st>>
  BY DEF RegisterConnect, ends
<1>3. /\ ~Starts(m) /\ ~Failing(m) /\ Registers(m, c)
      /\ \A k : ~Exits(m, k) /\ (k # c => ~Registers(m, k))
  BY <1>1 DEF Starts, Failing, Registers, Exits
<1>4. c \in pids' /\ \A k : k # c => (k \in pids' <=> k \in pids)
  BY <1>2
<1> HIDE DEF c
<1>5. ASSUME NEW k \in Conn PROVE TrackedOf(rbox', pids', st'["tunnel"][k], k)
  <2>1. TrackedOf(rbox, pids, st["tunnel"][k], k)
    BY <1>1
  <2>2. CASE k = c
    <3>1. TrackedOf(Tail(rbox), pids', st["tunnel"][k], k)
      BY <1>1, <1>3, <1>4, <2>1, <2>2, TrackedRegisters
    <3> QED
      BY <1>2, <3>1
  <2>3. CASE k # c
    <3>1. TrackedOf(Tail(rbox), pids', st["tunnel"][k], k)
      BY <1>1, <1>3, <1>4, <2>1, <2>3, TrackedSkip
    <3> QED
      BY <1>2, <3>1
  <2> QED
    BY <2>2, <2>3
<1>6. AcceptorOf(rbox', acceptors')
  BY <1>1, <1>2, <1>3, AcceptorSkip
<1> QED
  BY <1>1, <1>2, <1>5, <1>6 DEF RegistryInv

LEMMA RegistryNumbers ==
  ASSUME RegistryInv, TypeOK', ConnectionId
  PROVE  RegistryInv'
<1> DEFINE m == Head(rbox)
           c == m.conn
           v == IF st["tunnel"][c] = "asking" THEN "granted" ELSE st["tunnel"][c]
<1>1. /\ rbox \in Seq(RegistryMessage) /\ rbox # <<>> /\ m.kind = "get_connection_id" /\ up /\ acceptors \in Nat
      /\ \A k \in Conn : TrackedOf(rbox, pids, st["tunnel"][k], k) /\ st["tunnel"][k] # "accept"
      /\ AcceptorOf(rbox, acceptors) /\ TypeOK /\ m \in RegistryMessage
  BY HeadOfRegistry DEF ConnectionId
<1>2. rbox' = Tail(rbox) /\ UNCHANGED <<up, pids, acceptors>>
  BY DEF ConnectionId
<1>3. /\ ~Starts(m) /\ ~Failing(m) /\ \A k : ~Registers(m, k) /\ ~Exits(m, k)
  BY <1>1 DEF Starts, Failing, Registers, Exits
<1>4. c \in Conn /\ "tunnel" \in Side
  BY <1>1 DEF RegistryMessage, Side
<1>5. st' = [st EXCEPT !["tunnel"][c] = v]
  BY <1>1, <1>4 DEF ConnectionId, TypeOK
<1>6. st["tunnel"][c] \in StateSet
  BY <1>1, <1>4 DEF TypeOK, StateSet
<1>7. /\ v \in StateSet /\ v # "accept"
      /\ v = st["tunnel"][c] \/ (v \in Begun /\ st["tunnel"][c] \in Begun)
  BY <1>1, <1>4, <1>6 DEF StateSet, Begun
<1> HIDE DEF v, c, m
<1>8. st'["tunnel"][c] = v /\ \A k \in Conn : k # c => st'["tunnel"][k] = st["tunnel"][k]
  BY <1>1, <1>4, <1>5, <1>7, StIs
<1>9. ASSUME NEW k \in Conn PROVE TrackedOf(rbox', pids', st'["tunnel"][k], k)
  <2>1. TrackedOf(rbox, pids, st["tunnel"][k], k)
    BY <1>1
  <2>2. TrackedOf(rbox, pids, st'["tunnel"][k], k)
    <3>1. CASE st'["tunnel"][k] = st["tunnel"][k]
      BY <2>1, <3>1
    <3>2. CASE st["tunnel"][k] \in Begun /\ st'["tunnel"][k] \in Begun
      BY <2>1, <3>2, TrackedMoves
    <3> QED
      BY <1>7, <1>8, <3>1, <3>2
  <2>3. TrackedOf(Tail(rbox), pids, st'["tunnel"][k], k)
    BY <1>1, <1>3, <2>2, TrackedSkip DEF m
  <2> QED
    BY <1>2, <2>3
<1>10. AcceptorOf(rbox', acceptors')
  BY <1>1, <1>2, <1>3, AcceptorSkip DEF m
<1>11. \A k \in Conn : st'["tunnel"][k] # "accept"
  BY <1>1, <1>7, <1>8
<1> QED
  BY <1>1, <1>2, <1>9, <1>10, <1>11 DEF RegistryInv

LEMMA RegistryChildExits ==
  ASSUME RegistryInv, TypeOK', ChildExit
  PROVE  RegistryInv'
<1> DEFINE m == Head(rbox)
           z == Msg("shutdown")
           f == <<z>>
           known == m.side = "tunnel" /\ m.conn \in pids
<1>1. /\ rbox \in Seq(RegistryMessage) /\ rbox # <<>> /\ m.kind = "EXIT" /\ up /\ acceptors \in Nat
      /\ \A k \in Conn : TrackedOf(rbox, pids, st["tunnel"][k], k) /\ st["tunnel"][k] # "accept"
      /\ AcceptorOf(rbox, acceptors) /\ m \in RegistryMessage /\ Tail(rbox) \in Seq(RegistryMessage)
  BY HeadOfRegistry DEF ChildExit
<1>2. /\ known => pids' = pids \ {m.conn} /\ rbox' = Tail(rbox)
      /\ ~known => pids' = pids /\ rbox' = IF m.reason = "normal" THEN Tail(rbox) ELSE Append(Tail(rbox), z)
      /\ UNCHANGED <<up, acceptors, st>>
  BY DEF ChildExit, ends
<1>3. m.side \in Side \/ (m.side = "acceptor" /\ m.reason = "error")
  BY <1>1 DEF RegistryMessage
<1>4. /\ z \in RegistryMessage /\ z.kind = "shutdown" /\ ~Starts(z)
      /\ \A k : ~Registers(z, k) /\ ~Exits(z, k)
  BY DEF Msg, RegistryMessage, Starts, Registers, Exits
<1>5. /\ ~Starts(m) /\ \A k : ~Registers(m, k)
      /\ m.side \in Side => ~Failing(m)
      /\ \A k : Exits(m, k) <=> m.side = "tunnel" /\ m.conn = k
  BY <1>1, FarIs DEF Starts, Failing, Registers, Exits
<1> HIDE DEF m, z
<1>6. f \in Seq(RegistryMessage) /\ DOMAIN f = {1} /\ f[1] = z /\ Append(Tail(rbox), z) = Tail(rbox) \o f
  BY <1>1, <1>4, AppendIsConcat
<1> HIDE DEF f
<1>7. \A k : Exits(m, k) => k \notin pids'
  BY <1>2, <1>5
<1>8. \A k : ~Exits(m, k) => (k \in pids' <=> k \in pids)
  BY <1>2, <1>5
<1>9. ASSUME NEW k \in Conn PROVE TrackedOf(rbox', pids', st'["tunnel"][k], k)
  <2>1. TrackedOf(rbox, pids, st["tunnel"][k], k)
    BY <1>1
  <2>2. TrackedOf(Tail(rbox), pids', st["tunnel"][k], k)
    <3>1. CASE Exits(m, k)
      BY <1>1, <1>7, <2>1, <3>1, TrackedExits DEF m
    <3>2. CASE ~Exits(m, k)
      BY <1>1, <1>5, <1>8, <2>1, <3>2, TrackedSkip DEF m
    <3> QED
      BY <3>1, <3>2
  <2>3. \A i \in DOMAIN f : ~Registers(f[i], k) /\ ~Exits(f[i], k)
    BY <1>4, <1>6
  <2>4. TrackedOf(Tail(rbox) \o f, pids', st["tunnel"][k], k)
    BY <1>1, <1>6, <2>2, <2>3, TrackedOther
  <2> QED
    BY <1>2, <1>6, <2>2, <2>4
<1>10. AcceptorOf(rbox', acceptors')
  <2>1. /\ ~Failing(m) => AcceptorOf(Tail(rbox), acceptors)
        /\ AcceptorOf(Append(Tail(rbox), z), acceptors)
    BY <1>1, <1>4, <1>5, AcceptorSkip DEF m
  <2>2. CASE m.side \in Side
    BY <1>2, <1>5, <2>1, <2>2
  <2>3. CASE m.side = "acceptor" /\ m.reason = "error"
    BY <1>2, <2>1, <2>3
  <2> QED
    BY <1>3, <2>2, <2>3
<1> QED
  BY <1>1, <1>2, <1>9, <1>10 DEF RegistryInv

LEMMA RegistryHandles ==
  ASSUME RegistryInv, TypeOK', Registry
  PROVE  RegistryInv'
<1>1. CASE Shutdown
  <2>1. up' = FALSE /\ acceptors' = 0 /\ st' = st
    BY <1>1 DEF Shutdown, ends
  <2> QED
    BY <2>1 DEF RegistryInv
<1> QED
  BY <1>1, RegistrySpawns, RegistryRegisters, RegistryNumbers, RegistryChildExits DEF Registry

(* An end goes on in a way that the registry need not know of.             *)
LEMMA RegistryGoesOn ==
  ASSUME RegistryInv, TypeOK', UNCHANGED <<up, rbox, pids, acceptors>>,
         NEW s \in Side, NEW c \in Conn, NEW v \in StateSet, st' = [st EXCEPT ![s][c] = v],
         s = "local" \/ (st["tunnel"][c] \in Begun /\ v \in Begun)
  PROVE  RegistryInv'
<1>1. TypeOK /\ "tunnel" \in Side
  BY FarIs DEF RegistryInv
<1>2. st'[s][c] = v /\ \A t \in Side, k \in Conn : t # s \/ k # c => st'[t][k] = st[t][k]
  BY <1>1, StIs
<1>3. ASSUME NEW k \in Conn
      PROVE  \/ st'["tunnel"][k] = st["tunnel"][k]
             \/ {st["tunnel"][k], st'["tunnel"][k]} \subseteq Begun
  <2>1. CASE s # "tunnel" \/ k # c
    BY <1>1, <1>2, <2>1
  <2>2. CASE s = "tunnel" /\ k = c
    BY <1>2, <2>2
  <2> QED
    BY <2>1, <2>2
<1> QED
  BY <1>3, RegistryRests

LEMMA RegistryStays ==
  ASSUME RegistryInv, TypeOK', UNCHANGED <<up, rbox, pids, acceptors, st>>
  PROVE  RegistryInv'
  BY RegistryRests

(* The steps of the parts of a connection before they forward.             *)
LEMMA RegistryStarts ==
  ASSUME RegistryInv, TypeOK', NEW c \in Conn,
         ForwardInit(c) \/ StartLocal(c) \/ AcceptUser(c) \/ AcceptUserFails(c)
         \/ SetConnected(c) \/ SetState(c)
  PROVE  RegistryInv'
<1>1. UNCHANGED <<up, rbox, pids, acceptors>>
  BY DEF ForwardInit, StartLocal, AcceptUser, AcceptUserFails, SetConnected, SetState
<1>2. "tunnel" \in Side /\ "local" \in Side
  BY FarIs
<1>3. \A v \in {"accept", "accepted", "linked", "setting", "run", "failed"} : v \in StateSet
  BY DEF StateSet, Begun, Gone
<1>4. "granted" \in Begun /\ "run" \in Begun /\ "run" \in StateSet
  BY DEF Begun, StateSet
<1>5. CASE ForwardInit(c)
  <2>1. st["tunnel"][c] = "granted" /\ st' = [st EXCEPT !["tunnel"][c] = "run"]
    BY <1>5 DEF ForwardInit
  <2> QED
    BY <1>1, <1>2, <1>4, <2>1, RegistryGoesOn
<1>6. CASE ~ForwardInit(c)
  <2>1. PICK v \in {"accept", "accepted", "linked", "setting", "run", "failed"} :
          st' = [st EXCEPT !["local"][c] = v]
    BY <1>6 DEF StartLocal, AcceptUser, AcceptUserFails, SetConnected, SetState
  <2>2. v \in StateSet
    BY <1>3
  <2> QED
    BY <1>1, <1>2, <2>1, <2>2, RegistryGoesOn
<1> QED
  BY <1>5, <1>6

LEMMA RegistryForwards ==
  ASSUME RegistryInv, TypeOK', NEW s \in Side, NEW c \in Conn, Forward(s, c)
  PROVE  RegistryInv'
<1>0. TypeOK /\ "local" \in Side /\ "run" \in Begun /\ "hungup" \in Gone /\ "told" \in Gone /\ "failed" \in Gone
  BY FarIs DEF RegistryInv, Begun, Gone
<1>1. CASE TcpData(s, c) \/ Connected(s, c)
  <2>1. UNCHANGED <<up, rbox, pids, acceptors, st>>
    BY <1>1 DEF TcpData, Connected
  <2> QED
    BY <2>1, RegistryStays
<1>2. CASE SendData(s, c)
  <2>1. UNCHANGED <<up, pids, acceptors>> /\ st[s][c] = "run"
    BY <1>2 DEF SendData, Takes
  <2>2. UNCHANGED <<st, rbox>> \/ Ends(s, c, "failed")
    BY <1>2 DEF SendData
  <2>3. CASE UNCHANGED <<st, rbox>>
    BY <2>1, <2>3, RegistryStays
  <2>4. CASE Ends(s, c, "failed")
    BY <1>0, <2>1, <2>4, RegistryEnds
  <2> QED
    BY <2>2, <2>3, <2>4
<1>3. CASE TcpClosed(s, c) \/ Close(s, c)
  <2>1. UNCHANGED <<up, pids, acceptors>> /\ st[s][c] = "run"
    BY <1>3 DEF TcpClosed, Close, Takes
  <2>2. Ends(s, c, "hungup") \/ Ends(s, c, "told")
    BY <1>3 DEF TcpClosed, Close
  <2> QED
    BY <1>0, <2>1, <2>2, RegistryEnds
<1>4. CASE HandleSet(s, c)
  <2>1. UNCHANGED <<up, rbox, pids, acceptors>>
    BY <1>4 DEF HandleSet
  <2> DEFINE v == IF st["local"][c] = "setting" THEN "run" ELSE st["local"][c]
  <2>2. UNCHANGED st \/ st' = [st EXCEPT !["local"][c] = v]
    BY <1>0, <1>4 DEF HandleSet, TypeOK
  <2>3. v \in StateSet
    BY <1>0 DEF TypeOK, StateSet, Begun
  <2> HIDE DEF v
  <2>4. CASE UNCHANGED st
    BY <2>1, <2>4, RegistryStays
  <2>5. CASE st' = [st EXCEPT !["local"][c] = v]
    BY <1>0, <2>1, <2>3, <2>5, RegistryGoesOn
  <2> QED
    BY <2>2, <2>4, <2>5
<1> QED
  BY <1>1, <1>2, <1>3, <1>4 DEF Forward

LEMMA RegistryBreaks ==
  ASSUME RegistryInv, TypeOK', NEW s \in Side, NEW c \in Conn, SetStateFails(c) \/ LinkBreaks(s, c)
  PROVE  RegistryInv'
<1>1. "local" \in Side /\ "local" # "tunnel" /\ "failed" \in Gone
  BY FarIs DEF Gone
<1>2. CASE SetStateFails(c)
  <2>1. UNCHANGED <<up, pids, acceptors>> /\ Ends("local", c, "failed")
    BY <1>2 DEF SetStateFails
  <2> QED
    BY <1>1, <2>1, RegistryEnds
<1>3. CASE LinkBreaks(s, c)
  <2>1. UNCHANGED <<up, pids, acceptors>> /\ Ends(s, c, "failed") /\ (s = "tunnel" => Alive(s, c))
    BY <1>3 DEF LinkBreaks
  <2>2. s = "tunnel" => st["tunnel"][c] \in Begun
    BY <2>1 DEF Alive
  <2> QED
    BY <1>1, <2>1, <2>2, RegistryEnds
<1> QED
  BY <1>2, <1>3

LEMMA RegistryNext == RegistryInv /\ [Next]_vars => RegistryInv'
<1> SUFFICES ASSUME RegistryInv, [Next]_vars PROVE RegistryInv'
  OBVIOUS
<1>1. TypeOK' /\ "tunnel" \in Side
  BY TypeNext, FarIs DEF RegistryInv
<1>2. CASE Registry
  BY <1>1, <1>2, RegistryHandles
<1>3. ASSUME NEW c \in Conn, Work(c) PROVE RegistryInv'
  <2>1. CASE GetConnectionId(c)
    BY <1>1, <2>1, RegistryAsked
  <2>2. CASE ForwardInit(c) \/ AcceptUserFails(c) \/ StartLocal(c) \/ SetConnected(c) \/ SetState(c)
    BY <1>1, <2>2, RegistryStarts
  <2>3. CASE NoFreePort(c) \/ HavePort(c) \/ HavePortFails(c) \/ CloseListener(c) \/ ListenerLinkBreaks(c)
    <3>1. UNCHANGED <<up, rbox, pids, acceptors, st>>
      BY <2>3 DEF NoFreePort, HavePort, HavePortFails, CloseListener, ListenerLinkBreaks, ends
    <3> QED
      BY <1>1, <3>1, RegistryStays
  <2>4. CASE SetStateFails(c)
    BY <1>1, <2>4, RegistryBreaks
  <2>5. ASSUME NEW s \in Side, Forward(s, c) \/ LinkBreaks(s, c) PROVE RegistryInv'
    BY <1>1, <2>5, RegistryForwards, RegistryBreaks
  <2> QED
    BY <1>3, <2>1, <2>2, <2>3, <2>4, <2>5 DEF Work, Listener, LocalInit
<1>4. CASE AcceptFails
  BY <1>1, <1>4, RegistryAcceptFails
<1>5. ASSUME NEW c \in Conn, Accept(c) \/ AcceptUser(c) \/ AcceptUserFails(c) PROVE RegistryInv'
  BY <1>1, <1>5, RegistryAccepts, RegistryStarts
<1>6. ASSUME NEW c \in Conn, NEW s \in Side, PeerSends(s, c) \/ PeerHangsUp(s, c) PROVE RegistryInv'
  <2>1. UNCHANGED <<up, rbox, pids, acceptors, st>>
    BY <1>6 DEF PeerSends, PeerHangsUp
  <2> QED
    BY <1>1, <2>1, RegistryStays
<1>7. CASE UNCHANGED vars
  <2>1. UNCHANGED <<up, rbox, pids, acceptors, st>>
    BY <1>7 DEF vars, ends
  <2> QED
    BY <1>1, <2>1, RegistryStays
<1> QED
  BY <1>2, <1>3, <1>4, <1>5, <1>6, <1>7 DEF Next, Environment

(* The mailbox holds the messages that the registry still needs.           *)
LEMMA RegistryTruth == RegistryInv => RegistryTrue
<1> SUFFICES ASSUME RegistryInv, up PROVE RegistryTrue
  BY DEF RegistryTrue, RegistryAccurate, OneAcceptor
<1>1. /\ TypeOK /\ rbox \in Seq(RegistryMessage) /\ acceptors \in Nat /\ AcceptorOf(rbox, acceptors)
      /\ \A c \in Conn : TrackedOf(rbox, pids, st["tunnel"][c], c) /\ st["tunnel"][c] # "accept"
  BY DEF RegistryInv, TypeOK
<1>2. \A i \in DOMAIN rbox : rbox[i] \in RegistryMessage
  BY <1>1, LenProperties, ElementOfSeq
<1>3. ToSet(rbox) = {rbox[i] : i \in DOMAIN rbox}
  BY DEF ToSet
<1>4. ASSUME NEW c \in Conn
      PROVE  /\ (c \in pids /\ ~Alive("tunnel", c)) => Exit("tunnel", c, st["tunnel"][c]) \in ToSet(rbox)
             /\ (Alive("tunnel", c) /\ c \notin pids) =>
                   [kind |-> "register_connect", conn |-> c] \in ToSet(rbox)
  <2> DEFINE w == st["tunnel"][c]
  <2>1. TrackedOf(rbox, pids, w, c) /\ w # "accept" /\ (Alive("tunnel", c) <=> w \in Begun)
    BY <1>1 DEF Alive
  <2>2. w \in StateSet
    BY <1>1, FarIs DEF TypeOK, StateSet
  <2> HIDE DEF w
  <2>3. ASSUME c \in pids, w \notin Begun PROVE Exit("tunnel", c, w) \in ToSet(rbox)
    <3>1. w \in Gone
      BY <2>1, <2>2, <2>3 DEF TrackedOf, StateSet
    <3>2. PICK j \in DOMAIN rbox : Exits(rbox[j], c)
      BY <2>1, <2>3, <3>1 DEF TrackedOf
    <3>3. rbox[j] = Exit("tunnel", c, w)
      BY <2>1, <3>2 DEF TrackedOf
    <3> QED
      BY <1>3, <3>3
  <2>4. ASSUME w \in Begun, c \notin pids
        PROVE  [kind |-> "register_connect", conn |-> c] \in ToSet(rbox)
    <3>1. PICK i \in DOMAIN rbox : Registers(rbox[i], c)
      BY <2>1, <2>4 DEF TrackedOf
    <3>2. rbox[i] = [kind |-> "register_connect", conn |-> c]
      BY <1>2, <3>1 DEF Registers, RegistryMessage
    <3> QED
      BY <1>3, <3>2
  <2> QED
    BY <2>1, <2>3, <2>4 DEF w
<1> DEFINE coming == {i \in DOMAIN rbox : rbox[i].kind = "spawn_acceptor"}
           ending == {i \in DOMAIN rbox : \/ rbox[i].kind = "shutdown"
                                          \/ rbox[i].kind = "EXIT" /\ rbox[i].reason = "error"}
<1>5. \A i \in DOMAIN rbox : /\ i \in coming <=> Starts(rbox[i])
                             /\ Failing(rbox[i]) => i \in ending
  <2> SUFFICES ASSUME NEW i \in DOMAIN rbox
               PROVE  /\ i \in coming <=> Starts(rbox[i])
                      /\ Failing(rbox[i]) => i \in ending
    OBVIOUS
  <2>1. rbox[i].kind = "EXIT" /\ rbox[i].side = "acceptor" => rbox[i].reason = "error"
    BY <1>2, FarIs DEF RegistryMessage
  <2> QED
    BY <2>1 DEF Starts, Failing
<1>6. coming \subseteq DOMAIN rbox
  OBVIOUS
<1> HIDE DEF coming, ending
<1>7. acceptors = 0 \/ acceptors = 1
  BY <1>1 DEF AcceptorOf
<1>8. /\ acceptors <= 1 /\ (acceptors = 1 => coming = {})
      /\ \A i, j \in coming : i = j
  BY <1>1, <1>5, <1>6 DEF AcceptorOf
<1>9. acceptors = 0 /\ coming = {} => ending # {}
  BY <1>1, <1>5 DEF AcceptorOf
<1> QED
  BY <1>4, <1>8, <1>9 DEF RegistryTrue, RegistryAccurate, OneAcceptor, coming, ending

(* For any number of connections, what the registry knows is true but for  *)
(* messages on their way, and there is one acceptor or a message that      *)
(* starts one until a failure ends the server.                             *)
THEOREM RegistryAlways == Spec => []RegistryTrue
<1>1. Spec => []RegistryInv
  BY RegistryInit, RegistryNext, PTL DEF Spec
<1> QED
  BY <1>1, RegistryTruth, PTL
=============================================================================
