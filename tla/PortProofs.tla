----------------------------- MODULE PortProofs -----------------------------
(***************************************************************************)
(* Theorems about Port, for packets of any bytes and lengths, pipes and    *)
(* buffers of any size, and writes and reads that are cut anywhere.        *)
(*                                                                         *)
(* The packets that were sent lie in one stream, each with its header      *)
(* behind the end of the one before.  What was written is a prefix of that *)
(* stream; what the reader has is the first packets, and of the next one   *)
(* the bytes up to the place it has read to.                               *)
(***************************************************************************)
EXTENDS Port, SequenceTheorems, TLAPS

(* Where the packets are in the stream s: packet i + 1 begins at off[i].   *)
Layout(off, s) ==
  /\ s \in Seq(Byte) /\ off \in [0 .. Len(sent) -> Nat]
  /\ off[0] = 0 /\ off[Len(sent)] = Len(s)
  /\ \A i, k \in 0 .. Len(sent) : i <= k => off[i] <= off[k]
  /\ \A i \in 0 .. Len(sent) - 1 :
        /\ off[i + 1] = off[i] + HeaderLen + Len(sent[i + 1])
        /\ \A j \in 1 .. HeaderLen : s[off[i] + j] = Header(Len(sent[i + 1]))[j]
        /\ \A j \in 1 .. Len(sent[i + 1]) : s[off[i] + HeaderLen + j] = sent[i + 1][j]

(* What was written, and what is still to be.                              *)
Writes(off, s) ==
  /\ Len(wire) <= Len(s) /\ \A i \in 1 .. Len(wire) : wire[i] = s[i]
  /\ whole <= Len(sent) /\ Len(sent) <= whole + 1
  /\ off[whole] <= Len(wire)
  /\ whole < Len(sent) => Len(wire) < off[whole + 1]
  /\ ~closed => s = wire \o (left \o then)
  /\ left = <<>> => then = <<>>

(* What was read.  A reader that has returned less than a whole body, and  *)
(* one that has ended because its buffer is too small, may be anywhere.    *)
Exact == ~short \/ reader = "packet4"
Begins(off) == off[Len(got)] + (IF phase = "size" THEN 0 ELSE HeaderLen)

Reads(off, s) ==
  Exact =>
    /\ Len(got) <= whole /\ \A i \in 1 .. Len(got) : got[i] = sent[i]
    /\ status = "exit0" => closed /\ Len(got) = whole
    /\ status = "runs" =>
         /\ taken = Begins(off) + Len(buf)
         /\ \A j \in 1 .. Len(buf) : buf[j] = s[Begins(off) + j]
         /\ phase = "body" => Len(got) < Len(sent) /\ want = Len(sent[Len(got) + 1])

(* Bytes are read as long as some are wanted.                              *)
Wants == /\ phase = "size" => want = HeaderLen
         /\ Len(buf) < want

PortInv == PortTypeOK /\ Wants /\ \E off, s : Layout(off, s) /\ Writes(off, s) /\ Reads(off, s)

-----------------------------------------------------------------------------
(* The bytes of a size, and the size that is put together from them.       *)
LEMMA FourBytes ==
  ASSUME NEW n \in Nat
  PROVE  /\ (n \div 16777216) * 16777216 + ((n \div 65536) % 256) * 65536
              + ((n \div 256) % 256) * 256 + (n % 256) = n
         /\ n <= 2147483647 => n \div 16777216 \in Byte
         /\ (n \div 65536) % 256 \in Byte /\ (n \div 256) % 256 \in Byte /\ n % 256 \in Byte
<1> DEFINE a == n \div 256
           b == a \div 256
           c == b \div 256
<1>1. n = 256 * a + (n % 256) /\ a \in Nat
  BY SMTT(30)
<1>2. a = 256 * b + (a % 256) /\ b \in Nat
  <2> HIDE DEF a
  <2> QED
    BY <1>1, SMTT(30)
<1>3. b = 256 * c + (b % 256) /\ c \in Nat
  <2> HIDE DEF b
  <2> QED
    BY <1>2, SMTT(30)
<1>4. b = n \div 65536 /\ c = n \div 16777216
  BY SMTT(30)
<1>5. n <= 2147483647 => n \div 16777216 \in Byte
  BY SMTT(30) DEF Byte
<1>6. (n \div 65536) % 256 \in Byte /\ (n \div 256) % 256 \in Byte /\ n % 256 \in Byte
  BY SMTT(30) DEF Byte
<1> HIDE DEF a, b, c
<1> QED
  BY <1>1, <1>2, <1>3, <1>4, <1>5, <1>6, SMTT(30) DEF a

LEMMA HeaderIs ==
  ASSUME reader \in Readers, NEW p \in Packets
  PROVE  /\ Header(Len(p)) \in Seq(Byte) /\ Len(Header(Len(p))) = HeaderLen
         /\ \A b : (\A i \in 1 .. HeaderLen : b[i] = Header(Len(p))[i]) => SizeOf(b) = Len(p)
<1> DEFINE n == Len(p)
<1>1. n \in Nat /\ n <= 2147483647 /\ (reader = "packet1" => n < 256)
  BY PortAssumption, LenProperties
<1> HIDE DEF n
<1>2. CASE reader = "packet1"
  <2>1. n \in Byte /\ Header(n) = <<n>> /\ HeaderLen = 1 /\ \A b : SizeOf(b) = b[1]
    BY <1>1, <1>2 DEF Header, HeaderLen, SizeOf, Byte
  <2> QED
    BY <2>1 DEF n
<1>3. CASE reader # "packet1"
  <2> DEFINE b1 == n \div 16777216
             b2 == (n \div 65536) % 256
             b3 == (n \div 256) % 256
             b4 == n % 256
  <2>1. {b1, b2, b3, b4} \subseteq Byte /\ b1 * 16777216 + b2 * 65536 + b3 * 256 + b4 = n
    BY <1>1, FourBytes, SMTT(30)
  <2>2. 2^24 = 16777216 /\ 2^16 = 65536 /\ 2^8 = 256
    BY SMTT(30)
  <2>3. Header(n) = <<b1, b2, b3, b4>> /\ HeaderLen = 4
    BY <1>3, <2>2, SMTT(30) DEF Header, HeaderLen, Shr
  <2>4. \A b : SizeOf(b) = b[1] * 16777216 + b[2] * 65536 + b[3] * 256 + b[4]
    BY <1>3, <2>2, SMTT(30) DEF SizeOf
  <2> HIDE DEF b1, b2, b3, b4
  <2>5. Header(n) \in Seq(Byte) /\ Len(Header(n)) = 4
    BY <2>1, <2>3, SMTT(30)
  <2>6. ASSUME NEW b, \A i \in 1 .. 4 : b[i] = Header(n)[i] PROVE SizeOf(b) = n
    <3>1. b[1] = b1 /\ b[2] = b2 /\ b[3] = b3 /\ b[4] = b4
      BY <2>3, <2>6, SMTT(30)
    <3> QED
      BY <2>1, <2>4, <3>1, SMTT(30)
  <2> QED
    BY <2>3, <2>5, <2>6 DEF n
<1> QED
  BY <1>2, <1>3

LEMMA SizeIsNat ==
  ASSUME NEW b \in Seq(Byte), Len(b) = HeaderLen
  PROVE  SizeOf(b) \in Nat
<1>1. \A i \in 1 .. HeaderLen : b[i] \in Byte
  BY ElementOfSeq
<1>2. \A i \in 1 .. HeaderLen : b[i] \in Nat
  <2>1. \A x \in Byte : x \in Nat
    BY DEF Byte
  <2> QED
    BY <1>1, <2>1, Zenon
<1>3. CASE reader = "packet1"
  <2>1. 1 \in 1 .. HeaderLen /\ SizeOf(b) = b[1]
    BY <1>3 DEF SizeOf, HeaderLen
  <2> QED
    BY <1>2, <2>1, Zenon
<1>4. CASE reader # "packet1"
  <2>1. 2^24 = 16777216 /\ 2^16 = 65536 /\ 2^8 = 256
    BY SMTT(30)
  <2>2. {1, 2, 3, 4} \subseteq 1 .. HeaderLen
    BY <1>4 DEF HeaderLen
  <2>3. b[1] \in Nat /\ b[2] \in Nat /\ b[3] \in Nat /\ b[4] \in Nat
    BY <1>2, <2>2, Zenon
  <2>4. SizeOf(b) = b[1] * 16777216 + b[2] * 65536 + b[3] * 256 + b[4]
    BY <1>4, <2>1, SMTT(30) DEF SizeOf
  <2>5. PICK b1 \in Nat, b2 \in Nat, b3 \in Nat, b4 \in Nat : b1 = b[1] /\ b2 = b[2] /\ b3 = b[3] /\ b4 = b[4]
    BY <2>3
  <2>6. SizeOf(b) = b1 * 16777216 + b2 * 65536 + b3 * 256 + b4
    BY <2>4, <2>5, SMTT(30)
  <2> QED
    BY <2>6, SMTT(30)
<1> QED
  BY <1>3, <1>4

LEMMA TypeFacts ==
  ASSUME PortTypeOK
  PROVE  /\ sent \in Seq(Packets) /\ left \in Seq(Byte) /\ then \in Seq(Byte) /\ wire \in Seq(Byte)
         /\ buf \in Seq(Byte) /\ got \in Seq(Seq(Byte)) /\ reader \in Readers
         /\ Len(sent) \in Nat /\ Len(left) \in Nat /\ Len(then) \in Nat /\ Len(wire) \in Nat
         /\ Len(buf) \in Nat /\ Len(got) \in Nat /\ whole \in Nat /\ want \in Nat
         /\ taken \in Nat /\ taken <= Len(wire) /\ HeaderLen \in Nat \ {0}
         /\ \A i \in 1 .. Len(sent) : sent[i] \in Packets /\ sent[i] \in Seq(Byte) /\ Len(sent[i]) \in Nat
<1>1. /\ sent \in Seq(Packets) /\ left \in Seq(Byte) /\ then \in Seq(Byte) /\ wire \in Seq(Byte)
      /\ buf \in Seq(Byte) /\ got \in Seq(Seq(Byte)) /\ reader \in Readers
      /\ whole \in Nat /\ want \in Nat /\ taken \in 0 .. Len(wire)
  BY DEF PortTypeOK
<1>2. /\ Len(sent) \in Nat /\ Len(left) \in Nat /\ Len(then) \in Nat /\ Len(wire) \in Nat
      /\ Len(buf) \in Nat /\ Len(got) \in Nat
  BY <1>1, LenProperties
<1>3. \A i \in 1 .. Len(sent) : sent[i] \in Packets
  BY <1>1, ElementOfSeq
<1>4. \A p \in Packets : p \in Seq(Byte) /\ Len(p) \in Nat
  BY PortAssumption, LenProperties, SMTT(30)
<1>5. HeaderLen \in Nat \ {0}
  BY DEF HeaderLen
<1> QED
  BY <1>1, <1>2, <1>3, <1>4, <1>5

(* Two sequences of bytes, one behind the other.                           *)
LEMMA Joined ==
  ASSUME NEW a \in Seq(Byte), NEW b \in Seq(Byte)
  PROVE  /\ a \o b \in Seq(Byte) /\ Len(a \o b) = Len(a) + Len(b) /\ Len(a) \in Nat /\ Len(b) \in Nat
         /\ \A i \in 1 .. Len(a) : (a \o b)[i] = a[i]
         /\ \A i \in 1 .. Len(b) : (a \o b)[Len(a) + i] = b[i]
<1>1. a \o b \in Seq(Byte) /\ Len(a \o b) = Len(a) + Len(b) /\ Len(a) \in Nat /\ Len(b) \in Nat
  BY ConcatProperties, LenProperties
<1>2. \A i \in 1 .. Len(a) + Len(b) : (a \o b)[i] = IF i <= Len(a) THEN a[i] ELSE b[i - Len(a)]
  BY ConcatProperties
<1> DEFINE la == Len(a)
           lb == Len(b)
           c == a \o b
<1> HIDE DEF la, lb, c
<1>3. la \in Nat /\ lb \in Nat /\ \A i \in 1 .. la + lb : c[i] = IF i <= la THEN a[i] ELSE b[i - la]
  BY <1>1, <1>2 DEF la, lb, c
<1>4. \A i \in 1 .. la : c[i] = a[i]
  BY <1>3
<1>5. ASSUME NEW i \in 1 .. lb PROVE c[la + i] = b[i]
  <2>1. la + i \in 1 .. la + lb /\ ~(la + i <= la) /\ (la + i) - la = i
    BY <1>3
  <2> QED
    BY <1>3, <2>1
<1> QED
  BY <1>1, <1>4, <1>5 DEF la, lb, c

LEMMA InvInit == PortInit => PortInv
<1> SUFFICES ASSUME PortInit PROVE PortInv
  OBVIOUS
<1>1. /\ reader \in Readers /\ sent = <<>> /\ whole = 0 /\ left = <<>> /\ then = <<>> /\ closed = FALSE
      /\ wire = <<>> /\ taken = 0 /\ phase = "size" /\ want = HeaderLen /\ buf = <<>>
      /\ got = <<>> /\ short = FALSE /\ status = "runs"
  BY DEF PortInit
<1>2. HeaderLen \in Nat \ {0}
  BY DEF HeaderLen
<1>3. PortTypeOK
  <2>1. /\ <<>> \in Seq(Packets) /\ <<>> \in Seq(Byte) /\ <<>> \in Seq(Seq(Byte))
        /\ Len(wire) = 0 /\ 0 \in 0 .. 0
    BY <1>1
  <2> QED
    BY <1>1, <1>2, <2>1 DEF PortTypeOK
<1>4. Wants
  BY <1>1, <1>2 DEF Wants
<1>5. PICK off : off = [i \in {0} |-> 0]
  OBVIOUS
<1>6. off[0] = 0 /\ off \in [0 .. 0 -> Nat] /\ Len(<<>>) = 0 /\ <<>> \in Seq(Byte) /\ 0 .. 0 - 1 = {} /\ 1 .. 0 = {}
      /\ 0 .. 0 = {0}
  BY <1>5
<1>7. Layout(off, <<>>)
  BY <1>1, <1>6 DEF Layout
<1>8. Writes(off, <<>>)
  BY <1>1, <1>6 DEF Writes
<1>9. Reads(off, <<>>)
  BY <1>1, <1>6 DEF Reads, Begins
<1> QED
  BY <1>3, <1>4, <1>7, <1>8, <1>9 DEF PortInv

-----------------------------------------------------------------------------

(* A packet is sent: the stream gets its header and its body.              *)
LEMMA StreamGrows ==
  ASSUME NEW p \in Packets, NEW s \in Seq(Byte), NEW h \in Seq(Byte), NEW l \in Nat, Len(h) = l
  PROVE  /\ s \o (h \o p) \in Seq(Byte) /\ Len(s \o (h \o p)) = Len(s) + l + Len(p)
         /\ Len(s) \in Nat /\ Len(p) \in Nat
         /\ \A j \in 1 .. Len(s) : (s \o (h \o p))[j] = s[j]
         /\ \A j \in 1 .. l : (s \o (h \o p))[Len(s) + j] = h[j]
         /\ \A j \in 1 .. Len(p) : (s \o (h \o p))[Len(s) + l + j] = p[j]
<1>1. p \in Seq(Byte)
  BY PortAssumption, SMTT(30)
<1>2. /\ h \o p \in Seq(Byte) /\ Len(h \o p) = l + Len(p) /\ Len(p) \in Nat
      /\ \A i \in 1 .. l : (h \o p)[i] = h[i]
      /\ \A i \in 1 .. Len(p) : (h \o p)[l + i] = p[i]
  BY <1>1, Joined
<1> DEFINE f == h \o p
<1> HIDE DEF f
<1>3. /\ s \o f \in Seq(Byte) /\ Len(s \o f) = Len(s) + Len(f) /\ Len(s) \in Nat
      /\ \A i \in 1 .. Len(s) : (s \o f)[i] = s[i]
      /\ \A i \in 1 .. Len(f) : (s \o f)[Len(s) + i] = f[i]
  BY <1>2, Joined DEF f
<1> DEFINE t == s \o f
           ls == Len(s)
           lp == Len(p)
<1>4. f \in Seq(Byte) /\ Len(f) = l + lp /\ \A i \in 1 .. l : f[i] = h[i]
  BY <1>2 DEF f
<1>5. \A i \in 1 .. lp : f[l + i] = p[i]
  BY <1>2 DEF f
<1>6. ls \in Nat /\ lp \in Nat /\ \A i \in 1 .. l + lp : t[ls + i] = f[i]
  BY <1>2, <1>3, <1>4
<1> HIDE DEF t, ls, lp
<1>7. \A j \in 1 .. l : t[ls + j] = h[j]
  BY <1>4, <1>6
<1>8. ASSUME NEW j \in 1 .. lp PROVE t[ls + l + j] = p[j]
  <2>1. l + j \in 1 .. l + lp /\ ls + l + j = ls + (l + j)
    BY <1>6
  <2> QED
    BY <1>5, <1>6, <2>1
<1>9. Len(t) = ls + l + lp
  BY <1>3, <1>4, <1>6 DEF t, ls
<1> QED
  BY <1>3, <1>6, <1>7, <1>8, <1>9 DEF t, ls, lp, f

LEMMA InvSend == ASSUME PortInv, NEW p \in Packets, Send(p) PROVE PortInv'
<1>1. PortTypeOK /\ Wants
  BY DEF PortInv
<1>2. PICK off, s : Layout(off, s) /\ Writes(off, s) /\ Reads(off, s)
  BY DEF PortInv
<1>3. /\ left = <<>> /\ then = <<>> /\ ~closed /\ closed' = closed
      /\ sent' = Append(sent, p) /\ left' = Header(Len(p)) /\ then' = p
      /\ reader' = reader /\ whole' = whole /\ wire' = wire /\ taken' = taken /\ phase' = phase
      /\ want' = want /\ buf' = buf /\ got' = got /\ short' = short /\ status' = status
  BY DEF Send, Idle, readerVars
<1> DEFINE n == Len(sent)
           lw == Len(wire)
           lg == Len(got)
           lb == Len(buf)
<1>4. /\ sent \in Seq(Packets) /\ wire \in Seq(Byte) /\ reader \in Readers /\ p \in Seq(Byte)
      /\ n \in Nat /\ lw \in Nat /\ lg \in Nat /\ lb \in Nat /\ taken \in Nat /\ taken <= lw /\ whole \in Nat
      /\ \A i \in 1 .. n : sent[i] \in Packets /\ Len(sent[i]) \in Nat
  BY <1>1, TypeFacts, PortAssumption, SMTT(30)
<1>5. PICK h : h = Header(Len(p))
  OBVIOUS
<1>6. PICK l : l = HeaderLen
  OBVIOUS
<1>7. h \in Seq(Byte) /\ Len(h) = l /\ l \in Nat \ {0} /\ l = HeaderLen'
  BY <1>1, <1>3, <1>4, <1>5, <1>6, HeaderIs, TypeFacts DEF HeaderLen
<1>8. PICK H : H = [x \in Packets |-> Header(Len(x))]
  OBVIOUS
<1>9. (\A x \in Packets : Header(Len(x)) = H[x]) /\ (\A x \in Packets : Header(Len(x))' = H[x]) /\ H[p] = h
  BY <1>3, <1>5, <1>8 DEF Header
<1>10. /\ s \in Seq(Byte) /\ off \in [0 .. n -> Nat] /\ off[0] = 0 /\ off[n] = Len(s)
       /\ \A i, k \in 0 .. n : i <= k => off[i] <= off[k]
       /\ \A i \in 0 .. n - 1 :
            /\ off[i + 1] = off[i] + l + Len(sent[i + 1])
            /\ \A j \in 1 .. l : s[off[i] + j] = Header(Len(sent[i + 1]))[j]
            /\ \A j \in 1 .. Len(sent[i + 1]) : s[off[i] + l + j] = sent[i + 1][j]
  BY <1>2, <1>6 DEF Layout
<1>11. s = wire
  <2>1. s = wire \o (left \o then)
    BY <1>2, <1>3 DEF Writes
  <2> QED
    BY <1>3, <1>4, <2>1, ConcatEmptySeq, EmptySeq
<1>12. whole = n
  <2>1. whole <= n /\ n <= whole + 1 /\ (whole < n => lw < off[whole + 1])
    BY <1>2 DEF Writes
  <2>2. off[n] = lw
    BY <1>10, <1>11
  <2> HIDE DEF n, lw
  <2>3. whole < n => whole + 1 = n
    BY <1>4, <2>1
  <2> QED
    BY <1>4, <2>1, <2>2, <2>3
<1>13. PICK t : t = s \o (h \o p)
  OBVIOUS
<1>14. /\ t \in Seq(Byte) /\ Len(t) = lw + l + Len(p) /\ Len(p) \in Nat
       /\ \A j \in 1 .. lw : t[j] = s[j]
       /\ \A j \in 1 .. l : t[lw + j] = h[j]
       /\ \A j \in 1 .. Len(p) : t[lw + l + j] = p[j]
  <2>1. /\ t \in Seq(Byte) /\ Len(t) = Len(s) + l + Len(p) /\ Len(p) \in Nat
        /\ \A j \in 1 .. Len(s) : t[j] = s[j]
        /\ \A j \in 1 .. l : t[Len(s) + j] = h[j]
        /\ \A j \in 1 .. Len(p) : t[Len(s) + l + j] = p[j]
    <3>1. s \in Seq(Byte) /\ h \in Seq(Byte) /\ l \in Nat /\ Len(h) = l
      BY <1>7, <1>10
    <3>2. /\ s \o (h \o p) \in Seq(Byte) /\ Len(s \o (h \o p)) = Len(s) + l + Len(p) /\ Len(p) \in Nat
          /\ \A j \in 1 .. Len(s) : (s \o (h \o p))[j] = s[j]
          /\ \A j \in 1 .. l : (s \o (h \o p))[Len(s) + j] = h[j]
          /\ \A j \in 1 .. Len(p) : (s \o (h \o p))[Len(s) + l + j] = p[j]
      BY <3>1, StreamGrows, SMTT(30)
    <3> QED
      BY <1>13, <3>2
  <2>2. Len(s) = lw
    BY <1>11
  <2> QED
    BY ONLY <2>1, <2>2
<1>15. PICK m \in Nat : m = n
  BY <1>4
<1>16. PICK g : g = [i \in 0 .. m + 1 |-> IF i <= m THEN off[i] ELSE Len(t)]
  OBVIOUS
<1>17. /\ sent' \in Seq(Packets) /\ Len(sent') = m + 1 /\ sent'[m + 1] = p
       /\ \A i \in 1 .. m : sent'[i] = sent[i]
  BY <1>3, <1>4, <1>15, AppendProperties
<1> HIDE DEF n, lw, lg, lb
<1>18. PICK u \in Nat : u = Len(p)
  BY <1>14
<1>19. /\ t \in Seq(Byte) /\ Len(t) = off[m] + l + u /\ off[m] = lw /\ off[m] \in Nat
       /\ \A j \in 1 .. off[m] : t[j] = s[j]
       /\ \A j \in 1 .. l : t[off[m] + j] = h[j]
       /\ \A j \in 1 .. u : t[off[m] + l + j] = p[j]
  <2>1. off[m] = lw /\ off[m] \in Nat
    BY <1>4, <1>10, <1>11, <1>15 DEF lw
  <2> QED
    BY <1>14, <1>18, <2>1
<1>20. /\ g \in [0 .. m + 1 -> Nat] /\ g[m + 1] = Len(t) /\ \A i \in 0 .. m : g[i] = off[i]
       /\ Len(t) \in Nat
  BY <1>7, <1>10, <1>15, <1>16, <1>18, <1>19
<1>21. \A i \in 0 .. m : off[i] \in Nat /\ off[i] <= off[m]
  BY <1>10, <1>15
<1>22. \A i, k \in 0 .. m + 1 : i <= k => g[i] <= g[k]
  <2> SUFFICES ASSUME NEW i \in 0 .. m + 1, NEW k \in 0 .. m + 1, i <= k PROVE g[i] <= g[k]
    OBVIOUS
  <2>1. CASE k <= m
    <3>1. i \in 0 .. m /\ k \in 0 .. m
      BY <1>15, <2>1
    <3> QED
      BY <1>10, <1>15, <1>20, <3>1
  <2>2. CASE k = m + 1 /\ i <= m
    BY <1>7, <1>18, <1>19, <1>20, <1>21, <2>2, SMTT(30)
  <2>3. CASE k = m + 1 /\ i = m + 1
    BY <1>20, <2>3
  <2> QED
    BY <2>1, <2>2, <2>3
<1>23. ASSUME NEW i \in 0 .. m
       PROVE  /\ g[i + 1] = g[i] + l + Len(sent'[i + 1])
              /\ \A j \in 1 .. l : t[g[i] + j] = H[sent'[i + 1]][j]
              /\ \A j \in 1 .. Len(sent'[i + 1]) : t[g[i] + l + j] = sent'[i + 1][j]
  <2>1. CASE i = m
    <3>1. g[i] = off[m] /\ g[i + 1] = off[m] + l + u /\ sent'[i + 1] = p
      BY <1>17, <1>19, <1>20, <2>1
    <3> QED
      BY <1>9, <1>18, <1>19, <3>1
  <2>2. CASE i # m
    <3>1. PICK x : x = sent[i + 1]
      OBVIOUS
    <3>2. i \in 0 .. m - 1 /\ i + 1 \in 1 .. m /\ i + 1 \in 0 .. m
      BY <2>2
    <3>3. g[i] = off[i] /\ g[i + 1] = off[i + 1] /\ sent'[i + 1] = x /\ x \in Packets /\ Len(x) \in Nat
      BY <1>4, <1>15, <1>17, <1>20, <3>1, <3>2
    <3>4. /\ off[i + 1] = off[i] + l + Len(x)
          /\ \A j \in 1 .. l : s[off[i] + j] = H[x][j]
          /\ \A j \in 1 .. Len(x) : s[off[i] + l + j] = x[j]
      BY <1>9, <1>10, <1>15, <3>1, <3>2, <3>3
    <3>5. PICK v \in Nat : v = Len(x)
      BY <3>3
    <3>6. off[i] \in Nat /\ off[i] + l + v <= off[m]
      BY <1>21, <3>2, <3>4, <3>5
    <3>7. ASSUME NEW j \in 1 .. l PROVE t[off[i] + j] = s[off[i] + j]
      <4>1. off[i] + j \in 1 .. off[m]
        BY <1>7, <1>19, <3>5, <3>6, SMTT(30)
      <4> QED
        BY <1>19, <4>1
    <3>8. ASSUME NEW j \in 1 .. v PROVE t[off[i] + l + j] = s[off[i] + l + j]
      <4>1. off[i] + l + j \in 1 .. off[m]
        BY <1>7, <1>19, <3>5, <3>6, SMTT(30)
      <4> QED
        BY <1>19, <4>1
    <3> QED
      BY <3>3, <3>4, <3>5, <3>7, <3>8
  <2> QED
    BY <2>1, <2>2
<1>24. Layout(g, t)'
  <2>1. /\ t \in Seq(Byte) /\ g \in [0 .. Len(sent') -> Nat] /\ g[0] = 0 /\ g[Len(sent')] = Len(t)
        /\ \A i, k \in 0 .. Len(sent') : i <= k => g[i] <= g[k]
    BY <1>10, <1>17, <1>19, <1>20, <1>22
  <2>2. ASSUME NEW i \in 0 .. m
        PROVE  /\ g[i + 1] = g[i] + HeaderLen' + Len(sent'[i + 1])
               /\ \A j \in 1 .. HeaderLen' : t[g[i] + j] = Header(Len(sent[i + 1]))'[j]
               /\ \A j \in 1 .. Len(sent'[i + 1]) : t[g[i] + HeaderLen' + j] = sent'[i + 1][j]
    <3>1. sent'[i + 1] \in Packets
      BY <1>17, ElementOfSeq
    <3>2. Header(Len(sent[i + 1]))' = H[sent'[i + 1]]
      BY <1>3, <1>8, <3>1, ZenonT(30) DEF Header
    <3> QED
      BY <1>7, <1>23, <3>2
  <2>3. Len(sent') - 1 = m
    BY <1>17
  <2> QED
    BY <2>1, <2>2, <2>3 DEF Layout
<1>25. Writes(g, t)'
  <2>1. lw = off[m] /\ Len(wire') = lw /\ \A i \in 1 .. lw : wire'[i] = s[i]
    BY <1>3, <1>10, <1>11, <1>15, <1>19 DEF lw
  <2>2. Len(wire') <= Len(t) /\ \A i \in 1 .. Len(wire') : wire'[i] = t[i]
    <3>1. lw <= Len(t) /\ 1 .. lw = 1 .. off[m]
      BY <1>7, <1>18, <1>19, <2>1
    <3>2. \A i \in 1 .. off[m] : wire'[i] = t[i]
      BY <1>19, <2>1
    <3>3. 1 .. Len(wire') = 1 .. off[m] /\ Len(wire') <= Len(t)
      BY <2>1, <3>1
    <3> QED
      BY <3>2, <3>3
  <2>3. whole' = m /\ Len(sent') = m + 1 /\ m \in Nat
    BY <1>3, <1>12, <1>15, <1>17
  <2>4. g[whole'] <= Len(wire') /\ Len(wire') < g[whole' + 1]
    <3>1. g[m] = off[m] /\ g[m + 1] = off[m] + l + u /\ off[m] \in Nat /\ Len(wire') = off[m]
      BY <1>19, <1>20, <2>1
    <3>2. off[m] <= off[m] /\ off[m] < off[m] + l + u
      BY <1>7, <1>18, <3>1
    <3> QED
      BY <2>3, <3>1, <3>2
  <2>5. t = wire' \o (left' \o then')
    BY <1>3, <1>5, <1>11, <1>13
  <2>6. left' # <<>>
    <3>1. left' = h
      BY <1>3, <1>5
    <3> QED
      BY <1>7, <3>1, EmptySeq
  <2> QED
    BY <2>2, <2>3, <2>4, <2>5, <2>6 DEF Writes
<1>26. Reads(g, t)'
  <2> SUFFICES ASSUME Exact' PROVE
         /\ lg <= whole /\ \A i \in 1 .. lg : got[i] = sent'[i]
         /\ status = "exit0" => closed /\ lg = whole
         /\ status = "runs" =>
              /\ taken = Begins(g)' + lb
              /\ \A j \in 1 .. lb : buf[j] = t[Begins(g)' + j]
              /\ phase = "body" => lg < Len(sent') /\ want = Len(sent'[lg + 1])
    BY <1>3 DEF Reads, lg, lb
  <2>1. /\ lg <= whole /\ \A i \in 1 .. lg : got[i] = sent[i]
        /\ status = "exit0" => closed /\ lg = whole
        /\ status = "runs" =>
             /\ taken = Begins(off) + lb
             /\ \A j \in 1 .. lb : buf[j] = s[Begins(off) + j]
             /\ phase = "body" => lg < n /\ want = Len(sent[lg + 1])
    <3>1. Exact
      BY <1>3 DEF Exact
    <3> QED
      BY <1>2, <3>1 DEF Reads, lg, lb, n
  <2>2. whole = m /\ n = m /\ lg \in Nat /\ lg <= m
    BY <1>4, <1>12, <1>15, <2>1
  <2>3. Begins(g)' = Begins(off) /\ Begins(off) \in Nat
    <3>1. g[lg] = off[lg] /\ off[lg] \in Nat
      BY <1>10, <1>20, <2>2
    <3>2. Begins(g)' = g[lg] + (IF phase = "size" THEN 0 ELSE HeaderLen')
      BY <1>3 DEF Begins, lg
    <3>3. Begins(off) = off[lg] + (IF phase = "size" THEN 0 ELSE HeaderLen)
      BY DEF Begins, lg
    <3>4. HeaderLen' = l /\ HeaderLen = l /\ l \in Nat
      BY <1>6, <1>7
    <3>5. (IF phase = "size" THEN 0 ELSE l) \in Nat
      BY <3>4
    <3> QED
      BY <3>1, <3>2, <3>3, <3>4, <3>5
  <2>4. \A i \in 1 .. lg : got[i] = sent'[i]
    BY <1>17, <2>1, <2>2
  <2>5. CASE status = "runs"
    <3>1. PICK b \in Nat : b = Begins(off)
      BY <2>3
    <3>2. taken = b + lb /\ b + lb <= off[m] /\ \A j \in 1 .. lb : buf[j] = s[b + j]
      BY <1>4, <1>10, <1>11, <1>15, <2>1, <2>5, <3>1 DEF lw
    <3>3. ASSUME NEW j \in 1 .. lb PROVE buf[j] = t[b + j]
      <4>1. b + lb <= off[m] /\ lb \in Nat /\ off[m] \in Nat
        BY <1>4, <1>19, <3>2
      <4>2. b + j \in 1 .. off[m]
        BY <4>1
      <4>3. t[b + j] = s[b + j]
        BY <1>19, <4>2
      <4> QED
        BY <3>2, <4>3
    <3>4. phase = "body" => lg < m + 1 /\ want = Len(sent'[lg + 1])
      <4>1. phase = "body" => lg < m /\ want = Len(sent[lg + 1])
        BY <2>1, <2>2, <2>5
      <4>2. lg < m => lg + 1 \in 1 .. m
        BY <2>2
      <4> QED
        BY <1>17, <2>2, <4>1, <4>2
    <3> QED
      BY <1>17, <2>1, <2>3, <2>4, <3>1, <3>2, <3>3, <3>4
  <2> QED
    BY <2>1, <2>4, <2>5
<1>27. PortTypeOK'
  <2>1. left' \in Seq(Byte) /\ then' \in Seq(Byte)
    BY <1>3, <1>4, <1>5, <1>7
  <2>2. UNCHANGED <<reader, whole, closed, wire, taken, phase, want, buf, got, short, status>>
    BY <1>3
  <2> QED
    BY <1>1, <1>17, <2>1, <2>2 DEF PortTypeOK
<1>28. Wants'
  BY <1>1, <1>3, <1>6, <1>7 DEF Wants
<1>29. \E f, x : Layout(f, x)' /\ Writes(f, x)' /\ Reads(f, x)'
  BY <1>24, <1>25, <1>26
<1> QED
  BY <1>27, <1>28, <1>29 DEF PortInv

LEMMA LayoutSame ==
  ASSUME NEW off, NEW s, Layout(off, s), reader' = reader, sent' = sent
  PROVE  Layout(off, s)' /\ HeaderLen' = HeaderLen
<1>1. HeaderLen' = HeaderLen
  BY DEF HeaderLen
<1>2. ASSUME NEW i \in 0 .. Len(sent') - 1
      PROVE  /\ off[i + 1] = off[i] + HeaderLen' + Len(sent'[i + 1])
             /\ \A j \in 1 .. HeaderLen' : s[off[i] + j] = Header(Len(sent[i + 1]))'[j]
             /\ \A j \in 1 .. Len(sent'[i + 1]) : s[off[i] + HeaderLen' + j] = sent'[i + 1][j]
  <2>1. Header(Len(sent[i + 1]))' = Header(Len(sent[i + 1]))
    BY DEF Header
  <2>2. /\ off[i + 1] = off[i] + HeaderLen + Len(sent[i + 1])
        /\ \A j \in 1 .. HeaderLen : s[off[i] + j] = Header(Len(sent[i + 1]))[j]
        /\ \A j \in 1 .. Len(sent[i + 1]) : s[off[i] + HeaderLen + j] = sent[i + 1][j]
    BY DEF Layout
  <2> QED
    BY <1>1, <2>1, <2>2
<1>3. /\ s \in Seq(Byte) /\ off \in [0 .. Len(sent') -> Nat]
      /\ off[0] = 0 /\ off[Len(sent')] = Len(s)
      /\ \A i, k \in 0 .. Len(sent') : i <= k => off[i] <= off[k]
  BY DEF Layout
<1> QED
  BY <1>1, <1>2, <1>3 DEF Layout

LEMMA Regrouped ==
  ASSUME NEW a \in Seq(Byte), NEW b \in Seq(Byte), NEW c \in Seq(Byte)
  PROVE  (a \o b) \o c = a \o (b \o c)
BY ConcatAssociative

(* A piece of what is left is written.                                     *)
LEMMA PieceWritten ==
  ASSUME NEW w \in Seq(Byte), NEW l \in Seq(Byte), NEW b \in Seq(Byte), NEW k \in 1 .. Len(l)
  PROVE  LET a == SubSeq(l, 1, k)
             rest == SubSeq(l, k + 1, Len(l))
         IN /\ a \in Seq(Byte) /\ rest \in Seq(Byte) /\ Len(a) = k /\ w \o a \in Seq(Byte)
            /\ Len(w \o a) = Len(w) + k
            /\ rest = <<>> => w \o (l \o b) = (w \o a) \o (b \o <<>>)
            /\ w \o (l \o b) = (w \o a) \o (rest \o b)
<1> DEFINE a == SubSeq(l, 1, k)
           rest == SubSeq(l, k + 1, Len(l))
           n == Len(l)
<1>1. n \in Nat /\ k \in Nat /\ 1 <= k /\ k <= n
  BY LenProperties
<1>2. a \in Seq(Byte) /\ Len(a) = k
  <2>1. \A i \in 1 .. k : l[i] \in Byte
    BY <1>1, ElementOfSeq
  <2> QED
    BY <1>1, <2>1, SubSeqProperties
<1>3. rest \in Seq(Byte)
  BY <1>1, ElementOfSeq, SubSeqProperties
<1>4. a \o rest = l
  <2>1. SubSeq(l, 1, k) \o SubSeq(l, k + 1, n) = SubSeq(l, 1, n)
    BY <1>1, ConcatAdjacentSubSeq
  <2> QED
    BY <2>1, SubSeqFull
<1> HIDE DEF a, rest, n
<1>5. w \o a \in Seq(Byte) /\ Len(w \o a) = Len(w) + k
  BY <1>2, Joined
<1>6. w \o (l \o b) = (w \o a) \o (rest \o b)
  <2>1. rest \o b \in Seq(Byte) /\ l \o b = a \o (rest \o b)
    <3>1. (a \o rest) \o b = a \o (rest \o b)
      BY <1>2, <1>3, Regrouped, ZenonT(60)
    <3> QED
      BY <1>3, <1>4, <3>1, Joined
  <2>2. w \o (a \o (rest \o b)) = (w \o a) \o (rest \o b)
    BY <1>2, <2>1, Regrouped
  <2> QED
    BY <2>1, <2>2
<1>7. rest = <<>> => rest \o b = b \o <<>>
  BY ConcatEmptySeq
<1> QED
  BY <1>2, <1>3, <1>5, <1>6, <1>7 DEF a, rest, n

LEMMA InvWrite == ASSUME PortInv, WriteSome PROVE PortInv'
<1>1. PortTypeOK /\ Wants
  BY DEF PortInv
<1>2. PICK off, s : Layout(off, s) /\ Writes(off, s) /\ Reads(off, s)
  BY DEF PortInv
<1>3. PICK k \in 1 .. Len(left) : ~closed /\ Write(k)
  BY DEF WriteSome
<1> DEFINE a == SubSeq(left, 1, k)
           rest == SubSeq(left, k + 1, Len(left))
           n == Len(sent)
           lw == Len(wire)
           lg == Len(got)
           lb == Len(buf)
<1>4. /\ ~closed /\ closed' = closed /\ wire' = wire \o a
      /\ rest = <<>> => left' = then /\ then' = <<>>
      /\ rest # <<>> => left' = rest /\ then' = then
      /\ rest = <<>> /\ then = <<>> => whole' = whole + 1
      /\ ~(rest = <<>> /\ then = <<>>) => whole' = whole
      /\ reader' = reader /\ sent' = sent /\ taken' = taken /\ phase' = phase
      /\ want' = want /\ buf' = buf /\ got' = got /\ short' = short /\ status' = status
  BY <1>3 DEF Write, readerVars
<1>5. /\ left \in Seq(Byte) /\ then \in Seq(Byte) /\ wire \in Seq(Byte)
      /\ n \in Nat /\ lw \in Nat /\ lg \in Nat /\ lb \in Nat /\ taken \in Nat /\ taken <= lw /\ whole \in Nat
      /\ Len(left) \in Nat /\ Len(then) \in Nat
  BY <1>1, TypeFacts
<1>6. /\ a \in Seq(Byte) /\ rest \in Seq(Byte) /\ Len(a) = k /\ wire \o a \in Seq(Byte)
      /\ Len(wire \o a) = Len(wire) + k
      /\ rest = <<>> => wire \o (left \o then) = (wire \o a) \o (then \o <<>>)
      /\ wire \o (left \o then) = (wire \o a) \o (rest \o then)
  BY <1>5, PieceWritten, ZenonT(30)
<1>7. k \in Nat /\ k > 0
  BY <1>5
<1> HIDE DEF a, rest, n, lw, lg, lb
<1>8. s = wire \o (left \o then) /\ s = wire' \o (left' \o then')
  BY <1>2, <1>4, <1>6 DEF Writes
<1>9. /\ left' \in Seq(Byte) /\ then' \in Seq(Byte) /\ wire' \in Seq(Byte) /\ Len(wire') = lw + k
      /\ whole' \in Nat
  BY <1>4, <1>5, <1>6, EmptySeq DEF lw
<1>10. /\ Len(s) \in Nat /\ Len(wire') <= Len(s) /\ \A i \in 1 .. Len(wire') : wire'[i] = s[i]
       /\ Len(s) = Len(wire') + (Len(left') + Len(then')) /\ Len(left') \in Nat /\ Len(then') \in Nat
  <2>1. left' \o then' \in Seq(Byte) /\ Len(left' \o then') = Len(left') + Len(then')
        /\ Len(left') \in Nat /\ Len(then') \in Nat
    BY <1>9, Joined
  <2>2. PICK x, y : x = wire' /\ y = left' \o then'
    OBVIOUS
  <2>3. x \in Seq(Byte) /\ y \in Seq(Byte) /\ s = x \o y
    BY <1>8, <1>9, <2>1, <2>2
  <2>4. /\ Len(s) = Len(x) + Len(y) /\ Len(x) \in Nat /\ Len(y) \in Nat
        /\ \A i \in 1 .. Len(x) : s[i] = x[i]
    BY <2>3, Joined
  <2>5. Len(x) <= Len(s) /\ Len(s) \in Nat
    BY <2>4
  <2> QED
    BY <2>1, <2>2, <2>4, <2>5
<1>11. /\ off \in [0 .. n -> Nat] /\ off[n] = Len(s)
       /\ whole <= n /\ n <= whole + 1 /\ off[whole] <= lw
  BY <1>2 DEF Layout, Writes, n, lw
<1>12. whole + 1 = n
  <2>1. lw < Len(s)
    BY <1>5, <1>7, <1>9, <1>10
  <2>2. whole # n
    BY <1>5, <1>10, <1>11, <2>1
  <2> QED
    BY <1>5, <1>11, <2>2
<1>13. (rest = <<>> /\ then = <<>>) \/ (left' # <<>> /\ whole' = whole)
  BY <1>4
<1>14. left' = <<>> => then' = <<>>
  BY <1>4
<1>15. /\ whole' <= n /\ n <= whole' + 1 /\ off[whole'] <= Len(wire')
       /\ whole' < n => Len(wire') < off[whole' + 1]
  <2>1. CASE rest = <<>> /\ then = <<>>
    <3>1. left' = <<>> /\ then' = <<>> /\ Len(left') = 0 /\ Len(then') = 0
      BY <1>4, <2>1
    <3>2. whole' = n /\ Len(s) = Len(wire')
      BY <1>4, <1>9, <1>10, <1>12, <2>1, <3>1
    <3> QED
      BY <1>5, <1>9, <1>10, <1>11, <3>2
  <2>2. CASE left' # <<>> /\ whole' = whole
    <3>1. Len(left') > 0
      BY <1>9, <1>10, <2>2, EmptySeq
    <3>2. Len(wire') < off[n] /\ whole < n
      BY <1>5, <1>9, <1>10, <1>11, <1>12, <3>1
    <3>3. off[whole] \in Nat /\ lw <= Len(wire')
      BY <1>5, <1>7, <1>9, <1>11
    <3> QED
      BY <1>5, <1>9, <1>11, <1>12, <2>2, <3>2, <3>3
  <2> QED
    BY <1>13, <2>1, <2>2
<1>16. Layout(off, s)' /\ HeaderLen' = HeaderLen
  BY <1>2, <1>4, LayoutSame
<1>17. Writes(off, s)'
  BY <1>4, <1>8, <1>10, <1>14, <1>15 DEF Writes, n
<1>18. Reads(off, s)'
  <2>1. whole <= whole'
    BY <1>4, <1>5
  <2>2. Begins(off)' = Begins(off)
    BY <1>4, <1>16 DEF Begins
  <2>3. Exact' = Exact
    BY <1>4 DEF Exact
  <2>4. ASSUME Exact
        PROVE  /\ lg <= whole' /\ \A i \in 1 .. lg : got[i] = sent[i]
               /\ status # "exit0"
               /\ status = "runs" =>
                     /\ taken = Begins(off) + lb
                     /\ \A j \in 1 .. lb : buf[j] = s[Begins(off) + j]
                     /\ phase = "body" => lg < n /\ want = Len(sent[lg + 1])
    <3>1. /\ lg <= whole /\ \A i \in 1 .. lg : got[i] = sent[i]
          /\ status = "exit0" => closed /\ lg = whole
          /\ status = "runs" =>
               /\ taken = Begins(off) + lb
               /\ \A j \in 1 .. lb : buf[j] = s[Begins(off) + j]
               /\ phase = "body" => lg < n /\ want = Len(sent[lg + 1])
      BY <1>2, <2>4 DEF Reads, lg, lb, n
    <3>2. lg <= whole'
      BY <1>5, <1>9, <2>1, <3>1
    <3> QED
      BY <1>4, <3>1, <3>2
  <2> QED
    BY <1>4, <2>2, <2>3, <2>4 DEF Reads, lg, lb, n
<1>19. PortTypeOK'
  <2>1. taken' \in 0 .. Len(wire')
    BY <1>4, <1>5, <1>7, <1>9
  <2> QED
    BY <1>1, <1>4, <1>9, <2>1 DEF PortTypeOK
<1>20. Wants'
  BY <1>1, <1>4, <1>16 DEF Wants
<1> QED
  BY <1>16, <1>17, <1>18, <1>19, <1>20 DEF PortInv

LEMMA InvClose == ASSUME PortInv, Close PROVE PortInv'
<1>1. PortTypeOK /\ Wants
  BY DEF PortInv
<1>2. PICK off, s : Layout(off, s) /\ Writes(off, s) /\ Reads(off, s)
  BY DEF PortInv
<1>3. /\ ~closed /\ closed' = TRUE /\ left' = <<>> /\ then' = <<>>
      /\ reader' = reader /\ sent' = sent /\ whole' = whole /\ wire' = wire /\ taken' = taken
      /\ phase' = phase /\ want' = want /\ buf' = buf /\ got' = got /\ short' = short /\ status' = status
  BY DEF Close, readerVars
<1>4. Layout(off, s)' /\ HeaderLen' = HeaderLen
  BY <1>2, <1>3, LayoutSame
<1>5. Writes(off, s)'
  BY <1>2, <1>3 DEF Writes
<1>6. Begins(off)' = Begins(off) /\ Exact' = Exact
  BY <1>3, <1>4 DEF Begins, Exact
<1>7. Reads(off, s)'
  BY <1>2, <1>3, <1>6 DEF Reads
<1>8. PortTypeOK'
  <2>1. <<>> \in Seq(Byte)
    BY EmptySeq
  <2> QED
    BY <1>1, <1>3, <2>1 DEF PortTypeOK
<1>9. Wants'
  BY <1>1, <1>3, <1>4 DEF Wants
<1> QED
  BY <1>4, <1>5, <1>7, <1>8, <1>9 DEF PortInv

(* At the end of the input everything that was written has been read, so   *)
(* the reader is at the beginning of a packet that has none of its bytes   *)
(* there, or in one that was cut off.                                      *)
LEMMA InvEof == ASSUME PortInv, ReadEof PROVE PortInv'
<1>1. PortTypeOK /\ Wants
  BY DEF PortInv
<1>2. PICK off, s : Layout(off, s) /\ Writes(off, s) /\ Reads(off, s)
  BY DEF PortInv
<1>3. /\ status = "runs" /\ closed /\ Len(wire) - taken = 0 /\ status' = "exit0"
      /\ reader' = reader /\ sent' = sent /\ whole' = whole /\ left' = left /\ then' = then
      /\ closed' = closed /\ wire' = wire /\ taken' = taken
      /\ phase' = phase /\ want' = want /\ buf' = buf /\ got' = got /\ short' = short
  BY DEF ReadEof, InPipe, writerVars
<1> DEFINE n == Len(sent)
           lw == Len(wire)
           lg == Len(got)
           lb == Len(buf)
<1>4. /\ n \in Nat /\ lw \in Nat /\ lg \in Nat /\ lb \in Nat /\ taken \in Nat /\ whole \in Nat /\ want \in Nat
      /\ HeaderLen \in Nat \ {0} /\ \A i \in 1 .. n : Len(sent[i]) \in Nat
  BY <1>1, TypeFacts
<1> HIDE DEF n, lw, lg, lb
<1>5. Layout(off, s)' /\ HeaderLen' = HeaderLen
  BY <1>2, <1>3, LayoutSame
<1>6. Writes(off, s)'
  BY <1>2, <1>3 DEF Writes
<1>7. Exact' = Exact
  BY <1>3 DEF Exact
<1>8. ASSUME Exact PROVE lg = whole /\ \A i \in 1 .. lg : got[i] = sent[i]
  <2>1. /\ lg <= whole /\ \A i \in 1 .. lg : got[i] = sent[i]
        /\ taken = Begins(off) + lb
        /\ phase = "body" => lg < n /\ want = Len(sent[lg + 1])
    BY <1>2, <1>3, <1>8 DEF Reads, lg, lb, n
  <2>2. /\ off \in [0 .. n -> Nat] /\ \A i, j \in 0 .. n : i <= j => off[i] <= off[j]
        /\ \A i \in 0 .. n - 1 : off[i + 1] = off[i] + HeaderLen + Len(sent[i + 1])
        /\ whole <= n /\ off[whole] <= lw
    BY <1>2 DEF Layout, Writes, n, lw
  <2>3. taken = lw
    BY <1>3, <1>4 DEF lw
  <2>4. (phase = "size" => want = HeaderLen) /\ lb < want /\ (phase = "size" \/ phase = "body")
    BY <1>1 DEF Wants, lb, PortTypeOK
  <2>5. ASSUME lg < whole PROVE FALSE
    <3>1. lg \in 0 .. n - 1 /\ lg + 1 \in 1 .. n /\ lg + 1 \in 0 .. n /\ whole \in 0 .. n /\ lg + 1 <= whole
      BY <1>4, <2>2, <2>5
    <3>2. PICK v \in Nat : v = Len(sent[lg + 1])
      BY <1>4, <3>1
    <3>3. /\ off[lg] \in Nat /\ off[lg + 1] \in Nat /\ off[lg + 1] <= off[whole] /\ off[whole] \in Nat
          /\ off[lg + 1] = off[lg] + HeaderLen + v
      <4>1. off[lg] \in Nat /\ off[lg + 1] \in Nat /\ off[whole] \in Nat
        <5>1. \A i \in 0 .. n : off[i] \in Nat
          BY <2>2
        <5>2. lg \in 0 .. n
          BY <1>4, <3>1
        <5> QED
          BY <3>1, <5>1, <5>2
      <4>2. off[lg + 1] <= off[whole]
        BY <2>2, <3>1
      <4>3. off[lg + 1] = off[lg] + HeaderLen + v
        BY <2>2, <3>1, <3>2
      <4> QED
        BY <4>1, <4>2, <4>3
    <3>6. off[whole] <= lw
      BY <2>2
    <3>7. PICK o \in Nat : o = off[lg]
      BY <3>3
    <3>8. PICK o2 \in Nat : o2 = off[lg + 1]
      BY <3>3
    <3>9. PICK w \in Nat : w = off[whole]
      BY <3>3
    <3>10. PICK h \in Nat, b \in Nat, e \in Nat : h = HeaderLen /\ b = lb /\ e = lw
      BY <1>4
    <3>11. o + h + v <= e
      <4>1. o2 = o + h + v
        BY <3>3, <3>7, <3>8, <3>10
      <4>2. o2 <= w
        BY <3>3, <3>8, <3>9
      <4>3. w <= e
        BY <3>6, <3>9, <3>10
      <4> QED
        BY <3>2, <3>7, <3>8, <3>9, <3>10, <4>1, <4>2, <4>3
    <3>4. CASE phase = "size"
      <4>1. e = o + b
        BY <2>1, <2>3, <3>4, <3>7, <3>10 DEF Begins, lg
      <4>2. b < h
        BY <2>4, <3>4, <3>10
      <4> QED
        BY <3>2, <3>7, <3>10, <3>11, <4>1, <4>2, SMTT(30)
    <3>5. CASE phase = "body"
      <4>1. e = o + h + b
        BY <2>1, <2>3, <3>5, <3>7, <3>10 DEF Begins, lg
      <4>2. b < v
        BY <2>1, <2>4, <3>2, <3>5, <3>10
      <4> QED
        BY <3>2, <3>7, <3>10, <3>11, <4>1, <4>2, SMTT(30)
    <3> QED
      BY <2>4, <3>4, <3>5
  <2> QED
    BY <1>4, <2>1, <2>5
<1>9. Reads(off, s)'
  BY <1>3, <1>4, <1>7, <1>8 DEF Reads, lg
<1>10. PortTypeOK'
  BY <1>1, <1>3 DEF PortTypeOK
<1>11. Wants'
  BY <1>1, <1>3, <1>5 DEF Wants
<1> QED
  BY <1>5, <1>6, <1>9, <1>10, <1>11 DEF PortInv

(* What a reader has of the phase after one read.                          *)
Bytes(k) == buf \o SubSeq(wire, taken + 1, taken + k)

LEMMA BytesRead ==
  ASSUME PortTypeOK, NEW k \in 1 .. InPipe, k <= want - Len(buf)
  PROVE  /\ Bytes(k) \in Seq(Byte) /\ Len(Bytes(k)) = Len(buf) + k /\ Len(Bytes(k)) \in Nat
         /\ k \in Nat \ {0} /\ Len(Bytes(k)) <= want
         /\ taken + k \in Nat /\ taken + k <= Len(wire)
         /\ \A j \in 1 .. Len(buf) : Bytes(k)[j] = buf[j]
         /\ \A j \in 1 .. k : Bytes(k)[Len(buf) + j] = wire[taken + j]
<1> DEFINE lw == Len(wire)
           lb == Len(buf)
           piece == SubSeq(wire, taken + 1, taken + k)
<1>1. wire \in Seq(Byte) /\ buf \in Seq(Byte) /\ lw \in Nat /\ lb \in Nat /\ taken \in Nat /\ taken <= lw /\ want \in Nat
  BY TypeFacts
<1>2. k \in 1 .. lw - taken /\ k <= want - lb
  BY DEF InPipe
<1> HIDE DEF lw, lb
<1>3. k \in Nat \ {0} /\ taken + k \in Nat /\ taken + k <= lw /\ lb + k <= want /\ lb + k \in Nat
  BY <1>1, <1>2
<1>4. \A i \in taken + 1 .. taken + k : wire[i] \in Byte
  <2>1. \A i \in 1 .. lw : wire[i] \in Byte
    BY <1>1, ElementOfSeq DEF lw
  <2> QED
    BY <1>1, <1>3, <2>1
<1>5. piece \in Seq(Byte) /\ Len(piece) = k /\ \A j \in 1 .. k : piece[j] = wire[taken + j]
  <2>1. taken + 1 \in Int /\ taken + k \in Int
    BY <1>1, <1>3
  <2>2. /\ piece \in Seq(Byte)
        /\ Len(piece) = IF taken + 1 <= taken + k THEN (taken + k) - (taken + 1) + 1 ELSE 0
        /\ \A j \in 1 .. (taken + k) - (taken + 1) + 1 : piece[j] = wire[(taken + 1) + j - 1]
    BY <1>4, <2>1, SubSeqProperties
  <2>3. taken + 1 <= taken + k /\ (taken + k) - (taken + 1) + 1 = k
    BY <1>1, <1>3
  <2>4. \A j \in 1 .. k : (taken + 1) + j - 1 = taken + j
    BY <1>1
  <2> QED
    BY <2>2, <2>3, <2>4
<1> HIDE DEF piece
<1>6. /\ buf \o piece \in Seq(Byte) /\ Len(buf \o piece) = Len(buf) + Len(piece)
      /\ \A i \in 1 .. Len(buf) : (buf \o piece)[i] = buf[i]
      /\ \A i \in 1 .. Len(piece) : (buf \o piece)[Len(buf) + i] = piece[i]
  BY <1>1, <1>5, Joined
<1>7. Bytes(k) = buf \o piece
  BY DEF Bytes, piece
<1> QED
  BY <1>3, <1>5, <1>6, <1>7 DEF lw, lb

(* What an exact reader has is what the stream has at its place.           *)
LEMMA StreamRead ==
  ASSUME PortTypeOK, NEW off, NEW s, Layout(off, s), Writes(off, s), Reads(off, s), Exact, status = "runs",
         NEW k \in 1 .. InPipe, k <= want - Len(buf)
  PROVE  /\ Begins(off) \in Nat /\ taken + k = Begins(off) + Len(Bytes(k))
         /\ \A j \in 1 .. Len(Bytes(k)) : Bytes(k)[j] = s[Begins(off) + j]
<1> DEFINE n == Len(sent)
           lw == Len(wire)
           lg == Len(got)
           lb == Len(buf)
           c == Begins(off)
           b == Bytes(k)
<1>1. /\ n \in Nat /\ lw \in Nat /\ lg \in Nat /\ lb \in Nat /\ taken \in Nat /\ whole \in Nat
      /\ HeaderLen \in Nat \ {0}
  BY TypeFacts
<1>2. /\ Len(b) = lb + k /\ k \in Nat \ {0} /\ taken + k <= lw
      /\ \A j \in 1 .. lb : b[j] = buf[j]
      /\ \A j \in 1 .. k : b[lb + j] = wire[taken + j]
  BY BytesRead
<1> HIDE DEF n, lw, lg, lb, c, b
<1>3. /\ lg <= whole /\ whole <= n /\ off \in [0 .. n -> Nat]
      /\ \A i \in 1 .. lw : wire[i] = s[i]
  BY DEF Layout, Writes, Reads, n, lg, lw
<1>4. taken = c + lb /\ \A j \in 1 .. lb : buf[j] = s[c + j]
  BY DEF Reads, lb, c
<1>5. c \in Nat
  <2>1. off[lg] \in Nat
    BY <1>1, <1>3
  <2>2. c = off[lg] + (IF phase = "size" THEN 0 ELSE HeaderLen)
    BY DEF c, lg, Begins
  <2> QED
    BY <1>1, <2>1, <2>2
<1>6. taken + k = c + (lb + k)
  BY <1>1, <1>2, <1>4, <1>5
<1>7. ASSUME NEW j \in 1 .. lb + k PROVE b[j] = s[c + j]
  <2>1. CASE j <= lb
    BY <1>1, <1>2, <1>4, <2>1
  <2>2. CASE ~(j <= lb)
    <3>1. PICK i \in 1 .. k : j = lb + i
      <4>1. j - lb \in 1 .. k /\ j = lb + (j - lb)
        BY <1>1, <1>2, <2>2
      <4> QED
        BY <4>1
    <3>2. taken + i \in 1 .. lw /\ taken + i = c + j
      BY <1>1, <1>2, <1>4, <1>5, <3>1
    <3>3. b[j] = wire[taken + i] /\ wire[taken + i] = s[taken + i]
      BY <1>2, <1>3, <3>1, <3>2
    <3> QED
      BY <3>2, <3>3
  <2> QED
    BY <2>1, <2>2
<1> QED
  BY <1>2, <1>5, <1>6, <1>7 DEF b, c

(* The reader is handed the packet whose last byte it has read: the writer *)
(* had written all of it.                                                  *)
LEMMA Returned ==
  ASSUME PortTypeOK, NEW off, NEW s, Layout(off, s), Writes(off, s), Reads(off, s), Exact, status = "runs",
         Len(got) < Len(sent), got' = Append(got, sent[Len(got) + 1]),
         taken' = off[Len(got) + 1], taken' <= Len(wire),
         phase' = "size", buf' = <<>>, status' = status,
         sent' = sent, whole' = whole
  PROVE  Reads(off, s)'
<1> DEFINE n == Len(sent)
           lw == Len(wire)
           lg == Len(got)
           x == sent[Len(got) + 1]
<1>1. n \in Nat /\ lw \in Nat /\ lg \in Nat /\ whole \in Nat /\ got \in Seq(Seq(Byte)) /\ lg < n
  BY TypeFacts
<1>2. lg + 1 \in 1 .. n
  <2> HIDE DEF n, lg
  <2> QED
    BY <1>1
<1>3. x \in Seq(Byte)
  BY <1>2, TypeFacts
<1>4. Len(got') = lg + 1 /\ got'[lg + 1] = x /\ \A i \in 1 .. lg : got'[i] = got[i]
  BY <1>1, <1>3, AppendProperties
<1> HIDE DEF n, lw, lg
<1>5. /\ lg <= whole /\ \A i \in 1 .. lg : got[i] = sent[i]
      /\ whole < n => lw < off[whole + 1]
  BY DEF Reads, Writes, lg, lw, n
<1>6. lg + 1 <= whole
  <2>1. ASSUME lg = whole PROVE FALSE
    <3>1. off \in [0 .. n -> Nat] /\ off[lg + 1] <= lw
      BY DEF Layout, n, lg, lw
    <3>2. off[lg + 1] \in Nat /\ lw < off[lg + 1]
      BY <1>1, <1>2, <1>5, <2>1, <3>1
    <3> QED
      BY <1>1, <3>1, <3>2
  <2> QED
    BY <1>1, <1>5, <2>1
<1>7. \A i \in 1 .. lg + 1 : got'[i] = sent[i]
  <2>1. got'[lg + 1] = sent[lg + 1]
    BY <1>4 DEF lg
  <2>2. \A i \in 1 .. lg + 1 : i = lg + 1 \/ i \in 1 .. lg
    BY <1>1
  <2> QED
    BY <1>4, <1>5, <2>1, <2>2
<1>8. Begins(off)' = off[lg + 1] /\ off[lg + 1] \in Nat
  <2>1. off[lg + 1] \in Nat
    BY <1>2 DEF Layout, n
  <2> QED
    BY <1>4, <2>1 DEF Begins
<1>9. Len(buf') = 0
  OBVIOUS
<1>10. taken' = Begins(off)' + Len(buf')
  BY <1>8, <1>9 DEF lg
<1>11. \A j \in 1 .. Len(buf') : buf'[j] = s[Begins(off)' + j]
  BY <1>9
<1> QED
  BY <1>4, <1>6, <1>7, <1>10, <1>11 DEF Reads

LEMMA InvRead == ASSUME PortInv, ReadSome PROVE PortInv'
<1>1. PortTypeOK /\ Wants
  BY DEF PortInv
<1>2. PICK off, s : Layout(off, s) /\ Writes(off, s) /\ Reads(off, s)
  BY DEF PortInv
<1>3. PICK k \in 1 .. InPipe : k <= want - Len(buf) /\ Read(k)
  BY DEF ReadSome
<1> DEFINE n == Len(sent)
           lw == Len(wire)
           lg == Len(got)
           b == Bytes(k)
<1>4. /\ status = "runs" /\ taken' = taken + k
      /\ reader' = reader /\ sent' = sent /\ whole' = whole /\ left' = left /\ then' = then
      /\ closed' = closed /\ wire' = wire
  BY <1>3 DEF Read, writerVars
<1>5. \/ /\ Len(b) < want /\ Loops /\ buf' = b
         /\ UNCHANGED <<phase, want, got, short, status>>
      \/ /\ ~(Len(b) < want /\ Loops) /\ phase = "size" /\ TakeSize(SizeOf(b))
      \/ /\ ~(Len(b) < want /\ Loops) /\ phase # "size" /\ Return(b, want)
  BY <1>3 DEF Read, Bytes
<1>6. /\ b \in Seq(Byte) /\ Len(b) = Len(buf) + k /\ Len(b) \in Nat /\ k \in Nat \ {0} /\ Len(b) <= want
      /\ taken + k \in Nat /\ taken + k <= lw
  BY <1>1, <1>3, BytesRead
<1>7. ASSUME Exact
      PROVE  /\ Begins(off) \in Nat /\ taken + k = Begins(off) + Len(b)
             /\ \A j \in 1 .. Len(b) : b[j] = s[Begins(off) + j]
  BY <1>1, <1>2, <1>3, <1>4, <1>7, StreamRead
<1>8. /\ n \in Nat /\ lw \in Nat /\ lg \in Nat /\ Len(buf) \in Nat /\ whole \in Nat /\ want \in Nat
      /\ got \in Seq(Seq(Byte)) /\ HeaderLen \in Nat \ {0} /\ reader \in Readers
      /\ \A i \in 1 .. n : sent[i] \in Packets /\ sent[i] \in Seq(Byte) /\ Len(sent[i]) \in Nat
  BY <1>1, TypeFacts
<1>9. (phase = "size" => want = HeaderLen) /\ (phase = "size" \/ phase = "body") /\ Len(buf) < want
  BY <1>1 DEF Wants, PortTypeOK
<1>10. /\ off \in [0 .. n -> Nat] /\ \A i, j \in 0 .. n : i <= j => off[i] <= off[j]
       /\ off[n] = Len(s) /\ Len(s) \in Nat /\ lw <= Len(s)
       /\ \A i \in 0 .. n - 1 :
            /\ off[i + 1] = off[i] + HeaderLen + Len(sent[i + 1])
            /\ \A j \in 1 .. HeaderLen : s[off[i] + j] = Header(Len(sent[i + 1]))[j]
            /\ \A j \in 1 .. Len(sent[i + 1]) : s[off[i] + HeaderLen + j] = sent[i + 1][j]
  BY <1>2, LenProperties DEF Layout, Writes
<1>11. ASSUME Exact
       PROVE  /\ lg <= whole /\ whole <= n /\ \A i \in 1 .. lg : got[i] = sent[i]
              /\ phase = "body" => lg < n /\ want = Len(sent[lg + 1])
  BY <1>2, <1>4, <1>11 DEF Reads, Writes
<1>12. Layout(off, s)' /\ HeaderLen' = HeaderLen
  BY <1>2, <1>4, LayoutSame
<1>13. Writes(off, s)'
  BY <1>2, <1>4 DEF Writes
<1>14. SUFFICES PortTypeOK' /\ Wants' /\ Reads(off, s)'
  BY <1>12, <1>13 DEF PortInv
<1> HIDE DEF n, lw, lg, b
<1>15. SUFFICES /\ phase' \in {"size", "body"} /\ want' \in Nat /\ buf' \in Seq(Byte)
                /\ got' \in Seq(Seq(Byte)) /\ short' \in BOOLEAN /\ status' \in {"runs", "exit1"}
                /\ Wants' /\ Reads(off, s)'
  <2>1. taken' \in 0 .. Len(wire')
    BY <1>4, <1>6, <1>8 DEF lw
  <2> QED
    BY <1>1, <1>4, <2>1 DEF PortTypeOK
(* Not all of the phase is there yet. *)
<1>16. CASE Len(b) < want /\ Loops /\ buf' = b /\ UNCHANGED <<phase, want, got, short, status>>
  <2>1. Wants'
    BY <1>1, <1>6, <1>12, <1>16 DEF Wants
  <2>2. Begins(off)' = Begins(off) /\ Exact' = Exact
    BY <1>4, <1>12, <1>16 DEF Begins, Exact
  <2>3. Reads(off, s)'
    <3>1. ASSUME Exact
          PROVE  /\ taken' = Begins(off) + Len(b) /\ \A j \in 1 .. Len(b) : b[j] = s[Begins(off) + j]
                 /\ Len(got) <= whole /\ \A i \in 1 .. Len(got) : got[i] = sent[i]
                 /\ phase = "body" => Len(got) < Len(sent) /\ want = Len(sent[Len(got) + 1])
      BY <1>4, <1>7, <1>11, <3>1 DEF lg, n
    <3> QED
      BY <1>4, <1>16, <2>2, <3>1 DEF Reads
  <2> QED
    BY <1>1, <1>4, <1>6, <1>16, <2>1, <2>3 DEF PortTypeOK
<1>17. CASE phase = "size" /\ ~(Len(b) < want /\ Loops) /\ TakeSize(SizeOf(b))
  <2>1. Len(b) = HeaderLen
    <3>1. Loops
      BY <1>17 DEF Loops
    <3> QED
      <4>1. Len(b) \in Nat /\ HeaderLen \in Nat /\ Len(b) <= HeaderLen /\ ~(Len(b) < HeaderLen)
        BY <1>6, <1>8, <1>9, <1>17, <3>1
      <4> QED
        BY <4>1
  <2>2. SizeOf(b) \in Nat
    BY <1>6, <1>8, <2>1, SizeIsNat
  <2>3. ASSUME Exact
        PROVE  /\ lg < n /\ lg + 1 \in 1 .. n /\ SizeOf(b) = Len(sent[lg + 1])
               /\ taken' = off[lg] + HeaderLen /\ off[lg] \in Nat
    <3>1. Begins(off) = off[lg] /\ lg \in 0 .. n /\ off[lg] \in Nat
      <4>1. lg \in 0 .. n
        BY <1>8, <1>11, <2>3
      <4>2. off[lg] \in Nat
        BY <1>10, <4>1
      <4> QED
        BY <1>17, <4>1, <4>2 DEF Begins, lg
    <3>2. taken' = off[lg] + HeaderLen
      BY <1>4, <1>7, <2>1, <2>3, <3>1
    <3>3. lg # n
      BY <1>4, <1>6, <1>8, <1>10, <3>1, <3>2
    <3>4. lg \in 0 .. n - 1 /\ lg + 1 \in 1 .. n /\ lg < n
      BY <1>8, <3>1, <3>3
    <3>5. \A j \in 1 .. HeaderLen : b[j] = Header(Len(sent[lg + 1]))[j]
      BY <1>7, <1>10, <2>1, <2>3, <3>1, <3>4
    <3>6. sent[lg + 1] \in Packets
      BY <1>8, <3>4
    <3> QED
      BY <1>8, <3>1, <3>2, <3>4, <3>5, <3>6, HeaderIs
  <2>4. CASE status' = "exit1" /\ UNCHANGED <<phase, want, buf, got, short>>
    <3>1. Exact' = Exact
      BY <1>4, <2>4 DEF Exact
    <3>2. Reads(off, s)'
      BY <1>4, <1>11, <2>4, <3>1 DEF Reads, lg
    <3> QED
      BY <1>1, <1>12, <2>4, <3>2 DEF PortTypeOK, Wants
  <2>5. CASE SizeOf(b) = 0 /\ Return(<<>>, 0)
    <3>1. /\ got' = Append(got, <<>>) /\ short' = short /\ phase' = "size" /\ want' = HeaderLen
          /\ buf' = <<>> /\ status' = status
      <4>1. [i \in 1 .. 0 |-> IF i <= Len(<<>>) THEN <<>>[i] ELSE 0] = <<>>
        OBVIOUS
      <4>2. short \in BOOLEAN /\ ~(Len(<<>>) < 0)
        BY <1>1 DEF PortTypeOK
      <4>3. (short \/ Len(<<>>) < 0) = short
        BY <4>2
      <4>4. want' = HeaderLen
        BY <1>12, <2>5 DEF Return
      <4> QED
        BY <2>5, <4>1, <4>3, <4>4 DEF Return
    <3>2. Exact' = Exact
      BY <1>4, <3>1 DEF Exact
    <3>3. ASSUME Exact PROVE Reads(off, s)'
      <4>1. lg < n /\ lg + 1 \in 1 .. n /\ Len(sent[lg + 1]) = 0 /\ taken' = off[lg] + HeaderLen /\ off[lg] \in Nat
        BY <2>3, <2>5, <3>3
      <4>2. sent[lg + 1] = <<>>
        BY <1>8, <4>1, EmptySeq
      <4>3. taken' = off[lg + 1]
        <5>1. lg \in 0 .. n - 1
          BY <1>8, <4>1
        <5>2. off[lg + 1] = off[lg] + HeaderLen + 0
          BY <1>10, <4>1, <5>1
        <5> QED
          BY <1>8, <4>1, <5>2
      <4> QED
        BY <1>1, <1>2, <1>4, <1>6, <3>1, <3>3, <4>1, <4>2, <4>3, Returned DEF lg, n, lw
    <3>4. Reads(off, s)'
      BY <3>2, <3>3 DEF Reads
    <3>5. got' \in Seq(Seq(Byte)) /\ Len(buf') = 0 /\ buf' \in Seq(Byte)
      BY <1>8, <3>1, EmptySeq, AppendProperties
    <3> QED
      BY <1>1, <1>4, <1>8, <1>12, <3>1, <3>4, <3>5 DEF PortTypeOK, Wants
  <2>6. CASE SizeOf(b) # 0 /\ phase' = "body" /\ want' = SizeOf(b) /\ buf' = <<>> /\ UNCHANGED <<got, short, status>>
    <3>1. Exact' = Exact
      BY <1>4, <2>6 DEF Exact
    <3>2. Len(buf') = 0 /\ buf' \in Seq(Byte)
      BY <2>6, EmptySeq
    <3>3. ASSUME Exact PROVE Reads(off, s)'
      <4>1. taken' = Begins(off)' + Len(buf')
        <5>1. Begins(off)' = off[lg] + HeaderLen
          BY <1>12, <2>6 DEF Begins, lg
        <5> QED
          BY <1>8, <2>3, <3>2, <3>3, <5>1
      <4>2. \A j \in 1 .. Len(buf') : buf'[j] = s[Begins(off)' + j]
        BY <3>2
      <4>3. lg < n /\ want' = Len(sent[lg + 1])
        BY <2>3, <2>6, <3>3
      <4> QED
        BY <1>4, <1>11, <2>6, <3>3, <4>1, <4>2, <4>3 DEF Reads, lg, n
    <3>4. Reads(off, s)'
      BY <3>1, <3>3 DEF Reads
    <3>5. Wants'
      BY <2>2, <2>6, <3>2 DEF Wants
    <3> QED
      BY <1>1, <1>4, <2>2, <2>6, <3>2, <3>4, <3>5 DEF PortTypeOK
  <2> QED
    BY <1>17, <2>4, <2>5, <2>6 DEF TakeSize
<1>18. CASE phase = "body" /\ ~(Len(b) < want /\ Loops) /\ Return(b, want)
  <2> DEFINE x == [i \in 1 .. want |-> IF i <= Len(b) THEN b[i] ELSE 0]
  <2>1. x \in Seq(Byte) /\ Len(x) = want
    <3>1. ASSUME NEW i \in 1 .. want PROVE (IF i <= Len(b) THEN b[i] ELSE 0) \in Byte
      <4>1. CASE i <= Len(b)
        <5>1. i \in 1 .. Len(b)
          BY <1>6, <4>1
        <5> QED
          BY <1>6, <4>1, <5>1, ElementOfSeq
      <4>2. CASE ~(i <= Len(b))
        BY <4>2 DEF Byte
      <4> QED
        BY <4>1, <4>2
    <3>2. x \in [1 .. want -> Byte]
      BY <3>1
    <3> QED
      BY <1>8, <3>2, IsASeq
  <2>2. /\ got' = Append(got, x) /\ short' = (short \/ Len(b) < want) /\ phase' = "size"
        /\ buf' = <<>> /\ status' = status
    BY <1>18 DEF Return
  <2>3. want' = HeaderLen
    BY <1>12, <1>18 DEF Return
  <2>4. ASSUME Exact' PROVE Exact /\ Len(b) = want
    <3>1. ~short' \/ reader = "packet4"
      BY <1>4, <2>4 DEF Exact
    <3>2. reader = "packet4" => Loops
      BY DEF Loops
    <3>3. ~(Len(b) < want)
      BY <1>18, <2>2, <3>1, <3>2
    <3>4. Len(b) = want
      <4>1. Len(b) \in Nat /\ want \in Nat /\ Len(b) <= want
        BY <1>6, <1>8
      <4> QED
        BY <3>3, <4>1
    <3> QED
      BY <2>2, <3>1, <3>4 DEF Exact
  <2>5. ASSUME Exact' PROVE Reads(off, s)'
    <3>1. Exact /\ Len(b) = want
      BY <2>4, <2>5
    <3>2. lg < n /\ want = Len(sent[lg + 1])
      BY <1>11, <1>18, <3>1
    <3>3. lg \in 0 .. n - 1 /\ lg + 1 \in 1 .. n /\ lg \in 0 .. n
      BY <1>8, <3>2
    <3>4. Begins(off) = off[lg] + HeaderLen /\ off[lg] \in Nat
      <4>1. off[lg] \in Nat
        BY <1>10, <3>3
      <4> QED
        BY <1>18, <4>1 DEF Begins, lg
    <3>5. taken' = off[lg + 1]
      <4>1. taken' = off[lg] + HeaderLen + want
        BY <1>4, <1>7, <3>1, <3>4
      <4>2. off[lg + 1] = off[lg] + HeaderLen + want
        BY <1>10, <3>2, <3>3
      <4> QED
        BY <4>1, <4>2
    <3>6. x = sent[lg + 1]
      <4>1. \A j \in 1 .. want : b[j] = s[off[lg] + HeaderLen + j]
        BY <1>7, <3>1, <3>4
      <4>2. \A j \in 1 .. want : s[off[lg] + HeaderLen + j] = sent[lg + 1][j]
        BY <1>10, <3>2, <3>3
      <4>3. \A j \in 1 .. want : x[j] = b[j]
        BY <1>8, <3>1
      <4>4. sent[lg + 1] \in Seq(Byte) /\ Len(sent[lg + 1]) = want
        BY <1>8, <3>2, <3>3
      <4> HIDE DEF x
      <4> QED
        BY <2>1, <4>1, <4>2, <4>3, <4>4, SeqEqual
    <3>7. got' = Append(got, sent[lg + 1])
      BY <2>2, <3>6
    <3>8. taken' <= lw
      BY <1>4, <1>6
    <3> QED
      BY <1>1, <1>2, <1>4, <2>2, <3>1, <3>2, <3>5, <3>7, <3>8, Returned DEF lg, n, lw
  <2>6. Reads(off, s)'
    BY <2>5 DEF Reads
  <2>7. got' \in Seq(Seq(Byte)) /\ Len(buf') = 0 /\ buf' \in Seq(Byte)
    BY <1>8, <2>1, <2>2, EmptySeq, AppendProperties
  <2>8. Wants'
    BY <1>8, <1>12, <2>2, <2>3, <2>7 DEF Wants
  <2>9. short' \in BOOLEAN
    BY <1>1, <2>2 DEF PortTypeOK
  <2> QED
    BY <1>4, <1>8, <2>2, <2>3, <2>6, <2>7, <2>8, <2>9
<1> QED
  BY <1>5, <1>9, <1>16, <1>17, <1>18

LEMMA InvNext == PortInv /\ [PortNext]_portVars => PortInv'
<1> SUFFICES ASSUME PortInv, [PortNext]_portVars PROVE PortInv'
  OBVIOUS
<1>1. CASE \E p \in Packets : Send(p)
  BY <1>1, InvSend
<1>2. CASE WriteSome
  BY <1>2, InvWrite
<1>3. CASE Close
  BY <1>3, InvClose
<1>4. CASE ReadSome
  BY <1>4, InvRead
<1>5. CASE ReadEof
  BY <1>5, InvEof
<1>6. CASE UNCHANGED portVars
  <2>1. UNCHANGED <<reader, sent, whole, left, then, closed, wire, taken, phase, want, buf, got, short, status>>
    BY <1>6 DEF portVars, writerVars, readerVars
  <2>2. PICK off, s : Layout(off, s) /\ Writes(off, s) /\ Reads(off, s)
    BY DEF PortInv
  <2>3. Layout(off, s)' /\ HeaderLen' = HeaderLen
    BY <2>1, <2>2, LayoutSame
  <2>4. Writes(off, s)'
    BY <2>1, <2>2 DEF Writes
  <2>5. Begins(off)' = Begins(off) /\ Exact' = Exact
    BY <2>1, <2>3 DEF Begins, Exact
  <2>6. Reads(off, s)'
    BY <2>1, <2>2, <2>5 DEF Reads
  <2>7. PortTypeOK' /\ Wants'
    BY <2>1, <2>3 DEF PortInv, PortTypeOK, Wants
  <2> QED
    BY <2>3, <2>4, <2>6, <2>7 DEF PortInv
<1> QED
  BY <1>1, <1>2, <1>3, <1>4, <1>5, <1>6 DEF PortNext

LEMMA InvAlways == PortSpec => []PortInv
BY InvInit, InvNext, PTL DEF PortSpec

(* For packets of any bytes and pipes of any size the state keeps its      *)
(* types: no size is put together that is not a number of bytes, and the   *)
(* reader is never ahead of the writer.                                    *)
THEOREM TypeCorrect == PortSpec => []PortTypeOK
<1>1. PortInv => PortTypeOK
  BY DEF PortInv
<1> QED
  BY <1>1, InvAlways, PTL

LEMMA ShorterPrefix ==
  ASSUME NEW S, NEW x \in Seq(S), NEW T, NEW y \in Seq(T), Len(x) <= Len(y),
         \A i \in 1 .. Len(x) : x[i] = y[i]
  PROVE  IsPrefix(x, y)
<1> DEFINE l == Len(x)
           m == Len(y)
<1>1. l \in Nat /\ m \in Nat /\ l <= m /\ x \in [1 .. l -> S]
  BY LenProperties
<1>2. SubSeq(y, 1, l) = [i \in 1 .. l |-> y[1 + i - 1]]
  BY <1>1
<1>3. SubSeq(x, 1, l) = [i \in 1 .. l |-> x[1 + i - 1]]
  BY <1>1
<1>4. \A i \in 1 .. l : x[1 + i - 1] = y[1 + i - 1]
  <2> HIDE DEF l, m
  <2>1. ASSUME NEW i \in 1 .. l PROVE x[1 + i - 1] = y[1 + i - 1]
    <3>1. 1 + i - 1 = i
      OBVIOUS
    <3>2. x[i] = y[i]
      BY DEF l
    <3> QED
      BY <3>1, <3>2
  <2> QED
    BY <2>1
<1>5. SubSeq(x, 1, l) = SubSeq(y, 1, l)
  BY <1>2, <1>3, <1>4
<1> QED
  BY <1>1, <1>5 DEF IsPrefix

LEMMA InvExact == PortInv => PacketsExact
<1> SUFFICES ASSUME PortInv, Exact PROVE IsPrefix(got, sent) /\ (status = "exit0" => Len(got) = whole)
  BY DEF PacketsExact, Exact
<1>1. PICK off, s : Writes(off, s) /\ Reads(off, s)
  BY DEF PortInv
<1>2. /\ got \in Seq(Seq(Byte)) /\ sent \in Seq(Packets)
      /\ Len(got) \in Nat /\ Len(sent) \in Nat /\ whole \in Nat
  BY TypeFacts DEF PortInv
<1>3. /\ Len(got) <= whole /\ whole <= Len(sent) /\ \A i \in 1 .. Len(got) : got[i] = sent[i]
      /\ status = "exit0" => Len(got) = whole
  BY <1>1 DEF Writes, Reads
<1>4. Len(got) <= Len(sent)
  BY <1>2, <1>3
<1>5. IsPrefix(got, sent)
  BY <1>2, <1>3, <1>4, ShorterPrefix
<1> QED
  BY <1>3, <1>5

(* For packets of any bytes and lengths, and however the kernel cuts the   *)
(* writes and the reads, a reader that has not returned less than a whole  *)
(* body has returned what was sent, in order, and one that ended with its  *)
(* input has returned every packet that was written to its last byte.      *)
THEOREM PacketsExactAlways == PortSpec => []PacketsExact
BY InvAlways, InvExact, PTL
=============================================================================
