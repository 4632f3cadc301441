---------------------------- MODULE FtdiProofs ------------------------------
(*****************************************************************************)
(* The programmer of FPGA boards, for requests with data of any bytes and  *)
(* length, replies of any size and pieces of any size that a header can    *)
(* name.                                                                   *)
(*                                                                         *)
(* The first part is about numbers and sequences: induction, and what      *)
(* FlattenSeq and FoldLeft compute. Induction is stated with a set instead *)
(* of a predicate, so that it needs no operator as a parameter; it follows *)
(* from the least elements of WellFoundedInduction.                        *)
(*                                                                         *)
(* The second part follows the bytes into the chip: what a chip that waits *)
(* for a command makes of a whole one, and where the steps of the          *)
(* functions of the program lead it (Leads). A command of the program      *)
(* leads a chip that waits, with the requests executed so far in its       *)
(* frames, to a chip that waits with one request more (ScriptDone).        *)
(*                                                                         *)
(* The third part is the invariant FtdiInv. While the program is at work   *)
(* nothing can be said of the bytes the chip has, so the invariant speaks  *)
(* of what the chip will have when everything that is still to be sent was *)
(* (FtdiData); and one request is under way at a time, so that what was    *)
(* executed and what was acknowledged are beginnings of what was asked     *)
(* (FtdiFlow).                                                             *)
(*****************************************************************************)
EXTENDS Ftdi, SequenceTheorems, WellFoundedInduction, TLAPS

(*****************************************************************************)
(* Numbers and sequences.                                                  *)
(*****************************************************************************)
(* Numbers, if there are any, have a least one among them.                 *)
LEMMA LeastNumber ==
  ASSUME NEW T \in SUBSET Nat, T # {}
  PROVE  \E m \in T : \A k \in T : m <= k
<1>1. IsWellFoundedOn(OpToRel(<, Nat), Nat)
  BY NatLessThanWellFounded
<1> DEFINE R == {ss \in Nat \X Nat : ss[1] < ss[2]}
<1>2. R = OpToRel(<, Nat)
  BY DEF OpToRel
<1>3. PICK m \in T : \A k \in T : <<k, m>> \notin R
  <2>1. IsWellFoundedOn(R, Nat)
    BY <1>1, <1>2
  <2> HIDE DEF R
  <2> QED
    BY <2>1, WFMin
<1>4. ASSUME NEW k \in T PROVE m <= k
  <2>1. m \in Nat /\ k \in Nat /\ <<k, m>> \notin R
    BY <1>3
  <2>2. <<k, m>> \in Nat \X Nat /\ <<k, m>>[1] = k /\ <<k, m>>[2] = m
    BY <2>1
  <2> QED
    BY <2>1, <2>2
<1> QED
  BY <1>4

(* What holds of 0, and of n + 1 if of n, holds of every number.           *)
LEMMA Induction ==
  ASSUME NEW T, 0 \in T, \A n \in Nat : n \in T => n + 1 \in T
  PROVE  Nat \subseteq T
<1> DEFINE Others == Nat \ T
<1> SUFFICES ASSUME Others # {} PROVE FALSE
  OBVIOUS
<1>1. PICK m \in Others : \A k \in Others : m <= k
  <2>1. Others \in SUBSET Nat
    OBVIOUS
  <2> HIDE DEF Others
  <2> QED
    BY <2>1, LeastNumber
<1>2. m \in Nat \ {0}
  OBVIOUS
<1>3. m - 1 \in Nat /\ m - 1 \in T /\ m - 1 + 1 = m
  BY <1>1, <1>2
<1> QED
  BY <1>3

(* A product is not negative.                                              *)
LEMMA Product ==
  ASSUME NEW i \in Int, NEW c \in Int
  PROVE  (i - 1) * c = i * c - c /\ i * c \in Int
BY SMTT(30)

(* Products of a number and its successor.                                 *)
LEMMA Products ==
  ASSUME NEW i \in Int, NEW k \in Int, NEW c \in Nat, i <= k
  PROVE  i * c <= k * c
<1>1. PICK d \in Nat : k = i + d
  <2>1. k - i \in Nat /\ k = i + (k - i)
    OBVIOUS
  <2> QED
    BY <2>1
<1>2. k * c = i * c + d * c
  BY <1>1, SMTT(30)
<1>3. d * c \in Nat /\ i * c \in Int
  BY SMTT(30)
<1> QED
  BY <1>2, <1>3

(* Where the quotient that is rounded up lies.                             *)
LEMMA Quotient ==
  ASSUME NEW m \in Nat, NEW c \in Nat \ {0}
  PROVE  m \div c \in Nat /\ (m \div c) * c <= m /\ m < (m \div c) * c + c
<1>1. m \div c \in Int /\ m % c \in 0 .. c - 1
  BY SMTT(30)
<1>2. m = c * (m \div c) + (m % c)
  BY SMTT(30)
<1>3. PICK q, r, p : q \in Int /\ r \in 0 .. c - 1 /\ q = m \div c /\ r = m % c /\ p = q * c
  BY <1>1
<1>4. p \in Int /\ m = p + r
  BY <1>2, <1>3, SMTT(30)
<1>5. p <= m /\ m < p + c
  BY <1>3, <1>4
<1>6. q >= 0
  BY <1>3, <1>5, SMTT(30)
<1> QED
  BY <1>3, <1>5, <1>6

(* A function on 1 .. n is a sequence.                                     *)
LEMMA IsSequence ==
  ASSUME NEW S, NEW n \in Nat, NEW f \in [1 .. n -> S]
  PROVE  f \in Seq(S) /\ Len(f) = n
<1>1. f \in Seq(S)
  BY SeqDef
<1> QED
  BY <1>1, LenProperties

(* A sequence that is not empty has a last element.                        *)
LEMMA SequenceEnds ==
  ASSUME NEW S, NEW s \in Seq(S), s # <<>>
  PROVE  \E r \in Seq(S), e \in S : s = Append(r, e) /\ Len(s) = Len(r) + 1
<1>1. PICK n : n = Len(s) - 1
  OBVIOUS
<1>2. Len(s) \in Nat /\ Len(s) > 0 /\ n \in Nat /\ n + 1 = Len(s)
  BY <1>1, EmptySeq, LenProperties
<1>3. PICK r, e : r = SubSeq(s, 1, n) /\ e = s[n + 1]
  OBVIOUS
<1>4. e \in S
  BY <1>2, <1>3, ElementOfSeq
<1>5. r \in Seq(S) /\ Len(r) = n /\ \A i \in 1 .. n : r[i] = s[i]
  BY <1>2, <1>3, SubSeqProperties
<1>6. /\ Append(r, e) \in Seq(S) /\ Len(Append(r, e)) = n + 1
      /\ \A i \in 1 .. n : Append(r, e)[i] = s[i]
      /\ Append(r, e)[n + 1] = s[n + 1]
  BY <1>3, <1>4, <1>5, AppendProperties
<1>7. ASSUME NEW i \in 1 .. n + 1 PROVE Append(r, e)[i] = s[i]
  <2>1. i \in 1 .. n \/ i = n + 1
    BY <1>2
  <2> QED
    BY <1>5, <1>6, <2>1
<1>8. Append(r, e) = s
  BY <1>2, <1>6, <1>7, SeqEqual
<1> QED
  BY <1>2, <1>4, <1>5, <1>8

(* What has an element is not empty.                                       *)
LEMMA NotEmpty == ASSUME NEW S, NEW s \in Seq(S), NEW e \in S PROVE Append(s, e) # <<>>
<1>1. Len(Append(s, e)) = Len(s) + 1 /\ Len(s) \in Nat
  BY AppendProperties, LenProperties
<1> QED
  BY <1>1

(* Sequences are built from the empty one, an element at a time.           *)
LEMMA SequenceInduction ==
  ASSUME NEW S, NEW T, <<>> \in T, \A s \in Seq(S), e \in S : s \in T => Append(s, e) \in T
  PROVE  Seq(S) \subseteq T
<1> DEFINE N == {n \in Nat : \A s \in Seq(S) : Len(s) = n => s \in T}
<1>1. 0 \in N
  BY EmptySeq
<1>2. ASSUME NEW n \in Nat, n \in N PROVE n + 1 \in N
  <2>1. ASSUME NEW s \in Seq(S), Len(s) = n + 1 PROVE s \in T
    <3>1. PICK r \in Seq(S), e \in S : s = Append(r, e) /\ Len(s) = Len(r) + 1
      BY <2>1, EmptySeq, SequenceEnds
    <3>2. Len(r) = n
      BY <2>1, <3>1, LenProperties
    <3> QED
      BY <1>2, <3>1, <3>2
  <2> QED
    BY <2>1
<1>3. Nat \subseteq N
  <2> HIDE DEF N
  <2> QED
    BY <1>1, <1>2, Induction
<1> QED
  BY <1>3, LenProperties

(* What is cut in two is one again.                                        *)
LEMMA Parts ==
  ASSUME NEW S, NEW s \in Seq(S), NEW m \in Nat, NEW n \in Nat, m <= n, n <= Len(s)
  PROVE  /\ SubSeq(s, 1, m) \in Seq(S) /\ SubSeq(s, m + 1, n) \in Seq(S)
         /\ Len(SubSeq(s, m + 1, n)) = n - m
         /\ SubSeq(s, 1, m) \o SubSeq(s, m + 1, n) = SubSeq(s, 1, n)
<1>1. PICK a, b, c, l : a = SubSeq(s, 1, m) /\ b = SubSeq(s, m + 1, n) /\ c = SubSeq(s, 1, n) /\ l = m + 1
  OBVIOUS
<1>2. Len(s) \in Nat /\ l \in Nat \ {0}
  BY <1>1, LenProperties
<1>3. a \in Seq(S) /\ Len(a) = m /\ \A i \in 1 .. m : a[i] = s[i]
  BY <1>1, <1>2, SubSeqProperties
<1>4. c \in Seq(S) /\ Len(c) = n /\ \A i \in 1 .. n : c[i] = s[i]
  BY <1>1, <1>2, SubSeqProperties
<1>5. b \in Seq(S) /\ Len(b) = n - m /\ \A i \in 1 .. n - m : b[i] = s[m + i]
  <2>1. \A i \in l .. n : i \in 1 .. Len(s)
    BY <1>2
  <2>2. l <= n + 1 /\ n - l + 1 = n - m /\ b = SubSeq(s, l, n)
    BY <1>1
  <2>3. b \in Seq(S) /\ Len(b) = n - l + 1 /\ \A i \in 1 .. n - l + 1 : b[i] = s[l + i - 1]
    BY <1>2, <2>1, <2>2, SubSeqProperties
  <2>4. \A i \in 1 .. n - m : l + i - 1 = m + i
    BY <1>1
  <2> QED
    BY <2>2, <2>3, <2>4
<1>6. PICK d : d = a \o b
  OBVIOUS
<1>7. d \in Seq(S) /\ Len(d) = n /\ \A i \in 1 .. n : d[i] = IF i <= m THEN a[i] ELSE b[i - m]
  <2>1. /\ a \o b \in Seq(S) /\ Len(a \o b) = Len(a) + Len(b)
        /\ \A i \in 1 .. Len(a) + Len(b) : (a \o b)[i] = IF i <= Len(a) THEN a[i] ELSE b[i - Len(a)]
    BY <1>3, <1>5, ConcatProperties, ZenonT(60)
  <2>2. Len(a) = m /\ Len(a) + Len(b) = n
    BY <1>3, <1>5
  <2> QED
    BY <1>6, <2>1, <2>2
<1>8. ASSUME NEW i \in 1 .. n PROVE d[i] = c[i]
  <2>1. CASE i <= m
    BY <1>3, <1>4, <1>7, <2>1
  <2>2. CASE ~(i <= m)
    <3>1. PICK j : j = i - m
      OBVIOUS
    <3>2. j \in 1 .. n - m /\ m + j = i
      BY <2>2, <3>1
    <3> QED
      BY <1>4, <1>5, <1>7, <2>2, <3>1, <3>2
  <2> QED
    BY <2>1, <2>2
<1>9. d = c
  BY <1>4, <1>7, <1>8, SeqEqual
<1> QED
  BY <1>1, <1>3, <1>5, <1>6, <1>9

-----------------------------------------------------------------------------
(* FlattenSeq.                                                             *)
Flattens(ss, n, f) == f = [i \in 1 .. n |-> IF i = 1 THEN ss[i] ELSE f[i - 1] \o ss[i]]

(* The recursion of FlattenSeq, at a place of it.                          *)
LEMMA FlattensAt ==
  ASSUME NEW ss, NEW n \in Nat, NEW f, Flattens(ss, n, f)
  PROVE  \A i \in 1 .. n : f[i] = IF i = 1 THEN ss[i] ELSE f[i - 1] \o ss[i]
BY DEF Flattens

(* There is a function that satisfies the recursion ...                    *)
LEMMA Flattened ==
  ASSUME NEW ss, NEW n \in Nat
  PROVE  \E f : Flattens(ss, n, f)
<1> DEFINE N == {k \in Nat : \E f : Flattens(ss, k, f)}
<1>1. 0 \in N
  <2>1. Flattens(ss, 0, <<>>)
    BY DEF Flattens
  <2> QED
    BY <2>1
<1>2. ASSUME NEW k \in Nat, k \in N PROVE k + 1 \in N
  <2>1. PICK f : Flattens(ss, k, f)
    BY <1>2
  <2> DEFINE g == [i \in 1 .. k + 1 |-> IF i = 1 THEN ss[i] ELSE f[i - 1] \o ss[i]]
  <2>2. \A i \in 1 .. k : f[i] = IF i = 1 THEN ss[i] ELSE f[i - 1] \o ss[i]
    BY <2>1 DEF Flattens
  <2>3. \A i \in 1 .. k : g[i] = f[i]
    BY <2>2
  <2>4. ASSUME NEW i \in 1 .. k + 1
        PROVE  g[i] = IF i = 1 THEN ss[i] ELSE g[i - 1] \o ss[i]
    <3>1. g[i] = IF i = 1 THEN ss[i] ELSE f[i - 1] \o ss[i]
      OBVIOUS
    <3>2. i # 1 => i - 1 \in 1 .. k
      OBVIOUS
    <3> HIDE DEF g
    <3> QED
      BY <2>3, <3>1, <3>2
  <2>5. g = [i \in 1 .. k + 1 |-> IF i = 1 THEN ss[i] ELSE g[i - 1] \o ss[i]]
    BY <2>4
  <2>6. Flattens(ss, k + 1, g)
    BY <2>5, Zenon DEF Flattens
  <2> HIDE DEF g
  <2> QED
    BY <2>6
<1>3. Nat \subseteq N
  <2> HIDE DEF N
  <2> QED
    BY <1>1, <1>2, Induction
<1> QED
  BY <1>3

(* ... and only one.                                                       *)
LEMMA FlattenedOnce ==
  ASSUME NEW ss, NEW n \in Nat, NEW f, Flattens(ss, n, f), NEW rr, NEW m \in Nat, n <= m,
         NEW g, Flattens(rr, m, g), \A i \in 1 .. n : rr[i] = ss[i]
  PROVE  \A i \in 1 .. n : f[i] = g[i]
<1> DEFINE N == {k \in Nat : k \in 1 .. n => f[k] = g[k]}
<1>1. 0 \in N
  OBVIOUS
<1>2. ASSUME NEW k \in Nat, k \in N PROVE k + 1 \in N
  <2>1. SUFFICES ASSUME k + 1 \in 1 .. n PROVE f[k + 1] = g[k + 1]
    OBVIOUS
  <2>2. /\ f[k + 1] = IF k + 1 = 1 THEN ss[k + 1] ELSE f[k + 1 - 1] \o ss[k + 1]
        /\ g[k + 1] = IF k + 1 = 1 THEN rr[k + 1] ELSE g[k + 1 - 1] \o rr[k + 1]
    <3>1. k + 1 \in 1 .. n /\ k + 1 \in 1 .. m
      BY <2>1
    <3> QED
      BY <3>1, FlattensAt
  <2>3. k + 1 - 1 = k /\ (k + 1 = 1 <=> k = 0) /\ (k # 0 => k \in 1 .. n) /\ rr[k + 1] = ss[k + 1]
    BY <2>1
  <2>4. k # 0 => f[k] = g[k]
    BY <1>2, <2>3
  <2> QED
    BY <2>2, <2>3, <2>4
<1>3. Nat \subseteq N
  <2> HIDE DEF N
  <2> QED
    BY <1>1, <1>2, Induction
<1> QED
  BY <1>3

(* Nothing flattened is nothing.                                           *)
LEMMA FlattenEmpty == FlattenSeq(<<>>) = <<>>
BY DEF FlattenSeq

(* FlattenSeq is given by any function that satisfies its recursion.       *)
LEMMA FlattenIs ==
  ASSUME NEW S, NEW ss \in Seq(S), NEW f, Flattens(ss, Len(ss), f), ss # <<>>
  PROVE  FlattenSeq(ss) = f[Len(ss)]
<1> DEFINE F == CHOOSE g : g = [i \in 1 .. Len(ss) |-> IF i = 1 THEN ss[i] ELSE g[i - 1] \o ss[i]]
<1>1. Len(ss) \in Nat /\ Len(ss) # 0 /\ Len(ss) \in 1 .. Len(ss)
  BY EmptySeq
<1>2. FlattenSeq(ss) = F[Len(ss)]
  BY <1>1 DEF FlattenSeq
<1>3. Flattens(ss, Len(ss), F)
  BY Flattened, <1>1 DEF Flattens
<1> HIDE DEF F
<1>4. \A i \in 1 .. Len(ss) : f[i] = F[i]
  BY <1>1, <1>3, FlattenedOnce
<1> QED
  BY <1>1, <1>2, <1>4

(* A sequence more is appended.                                            *)
LEMMA FlattenAppend ==
  ASSUME NEW S, NEW ss \in Seq(Seq(S)), NEW s \in Seq(S)
  PROVE  FlattenSeq(Append(ss, s)) = FlattenSeq(ss) \o s
<1> DEFINE n == Len(ss)
           rr == Append(ss, s)
<1>1. /\ n \in Nat /\ rr \in Seq(Seq(S)) /\ Len(rr) = n + 1 /\ rr # <<>>
      /\ \A i \in 1 .. n : rr[i] = ss[i]
      /\ rr[n + 1] = s
  BY AppendProperties, LenProperties, EmptySeq
<1> HIDE DEF rr
<1>2. PICK g : Flattens(rr, n + 1, g)
  <2>1. n + 1 \in Nat
    BY <1>1
  <2> HIDE DEF n
  <2> QED
    BY <2>1, Flattened
<1>3. PICK f : Flattens(ss, n, f)
  <2> HIDE DEF n
  <2> QED
    BY <1>1, Flattened
<1>4. FlattenSeq(rr) = g[n + 1]
  BY <1>1, <1>2, FlattenIs
<1>5. g[n + 1] = IF n = 0 THEN s ELSE g[n] \o s
  <2> HIDE DEF n
  <2>1. n + 1 \in Nat /\ n + 1 \in 1 .. n + 1 /\ n + 1 - 1 = n /\ (n + 1 = 1 <=> n = 0)
    BY <1>1
  <2>2. PICK m \in Nat : m = n + 1
    BY <2>1
  <2>3. \A i \in 1 .. m : g[i] = IF i = 1 THEN rr[i] ELSE g[i - 1] \o rr[i]
    BY <1>2, <2>2, FlattensAt
  <2>4. CASE n = 0
    BY <1>1, <2>1, <2>2, <2>3, <2>4
  <2>5. CASE n # 0
    <3>1. m \in 1 .. m /\ m # 1 /\ m - 1 = n /\ rr[m] = s
      BY <1>1, <2>1, <2>2, <2>5
    <3>2. g[m] = g[m - 1] \o rr[m]
      BY <2>3, <3>1
    <3> QED
      BY <2>2, <2>5, <3>1, <3>2
  <2> QED
    BY <2>4, <2>5
<1>6. CASE ss = <<>>
  <2>1. n = 0 /\ FlattenSeq(ss) = <<>> /\ <<>> \o s = s
    BY <1>6, FlattenEmpty, EmptySeq, ConcatEmptySeq
  <2> QED
    BY <1>1, <1>4, <1>5, <2>1 DEF rr
<1>7. CASE ss # <<>>
  <2>1. n # 0 /\ n \in 1 .. n /\ n + 1 - 1 = n /\ n <= n + 1
    BY <1>1, <1>7, EmptySeq
  <2>2. FlattenSeq(ss) = f[n]
    BY <1>3, <1>7, FlattenIs
  <2> HIDE DEF n
  <2>3. g[n] = f[n]
    <3>1. PICK m, k, r : m = n + 1 /\ k = n /\ r = rr
      OBVIOUS
    <3>2. m \in Nat /\ k \in Nat /\ k <= m
      BY <1>1, <3>1
    <3>3. Flattens(ss, k, f) /\ Flattens(r, m, g)
      BY <1>2, <1>3, <3>1
    <3>4. \A i \in 1 .. k : r[i] = ss[i]
      BY <1>1, <3>1
    <3>5. \A i \in 1 .. k : f[i] = g[i]
      BY <3>2, <3>3, <3>4, FlattenedOnce
    <3> QED
      BY <2>1, <3>1, <3>5
  <2>4. n + 1 # 1
    BY <1>1, <2>1
  <2>5. FlattenSeq(rr) = f[n] \o s
    BY <1>1, <1>4, <1>5, <2>1, <2>3, <2>4
  <2> QED
    BY <2>2, <2>5 DEF rr
<1> QED
  BY <1>6, <1>7

(* The elements are those of the sequences.                                *)
LEMMA FlattenType ==
  ASSUME NEW S, NEW ss \in Seq(Seq(S))
  PROVE  FlattenSeq(ss) \in Seq(S)
<1> DEFINE T == {r \in Seq(Seq(S)) : FlattenSeq(r) \in Seq(S)}
<1>1. <<>> \in T
  BY FlattenEmpty, EmptySeq
<1>2. ASSUME NEW r \in Seq(Seq(S)), NEW s \in Seq(S), r \in T PROVE Append(r, s) \in T
  BY <1>2, FlattenAppend, AppendProperties, ConcatProperties
<1> HIDE DEF T
<1>3. Seq(Seq(S)) \subseteq T
  BY <1>1, <1>2, SequenceInduction
<1> QED
  BY <1>3 DEF T

(* What is flattened in two parts is flattened.                            *)
LEMMA FlattenConcat ==
  ASSUME NEW S, NEW ss \in Seq(Seq(S)), NEW tt \in Seq(Seq(S))
  PROVE  FlattenSeq(ss \o tt) = FlattenSeq(ss) \o FlattenSeq(tt)
<1> DEFINE T == {r \in Seq(Seq(S)) : FlattenSeq(ss \o r) = FlattenSeq(ss) \o FlattenSeq(r)}
<1>1. PICK f \in Seq(S) : f = FlattenSeq(ss)
  BY FlattenType
<1>2. <<>> \in T
  <2>1. ss \o <<>> = ss /\ f \o <<>> = f
    BY ConcatEmptySeq
  <2> QED
    BY <1>1, <2>1, FlattenEmpty, EmptySeq
<1>3. ASSUME NEW r \in Seq(Seq(S)), NEW s \in Seq(S), r \in T PROVE Append(r, s) \in T
  <2>1. PICK q \in Seq(Seq(S)), g \in Seq(S) : q = ss \o r /\ g = FlattenSeq(r)
    BY FlattenType, ConcatProperties
  <2>2. ss \o Append(r, s) = Append(q, s)
    BY <2>1, SMTT(30)
  <2>5. f \o (g \o s) = (f \o g) \o s
    <3>1. f \in Seq(S) /\ g \in Seq(S) /\ s \in Seq(S)
      BY <1>1, <1>3, <2>1
    <3>2. (f \o g) \o s = f \o (g \o s)
      BY <3>1, ConcatAssociative, SMTT(30)
    <3> QED
      BY <3>2
  <2>3. FlattenSeq(Append(q, s)) = FlattenSeq(q) \o s /\ FlattenSeq(Append(r, s)) = g \o s
    BY <2>1, FlattenAppend
  <2>4. FlattenSeq(q) = f \o g
    BY <1>1, <1>3, <2>1
  <2> QED
    BY <1>1, <2>1, <2>2, <2>3, <2>4, <2>5, AppendProperties
<1> HIDE DEF T
<1>4. Seq(Seq(S)) \subseteq T
  BY <1>2, <1>3, SequenceInduction
<1> QED
  BY <1>4 DEF T

(* One sequence flattened is that sequence.                                *)
LEMMA FlattenOne ==
  ASSUME NEW S, NEW s \in Seq(S)
  PROVE  FlattenSeq(<<s>>) = s
<1>1. PICK e : e = <<>>
  OBVIOUS
<1>2. e \in Seq(Seq(S)) /\ Append(e, s) = <<s>> /\ <<>> \o s = s
  BY <1>1, EmptySeq, ConcatEmptySeq
<1>3. FlattenSeq(Append(e, s)) = FlattenSeq(e) \o s
  BY <1>2, FlattenAppend
<1> QED
  BY <1>1, <1>2, <1>3, FlattenEmpty

(* What FlattenSeq makes of the images of the elements.                    *)
FlatMap(m, s) == FlattenSeq([i \in DOMAIN s |-> m[s[i]]])

Maps(m, S, V) == m \in [S -> Seq(V)]

(* No element has no image.                                                *)
LEMMA FlatMapEmpty == \A m : FlatMap(m, <<>>) = <<>>
<1> TAKE m
<1>1. [i \in DOMAIN <<>> |-> m[<<>>[i]]] = <<>>
  OBVIOUS
<1> QED
  BY <1>1, FlattenEmpty DEF FlatMap

(* An element more has its image appended.                                 *)
LEMMA FlatMapAppend ==
  ASSUME NEW S, NEW V, NEW m, Maps(m, S, V), NEW s \in Seq(S), NEW e \in S
  PROVE  /\ FlatMap(m, s) \in Seq(V) /\ m[e] \in Seq(V)
         /\ FlatMap(m, Append(s, e)) = FlatMap(m, s) \o m[e]
<1> DEFINE Image(r) == [i \in DOMAIN r |-> m[r[i]]]
<1>0. m \in [S -> Seq(V)]
  BY DEF Maps
<1>1. ASSUME NEW r \in Seq(S)
      PROVE  /\ Image(r) \in Seq(Seq(V)) /\ Len(Image(r)) = Len(r)
             /\ \A i \in 1 .. Len(r) : Image(r)[i] = m[r[i]]
  <2>1. PICK n \in Nat : n = Len(r) /\ DOMAIN r = 1 .. n
    BY LenProperties
  <2>2. \A i \in 1 .. n : r[i] \in S
    BY <2>1, ElementOfSeq
  <2>3. \A i \in 1 .. n : m[r[i]] \in Seq(V)
    BY <1>0, <2>2
  <2>4. PICK f : f = Image(r)
    OBVIOUS
  <2>5. f = [i \in 1 .. n |-> m[r[i]]]
    BY <2>1, <2>4, Zenon
  <2>6. f \in [1 .. n -> Seq(V)] /\ \A i \in 1 .. n : f[i] = m[r[i]]
    BY <2>3, <2>5
  <2>7. f \in Seq(Seq(V)) /\ Len(f) = n
    <3>1. PICK W : W = Seq(V)
      OBVIOUS
    <3>2. f \in [1 .. n -> W]
      BY <2>6, <3>1
    <3>3. f \in Seq(W)
      <4>1. n \in Nat
        BY <2>1
      <4> QED
        BY <3>2, <4>1, IsSequence
    <3>4. Len(f) = n
      BY <2>1, <3>2, IsSequence
    <3> QED
      BY <3>1, <3>3, <3>4
  <2> HIDE DEF Image
  <2> QED
    BY <2>1, <2>4, <2>6, <2>7
<1> HIDE DEF Image
<1>2. PICK r \in Seq(S), n \in Nat, x \in Seq(V) : r = Append(s, e) /\ n = Len(s) /\ x = m[e]
  BY <1>0, AppendProperties, LenProperties
<1>3. Len(r) = n + 1 /\ r[n + 1] = e /\ \A i \in 1 .. n : r[i] = s[i]
  BY <1>2, AppendProperties
<1>4. PICK f \in Seq(Seq(V)), g \in Seq(Seq(V)) : f = Image(s) /\ g = Image(r)
  BY <1>1
<1>5. Len(f) = n /\ \A i \in 1 .. n : f[i] = m[s[i]]
  BY <1>1, <1>2, <1>4
<1>6. Len(g) = n + 1 /\ \A i \in 1 .. n + 1 : g[i] = m[r[i]]
  BY <1>1, <1>3, <1>4
<1>7. PICK h : h = Append(f, x)
  OBVIOUS
<1>8. h \in Seq(Seq(V)) /\ Len(h) = n + 1 /\ h[n + 1] = x /\ \A i \in 1 .. n : h[i] = f[i]
  <2>1. PICK W : W = Seq(V)
    OBVIOUS
  <2>2. f \in Seq(W) /\ x \in W /\ Len(f) = n
    BY <1>2, <1>4, <1>5, <2>1
  <2>3. h \in Seq(W) /\ Len(h) = n + 1 /\ h[n + 1] = x /\ \A i \in 1 .. n : h[i] = f[i]
    BY <1>7, <2>2, AppendProperties
  <2> QED
    BY <2>1, <2>3
<1>9. ASSUME NEW i \in 1 .. n + 1 PROVE g[i] = h[i]
  <2>1. i \in 1 .. n \/ i = n + 1
    BY <1>2
  <2> QED
    <3>1. CASE i = n + 1
      BY <1>2, <1>3, <1>6, <1>8, <3>1
    <3>2. CASE i \in 1 .. n
      <4>1. g[i] = m[r[i]] /\ r[i] = s[i] /\ h[i] = f[i] /\ f[i] = m[s[i]]
        BY <1>3, <1>5, <1>6, <1>8, <3>2
      <4> QED
        BY <4>1
    <3> QED
      BY <2>1, <3>1, <3>2
<1>10. g = h
  BY <1>4, <1>6, <1>8, <1>9, SeqEqual
<1>11. FlattenSeq(h) = FlattenSeq(f) \o x
  BY <1>2, <1>4, <1>7, FlattenAppend
<1>12. FlattenSeq(f) \in Seq(V)
  BY <1>4, FlattenType
<1> QED
  BY <1>2, <1>4, <1>10, <1>11, <1>12 DEF FlatMap, Image

(* A prefix of what is a prefix.                                           *)
LEMMA PrefixSelf == ASSUME NEW S, NEW s \in Seq(S) PROVE IsPrefix(s, s)
<1>1. Len(s) \in Nat
  BY LenProperties
<1> QED
  BY <1>1 DEF IsPrefix

(* A prefix of a sequence is one of any longer sequence.                   *)
LEMMA PrefixLonger ==
  ASSUME NEW S, NEW s \in Seq(S), NEW t \in Seq(S), NEW u \in Seq(S), IsPrefix(s, t)
  PROVE  IsPrefix(s, t \o u)
<1>0. PICK m \in Nat, n \in Nat, k \in Nat : m = Len(s) /\ n = Len(t) /\ k = Len(u)
  BY LenProperties
<1>1. m <= n /\ SubSeq(s, 1, m) = SubSeq(t, 1, m)
  BY <1>0 DEF IsPrefix
<1>2. PICK v : v = t \o u
  OBVIOUS
<1>3. v \in Seq(S) /\ Len(v) = n + k /\ \A i \in 1 .. n : v[i] = t[i]
  <2>1. /\ t \o u \in Seq(S) /\ Len(t \o u) = Len(t) + Len(u)
        /\ \A i \in 1 .. Len(t) + Len(u) : (t \o u)[i] = IF i <= Len(t) THEN t[i] ELSE u[i - Len(t)]
    BY ConcatProperties
  <2> QED
    BY <1>0, <1>2, <2>1
<1>4. SubSeq(v, 1, m) = SubSeq(t, 1, m)
  <2>1. PICK a, b : a = SubSeq(v, 1, m) /\ b = SubSeq(t, 1, m)
    OBVIOUS
  <2>2. a \in Seq(S) /\ Len(a) = m /\ \A i \in 1 .. m : a[i] = v[i]
    BY <1>0, <1>1, <1>3, <2>1, SubSeqProperties
  <2>3. b \in Seq(S) /\ Len(b) = m /\ \A i \in 1 .. m : b[i] = t[i]
    BY <1>0, <1>1, <2>1, SubSeqProperties
  <2>4. \A i \in 1 .. m : a[i] = b[i]
    BY <1>0, <1>1, <1>3, <2>2, <2>3
  <2>5. a = b
    BY <2>2, <2>3, <2>4, SeqEqual
  <2> QED
    BY <2>1, <2>5
<1>5. m <= n + k
  BY <1>0, <1>1
<1> QED
  BY <1>0, <1>1, <1>2, <1>3, <1>4, <1>5 DEF IsPrefix

-----------------------------------------------------------------------------
(* FoldLeft, of an operation that is a function.                           *)
Fold(f, b, s) == FoldLeft(LAMBDA c, e : f[<<c, e>>], b, s)

FoldsOn(f, b, s, d, h) ==
  h = [t \in SUBSET d |->
         IF t = {} THEN b
         ELSE LET x == CHOOSE x \in t : \A y \in t : x >= y IN f[<<h[t \ {x}], s[x]>>]]

Folds(f, b, s, n, h) == FoldsOn(f, b, s, 1 .. n, h)

(* There is a function that satisfies the recursion of FoldLeft.           *)
LEMMA Folded ==
  ASSUME NEW f, NEW b, NEW s, NEW n \in Nat
  PROVE  \E h : Folds(f, b, s, n, h)
<1> DEFINE N == {k \in Nat : \E h : Folds(f, b, s, k, h)}
<1>1. 0 \in N
  <2> DEFINE h == [t \in SUBSET (1 .. 0) |-> b]
  <2>1. \A t \in SUBSET (1 .. 0) : t = {}
    OBVIOUS
  <2>2. Folds(f, b, s, 0, h)
    BY <2>1 DEF Folds, FoldsOn
  <2> QED
    BY <2>2
<1>2. ASSUME NEW k \in Nat, k \in N PROVE k + 1 \in N
  <2>1. PICK h : Folds(f, b, s, k, h)
    BY <1>2
  <2> DEFINE Top(t) == CHOOSE x \in t : \A y \in t : x >= y
             g == [t \in SUBSET (1 .. k + 1) |->
                     IF k + 1 \in t THEN f[<<h[t \ {k + 1}], s[k + 1]>>] ELSE h[t]]
  <2>2. ASSUME NEW t \in SUBSET (1 .. k + 1), k + 1 \in t
        PROVE  Top(t) = k + 1 /\ t \ {k + 1} \in SUBSET (1 .. k)
    <3>1. \A y \in t : k + 1 >= y
      OBVIOUS
    <3>2. \A x \in t : x >= k + 1 => x = k + 1
      OBVIOUS
    <3>3. Top(t) \in t /\ \A y \in t : Top(t) >= y
      BY <2>2, <3>1
    <3>4. Top(t) >= k + 1
      BY <2>2, <3>3
    <3>5. Top(t) = k + 1
      <4> HIDE DEF Top
      <4> QED
        BY <3>2, <3>3, <3>4
    <3>6. t \ {k + 1} \in SUBSET (1 .. k)
      OBVIOUS
    <3> QED
      BY <3>5, <3>6
  <2>3. ASSUME NEW t \in SUBSET (1 .. k + 1), k + 1 \notin t
        PROVE  t \in SUBSET (1 .. k) /\ g[t] = h[t]
    BY <2>3
  <2>4. ASSUME NEW t \in SUBSET (1 .. k)
        PROVE  h[t] = IF t = {} THEN b ELSE f[<<h[t \ {Top(t)}], s[Top(t)]>>]
    BY <2>1, Zenon DEF Folds, FoldsOn
  <2>5. ASSUME NEW t \in SUBSET (1 .. k + 1)
        PROVE  g[t] = IF t = {} THEN b ELSE f[<<g[t \ {Top(t)}], s[Top(t)]>>]
    <3>1. CASE k + 1 \in t
      <4>1. g[t] = f[<<h[t \ {k + 1}], s[k + 1]>>]
        BY <3>1
      <4>2. t \ {k + 1} \in SUBSET (1 .. k + 1) /\ k + 1 \notin t \ {k + 1}
        OBVIOUS
      <4>3. g[t \ {k + 1}] = h[t \ {k + 1}]
        BY <2>3, <4>2
      <4> HIDE DEF g, Top
      <4> QED
        BY <2>2, <3>1, <4>1, <4>3
    <3>2. CASE k + 1 \notin t
      <4>1. t \in SUBSET (1 .. k) /\ g[t] = h[t]
        BY <2>3, <3>2
      <4>2. t \ {Top(t)} \in SUBSET (1 .. k + 1) /\ k + 1 \notin t \ {Top(t)}
        BY <3>2
      <4>3. g[t \ {Top(t)}] = h[t \ {Top(t)}]
        BY <2>3, <4>2
      <4> HIDE DEF g, Top
      <4> QED
        BY <2>4, <4>1, <4>3
    <3> QED
      BY <3>1, <3>2
  <2>6. g = [t \in SUBSET (1 .. k + 1) |-> IF t = {} THEN b ELSE f[<<g[t \ {Top(t)}], s[Top(t)]>>]]
    <3> DEFINE e == [t \in SUBSET (1 .. k + 1) |-> IF t = {} THEN b ELSE f[<<g[t \ {Top(t)}], s[Top(t)]>>]]
    <3>1. \A t \in SUBSET (1 .. k + 1) : g[t] = e[t]
      <4> HIDE DEF g, Top
      <4> QED
        BY <2>5, Zenon
    <3>2. g = e
      BY <3>1
    <3> QED
      BY <3>2
  <2>7. Folds(f, b, s, k + 1, g)
    <3> HIDE DEF g
    <3> QED
      BY <2>6, Zenon DEF Folds, FoldsOn, Top
  <2>8. \E e : Folds(f, b, s, k + 1, e)
    <3> HIDE DEF g
    <3> QED
      BY <2>7, Zenon
  <2> QED
    BY <2>8
<1>3. Nat \subseteq N
  <2> HIDE DEF N
  <2> QED
    BY <1>1, <1>2, Induction
<1> QED
  BY <1>3

(* The recursion at its beginning.                                         *)
LEMMA FoldsEmpty ==
  ASSUME NEW f, NEW b, NEW s, NEW n \in Nat, NEW h, Folds(f, b, s, n, h)
  PROVE  h[{}] = b
<1> DEFINE Top(t) == CHOOSE x \in t : \A y \in t : x >= y
<1>1. \A t \in SUBSET (1 .. n) : h[t] = IF t = {} THEN b ELSE f[<<h[t \ {Top(t)}], s[Top(t)]>>]
  BY Zenon DEF Folds, FoldsOn
<1>2. {} \in SUBSET (1 .. n)
  OBVIOUS
<1> HIDE DEF Top
<1> QED
  BY <1>1, <1>2

FoldStep(f, s, h, k) == h[1 .. k] = f[<<h[1 .. k - 1], s[k]>>]

(* The recursion, at a place of it.                                        *)
LEMMA FoldsAt ==
  ASSUME NEW f, NEW b, NEW s, NEW n \in Nat, NEW h, Folds(f, b, s, n, h), NEW k \in 1 .. n
  PROVE  FoldStep(f, s, h, k)
<1> DEFINE Top(t) == CHOOSE x \in t : \A y \in t : x >= y
<1>1. \A t \in SUBSET (1 .. n) : h[t] = IF t = {} THEN b ELSE f[<<h[t \ {Top(t)}], s[Top(t)]>>]
  BY Zenon DEF Folds, FoldsOn
<1>2. h[1 .. k] = f[<<h[1 .. k - 1], s[k]>>]
  <2> DEFINE t == 1 .. k
  <2>1. t \in SUBSET (1 .. n) /\ t # {} /\ k \in t
    OBVIOUS
  <2>2. t \ {k} = 1 .. k - 1
    OBVIOUS
  <2>3. Top(t) = k
    <3>1. \A y \in t : k >= y
      OBVIOUS
    <3>2. \A x \in t : x >= k => x = k
      OBVIOUS
    <3> HIDE DEF t
    <3>3. Top(t) \in t /\ \A y \in t : Top(t) >= y
      BY <2>1, <3>1
    <3> HIDE DEF Top
    <3> QED
      BY <2>1, <3>2, <3>3
  <2> HIDE DEF t, Top
  <2>4. h[t] = f[<<h[t \ {k}], s[k]>>]
    BY <1>1, <2>1, <2>3
  <2> QED
    BY <2>2, <2>4 DEF t
<1> QED
  BY <1>2 DEF FoldStep

(* Two folds of the same elements agree.                                   *)
LEMMA FoldedOnce ==
  ASSUME NEW f, NEW b, NEW s, NEW n \in Nat, NEW h, Folds(f, b, s, n, h),
         NEW r, NEW m \in Nat, n <= m, NEW g, Folds(f, b, r, m, g), \A i \in 1 .. n : r[i] = s[i]
  PROVE  \A k \in 0 .. n : h[1 .. k] = g[1 .. k]
<1> DEFINE N == {k \in Nat : k \in 0 .. n => h[1 .. k] = g[1 .. k]}
<1>1. 0 \in N
  <2>1. 1 .. 0 = {}
    OBVIOUS
  <2>2. h[{}] = b
    BY FoldsEmpty
  <2>3. g[{}] = b
    BY FoldsEmpty
  <2> QED
    BY <2>1, <2>2, <2>3
<1>2. ASSUME NEW k \in Nat, k \in N PROVE k + 1 \in N
  <2> SUFFICES ASSUME k + 1 \in 0 .. n PROVE h[1 .. k + 1] = g[1 .. k + 1]
    OBVIOUS
  <2>1. k + 1 \in 1 .. n /\ k + 1 \in 1 .. m /\ k \in 0 .. n /\ k + 1 - 1 = k
    OBVIOUS
  <2>2. PICK j : j \in 1 .. n /\ j \in 1 .. m /\ j = k + 1
    BY <2>1
  <2>3. FoldStep(f, s, h, j) /\ FoldStep(f, r, g, j)
    BY <2>2, FoldsAt
  <2>4. h[1 .. k] = g[1 .. k]
    BY <1>2, <2>1
  <2>5. h[1 .. k + 1] = f[<<h[1 .. k], s[k + 1]>>]
    BY <2>1, <2>2, <2>3 DEF FoldStep
  <2>6. g[1 .. k + 1] = f[<<g[1 .. k], r[k + 1]>>]
    BY <2>1, <2>2, <2>3 DEF FoldStep
  <2> QED
    BY <2>1, <2>4, <2>5, <2>6
<1>3. Nat \subseteq N
  <2> HIDE DEF N
  <2> QED
    BY <1>1, <1>2, Induction
<1> QED
  BY <1>3

(* FoldLeft is given by any function that satisfies its recursion.         *)
LEMMA FoldIs ==
  ASSUME NEW f, NEW b, NEW S, NEW s \in Seq(S), NEW h, Folds(f, b, s, Len(s), h)
  PROVE  Fold(f, b, s) = h[1 .. Len(s)]
<1> DEFINE H == CHOOSE g : g = [t \in SUBSET DOMAIN s |->
                  IF t = {} THEN b
                  ELSE LET x == CHOOSE x \in t : \A y \in t : x >= y IN f[<<g[t \ {x}], s[x]>>]]
<1>1. Fold(f, b, s) = H[DOMAIN s]
  BY DEF Fold, FoldLeft, MapThenFoldSet, Max
<1>2. DOMAIN s = 1 .. Len(s) /\ Len(s) \in Nat
  BY LenProperties
<1>3. \E g : Folds(f, b, s, Len(s), g)
  BY <1>2, Folded
<1>4. Folds(f, b, s, Len(s), H)
  <2>1. \E g : FoldsOn(f, b, s, DOMAIN s, g)
    BY <1>2, <1>3 DEF Folds
  <2>2. H = CHOOSE g : FoldsOn(f, b, s, DOMAIN s, g)
    BY Zenon DEF FoldsOn
  <2> HIDE DEF H
  <2> QED
    BY <1>2, <2>1, <2>2 DEF Folds
<1> HIDE DEF H
<1>5. \A k \in 0 .. Len(s) : h[1 .. k] = H[1 .. k]
  <2>1. PICK n \in Nat : n = Len(s)
    BY <1>2
  <2>2. PICK r, m : r = s /\ m = n /\ m \in Nat /\ n <= m
    BY <2>1
  <2>3. Folds(f, b, s, n, h) /\ Folds(f, b, r, m, H) /\ \A i \in 1 .. n : r[i] = s[i]
    BY <1>4, <2>1, <2>2
  <2>4. \A k \in 0 .. n : h[1 .. k] = H[1 .. k]
    BY <2>1, <2>2, <2>3, FoldedOnce
  <2> QED
    BY <2>1, <2>4
<1> QED
  BY <1>1, <1>2, <1>5

(* Nothing folded is the base.                                             *)
LEMMA FoldEmpty ==
  ASSUME NEW f, NEW b
  PROVE  Fold(f, b, <<>>) = b
<1>1. PICK s, n : s = <<>> /\ n = 0
  OBVIOUS
<1>2. 1 .. n = {} /\ Len(s) = n /\ s \in Seq({}) /\ n \in Nat
  BY <1>1, EmptySeq
<1>3. PICK h : Folds(f, b, s, n, h)
  BY <1>2, Folded
<1>4. h[{}] = b
  BY <1>2, <1>3, FoldsEmpty
<1>5. Fold(f, b, s) = h[1 .. n]
  BY <1>2, <1>3, FoldIs
<1> QED
  BY <1>1, <1>2, <1>4, <1>5

(* An element more is one more operation.                                  *)
LEMMA FoldAppend ==
  ASSUME NEW f, NEW b, NEW S, NEW s \in Seq(S), NEW e \in S
  PROVE  Fold(f, b, Append(s, e)) = f[<<Fold(f, b, s), e>>]
<1> DEFINE r == Append(s, e)
<1>1. PICK n \in Nat : n = Len(s)
  BY LenProperties
<1>2. r \in Seq(S) /\ Len(r) = n + 1 /\ r[n + 1] = e /\ \A i \in 1 .. n : r[i] = s[i]
  BY <1>1, AppendProperties
<1> HIDE DEF r
<1>3. PICK m \in Nat : m = n + 1
  OBVIOUS
<1>4. PICK h : Folds(f, b, s, n, h)
  BY Folded
<1>5. PICK g : Folds(f, b, r, m, g)
  BY Folded
<1>6. Fold(f, b, s) = h[1 .. n] /\ Fold(f, b, r) = g[1 .. m]
  BY <1>1, <1>2, <1>3, <1>4, <1>5, FoldIs
<1>7. h[1 .. n] = g[1 .. n]
  <2>1. n <= m /\ n \in 0 .. n
    BY <1>3
  <2>2. \A k \in 0 .. n : h[1 .. k] = g[1 .. k]
    BY <1>2, <1>4, <1>5, <2>1, FoldedOnce
  <2> QED
    BY <2>1, <2>2
<1>8. g[1 .. m] = f[<<g[1 .. n], e>>]
  <2>1. m \in 1 .. m /\ m - 1 = n /\ r[m] = e
    BY <1>2, <1>3
  <2>2. FoldStep(f, r, g, m)
    BY <1>5, <2>1, FoldsAt
  <2> QED
    BY <2>1, <2>2 DEF FoldStep
<1> QED
  BY <1>6, <1>7, <1>8 DEF r

(* The fold stays in the set that the operation stays in.                  *)
LEMMA FoldType ==
  ASSUME NEW C, NEW S, NEW f \in [C \X S -> C], NEW b \in C, NEW s \in Seq(S)
  PROVE  Fold(f, b, s) \in C
<1> DEFINE T == {r \in Seq(S) : Fold(f, b, r) \in C}
<1>1. <<>> \in T
  BY FoldEmpty, EmptySeq
<1>2. ASSUME NEW r \in Seq(S), NEW e \in S, r \in T PROVE Append(r, e) \in T
  <2>1. Fold(f, b, Append(r, e)) = f[<<Fold(f, b, r), e>>] /\ Append(r, e) \in Seq(S)
    BY FoldAppend, AppendProperties
  <2>2. f[<<Fold(f, b, r), e>>] \in C
    BY <1>2
  <2> QED
    BY <2>1, <2>2
<1> HIDE DEF T
<1>3. Seq(S) \subseteq T
  BY <1>1, <1>2, SequenceInduction
<1> QED
  BY <1>3 DEF T

(* What is folded in two parts is folded.                                  *)
LEMMA FoldConcat ==
  ASSUME NEW f, NEW b, NEW S, NEW s \in Seq(S), NEW t \in Seq(S)
  PROVE  Fold(f, b, s \o t) = Fold(f, Fold(f, b, s), t)
<1> DEFINE T == {r \in Seq(S) : Fold(f, b, s \o r) = Fold(f, Fold(f, b, s), r)}
<1>1. <<>> \in T
  <2>1. s \o <<>> = s
    BY ConcatEmptySeq
  <2> QED
    BY <2>1, FoldEmpty, EmptySeq
<1>2. ASSUME NEW r \in Seq(S), NEW e \in S, r \in T PROVE Append(r, e) \in T
  <2>1. s \o Append(r, e) = Append(s \o r, e) /\ s \o r \in Seq(S) /\ Append(r, e) \in Seq(S)
    BY AppendProperties, ConcatProperties
  <2>2. PICK q \in Seq(S) : q = s \o r
    BY <2>1
  <2>3. Fold(f, b, Append(q, e)) = f[<<Fold(f, b, q), e>>]
    BY FoldAppend
  <2>4. PICK d : d = Fold(f, b, s)
    OBVIOUS
  <2>5. Fold(f, d, Append(r, e)) = f[<<Fold(f, d, r), e>>]
    BY FoldAppend
  <2>6. Fold(f, b, q) = Fold(f, d, r)
    BY <1>2, <2>2, <2>4
  <2>7. Fold(f, b, s \o Append(r, e)) = Fold(f, d, Append(r, e))
    BY <2>1, <2>2, <2>3, <2>5, <2>6
  <2> QED
    BY <2>1, <2>4, <2>7
<1> HIDE DEF T
<1>3. Seq(S) \subseteq T
  BY <1>1, <1>2, SequenceInduction
<1> QED
  BY <1>3 DEF T

-----------------------------------------------------------------------------
(*****************************************************************************)
(* The chip and the functions of the program.                              *)
(*****************************************************************************)
Bytes == 0 .. 255

(* Short sequences, an element at a time.                                  *)
LEMMA ThreeBytes ==
  ASSUME NEW S, NEW a \in S, NEW b \in S, NEW c \in S
  PROVE  /\ <<a>> = Append(<<>>, a) /\ <<a>> \in Seq(S)
         /\ <<a, b>> = Append(<<a>>, b) /\ <<a, b>> \in Seq(S)
         /\ <<a, b, c>> = Append(<<a, b>>, c) /\ <<a, b, c>> \in Seq(S)
<1>1. <<a>> = Append(<<>>, a) /\ <<a>> \in Seq(S)
  OBVIOUS
<1>2. <<a, b>> = Append(<<a>>, b) /\ <<a, b>> \in Seq(S)
  OBVIOUS
<1>3. <<a, b, c>> = Append(<<a, b>>, c) /\ <<a, b, c>> \in Seq(S)
  OBVIOUS
<1> QED
  BY <1>1, <1>2, <1>3

TakeByte(c, b) == Take[<<c, b>>]

(* What the chip takes at once, it could take in parts.                    *)
LEMMA TakenEmpty == \A c : Taken(c, <<>>) = c
<1> TAKE c
<1>1. Taken(c, <<>>) = Fold(Take, c, <<>>)
  BY DEF Taken, Fold
<1> QED
  BY <1>1, FoldEmpty

(* A byte more.                                                            *)
LEMMA TakenAppend ==
  ASSUME NEW c \in Chips, NEW s \in Seq(Bytes), NEW b \in Bytes
  PROVE  Taken(c, Append(s, b)) = TakeByte(Taken(c, s), b)
<1>1. Taken(c, s) = Fold(Take, c, s) /\ Taken(c, Append(s, b)) = Fold(Take, c, Append(s, b))
  BY DEF Taken, Fold
<1>2. Fold(Take, c, Append(s, b)) = Take[<<Fold(Take, c, s), b>>]
  BY FoldAppend
<1> QED
  BY <1>1, <1>2 DEF TakeByte

(* Bytes in two parts.                                                     *)
LEMMA TakenConcat ==
  ASSUME NEW c, NEW s \in Seq(Bytes), NEW t \in Seq(Bytes)
  PROVE  Taken(c, s \o t) = Taken(Taken(c, s), t)
<1>1. Fold(Take, c, s \o t) = Fold(Take, Fold(Take, c, s), t)
  BY FoldConcat
<1> QED
  BY <1>1, Zenon DEF Taken, Fold

-----------------------------------------------------------------------------
Frame == [config: BOOLEAN, data: Seq(Bytes)]

(* The fields of a chip, and chips that differ in one of them.             *)
LEMMA ChipFields ==
  ASSUME NEW c \in Chips
  PROVE  /\ c.bytes \in Seq(Bytes) /\ c.frames \in Seq(Frame) /\ c.answers \in Nat
         /\ c.selected \in BOOLEAN /\ c.reset \in BOOLEAN /\ c.open \in BOOLEAN
         /\ \A s \in Seq(Bytes) : [c EXCEPT !.bytes = s] \in Chips
         /\ \A f \in Seq(Frame) : [c EXCEPT !.frames = f] \in Chips
         /\ \A n \in Nat : [c EXCEPT !.answers = n] \in Chips
BY ZenonT(60) DEF Chips, Bytes, Frame

(* The chip takes a byte.                                                  *)
Transfer == MPSSE_DO_WRITE + MPSSE_WRITE_NEG

(* The lengths of the commands.                                            *)
LEMMA NeedsIs ==
  ASSUME NEW b
  PROVE  /\ b[1] \in {SET_BITS_LOW, TCK_DIVISOR, CLK_BYTES} => Needs(b) = 3
         /\ b[1] = CLK_BITS => Needs(b) = 2
         /\ b[1] = Transfer =>
              Needs(b) = IF Len(b) < 3 THEN 3 ELSE 3 + b[2] + 256 * b[3] + 1
         /\ b[1] \notin {SET_BITS_LOW, TCK_DIVISOR, CLK_BYTES, CLK_BITS, Transfer} =>
              Needs(b) = 1
<1>1. b[1] \in {SET_BITS_LOW, TCK_DIVISOR, CLK_BYTES} => Needs(b) = 3
  BY SMTT(30) DEF Needs, SET_BITS_LOW, TCK_DIVISOR, CLK_BYTES, CLK_BITS, Transfer, MPSSE_DO_WRITE, MPSSE_WRITE_NEG
<1>2. b[1] = CLK_BITS => Needs(b) = 2
  BY SMTT(30) DEF Needs, SET_BITS_LOW, TCK_DIVISOR, CLK_BYTES, CLK_BITS, Transfer, MPSSE_DO_WRITE, MPSSE_WRITE_NEG
<1>3. b[1] = Transfer =>
        Needs(b) = IF Len(b) < 3 THEN 3 ELSE 3 + b[2] + 256 * b[3] + 1
  BY SMTT(30) DEF Needs, SET_BITS_LOW, TCK_DIVISOR, CLK_BYTES, CLK_BITS, Transfer, MPSSE_DO_WRITE, MPSSE_WRITE_NEG
<1>4. b[1] \notin {SET_BITS_LOW, TCK_DIVISOR, CLK_BYTES, CLK_BITS, Transfer} =>
        Needs(b) = 1
  BY SMTT(30) DEF Needs, SET_BITS_LOW, TCK_DIVISOR, CLK_BYTES, CLK_BITS, Transfer, MPSSE_DO_WRITE, MPSSE_WRITE_NEG
<1> QED
  BY <1>1, <1>2, <1>3, <1>4

(* The elements of a sequence of bytes.                                    *)
LEMMA ByteIn == ASSUME NEW b \in Seq(Bytes), NEW i \in 1 .. Len(b) PROVE b[i] \in Bytes /\ b[i] \in Nat
<1>1. PICK x : x = b[i]
  OBVIOUS
<1>2. x \in Bytes
  BY <1>1, ElementOfSeq
<1>3. x \in Nat
  BY <1>2 DEF Bytes
<1> QED
  BY <1>1, <1>2, <1>3

(* The length of a command is a number.                                    *)
LEMMA NeedsInt == ASSUME NEW b \in Seq(Bytes) PROVE Len(b) \in Nat /\ Needs(b) \in Int
<1>1. Len(b) \in Nat
  BY LenProperties
<1>2. CASE b[1] = Transfer
  <2>1. CASE Len(b) < 3
    <3>1. Needs(b) = 3
      BY <1>2, <2>1, NeedsIs
    <3> QED
      BY <1>1, <3>1
  <2>2. CASE ~(Len(b) < 3)
    <3>1. 2 \in 1 .. Len(b) /\ 3 \in 1 .. Len(b)
      BY <1>1, <2>2
    <3>2. \A i \in 1 .. Len(b) : b[i] \in Nat
      BY ByteIn
    <3>3. Needs(b) = 3 + b[2] + 256 * b[3] + 1
      BY <1>2, <2>2, NeedsIs
    <3> QED
      BY <1>1, <3>1, <3>2, <3>3
  <2> QED
    BY <2>1, <2>2
<1>3. CASE b[1] # Transfer
  <2>1. Needs(b) \in {1, 2, 3}
    BY <1>3, NeedsIs
  <2> QED
    BY <1>1, <2>1
<1> QED
  BY <1>2, <1>3

(* A transfer has a header.                                                *)
LEMMA NeedsAtLeast == ASSUME NEW b \in Seq(Bytes), b[1] = Transfer PROVE Needs(b) >= 3
<1>1. CASE Len(b) < 3
  BY <1>1, NeedsIs
<1>2. CASE ~(Len(b) < 3)
  <2>1. 2 \in 1 .. Len(b) /\ 3 \in 1 .. Len(b)
    BY <1>2, NeedsInt
  <2>2. \A i \in 1 .. Len(b) : b[i] \in Nat
    BY ByteIn
  <2>3. Needs(b) = 3 + b[2] + 256 * b[3] + 1
    BY <1>2, NeedsIs
  <2> QED
    BY <2>1, <2>2, <2>3
<1> QED
  BY <1>1, <1>2

(* Setting the lines leaves a chip ...                                     *)
LEMMA LinesType == ASSUME NEW c \in Chips, NEW v \in Bytes PROVE Lines(c, v) \in Chips
<1> DEFINE f == [config |-> c.reset, data |-> <<>>]
           selected == (v \div 16) % 2 = 0
           reset == (v \div 128) % 2 = 0
           listens == selected /\ ~reset
           fs == IF listens /\ ~c.open THEN Append(c.frames, f) ELSE c.frames
<1>1. f \in Frame
  BY ChipFields, EmptySeq DEF Frame
<1>2. fs \in Seq(Frame)
  BY <1>1, ChipFields, AppendProperties
<1>3. Lines(c, v) = [c EXCEPT !.selected = selected, !.reset = reset, !.open = listens, !.frames = fs]
  BY DEF Lines
<1>4. selected \in BOOLEAN /\ reset \in BOOLEAN /\ listens \in BOOLEAN
  OBVIOUS
<1> HIDE DEF fs, listens, selected, reset
<1>5. [c EXCEPT !.selected = selected, !.reset = reset, !.open = listens, !.frames = fs] \in Chips
  BY <1>2, <1>4 DEF Chips, Frame, Bytes
<1> QED
  BY <1>3, <1>5

(* ... and so does clocking data out; neither touches the command bytes.   *)
LEMMA ClockedIs ==
  ASSUME NEW c \in Chips, NEW s \in Seq(Bytes)
  PROVE  /\ Clocked(c, s) \in Chips
         /\ c.open /\ c.frames # <<>> =>
              /\ [c.frames[Len(c.frames)] EXCEPT !.data = @ \o s] \in Frame
              /\ Clocked(c, s) = [c EXCEPT !.frames = [c.frames EXCEPT ![Len(c.frames)] =
                                     [c.frames[Len(c.frames)] EXCEPT !.data = @ \o s]]]
<1> DEFINE n == Len(c.frames)
           g == [c.frames EXCEPT ![n].data = @ \o s]
<1>1. c.frames \in Seq(Frame) /\ n \in Nat
  BY ChipFields, LenProperties
<1>2. Clocked(c, s) = IF c.open THEN [c EXCEPT !.frames = g] ELSE c
  BY Zenon DEF Clocked
<1>3. CASE c.frames # <<>>
  <2>1. n \in 1 .. n /\ n \in DOMAIN c.frames
    BY <1>1, <1>3, EmptySeq, LenProperties
  <2>2. c.frames[n] \in Frame
    BY <1>1, <2>1, ElementOfSeq
  <2>3. c.frames[n].data \o s \in Seq(Bytes)
    BY <2>2, ConcatProperties DEF Frame
  <2>4. [c.frames[n] EXCEPT !.data = @ \o s] \in Frame
    BY <2>2, <2>3 DEF Frame
  <2>5. g = [c.frames EXCEPT ![n] = [c.frames[n] EXCEPT !.data = @ \o s]]
    BY Zenon
  <2>6. g \in Seq(Frame)
    BY <1>1, <2>1, <2>4, <2>5, ExceptSeq
  <2> HIDE DEF g, n
  <2> QED
    BY <1>2, <2>4, <2>5, <2>6, ChipFields DEF n
<1>4. CASE c.frames = <<>>
  <2>1. g = c.frames
    BY <1>4
  <2> QED
    BY <1>2, <1>4, <2>1, ChipFields
<1> QED
  BY <1>3, <1>4

(* The commands that do more than to be taken.                             *)
Effective == {SET_BITS_LOW, Transfer, GET_BITS_LOW}

Emptied(c) == [c EXCEPT !.bytes = <<>>]

(* What executing a command does, by its first byte.                       *)
LEMMA ExecuteIs ==
  ASSUME NEW c \in Chips
  PROVE  /\ c.bytes \in Seq(Bytes) /\ Emptied(c) \in Chips
         /\ Len(c.bytes) < Needs(c.bytes) => Execute[c] = c
         /\ Needs(c.bytes) <= Len(c.bytes) /\ c.bytes[1] = SET_BITS_LOW =>
              Execute[c] = Lines(Emptied(c), c.bytes[2])
         /\ Needs(c.bytes) <= Len(c.bytes) /\ c.bytes[1] = Transfer =>
              Execute[c] = Clocked(Emptied(c), SubSeq(c.bytes, 4, Len(c.bytes)))
         /\ Needs(c.bytes) <= Len(c.bytes) /\ c.bytes[1] = GET_BITS_LOW =>
              Execute[c] = [Emptied(c) EXCEPT !.answers = @ + 1]
         /\ Needs(c.bytes) <= Len(c.bytes) /\ c.bytes[1] \notin Effective => Execute[c] = Emptied(c)
<1>1. c.bytes \in Seq(Bytes) /\ Emptied(c) \in Chips
  BY ChipFields, EmptySeq DEF Emptied
<1>2. Execute[c] = IF Len(c.bytes) < Needs(c.bytes) THEN c
                   ELSE CASE c.bytes[1] = SET_BITS_LOW -> Lines(Emptied(c), c.bytes[2])
                          [] c.bytes[1] = Transfer ->
                               Clocked(Emptied(c), SubSeq(c.bytes, 4, Len(c.bytes)))
                          [] c.bytes[1] = GET_BITS_LOW -> [Emptied(c) EXCEPT !.answers = @ + 1]
                          [] OTHER -> Emptied(c)
  BY DEF Execute, Emptied, Transfer
<1>3. ASSUME Len(c.bytes) < Needs(c.bytes) PROVE Execute[c] = c
  BY <1>2, <1>3
<1>4. Len(c.bytes) \in Nat /\ Needs(c.bytes) \in Int
  BY <1>1, NeedsInt
<1>5. ASSUME Needs(c.bytes) <= Len(c.bytes)
      PROVE  Execute[c] = CASE c.bytes[1] = SET_BITS_LOW -> Lines(Emptied(c), c.bytes[2])
                          [] c.bytes[1] = Transfer ->
                               Clocked(Emptied(c), SubSeq(c.bytes, 4, Len(c.bytes)))
                          [] c.bytes[1] = GET_BITS_LOW -> [Emptied(c) EXCEPT !.answers = @ + 1]
                          [] OTHER -> Emptied(c)
  BY <1>2, <1>4, <1>5
<1>6. ASSUME Needs(c.bytes) <= Len(c.bytes), c.bytes[1] = SET_BITS_LOW
      PROVE  Execute[c] = Lines(Emptied(c), c.bytes[2])
  BY <1>5, <1>6 DEF SET_BITS_LOW, Transfer, MPSSE_DO_WRITE, MPSSE_WRITE_NEG, GET_BITS_LOW
<1>7. ASSUME Needs(c.bytes) <= Len(c.bytes), c.bytes[1] = Transfer
      PROVE  Execute[c] = Clocked(Emptied(c), SubSeq(c.bytes, 4, Len(c.bytes)))
  BY <1>5, <1>7 DEF SET_BITS_LOW, Transfer, MPSSE_DO_WRITE, MPSSE_WRITE_NEG, GET_BITS_LOW
<1>8. ASSUME Needs(c.bytes) <= Len(c.bytes), c.bytes[1] = GET_BITS_LOW
      PROVE  Execute[c] = [Emptied(c) EXCEPT !.answers = @ + 1]
  BY <1>5, <1>8 DEF SET_BITS_LOW, Transfer, MPSSE_DO_WRITE, MPSSE_WRITE_NEG, GET_BITS_LOW
<1>9. ASSUME Needs(c.bytes) <= Len(c.bytes),
             c.bytes[1] \notin Effective
      PROVE  Execute[c] = Emptied(c)
  BY <1>5, <1>9 DEF Effective
<1> QED
  BY <1>1, <1>3, <1>6, <1>7, <1>8, <1>9

(* Executing leaves a chip.                                                *)
LEMMA ExecuteType == Execute \in [Chips -> Chips]
<1> SUFFICES ASSUME NEW c \in Chips PROVE Execute[c] \in Chips
  BY DEF Execute
<1>1. PICK b \in Seq(Bytes) : b = c.bytes
  BY ChipFields
<1>2. PICK d : d = Emptied(c)
  OBVIOUS
<1>3. d \in Chips
  BY <1>1, <1>2, ExecuteIs
<1>4. CASE Len(b) < Needs(b)
  BY <1>1, <1>2, <1>4, ExecuteIs
<1>5. CASE ~(Len(b) < Needs(b))
  <2>1. Needs(b) <= Len(b)
    BY <1>5, NeedsInt
  <2>2. CASE b[1] = SET_BITS_LOW
    <3>1. Needs(b) = 3
      BY <2>2, NeedsIs
    <3>2. 2 \in 1 .. Len(b)
      BY <2>1, <3>1, NeedsInt
    <3>3. b[2] \in Bytes
      BY <3>2, ElementOfSeq
    <3>4. Execute[c] = Lines(d, b[2])
      BY <1>1, <1>2, <2>1, <2>2, ExecuteIs
    <3> QED
      BY <1>3, <3>3, <3>4, LinesType
  <2>3. CASE b[1] = Transfer
    <3>0. Needs(b) >= 3
      BY <2>3, NeedsAtLeast
    <3>1. SubSeq(b, 4, Len(b)) \in Seq(Bytes)
      <4>1. Len(b) \in Nat /\ 4 <= Len(b) + 1
        BY <2>1, <3>0, NeedsInt
      <4>2. \A i \in 4 .. Len(b) : i \in 1 .. Len(b)
        BY <4>1
      <4> QED
        BY <4>1, <4>2, SubSeqProperties
    <3>2. Execute[c] = Clocked(d, SubSeq(b, 4, Len(b)))
      BY <1>1, <1>2, <2>1, <2>3, ExecuteIs
    <3>3. PICK s \in Seq(Bytes) : s = SubSeq(b, 4, Len(b))
      BY <3>1
    <3> QED
      BY <1>3, <3>2, <3>3, ClockedIs
  <2>4. CASE b[1] = GET_BITS_LOW
    <3>1. d.answers + 1 \in Nat
      BY <1>3, ChipFields
    <3>2. [d EXCEPT !.answers = d.answers + 1] \in Chips
      BY <1>3, <3>1, ChipFields
    <3>3. Execute[c] = [d EXCEPT !.answers = @ + 1]
      BY <1>1, <1>2, <2>1, <2>4, ExecuteIs
    <3> QED
      BY <3>2, <3>3
  <2>5. CASE b[1] \notin Effective
    <3>1. Execute[c] = d
      BY <1>1, <1>2, <2>1, <2>5, ExecuteIs
    <3> QED
      BY <1>3, <3>1
  <2> QED
    BY <2>2, <2>3, <2>4, <2>5 DEF Effective
<1> QED
  BY <1>4, <1>5

(* Taking a byte: append it, then execute.                                 *)
LEMMA TakeIs ==
  ASSUME NEW c \in Chips, NEW b \in Bytes
  PROVE  /\ [c EXCEPT !.bytes = Append(c.bytes, b)] \in Chips
         /\ TakeByte(c, b) = Execute[[c EXCEPT !.bytes = Append(c.bytes, b)]]
<1>1. <<c, b>> \in Chips \X (0 .. 255) /\ <<c, b>>[1] = c /\ <<c, b>>[2] = b
  BY DEF Bytes
<1>2. Append(c.bytes, b) \in Seq(0 .. 255)
  BY AppendProperties DEF Chips, Bytes
<1> QED
  BY <1>1, <1>2, ZenonT(60) DEF Take, TakeByte, Chips

(* Taking a byte leaves a chip.                                            *)
LEMMA TakeType == Take \in [Chips \X Bytes -> Chips]
<1> SUFFICES ASSUME NEW p \in Chips \X Bytes PROVE Take[p] \in Chips
  BY DEF Take, Bytes
<1>1. PICK c \in Chips, b \in Bytes : p = <<c, b>>
  OBVIOUS
<1> QED
  BY <1>1, TakeIs, ExecuteType, ZenonT(60) DEF TakeByte

(* So does taking bytes.                                                   *)
LEMMA TakenType ==
  ASSUME NEW c \in Chips, NEW s \in Seq(Bytes)
  PROVE  Taken(c, s) \in Chips
<1>1. Fold(Take, c, s) \in Chips
  BY TakeType, FoldType
<1> QED
  BY <1>1, Zenon DEF Taken, Fold

(* The chip with the bytes s of a command.                                 *)
Holding(c, s) == [c EXCEPT !.bytes = s]

(* A chip that holds bytes is a chip, with those bytes.                    *)
LEMMA HoldingIs ==
  ASSUME NEW c \in Chips, NEW s \in Seq(Bytes)
  PROVE  /\ Holding(c, s) \in Chips /\ Holding(c, s).bytes = s
         /\ \A t : Holding(Holding(c, s), t) = Holding(c, t)
         /\ Emptied(Holding(c, s)) = Holding(c, <<>>)
         /\ c.bytes = s => Holding(c, s) = c
<1>1. Holding(c, s) \in Chips /\ Holding(c, s).bytes = s
  BY ChipFields DEF Holding, Chips
<1>2. \A t : Holding(Holding(c, s), t) = Holding(c, t)
  BY DEF Holding, Chips
<1>3. Emptied(Holding(c, s)) = Holding(c, <<>>)
  BY DEF Holding, Emptied, Chips
<1>4. c.bytes = s => Holding(c, s) = c
  BY DEF Holding, Chips
<1> QED
  BY <1>1, <1>2, <1>3, <1>4

(* As long as the command is not complete, a byte is only held.            *)
LEMMA TakeHolding ==
  ASSUME NEW c \in Chips, NEW s \in Seq(Bytes), NEW b \in Bytes
  PROVE  /\ Append(s, b) \in Seq(Bytes) /\ Len(Append(s, b)) = Len(s) + 1
         /\ TakeByte(Holding(c, s), b) = Execute[Holding(c, Append(s, b))]
         /\ Len(Append(s, b)) < Needs(Append(s, b)) => TakeByte(Holding(c, s), b) = Holding(c, Append(s, b))
<1>0. PICK r : r = Append(s, b)
  OBVIOUS
<1>1. r \in Seq(Bytes) /\ Len(r) = Len(s) + 1
  BY <1>0, AppendProperties
<1>2. PICK d : d = Holding(c, s)
  OBVIOUS
<1>3. d \in Chips /\ d.bytes = s
  BY <1>2, HoldingIs
<1>4. TakeByte(d, b) = Execute[[d EXCEPT !.bytes = Append(d.bytes, b)]]
  BY <1>3, TakeIs
<1>5. [d EXCEPT !.bytes = Append(d.bytes, b)] = Holding(c, r)
  <2>1. [d EXCEPT !.bytes = Append(d.bytes, b)] = Holding(d, r)
    BY <1>0, <1>3 DEF Holding
  <2> QED
    BY <1>2, <2>1, HoldingIs
<1>6. TakeByte(d, b) = Execute[Holding(c, r)]
  BY <1>4, <1>5
<1>7. Len(r) < Needs(r) => Execute[Holding(c, r)] = Holding(c, r)
  BY <1>1, HoldingIs, ExecuteIs
<1> QED
  BY <1>0, <1>1, <1>2, <1>6, <1>7

(* The first bytes of a command.                                           *)
LEMMA FirstBytes ==
  ASSUME NEW c \in Chips, c.bytes = <<>>, NEW x \in Bytes
  PROVE  /\ Taken(c, <<x>>) = Execute[Holding(c, <<x>>)]
         /\ Needs(<<x>>) > 1 => \A y \in Bytes :
              /\ Taken(c, <<x, y>>) = Execute[Holding(c, <<x, y>>)]
              /\ Needs(<<x, y>>) > 2 => \A z \in Bytes :
                   Taken(c, <<x, y, z>>) = Execute[Holding(c, <<x, y, z>>)]
<1>1. PICK e, s1 : e = <<>> /\ s1 = <<x>>
  OBVIOUS
<1>2. /\ e \in Seq(Bytes) /\ s1 = Append(e, x) /\ s1 \in Seq(Bytes) /\ Len(s1) = 1
  BY <1>1, ThreeBytes, EmptySeq
<1>3. Taken(c, e) = c /\ c = Holding(c, e)
  BY <1>1, <1>2, TakenEmpty, HoldingIs
<1>4. Taken(c, s1) = Execute[Holding(c, s1)]
  <2>1. Taken(c, s1) = TakeByte(Taken(c, e), x)
    BY <1>2, TakenAppend
  <2>2. TakeByte(Holding(c, e), x) = Execute[Holding(c, s1)]
    BY <1>2, TakeHolding
  <2> QED
    BY <1>3, <2>1, <2>2
<1>5. ASSUME Needs(s1) > 1, NEW y \in Bytes, NEW s2, s2 = <<x, y>>
      PROVE  /\ Taken(c, s2) = Execute[Holding(c, s2)]
             /\ Needs(s2) > 2 => \A z \in Bytes : Taken(c, <<x, y, z>>) = Execute[Holding(c, <<x, y, z>>)]
  <2>1. s2 = Append(s1, y) /\ s2 \in Seq(Bytes) /\ Len(s2) = 2
    BY <1>1, <1>5, ThreeBytes
  <2>2. Execute[Holding(c, s1)] = Holding(c, s1)
    <3>1. Len(s1) < Needs(s1)
      BY <1>2, <1>5, NeedsInt
    <3> QED
      BY <1>2, <3>1, HoldingIs, ExecuteIs, ZenonT(60)
  <2>3. Taken(c, s2) = TakeByte(Taken(c, s1), y)
    BY <1>2, <2>1, TakenAppend
  <2>4. TakeByte(Holding(c, s1), y) = Execute[Holding(c, s2)]
    BY <1>2, <2>1, TakeHolding
  <2>5. Taken(c, s2) = Execute[Holding(c, s2)]
    BY <1>4, <2>2, <2>3, <2>4
  <2>6. ASSUME Needs(s2) > 2, NEW z \in Bytes, NEW s3, s3 = <<x, y, z>>
        PROVE  Taken(c, s3) = Execute[Holding(c, s3)]
    <3>1. s3 = Append(s2, z)
      BY <1>5, <2>6, ThreeBytes
    <3>2. Execute[Holding(c, s2)] = Holding(c, s2)
      <4>1. Len(s2) < Needs(s2)
        BY <2>1, <2>6, NeedsInt
      <4> QED
        BY <2>1, <4>1, HoldingIs, ExecuteIs, ZenonT(60)
    <3>3. Taken(c, s3) = TakeByte(Taken(c, s2), z)
      BY <2>1, <3>1, TakenAppend
    <3>4. TakeByte(Holding(c, s2), z) = Execute[Holding(c, s3)]
      BY <2>1, <3>1, TakeHolding
    <3> QED
      BY <2>5, <3>2, <3>3, <3>4
  <2> QED
    BY <2>5, <2>6
<1> QED
  BY <1>1, <1>4, <1>5

(* Commands of a fixed length.                                             *)
LEMMA SetBits ==
  ASSUME NEW c \in Chips, c.bytes = <<>>, NEW v \in Bytes, NEW w \in Bytes
  PROVE  Taken(c, <<SET_BITS_LOW, v, w>>) = Lines(c, v)
<1>1. PICK x, s1, s2, s3 : x = SET_BITS_LOW /\ s1 = <<x>> /\ s2 = <<x, v>> /\ s3 = <<x, v, w>>
  OBVIOUS
<1>2. x \in Bytes
  BY <1>1 DEF SET_BITS_LOW, Bytes
<1>3. s1[1] = x /\ s2[1] = x /\ s3[1] = x /\ s3[2] = v /\ Len(s3) = 3 /\ s3 \in Seq(Bytes)
  BY <1>1, <1>2
<1>4. Needs(s1) = 3 /\ Needs(s2) = 3 /\ Needs(s3) = 3
  BY <1>1, <1>3, NeedsIs
<1>5. Taken(c, s3) = Execute[Holding(c, s3)]
  BY <1>1, <1>2, <1>4, FirstBytes
<1>6. Execute[Holding(c, s3)] = Lines(Holding(c, <<>>), v)
  <2>1. PICK d : d = Holding(c, s3)
    OBVIOUS
  <2>2. d \in Chips /\ d.bytes = s3 /\ Emptied(d) = Holding(c, <<>>)
    BY <1>3, <2>1, HoldingIs
  <2>3. Needs(s3) <= Len(s3) /\ s3[1] = SET_BITS_LOW
    BY <1>1, <1>3, <1>4
  <2>4. Execute[d] = Lines(Holding(c, <<>>), s3[2])
    BY <2>2, <2>3, ExecuteIs
  <2> QED
    BY <1>3, <2>1, <2>4
<1>7. Holding(c, <<>>) = c
  BY HoldingIs, EmptySeq
<1> QED
  BY <1>1, <1>5, <1>6, <1>7

(* The divisor of the clock and clocks without data move nothing.          *)
LEMMA Divisor ==
  ASSUME NEW c \in Chips, c.bytes = <<>>, NEW x \in {TCK_DIVISOR, CLK_BYTES}, NEW v \in Bytes, NEW w \in Bytes
  PROVE  Taken(c, <<x, v, w>>) = c
<1>1. PICK s1, s2, s3 : s1 = <<x>> /\ s2 = <<x, v>> /\ s3 = <<x, v, w>>
  OBVIOUS
<1>2. x \in Bytes /\ x \notin Effective
  BY DEF Bytes, TCK_DIVISOR, CLK_BYTES, Effective, SET_BITS_LOW, Transfer, MPSSE_DO_WRITE, MPSSE_WRITE_NEG, GET_BITS_LOW
<1>3. s1[1] = x /\ s2[1] = x /\ s3[1] = x /\ Len(s3) = 3 /\ s3 \in Seq(Bytes)
  BY <1>1, <1>2
<1>4. Needs(s1) = 3 /\ Needs(s2) = 3 /\ Needs(s3) = 3
  BY <1>3, NeedsIs
<1>5. Taken(c, s3) = Execute[Holding(c, s3)]
  BY <1>1, <1>2, <1>4, FirstBytes
<1>6. Execute[Holding(c, s3)] = Holding(c, <<>>)
  <2>1. PICK d : d = Holding(c, s3)
    OBVIOUS
  <2>2. d \in Chips /\ d.bytes = s3 /\ Emptied(d) = Holding(c, <<>>)
    BY <1>3, <2>1, HoldingIs
  <2>3. Needs(s3) <= Len(s3) /\ s3[1] \notin Effective
    BY <1>2, <1>3, <1>4
  <2>4. Execute[d] = Holding(c, <<>>)
    BY <2>2, <2>3, ExecuteIs
  <2> QED
    BY <2>1, <2>4
<1>7. Holding(c, <<>>) = c
  BY HoldingIs, EmptySeq
<1> QED
  BY <1>1, <1>5, <1>6, <1>7

(* Nor do single clocks.                                                   *)
LEMMA ClockBits ==
  ASSUME NEW c \in Chips, c.bytes = <<>>, NEW v \in Bytes
  PROVE  Taken(c, <<CLK_BITS, v>>) = c
<1>1. PICK x, s1, s2 : x = CLK_BITS /\ s1 = <<x>> /\ s2 = <<x, v>>
  OBVIOUS
<1>2. x \in Bytes /\ x \notin Effective
  BY <1>1 DEF Bytes, CLK_BITS, Effective, SET_BITS_LOW, Transfer, MPSSE_DO_WRITE, MPSSE_WRITE_NEG, GET_BITS_LOW
<1>3. s1[1] = x /\ s2[1] = x /\ Len(s2) = 2 /\ s2 \in Seq(Bytes)
  BY <1>1, <1>2
<1>4. Needs(s1) = 2 /\ Needs(s2) = 2
  BY <1>1, <1>3, NeedsIs
<1>5. Taken(c, s2) = Execute[Holding(c, s2)]
  BY <1>1, <1>2, <1>4, FirstBytes
<1>6. Execute[Holding(c, s2)] = Holding(c, <<>>)
  <2>1. PICK d : d = Holding(c, s2)
    OBVIOUS
  <2>2. d \in Chips /\ d.bytes = s2 /\ Emptied(d) = Holding(c, <<>>)
    BY <1>3, <2>1, HoldingIs
  <2>3. Needs(s2) <= Len(s2) /\ s2[1] \notin Effective
    BY <1>2, <1>3, <1>4
  <2>4. Execute[d] = Holding(c, <<>>)
    BY <2>2, <2>3, ExecuteIs
  <2> QED
    BY <2>1, <2>4
<1>7. Holding(c, <<>>) = c
  BY HoldingIs, EmptySeq
<1> QED
  BY <1>1, <1>5, <1>6, <1>7

(* A command of one byte changes nothing but the answers to come.          *)
Same(c, d) ==
  /\ c \in Chips /\ d \in Chips
  /\ c.bytes = d.bytes /\ c.selected = d.selected /\ c.reset = d.reset
  /\ c.open = d.open /\ c.frames = d.frames

(* A chip that waits stays as it is.                                       *)
LEMMA OneByteTaken ==
  ASSUME NEW c \in Chips, c.bytes = <<>>, NEW x \in OneByte
  PROVE  Same(Taken(c, <<x>>), c)
<1>1. PICK s : s = <<x>>
  OBVIOUS
<1>2. x \in Bytes /\ x \notin {SET_BITS_LOW, Transfer}
  BY DEF Bytes, OneByte, Transfer
<1>3. s[1] = x /\ Len(s) = 1 /\ s \in Seq(Bytes)
  BY <1>1, <1>2
<1>4. Needs(s) = 1
  BY <1>3, NeedsIs DEF OneByte, Transfer
<1>5. Taken(c, s) = Execute[Holding(c, s)]
  BY <1>1, <1>2, FirstBytes
<1>6. Holding(c, <<>>) = c
  BY HoldingIs, EmptySeq
<1>7. PICK d : d = Holding(c, s)
  OBVIOUS
<1>8. d \in Chips /\ d.bytes = s /\ Emptied(d) = c /\ Needs(s) <= Len(s)
  BY <1>3, <1>4, <1>6, <1>7, HoldingIs
<1>9. CASE x = GET_BITS_LOW
  <2>1. Execute[d] = [c EXCEPT !.answers = @ + 1]
    BY <1>3, <1>8, <1>9, ExecuteIs
  <2>2. c.answers + 1 \in Nat
    BY ChipFields
  <2>3. [c EXCEPT !.answers = c.answers + 1] \in Chips
    BY <2>2, ChipFields
  <2>4. Taken(c, s) = [c EXCEPT !.answers = c.answers + 1]
    BY <1>5, <1>7, <2>1
  <2> QED
    BY <1>1, <2>3, <2>4 DEF Same, Chips
<1>10. CASE x # GET_BITS_LOW
  <2>1. x \notin Effective
    BY <1>2, <1>10 DEF Effective
  <2>2. Execute[d] = c
    BY <1>3, <1>8, <2>1, ExecuteIs
  <2>3. Taken(c, s) = c
    BY <1>5, <1>7, <2>2
  <2> QED
    BY <1>1, <2>3 DEF Same
<1> QED
  BY <1>9, <1>10

(* What the two bytes of a length can say.                                 *)
Lengths == {n \in Nat \ {0} : n <= 256 * 256}

(* Lengths are positive.                                                   *)
LEMMA LengthIs == ASSUME NEW n \in Lengths PROVE n \in Nat \ {0}
BY SMTT(30) DEF Lengths

(* The header of a transfer and the first k bytes of its data.             *)
SpiHeader(n) == <<Transfer, (n - 1) % 256, (n - 1) \div 256>>
Begun(data, k) == SpiHeader(Len(data)) \o SubSeq(data, 1, k)

(* The two bytes of a length, put together again, are one less than it.    *)
LEMMA HeaderBytes ==
  ASSUME NEW n \in Lengths
  PROVE  /\ Transfer \in Bytes /\ (n - 1) % 256 \in Bytes /\ (n - 1) \div 256 \in Bytes
         /\ ((n - 1) % 256) + 256 * ((n - 1) \div 256) + 1 = n
<1>1. PICK m : m = n - 1
  OBVIOUS
<1>2. m \in Int /\ 0 <= m /\ m < 65536 /\ n = m + 1
  BY <1>1, SMTT(30) DEF Lengths
<1>3. m % 256 \in Bytes
  BY <1>2, SMTT(30) DEF Bytes
<1>4. m \div 256 \in Bytes
  BY <1>2, SMTT(30) DEF Bytes
<1>5. (m % 256) + 256 * (m \div 256) = m
  BY <1>2, SMTT(30)
<1>6. Transfer \in Bytes
  BY DEF Transfer, MPSSE_DO_WRITE, MPSSE_WRITE_NEG, Bytes
<1> QED
  BY <1>1, <1>2, <1>3, <1>4, <1>5, <1>6, SMTT(30)

(* The header is three bytes that say how long the transfer is.            *)
LEMMA HeaderIs ==
  ASSUME NEW n \in Lengths
  PROVE  /\ SpiHeader(n) \in Seq(Bytes) /\ Len(SpiHeader(n)) = 3
         /\ SpiHeader(n)[1] = Transfer
         /\ SpiHeader(n)[2] \in Nat /\ SpiHeader(n)[3] \in Nat
         /\ SpiHeader(n)[2] + 256 * SpiHeader(n)[3] + 1 = n
<1>1. PICK t, lo, hi : t = Transfer /\ lo = (n - 1) % 256 /\ hi = (n - 1) \div 256
  OBVIOUS
<1>2. t \in Bytes /\ lo \in Bytes /\ hi \in Bytes /\ lo + 256 * hi + 1 = n
  BY <1>1, HeaderBytes
<1>3. lo \in Nat /\ hi \in Nat
  BY <1>2 DEF Bytes
<1>4. lo \in Bytes /\ hi \in Bytes
  BY <1>2
<1>5. SpiHeader(n) = <<t, lo, hi>>
  BY <1>1 DEF SpiHeader
<1>6. <<t, lo, hi>> \in Seq(Bytes)
  BY <1>2, <1>4, ThreeBytes
<1> QED
  BY <1>1, <1>2, <1>3, <1>5, <1>6

(* A transfer that has begun needs all of its bytes.                       *)
LEMMA BegunIs ==
  ASSUME NEW data \in Seq(Bytes), Len(data) \in Lengths, NEW k \in 0 .. Len(data)
  PROVE  /\ Begun(data, k) \in Seq(Bytes) /\ Len(Begun(data, k)) = 3 + k
         /\ Begun(data, k)[1] = Transfer
         /\ Needs(Begun(data, k)) = 3 + Len(data)
         /\ \A j \in 1 .. k : Begun(data, k)[3 + j] = data[j]
<1>1. PICK n \in Lengths, h \in Seq(Bytes) : n = Len(data) /\ h = SpiHeader(n) /\ n \in Nat \ {0}
  BY HeaderIs, LengthIs
<1>2. Len(h) = 3 /\ h[1] = Transfer /\ h[2] \in Nat /\ h[3] \in Nat /\ h[2] + 256 * h[3] + 1 = n
  BY <1>1, HeaderIs
<1>3. PICK s : s = SubSeq(data, 1, k)
  OBVIOUS
<1>4. s \in Seq(Bytes) /\ Len(s) = k /\ \A j \in 1 .. k : s[j] = data[j]
  <2>1. \A j \in 1 .. k : j \in 1 .. Len(data)
    BY <1>1
  <2>2. 1 \in Int /\ k \in Int /\ 1 <= k + 1
    BY <1>1
  <2>3. SubSeq(data, 1, k) \in Seq(Bytes) /\ Len(SubSeq(data, 1, k)) = k - 1 + 1
        /\ \A j \in 1 .. k - 1 + 1 : SubSeq(data, 1, k)[j] = data[1 + j - 1]
    BY <2>1, <2>2, SubSeqProperties
  <2>4. k - 1 + 1 = k /\ \A j \in 1 .. k : 1 + j - 1 = j
    BY <2>2
  <2> QED
    BY <1>3, <2>3, <2>4
<1>5. PICK r : r = h \o s
  OBVIOUS
<1>6. r \in Seq(Bytes) /\ Len(r) = 3 + k /\ \A i \in 1 .. 3 : r[i] = h[i]
      /\ \A j \in 1 .. k : r[3 + j] = s[j]
  <2>1. k \in Nat
    BY <1>1
  <2>2. r \in Seq(Bytes) /\ Len(r) = Len(h) + Len(s)
        /\ \A i \in 1 .. Len(h) + Len(s) : r[i] = IF i <= Len(h) THEN h[i] ELSE s[i - Len(h)]
    BY <1>1, <1>4, <1>5, ConcatProperties
  <2>3. \A i \in 1 .. 3 : r[i] = h[i]
    BY <1>2, <1>4, <2>1, <2>2
  <2>4. ASSUME NEW j \in 1 .. k PROVE r[3 + j] = s[j]
    <3>1. PICK i : i = 3 + j
      OBVIOUS
    <3>2. i \in 1 .. 3 + k /\ ~(i <= 3) /\ i - 3 = j
      BY <2>1, <3>1
    <3>3. r[i] = s[i - 3]
      BY <1>2, <1>4, <2>2, <3>2
    <3> QED
      BY <3>1, <3>2, <3>3
  <2> QED
    BY <1>2, <1>4, <2>2, <2>3, <2>4
<1>7. Needs(r) = 3 + n
  <2>1. r[1] = Transfer /\ r[2] = h[2] /\ r[3] = h[3]
    BY <1>2, <1>6
  <2>2. ~(Len(r) < 3)
    BY <1>1, <1>6
  <2>3. Needs(r) = 3 + r[2] + 256 * r[3] + 1
    BY <2>1, <2>2, NeedsIs
  <2> QED
    BY <1>2, <2>1, <2>3
<1>8. Begun(data, k) = r
  BY <1>1, <1>3, <1>5 DEF Begun
<1>9. r[1] = Transfer /\ \A j \in 1 .. k : r[3 + j] = data[j]
  BY <1>2, <1>4, <1>6
<1> QED
  BY <1>1, <1>6, <1>7, <1>8, <1>9

(* A byte of data more is held, unless it is the last.                     *)
LEMMA BegunNext ==
  ASSUME NEW data \in Seq(Bytes), Len(data) \in Lengths, NEW k \in 0 .. Len(data) - 1
  PROVE  data[k + 1] \in Bytes /\ Append(Begun(data, k), data[k + 1]) = Begun(data, k + 1)
<1>1. PICK m : m = k + 1 /\ Len(data) \in Nat \ {0}
  BY LengthIs
<1>2. k \in 0 .. Len(data) /\ m \in 0 .. Len(data) /\ m \in 1 .. Len(data) /\ k \in Nat
  BY <1>1
<1>3. data[m] \in Bytes
  BY <1>2, ElementOfSeq
<1>4. SubSeq(data, 1, m) = Append(SubSeq(data, 1, k), data[m])
  <2>1. /\ SubSeq(data, 1, k) \in Seq(Bytes) /\ Len(SubSeq(data, 1, k)) = k
        /\ \A j \in 1 .. k : SubSeq(data, 1, k)[j] = data[j]
    BY <1>2
  <2>2. /\ SubSeq(data, 1, m) \in Seq(Bytes) /\ Len(SubSeq(data, 1, m)) = m
        /\ \A j \in 1 .. m : SubSeq(data, 1, m)[j] = data[j]
    BY <1>2
  <2>3. PICK s, r : s = SubSeq(data, 1, k) /\ r = SubSeq(data, 1, m)
    OBVIOUS
  <2>4. /\ Append(s, data[m]) \in Seq(Bytes) /\ Len(Append(s, data[m])) = m
        /\ \A j \in 1 .. k : Append(s, data[m])[j] = s[j]
        /\ Append(s, data[m])[m] = data[m]
    BY <1>1, <1>2, <1>3, <2>1, <2>3, AppendProperties
  <2>5. \A j \in 1 .. m : j \in 1 .. k \/ j = m
    BY <1>1, <1>2
  <2>6. \A j \in 1 .. m : r[j] = Append(s, data[m])[j]
    BY <2>1, <2>2, <2>3, <2>4, <2>5
  <2> QED
    BY <2>2, <2>3, <2>4, <2>6, SeqEqual
<1>5. PICK h : h = SpiHeader(Len(data)) /\ h \in Seq(Bytes)
  BY HeaderIs
<1>6. h \o Append(SubSeq(data, 1, k), data[m]) = Append(h \o SubSeq(data, 1, k), data[m])
  <2>1. PICK s \in Seq(Bytes) : s = SubSeq(data, 1, k)
    <3>1. \A i \in 1 .. k : i \in 1 .. Len(data)
      BY <1>2
    <3>2. 1 \in Int /\ k \in Int /\ 1 <= k + 1
      BY <1>2
    <3>3. SubSeq(data, 1, k) \in Seq(Bytes)
      BY <3>1, <3>2, SubSeqProperties
    <3> QED
      BY <3>3
  <2>2. h \o Append(s, data[m]) = Append(h \o s, data[m])
    BY <1>3, <1>5
  <2> QED
    BY <2>1, <2>2
<1> QED
  BY <1>1, <1>3, <1>4, <1>5, <1>6 DEF Begun

(* A chip that waits clocks the data of a transfer out, and waits again.   *)
LEMMA SpiTaken ==
  ASSUME NEW c \in Chips, c.bytes = <<>>, NEW data \in Seq(Bytes), Len(data) \in Lengths
  PROVE  Taken(c, SpiHeader(Len(data)) \o data) = Clocked(c, data)
<1>1. PICK n \in Lengths : n = Len(data) /\ n \in Nat \ {0}
  BY LengthIs
<1>2. PICK h : h = SpiHeader(n)
  OBVIOUS
<1>3. SubSeq(data, 1, 0) = <<>> /\ SubSeq(data, 1, n) = data
  BY <1>1
<1>4. h \in Seq(Bytes)
  BY <1>2, HeaderIs
<1>5. Begun(data, 0) = h /\ Begun(data, n) = h \o data
  <2>1. h \o <<>> = h
    BY <1>4, ConcatEmptySeq
  <2> QED
    BY <1>1, <1>2, <1>3, <2>1 DEF Begun
<1>6. Taken(c, h) = Holding(c, h)
  <2>1. PICK t, lo, hi : t = Transfer /\ lo = (n - 1) % 256 /\ hi = (n - 1) \div 256
    OBVIOUS
  <2>2. t \in Bytes /\ lo \in Bytes /\ hi \in Bytes
    BY <2>1, HeaderBytes
  <2>3. h = <<t, lo, hi>>
    BY <1>2, <2>1 DEF SpiHeader
  <2>4. Needs(<<t>>) = 3 /\ Needs(<<t, lo>>) = 3
    <3>1. PICK s1, s2 : s1 = <<t>> /\ s2 = <<t, lo>>
      OBVIOUS
    <3>2. s1[1] = Transfer /\ Len(s1) < 3 /\ s2[1] = Transfer /\ Len(s2) < 3
      BY <2>1, <3>1
    <3>3. Needs(s1) = 3 /\ Needs(s2) = 3
      BY <3>2, NeedsIs
    <3> QED
      BY <3>1, <3>3
  <2>5. Taken(c, h) = Execute[Holding(c, h)]
    BY <2>2, <2>3, <2>4, FirstBytes
  <2>6. Len(h) < Needs(h)
    <3>1. 0 \in 0 .. Len(data) /\ 3 < 3 + n
      BY <1>1
    <3>2. Len(Begun(data, 0)) = 3 + 0 /\ Needs(Begun(data, 0)) = 3 + n
      BY <1>1, <3>1, BegunIs
    <3> QED
      BY <1>1, <1>5, <3>1, <3>2
  <2> QED
    BY <1>4, <2>5, <2>6, HoldingIs, ExecuteIs
<1> DEFINE N == {k \in Nat : k < n => Taken(c, Begun(data, k)) = Holding(c, Begun(data, k))}
<1>7. 0 \in N
  BY <1>5, <1>6
<1>8. ASSUME NEW k \in Nat, k \in N PROVE k + 1 \in N
  <2>1. SUFFICES ASSUME k + 1 < n PROVE Taken(c, Begun(data, k + 1)) = Holding(c, Begun(data, k + 1))
    OBVIOUS
  <2>2. PICK m : m = k + 1
    OBVIOUS
  <2>3. k \in 0 .. Len(data) - 1 /\ k \in 0 .. Len(data) /\ m \in 0 .. Len(data) /\ k < n /\ m < n
    BY <1>1, <2>1, <2>2
  <2>4. PICK b, q, r : b = data[m] /\ q = Begun(data, k) /\ r = Begun(data, m)
    OBVIOUS
  <2>5. b \in Bytes /\ Append(q, b) = r
    BY <1>1, <2>2, <2>3, <2>4, BegunNext
  <2>6. q \in Seq(Bytes) /\ r \in Seq(Bytes) /\ Len(r) = 3 + m /\ Needs(r) = 3 + n
    BY <1>1, <2>3, <2>4, BegunIs
  <2>7. Len(r) < Needs(r)
    BY <1>1, <2>2, <2>3, <2>6
  <2>8. Taken(c, q) = Holding(c, q)
    BY <1>8, <2>3, <2>4
  <2>9. Taken(c, r) = TakeByte(Taken(c, q), b)
    BY <2>5, <2>6, TakenAppend
  <2>10. TakeByte(Holding(c, q), b) = Holding(c, r)
    BY <2>5, <2>6, <2>7, TakeHolding
  <2> QED
    BY <2>2, <2>4, <2>8, <2>9, <2>10
<1>9. Nat \subseteq N
  <2> HIDE DEF N
  <2> QED
    BY <1>7, <1>8, Induction
<1>10. PICK k \in Nat : n = k + 1
  <2>1. n - 1 \in Nat /\ n = n - 1 + 1
    BY <1>1
  <2> QED
    BY <2>1
<1>11. PICK b, q, r : b = data[n] /\ q = Begun(data, k) /\ r = Begun(data, n)
  OBVIOUS
<1>12. Taken(c, q) = Holding(c, q)
  BY <1>9, <1>10, <1>11
<1>13. k \in 0 .. Len(data) - 1 /\ k \in 0 .. Len(data) /\ n \in 0 .. Len(data) /\ k + 1 = n
  BY <1>1, <1>10
<1>14. b \in Bytes /\ Append(q, b) = r
  BY <1>1, <1>11, <1>13, BegunNext
<1>15. q \in Seq(Bytes) /\ r \in Seq(Bytes) /\ Len(r) = 3 + n /\ Needs(r) = 3 + n /\ r[1] = Transfer
       /\ \A j \in 1 .. n : r[3 + j] = data[j]
  BY <1>1, <1>11, <1>13, BegunIs
<1>16. Taken(c, r) = Execute[Holding(c, r)]
  <2>1. Taken(c, r) = TakeByte(Taken(c, q), b)
    BY <1>14, <1>15, TakenAppend
  <2>2. TakeByte(Holding(c, q), b) = Execute[Holding(c, r)]
    BY <1>14, <1>15, TakeHolding
  <2> QED
    BY <1>12, <2>1, <2>2
<1>17. SubSeq(r, 4, Len(r)) = data
  <2>1. PICK m : m = 3 + n
    OBVIOUS
  <2>2. SubSeq(r, 4, m) \in Seq(Bytes) /\ Len(SubSeq(r, 4, m)) = n
        /\ \A j \in 1 .. n : SubSeq(r, 4, m)[j] = r[3 + j]
    <3>1. \A i \in 4 .. m : i \in 1 .. Len(r)
      BY <1>15, <2>1
    <3>2. 4 \in Int /\ m \in Int /\ 4 <= m + 1 /\ m - 4 + 1 = n
      BY <1>1, <2>1
    <3>3. SubSeq(r, 4, m) \in Seq(Bytes) /\ Len(SubSeq(r, 4, m)) = m - 4 + 1
          /\ \A j \in 1 .. m - 4 + 1 : SubSeq(r, 4, m)[j] = r[4 + j - 1]
      BY <1>15, <3>1, <3>2, SubSeqProperties
    <3>4. \A j \in 1 .. n : 4 + j - 1 = 3 + j
      OBVIOUS
    <3> QED
      BY <3>2, <3>3, <3>4
  <2>3. PICK s : s = SubSeq(r, 4, m)
    OBVIOUS
  <2>4. \A j \in 1 .. n : s[j] = data[j]
    BY <1>15, <2>2, <2>3
  <2>5. s = data
    BY <1>1, <2>2, <2>3, <2>4, SeqEqual
  <2> QED
    BY <1>15, <2>1, <2>3, <2>5
<1>18. Execute[Holding(c, r)] = Clocked(c, data)
  <2>1. PICK d : d = Holding(c, r)
    OBVIOUS
  <2>2. Holding(c, <<>>) = c
    BY HoldingIs, EmptySeq
  <2>3. d \in Chips /\ d.bytes = r /\ Emptied(d) = c
    BY <1>15, <2>1, <2>2, HoldingIs
  <2>4. Needs(r) <= Len(r)
    BY <1>15
  <2>5. Execute[d] = Clocked(Emptied(d), SubSeq(r, 4, Len(r)))
    BY <1>15, <2>3, <2>4, ExecuteIs
  <2> QED
    BY <1>17, <2>1, <2>3, <2>5
<1> QED
  BY <1>1, <1>2, <1>5, <1>11, <1>16, <1>18

(* Sameness is reflexive and transitive.                                   *)
LEMMA SameChip ==
  /\ \A c \in Chips : Same(c, c)
  /\ \A c, d, e : Same(c, d) /\ Same(d, e) => Same(c, e)
BY DEF Same

(* What setting the lines does to each field.                              *)
LEMMA LinesIs ==
  ASSUME NEW c \in Chips, NEW v \in Bytes
  PROVE  LET selected == (v \div 16) % 2 = 0
             reset == (v \div 128) % 2 = 0
             listens == selected /\ ~reset
         IN /\ Lines(c, v) \in Chips /\ Lines(c, v).bytes = c.bytes
            /\ Lines(c, v).selected = selected /\ Lines(c, v).reset = reset
            /\ Lines(c, v).open = listens
            /\ Lines(c, v).frames =
                 IF listens /\ ~c.open THEN Append(c.frames, [config |-> c.reset, data |-> <<>>])
                 ELSE c.frames
<1> DEFINE selected == (v \div 16) % 2 = 0
           reset == (v \div 128) % 2 = 0
           listens == selected /\ ~reset
           f == IF listens /\ ~c.open THEN Append(c.frames, [config |-> c.reset, data |-> <<>>])
                ELSE c.frames
<1>1. Lines(c, v) = [c EXCEPT !.selected = selected, !.reset = reset, !.open = listens, !.frames = f]
  BY Zenon DEF Lines
<1>2. Lines(c, v) \in Chips
  BY LinesType
<1> HIDE DEF selected, reset, listens, f
<1>3. PICK d : d = [c EXCEPT !.selected = selected, !.reset = reset, !.open = listens, !.frames = f]
  OBVIOUS
<1>4. /\ d.bytes = c.bytes /\ d.selected = selected /\ d.reset = reset /\ d.open = listens
      /\ d.frames = f
  BY <1>3 DEF Chips
<1>5. /\ Lines(c, v).bytes = c.bytes /\ Lines(c, v).selected = selected /\ Lines(c, v).reset = reset
      /\ Lines(c, v).open = listens /\ Lines(c, v).frames = f
  BY <1>1, <1>3, <1>4
<1> QED
  BY <1>2, <1>5 DEF selected, reset, listens, f

(* Chips that are the same stay so when the lines are set ...              *)
LEMMA LinesSame ==
  ASSUME NEW c, NEW d, Same(c, d), NEW v \in Bytes
  PROVE  Same(Lines(c, v), Lines(d, v))
<1>1. PICK f : f = IF ((v \div 16) % 2 = 0 /\ ~((v \div 128) % 2 = 0)) /\ ~c.open
                   THEN Append(c.frames, [config |-> c.reset, data |-> <<>>]) ELSE c.frames
  OBVIOUS
<1>2. PICK a, b : a = Lines(c, v) /\ b = Lines(d, v)
  OBVIOUS
<1>3. c \in Chips /\ d \in Chips /\ c.bytes = d.bytes /\ c.open = d.open /\ c.reset = d.reset /\ c.frames = d.frames
  BY DEF Same
<1>4. a.frames = f
  BY <1>1, <1>2, <1>3, LinesIs, Zenon
<1>5. b.frames = f
  <2>1. b.frames = IF ((v \div 16) % 2 = 0 /\ ~((v \div 128) % 2 = 0)) /\ ~d.open
                   THEN Append(d.frames, [config |-> d.reset, data |-> <<>>]) ELSE d.frames
    BY <1>2, <1>3, LinesIs, Zenon
  <2> QED
    BY <1>1, <1>3, <2>1
<1>6. a \in Chips /\ a.bytes = c.bytes /\ a.selected = ((v \div 16) % 2 = 0)
      /\ a.reset = ((v \div 128) % 2 = 0)
      /\ a.open = (((v \div 16) % 2 = 0) /\ ~((v \div 128) % 2 = 0))
  BY <1>2, <1>3, LinesIs, Zenon
<1>7. b \in Chips /\ b.bytes = d.bytes /\ b.selected = ((v \div 16) % 2 = 0)
      /\ b.reset = ((v \div 128) % 2 = 0)
      /\ b.open = (((v \div 16) % 2 = 0) /\ ~((v \div 128) % 2 = 0))
  BY <1>2, <1>3, LinesIs, Zenon
<1> QED
  BY <1>2, <1>3, <1>4, <1>5, <1>6, <1>7, Zenon DEF Same

(* What clocking data out does to each field.                              *)
LEMMA ClockedFields ==
  ASSUME NEW c \in Chips, NEW s \in Seq(Bytes)
  PROVE  /\ Clocked(c, s) \in Chips /\ Clocked(c, s).bytes = c.bytes
         /\ Clocked(c, s).selected = c.selected /\ Clocked(c, s).reset = c.reset
         /\ Clocked(c, s).open = c.open
         /\ Clocked(c, s).frames =
              IF c.open THEN [c.frames EXCEPT ![Len(c.frames)].data = @ \o s] ELSE c.frames
<1>1. PICK g : g = [c.frames EXCEPT ![Len(c.frames)].data = @ \o s]
  OBVIOUS
<1>2. Clocked(c, s) = IF c.open THEN [c EXCEPT !.frames = g] ELSE c
  BY <1>1, Zenon DEF Clocked
<1>3. Clocked(c, s) \in Chips
  BY ClockedIs
<1>4. CASE c.open
  BY <1>1, <1>2, <1>3, <1>4 DEF Chips
<1>5. CASE ~c.open
  BY <1>1, <1>2, <1>3, <1>5
<1> QED
  BY <1>4, <1>5

(* ... when data is clocked out ...                                        *)
LEMMA ClockedSame ==
  ASSUME NEW c, NEW d, Same(c, d), NEW s \in Seq(Bytes)
  PROVE  Same(Clocked(c, s), Clocked(d, s))
<1>1. PICK g : g = [c.frames EXCEPT ![Len(c.frames)].data = @ \o s]
  OBVIOUS
<1>2. /\ c \in Chips /\ d \in Chips /\ c.bytes = d.bytes /\ c.selected = d.selected
      /\ c.open = d.open /\ c.reset = d.reset /\ c.frames = d.frames
  BY DEF Same
<1>3. PICK a, b : a = Clocked(c, s) /\ b = Clocked(d, s)
  OBVIOUS
<1>4. /\ a \in Chips /\ a.bytes = c.bytes /\ a.selected = c.selected /\ a.reset = c.reset
      /\ a.open = c.open /\ a.frames = IF c.open THEN g ELSE c.frames
  BY <1>1, <1>2, <1>3, ClockedFields, ZenonT(30)
<1>5. /\ b \in Chips /\ b.bytes = d.bytes /\ b.selected = d.selected /\ b.reset = d.reset
      /\ b.open = d.open /\ b.frames = IF c.open THEN g ELSE c.frames
  <2>1. b.frames = IF d.open THEN [d.frames EXCEPT ![Len(d.frames)].data = @ \o s] ELSE d.frames
    BY <1>2, <1>3, ClockedFields, Zenon
  <2>2. [d.frames EXCEPT ![Len(d.frames)].data = @ \o s] = g
    BY <1>1, <1>2, Zenon
  <2>3. /\ b \in Chips /\ b.bytes = d.bytes /\ b.selected = d.selected /\ b.reset = d.reset
        /\ b.open = d.open
    BY <1>2, <1>3, ClockedFields, Zenon
  <2> QED
    BY <1>2, <2>1, <2>2, <2>3
<1> QED
  BY <1>2, <1>3, <1>4, <1>5, Zenon DEF Same

(* ... and when a command is executed.                                     *)
LEMMA ExecuteSame ==
  ASSUME NEW c, NEW d, Same(c, d)
  PROVE  Same(Execute[c], Execute[d])
<1>1. c \in Chips /\ d \in Chips
  BY DEF Same
<1>2. PICK b \in Seq(Bytes) : b = c.bytes /\ b = d.bytes
  BY <1>1, ChipFields DEF Same
<1>3. PICK e, f : e = Emptied(c) /\ f = Emptied(d)
  OBVIOUS
<1>4. e \in Chips /\ f \in Chips
  BY <1>1, <1>3, ExecuteIs
<1>5. Same(e, f)
  BY <1>1, <1>3, <1>4 DEF Same, Emptied, Chips
<1>6. CASE Len(b) < Needs(b)
  <2>1. Execute[c] = c
    BY <1>1, <1>2, <1>6, ExecuteIs
  <2>2. Execute[d] = d
    BY <1>1, <1>2, <1>6, ExecuteIs
  <2> QED
    BY <2>1, <2>2
<1>7. CASE ~(Len(b) < Needs(b))
  <2>1. Needs(b) <= Len(b)
    BY <1>2, <1>7, NeedsInt
  <2>2. CASE b[1] = SET_BITS_LOW
    <3>1. Needs(b) = 3
      BY <2>2, NeedsIs
    <3>2. 2 \in 1 .. Len(b)
      BY <1>2, <2>1, <3>1, NeedsInt
    <3>3. b[2] \in Bytes
      BY <1>2, <3>2, ElementOfSeq
    <3>4. Execute[c] = Lines(e, b[2])
      BY <1>1, <1>2, <1>3, <2>1, <2>2, ExecuteIs
    <3>5. Execute[d] = Lines(f, b[2])
      BY <1>1, <1>2, <1>3, <2>1, <2>2, ExecuteIs
    <3>6. PICK v \in Bytes : v = b[2]
      BY <3>3
    <3> QED
      BY <1>5, <3>4, <3>5, <3>6, LinesSame
  <2>3. CASE b[1] = Transfer
    <3>1. PICK s : s = SubSeq(b, 4, Len(b))
      OBVIOUS
    <3>2. s \in Seq(Bytes)
      <4>1. Needs(b) >= 3
        BY <1>2, <2>3, NeedsAtLeast
      <4>2. Len(b) \in Nat /\ 4 <= Len(b) + 1
        BY <1>2, <2>1, <4>1, NeedsInt
      <4>3. \A i \in 4 .. Len(b) : i \in 1 .. Len(b)
        BY <4>2
      <4> QED
        BY <1>2, <3>1, <4>2, <4>3, SubSeqProperties
    <3>3. Execute[c] = Clocked(e, s)
      BY <1>1, <1>2, <1>3, <2>1, <2>3, <3>1, ExecuteIs
    <3>4. Execute[d] = Clocked(f, s)
      BY <1>1, <1>2, <1>3, <2>1, <2>3, <3>1, ExecuteIs
    <3> QED
      BY <1>5, <3>2, <3>3, <3>4, ClockedSame
  <2>4. CASE b[1] = GET_BITS_LOW
    <3>1. Execute[c] = [e EXCEPT !.answers = @ + 1]
      BY <1>1, <1>2, <1>3, <2>1, <2>4, ExecuteIs
    <3>2. Execute[d] = [f EXCEPT !.answers = @ + 1]
      BY <1>1, <1>2, <1>3, <2>1, <2>4, ExecuteIs
    <3>3. e.answers + 1 \in Nat /\ f.answers + 1 \in Nat
      BY <1>4, ChipFields
    <3> QED
      BY <1>4, <1>5, <3>1, <3>2, <3>3, ZenonT(60) DEF Same, Chips
  <2>5. CASE b[1] \notin Effective
    <3>1. Execute[c] = e
      BY <1>1, <1>2, <1>3, <2>1, <2>5, ExecuteIs
    <3>2. Execute[d] = f
      BY <1>1, <1>2, <1>3, <2>1, <2>5, ExecuteIs
    <3> QED
      BY <1>5, <3>1, <3>2
  <2> QED
    BY <2>2, <2>3, <2>4, <2>5 DEF Effective
<1> QED
  BY <1>6, <1>7

(* The answers that are on their way do not matter for what a byte does.   *)
LEMMA TakeSame ==
  ASSUME NEW c, NEW d, Same(c, d), NEW x \in Bytes
  PROVE  Same(TakeByte(c, x), TakeByte(d, x))
<1>1. c \in Chips /\ d \in Chips /\ c.bytes = d.bytes
  BY DEF Same
<1>2. PICK r : r = Append(c.bytes, x)
  OBVIOUS
<1>3. PICK e, f : e = [c EXCEPT !.bytes = r] /\ f = [d EXCEPT !.bytes = r]
  OBVIOUS
<1>4. e \in Chips /\ TakeByte(c, x) = Execute[e]
  BY <1>1, <1>2, <1>3, TakeIs
<1>5. f \in Chips /\ TakeByte(d, x) = Execute[f]
  BY <1>1, <1>2, <1>3, TakeIs
<1>6. Same(e, f)
  BY <1>1, <1>3, <1>4, <1>5 DEF Same, Chips
<1> QED
  BY <1>4, <1>5, <1>6, ExecuteSame

(* Nor do they for what bytes do.                                          *)
LEMMA TakenSame ==
  ASSUME NEW c, NEW d, Same(c, d), NEW s \in Seq(Bytes)
  PROVE  Same(Taken(c, s), Taken(d, s))
<1> DEFINE T == {r \in Seq(Bytes) : Same(Taken(c, r), Taken(d, r))}
<1>1. <<>> \in T
  BY TakenEmpty, EmptySeq
<1>2. ASSUME NEW r \in Seq(Bytes), NEW x \in Bytes, r \in T PROVE Append(r, x) \in T
  <2>1. c \in Chips /\ d \in Chips
    BY DEF Same
  <2>2. Taken(c, Append(r, x)) = TakeByte(Taken(c, r), x)
    BY <2>1, TakenAppend
  <2>3. Taken(d, Append(r, x)) = TakeByte(Taken(d, r), x)
    BY <2>1, TakenAppend
  <2>4. Same(Taken(c, r), Taken(d, r))
    BY <1>2
  <2>5. PICK a, b : a = Taken(c, r) /\ b = Taken(d, r)
    OBVIOUS
  <2>6. Same(TakeByte(a, x), TakeByte(b, x))
    BY <2>4, <2>5, TakeSame
  <2> QED
    BY <2>2, <2>3, <2>5, <2>6, AppendProperties
<1> HIDE DEF T
<1>3. Seq(Bytes) \subseteq T
  BY <1>1, <1>2, SequenceInduction
<1> QED
  BY <1>3 DEF T

(* Commands of one byte, one after the other.                              *)
LEMMA OneBytesTaken ==
  ASSUME NEW c \in Chips, c.bytes = <<>>, NEW s \in Seq(OneByte)
  PROVE  s \in Seq(Bytes) /\ Same(Taken(c, s), c)
<1> DEFINE T == {r \in Seq(OneByte) : r \in Seq(Bytes) /\ Same(Taken(c, r), c)}
<1>0. OneByte \subseteq Bytes
  BY DEF OneByte, Bytes
<1>1. <<>> \in T
  BY TakenEmpty, EmptySeq, SameChip
<1>2. ASSUME NEW r \in Seq(OneByte), NEW x \in OneByte, r \in T PROVE Append(r, x) \in T
  <2>1. r \in Seq(Bytes) /\ x \in Bytes /\ Same(Taken(c, r), c)
    BY <1>0, <1>2
  <2>2. PICK a : a = Taken(c, r)
    OBVIOUS
  <2>3. a \in Chips /\ a.bytes = <<>> /\ Same(a, c)
    BY <2>1, <2>2 DEF Same
  <2>4. Taken(c, Append(r, x)) = TakeByte(a, x)
    BY <2>1, <2>2, TakenAppend
  <2>5. TakeByte(a, x) = Taken(a, <<x>>)
    <3>1. PICK e : e = <<>>
      OBVIOUS
    <3>2. e \in Seq(Bytes) /\ Append(e, x) = <<x>> /\ Taken(a, e) = a
      BY <3>1, EmptySeq, TakenEmpty
    <3>3. Taken(a, Append(e, x)) = TakeByte(Taken(a, e), x)
      BY <2>1, <2>3, <3>2, TakenAppend
    <3> QED
      BY <3>2, <3>3
  <2>6. Same(Taken(a, <<x>>), a)
    BY <2>3, OneByteTaken
  <2>7. Same(Taken(c, Append(r, x)), c)
    BY <2>3, <2>4, <2>5, <2>6, SameChip
  <2> QED
    BY <2>1, <2>7, AppendProperties
<1> HIDE DEF T
<1>3. Seq(OneByte) \subseteq T
  BY <1>1, <1>2, SequenceInduction
<1> QED
  BY <1>3 DEF T

(* What the program does for a command: the steps before the acknowledgement, *)
(* and the bytes that they send.                                           *)
Silent == {a \in [do : {"send", "keep", "drop"}, bytes : Seq(Bytes)] : a.do = "send" \/ a.bytes = <<>>}

AckStep == [do |-> "ack", bytes |-> <<>>]
Actions == Silent \cup {AckStep}

BytesOf(s) == [i \in DOMAIN s |-> s[i].bytes]
Sent(s) == FlattenSeq(BytesOf(s))

(* Only what is sent has bytes.                                            *)
LEMMA ActionsHave == \A a \in Actions : a.bytes \in Seq(Bytes) /\ (a.do # "send" => a.bytes = <<>>)
<1> SUFFICES ASSUME NEW a \in Actions PROVE a.bytes \in Seq(Bytes) /\ (a.do # "send" => a.bytes = <<>>)
  OBVIOUS
<1>1. CASE a \in Silent
  BY <1>1 DEF Silent
<1>2. CASE a = AckStep
  BY <1>2, EmptySeq DEF AckStep
<1> QED
  BY <1>1, <1>2 DEF Actions

(* The bytes of each step.                                                 *)
LEMMA BytesOfIs ==
  ASSUME NEW s \in Seq(Actions)
  PROVE  /\ BytesOf(s) \in Seq(Seq(Bytes)) /\ Len(BytesOf(s)) = Len(s)
         /\ \A i \in 1 .. Len(s) : BytesOf(s)[i] = s[i].bytes
<1>1. DOMAIN s = 1 .. Len(s) /\ Len(s) \in Nat
  BY LenProperties
<1>2. \A i \in 1 .. Len(s) : s[i].bytes \in Seq(Bytes)
  <2>1. \A i \in 1 .. Len(s) : s[i] \in Actions
    BY ElementOfSeq
  <2> QED
    BY <2>1, ActionsHave
<1>3. BytesOf(s) = [i \in 1 .. Len(s) |-> s[i].bytes]
  BY <1>1, Zenon DEF BytesOf
<1>4. PICK n \in Nat : n = Len(s)
  BY <1>1
<1>5. BytesOf(s) \in [1 .. n -> Seq(Bytes)]
  BY <1>2, <1>3, <1>4
<1>6. BytesOf(s) \in Seq(Seq(Bytes)) /\ Len(BytesOf(s)) = n
  BY <1>4, <1>5, SeqDef, LenProperties
<1> QED
  BY <1>3, <1>4, <1>6

(* What is sent by steps in two parts.                                     *)
LEMMA SentConcat ==
  ASSUME NEW s \in Seq(Actions), NEW t \in Seq(Actions)
  PROVE  /\ Sent(s) \in Seq(Bytes) /\ Sent(t) \in Seq(Bytes) /\ s \o t \in Seq(Actions)
         /\ Sent(s \o t) = Sent(s) \o Sent(t)
<1>1. PICK b \in Seq(Seq(Bytes)), d \in Seq(Seq(Bytes)) : b = BytesOf(s) /\ d = BytesOf(t)
  BY BytesOfIs
<1>2. PICK q \in Seq(Actions) : q = s \o t
  BY ConcatProperties
<1>3. /\ Len(b) = Len(s) /\ \A i \in 1 .. Len(s) : b[i] = s[i].bytes
      /\ Len(d) = Len(t) /\ \A i \in 1 .. Len(t) : d[i] = t[i].bytes
  BY <1>1, BytesOfIs
<1>4. BytesOf(q) = b \o d
  <2>1. PICK r : r = BytesOf(q)
    OBVIOUS
  <2>2. r \in Seq(Seq(Bytes)) /\ Len(r) = Len(q) /\ \A i \in 1 .. Len(q) : r[i] = q[i].bytes
    BY <2>1, BytesOfIs
  <2>3. PICK m \in Nat, n \in Nat : m = Len(s) /\ n = Len(t)
    BY LenProperties
  <2>4. Len(q) = m + n /\ \A i \in 1 .. m + n : q[i] = IF i <= m THEN s[i] ELSE t[i - m]
    BY <1>2, <2>3, ConcatProperties
  <2>5. b \o d \in Seq(Seq(Bytes)) /\ Len(b \o d) = m + n
        /\ \A i \in 1 .. m + n : (b \o d)[i] = IF i <= m THEN b[i] ELSE d[i - m]
    <3>1. b \o d \in Seq(Seq(Bytes)) /\ Len(b \o d) = Len(b) + Len(d)
          /\ \A i \in 1 .. Len(b) + Len(d) : (b \o d)[i] = IF i <= Len(b) THEN b[i] ELSE d[i - Len(b)]
      BY <1>1, ConcatProperties
    <3>2. Len(b) = m /\ Len(d) = n
      BY <1>3, <2>3
    <3> QED
      BY <3>1, <3>2
  <2>6. ASSUME NEW i \in 1 .. m + n PROVE r[i] = (b \o d)[i]
    <3>1. r[i] = q[i].bytes
      BY <2>2, <2>4
    <3>2. CASE i <= m
      <4>1. i \in 1 .. m
        BY <3>2
      <4>2. q[i] = s[i] /\ (b \o d)[i] = b[i]
        BY <2>4, <2>5, <3>2
      <4> QED
        BY <1>3, <2>3, <3>1, <4>1, <4>2
    <3>3. CASE ~(i <= m)
      <4>1. PICK j : j = i - m
        OBVIOUS
      <4>2. j \in 1 .. n
        BY <3>3, <4>1
      <4>3. q[i] = t[j] /\ (b \o d)[i] = d[j]
        BY <2>4, <2>5, <3>3, <4>1
      <4> QED
        BY <1>3, <2>3, <3>1, <4>2, <4>3
    <3> QED
      BY <3>2, <3>3
  <2> QED
    BY <2>1, <2>2, <2>4, <2>5, <2>6, SeqEqual
<1>5. FlattenSeq(b \o d) = FlattenSeq(b) \o FlattenSeq(d)
  BY <1>1, FlattenConcat
<1>6. FlattenSeq(b) \in Seq(Bytes) /\ FlattenSeq(d) \in Seq(Bytes)
  BY <1>1, FlattenType
<1> QED
  BY <1>1, <1>2, <1>4, <1>5, <1>6 DEF Sent

(* What is sent by one step ...                                            *)
LEMMA SentOne ==
  ASSUME NEW a \in Actions
  PROVE  <<a>> \in Seq(Actions) /\ Sent(<<a>>) = a.bytes
<1>1. PICK s : s = <<a>>
  OBVIOUS
<1>2. s \in Seq(Actions) /\ Len(s) = 1 /\ s[1] = a /\ DOMAIN s = {1}
  BY <1>1
<1>3. a.bytes \in Seq(Bytes)
  BY ActionsHave
<1>4. PICK b : b = BytesOf(s)
  OBVIOUS
<1>5. b \in Seq(Seq(Bytes)) /\ Len(b) = 1 /\ \A i \in 1 .. 1 : b[i] = s[i].bytes
  BY <1>2, <1>4, BytesOfIs
<1>6. b = <<a.bytes>>
  <2>1. b[1] = a.bytes
    BY <1>2, <1>5
  <2>2. PICK r : r = <<a.bytes>>
    OBVIOUS
  <2>3. r \in Seq(Seq(Bytes)) /\ Len(r) = 1 /\ r[1] = a.bytes
    BY <1>3, <2>2
  <2>4. \A i \in 1 .. 1 : b[i] = r[i]
    BY <2>1, <2>3
  <2> QED
    BY <1>5, <2>2, <2>3, <2>4, SeqEqual
<1>7. FlattenSeq(<<a.bytes>>) = a.bytes
  BY <1>3, FlattenOne
<1> QED
  BY <1>1, <1>2, <1>4, <1>6, <1>7 DEF Sent

(* ... by none ...                                                         *)
LEMMA SentNothing == Sent(<<>>) = <<>>
<1>1. BytesOf(<<>>) = <<>>
  BY DEF BytesOf
<1> QED
  BY <1>1, FlattenEmpty DEF Sent

(* ... and by a first step and the rest.                                   *)
LEMMA SentTail ==
  ASSUME NEW s \in Seq(Actions), s # <<>>
  PROVE  /\ Head(s) \in Actions /\ Tail(s) \in Seq(Actions)
         /\ Sent(s) = Head(s).bytes \o Sent(Tail(s))
<1>1. Head(s) \in Actions /\ Tail(s) \in Seq(Actions) /\ s = <<Head(s)>> \o Tail(s)
  BY HeadTailProperties
<1>2. PICK a \in Actions, t \in Seq(Actions) : a = Head(s) /\ t = Tail(s)
  BY <1>1
<1>3. PICK r \in Seq(Actions) : r = <<a>> /\ Sent(r) = a.bytes
  BY <1>2, SentOne
<1>4. Sent(r \o t) = Sent(r) \o Sent(t)
  BY <1>2, <1>3, SentConcat
<1> QED
  BY <1>1, <1>2, <1>3, <1>4

-----------------------------------------------------------------------------
(* The steps s take the chip from c to d, apart from its answers.          *)
Leads(s, c, d) == s \in Seq(Silent) /\ Same(Taken(c, Sent(s)), d)

(* Steps before the acknowledgement are steps.                             *)
LEMMA SilentActs == \A s \in Seq(Silent) : s \in Seq(Actions)
BY DEF Actions

(* One way after the other.                                                *)
LEMMA LeadsOn ==
  ASSUME NEW s, NEW t, NEW c, NEW d, NEW e, Leads(s, c, d), Leads(t, d, e)
  PROVE  Leads(s \o t, c, e)
<1>1. s \in Seq(Silent) /\ t \in Seq(Silent) /\ s \o t \in Seq(Silent)
  BY ConcatProperties DEF Leads
<1>2. s \in Seq(Actions) /\ t \in Seq(Actions)
  BY <1>1, SilentActs
<1>3. PICK a \in Seq(Bytes), b \in Seq(Bytes) : a = Sent(s) /\ b = Sent(t) /\ Sent(s \o t) = a \o b
  BY <1>2, SentConcat
<1>4. Taken(c, a \o b) = Taken(Taken(c, a), b)
  BY <1>3, TakenConcat
<1>5. Same(Taken(c, a), d) /\ Same(Taken(d, b), e)
  BY <1>3 DEF Leads
<1>6. Same(Taken(Taken(c, a), b), Taken(d, b))
  BY <1>3, <1>5, TakenSame
<1>7. Same(Taken(c, Sent(s \o t)), e)
  BY <1>3, <1>4, <1>5, <1>6, SameChip
<1> QED
  BY <1>1, <1>7 DEF Leads

(* No steps lead nowhere.                                                  *)
LEMMA LeadsNowhere == ASSUME NEW c \in Chips PROVE Leads(<<>>, c, c)
BY SentNothing, TakenEmpty, SameChip, EmptySeq DEF Leads

(* Bytes sent lead where the chip takes them.                              *)
LEMMA LeadsSend ==
  ASSUME NEW c, NEW b \in Seq(Bytes), NEW d, Same(Taken(c, b), d)
  PROVE  Leads(SendBytes(b), c, d)
<1>1. PICK a : a = [do |-> "send", bytes |-> b]
  OBVIOUS
<1>2. a \in Silent /\ a.bytes = b
  BY <1>1 DEF Silent
<1>3. <<a>> \in Seq(Silent) /\ Sent(<<a>>) = b
  <2>1. a \in Actions
    BY <1>2 DEF Actions
  <2> QED
    BY <1>2, <2>1, SentOne
<1> QED
  BY <1>1, <1>3 DEF Leads, SendBytes

(* Waiting for a byte changes nothing.                                     *)
LEMMA LeadsRecv ==
  ASSUME NEW c \in Chips, NEW keep \in BOOLEAN
  PROVE  Leads(RecvByte(keep), c, c)
<1>1. PICK a : a = [do |-> IF keep THEN "keep" ELSE "drop", bytes |-> <<>>]
  OBVIOUS
<1>2. a \in Silent /\ a.bytes = <<>>
  BY <1>1, EmptySeq DEF Silent
<1>3. <<a>> \in Seq(Silent) /\ Sent(<<a>>) = <<>>
  <2>1. a \in Actions
    BY <1>2 DEF Actions
  <2> QED
    BY <1>2, <2>1, SentOne
<1>4. Same(Taken(c, <<>>), c)
  BY TakenEmpty, SameChip
<1> QED
  BY <1>1, <1>3, <1>4 DEF Leads, RecvByte

(* Nor does asking for the pins, but for the answer to come.               *)
LEMMA LeadsCdone ==
  ASSUME NEW c \in Chips, c.bytes = <<>>
  PROVE  Leads(GetCdone, c, c)
<1>1. GET_BITS_LOW \in OneByte
  BY DEF OneByte, GET_BITS_LOW, MPSSE_DO_WRITE, MPSSE_WRITE_NEG, SET_BITS_LOW, TCK_DIVISOR, CLK_BITS, CLK_BYTES
<1>2. PICK s : s = <<GET_BITS_LOW>>
  OBVIOUS
<1>3. s \in Seq(OneByte)
  BY <1>1, <1>2
<1>4. s \in Seq(Bytes) /\ Same(Taken(c, s), c)
  BY <1>3, OneBytesTaken
<1>5. Leads(SendBytes(s), c, c)
  BY <1>4, LeadsSend
<1>6. Leads(RecvByte(FALSE), c, c)
  BY LeadsRecv
<1>7. Leads(SendBytes(s) \o RecvByte(FALSE), c, c)
  BY <1>5, <1>6, LeadsOn
<1> QED
  BY <1>2, <1>7 DEF GetCdone

(* Setting the lines.                                                      *)
LEMMA LeadsLines ==
  ASSUME NEW c \in Chips, c.bytes = <<>>, NEW s \in {0, 1}, NEW r \in {0, 1}
  PROVE  Leads(SetGpio(s, r), c, Lines(c, 1 + 16 * s + 128 * r))
<1>1. PICK v, w : v = 1 + 16 * s + 128 * r /\ w = WRITE_EXTENDED
  OBVIOUS
<1>2. v \in Bytes /\ w \in Bytes /\ SET_BITS_LOW \in Bytes
  BY <1>1 DEF Bytes, WRITE_EXTENDED, SET_BITS_LOW
<1>3. PICK b : b = <<SET_BITS_LOW, v, w>>
  OBVIOUS
<1>4. b \in Seq(Bytes)
  BY <1>2, <1>3
<1>5. Taken(c, b) = Lines(c, v)
  BY <1>2, <1>3, SetBits
<1>6. Lines(c, v) \in Chips
  BY <1>2, LinesType
<1>7. Leads(SendBytes(b), c, Lines(c, v))
  BY <1>4, <1>5, <1>6, LeadsSend, SameChip
<1> QED
  BY <1>1, <1>3, <1>7 DEF SetGpio

(* The three settings of the lines.                                        *)
Selected(v) == (v \div 16) % 2 = 0
Resets(v) == (v \div 128) % 2 = 0

(* What the three settings mean.                                           *)
LEMMA SettingsAre ==
  /\ Selected(1) /\ Resets(1) /\ Selected(129) /\ ~Resets(129)
  /\ ~Selected(145) /\ ~Resets(145)
  /\ 1 \in Bytes /\ 129 \in Bytes /\ 145 \in Bytes
<1>1. Selected(1) /\ Resets(1)
  BY SMTT(30) DEF Selected, Resets
<1>2. Selected(129) /\ ~Resets(129)
  BY SMTT(30) DEF Selected, Resets
<1>3. ~Selected(145) /\ ~Resets(145)
  BY SMTT(30) DEF Selected, Resets
<1>4. 1 \in Bytes /\ 129 \in Bytes /\ 145 \in Bytes
  BY DEF Bytes
<1> QED
  BY <1>1, <1>2, <1>3, <1>4

(* What a setting does, in its terms.                                      *)
LEMMA SetLines ==
  ASSUME NEW c \in Chips, NEW v \in Bytes, NEW d, d = Lines(c, v)
  PROVE  /\ d \in Chips /\ d.bytes = c.bytes /\ (d.reset <=> Resets(v))
         /\ (d.open <=> (Selected(v) /\ ~Resets(v)))
         /\ (~(Selected(v) /\ ~Resets(v)) \/ c.open) => d.frames = c.frames
         /\ ((Selected(v) /\ ~Resets(v)) /\ ~c.open) =>
              d.frames = Append(c.frames, [config |-> c.reset, data |-> <<>>])
BY LinesIs, ZenonT(30) DEF Selected, Resets

(* Selected and in reset: no frame is open.                                *)
LEMMA ResetLines ==
  ASSUME NEW c \in Chips, NEW d, d = Lines(c, 1)
  PROVE  /\ d \in Chips /\ d.bytes = c.bytes /\ d.reset /\ ~d.open
         /\ d.frames = c.frames
<1>1. PICK v \in Bytes : v = 1 /\ Selected(v) /\ Resets(v)
  BY SettingsAre
<1>2. d = Lines(c, v)
  BY <1>1
<1>3. /\ d \in Chips /\ d.bytes = c.bytes /\ (d.reset <=> Resets(v))
      /\ (d.open <=> (Selected(v) /\ ~Resets(v)))
      /\ (~(Selected(v) /\ ~Resets(v)) \/ c.open) => d.frames = c.frames
      /\ ((Selected(v) /\ ~Resets(v)) /\ ~c.open) =>
           d.frames = Append(c.frames, [config |-> c.reset, data |-> <<>>])
  BY <1>2, SetLines
<1> QED
  BY <1>1, <1>3, Zenon

(* Not selected: no frame is open.                                         *)
LEMMA IdleLines ==
  ASSUME NEW c \in Chips, NEW d, d = Lines(c, 145)
  PROVE  /\ d \in Chips /\ d.bytes = c.bytes /\ ~d.reset /\ ~d.open
         /\ d.frames = c.frames
<1>1. PICK v \in Bytes : v = 145 /\ ~Selected(v) /\ ~Resets(v)
  BY SettingsAre
<1>2. d = Lines(c, v)
  BY <1>1
<1>3. /\ d \in Chips /\ d.bytes = c.bytes /\ (d.reset <=> Resets(v))
      /\ (d.open <=> (Selected(v) /\ ~Resets(v)))
      /\ (~(Selected(v) /\ ~Resets(v)) \/ c.open) => d.frames = c.frames
      /\ ((Selected(v) /\ ~Resets(v)) /\ ~c.open) =>
           d.frames = Append(c.frames, [config |-> c.reset, data |-> <<>>])
  BY <1>2, SetLines
<1> QED
  BY <1>1, <1>3, Zenon

(* Selected and out of reset: a frame is open, a new one if none was.      *)
LEMMA SelectLines ==
  ASSUME NEW c \in Chips, NEW d, d = Lines(c, 129)
  PROVE  /\ d \in Chips /\ d.bytes = c.bytes /\ ~d.reset /\ d.open
         /\ c.open => d.frames = c.frames
         /\ ~c.open => d.frames = Append(c.frames, [config |-> c.reset, data |-> <<>>])
<1>1. PICK v \in Bytes : v = 129 /\ Selected(v) /\ ~Resets(v)
  BY SettingsAre
<1>2. d = Lines(c, v)
  BY <1>1
<1>3. /\ d \in Chips /\ d.bytes = c.bytes /\ (d.reset <=> Resets(v))
      /\ (d.open <=> (Selected(v) /\ ~Resets(v)))
      /\ (~(Selected(v) /\ ~Resets(v)) \/ c.open) => d.frames = c.frames
      /\ ((Selected(v) /\ ~Resets(v)) /\ ~c.open) =>
           d.frames = Append(c.frames, [config |-> c.reset, data |-> <<>>])
  BY <1>2, SetLines
<1> QED
  BY <1>1, <1>3, Zenon

(* Data reaches the last frame.                                            *)
Longer(x, s) == [x EXCEPT !.data = @ \o s]
WithFrames(c, f) == [c EXCEPT !.frames = f]

(* Frames, if there are any, have a last one.                              *)
LEMMA FramesEnd ==
  ASSUME NEW f \in Seq(Frame), f # <<>>
  PROVE  \E g \in Seq(Frame), x \in Frame : f = Append(g, x)
BY SequenceEnds

(* A frame with more data.                                                 *)
LEMMA LongerIs ==
  ASSUME NEW x \in Frame, NEW s \in Seq(Bytes)
  PROVE  /\ Longer(x, s) \in Frame /\ Longer(x, s).config = x.config
         /\ Longer(x, s).data = x.data \o s /\ Longer(x, <<>>) = x
         /\ \A t \in Seq(Bytes) : Longer(Longer(x, s), t) = Longer(x, s \o t)
<1>1. PICK d \in Seq(Bytes) : d = x.data
  BY DEF Frame
<1>2. d \o s \in Seq(Bytes) /\ d \o <<>> = d
  BY <1>1, ConcatProperties, ConcatEmptySeq
<1>3. PICK e : e = d \o s
  OBVIOUS
<1>4. Longer(x, s) = [x EXCEPT !.data = e]
  BY <1>1, <1>3 DEF Longer
<1>5. Longer(x, s) \in Frame /\ Longer(x, s).config = x.config /\ Longer(x, s).data = e
  BY <1>2, <1>3, <1>4 DEF Frame
<1>6. Longer(x, <<>>) = x
  <2>1. Longer(x, <<>>) = [x EXCEPT !.data = d]
    BY <1>1, <1>2 DEF Longer
  <2> QED
    BY <1>1, <2>1 DEF Frame
<1>7. ASSUME NEW t \in Seq(Bytes) PROVE Longer(Longer(x, s), t) = Longer(x, s \o t)
  <2>1. PICK y : y = Longer(x, s)
    OBVIOUS
  <2>2. PICK u, w : u = e \o t /\ w = s \o t
    OBVIOUS
  <2>3. Longer(y, t) = [y EXCEPT !.data = u]
    BY <1>5, <2>1, <2>2 DEF Longer
  <2>4. Longer(x, w) = [x EXCEPT !.data = u]
    <3>1. d \in Seq(Bytes) /\ s \in Seq(Bytes) /\ t \in Seq(Bytes)
      BY <1>1
    <3>2. (d \o s) \o t = d \o (s \o t)
      BY <3>1, ConcatAssociative
    <3>3. d \o w = u
      BY <1>3, <2>2, <3>2
    <3> QED
      BY <1>1, <3>3 DEF Longer
  <2>5. [y EXCEPT !.data = u] = [x EXCEPT !.data = u]
    BY <1>4, <2>1 DEF Frame
  <2> QED
    BY <2>1, <2>2, <2>3, <2>4, <2>5
<1> QED
  BY <1>1, <1>3, <1>5, <1>6, <1>7

(* A chip with other frames.                                               *)
LEMMA WithFramesIs ==
  ASSUME NEW c \in Chips, NEW f \in Seq(Frame)
  PROVE  /\ WithFrames(c, f) \in Chips /\ WithFrames(c, f).frames = f
         /\ WithFrames(c, f).bytes = c.bytes /\ WithFrames(c, f).open = c.open
         /\ WithFrames(c, f).reset = c.reset
         /\ c.frames = f => WithFrames(c, f) = c
         /\ \A h \in Seq(Frame) : WithFrames(WithFrames(c, f), h) = WithFrames(c, h)
<1>1. WithFrames(c, f) \in Chips
  BY ChipFields DEF WithFrames
<1>2. /\ WithFrames(c, f).frames = f
      /\ WithFrames(c, f).bytes = c.bytes /\ WithFrames(c, f).open = c.open
      /\ WithFrames(c, f).reset = c.reset
      /\ c.frames = f => WithFrames(c, f) = c
  BY DEF WithFrames, Chips
<1>3. \A h \in Seq(Frame) : WithFrames(WithFrames(c, f), h) = WithFrames(c, h)
  BY DEF WithFrames, Chips
<1> QED
  BY <1>1, <1>2, <1>3

(* Data goes to the last frame.                                            *)
LEMMA ClockedLast ==
  ASSUME NEW c \in Chips, c.open, NEW g \in Seq(Frame), NEW x \in Frame, c.frames = Append(g, x),
         NEW s \in Seq(Bytes)
  PROVE  Clocked(c, s) = WithFrames(c, Append(g, Longer(x, s)))
<1>0. Append(g, x) \in Seq(Frame) /\ Len(g) + 1 \in Nat
  BY AppendProperties, LenProperties
<1>1. PICK f \in Seq(Frame), n \in Nat : f = Append(g, x) /\ n = Len(g) + 1
  BY <1>0
<1>2. Len(f) = n /\ f[n] = x /\ n \in 1 .. n /\ \A i \in 1 .. n - 1 : f[i] = g[i]
  <2>1. Len(g) \in Nat /\ n - 1 = Len(g)
    BY <1>1, LenProperties
  <2> QED
    BY <1>1, <2>1, AppendProperties
<1>3. PICK y \in Frame : y = Longer(x, s)
  BY LongerIs
<1>5. [f EXCEPT ![n] = y] = Append(g, y)
  <2>1. PICK h : h = [f EXCEPT ![n] = y]
    OBVIOUS
  <2>2. h \in Seq(Frame) /\ Len(h) = Len(f) /\ \A i \in 1 .. Len(f) : h[i] = IF i = n THEN y ELSE f[i]
    <3>1. n \in 1 .. Len(f)
      BY <1>2
    <3>2. /\ [f EXCEPT ![n] = y] \in Seq(Frame) /\ Len([f EXCEPT ![n] = y]) = Len(f)
          /\ \A i \in 1 .. Len(f) : [f EXCEPT ![n] = y][i] = IF i = n THEN y ELSE f[i]
      <4>1. f \in Seq(Frame) /\ y \in Frame
        BY <1>1, <1>3
      <4>2. DOMAIN f = 1 .. Len(f)
        BY <4>1, LenProperties
      <4>3. [f EXCEPT ![n] = y] \in Seq(Frame)
        BY <3>1, <4>1, ExceptSeq
      <4>4. Len([f EXCEPT ![n] = y]) = Len(f)
        BY <3>1, <4>1, ExceptSeq
      <4>5. \A i \in 1 .. Len(f) : [f EXCEPT ![n] = y][i] = IF i = n THEN y ELSE f[i]
        BY <3>1, <4>2, Zenon
      <4> QED
        BY <4>3, <4>4, <4>5
    <3> QED
      BY <2>1, <3>2
  <2>3. PICK k : k = Append(g, y)
    OBVIOUS
  <2>5. k \in Seq(Frame) /\ Len(k) = n /\ k[n] = y /\ \A i \in 1 .. Len(g) : k[i] = g[i]
    BY <1>1, <1>3, <2>3, AppendProperties
  <2>4. ASSUME NEW i \in 1 .. n PROVE h[i] = k[i]
    <3>1. (i \in 1 .. n - 1 /\ i \in 1 .. Len(g) /\ i # n) \/ i = n
      BY <1>1, LenProperties
    <3> QED
      BY <1>2, <2>2, <2>5, <3>1
  <2>6. Len(h) = n /\ \A i \in 1 .. Len(h) : h[i] = k[i]
    BY <1>2, <2>2, <2>4
  <2>7. h = k
    BY <2>2, <2>5, <2>6, SeqEqual
  <2> QED
    BY <2>1, <2>3, <2>7
<1>6. c.frames # <<>>
  BY <1>1, <1>2, EmptySeq
<1>7. Clocked(c, s) = [c EXCEPT !.frames = [f EXCEPT ![n] = [f[n] EXCEPT !.data = @ \o s]]]
  <2>1. Clocked(c, s) = [c EXCEPT !.frames = [c.frames EXCEPT ![Len(c.frames)] =
                                     [c.frames[Len(c.frames)] EXCEPT !.data = @ \o s]]]
    BY <1>6, ClockedIs
  <2>2. c.frames = f /\ Len(f) = n
    BY <1>1, <1>2
  <2> QED
    BY <2>1, <2>2, Zenon
<1>8. [f[n] EXCEPT !.data = @ \o s] = y
  BY <1>2, <1>3, Zenon DEF Longer
<1>9. Clocked(c, s) = [c EXCEPT !.frames = Append(g, y)]
  BY <1>5, <1>7, <1>8, Zenon
<1> QED
  BY <1>3, <1>9 DEF WithFrames

(* The FPGA listens only within a frame.                                   *)
Framed(c) == c \in Chips /\ (c.open => c.frames # <<>>)

(* It keeps the frames and the command bytes in order.                     *)
LEMMA ClockedFramed ==
  ASSUME NEW c, Framed(c), NEW s \in Seq(Bytes), NEW t \in Seq(Bytes)
  PROVE  /\ Framed(Clocked(c, s)) /\ Clocked(c, s).bytes = c.bytes
         /\ Clocked(c, <<>>) = c
         /\ s \o t \in Seq(Bytes) /\ Clocked(Clocked(c, s), t) = Clocked(c, s \o t)
<1>1. c \in Chips /\ s \o t \in Seq(Bytes) /\ <<>> \in Seq(Bytes)
  BY EmptySeq, ConcatProperties DEF Framed
<1>2. Clocked(c, s) \in Chips /\ Clocked(c, s).bytes = c.bytes /\ Clocked(c, s).open = c.open
  BY <1>1, ClockedFields
<1>3. CASE ~c.open
  <2>1. \A u : Clocked(c, u) = c
    BY <1>3 DEF Clocked
  <2> QED
    BY <1>1, <1>2, <2>1
<1>4. CASE c.open
  <2>1. c.frames \in Seq(Frame) /\ c.frames # <<>>
    BY <1>1, <1>4, ChipFields DEF Framed
  <2>2. PICK g \in Seq(Frame), x \in Frame : c.frames = Append(g, x)
    BY <2>1, SequenceEnds
  <2>3. PICK y \in Frame, u \in Seq(Bytes), z \in Frame :
          y = Longer(x, s) /\ u = s \o t /\ z = Longer(y, t) /\ z = Longer(x, u)
    <3>1. Longer(x, s) \in Frame
      BY <2>2, LongerIs
    <3>2. PICK y \in Frame : y = Longer(x, s)
      BY <3>1
    <3>3. Longer(y, t) \in Frame
      BY <3>2, LongerIs
    <3>4. Longer(Longer(x, s), t) = Longer(x, s \o t)
      BY <2>2, LongerIs
    <3> QED
      BY <1>1, <3>2, <3>3, <3>4
  <2>4. PICK d : d = Clocked(c, s)
    OBVIOUS
  <2>5. Append(g, y) \in Seq(Frame) /\ Append(g, z) \in Seq(Frame)
    BY <2>2, <2>3, AppendProperties
  <2>6. d = WithFrames(c, Append(g, y))
    BY <1>1, <1>4, <2>2, <2>3, <2>4, ClockedLast
  <2>7. d \in Chips /\ d.open /\ d.frames = Append(g, y)
    BY <1>1, <1>4, <2>5, <2>6, WithFramesIs
  <2>8. Append(g, y) # <<>>
    <3>1. Len(Append(g, y)) = Len(g) + 1 /\ Len(g) \in Nat
      BY <2>2, <2>3, AppendProperties, LenProperties
    <3> QED
      BY <3>1, SMTT(30)
  <2>9. Clocked(c, <<>>) = c
    <3>1. PICK e : e = <<>>
      OBVIOUS
    <3>2. Longer(x, e) = x /\ e \in Seq(Bytes)
      BY <1>1, <2>2, <3>1, LongerIs
    <3>3. Clocked(c, e) = WithFrames(c, Append(g, Longer(x, e)))
      BY <1>1, <1>4, <2>2, <3>2, ClockedLast
    <3> QED
      <4>1. Append(g, Longer(x, e)) = c.frames
        BY <2>2, <3>2
      <4>2. WithFrames(c, c.frames) = c
        BY <1>1, <2>1, WithFramesIs
      <4> QED
        BY <3>1, <3>3, <4>1, <4>2
  <2>11. Clocked(d, t) = Clocked(c, u)
    <3>1. Clocked(d, t) = WithFrames(d, Append(g, Longer(y, t)))
      BY <2>2, <2>3, <2>7, ClockedLast
    <3>2. Clocked(c, u) = WithFrames(c, Append(g, Longer(x, u)))
      BY <1>1, <1>4, <2>2, <2>3, ClockedLast
    <3>3. WithFrames(d, Append(g, z)) = WithFrames(c, Append(g, z))
      BY <1>1, <2>5, <2>6, WithFramesIs
    <3> QED
      BY <2>3, <3>1, <3>2, <3>3
  <2>10. Framed(d)
    BY <2>7, <2>8 DEF Framed
  <2> QED
    BY <1>1, <1>2, <2>3, <2>4, <2>9, <2>10, <2>11
<1> QED
  BY <1>3, <1>4

(* One transfer clocks its data out.                                       *)
LEMMA LeadsSpi ==
  ASSUME NEW c, Framed(c), c.bytes = <<>>, NEW data \in Seq(Bytes), data = <<>> \/ Len(data) \in Lengths
  PROVE  Leads(SendSpi(data), c, Clocked(c, data))
<1>1. c \in Chips
  BY DEF Framed
<1>2. CASE data = <<>>
  <2>1. Clocked(c, data) = c
    BY <1>2, ClockedFramed
  <2>2. SendSpi(data) = <<>>
    BY <1>2 DEF SendSpi
  <2> QED
    BY <1>1, <2>1, <2>2, LeadsNowhere
<1>3. CASE data # <<>>
  <2>1. PICK n \in Lengths : n = Len(data)
    BY <1>3
  <2>2. PICK h \in Seq(Bytes) : h = SpiHeader(n)
    BY HeaderIs
  <2>3. PICK b \in Seq(Bytes) : b = h \o data
    BY <2>2, ConcatProperties
  <2>4. SendSpi(data) = SendBytes(b)
    BY <1>3, <2>1, <2>2, <2>3 DEF SendSpi, SpiHeader, Transfer
  <2>5. Taken(c, b) = Clocked(c, data)
    BY <1>1, <2>1, <2>2, <2>3, SpiTaken
  <2>6. Clocked(c, data) \in Chips
    BY <1>1, ClockedFields
  <2>7. Leads(SendBytes(b), c, Clocked(c, data))
    BY <2>3, <2>5, <2>6, LeadsSend, SameChip
  <2> QED
    BY <2>4, <2>7
<1> QED
  BY <1>2, <1>3

(* The pieces of a transfer.                                               *)
Upto(data, i) == IF i = Pieces(Len(data)) THEN Len(data) ELSE i * SpiChunk
Piece(data, i) == SubSeq(data, (i - 1) * SpiChunk + 1, Upto(data, i))

(* The size of a piece can be written in a header.                         *)
LEMMA ChunkIs == SpiChunk \in Nat \ {0} /\ \A n \in 1 .. SpiChunk : n \in Lengths
<1>1. SpiChunk \in Lengths
  BY FtdiAssumption, SMTT(30) DEF Lengths
<1>2. SpiChunk \in Nat \ {0}
  BY <1>1, LengthIs
<1>3. ASSUME NEW n \in 1 .. SpiChunk PROVE n \in Lengths
  BY <1>1, <1>2, SMTT(30) DEF Lengths
<1> QED
  BY <1>2, <1>3

(* How many pieces there are, and where they end.                          *)
LEMMA PiecesAre ==
  ASSUME NEW n \in Nat
  PROVE  /\ Pieces(n) \in Nat
         /\ n = 0 => Pieces(n) = 0
         /\ n # 0 => Pieces(n) # 0
         /\ (Pieces(n) - 1) * SpiChunk \in Int /\ Pieces(n) * SpiChunk \in Int
         /\ n # 0 => (Pieces(n) - 1) * SpiChunk < n
         /\ n <= Pieces(n) * SpiChunk
         /\ (Pieces(n) - 1) * SpiChunk = Pieces(n) * SpiChunk - SpiChunk
<1>1. PICK c \in Nat \ {0} : c = SpiChunk
  BY ChunkIs
<1>2. PICK m \in Nat : m = n + c - 1
  BY <1>1
<1>3. PICK p \in Nat : p = m \div c /\ p = Pieces(n) /\ p * c <= m /\ m < p * c + c
  BY <1>1, <1>2, Quotient DEF Pieces
<1>4. PICK a, b : a = p * c /\ b = (p - 1) * c
  OBVIOUS
<1>5. a \in Int /\ b = a - c
  BY <1>1, <1>3, <1>4, Product
<1>6. b \in Int /\ b < n /\ n <= a
  BY <1>1, <1>2, <1>3, <1>4, <1>5
<1>7. n = 0 => p = 0
  <2>1. SUFFICES ASSUME n = 0, p >= 1 PROVE FALSE
    BY <1>3
  <2>2. 1 * c <= p * c
    BY <1>1, <1>3, <2>1, Products
  <2>3. 1 * c = c
    BY <1>1
  <2> QED
    BY <1>1, <1>2, <1>3, <1>4, <1>5, <2>1, <2>2, <2>3
<1>8. n # 0 => p # 0
  <2>1. SUFFICES ASSUME n # 0, p = 0 PROVE FALSE
    OBVIOUS
  <2>2. 0 * c = 0
    BY <1>1
  <2> QED
    BY <1>4, <1>6, <2>1, <2>2
<1> QED
  BY <1>1, <1>3, <1>4, <1>5, <1>6, <1>7, <1>8

(* A piece is not empty and no longer than SpiChunk, and continues the     *)
(* data.                                                                   *)
LEMMA PieceIs ==
  ASSUME NEW data \in Seq(Bytes), NEW i \in 1 .. Pieces(Len(data))
  PROVE  /\ Piece(data, i) \in Seq(Bytes) /\ Len(Piece(data, i)) \in Lengths
         /\ Upto(data, i) \in 0 .. Len(data)
         /\ SubSeq(data, 1, Upto(data, i)) \in Seq(Bytes)
         /\ SubSeq(data, 1, Upto(data, i)) = SubSeq(data, 1, (i - 1) * SpiChunk) \o Piece(data, i)
         /\ (i - 1) * SpiChunk = IF i = 1 THEN 0 ELSE Upto(data, i - 1)
<1>1. PICK c \in Nat \ {0} : c = SpiChunk /\ \A n \in 1 .. c : n \in Lengths
  BY ChunkIs
<1>2. PICK n \in Nat, p \in Nat : n = Len(data) /\ p = Pieces(n)
  BY LenProperties, PiecesAre
<1>3. i \in 1 .. p /\ i \in Nat /\ i - 1 \in Nat /\ i <= p
  BY <1>2
<1>4. p # 0 /\ n # 0
  <2>1. p # 0
    BY <1>3
  <2>2. n = 0 => Pieces(n) = 0
    BY <1>2, PiecesAre
  <2> QED
    BY <1>2, <2>1, <2>2
<1>5. (p - 1) * c < n /\ n <= p * c /\ (p - 1) * c \in Int /\ p * c \in Int /\ (p - 1) * c = p * c - c
  BY <1>1, <1>2, <1>4, PiecesAre
<1>6. PICK a : a = (i - 1) * c
  OBVIOUS
<1>7. PICK b : b = Upto(data, i)
  OBVIOUS
<1>8. i * c \in Int /\ a = i * c - c /\ a \in Int
  BY <1>1, <1>3, <1>6, Product
<1>9. a >= 0
  <2>1. 0 * c <= (i - 1) * c
    BY <1>1, <1>3, Products
  <2>2. 0 * c = 0
    BY <1>1
  <2> QED
    BY <1>6, <2>1, <2>2
<1>10. b \in Nat /\ b <= n /\ a < b /\ b - a <= c
  <2>1. CASE i = p
    <3>1. b = n
      BY <1>2, <1>7, <2>1 DEF Upto
    <3>2. a = (p - 1) * c
      BY <1>6, <2>1
    <3>3. n - (p - 1) * c <= c
      BY <1>1, <1>2, <1>5
    <3> QED
      BY <1>2, <1>5, <3>1, <3>2, <3>3
  <2>2. CASE i # p
    <3>1. b = i * c
      BY <1>1, <1>2, <1>7, <2>2 DEF Upto
    <3>2. i <= p - 1 /\ p - 1 \in Int
      BY <1>2, <1>3, <2>2
    <3>3. i * c <= (p - 1) * c
      BY <1>1, <1>3, <3>2, Products
    <3> QED
      BY <1>1, <1>2, <1>5, <1>8, <1>9, <3>1, <3>3
  <2> QED
    BY <2>1, <2>2
<1>11. a \in Nat /\ a <= b /\ b \in 0 .. n /\ b - a \in 1 .. c
  BY <1>1, <1>2, <1>8, <1>9, <1>10
<1>12. /\ SubSeq(data, 1, a) \in Seq(Bytes) /\ SubSeq(data, a + 1, b) \in Seq(Bytes)
       /\ Len(SubSeq(data, a + 1, b)) = b - a
       /\ SubSeq(data, 1, a) \o SubSeq(data, a + 1, b) = SubSeq(data, 1, b)
  BY <1>2, <1>10, <1>11, Parts
<1>13. SubSeq(data, 1, b) \in Seq(Bytes)
  BY <1>12, ConcatProperties
<1>14. Piece(data, i) = SubSeq(data, a + 1, b)
  BY <1>1, <1>6, <1>7 DEF Piece
<1>15. a = IF i = 1 THEN 0 ELSE Upto(data, i - 1)
  <2>1. CASE i = 1
    <3>1. (1 - 1) * c = 0
      BY <1>1
    <3> QED
      BY <1>6, <2>1, <3>1
  <2>2. CASE i # 1
    <3>1. i - 1 # p
      BY <1>2, <1>3
    <3>2. Upto(data, i - 1) = (i - 1) * c
      BY <1>1, <1>2, <3>1 DEF Upto
    <3> QED
      BY <1>6, <2>2, <3>2
  <2> QED
    BY <2>1, <2>2
<1>16. b - a \in Lengths
  BY <1>1, <1>11
<1> QED
  BY <1>1, <1>2, <1>6, <1>7, <1>11, <1>12, <1>13, <1>14, <1>15, <1>16

(* What has been sent after the first k pieces.                            *)
SpiPieces(data, k) == [i \in 1 .. k |-> SendSpi(Piece(data, i))]

(* The steps of the pieces, a piece at a time.                             *)
LEMMA SpiPiecesAre ==
  ASSUME NEW c, Framed(c), c.bytes = <<>>, NEW data \in Seq(Bytes),
         NEW k \in Nat, k <= Pieces(Len(data))
  PROVE  /\ SpiPieces(data, k) \in Seq(Seq(Silent)) /\ Len(SpiPieces(data, k)) = k
         /\ k # 0 => SpiPieces(data, k) = Append(SpiPieces(data, k - 1), SendSpi(Piece(data, k)))
<1>1. ASSUME NEW j \in Nat, j <= Pieces(Len(data))
      PROVE  /\ SpiPieces(data, j) \in Seq(Seq(Silent)) /\ Len(SpiPieces(data, j)) = j
             /\ \A i \in 1 .. j : SpiPieces(data, j)[i] = SendSpi(Piece(data, i))
             /\ \A i \in 1 .. j : SendSpi(Piece(data, i)) \in Seq(Silent)
  <2>1. ASSUME NEW i \in 1 .. j PROVE SendSpi(Piece(data, i)) \in Seq(Silent)
    <3>1. i \in 1 .. Pieces(Len(data))
      BY <1>1, LenProperties, PiecesAre
    <3>2. Piece(data, i) \in Seq(Bytes) /\ Len(Piece(data, i)) \in Lengths
      BY <3>1, PieceIs
    <3>3. Leads(SendSpi(Piece(data, i)), c, Clocked(c, Piece(data, i)))
      BY <3>2, LeadsSpi
    <3> QED
      BY <3>3 DEF Leads
  <2>2. PICK r : r = SpiPieces(data, j)
    OBVIOUS
  <2>3. r \in [1 .. j -> Seq(Silent)] /\ \A i \in 1 .. j : r[i] = SendSpi(Piece(data, i))
    BY <2>1, <2>2 DEF SpiPieces
  <2>4. r \in Seq(Seq(Silent)) /\ Len(r) = j
    BY <2>3, SeqDef, LenProperties
  <2> QED
    BY <2>1, <2>2, <2>3, <2>4
<1>2. ASSUME k # 0 PROVE SpiPieces(data, k) = Append(SpiPieces(data, k - 1), SendSpi(Piece(data, k)))
  <2>1. PICK j \in Nat : j = k - 1
    BY <1>2
  <2>2. j <= Pieces(Len(data)) /\ k \in 1 .. k
    BY <1>2, <2>1, LenProperties, PiecesAre
  <2>3. PICK r, q, e : r = SpiPieces(data, k) /\ q = SpiPieces(data, j) /\ e = SendSpi(Piece(data, k))
    OBVIOUS
  <2>4. /\ r \in Seq(Seq(Silent)) /\ Len(r) = k /\ \A i \in 1 .. k : r[i] = SendSpi(Piece(data, i))
        /\ e \in Seq(Silent)
    BY <1>1, <2>2, <2>3
  <2>5. q \in Seq(Seq(Silent)) /\ Len(q) = j /\ \A i \in 1 .. j : q[i] = SendSpi(Piece(data, i))
    BY <1>1, <2>2, <2>3
  <2>6. PICK a : a = Append(q, e)
    OBVIOUS
  <2>7. a \in Seq(Seq(Silent)) /\ Len(a) = k /\ a[k] = e /\ \A i \in 1 .. j : a[i] = q[i]
    BY <2>1, <2>4, <2>5, <2>6, AppendProperties
  <2>8. ASSUME NEW i \in 1 .. k PROVE r[i] = a[i]
    <3>1. i \in 1 .. j \/ i = k
      BY <2>1
    <3> QED
      BY <2>3, <2>4, <2>5, <2>7, <3>1
  <2>9. r = a
    BY <2>4, <2>7, <2>8, SeqEqual
  <2> QED
    BY <2>1, <2>3, <2>6, <2>9
<1> QED
  BY <1>1, <1>2

(* The pieces together clock the data out, whatever its length.            *)
LEMMA LeadsPieces ==
  ASSUME NEW c, Framed(c), c.bytes = <<>>, NEW data \in Seq(Bytes)
  PROVE  Leads(SendSpiChunked(data), c, Clocked(c, data))
<1>1. PICK n \in Nat, p \in Nat : n = Len(data) /\ p = Pieces(n)
  BY LenProperties, PiecesAre
<1> DEFINE U(k) == IF k = 0 THEN 0 ELSE Upto(data, k)
           S(k) == FlattenSeq(SpiPieces(data, k))
           N == {k \in Nat : k <= p => Leads(S(k), c, Clocked(c, SubSeq(data, 1, U(k))))}
<1>2. 0 \in N
  <2>1. SpiPieces(data, 0) = <<>>
    BY DEF SpiPieces
  <2>2. SubSeq(data, 1, 0) = <<>> /\ U(0) = 0
    BY <1>1
  <2>3. Clocked(c, <<>>) = c
    BY ClockedFramed, EmptySeq
  <2>4. Leads(<<>>, c, c)
    BY LeadsNowhere DEF Framed
  <2>5. S(0) = <<>>
    BY <2>1, FlattenEmpty
  <2> QED
    BY <2>2, <2>3, <2>4, <2>5
<1>3. ASSUME NEW k \in Nat, k \in N PROVE k + 1 \in N
  <2>1. SUFFICES ASSUME k + 1 <= p PROVE Leads(S(k + 1), c, Clocked(c, SubSeq(data, 1, U(k + 1))))
    OBVIOUS
  <2>2. PICK j \in Nat : j = k + 1
    OBVIOUS
  <2>3. j \in 1 .. p /\ j # 0 /\ j - 1 = k /\ k <= p /\ j <= p
    BY <2>1, <2>2
  <2>4. PICK a, b, u : a = SubSeq(data, 1, U(k)) /\ b = Piece(data, j) /\ u = SubSeq(data, 1, U(j))
    OBVIOUS
  <2>5. U(k) = (j - 1) * SpiChunk /\ U(j) = Upto(data, j)
    <3>1. (j - 1) * SpiChunk = IF j = 1 THEN 0 ELSE Upto(data, j - 1)
      BY <1>1, <2>3, PieceIs
    <3> QED
      BY <2>2, <2>3, <3>1
  <2>6. b \in Seq(Bytes) /\ Len(b) \in Lengths /\ u = a \o b
    BY <1>1, <2>3, <2>4, <2>5, PieceIs
  <2>7. a \in Seq(Bytes)
    <3>1. CASE k = 0
      BY <1>1, <2>4, <3>1, EmptySeq
    <3>2. CASE k # 0
      <4>1. k \in 1 .. p
        BY <2>3, <3>2
      <4> QED
        BY <1>1, <2>4, <3>2, <4>1, PieceIs
    <3> QED
      BY <3>1, <3>2
  <2>8. Leads(S(k), c, Clocked(c, a))
    BY <1>3, <2>3, <2>4
  <2>9. PICK d : d = Clocked(c, a)
    OBVIOUS
  <2>10. Framed(d) /\ d.bytes = <<>> /\ Clocked(d, b) = Clocked(c, u)
    BY <2>6, <2>7, <2>9, ClockedFramed
  <2>11. Leads(SendSpi(b), d, Clocked(d, b))
    BY <2>6, <2>10, LeadsSpi
  <2>12. S(j) = S(k) \o SendSpi(b)
    <3>1. SpiPieces(data, k) \in Seq(Seq(Silent))
      BY <1>1, <2>3, SpiPiecesAre
    <3>2. SpiPieces(data, j) = Append(SpiPieces(data, k), SendSpi(b))
      BY <1>1, <2>3, <2>4, SpiPiecesAre
    <3>3. SendSpi(b) \in Seq(Silent)
      BY <2>11 DEF Leads
    <3>4. FlattenSeq(Append(SpiPieces(data, k), SendSpi(b))) = S(k) \o SendSpi(b)
      BY <3>1, <3>3, FlattenAppend
    <3> QED
      BY <3>2, <3>4
  <2> HIDE DEF S, U, N
  <2>13. Leads(S(k) \o SendSpi(b), c, Clocked(d, b))
    BY <2>8, <2>9, <2>11, LeadsOn
  <2> QED
    BY <2>2, <2>4, <2>10, <2>12, <2>13
<1>4. Nat \subseteq N
  <2> HIDE DEF N
  <2> QED
    BY <1>2, <1>3, Induction
<1>5. Leads(S(p), c, Clocked(c, SubSeq(data, 1, U(p))))
  <2>1. p \in N
    BY <1>4
  <2> QED
    BY <2>1
<1>6. SubSeq(data, 1, U(p)) = data
  <2>1. U(p) = n
    <3>1. CASE p = 0
      <4>1. n = 0
        BY <1>1, <3>1, PiecesAre
      <4> QED
        BY <3>1, <4>1
    <3>2. CASE p # 0
      BY <1>1, <3>2 DEF Upto
    <3> QED
      BY <3>1, <3>2
  <2>2. SubSeq(data, 1, n) = data
    BY <1>1
  <2> QED
    BY <2>1, <2>2
<1>7. SendSpiChunked(data) = S(p)
  BY <1>1 DEF SendSpiChunked, SpiPieces, Piece, Upto
<1> QED
  BY <1>5, <1>6, <1>7

Asked == Requests \cup {Ping}

(* What is assumed of requests holds of the ping as well.                  *)
LEMMA AskedAre ==
  \A r \in Asked : /\ r.cmd \in Nat /\ r.reply \in Nat /\ r.data \in Seq(Bytes)
                   /\ r.cmd = 0 => r.data \in Seq(OneByte)
<1> SUFFICES ASSUME NEW r \in Asked
             PROVE  /\ r.cmd \in Nat /\ r.reply \in Nat /\ r.data \in Seq(Bytes)
                    /\ r.cmd = 0 => r.data \in Seq(OneByte)
  OBVIOUS
<1>1. CASE r \in Requests
  <2>1. Requests \subseteq [cmd : Nat, reply : Nat, data : Seq(Bytes)]
    BY FtdiAssumption, Zenon DEF Bytes
  <2>2. \A q \in Requests : q.cmd = 0 => q.data \in Seq(OneByte)
    BY FtdiAssumption, Zenon
  <2> QED
    BY <1>1, <2>1, <2>2
<1>2. CASE r = Ping
  BY <1>2, EmptySeq DEF Ping
<1> QED
  BY <1>1, <1>2 DEF Asked

(* DataOf, Transfers, Bitstreams and Configurations, an element at a time. *)
LEMMA DataOfNext ==
  /\ DataOf(<<>>) = <<>>
  /\ \A f \in Seq(Frame), x \in Frame :
       DataOf(f) \in Seq(Bytes) /\ DataOf(Append(f, x)) = DataOf(f) \o x.data
  /\ \A f \in Seq(Asked), x \in Asked :
       DataOf(f) \in Seq(Bytes) /\ DataOf(Append(f, x)) = DataOf(f) \o x.data
<1>1. ASSUME NEW S, \A x \in S : x.data \in Seq(Bytes), NEW f \in Seq(S), NEW x \in S
      PROVE  DataOf(f) \in Seq(Bytes) /\ DataOf(Append(f, x)) = DataOf(f) \o x.data
  <2> DEFINE m == [y \in S |-> y.data]
  <2>1. Maps(m, S, Bytes)
    BY <1>1 DEF Maps
  <2>5. m[x] = x.data
    OBVIOUS
  <2>2. ASSUME NEW r \in Seq(S) PROVE DataOf(r) = FlatMap(m, r)
    <3>1. \A i \in DOMAIN r : r[i] \in S
      BY ElementOfSeq, LenProperties
    <3>2. [i \in DOMAIN r |-> r[i].data] = [i \in DOMAIN r |-> m[r[i]]]
      BY <3>1
    <3> QED
      BY <3>2, Zenon DEF DataOf, FlatMap
  <2> HIDE DEF m
  <2>3. FlatMap(m, f) \in Seq(Bytes) /\ FlatMap(m, Append(f, x)) = FlatMap(m, f) \o m[x]
    BY <2>1, FlatMapAppend
  <2>4. Append(f, x) \in Seq(S)
    BY AppendProperties
  <2> QED
    BY <2>2, <2>3, <2>4, <2>5
<1>2. DataOf(<<>>) = <<>>
  <2>1. [i \in DOMAIN <<>> |-> <<>>[i].data] = <<>>
    OBVIOUS
  <2> QED
    BY <2>1, FlattenEmpty DEF DataOf
<1>3. \A x \in Frame : x.data \in Seq(Bytes)
  BY DEF Frame
<1>4. \A x \in Asked : x.data \in Seq(Bytes)
  BY AskedAre
<1> QED
  BY <1>1, <1>2, <1>3, <1>4

(* The transfers of requests, one request more.                            *)
LEMMA TransfersNext ==
  /\ Transfers(<<>>) = <<>>
  /\ \A e \in Seq(Asked), r \in Asked :
       /\ Transfers(e) \in Seq(Asked)
       /\ r.cmd \in {1, 2} => Transfers(Append(e, r)) = Append(Transfers(e), r)
       /\ r.cmd \notin {1, 2} => Transfers(Append(e, r)) = Transfers(e)
<1>1. ASSUME NEW e \in Seq(Asked), NEW r \in Asked
      PROVE  /\ Transfers(e) \in Seq(Asked)
             /\ r.cmd \in {1, 2} => Transfers(Append(e, r)) = Append(Transfers(e), r)
             /\ r.cmd \notin {1, 2} => Transfers(Append(e, r)) = Transfers(e)
  <2> DEFINE m == [y \in Asked |-> IF y.cmd \in {1, 2} THEN <<y>> ELSE <<>>]
  <2>1. Maps(m, Asked, Asked)
    <3>1. \A y \in Asked : <<y>> \in Seq(Asked) /\ <<>> \in Seq(Asked)
      BY EmptySeq
    <3> QED
      BY <3>1 DEF Maps
  <2>2. ASSUME NEW q \in Seq(Asked) PROVE Transfers(q) = FlatMap(m, q)
    <3>1. \A i \in DOMAIN q : q[i] \in Asked
      BY ElementOfSeq, LenProperties
    <3>2. [i \in DOMAIN q |-> IF q[i].cmd \in {1, 2} THEN <<q[i]>> ELSE <<>>] = [i \in DOMAIN q |-> m[q[i]]]
      BY <3>1
    <3> QED
      BY <3>2, Zenon DEF Transfers, FlatMap
  <2>3. m[r] = IF r.cmd \in {1, 2} THEN <<r>> ELSE <<>>
    OBVIOUS
  <2> HIDE DEF m
  <2>4. FlatMap(m, e) \in Seq(Asked) /\ FlatMap(m, Append(e, r)) = FlatMap(m, e) \o m[r]
    BY <2>1, FlatMapAppend
  <2>5. Append(e, r) \in Seq(Asked)
    BY AppendProperties
  <2>6. PICK f \in Seq(Asked) : f = Transfers(e)
    BY <2>2, <2>4
  <2>7. f \o <<r>> = Append(f, r) /\ f \o <<>> = f
    BY <2>6, ConcatEmptySeq
  <2>8. Transfers(Append(e, r)) = f \o m[r]
    BY <2>2, <2>4, <2>5, <2>6
  <2> QED
    BY <2>3, <2>6, <2>7, <2>8
<1>2. Transfers(<<>>) = <<>>
  <2>1. [i \in DOMAIN <<>> |-> IF <<>>[i].cmd \in {1, 2} THEN <<<<>>[i]>> ELSE <<>>] = <<>>
    OBVIOUS
  <2> QED
    BY <2>1, FlattenEmpty DEF Transfers
<1> QED
  BY <1>1, <1>2

(* The bitstreams, one request more.                                       *)
LEMMA BitstreamsNext ==
  /\ Bitstreams(<<>>) = <<>>
  /\ \A e \in Seq(Asked), r \in Asked :
       /\ Bitstreams(e) \in Seq(Asked)
       /\ r.cmd = 2 => Bitstreams(Append(e, r)) = Append(Bitstreams(e), r)
       /\ r.cmd # 2 => Bitstreams(Append(e, r)) = Bitstreams(e)
<1>1. ASSUME NEW e \in Seq(Asked), NEW r \in Asked
      PROVE  /\ Bitstreams(e) \in Seq(Asked)
             /\ r.cmd = 2 => Bitstreams(Append(e, r)) = Append(Bitstreams(e), r)
             /\ r.cmd # 2 => Bitstreams(Append(e, r)) = Bitstreams(e)
  <2> DEFINE m == [y \in Asked |-> IF y.cmd = 2 THEN <<y>> ELSE <<>>]
  <2>1. Maps(m, Asked, Asked)
    <3>1. \A y \in Asked : <<y>> \in Seq(Asked) /\ <<>> \in Seq(Asked)
      BY EmptySeq
    <3> QED
      BY <3>1 DEF Maps
  <2>2. ASSUME NEW q \in Seq(Asked) PROVE Bitstreams(q) = FlatMap(m, q)
    <3>1. \A i \in DOMAIN q : q[i] \in Asked
      BY ElementOfSeq, LenProperties
    <3>2. [i \in DOMAIN q |-> IF q[i].cmd = 2 THEN <<q[i]>> ELSE <<>>] = [i \in DOMAIN q |-> m[q[i]]]
      BY <3>1
    <3> QED
      BY <3>2, Zenon DEF Bitstreams, FlatMap
  <2>3. m[r] = IF r.cmd = 2 THEN <<r>> ELSE <<>>
    OBVIOUS
  <2> HIDE DEF m
  <2>4. FlatMap(m, e) \in Seq(Asked) /\ FlatMap(m, Append(e, r)) = FlatMap(m, e) \o m[r]
    BY <2>1, FlatMapAppend
  <2>5. Append(e, r) \in Seq(Asked)
    BY AppendProperties
  <2>6. PICK f \in Seq(Asked) : f = Bitstreams(e)
    BY <2>2, <2>4
  <2>7. f \o <<r>> = Append(f, r) /\ f \o <<>> = f
    BY <2>6, ConcatEmptySeq
  <2>8. Bitstreams(Append(e, r)) = f \o m[r]
    BY <2>2, <2>4, <2>5, <2>6
  <2> QED
    BY <2>3, <2>6, <2>7, <2>8
<1>2. Bitstreams(<<>>) = <<>>
  <2>1. [i \in DOMAIN <<>> |-> IF <<>>[i].cmd = 2 THEN <<<<>>[i]>> ELSE <<>>] = <<>>
    OBVIOUS
  <2> QED
    BY <2>1, FlattenEmpty DEF Bitstreams
<1> QED
  BY <1>1, <1>2

(* The configurations, one frame more.                                     *)
LEMMA ConfigurationsNext ==
  /\ Configurations(<<>>) = <<>>
  /\ \A f \in Seq(Frame), x \in Frame :
       /\ Configurations(f) \in Seq(Frame)
       /\ x.config => Configurations(Append(f, x)) = Append(Configurations(f), x)
       /\ ~x.config => Configurations(Append(f, x)) = Configurations(f)
<1>1. ASSUME NEW f \in Seq(Frame), NEW x \in Frame
      PROVE  /\ Configurations(f) \in Seq(Frame)
             /\ x.config => Configurations(Append(f, x)) = Append(Configurations(f), x)
             /\ ~x.config => Configurations(Append(f, x)) = Configurations(f)
  <2> DEFINE m == [y \in Frame |-> IF y.config THEN <<y>> ELSE <<>>]
  <2>1. Maps(m, Frame, Frame)
    <3>1. \A y \in Frame : <<y>> \in Seq(Frame) /\ <<>> \in Seq(Frame)
      BY EmptySeq
    <3> QED
      BY <3>1 DEF Maps
  <2>2. ASSUME NEW q \in Seq(Frame) PROVE Configurations(q) = FlatMap(m, q)
    <3>1. \A i \in DOMAIN q : q[i] \in Frame
      BY ElementOfSeq, LenProperties
    <3>2. [i \in DOMAIN q |-> IF q[i].config THEN <<q[i]>> ELSE <<>>] = [i \in DOMAIN q |-> m[q[i]]]
      BY <3>1
    <3> QED
      BY <3>2, Zenon DEF Configurations, FlatMap
  <2>3. m[x] = IF x.config THEN <<x>> ELSE <<>>
    OBVIOUS
  <2> HIDE DEF m
  <2>4. FlatMap(m, f) \in Seq(Frame) /\ FlatMap(m, Append(f, x)) = FlatMap(m, f) \o m[x]
    BY <2>1, FlatMapAppend
  <2>5. Append(f, x) \in Seq(Frame)
    BY AppendProperties
  <2>6. PICK g \in Seq(Frame) : g = Configurations(f)
    BY <2>2, <2>4
  <2>7. g \o <<x>> = Append(g, x) /\ g \o <<>> = g
    BY <2>6, ConcatEmptySeq
  <2>8. Configurations(Append(f, x)) = g \o m[x]
    BY <2>2, <2>4, <2>5, <2>6
  <2> QED
    BY <2>3, <2>6, <2>7, <2>8
<1>2. Configurations(<<>>) = <<>>
  <2>1. [i \in DOMAIN <<>> |-> IF <<>>[i].config THEN <<<<>>[i]>> ELSE <<>>] = <<>>
    OBVIOUS
  <2> QED
    BY <2>1, FlattenEmpty DEF Configurations
<1> QED
  BY <1>1, <1>2

(* What the FPGA got are the requests e.                                   *)
DataAgrees(f, e) == DataOf(f) = DataOf(Transfers(e))

StreamsAgree(f, e) ==
  /\ Len(Configurations(f)) = Len(Bitstreams(e))
  /\ \A i \in DOMAIN Bitstreams(e) : IsPrefix(Bitstreams(e)[i].data, Configurations(f)[i].data)

Agree(f, e) == DataAgrees(f, e) /\ StreamsAgree(f, e)

(* At the beginning nothing was asked and nothing came.                    *)
LEMMA AgreeEmpty == Agree(<<>>, <<>>)
<1>1. PICK f : f = <<>>
  OBVIOUS
<1>2. DataOf(f) = f /\ Transfers(f) = f /\ Bitstreams(f) = f /\ Configurations(f) = f
  BY <1>1, DataOfNext, TransfersNext, BitstreamsNext, ConfigurationsNext
<1>3. DOMAIN f = {}
  BY <1>1
<1> QED
  BY <1>1, <1>2, <1>3 DEF Agree, DataAgrees, StreamsAgree

(* A request which is no transfer.                                         *)
LEMMA AgreeOther ==
  ASSUME NEW f \in Seq(Frame), NEW e \in Seq(Asked), Agree(f, e), NEW r \in Asked, r.cmd \notin {1, 2}
  PROVE  Agree(f, Append(e, r))
<1>1. Transfers(Append(e, r)) = Transfers(e)
  BY TransfersNext
<1>2. Bitstreams(Append(e, r)) = Bitstreams(e)
  BY BitstreamsNext
<1> QED
  BY <1>1, <1>2 DEF Agree, DataAgrees, StreamsAgree

(* A transfer whose data came.                                             *)
LEMMA DataTransferred ==
  ASSUME NEW f \in Seq(Frame), NEW e \in Seq(Asked), Agree(f, e), NEW r \in Asked, r.cmd \in {1, 2},
         NEW g \in Seq(Frame), DataOf(g) = DataOf(f) \o r.data
  PROVE  DataAgrees(g, Append(e, r))
<1>1. PICK t \in Seq(Asked) : t = Transfers(e)
  BY TransfersNext
<1>2. Transfers(Append(e, r)) = Append(t, r)
  BY <1>1, TransfersNext
<1>3. DataOf(Append(t, r)) = DataOf(t) \o r.data
  BY DataOfNext
<1>4. DataOf(f) = DataOf(t)
  BY <1>1 DEF Agree, DataAgrees
<1> QED
  BY <1>2, <1>3, <1>4 DEF DataAgrees

(* A transfer that is a frame of its own.                                  *)
LEMMA AgreeNew ==
  ASSUME NEW f \in Seq(Frame), NEW e \in Seq(Asked), Agree(f, e), NEW r \in Asked, r.cmd \in {1, 2},
         NEW x \in Frame, x.data = r.data, x.config <=> r.cmd = 2
  PROVE  Append(f, x) \in Seq(Frame) /\ Agree(Append(f, x), Append(e, r))
<1>1. Append(f, x) \in Seq(Frame)
  BY AppendProperties
<1>2. DataAgrees(Append(f, x), Append(e, r))
  <2>1. DataOf(Append(f, x)) = DataOf(f) \o r.data
    BY DataOfNext
  <2> QED
    BY <1>1, <2>1, DataTransferred
<1>3. PICK b \in Seq(Asked), c \in Seq(Frame) : b = Bitstreams(e) /\ c = Configurations(f)
  BY BitstreamsNext, ConfigurationsNext
<1>4. PICK n \in Nat : n = Len(b)
  BY LenProperties
<1>5. Len(c) = n /\ \A i \in 1 .. n : IsPrefix(b[i].data, c[i].data)
  <2>1. DOMAIN b = 1 .. n
    BY <1>3, <1>4, LenProperties
  <2> QED
    BY <1>3, <1>4, <2>1 DEF Agree, StreamsAgree
<1>6. CASE r.cmd = 2
  <2>1. Bitstreams(Append(e, r)) = Append(b, r)
    BY <1>3, <1>6, BitstreamsNext
  <2>2. Configurations(Append(f, x)) = Append(c, x)
    BY <1>3, <1>6, ConfigurationsNext
  <2>3. PICK s, t : s = Append(b, r) /\ t = Append(c, x)
    OBVIOUS
  <2>4. s \in Seq(Asked) /\ Len(s) = n + 1 /\ s[n + 1] = r /\ \A i \in 1 .. n : s[i] = b[i]
    BY <1>3, <1>4, <2>3, AppendProperties
  <2>5. t \in Seq(Frame) /\ Len(t) = n + 1 /\ t[n + 1] = x /\ \A i \in 1 .. n : t[i] = c[i]
    BY <1>3, <1>5, <2>3, AppendProperties, SMTT(30)
  <2>6. ASSUME NEW i \in 1 .. n + 1 PROVE IsPrefix(s[i].data, t[i].data)
    <3>1. CASE i \in 1 .. n
      <4>1. s[i] = b[i] /\ t[i] = c[i]
        BY <2>4, <2>5, <3>1
      <4> QED
        BY <1>5, <3>1, <4>1
    <3>2. CASE i = n + 1
      <4>1. r.data \in Seq(Bytes)
        BY AskedAre
      <4>2. IsPrefix(r.data, r.data)
        BY <4>1, PrefixSelf
      <4>3. s[i] = r /\ t[i] = x
        BY <2>4, <2>5, <3>2
      <4> QED
        BY <4>2, <4>3
    <3> QED
      BY <1>4, <3>1, <3>2
  <2>7. DOMAIN s = 1 .. n + 1
    BY <2>4, LenProperties
  <2>8. StreamsAgree(Append(f, x), Append(e, r))
    BY <2>1, <2>2, <2>3, <2>4, <2>5, <2>6, <2>7 DEF StreamsAgree
  <2> QED
    BY <1>1, <1>2, <2>8 DEF Agree
<1>7. CASE r.cmd # 2
  <2>1. Bitstreams(Append(e, r)) = Bitstreams(e)
    BY <1>7, BitstreamsNext
  <2>2. Configurations(Append(f, x)) = Configurations(f)
    BY <1>7, ConfigurationsNext
  <2> QED
    BY <1>1, <1>2, <2>1, <2>2 DEF Agree, StreamsAgree
<1> QED
  BY <1>6, <1>7

(* A transfer that continues the last frame.                               *)
LEMMA AgreeLonger ==
  ASSUME NEW g \in Seq(Frame), NEW x \in Frame, NEW e \in Seq(Asked), Agree(Append(g, x), e),
         NEW r \in Asked, r.cmd = 1
  PROVE  /\ Append(g, Longer(x, r.data)) \in Seq(Frame)
         /\ Agree(Append(g, Longer(x, r.data)), Append(e, r))
<1>1. PICK d \in Seq(Bytes) : d = r.data
  BY AskedAre
<1>2. PICK y \in Frame : y = Longer(x, d) /\ y.config = x.config /\ y.data = x.data \o d
  BY LongerIs
<1>3. PICK f \in Seq(Frame), h \in Seq(Frame) : f = Append(g, x) /\ h = Append(g, y)
  BY AppendProperties
<1>4. DataAgrees(h, Append(e, r))
  <2>1. PICK a \in Seq(Bytes), b \in Seq(Bytes) : a = DataOf(g) /\ b = x.data
    BY DataOfNext DEF Frame
  <2>2. DataOf(f) = a \o b
    BY <1>3, <2>1, DataOfNext
  <2>3. DataOf(h) = a \o (b \o d)
    BY <1>2, <1>3, <2>1, DataOfNext
  <2>4. (a \o b) \o d = a \o (b \o d)
    <3>1. a \in Seq(Bytes) /\ b \in Seq(Bytes) /\ d \in Seq(Bytes)
      BY <1>1, <2>1
    <3> QED
      BY <3>1, ConcatAssociative, SMTT(30)
  <2>5. DataOf(h) = DataOf(f) \o r.data
    BY <1>1, <2>2, <2>3, <2>4
  <2>6. f \in Seq(Frame) /\ h \in Seq(Frame) /\ Agree(f, e)
    BY <1>3
  <2> QED
    BY <2>5, <2>6, DataTransferred
<1>5. Bitstreams(Append(e, r)) = Bitstreams(e)
  BY BitstreamsNext
<1>6. StreamsAgree(f, e)
  BY <1>3 DEF Agree
<1>7. CASE ~x.config
  <2>1. Configurations(f) = Configurations(g) /\ Configurations(h) = Configurations(g)
    BY <1>2, <1>3, <1>7, ConfigurationsNext
  <2>2. StreamsAgree(h, Append(e, r))
    BY <1>5, <1>6, <2>1 DEF StreamsAgree
  <2> QED
    BY <1>1, <1>2, <1>3, <1>4, <2>2 DEF Agree
<1>8. CASE x.config
  <2>1. PICK c \in Seq(Frame) : c = Configurations(g)
    BY ConfigurationsNext
  <2>2. Configurations(f) = Append(c, x) /\ Configurations(h) = Append(c, y)
    BY <1>2, <1>3, <1>8, <2>1, ConfigurationsNext
  <2>3. PICK b \in Seq(Asked) : b = Bitstreams(e)
    BY BitstreamsNext
  <2>4. PICK n \in Nat : n = Len(c)
    BY LenProperties
  <2>5. PICK s, t : s = Append(c, x) /\ t = Append(c, y)
    OBVIOUS
  <2>6. s \in Seq(Frame) /\ Len(s) = n + 1 /\ s[n + 1] = x /\ \A i \in 1 .. n : s[i] = c[i]
    BY <2>1, <2>4, <2>5, AppendProperties
  <2>7. t \in Seq(Frame) /\ Len(t) = n + 1 /\ t[n + 1] = y /\ \A i \in 1 .. n : t[i] = c[i]
    BY <1>2, <2>1, <2>4, <2>5, AppendProperties
  <2>8. Len(b) = n + 1 /\ DOMAIN b = 1 .. n + 1 /\ \A i \in 1 .. n + 1 : IsPrefix(b[i].data, s[i].data)
    <3>1. Len(b) = n + 1
      BY <1>6, <2>2, <2>3, <2>5, <2>6 DEF StreamsAgree
    <3>2. DOMAIN b = 1 .. n + 1
      BY <2>3, <3>1, LenProperties
    <3>3. \A i \in DOMAIN b : IsPrefix(b[i].data, s[i].data)
      BY <1>6, <2>2, <2>3, <2>5 DEF StreamsAgree
    <3> QED
      BY <3>1, <3>2, <3>3
  <2>9. ASSUME NEW i \in 1 .. n + 1 PROVE IsPrefix(b[i].data, t[i].data)
    <3>1. CASE i \in 1 .. n
      <4>1. t[i] = s[i]
        BY <2>6, <2>7, <3>1
      <4> QED
        BY <2>8, <4>1
    <3>2. CASE i = n + 1
      <4>1. t[i] = y /\ s[i] = x
        BY <2>6, <2>7, <3>2
      <4>2. b[i] \in Asked
        BY <2>3, <2>8, ElementOfSeq
      <4>3. PICK p \in Seq(Bytes), q \in Seq(Bytes) : p = b[i].data /\ q = x.data
        BY <4>2, AskedAre DEF Frame
      <4>4. IsPrefix(p, q)
        BY <2>8, <4>1, <4>3
      <4>5. IsPrefix(p, q \o d)
        <5>1. p \in Seq(Bytes) /\ q \in Seq(Bytes) /\ d \in Seq(Bytes)
          BY <1>1, <4>3
        <5> QED
          BY <4>4, <5>1, PrefixLonger
      <4> QED
        BY <1>2, <4>1, <4>3, <4>5
    <3> QED
      BY <2>4, <3>1, <3>2
  <2>10. StreamsAgree(h, Append(e, r))
    BY <1>5, <2>2, <2>3, <2>5, <2>7, <2>8, <2>9 DEF StreamsAgree
  <2> QED
    BY <1>1, <1>2, <1>3, <1>4, <2>10 DEF Agree
<1> QED
  BY <1>7, <1>8

(* Between two commands: the chip waits for a new one, and is out of reset. *)
Waiting(c) == Framed(c) /\ c.bytes = <<>> /\ ~c.reset

WellDone(c, e) == Waiting(c) /\ Agree(c.frames, e)

(* The answers that are on their way do not matter.                        *)
LEMMA SameDone ==
  ASSUME NEW c, NEW d, NEW e, Same(c, d), WellDone(d, e)
  PROVE  WellDone(c, e)
BY DEF Same, WellDone, Waiting, Framed

(* The three calls of set_gpio.                                            *)
LEMMA SetGpioLeads ==
  ASSUME NEW c \in Chips, c.bytes = <<>>
  PROVE  /\ Leads(SetGpio(0, 0), c, Lines(c, 1)) /\ Leads(SetGpio(0, 1), c, Lines(c, 129))
         /\ Leads(SetGpio(1, 1), c, Lines(c, 145))
<1>1. 1 + 16 * 0 + 128 * 0 = 1 /\ 1 + 16 * 0 + 128 * 1 = 129 /\ 1 + 16 * 1 + 128 * 1 = 145
  OBVIOUS
<1>2. Leads(SetGpio(0, 0), c, Lines(c, 1 + 16 * 0 + 128 * 0))
  BY LeadsLines
<1>3. Leads(SetGpio(0, 1), c, Lines(c, 1 + 16 * 0 + 128 * 1))
  BY LeadsLines
<1>4. Leads(SetGpio(1, 1), c, Lines(c, 1 + 16 * 1 + 128 * 1))
  BY LeadsLines
<1> QED
  BY <1>1, <1>2, <1>3, <1>4

(* The frame that is open after the lines were set, and the data in it.    *)
LEMMA OpenedIs ==
  ASSUME NEW c, Framed(c), NEW e \in Seq(Asked), Agree(c.frames, e), NEW r \in Asked,
         (r.cmd = 1 /\ ~c.reset) \/ (r.cmd = 2 /\ c.reset /\ ~c.open), c.reset \in BOOLEAN,
         NEW d, d = Clocked(Lines(c, 129), r.data)
  PROVE  /\ Framed(Lines(c, 129)) /\ Lines(c, 129).bytes = c.bytes
         /\ Framed(d) /\ d.bytes = c.bytes /\ ~d.reset
         /\ Agree(d.frames, Append(e, r))
<1>1. PICK b : b = Lines(c, 129)
  OBVIOUS
<1>2. c \in Chips /\ c.frames \in Seq(Frame)
  BY ChipFields DEF Framed
<1>3. /\ b \in Chips /\ b.bytes = c.bytes /\ ~b.reset /\ b.open
      /\ c.open => b.frames = c.frames
      /\ ~c.open => b.frames = Append(c.frames, [config |-> c.reset, data |-> <<>>])
  BY <1>1, <1>2, SelectLines
<1>4. PICK s \in Seq(Bytes) : s = r.data
  BY AskedAre
<1>5. r.cmd \in {1, 2}
  OBVIOUS
<1>6. CASE c.open
  <2>1. c.frames # <<>> /\ r.cmd = 1
    BY <1>6 DEF Framed
  <2>2. PICK g \in Seq(Frame), x \in Frame : c.frames = Append(g, x)
    <3>1. c.frames \in Seq(Frame) /\ c.frames # <<>>
      BY <1>2, <2>1
    <3>2. PICK f \in Seq(Frame) : f = c.frames /\ f # <<>>
      BY <3>1
    <3>3. PICK g \in Seq(Frame), x \in Frame : f = Append(g, x)
      BY <3>2, FramesEnd
    <3> QED
      BY <3>2, <3>3
  <2>3. b.frames = Append(g, x) /\ b.frames # <<>>
    BY <1>3, <1>6, <2>1, <2>2
  <2>4. PICK h : h = Append(g, Longer(x, s))
    OBVIOUS
  <2>5. Agree(Append(g, x), e)
    BY <2>2
  <2>6. h \in Seq(Frame) /\ Agree(h, Append(e, r))
    BY <1>4, <2>1, <2>2, <2>4, <2>5, AgreeLonger
  <2>7. d = WithFrames(b, h)
    BY <1>1, <1>3, <1>4, <2>2, <2>3, <2>4, ClockedLast, ZenonT(60)
  <2>8. d.frames = h /\ ~d.reset
    BY <1>3, <2>6, <2>7, WithFramesIs
  <2>9. Framed(b)
    BY <1>3, <2>3 DEF Framed
  <2>10. Framed(d) /\ d.bytes = b.bytes
    BY <1>1, <1>4, <2>9, ClockedFramed
  <2> QED
    BY <1>1, <1>3, <2>6, <2>8, <2>9, <2>10
<1>7. CASE ~c.open
  <2>1. PICK x : x = [config |-> c.reset, data |-> <<>>]
    OBVIOUS
  <2>2. x \in Frame /\ x.config = c.reset /\ x.data = <<>>
    BY <2>1, EmptySeq DEF Frame
  <2>3. b.frames = Append(c.frames, x)
    BY <1>3, <1>7, <2>1
  <2>4. b.frames # <<>>
    <3>1. PICK f \in Seq(Frame) : f = c.frames
      BY <1>2
    <3>2. Append(f, x) # <<>>
      BY <2>2, <3>1, NotEmpty
    <3> QED
      BY <2>3, <3>1, <3>2
  <2>5. PICK y \in Frame : y = Longer(x, s) /\ y.config = c.reset /\ y.data = s
    <3>1. <<>> \o s = s
      BY <1>4, ConcatEmptySeq
    <3>2. Longer(x, s) \in Frame /\ Longer(x, s).config = x.config /\ Longer(x, s).data = x.data \o s
      BY <1>4, <2>2, LongerIs
    <3> QED
      BY <2>2, <3>1, <3>2
  <2>6. PICK h : h = Append(c.frames, y)
    OBVIOUS
  <2>7. h \in Seq(Frame) /\ Agree(h, Append(e, r))
    <3>1. y.data = r.data /\ (y.config <=> r.cmd = 2)
      BY <1>4, <1>7, <2>5
    <3>2. PICK f \in Seq(Frame) : f = c.frames
      BY <1>2
    <3>3. Agree(f, e)
      BY <3>2
    <3>4. Append(f, y) \in Seq(Frame) /\ Agree(Append(f, y), Append(e, r))
      BY <1>5, <2>5, <3>1, <3>2, <3>3, AgreeNew
    <3> QED
      BY <2>6, <3>2, <3>4
  <2>8. d = WithFrames(b, h)
    <3>1. PICK f \in Seq(Frame) : f = c.frames
      BY <1>2
    <3>2. b.open /\ b.frames = Append(f, x)
      BY <1>3, <2>3, <3>1
    <3>3. Clocked(b, s) = WithFrames(b, Append(f, Longer(x, s)))
      BY <1>3, <1>4, <2>2, <3>1, <3>2, ClockedLast
    <3> QED
      BY <1>1, <1>4, <2>5, <2>6, <3>1, <3>3
  <2>9. d.frames = h /\ ~d.reset
    BY <1>3, <2>7, <2>8, WithFramesIs
  <2>10. Framed(b)
    BY <1>3, <2>4 DEF Framed
  <2>11. Framed(d) /\ d.bytes = b.bytes
    BY <1>1, <1>4, <2>10, ClockedFramed
  <2> QED
    BY <1>1, <1>3, <2>7, <2>9, <2>10, <2>11
<1> QED
  BY <1>6, <1>7

(* A raw transfer: its data continues an open frame or opens one.          *)
LEMMA RawDone ==
  ASSUME NEW c, NEW e \in Seq(Asked), WellDone(c, e), NEW r \in Asked, r.cmd = 1
  PROVE  \E d : Leads(RawSpiWrite(r.data), c, d) /\ WellDone(d, Append(e, r))
<1>1. c \in Chips /\ Framed(c) /\ c.bytes = <<>> /\ ~c.reset /\ Agree(c.frames, e)
  BY DEF WellDone, Waiting, Framed
<1>2. PICK a, b, d : a = Lines(c, 129) /\ b = Clocked(a, r.data) /\ d = Lines(b, 145)
  OBVIOUS
<1>3. /\ Framed(a) /\ a.bytes = <<>>
      /\ Framed(b) /\ b.bytes = <<>> /\ ~b.reset
      /\ Agree(b.frames, Append(e, r))
  <2>1. c.reset \in BOOLEAN
    BY <1>1, ChipFields
  <2> QED
    BY <1>1, <1>2, <2>1, OpenedIs
<1>4. b \in Chips
  BY <1>3 DEF Framed
<1>5. d \in Chips /\ d.bytes = <<>> /\ ~d.reset /\ ~d.open /\ d.frames = b.frames
  BY <1>2, <1>3, <1>4, IdleLines
<1>6. WellDone(d, Append(e, r))
  BY <1>3, <1>5 DEF WellDone, Waiting, Framed
<1>7. r.data \in Seq(Bytes)
  BY AskedAre
<1>8. Leads(SetGpio(0, 1), c, a)
  BY <1>1, <1>2, SetGpioLeads
<1>9. Leads(SendSpiChunked(r.data), a, b)
  BY <1>2, <1>3, <1>7, LeadsPieces
<1>10. Leads(SetGpio(1, 1), b, d)
  BY <1>2, <1>3, <1>4, SetGpioLeads
<1>11. Leads(SetGpio(0, 1) \o SendSpiChunked(r.data), c, b)
  BY <1>8, <1>9, LeadsOn
<1>12. Leads((SetGpio(0, 1) \o SendSpiChunked(r.data)) \o SetGpio(1, 1), c, d)
  BY <1>10, <1>11, LeadsOn
<1> QED
  BY <1>6, <1>12 DEF RawSpiWrite

(* A bitstream: the FPGA was reset while selected, so the frame is new.    *)
LEMMA ProgDone ==
  ASSUME NEW c, NEW e \in Seq(Asked), WellDone(c, e), NEW r \in Asked, r.cmd = 2
  PROVE  \E d : Leads(ProgSramWrite(r.data), c, d) /\ WellDone(d, Append(e, r))
<1>1. c \in Chips /\ Framed(c) /\ c.bytes = <<>> /\ Agree(c.frames, e)
  BY DEF WellDone, Waiting, Framed
<1>2. PICK z, a, d : z = Lines(c, 1) /\ a = Lines(z, 129) /\ d = Clocked(a, r.data)
  OBVIOUS
<1>3. z \in Chips /\ z.bytes = <<>> /\ z.reset /\ ~z.open /\ z.frames = c.frames
  BY <1>1, <1>2, ResetLines
<1>4. Framed(z)
  BY <1>3 DEF Framed
<1>5. /\ Framed(a) /\ a.bytes = <<>>
      /\ Framed(d) /\ d.bytes = <<>> /\ ~d.reset
      /\ Agree(d.frames, Append(e, r))
  <2>1. z.reset \in BOOLEAN /\ Agree(z.frames, e)
    BY <1>1, <1>3, ChipFields
  <2> QED
    BY <1>2, <1>3, <1>4, <2>1, OpenedIs
<1>6. a \in Chips /\ d \in Chips
  BY <1>5 DEF Framed
<1>7. WellDone(d, Append(e, r))
  BY <1>5 DEF WellDone, Waiting
<1>8. r.data \in Seq(Bytes)
  BY AskedAre
<1>9. Leads(SetGpio(0, 0), c, z)
  BY <1>1, <1>2, SetGpioLeads
<1>10. Leads(SetGpio(0, 1), z, a)
  BY <1>2, <1>3, SetGpioLeads
<1>11. Leads(GetCdone, a, a)
  BY <1>5, <1>6, LeadsCdone
<1>12. Leads(SendSpiChunked(r.data), a, d)
  BY <1>2, <1>5, <1>8, LeadsPieces
<1>13. Leads(SendBytes(<<CLK_BYTES, 5, 0>>), d, d)
  <2>1. PICK x, v, w : x = CLK_BYTES /\ v = 5 /\ w = 0
    OBVIOUS
  <2>2. x \in Bytes /\ v \in Bytes /\ w \in Bytes /\ x \in {TCK_DIVISOR, CLK_BYTES}
    BY <2>1 DEF Bytes, CLK_BYTES
  <2>3. PICK s : s = <<x, v, w>>
    OBVIOUS
  <2>4. s \in Seq(Bytes)
    BY <2>2, <2>3
  <2>5. Taken(d, s) = d
    BY <1>5, <1>6, <2>2, <2>3, Divisor
  <2>6. Leads(SendBytes(s), d, d)
    BY <1>6, <2>4, <2>5, LeadsSend, SameChip
  <2> QED
    BY <2>1, <2>3, <2>6
<1>14. Leads(SendBytes(<<CLK_BITS, 0>>), d, d)
  <2>1. PICK x, v : x = CLK_BITS /\ v = 0
    OBVIOUS
  <2>2. x \in Bytes /\ v \in Bytes
    BY <2>1 DEF Bytes, CLK_BITS
  <2>3. PICK s : s = <<x, v>>
    OBVIOUS
  <2>4. s \in Seq(Bytes)
    BY <2>2, <2>3
  <2>5. Taken(d, s) = d
    BY <1>5, <1>6, <2>1, <2>2, <2>3, ClockBits
  <2>6. Leads(SendBytes(s), d, d)
    BY <1>6, <2>4, <2>5, LeadsSend, SameChip
  <2> QED
    BY <2>1, <2>3, <2>6
<1>15. Leads(GetCdone, d, d)
  BY <1>5, <1>6, LeadsCdone
<1>16. PICK p1, p2, p3, p4, p5, p6 :
         /\ p1 = SetGpio(0, 0) \o SetGpio(0, 1) /\ p2 = p1 \o GetCdone
         /\ p3 = p2 \o SendSpiChunked(r.data) /\ p4 = p3 \o SendBytes(<<CLK_BYTES, 5, 0>>)
         /\ p5 = p4 \o SendBytes(<<CLK_BITS, 0>>) /\ p6 = p5 \o GetCdone
  OBVIOUS
<1>17. Leads(p1, c, a)
  BY <1>9, <1>10, <1>16, LeadsOn
<1>18. Leads(p2, c, a)
  BY <1>11, <1>16, <1>17, LeadsOn
<1>19. Leads(p3, c, d)
  BY <1>12, <1>16, <1>18, LeadsOn
<1>20. Leads(p4, c, d)
  BY <1>13, <1>16, <1>19, LeadsOn
<1>21. Leads(p5, c, d)
  BY <1>14, <1>16, <1>20, LeadsOn
<1>22. Leads(p6, c, d)
  BY <1>15, <1>16, <1>21, LeadsOn
<1>23. ProgSramWrite(r.data) = p6
  BY <1>16, Zenon DEF ProgSramWrite
<1> QED
  BY <1>7, <1>22, <1>23

(* Commands of one byte, and the bytes they are answered with.             *)
LEMMA TransactionDone ==
  ASSUME NEW c \in Chips, c.bytes = <<>>, NEW data \in Seq(OneByte), NEW n \in Nat
  PROVE  Leads(Transaction(data, n), c, c)
<1>1. data \in Seq(Bytes) /\ Leads(SendBytes(data), c, c)
  BY OneBytesTaken, LeadsSend
<1>2. PICK a : a = [do |-> "keep", bytes |-> <<>>]
  OBVIOUS
<1>3. a \in Silent /\ a.bytes = <<>> /\ RecvByte(TRUE) = <<a>>
  BY <1>2, EmptySeq DEF Silent, RecvByte
<1>4. PICK K : K = {a}
  OBVIOUS
<1>5. [i \in 1 .. n |-> RecvByte(TRUE)] \in Seq(Seq(K))
  <2>1. <<a>> \in Seq(K)
    BY <1>4
  <2>2. PICK W : W = Seq(K)
    OBVIOUS
  <2>3. PICK f : f = [i \in 1 .. n |-> <<a>>]
    OBVIOUS
  <2>4. f \in [1 .. n -> W]
    BY <2>1, <2>2, <2>3
  <2>5. f \in Seq(W)
    BY <2>4, IsSequence
  <2> QED
    BY <1>3, <2>2, <2>3, <2>5
<1>6. PICK q : q = FlattenSeq([i \in 1 .. n |-> RecvByte(TRUE)])
  OBVIOUS
<1>7. q \in Seq(K)
  BY <1>5, <1>6, FlattenType
<1>8. \A s \in Seq(K) : Leads(s, c, c)
  <2> DEFINE T == {s \in Seq(K) : Leads(s, c, c)}
  <2>1. <<>> \in T
    BY LeadsNowhere, EmptySeq
  <2>2. ASSUME NEW s \in Seq(K), NEW x \in K, s \in T PROVE Append(s, x) \in T
    <3>1. Leads(s, c, c) /\ s \in Seq(Silent)
      BY <2>2 DEF Leads
    <3>2. x = a
      BY <1>4
    <3>3. Leads(<<a>>, c, c)
      BY <1>3, LeadsRecv
    <3>4. Leads(s \o <<a>>, c, c)
      BY <3>1, <3>3, LeadsOn
    <3>5. s \o <<a>> = Append(s, x)
      BY <3>2
    <3> QED
      BY <3>4, <3>5, AppendProperties
  <2> HIDE DEF T
  <2>3. Seq(K) \subseteq T
    BY <2>1, <2>2, SequenceInduction
  <2> QED
    BY <2>3 DEF T
<1>9. Leads(SendBytes(data) \o q, c, c)
  BY <1>1, <1>7, <1>8, LeadsOn
<1> QED
  BY <1>6, <1>9 DEF Transaction

(* What a command does to a chip that waits.                               *)
LEMMA ScriptDone ==
  ASSUME NEW r \in Asked, r.cmd \in 0 .. 3, NEW c, NEW e \in Seq(Asked), WellDone(c, e)
  PROVE  \E q, d : /\ Script(r) = q \o Ack /\ q \in Seq(Silent)
                   /\ Leads(q, c, d) /\ WellDone(d, Append(e, r))
<1>1. c \in Chips /\ c.bytes = <<>> /\ c.frames \in Seq(Frame) /\ Agree(c.frames, e)
  BY ChipFields DEF WellDone, Waiting, Framed
<1>2. CASE r.cmd = 0
  <2>1. PICK q : q = Transaction(r.data, r.reply)
    OBVIOUS
  <2>2. Leads(q, c, c)
    BY <1>1, <1>2, <2>1, AskedAre, TransactionDone
  <2>3. Agree(c.frames, Append(e, r))
    BY <1>1, <1>2, AgreeOther
  <2>4. WellDone(c, Append(e, r))
    BY <2>3 DEF WellDone
  <2>5. Script(r) = q \o Ack
    BY <1>2, <2>1 DEF Script
  <2> QED
    BY <2>2, <2>4, <2>5 DEF Leads
<1>3. CASE r.cmd = 1
  <2>1. PICK q : q = RawSpiWrite(r.data)
    OBVIOUS
  <2>2. Script(r) = q \o Ack
    BY <1>3, <2>1 DEF Script
  <2>3. PICK d : Leads(q, c, d) /\ WellDone(d, Append(e, r))
    BY <1>3, <2>1, RawDone
  <2> QED
    BY <2>2, <2>3 DEF Leads
<1>4. CASE r.cmd = 2
  <2>1. PICK q : q = ProgSramWrite(r.data)
    OBVIOUS
  <2>2. Script(r) = q \o Ack
    BY <1>4, <2>1 DEF Script
  <2>3. PICK d : Leads(q, c, d) /\ WellDone(d, Append(e, r))
    BY <1>4, <2>1, ProgDone
  <2> QED
    BY <2>2, <2>3 DEF Leads
<1>5. CASE r.cmd = 3
  <2>1. PICK q : q = <<>>
    OBVIOUS
  <2>2. Script(r) = Ack
    BY <1>5 DEF Script
  <2>3. q \o Ack = Ack
    BY <2>1 DEF Ack
  <2>4. Leads(q, c, c)
    BY <1>1, <2>1, LeadsNowhere
  <2>5. Agree(c.frames, Append(e, r))
    BY <1>1, <1>5, AgreeOther
  <2>6. WellDone(c, Append(e, r))
    BY <2>5 DEF WellDone
  <2> QED
    BY <2>2, <2>3, <2>4, <2>6 DEF Leads
<1> QED
  BY <1>2, <1>3, <1>4, <1>5

(* The setup.                                                              *)
LEMMA LongerThan ==
  ASSUME NEW S, NEW s \in Seq(S), NEW t \in Seq(S), s # <<>>
  PROVE  s \o t # <<>>
<1>1. Len(s) \in Nat /\ Len(s) # 0 /\ Len(t) \in Nat
  BY EmptySeq, LenProperties
<1>2. Len(s \o t) = Len(s) + Len(t)
  BY ConcatProperties
<1>3. Len(s \o t) # 0
  BY <1>1, <1>2
<1> QED
  BY <1>3, EmptySeq

(* The setup leads the chip to where it waits for the first command.       *)
LEMMA SetupDone == \E d : Setup # <<>> /\ Leads(Setup, Unselected, d) /\ WellDone(d, <<>>)
<1>1. PICK c : c = Unselected
  OBVIOUS
<1>2. c \in Chips /\ c.bytes = <<>> /\ ~c.open /\ ~c.reset /\ c.frames = <<>>
  BY <1>1, EmptySeq DEF Unselected, Chips
<1>3. PICK d : d = Lines(c, 145)
  OBVIOUS
<1>4. d \in Chips /\ d.bytes = <<>> /\ ~d.reset /\ ~d.open /\ d.frames = <<>>
  BY <1>2, <1>3, IdleLines
<1>5. WellDone(d, <<>>)
  BY <1>4, AgreeEmpty DEF WellDone, Waiting, Framed
<1>6. Leads(SendBytes(<<EN_DIV_5>>), c, c)
  <2>1. PICK s : s = <<EN_DIV_5>>
    OBVIOUS
  <2>2. EN_DIV_5 \in OneByte
    BY DEF OneByte, EN_DIV_5, MPSSE_DO_WRITE, MPSSE_WRITE_NEG, SET_BITS_LOW, TCK_DIVISOR, CLK_BITS, CLK_BYTES
  <2>3. s \in Seq(OneByte)
    BY <2>1, <2>2
  <2>4. s \in Seq(Bytes) /\ Same(Taken(c, s), c)
    BY <1>2, <2>3, OneBytesTaken
  <2>5. Leads(SendBytes(s), c, c)
    BY <2>4, LeadsSend
  <2> QED
    BY <2>1, <2>5
<1>7. Leads(SendBytes(<<TCK_DIVISOR, 0, 0>>), c, c)
  <2>1. PICK x, v : x = TCK_DIVISOR /\ v = 0
    OBVIOUS
  <2>2. x \in Bytes /\ v \in Bytes /\ x \in {TCK_DIVISOR, CLK_BYTES}
    BY <2>1 DEF Bytes, TCK_DIVISOR
  <2>3. PICK s : s = <<x, v, v>>
    OBVIOUS
  <2>4. s \in Seq(Bytes)
    BY <2>2, <2>3
  <2>5. Taken(c, s) = c
    BY <1>2, <2>2, <2>3, Divisor
  <2>6. Leads(SendBytes(s), c, c)
    BY <1>2, <2>4, <2>5, LeadsSend, SameChip
  <2> QED
    BY <2>1, <2>3, <2>6
<1>8. Leads(GetCdone, c, c)
  BY <1>2, LeadsCdone
<1>9. Leads(SetGpio(1, 1), c, d)
  BY <1>2, <1>3, SetGpioLeads
<1>10. PICK p1, p2, p3 :
         /\ p1 = SendBytes(<<EN_DIV_5>>) \o SendBytes(<<TCK_DIVISOR, 0, 0>>) /\ p2 = p1 \o GetCdone
         /\ p3 = p2 \o SetGpio(1, 1)
  OBVIOUS
<1>11. Leads(p1, c, c)
  BY <1>6, <1>7, <1>10, LeadsOn
<1>12. Leads(p2, c, c)
  BY <1>8, <1>10, <1>11, LeadsOn
<1>13. Leads(p3, c, d)
  BY <1>9, <1>10, <1>12, LeadsOn
<1>14. Setup = p3
  BY <1>10, Zenon DEF Setup
<1>15. p3 # <<>>
  <2>1. PICK s : s = SendBytes(<<EN_DIV_5>>)
    OBVIOUS
  <2>2. s \in Seq(Silent) /\ s # <<>>
    BY <1>6, <2>1 DEF Leads, SendBytes
  <2>3. SendBytes(<<TCK_DIVISOR, 0, 0>>) \in Seq(Silent) /\ p1 \in Seq(Silent) /\ p2 \in Seq(Silent)
    BY <1>7, <1>11, <1>12 DEF Leads
  <2>4. GetCdone \in Seq(Silent) /\ SetGpio(1, 1) \in Seq(Silent)
    BY <1>8, <1>9 DEF Leads
  <2>5. p1 # <<>>
    BY <1>10, <2>1, <2>2, <2>3, LongerThan
  <2>6. p2 # <<>>
    BY <1>10, <2>3, <2>4, <2>5, LongerThan
  <2> QED
    BY <1>10, <2>3, <2>4, <2>6, LongerThan
<1> QED
  BY <1>1, <1>5, <1>13, <1>14, <1>15

-----------------------------------------------------------------------------
(*****************************************************************************)
(* The invariant.                                                          *)
(*****************************************************************************)
(* What the program has to do for its command, the acknowledgement included. *)
Acked(t) == \E q \in Seq(Silent) : t = q \o Ack

FtdiShape ==
  /\ chip \in Chips /\ fifo \in Nat
  /\ prog \in {"start", "poll", "busy", "gone"}
  /\ server \in {"ping", "idle", "waits", "dead"}
  /\ command \in Asked /\ toProg \in Seq(Asked) /\ fromProg \in Seq({"ack", "exit"})
  /\ asked \in Seq(Asked) /\ done \in Seq(Asked) /\ oks \in Seq(Asked)
  /\ prog = "start" => todo \in Seq(Silent) /\ todo # <<>>
  /\ prog = "busy" => Acked(todo)
  /\ prog \in {"poll", "gone"} => todo = <<>>

(* One request is under way at a time: what was executed and what was      *)
(* acknowledged are beginnings of what was asked.                          *)
Leading(s, t) == Len(s) <= Len(t) /\ \A i \in 1 .. Len(s) : s[i] = t[i]
Working == IF prog = "busy" THEN 1 ELSE 0

FtdiFlow ==
  /\ Leading(done, asked) /\ Leading(oks, asked)
  /\ server \in {"ping", "waits"} => Len(asked) = Len(oks) + 1
  /\ server \in {"idle", "dead"} => Len(asked) = Len(oks)
  /\ prog # "gone" => /\ Len(fromProg) + Len(oks) = Len(done)
                      /\ Len(asked) = Len(done) + Working + Len(toProg)
  /\ prog = "gone" => toProg = <<>> /\ Len(fromProg) + Len(oks) <= Len(done) + 1
  /\ prog = "busy" => command = asked[Len(done) + 1]
  /\ toProg # <<>> => toProg[1] = asked[Len(done) + 1]

(* What the chip and the FPGA will have seen when the program has sent all *)
(* that it has still to send.                                              *)
Owed == IF prog = "busy" THEN Append(done, command) ELSE done
FtdiData == prog # "gone" => WellDone(Taken(chip, Sent(todo)), Owed)

FtdiInv == FtdiShape /\ FtdiFlow /\ FtdiData

(* The invariant holds at the start.                                       *)
LEMMA FtdiInitInv == FtdiInit => FtdiInv
<1> SUFFICES ASSUME FtdiInit PROVE FtdiInv
  OBVIOUS
<1>1. PICK d : Setup # <<>> /\ Leads(Setup, Unselected, d) /\ WellDone(d, <<>>)
  BY SetupDone
<1>2. todo = Setup /\ chip = Unselected /\ prog = "start" /\ done = <<>>
  BY DEF FtdiInit
<1>3. todo \in Seq(Silent) /\ Same(Taken(chip, Sent(todo)), d)
  BY <1>1, <1>2 DEF Leads
<1>4. todo # <<>>
  BY <1>1, <1>2
<1>5. FtdiShape
  <2>1. chip \in Chips
    BY <1>2, EmptySeq DEF Unselected, Chips
  <2>2. Ping \in Asked
    BY DEF Asked
  <2> QED
    BY <1>2, <1>3, <1>4, <2>1, <2>2, EmptySeq DEF FtdiInit, FtdiShape
<1>6. FtdiFlow
  BY EmptySeq DEF FtdiInit, FtdiFlow, Leading, Working
<1>7. FtdiData
  BY <1>1, <1>2, <1>3, SameDone DEF FtdiData, Owed
<1> QED
  BY <1>5, <1>6, <1>7 DEF FtdiInv

(* Beginnings, when either sequence grows.                                 *)
LEMMA LeadingLonger ==
  ASSUME NEW S, NEW s \in Seq(S), NEW t \in Seq(S), Leading(s, t), NEW x \in S
  PROVE  /\ Leading(s, Append(t, x))
         /\ (Len(s) < Len(t) /\ x = t[Len(s) + 1]) => Leading(Append(s, x), t)
<1>1. PICK m \in Nat, n \in Nat : m = Len(s) /\ n = Len(t)
  BY LenProperties
<1>2. m <= n /\ \A i \in 1 .. m : s[i] = t[i]
  BY <1>1 DEF Leading
<1>3. /\ Len(Append(t, x)) = n + 1 /\ \A i \in 1 .. n : Append(t, x)[i] = t[i]
      /\ Len(Append(s, x)) = m + 1 /\ \A i \in 1 .. m : Append(s, x)[i] = s[i]
      /\ Append(s, x)[m + 1] = x
  BY <1>1, AppendProperties
<1>4. Leading(s, Append(t, x))
  BY <1>1, <1>2, <1>3 DEF Leading
<1>5. ASSUME m < n, x = t[m + 1] PROVE Leading(Append(s, x), t)
  <2>1. \A i \in 1 .. m + 1 : Append(s, x)[i] = t[i]
    <3>1. ASSUME NEW i \in 1 .. m + 1 PROVE Append(s, x)[i] = t[i]
      <4>1. i \in 1 .. m \/ i = m + 1
        OBVIOUS
      <4> QED
        BY <1>2, <1>3, <1>5, <4>1
    <3> QED
      BY <3>1
  <2> QED
    BY <1>3, <1>5, <2>1, <1>1 DEF Leading
<1> QED
  BY <1>1, <1>4, <1>5

(* The next step of a command: the acknowledgement, the last, or one       *)
(* before.                                                                 *)
LEMMA AckedNext ==
  ASSUME NEW t, Acked(t)
  PROVE  /\ t \in Seq(Actions) /\ t # <<>>
         /\ \/ Head(t).do = "ack" /\ Tail(t) = <<>>
            \/ Head(t) \in Silent /\ Tail(t) # <<>> /\ Acked(Tail(t))
<1>1. PICK q \in Seq(Silent) : t = q \o Ack
  BY DEF Acked
<1>2. PICK k : k = AckStep
  OBVIOUS
<1>3. Ack = <<k>> /\ k.do = "ack" /\ k \in Actions
  BY <1>2 DEF Ack, AckStep, Actions
<1>4. PICK a : a \in Seq(Actions) /\ a = <<k>> /\ a = Ack /\ a # <<>> /\ Len(a) = 1
  <2>1. PICK z : z = <<k>>
    OBVIOUS
  <2>2. z \in Seq(Actions)
    BY <1>3, <2>1
  <2>3. Len(z) = 1 /\ z # <<>> /\ z = Ack
    BY <1>3, <2>1
  <2> QED
    BY <2>1, <2>2, <2>3
<1>5. q \in Seq(Actions)
  BY SilentActs
<1>6. t \in Seq(Actions)
  BY <1>1, <1>4, <1>5, ConcatProperties
<1>7. CASE q = <<>>
  <2>1. t = <<k>>
    BY <1>1, <1>3, <1>4, <1>7, ConcatEmptySeq
  <2>2. t # <<>> /\ Head(t) = k /\ Tail(t) = <<>>
    BY <2>1
  <2> QED
    BY <1>3, <1>6, <2>2
<1>8. CASE q # <<>>
  <2>1. PICK x \in Silent, r \in Seq(Silent) : x = Head(q) /\ r = Tail(q)
    BY <1>8, HeadTailProperties
  <2>2. Len(q) \in Nat /\ Len(q) # 0
    BY <1>8, EmptySeq, LenProperties
  <2>3. Len(t) = Len(q) + 1
    <3>1. Len(q \o a) = Len(q) + Len(a)
      BY <1>4, <1>5, ConcatProperties
    <3> QED
      BY <1>1, <1>4, <3>1
  <2>4. t # <<>>
    BY <2>2, <2>3, EmptySeq
  <2>5. Head(t) = x /\ Tail(t) = r \o a
    <3>1. q = <<x>> \o r
      BY <1>8, <2>1, HeadTailProperties
    <3>2. PICK o : o \in Seq(Actions) /\ o = <<x>>
      <4>1. PICK o : o = <<x>>
        OBVIOUS
      <4>2. x \in Actions
        BY DEF Actions
      <4>3. o \in Seq(Actions)
        BY <4>1, <4>2
      <4> QED
        BY <4>1, <4>3
    <3>3. r \in Seq(Actions)
      BY SilentActs
    <3>4. t = o \o (r \o a)
      <4>1. (o \o r) \o a = o \o (r \o a)
        BY <1>4, <3>2, <3>3, ConcatAssociative
      <4> QED
        BY <1>1, <1>4, <3>1, <3>2, <4>1
    <3>5. PICK u \in Seq(Actions) : u = r \o a
      BY <1>4, <3>3, ConcatProperties
    <3> QED
      BY <3>2, <3>4, <3>5
  <2>6. Acked(r \o a)
    BY <1>4 DEF Acked
  <2>7. Tail(t) # <<>>
    <3>1. r \in Seq(Actions) /\ Len(r) \in Nat
      BY SilentActs, LenProperties
    <3>2. Len(r \o a) = Len(r) + 1
      BY <1>4, <3>1, ConcatProperties
    <3>3. Len(r \o a) # 0
      BY <3>1, <3>2
    <3> QED
      BY <2>5, <3>3, EmptySeq
  <2> QED
    BY <1>6, <2>1, <2>4, <2>5, <2>6, <2>7
<1> QED
  BY <1>7, <1>8

(* What the program has to do are steps of its commands.                   *)
LEMMA FtdiTodo == FtdiShape => todo \in Seq(Actions)
<1> SUFFICES ASSUME FtdiShape PROVE todo \in Seq(Actions)
  OBVIOUS
<1>1. CASE prog = "start"
  BY <1>1, SilentActs DEF FtdiShape
<1>2. CASE prog = "busy"
  BY <1>2, AckedNext DEF FtdiShape
<1>3. CASE prog \in {"poll", "gone"}
  BY <1>3, EmptySeq DEF FtdiShape
<1> QED
  BY <1>1, <1>2, <1>3 DEF FtdiShape

(* An element more.                                                        *)
LEMMA MoreOf ==
  ASSUME NEW S, NEW s \in Seq(S), NEW x \in S, NEW t, t = Append(s, x)
  PROVE  t \in Seq(S) /\ Len(t) = Len(s) + 1 /\ Len(s) \in Nat
BY AppendProperties, LenProperties

(* The first element, and the rest.                                        *)
LEMMA FirstOf ==
  ASSUME NEW S, NEW s \in Seq(S), s # <<>>
  PROVE  Head(s) \in S /\ Tail(s) \in Seq(S) /\ Len(Tail(s)) + 1 = Len(s) /\ Head(s) = s[1]
<1>1. Head(s) \in S /\ Tail(s) \in Seq(S)
  BY HeadTailProperties
<1>2. Len(s) \in Nat /\ Len(Tail(s)) = Len(s) - 1
  BY HeadTailProperties, LenProperties
<1>3. Head(s) = s[1]
  BY HeadTailProperties
<1> QED
  BY <1>1, <1>2, <1>3

(* The messages of the port.                                               *)
Reports == {"ack", "exit"}
(* Both of them.                                                           *)
LEMMA ReportsAre == "ack" \in Reports /\ "exit" \in Reports
BY DEF Reports

(* A step of the program keeps the types ...                               *)
LEMMA FtdiShapeStep == FtdiInv /\ Step => FtdiShape'
<1> SUFFICES ASSUME FtdiInv, Step PROVE FtdiShape'
  OBVIOUS
<1>1. FtdiShape
  BY DEF FtdiInv
<1>2. todo \in Seq(Actions) /\ todo # <<>> /\ prog \in {"start", "busy"}
  BY <1>1, FtdiTodo DEF Step
<1>3. PICK s \in Actions, t \in Seq(Actions) : s = Head(todo) /\ t = Tail(todo)
  BY <1>2, SentTail
<1>4. /\ chip' = IF s.do = "send" THEN Taken(chip, s.bytes) ELSE chip
      /\ fifo' = IF s.do \in {"keep", "drop"} THEN fifo - Received ELSE fifo
      /\ s.do = "ack" => fromProg' = Append(fromProg, "ack") /\ done' = Append(done, command)
      /\ s.do # "ack" => fromProg' = fromProg /\ done' = done
      /\ todo' = t /\ prog' = IF t = <<>> THEN "poll" ELSE prog
      /\ command' = command /\ toProg' = toProg /\ server' = server /\ asked' = asked /\ oks' = oks
  BY <1>3 DEF Step, Tell
<1>5. chip' \in Chips
  <2>1. chip \in Chips /\ s.bytes \in Seq(Bytes)
    BY <1>1, ActionsHave DEF FtdiShape
  <2> QED
    BY <1>4, <2>1, TakenType
<1>6. fifo' \in Nat
  BY <1>1, <1>4 DEF FtdiShape, Received
<1>7. fromProg' \in Seq({"ack", "exit"}) /\ done' \in Seq(Asked)
  <2>1. fromProg \in Seq({"ack", "exit"}) /\ done \in Seq(Asked) /\ command \in Asked
    BY <1>1 DEF FtdiShape
  <2>2. CASE s.do = "ack"
    <3>1. fromProg' = Append(fromProg, "ack") /\ fromProg \in Seq(Reports)
      BY <1>4, <2>1, <2>2 DEF Reports
    <3>2. fromProg' \in Seq(Reports)
      BY <3>1, ReportsAre, MoreOf
    <3>3. done' = Append(done, command)
      BY <1>4, <2>2
    <3>4. done' \in Seq(Asked)
      BY <2>1, <3>3, MoreOf
    <3> QED
      BY <3>2, <3>4 DEF Reports
  <2>3. CASE s.do # "ack"
    BY <1>4, <2>1, <2>3
  <2> QED
    BY <2>2, <2>3
<1>8. CASE prog = "start"
  <2>1. t \in Seq(Silent)
    BY <1>1, <1>2, <1>3, <1>8, HeadTailProperties DEF FtdiShape
  <2>2. prog' \in {"start", "poll"} /\ (prog' = "poll" => t = <<>>) /\ (prog' = "start" => t # <<>>)
    BY <1>4, <1>8
  <2> QED
    BY <1>1, <1>4, <1>5, <1>6, <1>7, <2>1, <2>2 DEF FtdiShape
<1>9. CASE prog = "busy"
  <2>1. Acked(todo)
    BY <1>1, <1>9 DEF FtdiShape
  <2>2. t = <<>> \/ Acked(t)
    BY <1>3, <2>1, AckedNext
  <2>3. prog' \in {"busy", "poll"} /\ (prog' = "poll" => t = <<>>) /\ (prog' = "busy" => Acked(t))
    BY <1>4, <1>9, <2>2
  <2> QED
    BY <1>1, <1>4, <1>5, <1>6, <1>7, <2>3 DEF FtdiShape
<1> QED
  BY <1>2, <1>8, <1>9

(* ... the order of the requests, which an acknowledgement ends ...        *)
LEMMA FtdiFlowStep == FtdiInv /\ Step => FtdiFlow'
<1> SUFFICES ASSUME FtdiInv, Step PROVE FtdiFlow'
  OBVIOUS
<1>1. FtdiShape /\ FtdiFlow
  BY DEF FtdiInv
<1>2. todo # <<>> /\ prog \in {"start", "busy"}
  BY DEF Step
<1>3. PICK s, t : s = Head(todo) /\ t = Tail(todo)
  OBVIOUS
<1>4. /\ s.do = "ack" => fromProg' = Append(fromProg, "ack") /\ done' = Append(done, command)
      /\ s.do # "ack" => fromProg' = fromProg /\ done' = done
      /\ prog' = IF t = <<>> THEN "poll" ELSE prog
      /\ command' = command /\ toProg' = toProg /\ server' = server /\ asked' = asked /\ oks' = oks
  BY <1>3 DEF Step, Tell
<1>5. PICK a \in Nat, b \in Nat, m \in Nat, n \in Nat, k \in Nat :
        a = Len(asked) /\ b = Len(done) /\ m = Len(oks) /\ n = Len(fromProg) /\ k = Len(toProg)
  BY <1>1, LenProperties DEF FtdiShape
<1>6. ASSUME s.do # "ack", prog' # "busy" => prog # "busy" PROVE FtdiFlow'
  <2>1. fromProg' = fromProg /\ done' = done
    BY <1>4, <1>6
  <2>2. prog' # "gone" /\ prog # "gone" /\ (prog' = "busy" <=> prog = "busy")
    BY <1>2, <1>4, <1>6
  <2>3. Working' = Working
    BY <2>2 DEF Working
  <2> QED
    BY <1>1, <1>4, <2>1, <2>2, <2>3 DEF FtdiFlow, Leading
<1>7. CASE prog = "start"
  <2>1. todo \in Seq(Silent)
    BY <1>1, <1>7 DEF FtdiShape
  <2>2. s \in Silent
    BY <1>2, <1>3, <2>1, HeadTailProperties
  <2>3. s.do # "ack"
    BY <2>2 DEF Silent
  <2> QED
    BY <1>6, <1>7, <2>3
<1>8. CASE prog = "busy"
  <2>1. Acked(todo)
    BY <1>1, <1>8 DEF FtdiShape
  <2>2. CASE s \in Silent /\ t # <<>>
    <3>1. s.do # "ack"
      BY <2>2 DEF Silent
    <3> QED
      BY <1>4, <1>6, <1>8, <2>2, <3>1
  <2>3. CASE s.do = "ack" /\ t = <<>>
    <3>1. prog' = "poll" /\ fromProg' = Append(fromProg, "ack") /\ done' = Append(done, command)
      BY <1>4, <2>3
    <3>2. Len(fromProg') = n + 1 /\ Len(done') = b + 1
      BY <1>1, <1>5, <3>1, AppendProperties DEF FtdiShape
    <3>3. n + m = b /\ a = b + 1 + k /\ a <= m + 1 /\ command = asked[b + 1]
      BY <1>1, <1>5, <1>8 DEF FtdiFlow, Working, FtdiShape
    <3>4. k = 0 /\ toProg = <<>>
      BY <1>1, <1>5, <3>3, EmptySeq DEF FtdiShape
    <3>5. Leading(done', asked)
      <4>1. asked \in Seq(Asked) /\ done \in Seq(Asked) /\ command \in Asked /\ Leading(done, asked)
        BY <1>1 DEF FtdiShape, FtdiFlow
      <4>2. Len(done) < Len(asked) /\ command = asked[Len(done) + 1]
        BY <1>5, <3>3
      <4> QED
        BY <3>1, <4>1, <4>2, LeadingLonger
    <3>6. Leading(done', asked')
      BY <1>4, <3>5
    <3>7. Leading(oks', asked')
      BY <1>1, <1>4 DEF FtdiFlow
    <3>8. Len(asked') = a /\ Len(oks') = m /\ Len(toProg') = k /\ Working' = 0 /\ toProg' = <<>>
      BY <1>4, <1>5, <3>1, <3>4 DEF Working
    <3>9. Len(fromProg') + Len(oks') = Len(done') /\ Len(asked') = Len(done') + Working' + Len(toProg')
      BY <3>2, <3>3, <3>4, <3>8
    <3>10. /\ server' \in {"ping", "waits"} => Len(asked') = Len(oks') + 1
           /\ server' \in {"idle", "dead"} => Len(asked') = Len(oks')
      BY <1>1, <1>4 DEF FtdiFlow
    <3> QED
      BY <3>1, <3>6, <3>7, <3>8, <3>9, <3>10 DEF FtdiFlow
  <2> QED
    BY <1>3, <2>1, <2>2, <2>3, AckedNext
<1> QED
  BY <1>2, <1>7, <1>8

(* ... and what will have come in the end: what is sent is sent no more.   *)
LEMMA FtdiDataStep == FtdiInv /\ Step => FtdiData'
<1> SUFFICES ASSUME FtdiInv, Step PROVE FtdiData'
  OBVIOUS
<1>1. FtdiShape /\ FtdiData
  BY DEF FtdiInv
<1>2. todo \in Seq(Actions) /\ todo # <<>> /\ prog \in {"start", "busy"}
  BY <1>1, FtdiTodo DEF Step
<1>3. PICK s \in Actions, t \in Seq(Actions) :
        s = Head(todo) /\ t = Tail(todo) /\ Sent(todo) = s.bytes \o Sent(t)
  BY <1>2, SentTail
<1>4. /\ chip' = IF s.do = "send" THEN Taken(chip, s.bytes) ELSE chip
      /\ done' = IF s.do = "ack" THEN Append(done, command) ELSE done
      /\ todo' = t /\ prog' = IF t = <<>> THEN "poll" ELSE prog
      /\ command' = command
  BY <1>3 DEF Step
<1>5. PICK b \in Seq(Bytes), r \in Seq(Bytes) : b = s.bytes /\ r = Sent(t) /\ (s.do # "send" => b = <<>>)
  <2>1. s.bytes \in Seq(Bytes) /\ (s.do # "send" => s.bytes = <<>>)
    BY ActionsHave
  <2>2. Sent(t) \in Seq(Bytes)
    BY SentConcat
  <2> QED
    BY <2>1, <2>2
<1>6. Taken(chip', Sent(todo')) = Taken(chip, Sent(todo))
  <2>1. Taken(chip, b \o r) = Taken(Taken(chip, b), r)
    BY TakenConcat
  <2>2. chip' = Taken(chip, b)
    <3>1. CASE s.do = "send"
      BY <1>4, <1>5, <3>1
    <3>2. CASE s.do # "send"
      BY <1>4, <1>5, <3>2, TakenEmpty
    <3> QED
      BY <3>1, <3>2
  <2>3. Sent(todo') = r /\ Sent(todo) = b \o r
    BY <1>3, <1>4, <1>5
  <2> QED
    BY <2>1, <2>2, <2>3
<1>7. Owed' = Owed
  <2>1. CASE prog = "start"
    <3>1. todo \in Seq(Silent)
      BY <1>1, <2>1 DEF FtdiShape
    <3>2. s \in Silent
      BY <1>2, <1>3, <3>1, HeadTailProperties
    <3>3. s.do # "ack"
      BY <3>2 DEF Silent
    <3>4. done' = done /\ prog' # "busy"
      BY <1>4, <2>1, <3>3
    <3> QED
      BY <2>1, <3>4 DEF Owed
  <2>2. CASE prog = "busy"
    <3>1. Acked(todo)
      BY <1>1, <2>2 DEF FtdiShape
    <3>2. CASE s \in Silent /\ t # <<>>
      <4>1. s.do # "ack"
        BY <3>2 DEF Silent
      <4>2. done' = done /\ prog' = "busy" /\ command' = command
        BY <1>4, <2>2, <3>2, <4>1
      <4> QED
        BY <2>2, <4>2 DEF Owed
    <3>3. CASE s.do = "ack" /\ t = <<>>
      <4>1. done' = Append(done, command) /\ prog' = "poll"
        BY <1>4, <3>3
      <4> QED
        BY <2>2, <4>1 DEF Owed
    <3> QED
      BY <1>3, <3>1, <3>2, <3>3, AckedNext
  <2> QED
    BY <1>2, <2>1, <2>2
<1>8. WellDone(Taken(chip, Sent(todo)), Owed)
  BY <1>1, <1>2 DEF FtdiData
<1>9. WellDone(Taken(chip', Sent(todo')), Owed')
  BY <1>6, <1>7, <1>8
<1> QED
  BY <1>9 DEF FtdiData

(* An answer that arrives does not matter.                                 *)
LEMMA FtdiInvArrive == FtdiInv /\ Arrive => FtdiInv'
<1> SUFFICES ASSUME FtdiInv, Arrive PROVE FtdiInv'
  OBVIOUS
<1>1. FtdiShape /\ FtdiFlow /\ FtdiData
  BY DEF FtdiInv
<1>2. /\ todo' = todo /\ command' = command /\ prog' = prog /\ toProg' = toProg /\ fromProg' = fromProg
      /\ server' = server /\ asked' = asked /\ done' = done /\ oks' = oks
  BY DEF Arrive, progVars
<1>3. chip \in Chips /\ chip.answers \in Nat /\ fifo \in Nat
  BY <1>1, ChipFields DEF FtdiShape
<1>4. PICK n \in Nat : n = chip.answers - 1
  BY <1>3 DEF Arrive
<1>5. chip' = [chip EXCEPT !.answers = n] /\ fifo' \in Nat
  BY <1>3, <1>4 DEF Arrive
<1>6. Same(chip', chip)
  BY <1>3, <1>5, ChipFields DEF Same, Chips
<1>7. FtdiShape'
  BY <1>1, <1>2, <1>5, <1>6 DEF FtdiShape, Same
<1>8. FtdiFlow'
  BY <1>1, <1>2 DEF FtdiFlow, Working, Leading
<1>9. FtdiData'
  <2>1. SUFFICES ASSUME prog # "gone" PROVE WellDone(Taken(chip', Sent(todo')), Owed')
    BY <1>2 DEF FtdiData
  <2>2. Owed' = Owed /\ WellDone(Taken(chip, Sent(todo)), Owed)
    BY <1>1, <1>2, <2>1 DEF FtdiData, Owed
  <2>3. Sent(todo) \in Seq(Bytes)
    BY <1>1, FtdiTodo, SentConcat
  <2>4. Same(Taken(chip', Sent(todo)), Taken(chip, Sent(todo)))
    BY <1>6, <2>3, TakenSame
  <2>5. WellDone(Taken(chip', Sent(todo)), Owed)
    BY <2>2, <2>4, SameDone
  <2> QED
    BY <1>2, <2>2, <2>5
<1> QED
  BY <1>7, <1>8, <1>9 DEF FtdiInv

(* The exit of the program.                                                *)
LEMMA FtdiInvExit ==
  FtdiInv /\ BoardExit /\ UNCHANGED <<chipVars, command, server, asked, done, oks>> /\ prog # "gone" => FtdiInv'
<1> SUFFICES ASSUME FtdiInv, BoardExit, UNCHANGED <<chipVars, command, server, asked, done, oks>>, prog # "gone"
             PROVE  FtdiInv'
  OBVIOUS
<1>1. FtdiShape /\ FtdiFlow
  BY DEF FtdiInv
<1>2. /\ prog' = "gone" /\ fromProg' = Append(fromProg, "exit") /\ todo' = <<>> /\ toProg' = <<>>
      /\ chip' = chip /\ fifo' = fifo /\ command' = command /\ server' = server /\ asked' = asked
      /\ done' = done /\ oks' = oks
  BY DEF BoardExit, Tell, chipVars
<1>4. fromProg \in Seq(Reports) /\ fromProg' = Append(fromProg, "exit")
  BY <1>1, <1>2 DEF FtdiShape, Reports
<1>5. fromProg' \in Seq(Reports) /\ Len(fromProg') = Len(fromProg) + 1 /\ Len(fromProg) \in Nat
  BY <1>4, ReportsAre, MoreOf
<1>6. FtdiShape'
  BY <1>1, <1>2, <1>5, EmptySeq DEF FtdiShape, Reports
<1>7. Len(done) \in Nat /\ Len(oks) \in Nat
  BY <1>1, LenProperties DEF FtdiShape
<1>8. Len(fromProg) + Len(oks) = Len(done)
  BY <1>1 DEF FtdiFlow
<1>9. Len(fromProg') + Len(oks') <= Len(done') + 1
  BY <1>2, <1>5, <1>7, <1>8
<1>10. FtdiFlow'
  BY <1>1, <1>2, <1>9 DEF FtdiFlow, Leading
<1>11. FtdiData'
  BY <1>2 DEF FtdiData
<1> QED
  BY <1>6, <1>10, <1>11 DEF FtdiInv

(* The program turns to a command: what it will do is what the command     *)
(* asks.                                                                   *)
LEMMA FtdiInvRead == FtdiInv /\ ReadCommand => FtdiInv'
<1> SUFFICES ASSUME FtdiInv, ReadCommand PROVE FtdiInv'
  OBVIOUS
<1>1. FtdiShape /\ FtdiFlow /\ FtdiData /\ prog = "poll" /\ toProg # <<>>
  BY DEF FtdiInv, ReadCommand
<1>2. PICK r \in Asked, t \in Seq(Asked) : r = Head(toProg) /\ t = Tail(toProg) /\ Len(t) + 1 = Len(toProg) /\ r = toProg[1]
  <2>1. toProg \in Seq(Asked)
    BY <1>1 DEF FtdiShape
  <2> QED
    BY <1>1, <2>1, FirstOf
<1>3. chip' = chip /\ fifo' = fifo /\ server' = server /\ asked' = asked /\ done' = done /\ oks' = oks
  BY DEF ReadCommand, chipVars
<1>4. CASE ~(r.cmd \in 0 .. 3)
  <2>1. BoardExit /\ command' = command
    BY <1>2, <1>4 DEF ReadCommand
  <2>2. UNCHANGED <<chipVars, command, server, asked, done, oks>>
    BY <1>3, <2>1 DEF chipVars
  <2> QED
    BY <1>1, <2>1, <2>2, FtdiInvExit
<1>5. CASE r.cmd \in 0 .. 3
  <2>1. command' = r /\ todo' = Script(r) /\ prog' = "busy" /\ toProg' = t /\ fromProg' = fromProg
    BY <1>2, <1>5 DEF ReadCommand
  <2>2. todo = <<>> /\ done \in Seq(Asked) /\ chip \in Chips
    BY <1>1 DEF FtdiShape
  <2>3. WellDone(chip, done)
    BY <1>1, <2>2, SentNothing, TakenEmpty DEF FtdiData, Owed
  <2>4. PICK q, d : Script(r) = q \o Ack /\ q \in Seq(Silent) /\ Leads(q, chip, d) /\ WellDone(d, Append(done, r))
    BY <1>5, <2>2, <2>3, ScriptDone
  <2>5. FtdiShape'
    <3>1. Acked(todo')
      BY <2>1, <2>4 DEF Acked
    <3> QED
      BY <1>1, <1>2, <1>3, <2>1, <3>1 DEF FtdiShape
  <2>6. FtdiFlow'
    <3>1. PICK a \in Nat, b \in Nat, m \in Nat, n \in Nat, k \in Nat :
            a = Len(asked) /\ b = Len(done) /\ m = Len(oks) /\ n = Len(fromProg) /\ k = Len(t)
      BY <1>1, <1>2, LenProperties DEF FtdiShape
    <3>2. n + m = b /\ a = b + (k + 1) /\ a <= m + 1 /\ r = asked[b + 1]
      <4>1. Len(toProg) = k + 1 /\ Working = 0
        BY <1>1, <1>2, <3>1 DEF Working
      <4> QED
        BY <1>1, <1>2, <3>1, <4>1 DEF FtdiFlow, FtdiShape
    <3>3. k = 0 /\ t = <<>>
      BY <1>2, <3>1, <3>2, EmptySeq
    <3>4. Working' = 1
      BY <2>1 DEF Working
    <3>5. Len(asked') = Len(done') + Working' + Len(toProg')
      BY <1>3, <2>1, <3>1, <3>2, <3>3, <3>4
    <3>6. command' = asked'[Len(done') + 1]
      BY <1>3, <2>1, <3>1, <3>2
    <3>7. Leading(done', asked') /\ Leading(oks', asked')
      BY <1>1, <1>3 DEF FtdiFlow
    <3>8. /\ server' \in {"ping", "waits"} => Len(asked') = Len(oks') + 1
          /\ server' \in {"idle", "dead"} => Len(asked') = Len(oks')
          /\ Len(fromProg') + Len(oks') = Len(done')
      BY <1>1, <1>3, <2>1 DEF FtdiFlow
    <3> QED
      BY <2>1, <3>3, <3>5, <3>6, <3>7, <3>8 DEF FtdiFlow
  <2>7. FtdiData'
    <3>1. PICK s \in Seq(Actions), u \in Seq(Actions) : s = q /\ u = Ack /\ Sent(u) = <<>>
      <4>1. AckStep \in Actions /\ AckStep.bytes = <<>>
        BY DEF AckStep, Actions
      <4>2. Ack = <<AckStep>>
        BY DEF Ack, AckStep
      <4>3. Ack \in Seq(Actions) /\ Sent(Ack) = <<>>
        BY <4>1, <4>2, SentOne
      <4>4. q \in Seq(Actions)
        BY <2>4, SilentActs
      <4> QED
        BY <4>3, <4>4
    <3>2. Sent(s) \in Seq(Bytes) /\ Sent(s \o u) = Sent(s) \o Sent(u)
      BY SentConcat
    <3>3. Sent(s) \o <<>> = Sent(s)
      BY <3>2, ConcatEmptySeq
    <3>4. Sent(todo') = Sent(q)
      BY <2>1, <2>4, <3>1, <3>2, <3>3
    <3>5. Same(Taken(chip, Sent(q)), d)
      BY <2>4 DEF Leads
    <3>6. WellDone(Taken(chip, Sent(q)), Append(done, r))
      BY <2>4, <3>5, SameDone
    <3>7. Owed' = Append(done, r)
      BY <1>3, <2>1 DEF Owed
    <3>8. WellDone(Taken(chip', Sent(todo')), Owed')
      BY <1>3, <3>4, <3>6, <3>7
    <3> QED
      BY <3>8 DEF FtdiData
  <2> QED
    BY <2>5, <2>6, <2>7 DEF FtdiInv
<1> QED
  BY <1>4, <1>5

(* The other steps leave the program and the chip alone.                   *)
LEMMA FtdiDataKept ==
  FtdiData /\ UNCHANGED <<chip, progVars, done>> => FtdiData'
BY DEF FtdiData, progVars, Owed

(* The timeout of the poll.                                                *)
LEMMA FtdiInvTimeout == FtdiInv /\ PollTimeout => FtdiInv'
<1> SUFFICES ASSUME FtdiInv, PollTimeout PROVE FtdiInv'
  OBVIOUS
<1>1. FtdiShape /\ FtdiFlow /\ FtdiData
  BY DEF FtdiInv
<1>2. /\ fifo' = 0 /\ chip' = chip /\ todo' = todo /\ command' = command /\ prog' = prog
      /\ toProg' = toProg /\ fromProg' = fromProg
      /\ server' = server /\ asked' = asked /\ done' = done /\ oks' = oks
  BY DEF PollTimeout, progVars
<1>3. UNCHANGED <<chip, progVars, done>>
  BY DEF PollTimeout
<1>4. FtdiShape'
  BY <1>1, <1>2 DEF FtdiShape
<1>5. FtdiFlow'
  BY <1>1, <1>2 DEF FtdiFlow, Working, Leading
<1>6. FtdiData'
  BY <1>1, <1>3, FtdiDataKept
<1> QED
  BY <1>4, <1>5, <1>6 DEF FtdiInv

(* The board is unplugged.                                                 *)
LEMMA FtdiInvUnplugged == FtdiInv /\ BoardUnplugged => FtdiInv'
<1> SUFFICES ASSUME FtdiInv, BoardUnplugged PROVE FtdiInv'
  OBVIOUS
<1>1. prog # "gone" /\ BoardExit /\ UNCHANGED <<chipVars, command, server, asked, done, oks>>
  BY DEF BoardUnplugged
<1> QED
  BY <1>1, FtdiInvExit

(* A request is sent: none was under way, unless the program is gone.      *)
LEMMA FtdiInvAsk == ASSUME NEW r \in Requests PROVE FtdiInv /\ Ask(r) => FtdiInv'
<1> SUFFICES ASSUME FtdiInv, Ask(r) PROVE FtdiInv'
  OBVIOUS
<1>1. FtdiShape /\ FtdiFlow /\ FtdiData
  BY DEF FtdiInv
<1>2. /\ chip' = chip /\ fifo' = fifo /\ todo' = todo /\ command' = command /\ prog' = prog
      /\ fromProg' = fromProg /\ done' = done /\ oks' = oks /\ server = "idle" /\ server' = "waits"
      /\ asked' = Append(asked, r) /\ toProg' = IF prog = "gone" THEN toProg ELSE Append(toProg, r)
  BY DEF Ask, ToProgram, chipVars, progVars
<1>3. r \in Asked
  BY DEF Asked
<1>4. /\ asked \in Seq(Asked) /\ toProg \in Seq(Asked) /\ done \in Seq(Asked) /\ oks \in Seq(Asked)
      /\ fromProg \in Seq(Reports)
  BY <1>1 DEF FtdiShape, Reports
<1>5. asked' \in Seq(Asked) /\ Len(asked') = Len(asked) + 1
  BY <1>2, <1>3, <1>4, MoreOf
<1>6. toProg' \in Seq(Asked)
  <2>1. Append(toProg, r) \in Seq(Asked)
    BY <1>3, <1>4, MoreOf
  <2> QED
    BY <1>2, <1>4, <2>1
<1>7. FtdiShape'
  BY <1>1, <1>2, <1>5, <1>6 DEF FtdiShape
<1>8. UNCHANGED <<chip, progVars, done>>
  BY <1>2 DEF Ask
<1>9. FtdiData'
  BY <1>1, <1>8, FtdiDataKept
<1>10. FtdiFlow'
  <2>1. PICK a \in Nat, b \in Nat, m \in Nat, n \in Nat, k \in Nat :
          a = Len(asked) /\ b = Len(done) /\ m = Len(oks) /\ n = Len(fromProg) /\ k = Len(toProg)
    BY <1>4, LenProperties
  <2>2. a = m
    BY <1>1, <1>2, <2>1 DEF FtdiFlow
  <2>3. Leading(done', asked') /\ Leading(oks', asked')
    <3>1. Leading(done, asked) /\ Leading(oks, asked)
      BY <1>1 DEF FtdiFlow
    <3>2. Leading(done, Append(asked, r))
      BY <1>3, <1>4, <3>1, LeadingLonger
    <3>3. Leading(oks, Append(asked, r))
      BY <1>3, <1>4, <3>1, LeadingLonger
    <3> QED
      BY <1>2, <3>2, <3>3
  <2>4. server' = "waits" /\ Len(asked') = Len(oks') + 1
    BY <1>2, <1>5, <2>1, <2>2
  <2>5. CASE prog = "gone"
    <3>1. toProg = <<>> /\ Len(fromProg) + Len(oks) <= Len(done) + 1
      BY <1>1, <2>5 DEF FtdiFlow
    <3>2. prog' = "gone" /\ toProg' = <<>> /\ Len(fromProg') + Len(oks') <= Len(done') + 1
      BY <1>2, <2>5, <3>1
    <3> QED
      BY <2>3, <2>4, <3>2 DEF FtdiFlow
  <2>6. CASE prog # "gone"
    <3>1. n + m = b /\ a = b + Working + k /\ Working \in {0, 1}
      BY <1>1, <2>1, <2>6 DEF FtdiFlow, Working
    <3>2. n = 0 /\ b = a /\ k = 0 /\ Working = 0
      BY <2>2, <3>1
    <3>3. prog # "busy" /\ toProg = <<>>
      <4>1. prog # "busy"
        BY <3>2 DEF Working
      <4>2. toProg \in Seq(Asked) /\ Len(toProg) = 0
        BY <1>4, <2>1, <3>2
      <4> QED
        BY <4>1, <4>2, EmptySeq
    <3>4. toProg' = <<r>> /\ prog' # "busy" /\ prog' # "gone" /\ Working' = 0
      BY <1>2, <2>6, <3>3 DEF Working
    <3>5. Len(toProg') = 1 /\ toProg'[1] = r
      BY <3>4
    <3>6. Append(asked, r)[Len(asked) + 1] = r
      BY <1>3, <1>4, AppendProperties
    <3>7. toProg'[1] = asked'[Len(done') + 1]
      BY <1>2, <2>1, <3>2, <3>5, <3>6
    <3>8. Len(fromProg') + Len(oks') = Len(done') /\ Len(asked') = Len(done') + Working' + Len(toProg')
      BY <1>2, <1>5, <2>1, <2>2, <3>2, <3>4, <3>5
    <3> QED
      BY <2>3, <2>4, <3>4, <3>7, <3>8 DEF FtdiFlow
  <2> QED
    BY <2>5, <2>6
<1> QED
  BY <1>7, <1>9, <1>10 DEF FtdiInv

(* The server takes an acknowledgement, or the exit for one.               *)
LEMMA FtdiInvWaitAck == FtdiInv /\ WaitAck => FtdiInv'
<1> SUFFICES ASSUME FtdiInv, WaitAck PROVE FtdiInv'
  OBVIOUS
<1>1. FtdiShape /\ FtdiFlow /\ FtdiData
  BY DEF FtdiInv
<1>2. /\ chip' = chip /\ fifo' = fifo /\ todo' = todo /\ command' = command /\ prog' = prog
      /\ toProg' = toProg /\ done' = done /\ asked' = asked
      /\ server \in {"ping", "waits"} /\ server' = "idle"
      /\ fromProg # <<>> /\ fromProg' = Tail(fromProg) /\ oks' = Append(oks, asked[Len(asked)])
  BY DEF WaitAck, chipVars, progVars
<1>3. asked \in Seq(Asked) /\ oks \in Seq(Asked) /\ fromProg \in Seq(Reports) /\ done \in Seq(Asked)
  BY <1>1 DEF FtdiShape, Reports
<1>4. PICK a \in Nat, m \in Nat, n \in Nat, b \in Nat :
        a = Len(asked) /\ m = Len(oks) /\ n = Len(fromProg) /\ b = Len(done)
  BY <1>3, LenProperties
<1>5. a = m + 1
  BY <1>1, <1>2, <1>4 DEF FtdiFlow
<1>6. PICK x \in Asked : x = asked[Len(asked)]
  <2>1. a \in 1 .. Len(asked)
    BY <1>4, <1>5
  <2> QED
    BY <1>3, <1>4, <2>1, ElementOfSeq
<1>7. oks' \in Seq(Asked) /\ Len(oks') = m + 1
  BY <1>2, <1>3, <1>4, <1>6, MoreOf
<1>8. fromProg' \in Seq(Reports) /\ Len(fromProg') + 1 = n
  BY <1>2, <1>3, <1>4, FirstOf
<1>9. FtdiShape'
  BY <1>1, <1>2, <1>7, <1>8 DEF FtdiShape, Reports
<1>10. UNCHANGED <<chip, progVars, done>>
  BY <1>2 DEF WaitAck
<1>11. FtdiData'
  BY <1>1, <1>10, FtdiDataKept
<1>12. Leading(oks', asked')
  <2>1. Leading(oks, asked) /\ Len(oks) < Len(asked) /\ x = asked[Len(oks) + 1]
    <3>1. Len(asked) = Len(oks) + 1 /\ Len(oks) < Len(asked)
      BY <1>4, <1>5
    <3>2. Leading(oks, asked)
      BY <1>1 DEF FtdiFlow
    <3> QED
      BY <1>6, <3>1, <3>2
  <2>2. Leading(Append(oks, x), asked)
    BY <1>3, <2>1, LeadingLonger
  <2> QED
    BY <1>2, <1>6, <2>2
<1>13. Len(asked') = Len(oks') /\ Len(fromProg') + Len(oks') = Len(fromProg) + Len(oks)
  <2>1. PICK k : k = Len(fromProg') /\ k + 1 = n /\ k \in Nat
    BY <1>8, LenProperties
  <2> QED
    BY <1>2, <1>4, <1>5, <1>7, <2>1
<1>14. FtdiFlow'
  BY <1>1, <1>2, <1>12, <1>13 DEF FtdiFlow, Working
<1> QED
  BY <1>9, <1>11, <1>14 DEF FtdiInv

(* A message that nobody waits for is the exit of a program that is gone.  *)
LEMMA FtdiInvPortMessage == FtdiInv /\ PortMessage => FtdiInv'
<1> SUFFICES ASSUME FtdiInv, PortMessage PROVE FtdiInv'
  OBVIOUS
<1>1. FtdiShape /\ FtdiFlow /\ FtdiData
  BY DEF FtdiInv
<1>2. /\ chip' = chip /\ fifo' = fifo /\ todo' = todo /\ command' = command /\ prog' = prog
      /\ toProg' = toProg /\ done' = done /\ asked' = asked /\ oks' = oks
      /\ server = "idle" /\ server' = "dead" /\ fromProg # <<>> /\ fromProg' = Tail(fromProg)
  BY DEF PortMessage, chipVars, progVars
<1>3. /\ fromProg \in Seq(Reports) /\ asked \in Seq(Asked) /\ oks \in Seq(Asked) /\ done \in Seq(Asked)
      /\ toProg \in Seq(Asked)
  BY <1>1 DEF FtdiShape, Reports
<1>4. PICK a \in Nat, m \in Nat, n \in Nat, b \in Nat, k \in Nat :
        a = Len(asked) /\ m = Len(oks) /\ n = Len(fromProg) /\ b = Len(done) /\ k = Len(toProg)
  BY <1>3, LenProperties
<1>5. fromProg' \in Seq(Reports) /\ Len(fromProg') + 1 = n
  BY <1>2, <1>3, <1>4, FirstOf
<1>6. prog = "gone"
  <2>1. SUFFICES ASSUME prog # "gone" PROVE FALSE
    OBVIOUS
  <2>2. a = m /\ n + m = b /\ a = b + Working + k /\ Working \in {0, 1}
    BY <1>1, <1>2, <1>4, <2>1 DEF FtdiFlow, Working
  <2>3. n = 0
    BY <2>2
  <2> QED
    BY <1>2, <1>3, <1>4, <2>3, EmptySeq
<1>7. FtdiShape'
  BY <1>1, <1>2, <1>5 DEF FtdiShape, Reports
<1>8. Len(fromProg') + Len(oks') <= Len(done') + 1
  <2>1. n + m <= b + 1
    BY <1>1, <1>4, <1>6 DEF FtdiFlow
  <2>2. PICK j : j = Len(fromProg') /\ j + 1 = n /\ j \in Nat
    BY <1>5, LenProperties
  <2> QED
    BY <1>2, <1>4, <2>1, <2>2
<1>9. FtdiFlow'
  BY <1>1, <1>2, <1>6, <1>8 DEF FtdiFlow, Working, Leading
<1>10. FtdiData'
  BY <1>2, <1>6 DEF FtdiData
<1> QED
  BY <1>7, <1>9, <1>10 DEF FtdiInv

(* Every step keeps the invariant.                                         *)
LEMMA FtdiInvNext == FtdiInv /\ [FtdiNext]_ftdiVars => FtdiInv'
<1> SUFFICES ASSUME FtdiInv, [FtdiNext]_ftdiVars PROVE FtdiInv'
  OBVIOUS
<1>1. CASE Arrive
  BY <1>1, FtdiInvArrive
<1>2. CASE Step
  BY <1>2, FtdiShapeStep, FtdiFlowStep, FtdiDataStep DEF FtdiInv
<1>3. CASE ReadCommand
  BY <1>3, FtdiInvRead
<1>4. CASE PollTimeout
  BY <1>4, FtdiInvTimeout
<1>5. CASE BoardUnplugged
  BY <1>5, FtdiInvUnplugged
<1>6. CASE \E r \in Requests : Ask(r)
  BY <1>6, FtdiInvAsk
<1>7. CASE WaitAck
  BY <1>7, FtdiInvWaitAck
<1>8. CASE PortMessage
  BY <1>8, FtdiInvPortMessage
<1>9. CASE UNCHANGED ftdiVars
  <2>1. /\ chip' = chip /\ fifo' = fifo /\ todo' = todo /\ command' = command /\ prog' = prog
        /\ toProg' = toProg /\ fromProg' = fromProg
        /\ server' = server /\ asked' = asked /\ done' = done /\ oks' = oks
    BY <1>9 DEF ftdiVars, chipVars, progVars
  <2>2. UNCHANGED <<chip, progVars, done>>
    BY <1>9 DEF ftdiVars, chipVars
  <2>3. FtdiShape' /\ FtdiFlow'
    BY <2>1 DEF FtdiInv, FtdiShape, FtdiFlow, Working, Leading
  <2> QED
    BY <2>2, <2>3, FtdiDataKept DEF FtdiInv
<1> QED
  BY <1>1, <1>2, <1>3, <1>4, <1>5, <1>6, <1>7, <1>8, <1>9 DEF FtdiNext

(* The invariant holds in every behaviour.                                 *)
LEMMA FtdiAlways == FtdiSpec => []FtdiInv
<1>1. FtdiInit => FtdiInv
  BY FtdiInitInv
<1>2. FtdiInv /\ [FtdiNext]_ftdiVars => FtdiInv'
  BY FtdiInvNext
<1> QED
  BY <1>1, <1>2, PTL DEF FtdiSpec

(* It has the types ...                                                    *)
LEMMA FtdiInvTyped == FtdiInv => FtdiTypeOK
<1> SUFFICES ASSUME FtdiInv PROVE FtdiTypeOK
  OBVIOUS
<1>1. FtdiShape /\ FtdiFlow
  BY DEF FtdiInv
<1>2. prog \in {"start", "busy"} <=> todo # <<>>
  BY <1>1, AckedNext DEF FtdiShape
<1>3. PICK a \in Nat, m \in Nat, n \in Nat, b \in Nat, k \in Nat :
        a = Len(asked) /\ m = Len(oks) /\ n = Len(fromProg) /\ b = Len(done) /\ k = Len(toProg)
  BY <1>1, LenProperties DEF FtdiShape
<1>4. a <= m + 1 /\ b <= a
  BY <1>1, <1>3 DEF FtdiFlow, FtdiShape, Leading
<1>5. k <= 1 /\ n <= 2
  <2>1. CASE prog = "gone"
    <3>1. n + m <= b + 1 /\ k = 0
      BY <1>1, <1>3, <2>1, EmptySeq DEF FtdiFlow
    <3> QED
      BY <1>4, <3>1
  <2>2. CASE prog # "gone"
    <3>1. n + m = b /\ a = b + Working + k /\ Working \in {0, 1}
      BY <1>1, <1>3, <2>2 DEF FtdiFlow, Working
    <3> QED
      BY <1>4, <3>1
  <2> QED
    BY <2>1, <2>2
<1> QED
  BY <1>1, <1>2, <1>3, <1>5 DEF FtdiTypeOK, FtdiShape

(* ... and what is promised of transfers.                                  *)
LEMMA FtdiInvTransfers == FtdiInv => FtdiTransfers
<1> SUFFICES ASSUME FtdiInv PROVE FtdiTransfers
  OBVIOUS
<1>1. FtdiShape /\ FtdiFlow /\ FtdiData
  BY DEF FtdiInv
<1>2. prog = "poll" => WellDone(chip, done)
  <2>1. SUFFICES ASSUME prog = "poll" PROVE WellDone(chip, done)
    OBVIOUS
  <2>2. todo = <<>>
    BY <1>1, <2>1 DEF FtdiShape
  <2> QED
    BY <1>1, <2>1, <2>2, SentNothing, TakenEmpty DEF FtdiData, Owed
<1>3. ChipInStep
  BY <1>2 DEF ChipInStep, WellDone, Waiting
<1>4. BytesAsSent
  BY <1>2 DEF BytesAsSent, WellDone, Agree, DataAgrees
<1>5. BitstreamsConfigure
  BY <1>2, Zenon DEF BitstreamsConfigure, WellDone, Agree, StreamsAgree
<1>6. OkMeansDone
  <2>1. PICK a \in Nat, m \in Nat, n \in Nat, b \in Nat :
          a = Len(asked) /\ m = Len(oks) /\ n = Len(fromProg) /\ b = Len(done)
    BY <1>1, LenProperties DEF FtdiShape
  <2>2. ASSUME NEW i \in 1 .. Len(oks), i <= Len(done) PROVE oks[i] = done[i]
    <3>1. i \in 1 .. Len(done)
      BY <2>1, <2>2
    <3> QED
      BY <1>1, <2>2, <3>1 DEF FtdiFlow, Leading
  <2>3. Len(oks) <= Len(done) + (IF prog = "gone" THEN 1 ELSE 0)
    <3>1. CASE prog = "gone"
      <4>1. n + m <= b + 1
        BY <1>1, <2>1, <3>1 DEF FtdiFlow
      <4> QED
        BY <2>1, <3>1, <4>1
    <3>2. CASE prog # "gone"
      <4>1. n + m = b
        BY <1>1, <2>1, <3>2 DEF FtdiFlow
      <4> QED
        BY <2>1, <3>2, <4>1
    <3> QED
      BY <3>1, <3>2
  <2> QED
    BY <2>2, <2>3 DEF OkMeansDone
<1> QED
  BY <1>3, <1>4, <1>5, <1>6 DEF FtdiTransfers

(* Every reachable state has the types of FtdiTypeOK: no more than one     *)
(* request is on its way to the program, and no more than two messages are *)
(* on theirs to the server.                                                *)
THEOREM FtdiTypeCorrect == FtdiSpec => []FtdiTypeOK
BY FtdiAlways, FtdiInvTyped, PTL

(* FtdiTransfers: whenever ftdi_connect turns to its next command the chip *)
(* waits for a new one, the data of every transfer has reached the FPGA    *)
(* once and in order, a bitstream is a configuration of its own, and       *)
(* requests are acknowledged in turn after they were executed, but for one *)
(* acknowledgement of a program that is gone.                              *)
THEOREM FtdiTransfersCorrect == FtdiSpec => []FtdiTransfers
BY FtdiAlways, FtdiInvTransfers, PTL

=============================================================================
