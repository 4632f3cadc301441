---------------------------- MODULE PlayerProofs ----------------------------
(***************************************************************************)
(* Proofs about Recorder and Player: what the recorder keeps and how much  *)
(* of the disk it takes, whatever is recorded and whenever the node is     *)
(* killed, and that the player knows the processes it controls.            *)
(***************************************************************************)
EXTENDS Player, FiniteSetTheorems, TLAPS

(* Induction over a finite set: what is true of some of its subsets is     *)
(* true of one that is true of none of its own.                            *)
LEMMA LeastSet ==
  ASSUME NEW S, IsFiniteSet(S), NEW T \in SUBSET SUBSET S, T # {}
  PROVE  \E X \in T : \A Y \in T : Y \subseteq X => Y = X
<1> DEFINE R == StrictSubsetOrdering(S)
<1>1. IsWellFoundedOn(R, FiniteSubsetsOf(S))
  BY FS_StrictSubsetOrderingWellFounded
<1>2. T \subseteq FiniteSubsetsOf(S)
  BY FS_Subset DEF FiniteSubsetsOf
<1>3. PICK X \in T : \A Y \in T : ~(<<Y, X>> \in R)
  <2> HIDE DEF R
  <2> QED
    BY <1>1, <1>2, WFMin
<1>4. ASSUME NEW Y \in T, Y \subseteq X, Y # X PROVE FALSE
  <2>1. <<Y, X>> \in R
    BY <1>4 DEF StrictSubsetOrdering
  <2> QED
    BY <1>3, <2>1
<1> QED
  BY <1>4

-----------------------------------------------------------------------------
(* What SumFunction computes, of the subsets of S.                         *)
Choice(s) == CHOOSE x \in s : TRUE

IsSum(h, g, S) ==
  h = [s \in SUBSET S |-> IF s = {} THEN 0 ELSE LET x == Choice(s) IN g[x] + h[s \ {x}]]

Steps(h, g, S) ==
  \A s \in SUBSET S :
    /\ s = {} => h[s] = 0
    /\ s # {} => /\ h[s] = g[Choice(s)] + h[s \ {Choice(s)}]
                 /\ Choice(s) \in s /\ s \ {Choice(s)} \in SUBSET S
                 /\ s \ {Choice(s)} \subseteq s /\ s \ {Choice(s)} # s

(* One step of the recursion.                                              *)
LEMMA SumSteps ==
  ASSUME NEW S, NEW g, NEW h, IsSum(h, g, S)
  PROVE  Steps(h, g, S)
<1> SUFFICES ASSUME NEW s \in SUBSET S
             PROVE  /\ s = {} => h[s] = 0
                    /\ s # {} => /\ h[s] = g[Choice(s)] + h[s \ {Choice(s)}]
                                 /\ Choice(s) \in s /\ s \ {Choice(s)} \in SUBSET S
                                 /\ s \ {Choice(s)} \subseteq s /\ s \ {Choice(s)} # s
  BY DEF Steps
<1>1. h[s] = IF s = {} THEN 0 ELSE g[Choice(s)] + h[s \ {Choice(s)}]
  BY DEF IsSum
<1>2. s # {} => Choice(s) \in s
  BY DEF Choice
<1> QED
  BY <1>1, <1>2

(* The recursion over a smaller set has the same values.                   *)
LEMMA SumAgrees ==
  ASSUME NEW S, IsFiniteSet(S), NEW T \in SUBSET S, NEW g, NEW h, NEW k,
         IsSum(h, g, S), IsSum(k, g, T)
  PROVE  \A s \in SUBSET T : h[s] = k[s]
<1>0. Steps(h, g, S) /\ Steps(k, g, T)
  BY SumSteps
<1> DEFINE B == {s \in SUBSET T : h[s] # k[s]}
<1> SUFFICES ASSUME B # {} PROVE FALSE
  OBVIOUS
<1>1. PICK s \in B : \A t \in B : t \subseteq s => t = s
  <2>1. IsFiniteSet(T) /\ B \in SUBSET SUBSET T
    BY FS_Subset
  <2> HIDE DEF B
  <2> QED
    BY <2>1, LeastSet
<1>2. s \in SUBSET T /\ s \in SUBSET S /\ h[s] # k[s]
  OBVIOUS
<1>3. s # {}
  BY <1>0, <1>2 DEF Steps
<1> DEFINE x == Choice(s)
<1>4. /\ h[s] = g[x] + h[s \ {x}] /\ k[s] = g[x] + k[s \ {x}]
      /\ s \ {x} \in SUBSET T /\ s \ {x} \subseteq s /\ s \ {x} # s
  <2> HIDE DEF B
  <2> QED
    BY <1>0, <1>2, <1>3 DEF Steps
<1> HIDE DEF x
<1>5. h[s \ {x}] = k[s \ {x}]
  BY <1>1, <1>4
<1> QED
  BY <1>2, <1>4, <1>5

(* There is such a function.                                               *)
LEMMA SumExists ==
  ASSUME NEW S, IsFiniteSet(S), NEW g
  PROVE  \E h : IsSum(h, g, S)
<1> DEFINE B == {s \in SUBSET S : ~ \E h : IsSum(h, g, s)}
<1> SUFFICES ASSUME B # {} PROVE FALSE
  OBVIOUS
<1>1. PICK X \in B : \A t \in B : t \subseteq X => t = X
  <2>1. B \in SUBSET SUBSET S
    OBVIOUS
  <2> HIDE DEF B
  <2> QED
    BY <2>1, LeastSet
<1>2. X \in SUBSET S /\ ~ \E h : IsSum(h, g, X)
  OBVIOUS
<1>3. IsFiniteSet(X) /\ \A s \in SUBSET X : IsFiniteSet(s)
  BY <1>2, FS_Subset
<1> DEFINE K == [t \in SUBSET X |-> CHOOSE h : IsSum(h, g, t)]
<1>4. ASSUME NEW t \in SUBSET X, t # X PROVE IsSum(K[t], g, t)
  <2>1. t \in SUBSET S /\ t \notin B
    BY <1>1, <1>2, <1>4
  <2>2. \E h : IsSum(h, g, t)
    BY <2>1
  <2>3. K[t] = CHOOSE h : IsSum(h, g, t)
    OBVIOUS
  <2> QED
    BY <2>2, <2>3
<1> HIDE DEF K, B
<1>5. PICK h : h = [s \in SUBSET X |-> IF s = {} THEN 0
                                       ELSE IF s = X THEN g[Choice(s)] + K[s \ {Choice(s)}][s \ {Choice(s)}]
                                       ELSE K[s][s]]
  OBVIOUS
<1>6. ASSUME NEW s \in SUBSET X
      PROVE  h[s] = IF s = {} THEN 0 ELSE g[Choice(s)] + h[s \ {Choice(s)}]
  <2>1. CASE s = {}
    BY <1>5, <2>1
  <2>2. CASE s # {}
    <3> DEFINE x == Choice(s)
               t == s \ {x}
    <3>1. x \in s /\ t \in SUBSET X /\ t \in SUBSET s /\ t # s /\ t # X
      BY <2>2 DEF Choice
    <3>2. Steps(K[t], g, t) /\ IsSum(K[t], g, t)
      BY <1>4, <3>1, SumSteps
    <3>3. h[t] = K[t][t]
      <4>1. t = {} => K[t][t] = 0
        BY <3>2 DEF Steps
      <4>2. h[t] = IF t = {} THEN 0 ELSE K[t][t]
        <5> HIDE DEF t
        <5> QED
          BY <1>5, <3>1
      <4> QED
        BY <4>1, <4>2
    <3>4. h[s] = g[x] + K[t][t]
      <4>1. CASE s = X
        BY <1>5, <2>2, <4>1
      <4>2. CASE s # X
        <5>1. h[s] = K[s][s]
          BY <1>5, <2>2, <4>2
        <5>2. Steps(K[s], g, s) /\ IsSum(K[s], g, s)
          BY <1>4, <4>2, SumSteps
        <5>3. K[s][s] = g[x] + K[s][t]
          BY <2>2, <5>2 DEF Steps
        <5>4. K[s][t] = K[t][t]
          <6> HIDE DEF t
          <6>1. IsFiniteSet(s) /\ t \in SUBSET s
            BY <1>3, <3>1
          <6>2. PICK p, q : p = K[s] /\ q = K[t]
            OBVIOUS
          <6>3. IsSum(p, g, s) /\ IsSum(q, g, t)
            BY <3>2, <5>2, <6>2
          <6>4. \A u \in SUBSET t : p[u] = q[u]
            BY <6>1, <6>3, SumAgrees
          <6> QED
            BY <6>2, <6>4
        <5> QED
          BY <5>1, <5>3, <5>4
      <4> QED
        BY <4>1, <4>2
    <3> QED
      BY <2>2, <3>3, <3>4
  <2> QED
    BY <2>1, <2>2
<1>7. IsSum(h, g, X)
  <2>1. h = [s \in SUBSET X |-> h[s]]
    BY <1>5
  <2> QED
    BY <1>6, <2>1 DEF IsSum
<1> QED
  BY <1>2, <1>7

(* SumFunction is its value for the whole set.                             *)
LEMMA SumIs ==
  ASSUME NEW S, IsFiniteSet(S), NEW g, DOMAIN g = S
  PROVE  \E h : IsSum(h, g, S) /\ SumFunction(g) = h[S]
<1>1. SumFunction(g) = (CHOOSE h : IsSum(h, g, S))[S]
  BY DEF SumFunction, SumFunctionOnSet, FoldFunctionOnSet, MapThenFoldSet, IsSum, Choice
<1> QED
  BY <1>1, SumExists

-----------------------------------------------------------------------------
(* The sum does not depend on the order in which elements are chosen.      *)
LEMMA SumAnyOrder ==
  ASSUME NEW S, IsFiniteSet(S), NEW g \in [S -> Nat], NEW h, IsSum(h, g, S)
  PROVE  \A s \in SUBSET S : h[s] \in Nat /\ \A x \in s : h[s] = g[x] + h[s \ {x}]
<1>0. Steps(h, g, S)
  BY SumSteps
<1> DEFINE Good(s) == h[s] \in Nat /\ \A x \in s : h[s] = g[x] + h[s \ {x}]
           B == {s \in SUBSET S : ~Good(s)}
<1> SUFFICES ASSUME B # {} PROVE FALSE
  OBVIOUS
<1>1. PICK s \in B : \A t \in B : t \subseteq s => t = s
  <2>1. B \in SUBSET SUBSET S
    OBVIOUS
  <2> HIDE DEF B
  <2> QED
    BY <2>1, LeastSet
<1>2. s \in SUBSET S /\ ~Good(s)
  OBVIOUS
<1>3. ASSUME NEW t \in SUBSET S, t \subseteq s, t # s PROVE Good(t)
  <2> HIDE DEF Good
  <2> QED
    BY <1>1, <1>3
<1>4. s # {}
  <2>1. h[{}] = 0
    BY <1>0 DEF Steps
  <2> QED
    BY <1>2, <2>1
<1> DEFINE c == Choice(s)
<1>5. /\ h[s] = g[c] + h[s \ {c}] /\ c \in s /\ c \in S /\ g[c] \in Nat
      /\ s \ {c} \in SUBSET S /\ s \ {c} \subseteq s /\ s \ {c} # s
  BY <1>0, <1>2, <1>4 DEF Steps
<1> HIDE DEF c
<1>6. h[s \ {c}] \in Nat /\ \A x \in s \ {c} : h[s \ {c}] = g[x] + h[(s \ {c}) \ {x}]
  BY <1>3, <1>5
<1>7. h[s] \in Nat
  BY <1>5, <1>6
<1>8. ASSUME NEW x \in s PROVE h[s] = g[x] + h[s \ {x}]
  <2>1. CASE x = c
    BY <1>5, <2>1
  <2>2. CASE x # c
    <3>1. x \in s \ {c} /\ c \in s \ {x} /\ (s \ {c}) \ {x} = (s \ {x}) \ {c}
      BY <1>5, <2>2
    <3>2. /\ s \ {x} \in SUBSET S /\ s \ {x} \subseteq s /\ s \ {x} # s
      BY <1>2
    <3>3. h[s \ {x}] = g[c] + h[(s \ {x}) \ {c}]
      BY <1>3, <3>1, <3>2
    <3>4. h[s \ {c}] = g[x] + h[(s \ {x}) \ {c}]
      BY <1>6, <3>1
    <3>5. (s \ {x}) \ {c} \in SUBSET S /\ (s \ {x}) \ {c} \subseteq s /\ (s \ {x}) \ {c} # s
      BY <1>2, <1>5
    <3>6. h[(s \ {x}) \ {c}] \in Nat
      BY <1>3, <3>5
    <3>7. g[x] \in Nat /\ g[c] \in Nat
      BY <1>2, <1>5
    <3> QED
      BY <1>5, <3>3, <3>4, <3>6, <3>7
  <2> QED
    BY <2>1, <2>2
<1> QED
  BY <1>2, <1>7, <1>8

(* What is used of SumFunction: it is a number, elements can be taken out  *)
(* one by one, and a part is no more than the whole.                       *)
LEMMA SumFacts ==
  ASSUME NEW S, IsFiniteSet(S), NEW g \in [S -> Nat]
  PROVE  /\ SumFunction(g) \in Nat
         /\ S = {} => SumFunction(g) = 0
         /\ \A x \in S : SumFunction(g) = g[x] + SumFunction([y \in S \ {x} |-> g[y]])
         /\ \A T \in SUBSET S : SumFunction([y \in T |-> g[y]]) \in Nat
         /\ \A T \in SUBSET S : SumFunction([y \in T |-> g[y]]) <= SumFunction(g)
<1>1. PICK h : IsSum(h, g, S) /\ SumFunction(g) = h[S]
  BY SumIs
<1>2. \A s \in SUBSET S : h[s] \in Nat /\ \A x \in s : h[s] = g[x] + h[s \ {x}]
  BY <1>1, SumAnyOrder
<1>3. ASSUME NEW T \in SUBSET S PROVE SumFunction([y \in T |-> g[y]]) = h[T]
  <2> DEFINE f == [y \in T |-> g[y]]
  <2>1. IsFiniteSet(T) /\ DOMAIN f = T /\ \A y \in T : f[y] = g[y]
    BY FS_Subset
  <2> HIDE DEF f
  <2>2. PICK k : IsSum(k, f, T) /\ SumFunction(f) = k[T]
    BY <2>1, SumIs
  <2>5. Steps(k, f, T)
    BY <2>2, SumSteps
  <2>3. IsSum(k, g, T)
    <3>1. ASSUME NEW s \in SUBSET T
          PROVE  k[s] = IF s = {} THEN 0 ELSE g[Choice(s)] + k[s \ {Choice(s)}]
      <4>1. s # {} => Choice(s) \in s
        BY DEF Choice
      <4> QED
        BY <2>1, <2>5, <4>1 DEF Steps
    <3>2. k = [s \in SUBSET T |-> k[s]]
      BY <2>2 DEF IsSum
    <3> QED
      BY <3>1, <3>2 DEF IsSum
  <2>4. h[T] = k[T]
    BY <1>1, <2>3, SumAgrees
  <2> QED
    BY <2>2, <2>4 DEF f
<1>4. ASSUME NEW T \in SUBSET S PROVE h[T] <= h[S]
  <2> DEFINE B == {s \in SUBSET S : T \subseteq s /\ ~(h[T] <= h[s])}
  <2> SUFFICES ASSUME B # {} PROVE FALSE
    OBVIOUS
  <2>1. PICK s \in B : \A t \in B : t \subseteq s => t = s
    <3>1. B \in SUBSET SUBSET S
      OBVIOUS
    <3> HIDE DEF B
    <3> QED
      BY <3>1, LeastSet
  <2>2. s \in SUBSET S /\ T \subseteq s /\ ~(h[T] <= h[s]) /\ h[T] \in Nat /\ h[s] \in Nat
    BY <1>2
  <2>3. PICK x \in s : x \notin T
    BY <2>2
  <2>4. s \ {x} \in SUBSET S /\ T \subseteq s \ {x} /\ s \ {x} \subseteq s /\ s \ {x} # s
    BY <2>2, <2>3
  <2>5. h[T] <= h[s \ {x}]
    BY <2>1, <2>4
  <2>6. h[s] = g[x] + h[s \ {x}] /\ g[x] \in Nat /\ h[s \ {x}] \in Nat
    BY <1>2, <2>2, <2>4
  <2> QED
    BY <2>2, <2>5, <2>6
<1>5. S = {} => h[S] = 0
  BY <1>1, SumSteps DEF Steps
<1>6. S \in SUBSET S /\ \A x \in S : S \ {x} \in SUBSET S
  OBVIOUS
<1> QED
  BY <1>1, <1>2, <1>3, <1>4, <1>5, <1>6

-----------------------------------------------------------------------------
(* The largest and the least of some chunk numbers.                        *)
LEMMA MaxIs ==
  ASSUME NEW S \in SUBSET Nat, IsFiniteSet(S), S # {}
  PROVE  Max(S) \in S /\ \A y \in S : y <= Max(S)
<1> DEFINE Up(x) == {y \in S : x <= y}
           T == {Up(x) : x \in S}
<1>1. PICK X \in T : \A Y \in T : Y \subseteq X => Y = X
  <2>1. PICK W : W = S
    OBVIOUS
  <2>2. IsFiniteSet(W) /\ T \in SUBSET SUBSET W /\ T # {}
    BY <2>1
  <2> HIDE DEF T
  <2> QED
    BY <2>2, LeastSet
<1>2. PICK x \in S : X = Up(x)
  OBVIOUS
<1>3. ASSUME NEW y \in S PROVE y <= x
  <2> SUFFICES ASSUME ~(y <= x) PROVE FALSE
    OBVIOUS
  <2>1. x \in Nat /\ y \in Nat /\ S \subseteq Nat
    OBVIOUS
  <2>2. X = {z \in S : x <= z}
    BY <1>2
  <2>4. Up(y) \subseteq X /\ x \in X /\ x \notin Up(y)
    <3>1. \A z \in S : z \in Nat
      BY <2>1
    <3>2. x \in X
      BY <2>1, <2>2
    <3>3. x \notin Up(y)
      BY <2>1
    <3>4. \A z \in S : y <= z => x <= z
      BY <2>1, <3>1
    <3> QED
      BY <2>2, <3>2, <3>3, <3>4
  <2>3. Up(y) \in T
    OBVIOUS
  <2> QED
    BY <1>1, <2>3, <2>4
<1>4. \A a \in S : \A y \in S : x >= y
  BY <1>3
<1> QED
  BY <1>3, <1>4 DEF Max

(* The same for the least.                                                 *)
LEMMA MinIs ==
  ASSUME NEW S \in SUBSET Nat, IsFiniteSet(S), S # {}
  PROVE  Min(S) \in S /\ \A y \in S : Min(S) <= y
<1> DEFINE Down(x) == {y \in S : y <= x}
           T == {Down(x) : x \in S}
<1>1. PICK X \in T : \A Y \in T : Y \subseteq X => Y = X
  <2>1. PICK W : W = S
    OBVIOUS
  <2>2. IsFiniteSet(W) /\ T \in SUBSET SUBSET W /\ T # {}
    BY <2>1
  <2> HIDE DEF T
  <2> QED
    BY <2>2, LeastSet
<1>2. PICK x \in S : X = Down(x)
  OBVIOUS
<1>3. ASSUME NEW y \in S PROVE x <= y
  <2> SUFFICES ASSUME ~(x <= y) PROVE FALSE
    OBVIOUS
  <2>1. x \in Nat /\ y \in Nat /\ S \subseteq Nat
    OBVIOUS
  <2>2. X = {z \in S : z <= x}
    BY <1>2
  <2>4. Down(y) \subseteq X /\ x \in X /\ x \notin Down(y)
    <3>1. \A z \in S : z \in Nat
      BY <2>1
    <3>2. x \in X
      BY <2>1, <2>2
    <3>3. x \notin Down(y)
      BY <2>1
    <3>4. \A z \in S : z <= y => z <= x
      BY <2>1, <3>1
    <3> QED
      BY <2>2, <3>2, <3>3, <3>4
  <2>3. Down(y) \in T
    OBVIOUS
  <2> QED
    BY <1>1, <2>3, <2>4
<1> QED
  BY <1>3 DEF Min

-----------------------------------------------------------------------------
(* The recorder.  Files are in the order in which they were created, and   *)
(* the directory has them in that order; the last one is written to.       *)
FileType == [data : Seq(Nat), onDisk : Nat, index : Nat]
FilesTypeOK ==
    /\ recorded \in Seq(Sizes)
    /\ file \in Seq(FileType) /\ file # <<>>
    /\ DOMAIN dir \in SUBSET Nat /\ DOMAIN dir # {} /\ IsFiniteSet(DOMAIN dir)
    /\ dir \in [DOMAIN dir -> DOMAIN file]

(* No file holds more than a chunk, even before what is late comes to disk.*)
Small(f) ==
    \A n \in 0 .. Len(file[f].data) : Written(f, n) <= ChunkSize \/ Len(file[f].data) = 1

Sound(f) ==
    /\ file[f].onDisk <= Len(file[f].data)
    /\ \A i \in 1 .. Len(file[f].data) : file[f].data[i] \in DOMAIN recorded

InOrder ==
    \A f, g \in DOMAIN file : f < g =>
      \A i \in 1 .. Len(file[f].data), j \in 1 .. Len(file[g].data) : file[f].data[i] < file[g].data[j]

(* With a limit in bytes nothing is missing between a chunk and the newest.*)
DirInOrder ==
    /\ \A j, k \in DOMAIN dir : j < k => dir[j] < dir[k]
    /\ Current = Len(file)
    /\ Usage = "nb_bytes" =>
         \A k \in DOMAIN dir : \A g \in dir[k] .. Len(file) : \E j \in DOMAIN dir : dir[j] = g

Room == Usage = "nb_bytes" => TotalSize(file, DOMAIN dir \ {Newest}) <= Limit

FilesInv == FilesTypeOK /\ \A f \in DOMAIN file : Sound(f) /\ Small(f)
RecorderInv == FilesInv /\ InOrder /\ DirInOrder /\ Room

(* The newest chunk, and the file it is in.                                *)
LEMMA NewestIs ==
  ASSUME FilesTypeOK
  PROVE  /\ Newest \in DOMAIN dir /\ Newest \in Nat /\ \A k \in DOMAIN dir : k <= Newest
         /\ Current \in DOMAIN file /\ DOMAIN file = 1 .. Len(file) /\ Len(file) \in Nat
<1>1. Newest \in DOMAIN dir /\ \A k \in DOMAIN dir : k <= Newest
  BY MaxIs DEF Newest, FilesTypeOK
<1>2. Newest \in Nat
  BY <1>1 DEF FilesTypeOK
<1>3. Current \in DOMAIN file
  BY <1>1 DEF Current, FilesTypeOK
<1> QED
  BY <1>1, <1>2, <1>3 DEF FilesTypeOK

(* A file that exists.                                                     *)
LEMMA FileIs ==
  ASSUME FilesTypeOK, NEW f \in DOMAIN file
  PROVE  /\ file[f] \in FileType
         /\ file[f].data \in Seq(Nat) /\ Len(file[f].data) \in Nat
         /\ DOMAIN file[f].data = 1 .. Len(file[f].data)
         /\ file[f].onDisk \in Nat /\ file[f].index \in Nat
<1>1. file[f] \in FileType
  BY DEF FilesTypeOK
<1>2. file[f].data \in Seq(Nat) /\ file[f].onDisk \in Nat /\ file[f].index \in Nat
  BY <1>1 DEF FileType
<1> QED
  BY <1>1, <1>2

-----------------------------------------------------------------------------
(* What messages, files and chunks take.                                   *)
Taken(r, d, n) == SumFunction([i \in 1 .. n |-> r[d[i]]])

(* By one message more.                                                    *)
LEMMA TakenIs ==
  ASSUME NEW r, NEW d, NEW n \in Nat, \A i \in 1 .. n : r[d[i]] \in Nat
  PROVE  /\ Taken(r, d, n) \in Nat
         /\ n = 0 => Taken(r, d, n) = 0
         /\ n # 0 => Taken(r, d, n) = r[d[n]] + Taken(r, d, n - 1)
<1> DEFINE g == [i \in 1 .. n |-> r[d[i]]]
<1>1. IsFiniteSet(1 .. n)
  <2>1. n \in Int /\ 1 \in Int
    OBVIOUS
  <2> QED
    BY <2>1, FS_Interval
<1>2. g \in [1 .. n -> Nat] /\ \A i \in 1 .. n : g[i] = r[d[i]]
  OBVIOUS
<1>3. Taken(r, d, n) = SumFunction(g)
  BY DEF Taken
<1>4. n # 0 => Taken(r, d, n - 1) = SumFunction([i \in (1 .. n) \ {n} |-> g[i]])
  <2> SUFFICES ASSUME n # 0 PROVE Taken(r, d, n - 1) = SumFunction([i \in (1 .. n) \ {n} |-> g[i]])
    OBVIOUS
  <2>1. (1 .. n) \ {n} = 1 .. n - 1
    OBVIOUS
  <2>2. [i \in (1 .. n) \ {n} |-> g[i]] = [i \in 1 .. n - 1 |-> r[d[i]]]
    <3> HIDE DEF g
    <3> QED
      BY <1>2, <2>1
  <2> QED
    BY <2>2 DEF Taken
<1> HIDE DEF g
<1>5. n # 0 => n \in 1 .. n
  OBVIOUS
<1>6. n = 0 => 1 .. n = {}
  OBVIOUS
<1>7. PICK S : S = 1 .. n
  OBVIOUS
<1>8. IsFiniteSet(S) /\ g \in [S -> Nat]
  BY <1>1, <1>2, <1>7
<1>9. /\ SumFunction(g) \in Nat
      /\ S = {} => SumFunction(g) = 0
      /\ \A x \in S : SumFunction(g) = g[x] + SumFunction([y \in S \ {x} |-> g[y]])
  BY <1>8, SumFacts
<1> QED
  BY <1>2, <1>3, <1>4, <1>5, <1>6, <1>7, <1>9

(* What is written is a number.                                            *)
LEMMA WrittenIs ==
  ASSUME FilesTypeOK, NEW f \in DOMAIN file, Sound(f), NEW n \in 0 .. Len(file[f].data)
  PROVE  /\ Written(f, n) \in Nat
         /\ n = 0 => Written(f, n) = 0
<1>1. n \in Nat /\ n <= Len(file[f].data)
  BY FileIs
<1>2. ASSUME NEW i \in 1 .. n PROVE recorded[file[f].data[i]] \in Nat
  <2>1. i \in 1 .. Len(file[f].data)
    BY <1>1, FileIs
  <2>2. file[f].data[i] \in DOMAIN recorded
    BY <2>1 DEF Sound
  <2>3. recorded[file[f].data[i]] \in Sizes
    <3>1. recorded \in Seq(Sizes)
      BY DEF FilesTypeOK
    <3> QED
      BY <2>2, <3>1
  <2> QED
    BY <2>3, RecorderAssumption
<1>3. Written(f, n) = Taken(recorded, file[f].data, n)
  BY DEF Written, Taken
<1> QED
  BY <1>1, <1>2, <1>3, TakenIs

(* A file takes the same as long as its messages are the same.             *)
LEMMA WrittenSame ==
  ASSUME NEW f, NEW n,
         \A i \in 1 .. n : /\ file'[f].data[i] = file[f].data[i]
                           /\ recorded'[file[f].data[i]] = recorded[file[f].data[i]]
  PROVE  Written(f, n)' = Written(f, n)
<1>1. [i \in 1 .. n |-> recorded'[file'[f].data[i]]] = [i \in 1 .. n |-> recorded[file[f].data[i]]]
  OBVIOUS
<1> QED
  BY <1>1 DEF Written

(* Files fs as the handler of newfile finds them: parts of those there are.*)
Parts(fs) ==
    \A f \in DOMAIN file : fs[f].onDisk \in 0 .. Len(file[f].data) /\ fs[f].index \in Nat

(* So is the total, of no more chunks no more.                             *)
LEMMA TotalIs ==
  ASSUME FilesInv, NEW fs, Parts(fs), NEW S \in SUBSET DOMAIN dir
  PROVE  /\ TotalSize(fs, S) \in Nat
         /\ S = {} => TotalSize(fs, S) = 0
         /\ \A T \in SUBSET S : TotalSize(fs, T) <= TotalSize(fs, S)
<1> DEFINE g == [k \in S |-> DiskSize(fs, dir[k])]
<1>1. IsFiniteSet(S)
  BY FS_Subset DEF FilesInv, FilesTypeOK
<1>2. ASSUME NEW k \in S PROVE DiskSize(fs, dir[k]) \in Nat
  <2>1. dir[k] \in DOMAIN file
    BY DEF FilesInv, FilesTypeOK
  <2>2. Written(dir[k], fs[dir[k]].onDisk) \in Nat /\ fs[dir[k]].index \in Nat
    BY <2>1, WrittenIs DEF FilesInv, Parts
  <2> QED
    BY <2>2 DEF DiskSize
<1>3. g \in [S -> Nat] /\ \A k \in S : g[k] = DiskSize(fs, dir[k])
  BY <1>2
<1>4. TotalSize(fs, S) = SumFunction(g)
  BY DEF TotalSize
<1> HIDE DEF g
<1>5. ASSUME NEW T \in SUBSET S PROVE TotalSize(fs, T) = SumFunction([k \in T |-> g[k]])
  <2>1. [k \in T |-> g[k]] = [k \in T |-> DiskSize(fs, dir[k])]
    BY <1>3
  <2> QED
    BY <2>1 DEF TotalSize
<1>6. /\ SumFunction(g) \in Nat
      /\ S = {} => SumFunction(g) = 0
      /\ \A T \in SUBSET S : SumFunction([k \in T |-> g[k]]) <= SumFunction(g)
  BY <1>1, <1>3, SumFacts
<1> QED
  BY <1>4, <1>5, <1>6

(* What is left is the newest chunks, within the limit.                    *)
LEMMA PrunedIs ==
  ASSUME FilesInv, NEW fs, Parts(fs)
  PROVE  /\ Pruned(fs) \in SUBSET DOMAIN dir
         /\ Usage = "nb_bytes" =>
              /\ TotalSize(fs, Pruned(fs)) <= Limit
              /\ \A k \in Pruned(fs), j \in DOMAIN dir : k <= j => j \in Pruned(fs)
<1>1. Pruned(fs) \in SUBSET DOMAIN dir
  BY DEF Pruned
<1> SUFFICES ASSUME Usage = "nb_bytes"
             PROVE  /\ TotalSize(fs, Pruned(fs)) <= Limit
                    /\ \A k \in Pruned(fs), j \in DOMAIN dir : k <= j => j \in Pruned(fs)
  BY <1>1
<1> DEFINE Up(k) == {j \in DOMAIN dir : j >= k}
<1>2. \A k : k \in Pruned(fs) <=> k \in DOMAIN dir /\ TotalSize(fs, Up(k)) <= Limit
  BY DEF Pruned
<1>3. \A k \in DOMAIN dir : k \in Nat /\ Up(k) \in SUBSET DOMAIN dir
  BY DEF FilesInv, FilesTypeOK
<1>4. ASSUME NEW k \in Pruned(fs), NEW j \in DOMAIN dir, k <= j PROVE j \in Pruned(fs)
  <2>1. Up(j) \in SUBSET Up(k)
    BY <1>1, <1>3, <1>4
  <2> HIDE DEF Up
  <2>2. TotalSize(fs, Up(j)) <= TotalSize(fs, Up(k)) /\ TotalSize(fs, Up(j)) \in Nat /\ TotalSize(fs, Up(k)) \in Nat
    BY <1>1, <1>3, <2>1, TotalIs
  <2>3. Limit \in Nat
    BY RecorderAssumption
  <2> QED
    BY <1>2, <2>2, <2>3
<1>5. TotalSize(fs, Pruned(fs)) <= Limit
  <2>1. CASE Pruned(fs) = {}
    <3>1. TotalSize(fs, {}) = 0
      BY TotalIs
    <3> QED
      BY <2>1, <3>1, RecorderAssumption
  <2>2. CASE Pruned(fs) # {}
    <3>1. Pruned(fs) \in SUBSET Nat /\ IsFiniteSet(Pruned(fs))
      BY <1>1, FS_Subset DEF FilesInv, FilesTypeOK
    <3>2. PICK m \in Pruned(fs) : \A k \in Pruned(fs) : m <= k
      BY <2>2, <3>1, MinIs
    <3>3. Pruned(fs) = Up(m)
      BY <1>1, <1>3, <1>4, <3>1, <3>2
    <3> QED
      BY <1>2, <3>2, <3>3
  <2> QED
    BY <2>1, <2>2
<1> QED
  BY <1>4, <1>5

-----------------------------------------------------------------------------
(* The invariant holds at the start, ...                                   *)
LEMMA InvStart ==
  ASSUME Start
  PROVE  RecorderInv
<1>1. /\ recorded = <<>> /\ Len(file) = 1 /\ DOMAIN file = {1} /\ DOMAIN dir = {0} /\ dir[0] = 1
      /\ file[1] = NewFile /\ file \in Seq(FileType) /\ file # <<>>
  <2>1. NewFile \in FileType
    BY DEF NewFile, FileType
  <2> QED
    BY <2>1 DEF Start
<1>2. FilesTypeOK
  <2>1. IsFiniteSet({0})
    BY FS_Singleton
  <2>2. dir \in [{0} -> {1}]
    BY DEF Start
  <2> QED
    BY <1>1, <2>1, <2>2 DEF FilesTypeOK
<1>3. file[1].data = <<>> /\ Len(file[1].data) = 0 /\ file[1].onDisk = 0
  BY <1>1 DEF NewFile
<1>4. Sound(1)
  BY <1>3 DEF Sound
<1>5. Small(1)
  <2>1. Written(1, 0) = 0
    BY <1>1, <1>2, <1>3, <1>4, WrittenIs
  <2> QED
    BY <1>3, <2>1, RecorderAssumption DEF Small
<1>6. FilesInv
  BY <1>1, <1>2, <1>4, <1>5 DEF FilesInv
<1>7. InOrder
  BY <1>1 DEF InOrder
<1>8. Newest = 0
  BY <1>1, <1>2, NewestIs
<1>9. DirInOrder
  BY <1>1, <1>8 DEF DirInOrder, Current
<1>10. Room
  <2>1. Parts(file)
    BY <1>1, <1>2, <1>3, FileIs DEF Parts
  <2>2. TotalSize(file, {}) = 0
    BY <1>6, <2>1, TotalIs
  <2>3. DOMAIN dir \ {Newest} = {}
    BY <1>1, <1>8
  <2> QED
    BY <2>2, <2>3, RecorderAssumption DEF Room
<1> QED
  BY <1>6, <1>7, <1>9, <1>10 DEF RecorderInv

(* What is recorded grows, if at all, by the message that comes.           *)
Recorded ==
    recorded' = recorded \/ \E size \in Sizes : recorded' = Append(recorded, size)

(* What was recorded stays.                                                *)
LEMMA RecordedIs ==
  ASSUME FilesTypeOK, Recorded
  PROVE  /\ recorded' \in Seq(Sizes) /\ Len(recorded) \in Nat /\ Len(recorded') \in Nat
         /\ DOMAIN recorded = 1 .. Len(recorded) /\ DOMAIN recorded' = 1 .. Len(recorded')
         /\ Len(recorded) <= Len(recorded')
         /\ \A m \in DOMAIN recorded : m \in DOMAIN recorded' /\ recorded'[m] = recorded[m]
<1>1. recorded \in Seq(Sizes)
  BY DEF FilesTypeOK
<1>2. CASE recorded' = recorded
  BY <1>1, <1>2
<1>3. ASSUME NEW size \in Sizes, recorded' = Append(recorded, size)
      PROVE  /\ recorded' \in Seq(Sizes) /\ Len(recorded') = Len(recorded) + 1
             /\ \A m \in DOMAIN recorded : recorded'[m] = recorded[m]
  BY <1>1, <1>3
<1>4. /\ Len(recorded) \in Nat /\ DOMAIN recorded = 1 .. Len(recorded)
  BY <1>1
<1>5. CASE \E size \in Sizes : recorded' = Append(recorded, size)
  <2>1. /\ recorded' \in Seq(Sizes) /\ Len(recorded') = Len(recorded) + 1
        /\ \A m \in DOMAIN recorded : recorded'[m] = recorded[m]
    BY <1>3, <1>5
  <2>2. Len(recorded') \in Nat /\ DOMAIN recorded' = 1 .. Len(recorded')
    BY <2>1
  <2> QED
    BY <1>4, <2>1, <2>2
<1> QED
  BY <1>2, <1>5 DEF Recorded

(* A step that changes the newest file alone: F is what becomes of it.     *)
LEMMA InvInPlace ==
  ASSUME RecorderInv, dir' = dir, NEW F \in FileType,
         file' = [file EXCEPT ![Current] = F], F.onDisk <= Len(F.data),
         \/ recorded' = recorded /\ F.data = file[Current].data
         \/ \E size \in Sizes : /\ Fits(size) /\ recorded' = Append(recorded, size)
                                /\ F.data = Append(file[Current].data, Len(recorded) + 1)
  PROVE  RecorderInv'
<1>0. PICK c, L : c = Current /\ L = Len(file[c].data)
  OBVIOUS
<1>1. FilesTypeOK /\ \A f \in DOMAIN file : Sound(f) /\ Small(f)
  BY DEF RecorderInv, FilesInv
<1>2. /\ Newest \in DOMAIN dir /\ Newest \in Nat /\ \A k \in DOMAIN dir : k <= Newest
      /\ c \in DOMAIN file /\ DOMAIN file = 1 .. Len(file) /\ Len(file) \in Nat
  BY <1>0, <1>1, NewestIs
<1>3. Newest' = Newest /\ Current' = c
  BY <1>0 DEF Newest, Current
<1>4. /\ file' \in Seq(FileType) /\ Len(file') = Len(file) /\ DOMAIN file' = DOMAIN file /\ file' # <<>>
      /\ file'[c] = F /\ \A f \in DOMAIN file : f # c => file'[f] = file[f]
  <2>1. file \in Seq(FileType) /\ file # <<>>
    BY <1>1 DEF FilesTypeOK
  <2> QED
    BY <1>0, <1>2, <2>1
<1>5. Recorded
  BY DEF Recorded
<1>6. /\ recorded' \in Seq(Sizes) /\ Len(recorded) \in Nat /\ Len(recorded') \in Nat
      /\ DOMAIN recorded = 1 .. Len(recorded) /\ DOMAIN recorded' = 1 .. Len(recorded')
      /\ Len(recorded) <= Len(recorded')
      /\ \A m \in DOMAIN recorded : m \in DOMAIN recorded' /\ recorded'[m] = recorded[m]
  BY <1>1, <1>5, RecordedIs
<1>18. PICK N, M : N = Len(recorded) /\ M = Len(recorded')
  OBVIOUS
<1>19. N \in Nat /\ M \in Nat /\ DOMAIN recorded = 1 .. N /\ DOMAIN recorded' = 1 .. M /\ N <= M
  BY <1>6, <1>18
<1>7. /\ file[c].data \in Seq(Nat) /\ L \in Nat /\ F.data \in Seq(Nat) /\ Len(F.data) \in Nat
      /\ F.onDisk \in Nat
  BY <1>0, <1>1, <1>2, FileIs DEF FileType
<1>8. /\ L <= Len(F.data) /\ \A i \in 1 .. L : F.data[i] = file[c].data[i]
      /\ \A i \in 1 .. Len(F.data) : i \notin 1 .. L =>
            i = L + 1 /\ F.data[i] = Len(recorded) + 1 /\ Len(recorded') = Len(recorded) + 1
  <2>1. CASE recorded' = recorded /\ F.data = file[Current].data
    BY <1>0, <1>7, <2>1
  <2>2. ASSUME NEW size \in Sizes, recorded' = Append(recorded, size),
               F.data = Append(file[Current].data, Len(recorded) + 1)
        PROVE  /\ Len(F.data) = L + 1 /\ \A i \in 1 .. L : F.data[i] = file[c].data[i]
               /\ F.data[L + 1] = Len(recorded) + 1 /\ Len(recorded') = Len(recorded) + 1
    <3>1. Len(recorded') = Len(recorded) + 1
      BY <1>1, <2>2 DEF FilesTypeOK
    <3>2. F.data = Append(file[c].data, Len(recorded) + 1)
      BY <1>0, <2>2
    <3>3. Len(recorded) + 1 \in Nat
      BY <1>18, <1>19
    <3> QED
      BY <1>0, <1>7, <3>1, <3>2, <3>3
  <2>3. CASE \E size \in Sizes : /\ Fits(size) /\ recorded' = Append(recorded, size)
                                  /\ F.data = Append(file[Current].data, Len(recorded) + 1)
    <3>1. /\ Len(F.data) = L + 1 /\ \A i \in 1 .. L : F.data[i] = file[c].data[i]
          /\ F.data[L + 1] = Len(recorded) + 1 /\ Len(recorded') = Len(recorded) + 1
      BY <2>2, <2>3
    <3>2. \A i \in 1 .. L + 1 : i \notin 1 .. L => i = L + 1
      BY <1>7
    <3> QED
      BY <1>7, <3>1, <3>2
  <2> QED
    BY <2>1, <2>3
<1>9. FilesTypeOK'
  <2>1. dir' \in [DOMAIN dir' -> DOMAIN file']
    BY <1>1, <1>4 DEF FilesTypeOK
  <2> QED
    BY <1>1, <1>4, <1>6, <2>1 DEF FilesTypeOK
<1>10. ASSUME NEW f \in DOMAIN file, NEW i \in 1 .. Len(file[f].data)
       PROVE  /\ file'[f].data[i] = file[f].data[i] /\ file[f].data[i] \in DOMAIN recorded
              /\ recorded'[file[f].data[i]] = recorded[file[f].data[i]]
  <2>1. file[f].data[i] \in DOMAIN recorded
    BY <1>1 DEF Sound
  <2>2. file'[f].data[i] = file[f].data[i]
    BY <1>0, <1>4, <1>8, <1>10
  <2> QED
    BY <1>6, <2>1, <2>2
<1>11. ASSUME NEW f \in DOMAIN file, NEW n \in 0 .. Len(file[f].data)
       PROVE  Written(f, n)' = Written(f, n)
  <2>1. \A i \in 1 .. n : i \in 1 .. Len(file[f].data)
    BY <1>1, FileIs
  <2> QED
    BY <1>10, <2>1, WrittenSame
<1>12. ASSUME NEW f \in DOMAIN file PROVE Sound(f)'
  <2>1. CASE f # c
    <3>1. file'[f] = file[f]
      BY <1>4, <2>1
    <3> QED
      BY <1>1, <1>6, <3>1 DEF Sound
  <2>2. CASE f = c
    <3>1. \A i \in 1 .. Len(F.data) : F.data[i] \in DOMAIN recorded'
      <4>1. \A i \in 1 .. L : file[c].data[i] \in DOMAIN recorded
        BY <1>0, <1>1, <1>2 DEF Sound
      <4> SUFFICES ASSUME NEW i \in 1 .. Len(F.data) PROVE F.data[i] \in DOMAIN recorded'
        OBVIOUS
      <4>2. CASE i \in 1 .. L
        BY <1>6, <1>8, <4>1, <4>2
      <4>3. CASE i \notin 1 .. L
        <5>1. F.data[i] = N + 1 /\ M = N + 1
          BY <1>8, <1>18, <4>3
        <5> QED
          BY <1>19, <5>1
      <4> QED
        BY <4>2, <4>3
    <3> QED
      BY <1>4, <2>2, <3>1 DEF Sound
  <2> QED
    BY <2>1, <2>2
<1>13. ASSUME NEW f \in DOMAIN file PROVE Small(f)'
  <2> SUFFICES ASSUME NEW n \in 0 .. Len(file'[f].data)
               PROVE  Written(f, n)' <= ChunkSize \/ Len(file'[f].data) = 1
    BY DEF Small
  <2>1. CASE f # c
    BY <1>1, <1>4, <1>11, <2>1 DEF Small
  <2>2. CASE f = c /\ recorded' = recorded /\ F.data = file[Current].data
    BY <1>0, <1>1, <1>4, <1>11, <2>2 DEF Small
  <2>3. ASSUME NEW size \in Sizes, f = c, Fits(size), recorded' = Append(recorded, size),
               F.data = Append(file[Current].data, Len(recorded) + 1)
        PROVE  Written(f, n)' <= ChunkSize
    <3>1. /\ Written(c, L) + size <= ChunkSize /\ size \in Nat /\ size > 0 /\ ChunkSize \in Nat
      BY <1>0, <2>3, RecorderAssumption DEF Fits
    <3>2. Written(c, L) \in Nat /\ L \in 0 .. L
      BY <1>0, <1>1, <1>2, <1>7, WrittenIs, SMTT(30)
    <3>3. Len(F.data) = L + 1 /\ file'[f] = F /\ n \in 0 .. L + 1
      BY <1>0, <1>4, <1>7, <2>3
    <3>4. CASE n \in 0 .. L
      <4>0. n \in 0 .. Len(file[c].data)
        BY <1>0, <3>4
      <4>1. Written(c, n)' = Written(c, n) /\ Written(c, n) \in Nat
        BY <1>1, <1>2, <1>11, <4>0, WrittenIs
      <4>2. n = 0 => Written(c, n) = 0
        BY <1>1, <1>2, <4>0, WrittenIs
      <4>3. Written(c, n) <= ChunkSize \/ L = 1
        BY <1>0, <1>1, <1>2, <4>0 DEF Small
      <4>4. L = 1 => n = 0 \/ n = L
        BY <3>4
      <4> QED
        BY <2>3, <3>1, <3>2, <4>1, <4>2, <4>3, <4>4
    <3>5. CASE n = L + 1
      <4>1. Written(f, n)' = Taken(recorded', F.data, n)
        BY <3>3 DEF Written, Taken
      <4>2. Written(c, L)' = Taken(recorded', F.data, n - 1) /\ Written(c, L)' = Written(c, L)
        <5>1. n - 1 = L
          BY <1>7, <3>5
        <5>2. Written(c, L)' = Taken(recorded', F.data, L)
          BY <2>3, <3>3 DEF Written, Taken
        <5>3. L \in 0 .. Len(file[c].data)
          BY <1>0, <3>2
        <5>4. Written(c, L)' = Written(c, L)
          BY <1>2, <1>11, <5>3
        <5> QED
          BY <5>1, <5>2, <5>4
      <4>3. recorded'[F.data[n]] = size
        <5>1. F.data[n] = Len(recorded) + 1
          <6>1. L + 1 \in 1 .. Len(F.data) /\ L + 1 \notin 1 .. L
            BY <1>7, <3>3
          <6> QED
            BY <1>8, <3>5, <6>1
        <5>2. recorded'[Len(recorded) + 1] = size
          BY <1>1, <2>3 DEF FilesTypeOK
        <5> QED
          BY <5>1, <5>2
      <4>4. ASSUME NEW i \in 1 .. n PROVE recorded'[F.data[i]] \in Nat
        <5>1. F.data[i] \in DOMAIN recorded'
          <6>1. i \in 1 .. Len(file'[f].data)
            BY <3>3, <3>5
          <6>2. Sound(f)'
            BY <1>12
          <6> QED
            BY <3>3, <6>1, <6>2 DEF Sound
        <5>2. recorded'[F.data[i]] \in Sizes
          <6>1. PICK r, x : r = recorded' /\ x = F.data[i]
            OBVIOUS
          <6>2. r \in Seq(Sizes) /\ x \in DOMAIN r
            BY <1>6, <5>1, <6>1
          <6>3. r[x] \in Sizes
            BY <6>2
          <6> QED
            BY <6>1, <6>3
        <5> QED
          BY <5>2, RecorderAssumption
      <4>5. n \in Nat /\ n # 0
        BY <1>7, <3>5
      <4>6. Taken(recorded', F.data, n) = size + Taken(recorded', F.data, n - 1)
        BY <4>3, <4>4, <4>5, TakenIs
      <4> QED
        BY <3>1, <3>2, <4>1, <4>2, <4>6
    <3> QED
      BY <1>7, <3>3, <3>4, <3>5
  <2> QED
    BY <2>1, <2>2, <2>3
<1>14. FilesInv'
  BY <1>4, <1>9, <1>12, <1>13 DEF FilesInv
<1>15. InOrder'
  <2> SUFFICES ASSUME NEW f \in DOMAIN file, NEW g \in DOMAIN file, f < g,
                      NEW i \in 1 .. Len(file'[f].data), NEW j \in 1 .. Len(file'[g].data)
               PROVE  file'[f].data[i] < file'[g].data[j]
    BY <1>4 DEF InOrder
  <2>1. f # c /\ f \in Nat /\ g \in Nat
    BY <1>0, <1>2 DEF RecorderInv, DirInOrder
  <2>2. file'[f] = file[f] /\ i \in 1 .. Len(file[f].data)
    BY <1>4, <2>1
  <2>3. CASE j \in 1 .. Len(file[g].data)
    <3>1. file'[g].data[j] = file[g].data[j]
      BY <1>10, <2>3
    <3> QED
      BY <2>2, <2>3, <3>1 DEF RecorderInv, InOrder
  <2>4. CASE j \notin 1 .. Len(file[g].data)
    <3>1. g = c /\ file'[g] = F
      BY <1>4, <2>4
    <3>2. file'[g].data[j] = Len(recorded) + 1
      BY <1>8, <2>4, <3>1
    <3>3. file[f].data[i] \in 1 .. N
      BY <1>10, <1>19, <2>2
    <3>4. file[f].data[i] < N + 1
      BY <1>19, <3>3
    <3> QED
      BY <1>18, <2>2, <3>2, <3>4
  <2> QED
    BY <2>3, <2>4
<1>16. DirInOrder'
  BY <1>0, <1>3, <1>4 DEF RecorderInv, DirInOrder
<1>17. Room'
  <2>1. ASSUME NEW k \in DOMAIN dir \ {Newest}
        PROVE  DiskSize(file, dir[k])' = DiskSize(file, dir[k])
    <3>1. dir[k] \in DOMAIN file /\ dir[k] # c
      <4>1. k < Newest
        BY <1>1, <1>2 DEF FilesTypeOK
      <4>2. dir[k] < dir[Newest]
        BY <1>2, <4>1 DEF RecorderInv, DirInOrder
      <4>3. dir[k] \in DOMAIN file
        BY <1>1 DEF FilesTypeOK
      <4>4. dir[k] \in Nat /\ dir[Newest] = c
        BY <1>0, <1>2, <4>3 DEF Current
      <4> QED
        BY <1>2, <4>2, <4>3, <4>4
    <3>2. file'[dir[k]] = file[dir[k]]
      BY <1>4, <3>1
    <3>3. file[dir[k]].onDisk \in 0 .. Len(file[dir[k]].data)
      BY <1>1, <3>1, FileIs DEF Sound
    <3>4. Written(dir[k], file[dir[k]].onDisk)' = Written(dir[k], file[dir[k]].onDisk)
      <4>1. PICK f, n : f = dir[k] /\ n = file[dir[k]].onDisk
        OBVIOUS
      <4>2. dir'[k] = f /\ file'[dir'[k]].onDisk = n /\ f \in DOMAIN file /\ n \in 0 .. Len(file[f].data)
        BY <3>1, <3>2, <3>3, <4>1
      <4>3. Written(f, n)' = Written(f, n)
        BY <1>11, <4>2
      <4> QED
        BY <4>1, <4>2, <4>3 DEF Written
    <3> QED
      BY <3>2, <3>4 DEF DiskSize
  <2>2. TotalSize(file, DOMAIN dir \ {Newest})' = TotalSize(file, DOMAIN dir \ {Newest})
    <3>1. (DOMAIN dir \ {Newest})' = DOMAIN dir \ {Newest}
      BY <1>3
    <3>2. [k \in DOMAIN dir \ {Newest} |-> DiskSize(file, dir[k])']
             = [k \in DOMAIN dir \ {Newest} |-> DiskSize(file, dir[k])]
      BY <2>1
    <3> QED
      BY <3>1, <3>2 DEF TotalSize
  <2> QED
    BY <2>2 DEF RecorderInv, Room
<1> QED
  BY <1>14, <1>15, <1>16, <1>17 DEF RecorderInv

(* A new chunk, holding ms, and the files fs for those there were, each    *)
(* with the beginning of what it had.                                      *)
LEMMA InvNewChunk ==
  ASSUME RecorderInv, NEW fs \in Seq(FileType), Len(fs) = Len(file),
         \A f \in DOMAIN file : /\ fs[f].onDisk <= Len(fs[f].data) /\ Len(fs[f].data) <= Len(file[f].data)
                                /\ \A i \in 1 .. Len(fs[f].data) : fs[f].data[i] = file[f].data[i],
         NEW ms, NewChunk(fs, ms),
         \/ ms = <<>> /\ recorded' = recorded
         \/ \E size \in Sizes : ms = <<Len(recorded) + 1>> /\ recorded' = Append(recorded, size)
  PROVE  RecorderInv'
<1>0. PICK L, old, new : /\ L = Len(file) /\ old = Pruned(fs)
                         /\ new = IF Pruned(fs) = {} THEN 0 ELSE Max(Pruned(fs)) + 1
  OBVIOUS
<1>1. FilesTypeOK /\ \A f \in DOMAIN file : Sound(f) /\ Small(f)
  BY DEF RecorderInv, FilesInv
<1>2. /\ Newest \in DOMAIN dir /\ Newest \in Nat /\ \A k \in DOMAIN dir : k <= Newest
      /\ DOMAIN file = 1 .. L /\ L \in Nat
  BY <1>0, <1>1, NewestIs
<1>3. ASSUME NEW f \in DOMAIN file
      PROVE  /\ fs[f] \in FileType /\ fs[f].data \in Seq(Nat) /\ Len(fs[f].data) \in Nat
             /\ fs[f].onDisk \in Nat /\ fs[f].index \in Nat
  <2>1. f \in DOMAIN fs
    BY <1>0, <1>2
  <2>2. fs[f] \in FileType
    BY <2>1
  <2> QED
    BY <2>2 DEF FileType
<1>4. Parts(fs)
  BY <1>1, <1>3, FileIs DEF Parts
<1>5. /\ old \in SUBSET DOMAIN dir
      /\ Usage = "nb_bytes" => /\ TotalSize(fs, old) <= Limit
                               /\ \A k \in old, j \in DOMAIN dir : k <= j => j \in old
  <2>1. FilesInv
    BY DEF RecorderInv
  <2> QED
    BY <1>0, <1>4, <2>1, PrunedIs
<1>6. new \in Nat /\ (\A k \in old : k < new) /\ new \notin old
  <2>1. old \in SUBSET Nat /\ IsFiniteSet(old)
    BY <1>1, <1>5, FS_Subset DEF FilesTypeOK
  <2>2. CASE old = {}
    BY <1>0, <2>2
  <2>3. CASE old # {}
    <3>1. Max(old) \in old /\ \A y \in old : y <= Max(old)
      BY <2>1, <2>3, MaxIs
    <3>2. new = Max(old) + 1 /\ Max(old) \in Nat
      BY <1>0, <2>1, <2>3, <3>1
    <3>3. \A k \in old : k \in Nat /\ k <= Max(old)
      BY <2>1, <3>1
    <3> QED
      BY <3>2, <3>3
  <2> QED
    BY <2>2, <2>3
<1>7. /\ DOMAIN dir' = old \cup {new} /\ dir'[new] = L + 1
      /\ \A k \in old : dir'[k] = dir[k] /\ dir[k] \in DOMAIN file
  <2>1. dir' = [k \in old \cup {new} |-> IF k = new THEN L + 1 ELSE dir[k]]
    BY <1>0 DEF NewChunk
  <2>2. \A k \in old : dir[k] \in DOMAIN file
    BY <1>1, <1>5 DEF FilesTypeOK
  <2> QED
    BY <1>6, <2>1, <2>2
<1>8. Newest' = new /\ Current' = L + 1
  <2>1. DOMAIN dir' \in SUBSET Nat /\ IsFiniteSet(DOMAIN dir') /\ DOMAIN dir' # {}
    <3>1. IsFiniteSet(old) /\ old \in SUBSET Nat
      BY <1>1, <1>5, FS_Subset DEF FilesTypeOK
    <3>2. IsFiniteSet(old \cup {new})
      BY <3>1, FS_AddElement
    <3> QED
      BY <1>6, <1>7, <3>1, <3>2
  <2>2. PICK m : m = Max(DOMAIN dir')
    OBVIOUS
  <2>3. m \in DOMAIN dir' /\ \A y \in DOMAIN dir' : y <= m
    BY <2>1, <2>2, MaxIs
  <2>4. m \in old => m < new /\ new <= m /\ m \in Nat
    BY <1>6, <1>7, <2>1, <2>3
  <2>5. m = new
    BY <1>6, <1>7, <2>3, <2>4
  <2> QED
    BY <1>7, <2>2, <2>5 DEF Newest, Current
<1>9. PICK F : F = [NewFile EXCEPT !.data = ms]
  OBVIOUS
<1>10. /\ file' = Append(fs, F) /\ F \in FileType /\ F.data = ms /\ F.onDisk = 0 /\ F.index = 0
       /\ ms = <<>> \/ ms = <<Len(recorded) + 1>>
  <2>1. ms = <<>> \/ ms = <<Len(recorded) + 1>>
    OBVIOUS
  <2>2. Len(recorded) + 1 \in Nat
    BY <1>1 DEF FilesTypeOK
  <2>3. ms \in Seq(Nat)
    <3>1. PICK x : x = Len(recorded) + 1
      OBVIOUS
    <3>2. <<x>> \in Seq(Nat) /\ <<>> \in Seq(Nat)
      BY <2>2, <3>1
    <3> QED
      BY <2>1, <3>1, <3>2
  <2>4. F = [data |-> ms, onDisk |-> 0, index |-> 0]
    BY <1>9 DEF NewFile
  <2>5. F \in FileType /\ F.data = ms /\ F.onDisk = 0 /\ F.index = 0
    BY <2>3, <2>4 DEF FileType
  <2> QED
    BY <1>9, <2>1, <2>5 DEF NewChunk
<1>11. /\ file' \in Seq(FileType) /\ Len(file') = L + 1 /\ DOMAIN file' = 1 .. L + 1 /\ file' # <<>>
       /\ file'[L + 1] = F /\ \A f \in DOMAIN file : file'[f] = fs[f] /\ f \in DOMAIN file'
  BY <1>0, <1>2, <1>10
<1>12. \A f \in DOMAIN file' : f \in DOMAIN file \/ f = L + 1
  BY <1>2, <1>11
<1>13. Recorded
  BY DEF Recorded
<1>14. PICK N, M : N = Len(recorded) /\ M = Len(recorded')
  OBVIOUS
<1>15. /\ recorded' \in Seq(Sizes) /\ N \in Nat /\ M \in Nat
       /\ DOMAIN recorded = 1 .. N /\ DOMAIN recorded' = 1 .. M /\ N <= M
       /\ \A m \in DOMAIN recorded : m \in DOMAIN recorded' /\ recorded'[m] = recorded[m]
  BY <1>1, <1>13, <1>14, RecordedIs
<1>16. FilesTypeOK'
  <2>1. DOMAIN dir' \in SUBSET Nat /\ IsFiniteSet(DOMAIN dir') /\ DOMAIN dir' # {}
    <3>1. IsFiniteSet(old) /\ old \in SUBSET Nat
      BY <1>1, <1>5, FS_Subset DEF FilesTypeOK
    <3>2. IsFiniteSet(old \cup {new})
      BY <3>1, FS_AddElement
    <3> QED
      BY <1>6, <1>7, <3>1, <3>2
  <2>2. dir' \in [DOMAIN dir' -> DOMAIN file']
    <3>1. \A k \in DOMAIN dir' : dir'[k] \in DOMAIN file'
      BY <1>2, <1>7, <1>11
    <3>2. dir' = [k \in old \cup {new} |-> IF k = new THEN L + 1 ELSE dir[k]]
      BY <1>0 DEF NewChunk
    <3> QED
      BY <3>1, <3>2
  <2> QED
    BY <1>11, <1>15, <2>1, <2>2 DEF FilesTypeOK
<1>17. ASSUME NEW f \in DOMAIN file, NEW i \in 1 .. Len(fs[f].data)
       PROVE  /\ file'[f].data[i] = file[f].data[i] /\ file[f].data[i] \in DOMAIN recorded
              /\ recorded'[file[f].data[i]] = recorded[file[f].data[i]]
              /\ i \in 1 .. Len(file[f].data)
  <2>1. i \in 1 .. Len(file[f].data)
    BY <1>1, <1>3, FileIs
  <2>2. file[f].data[i] \in DOMAIN recorded
    BY <1>1, <2>1 DEF Sound
  <2> QED
    BY <1>11, <1>15, <2>1, <2>2
<1>18. ASSUME NEW f \in DOMAIN file, NEW n \in 0 .. Len(fs[f].data)
       PROVE  Written(f, n)' = Written(f, n) /\ n \in 0 .. Len(file[f].data)
  <2>1. \A i \in 1 .. n : i \in 1 .. Len(fs[f].data)
    BY <1>3
  <2>2. n \in 0 .. Len(file[f].data)
    BY <1>1, <1>3, FileIs
  <2> QED
    BY <1>17, <2>1, <2>2, WrittenSame
<1>19. ASSUME NEW f \in DOMAIN file' PROVE Sound(f)' /\ Small(f)'
  <2>1. CASE f \in DOMAIN file
    <3>1. file'[f] = fs[f]
      BY <1>11, <2>1
    <3>2. Sound(f)'
      BY <1>15, <1>17, <2>1, <3>1 DEF Sound
    <3>3. ASSUME NEW n \in 0 .. Len(fs[f].data)
          PROVE  Written(f, n)' <= ChunkSize \/ Len(fs[f].data) = 1
      <4>1. Written(f, n)' = Written(f, n) /\ n \in 0 .. Len(file[f].data)
        BY <1>18, <2>1
      <4>2. Written(f, n) <= ChunkSize \/ Len(file[f].data) = 1
        BY <1>1, <2>1, <4>1 DEF Small
      <4>3. n = 0 => Written(f, n) = 0
        BY <1>1, <2>1, <4>1, WrittenIs
      <4>4. Len(file[f].data) = 1 /\ Len(fs[f].data) # 1 => n = 0
        <5>1. PICK P, Q : P = Len(fs[f].data) /\ Q = Len(file[f].data)
          OBVIOUS
        <5>2. P \in Nat /\ Q \in Nat /\ P <= Q /\ n \in 0 .. P
          BY <1>1, <1>3, <2>1, <5>1, FileIs
        <5>3. n \in Nat /\ n <= P
          BY <5>2
        <5>4. Q = 1 /\ P # 1 => n = 0
          BY <5>2, <5>3
        <5> QED
          BY <5>1, <5>4
      <4>5. 0 <= ChunkSize
        BY RecorderAssumption
      <4> QED
        BY <4>1, <4>2, <4>3, <4>4, <4>5
    <3>4. Small(f)'
      BY <3>1, <3>3 DEF Small
    <3> QED
      BY <3>2, <3>4
  <2>2. CASE f = L + 1
    <3>1. file'[f] = F /\ (Len(F.data) = 0 \/ Len(F.data) = 1) /\ F.onDisk = 0
      BY <1>10, <1>11, <2>2
    <3>2. Sound(f)'
      <4>1. ms # <<>> => Len(recorded) + 1 \in DOMAIN recorded'
        <5>1. ms # <<>> => M = N + 1
          <6>1. ASSUME NEW size \in Sizes, recorded' = Append(recorded, size) PROVE M = N + 1
            BY <1>1, <1>14, <6>1 DEF FilesTypeOK
          <6> QED
            BY <6>1
        <5> QED
          BY <1>14, <1>15, <5>1
      <4>2. \A i \in 1 .. Len(F.data) : F.data[i] \in DOMAIN recorded'
        BY <1>10, <4>1
      <4> QED
        BY <3>1, <4>2 DEF Sound
    <3>3. Small(f)'
      <4>1. Len(F.data) = 0 => Written(f, 0)' <= ChunkSize
        <5>1. Taken(recorded', file'[f].data, 0) = 0
          BY TakenIs
        <5>2. Written(f, 0)' = Taken(recorded', file'[f].data, 0)
          BY DEF Written, Taken
        <5> QED
          BY <5>1, <5>2, RecorderAssumption
      <4>2. Len(F.data) = 0 => \A n \in 0 .. Len(F.data) : n = 0
        OBVIOUS
      <4> QED
        BY <3>1, <4>1, <4>2 DEF Small
    <3> QED
      BY <3>2, <3>3
  <2> QED
    BY <1>12, <2>1, <2>2
<1>20. FilesInv'
  BY <1>16, <1>19 DEF FilesInv
<1>21. InOrder'
  <2> SUFFICES ASSUME NEW f \in DOMAIN file', NEW g \in DOMAIN file', f < g,
                      NEW i \in 1 .. Len(file'[f].data), NEW j \in 1 .. Len(file'[g].data)
               PROVE  file'[f].data[i] < file'[g].data[j]
    BY DEF InOrder
  <2>1. f \in DOMAIN file /\ i \in 1 .. Len(fs[f].data)
    BY <1>2, <1>11
  <2>2. /\ file'[f].data[i] = file[f].data[i] /\ file[f].data[i] \in DOMAIN recorded
        /\ i \in 1 .. Len(file[f].data)
    BY <1>17, <2>1
  <2>3. CASE g \in DOMAIN file
    <3>1. j \in 1 .. Len(fs[g].data)
      BY <1>11, <2>3
    <3>2. file'[g].data[j] = file[g].data[j] /\ j \in 1 .. Len(file[g].data)
      BY <1>17, <2>3, <3>1
    <3> QED
      BY <2>1, <2>2, <2>3, <3>2 DEF RecorderInv, InOrder
  <2>4. CASE g = L + 1
    <3>1. file'[g].data[j] = N + 1
      <4>1. file'[g].data = ms
        BY <1>10, <1>11, <2>4
      <4>2. j \in 1 .. Len(ms)
        BY <4>1
      <4>3. ms # <<>>
        <5>1. ms = <<>> => Len(ms) = 0
          OBVIOUS
        <5> QED
          BY <4>2, <5>1
      <4>4. PICK x : x = Len(recorded) + 1
        OBVIOUS
      <4>5. ms = <<x>>
        BY <1>10, <4>3, <4>4
      <4>6. j = 1 /\ ms[1] = x
        BY <4>2, <4>5
      <4> QED
        BY <1>14, <4>1, <4>4, <4>6
    <3>2. file[f].data[i] \in 1 .. N
      BY <1>15, <2>2
    <3>3. file[f].data[i] < N + 1
      BY <1>15, <3>2
    <3> QED
      BY <2>2, <3>1, <3>3
  <2> QED
    BY <1>12, <2>3, <2>4
<1>22. DirInOrder'
  <2>1. ASSUME NEW j \in DOMAIN dir', NEW k \in DOMAIN dir', j < k PROVE dir'[j] < dir'[k]
    <3>1. j \in old
      <4>1. k = new \/ k \in old
        BY <1>7, <2>1
      <4>2. k \in Nat /\ j \in Nat /\ k <= new
        <5>1. DOMAIN dir' \in SUBSET Nat
          BY <1>16 DEF FilesTypeOK
        <5>2. k \in old => k < new
          BY <1>6
        <5>3. k \in Nat /\ j \in Nat
          BY <2>1, <5>1
        <5> QED
          BY <1>6, <4>1, <5>2, <5>3
      <4>3. j # new
        BY <1>6, <2>1, <4>2
      <4> QED
        BY <1>7, <2>1, <4>3
    <3>2. CASE k \in old
      BY <1>5, <1>7, <2>1, <3>1, <3>2 DEF RecorderInv, DirInOrder
    <3>3. CASE k = new
      <4>1. dir'[j] \in 1 .. L
        BY <1>2, <1>7, <3>1
      <4> QED
        BY <1>2, <1>7, <3>3, <4>1
    <3> QED
      BY <1>7, <3>2, <3>3
  <2>2. ASSUME Usage = "nb_bytes", NEW k \in DOMAIN dir', NEW g \in dir'[k] .. L + 1
        PROVE  \E j \in DOMAIN dir' : dir'[j] = g
    <3>1. CASE g = L + 1
      BY <1>7, <3>1
    <3>2. CASE g # L + 1
      <4>1. k \in old /\ dir[k] \in 1 .. L /\ g \in dir[k] .. L
        <5>1. k # new
          <6>1. k = new => g \in L + 1 .. L + 1
            BY <1>7
          <6> QED
            BY <1>2, <3>2, <6>1
        <5>2. k \in old /\ dir'[k] = dir[k] /\ dir[k] \in 1 .. L
          BY <1>2, <1>7, <5>1
        <5> QED
          BY <1>2, <3>2, <5>2
      <4>2. PICK j \in DOMAIN dir : dir[j] = g
        BY <1>0, <1>5, <2>2, <4>1 DEF RecorderInv, DirInOrder
      <4>3. k <= j
        <5>1. j < k => dir[j] < dir[k]
          BY <1>5, <4>1 DEF RecorderInv, DirInOrder
        <5>2. j \in Nat /\ k \in Nat
          BY <1>1, <1>5, <4>1 DEF FilesTypeOK
        <5> QED
          BY <4>1, <4>2, <5>1, <5>2
      <4>4. j \in old
        BY <1>5, <2>2, <4>1, <4>3
      <4> QED
        BY <1>7, <4>2, <4>4
    <3> QED
      BY <3>1, <3>2
  <2> QED
    BY <1>8, <1>11, <2>1, <2>2 DEF DirInOrder
<1>23. Room'
  <2> SUFFICES ASSUME Usage = "nb_bytes" PROVE TotalSize(file, DOMAIN dir \ {Newest})' <= Limit
    BY DEF Room
  <2>1. (DOMAIN dir \ {Newest})' = old
    BY <1>6, <1>7, <1>8
  <2>2. ASSUME NEW k \in old PROVE DiskSize(file, dir[k])' = DiskSize(fs, dir[k])
    <3>1. PICK f, n : f = dir[k] /\ n = fs[dir[k]].onDisk
      OBVIOUS
    <3>2. dir'[k] = f /\ f \in DOMAIN file /\ file'[f] = fs[f] /\ n = fs[f].onDisk
      BY <1>7, <1>11, <3>1
    <3>3. n \in 0 .. Len(fs[f].data)
      BY <1>3, <3>2
    <3>4. Written(f, n)' = Written(f, n)
      BY <1>18, <3>2, <3>3
    <3>5. DiskSize(file, dir[k])' = Written(f, n)' + fs[f].index
      BY <3>2 DEF DiskSize, Written
    <3>6. DiskSize(fs, dir[k]) = Written(f, n) + fs[f].index
      BY <3>1 DEF DiskSize, Written
    <3> QED
      BY <3>4, <3>5, <3>6
  <2>3. TotalSize(file, DOMAIN dir \ {Newest})' = TotalSize(fs, old)
    <3>1. [k \in old |-> DiskSize(file, dir[k])'] = [k \in old |-> DiskSize(fs, dir[k])]
      BY <2>2
    <3> QED
      BY <2>1, <3>1 DEF TotalSize
  <2> QED
    BY <1>5, <2>3
<1> QED
  BY <1>20, <1>21, <1>22, <1>23 DEF RecorderInv

(* A file that has been written to, or some of which came to disk, ...     *)
LEMMA CurrentIs ==
  ASSUME FilesTypeOK
  PROVE  \E L \in Nat, d \in Seq(Nat), n \in Nat, i \in Nat :
           /\ file[Current] = [data |-> d, onDisk |-> n, index |-> i] /\ L = Len(d)
           /\ \A e \in Seq(Nat), m \in Nat, j \in Nat :
                [data |-> e, onDisk |-> m, index |-> j] \in FileType
<1>1. Current \in DOMAIN file
  BY NewestIs
<1>2. file[Current] \in FileType
  BY <1>1, FileIs
<1>3. PICK d \in Seq(Nat), n \in Nat, i \in Nat :
        file[Current] = [data |-> d, onDisk |-> n, index |-> i]
  BY <1>2 DEF FileType
<1>4. Len(d) \in Nat
  OBVIOUS
<1>5. \A e \in Seq(Nat), m \in Nat, j \in Nat : [data |-> e, onDisk |-> m, index |-> j] \in FileType
  BY DEF FileType
<1> QED
  BY <1>3, <1>4, <1>5

(* What a step is: a change of the newest file, or a new chunk.            *)
InPlace(F) ==
    /\ dir' = dir /\ file' = [file EXCEPT ![Current] = F]
    /\ F.onDisk <= Len(F.data) /\ file[Current].onDisk <= F.onDisk
    /\ F.index = file[Current].index \/ F.index = Len(F.data)
    /\ \/ recorded' = recorded /\ F.data = file[Current].data
       \/ \E size \in Sizes : /\ Fits(size) /\ recorded' = Append(recorded, size)
                              /\ F.data = Append(file[Current].data, Len(recorded) + 1)

Renewed(fs, ms) ==
    /\ NewChunk(fs, ms) /\ Len(fs) = Len(file)
    /\ \A f \in DOMAIN file :
         /\ file[f].onDisk <= fs[f].onDisk /\ fs[f].onDisk <= Len(fs[f].data)
         /\ Len(fs[f].data) <= Len(file[f].data)
         /\ \A i \in 1 .. Len(fs[f].data) : fs[f].data[i] = file[f].data[i]
    /\ fs[Current].index = file[Current].index \/ fs[Current].index = Len(file[Current].data)
    /\ \/ ms = <<>> /\ recorded' = recorded
       \/ \E size \in Sizes : ms = <<Len(recorded) + 1>> /\ recorded' = Append(recorded, size)

(* The operations, by these two.                                           *)
LEMMA WriteHereIs ==
  ASSUME FilesInv, NEW size \in Sizes, WriteHere(size), recorded' = Append(recorded, size)
  PROVE  \E F \in FileType : InPlace(F)
<1>1. FilesTypeOK /\ Current \in DOMAIN file /\ Sound(Current)
  BY NewestIs DEF FilesInv
<1>2. PICK L \in Nat, d \in Seq(Nat), n \in Nat, i \in Nat :
        /\ file[Current] = [data |-> d, onDisk |-> n, index |-> i] /\ L = Len(d)
        /\ \A e \in Seq(Nat), m \in Nat, j \in Nat :
             [data |-> e, onDisk |-> m, index |-> j] \in FileType
  BY <1>1, CurrentIs
<1>3. PICK x : x = Len(recorded) + 1
  OBVIOUS
<1>4. x \in Nat
  <2>1. Len(recorded) \in Nat
    BY <1>1 DEF FilesTypeOK
  <2> QED
    BY <1>3, <2>1
<1>5. Append(d, x) \in Seq(Nat) /\ Len(Append(d, x)) = L + 1
  BY <1>2, <1>4
<1>6. PICK F : F = [data |-> Append(d, x), onDisk |-> L, index |-> i]
  OBVIOUS
<1>7. F \in FileType /\ F.onDisk <= Len(F.data) /\ F.data = Append(file[Current].data, x)
  <2>1. PICK e : e = Append(d, x)
    OBVIOUS
  <2>2. e \in Seq(Nat) /\ L <= Len(e) /\ F = [data |-> e, onDisk |-> L, index |-> i]
    BY <1>5, <1>6, <2>1
  <2>3. F \in FileType
    BY <1>2, <2>2
  <2>4. F.onDisk = L /\ F.data = e /\ file[Current].data = d
    BY <1>2, <2>2
  <2> QED
    BY <2>1, <2>2, <2>3, <2>4
<1>8. file' = [file EXCEPT ![Current] = F]
  <2>1. PICK c, R : c = Current /\ R = file[c]
    OBVIOUS
  <2>2. R = [data |-> d, onDisk |-> n, index |-> i]
    BY <1>2, <2>1
  <2>3. [data |-> Append(R.data, x), onDisk |-> Len(R.data), index |-> R.index] = F
    BY <1>2, <1>6, <2>2
  <2>4. file' = [file EXCEPT ![c] = [data |-> Append(R.data, x), onDisk |-> Len(R.data), index |-> R.index]]
    BY <1>3, <2>1 DEF WriteHere
  <2> QED
    BY <2>1, <2>3, <2>4
<1>9. dir' = dir /\ Fits(size)
  BY DEF WriteHere
<1>10. file[Current].onDisk <= F.onDisk /\ F.index = file[Current].index
  BY <1>1, <1>2, <1>6 DEF Sound
<1>11. /\ recorded' = Append(recorded, size) /\ Fits(size)
       /\ F.data = Append(file[Current].data, Len(recorded) + 1)
  BY <1>3, <1>7, <1>9
<1> QED
  BY <1>7, <1>8, <1>9, <1>10, <1>11 DEF InPlace

(* What is late reaches the disk: a file is changed in place.              *)
LEMMA FlushIs ==
  ASSUME FilesInv, FlushData \/ FlushIndex
  PROVE  \E F \in FileType : InPlace(F)
<1>1. FilesTypeOK /\ Current \in DOMAIN file /\ Sound(Current)
  BY NewestIs DEF FilesInv
<1>2. PICK L \in Nat, d \in Seq(Nat), n \in Nat, i \in Nat :
        /\ file[Current] = [data |-> d, onDisk |-> n, index |-> i] /\ L = Len(d)
        /\ \A e \in Seq(Nat), m \in Nat, j \in Nat :
             [data |-> e, onDisk |-> m, index |-> j] \in FileType
  BY <1>1, CurrentIs
<1>3. n <= L
  BY <1>1, <1>2 DEF Sound
<1>4. dir' = dir /\ recorded' = recorded
  BY DEF FlushData, FlushIndex
<1>5. CASE FlushData
  <2>1. PICK F : F = [data |-> d, onDisk |-> L, index |-> i]
    OBVIOUS
  <2>2. /\ F \in FileType /\ F.onDisk <= Len(F.data) /\ F.data = file[Current].data
        /\ file[Current].onDisk <= F.onDisk /\ (F.index = file[Current].index \/ F.index = Len(F.data))
    BY <1>2, <1>3, <2>1
  <2>3. file' = [file EXCEPT ![Current] = F]
    <3>1. PICK c, R : c = Current /\ R = file[c]
      OBVIOUS
    <3>2. R = [data |-> d, onDisk |-> n, index |-> i] /\ R.data = d
      BY <1>2, <3>1
    <3>3. [R EXCEPT !.onDisk = L] = F
      BY <2>1, <3>2
    <3>4. file' = [file EXCEPT ![c] = [R EXCEPT !.onDisk = Len(R.data)]]
      BY <1>5, <3>1 DEF FlushData
    <3> QED
      BY <1>2, <3>1, <3>2, <3>3, <3>4
  <2> QED
    BY <1>4, <2>2, <2>3 DEF InPlace
<1>6. CASE FlushIndex
  <2>1. PICK F : F = [data |-> d, onDisk |-> n, index |-> L]
    OBVIOUS
  <2>2. /\ F \in FileType /\ F.onDisk <= Len(F.data) /\ F.data = file[Current].data
        /\ file[Current].onDisk <= F.onDisk /\ (F.index = file[Current].index \/ F.index = Len(F.data))
    BY <1>2, <1>3, <2>1
  <2>3. file' = [file EXCEPT ![Current] = F]
    <3>1. PICK c, R : c = Current /\ R = file[c]
      OBVIOUS
    <3>2. R = [data |-> d, onDisk |-> n, index |-> i] /\ R.data = d
      BY <1>2, <3>1
    <3>3. [R EXCEPT !.index = L] = F
      BY <2>1, <3>2
    <3>4. file' = [file EXCEPT ![c] = [R EXCEPT !.index = Len(R.data)]]
      BY <1>6, <3>1 DEF FlushIndex
    <3> QED
      BY <1>2, <3>1, <3>2, <3>3, <3>4
  <2> QED
    BY <1>4, <2>2, <2>3 DEF InPlace
<1> QED
  BY <1>5, <1>6

(* A message that does not fit begins a file, ...                          *)
LEMMA WriteNextIs ==
  ASSUME FilesInv, NEW size \in Sizes, WriteNext(size), recorded' = Append(recorded, size)
  PROVE  \E fs \in Seq(FileType) : \E ms : Renewed(fs, ms)
<1>1. FilesTypeOK /\ Current \in DOMAIN file /\ DOMAIN file = 1 .. Len(file)
      /\ \A f \in DOMAIN file : Sound(f)
  BY NewestIs DEF FilesInv
<1>2. PICK L \in Nat, d \in Seq(Nat), n \in Nat, i \in Nat :
        /\ file[Current] = [data |-> d, onDisk |-> n, index |-> i] /\ L = Len(d)
        /\ \A e \in Seq(Nat), m \in Nat, j \in Nat :
             [data |-> e, onDisk |-> m, index |-> j] \in FileType
  BY <1>1, CurrentIs
<1>3. PICK F : F = [data |-> d, onDisk |-> L, index |-> L]
  OBVIOUS
<1>4. F \in FileType /\ F.onDisk = Len(F.data) /\ F.data = file[Current].data
  BY <1>2, <1>3
<1>5. PICK fs : fs = [file EXCEPT ![Current] = F]
  OBVIOUS
<1>6. Flushed(Current) = fs
  <2>1. PICK c, R : c = Current /\ R = file[c]
    OBVIOUS
  <2>2. R = [data |-> d, onDisk |-> n, index |-> i] /\ R.data = d
    BY <1>2, <2>1
  <2>3. [data |-> R.data, onDisk |-> Len(R.data), index |-> Len(R.data)] = F
    BY <1>2, <1>3, <2>2
  <2>4. Flushed(c) = [file EXCEPT ![c] = [data |-> R.data, onDisk |-> Len(R.data), index |-> Len(R.data)]]
    BY <2>1 DEF Flushed
  <2> QED
    BY <1>5, <2>1, <2>3, <2>4
<1>7. file \in Seq(FileType)
  BY <1>1 DEF FilesTypeOK
<1>8. /\ fs \in Seq(FileType) /\ Len(fs) = Len(file) /\ fs[Current] = F
      /\ \A f \in DOMAIN file : f # Current => fs[f] = file[f]
  BY <1>1, <1>4, <1>5, <1>7
<1>9. ASSUME NEW f \in DOMAIN file
      PROVE  /\ fs[f].onDisk <= Len(fs[f].data) /\ fs[f].data = file[f].data
             /\ Len(fs[f].data) <= Len(file[f].data) /\ file[f].onDisk <= fs[f].onDisk
  <2>1. Len(file[f].data) \in Nat /\ file[f].onDisk \in Nat
    BY <1>1, FileIs
  <2>2. CASE f = Current
    BY <1>1, <1>4, <1>8, <2>1, <2>2 DEF Sound
  <2>3. CASE f # Current
    BY <1>1, <1>8, <2>1, <2>3 DEF Sound
  <2> QED
    BY <2>2, <2>3
<1>10. PICK ms : ms = <<Len(recorded) + 1>>
  OBVIOUS
<1>11. NewChunk(fs, ms)
  BY <1>6, <1>10 DEF WriteNext
<1>12. \E s \in Sizes : ms = <<Len(recorded) + 1>> /\ recorded' = Append(recorded, s)
  BY <1>10
<1>13. fs[Current].index = Len(file[Current].data)
  BY <1>2, <1>3, <1>8
<1> QED
  BY <1>8, <1>9, <1>11, <1>12, <1>13 DEF Renewed

(* ... and so does a restart.                                              *)
LEMMA CrashIs ==
  ASSUME FilesInv, CrashAndRestart
  PROVE  \E fs \in Seq(FileType) : \E ms : Renewed(fs, ms)
<1>1. FilesTypeOK /\ Current \in DOMAIN file /\ DOMAIN file = 1 .. Len(file)
      /\ \A f \in DOMAIN file : Sound(f)
  BY NewestIs DEF FilesInv
<1>2. PICK L \in Nat, d \in Seq(Nat), n \in Nat, i \in Nat :
        /\ file[Current] = [data |-> d, onDisk |-> n, index |-> i] /\ L = Len(d)
        /\ \A e \in Seq(Nat), m \in Nat, j \in Nat :
             [data |-> e, onDisk |-> m, index |-> j] \in FileType
  BY <1>1, CurrentIs
<1>3. n <= L
  BY <1>1, <1>2 DEF Sound
<1>4. PICK e : e = SubSeq(d, 1, n)
  OBVIOUS
<1>5. e \in Seq(Nat) /\ Len(e) = n /\ \A j \in 1 .. n : e[j] = d[j]
  BY <1>2, <1>3, <1>4
<1>6. PICK F : F = [data |-> e, onDisk |-> n, index |-> i]
  OBVIOUS
<1>7. F \in FileType /\ F.onDisk = Len(F.data) /\ Len(F.data) <= Len(file[Current].data)
      /\ \A j \in 1 .. Len(F.data) : F.data[j] = file[Current].data[j]
  BY <1>2, <1>3, <1>5, <1>6
<1>8. PICK fs : fs = [file EXCEPT ![Current] = F]
  OBVIOUS
<1>9. [file EXCEPT ![Current].data = SubSeq(@, 1, file[Current].onDisk)] = fs
  <2>1. PICK c, R : c = Current /\ R = file[c]
    OBVIOUS
  <2>2. R = [data |-> d, onDisk |-> n, index |-> i] /\ R.data = d /\ R.onDisk = n
    BY <1>2, <2>1
  <2>3. [R EXCEPT !.data = e] = F
    BY <1>6, <2>2
  <2>4. [file EXCEPT ![c].data = SubSeq(@, 1, file[c].onDisk)]
           = [file EXCEPT ![c] = [R EXCEPT !.data = SubSeq(R.data, 1, R.onDisk)]]
    BY <2>1
  <2> QED
    BY <1>4, <1>8, <2>1, <2>2, <2>3, <2>4
<1>10. file \in Seq(FileType)
  BY <1>1 DEF FilesTypeOK
<1>11. /\ fs \in Seq(FileType) /\ Len(fs) = Len(file) /\ fs[Current] = F
       /\ \A f \in DOMAIN file : f # Current => fs[f] = file[f]
  BY <1>1, <1>7, <1>8, <1>10
<1>12. ASSUME NEW f \in DOMAIN file
       PROVE  /\ fs[f].onDisk <= Len(fs[f].data) /\ Len(fs[f].data) <= Len(file[f].data)
              /\ \A j \in 1 .. Len(fs[f].data) : fs[f].data[j] = file[f].data[j]
              /\ file[f].onDisk <= fs[f].onDisk
  <2>1. Len(file[f].data) \in Nat /\ file[f].onDisk \in Nat
    BY <1>1, FileIs
  <2>2. CASE f = Current
    BY <1>2, <1>5, <1>6, <1>7, <1>11, <2>2
  <2>3. CASE f # Current
    BY <1>1, <1>11, <2>1, <2>3 DEF Sound
  <2> QED
    BY <2>2, <2>3
<1>13. PICK ms : ms = <<>>
  OBVIOUS
<1>14. NewChunk(fs, ms) /\ recorded' = recorded
  BY <1>9, <1>13 DEF CrashAndRestart
<1>15. fs[Current].index = file[Current].index
  BY <1>2, <1>6, <1>11
<1> QED
  BY <1>11, <1>12, <1>13, <1>14, <1>15 DEF Renewed

(* So every step of the recorder is one of the two.                        *)
LEMMA StepIs ==
  ASSUME FilesInv, Record
  PROVE  \/ \E F \in FileType : InPlace(F)
         \/ \E fs \in Seq(FileType) : \E ms : Renewed(fs, ms)
<1>1. CASE Write
  <2>1. PICK size \in Sizes : (WriteHere(size) \/ WriteNext(size)) /\ recorded' = Append(recorded, size)
    BY <1>1 DEF Write
  <2> QED
    BY <2>1, WriteHereIs, WriteNextIs
<1>2. CASE FlushData \/ FlushIndex
  BY <1>2, FlushIs
<1>3. CASE CrashAndRestart
  BY <1>3, CrashIs
<1> QED
  BY <1>1, <1>2, <1>3 DEF Record

(* It keeps the invariant.                                                 *)
LEMMA InvStep ==
  ASSUME RecorderInv, [Record]_rvars
  PROVE  RecorderInv'
<1>1. FilesInv
  BY DEF RecorderInv
<1>2. ASSUME NEW F \in FileType, InPlace(F) PROVE RecorderInv'
  BY <1>2, InvInPlace DEF InPlace
<1>3. ASSUME NEW fs \in Seq(FileType), NEW ms, Renewed(fs, ms) PROVE RecorderInv'
  BY <1>3, InvNewChunk DEF Renewed
<1>4. CASE UNCHANGED rvars
  <2>1. recorded' = recorded /\ file' = file /\ dir' = dir
    BY <1>4 DEF rvars
  <2> QED
    BY <2>1 DEF RecorderInv, FilesInv, FilesTypeOK, Sound, Small, InOrder, DirInOrder, Room,
                Written, TotalSize, DiskSize, Newest, Current
<1> QED
  BY <1>1, <1>2, <1>3, <1>4, StepIs

(* A message is in a file at some place.                                   *)
LEMMA MessagesAre ==
  ASSUME FilesTypeOK, NEW F \in SUBSET DOMAIN file, NEW m
  PROVE  m \in Messages(F) <=> \E f \in F : \E i \in 1 .. Len(file[f].data) : m = file[f].data[i]
<1>1. \A f \in F : DOMAIN file[f].data = 1 .. Len(file[f].data)
  BY FileIs
<1>2. \A f \in F : m \in Range(file[f].data) <=> \E i \in DOMAIN file[f].data : m = file[f].data[i]
  BY DEF Range
<1>3. m \in Messages(F) <=> \E f \in F : m \in Range(file[f].data)
  BY DEF Messages
<1> QED
  BY <1>1, <1>2, <1>3

(* Recorder:ChunksKept follows from the invariant.  With a limit in chunks *)
(* it does not: then the newest are deleted.                              *)
LEMMA KeptIfSound ==
  ASSUME RecorderInv, Usage = "nb_bytes"
  PROVE  ChunksKept
<1>1. FilesTypeOK /\ \A f \in DOMAIN file : Sound(f) /\ Small(f)
  BY DEF RecorderInv, FilesInv
<1>2. /\ Newest \in DOMAIN dir /\ DOMAIN file = 1 .. Len(file) /\ Len(file) \in Nat
      /\ DOMAIN dir \in SUBSET Nat
  BY <1>1, NewestIs DEF FilesTypeOK
<1>3. \A k \in DOMAIN dir : dir[k] \in DOMAIN file
  BY <1>1 DEF FilesTypeOK
<1>4. Range(dir) \in SUBSET DOMAIN file /\ \A k \in DOMAIN dir : dir[k] \in Range(dir)
  BY <1>3 DEF Range
<1>5. ASSUME NEW f \in DOMAIN file, NEW i \in 1 .. Len(file[f].data)
      PROVE  file[f].data[i] \in Nat
  <2>1. file[f].data[i] \in DOMAIN recorded
    BY <1>1 DEF Sound
  <2>2. recorded \in Seq(Sizes)
    BY <1>1 DEF FilesTypeOK
  <2> QED
    BY <2>1, <2>2
<1>6. ASSUME NEW m \in Kept, NEW n \in m .. Len(recorded)
      PROVE  n \in Kept \cup Lost
  <2>0. PICK f \in Range(dir) : \E i \in 1 .. Len(file[f].data) : m = file[f].data[i]
    BY <1>1, <1>4, MessagesAre DEF Kept
  <2>1. PICK i \in 1 .. Len(file[f].data) : m = file[f].data[i]
    BY <2>0
  <2>2. PICK k \in DOMAIN dir : f = dir[k]
    BY <2>1 DEF Range
  <2>3. PICK N : N = Len(recorded) /\ N \in Nat
    BY <1>1 DEF FilesTypeOK
  <2>4. m \in Nat /\ m # 0 /\ f \in DOMAIN file
    <3>1. m \in DOMAIN recorded
      BY <1>1, <1>4, <2>1 DEF Sound
    <3>2. DOMAIN recorded = 1 .. N
      BY <1>1, <2>3 DEF FilesTypeOK
    <3> QED
      BY <1>4, <2>1, <2>3, <3>1, <3>2
  <2>5. n \in 1 .. N /\ n \in Nat /\ m <= n
    BY <2>3, <2>4
  <2> SUFFICES ASSUME n \notin Lost PROVE n \in Kept
    OBVIOUS
  <2>6. n \in Messages(DOMAIN file)
    BY <2>3, <2>5 DEF Lost
  <2>11. PICK g \in DOMAIN file : \E j \in 1 .. Len(file[g].data) : n = file[g].data[j]
    BY <1>1, <2>6, MessagesAre
  <2>7. PICK j \in 1 .. Len(file[g].data) : n = file[g].data[j]
    BY <2>11
  <2>8. ~(g < f)
    <3>1. g < f => file[g].data[j] < file[f].data[i]
      BY <2>1, <2>4, <2>7 DEF RecorderInv, InOrder
    <3> QED
      BY <2>1, <2>4, <2>5, <2>7, <3>1
  <2>9. g \in dir[k] .. Len(file)
    BY <1>2, <2>2, <2>4, <2>7, <2>8
  <2>10. g \in Range(dir)
    BY <2>2, <2>9 DEF RecorderInv, DirInOrder, Range
  <2> QED
    BY <1>1, <1>4, <2>7, <2>10, MessagesAre DEF Kept
<1>7. ASSUME NEW j \in DOMAIN dir, NEW k \in DOMAIN dir, j < k,
             NEW m \in Range(file[dir[j]].data), NEW n \in Range(file[dir[k]].data)
      PROVE  m < n
  <2>1. dir[j] < dir[k] /\ dir[j] \in DOMAIN file /\ dir[k] \in DOMAIN file
    BY <1>3, <1>7 DEF RecorderInv, DirInOrder
  <2>2. PICK a \in DOMAIN file[dir[j]].data : m = file[dir[j]].data[a]
    BY DEF Range
  <2>3. PICK b \in DOMAIN file[dir[k]].data : n = file[dir[k]].data[b]
    BY DEF Range
  <2>4. a \in 1 .. Len(file[dir[j]].data) /\ b \in 1 .. Len(file[dir[k]].data)
    BY <1>1, <2>1, FileIs
  <2> QED
    BY <2>1, <2>2, <2>3, <2>4 DEF RecorderInv, InOrder
<1>8. NewestKept
  <2>1. \A m \in Kept : (m .. Len(recorded)) \subseteq Kept \cup Lost
    BY <1>6
  <2> QED
    BY <1>7, <2>1 DEF NewestKept
<1>9. ASSUME NEW k \in DOMAIN dir
      PROVE  Written(dir[k], file[dir[k]].onDisk) <= ChunkSize \/ Len(file[dir[k]].data) = 1
  <2>1. file[dir[k]].onDisk \in 0 .. Len(file[dir[k]].data)
    BY <1>1, <1>3, FileIs DEF Sound
  <2> QED
    BY <1>1, <1>3, <2>1 DEF Small
<1>10. WithinLimits
  BY <1>9 DEF WithinLimits, RecorderInv, Room
<1> QED
  BY <1>8, <1>10 DEF ChunksKept

-----------------------------------------------------------------------------
(* The player reads, and the recorder goes on as without it.               *)
LEMMA ReadsOnly ==
  ASSUME [Next]_vars
  PROVE  [Record]_rvars
<1>1. CASE Recording
  BY <1>1 DEF Recording
<1>2. CASE UNCHANGED vars
  BY <1>2 DEF vars
<1>3. CASE StartPlayer \/ PlayNext \/ PlayEnds \/ Read \/ Control
  BY <1>3 DEF StartPlayer, PlayNext, PlayEnds, Read, Control
<1>4. CASE Player
  BY <1>4 DEF Player, TakeStep, TakeRef, ReadNext, OpenNext, ReadPrev, OpenPrev, NoPrev,
              TakeStart, TakeStop, TakeExit, Ends
<1> QED
  BY <1>1, <1>2, <1>3, <1>4 DEF Next

(* What is recorded does not depend on the player: every behaviour of both *)
(* is one of the recorder.                                                 *)
THEOREM PlayerReads == Spec => RecorderSpec
<1>1. Init => Start
  BY DEF Init
<1>2. [Next]_vars => [Record]_rvars
  BY ReadsOnly
<1> QED
  BY <1>1, <1>2, PTL DEF Spec, RecorderSpec

(* What the recorder has: the messages of each file in order, the files in *)
(* the order of their numbers, none but the oldest missing, none too long, *)
(* and all but the newest within the limit.                                *)
THEOREM RecorderSound == RecorderSpec => []RecorderInv
<1>1. Start => RecorderInv
  BY InvStart
<1>2. RecorderInv /\ [Record]_rvars => RecorderInv'
  BY InvStep
<1> QED
  BY <1>1, <1>2, PTL DEF RecorderSpec

(* With a limit in bytes only the oldest data is deleted, whenever the     *)
(* node is killed, and no more is kept than the limit and a chunk.         *)
THEOREM ChunksKeptAlways == Usage = "nb_bytes" => (Spec => []ChunksKept)
<1> SUFFICES ASSUME Usage = "nb_bytes" PROVE Spec => []ChunksKept
  OBVIOUS
<1>1. RecorderInv => ChunksKept
  BY KeptIfSound
<1> QED
  BY <1>1, PlayerReads, RecorderSound, PTL

-----------------------------------------------------------------------------
(* The player and its playback process.  As long as the process runs the   *)
(* player knows it, and the one message of its end comes after that.       *)
Sent ==
    [op : {"next", "prev"}, by : Nat] \cup [op : {"ref"}, n : Nat, by : Nat]
    \cup [op : {"start", "stop"}, pid : Nat \ {None}] \cup [op : {"EXIT"}, pid : Nat]

NoExit(q) == \A i \in 1 .. Len(q) : q[i].op # "EXIT"

OneExit(q, p) ==
    \A i \in 1 .. Len(q) : q[i].op = "EXIT" =>
      /\ p # None /\ q[i].pid = p
      /\ \A j \in 1 .. Len(q) : q[j].op = "EXIT" => j = i

ChildTypeOK ==
    /\ mbox \in Seq(Sent) /\ calls \in Nat /\ stream \in Nat
    /\ playing \in [pid : Nat, st : {"none", "plays", "waits"}, exit : BOOLEAN]

ChildInv ==
    /\ ChildTypeOK
    /\ playing.exit => playing.st # "none"
    /\ playing.st # "none" => stream # None /\ playing.pid = stream /\ NoExit(mbox)
    /\ OneExit(mbox, stream)
    /\ up # "unknown_child"

(* A message that is taken, ...                                            *)
LEMMA TakenOne ==
  ASSUME NEW q \in Seq(Sent), q # <<>>, NEW p
  PROVE  /\ Head(q) \in Sent /\ Tail(q) \in Seq(Sent)
         /\ NoExit(q) => NoExit(Tail(q)) /\ Head(q).op # "EXIT"
         /\ OneExit(q, p) => OneExit(Tail(q), p)
         /\ OneExit(q, p) /\ Head(q).op = "EXIT" => p # None /\ Head(q).pid = p /\ NoExit(Tail(q))
<1>1. PICK L : L = Len(q)
  OBVIOUS
<1>2. /\ L \in Nat /\ 1 \in 1 .. L /\ Head(q) = q[1] /\ Head(q) \in Sent
      /\ Tail(q) \in Seq(Sent) /\ Len(Tail(q)) = L - 1
  BY <1>1
<1>3. \A i \in 1 .. L - 1 : Tail(q)[i] = q[i + 1] /\ i + 1 \in 1 .. L /\ i + 1 # 1
  BY <1>1, <1>2
<1>4. NoExit(q) => NoExit(Tail(q)) /\ Head(q).op # "EXIT"
  BY <1>1, <1>2, <1>3 DEF NoExit
<1>5. ASSUME OneExit(q, p) PROVE OneExit(Tail(q), p)
  <2> SUFFICES ASSUME NEW i \in 1 .. L - 1, Tail(q)[i].op = "EXIT"
               PROVE  /\ p # None /\ Tail(q)[i].pid = p
                      /\ \A j \in 1 .. L - 1 : Tail(q)[j].op = "EXIT" => j = i
    BY <1>2 DEF OneExit
  <2>1. p # None /\ q[i + 1].pid = p /\ \A j \in 1 .. L : q[j].op = "EXIT" => j = i + 1
    BY <1>1, <1>3, <1>5 DEF OneExit
  <2>2. ASSUME NEW j \in 1 .. L - 1, Tail(q)[j].op = "EXIT" PROVE j = i
    <3>1. j + 1 = i + 1
      BY <1>3, <2>1, <2>2
    <3> QED
      BY <1>2, <3>1
  <2> QED
    BY <1>3, <2>1, <2>2
<1>6. ASSUME OneExit(q, p), Head(q).op = "EXIT" PROVE p # None /\ Head(q).pid = p /\ NoExit(Tail(q))
  <2>1. p # None /\ q[1].pid = p /\ \A j \in 1 .. L : q[j].op = "EXIT" => j = 1
    BY <1>1, <1>2, <1>6 DEF OneExit
  <2>2. NoExit(Tail(q))
    BY <1>2, <1>3, <2>1 DEF NoExit
  <2> QED
    BY <1>2, <2>1, <2>2
<1> QED
  BY <1>2, <1>4, <1>5, <1>6

(* ... or comes.                                                           *)
LEMMA SentOne ==
  ASSUME NEW q \in Seq(Sent), NEW m \in Sent, NEW p
  PROVE  /\ Append(q, m) \in Seq(Sent)
         /\ NoExit(q) /\ m.op # "EXIT" => NoExit(Append(q, m))
         /\ OneExit(q, p) /\ m.op # "EXIT" => OneExit(Append(q, m), p)
         /\ NoExit(q) /\ m.op = "EXIT" /\ p # None /\ m.pid = p => OneExit(Append(q, m), p)
<1>1. PICK L, a : L = Len(q) /\ a = Append(q, m)
  OBVIOUS
<1>2. /\ L \in Nat /\ a \in Seq(Sent) /\ Len(a) = L + 1 /\ a[L + 1] = m
      /\ \A i \in 1 .. L : a[i] = q[i]
  BY <1>1
<1>3. \A i \in 1 .. L + 1 : i \in 1 .. L \/ i = L + 1
  BY <1>2
<1>4. NoExit(q) /\ m.op # "EXIT" => NoExit(a)
  BY <1>1, <1>2, <1>3 DEF NoExit
<1>5. OneExit(q, p) /\ m.op # "EXIT" => OneExit(a, p)
  BY <1>1, <1>2, <1>3 DEF OneExit
<1>6. NoExit(q) /\ m.op = "EXIT" /\ p # None /\ m.pid = p => OneExit(a, p)
  BY <1>1, <1>2, <1>3 DEF NoExit, OneExit
<1> QED
  BY <1>1, <1>2, <1>4, <1>5, <1>6

(* The operations of the player, ...                                       *)
LEMMA ChildKeptTaking ==
  ASSUME ChildInv, TakeStep \/ TakeRef \/ TakeStart \/ TakeStop
  PROVE  ChildInv'
<1>1. mbox \in Seq(Sent) /\ mbox # <<>> /\ mbox' = Tail(mbox) /\ up' = up
  BY DEF ChildInv, ChildTypeOK, TakeStep, TakeRef, TakeStart, TakeStop, Takes
<1>2. PICK h : h = Head(mbox)
  OBVIOUS
<1>3. /\ h \in Sent /\ mbox' \in Seq(Sent)
      /\ NoExit(mbox) => NoExit(mbox')
      /\ OneExit(mbox', stream)
  BY <1>1, <1>2, TakenOne DEF ChildInv
<1>4. CASE TakeStep
  <2>1. UNCHANGED <<stream, playing, calls>>
    BY <1>4 DEF TakeStep
  <2> QED
    BY <1>1, <1>3, <2>1 DEF ChildInv, ChildTypeOK
<1>5. CASE TakeRef
  <2>1. UNCHANGED <<stream, calls>>
    BY <1>5 DEF TakeRef
  <2>2. playing' = playing \/ (playing.st = "waits" /\ playing' = [playing EXCEPT !.st = "plays"])
    BY <1>5 DEF TakeRef, Answer
  <2>3. /\ playing' \in [pid : Nat, st : {"none", "plays", "waits"}, exit : BOOLEAN]
        /\ playing'.exit = playing.exit /\ playing'.pid = playing.pid
        /\ playing'.st = "none" <=> playing.st = "none"
    BY <2>2 DEF ChildInv, ChildTypeOK
  <2> QED
    BY <1>1, <1>3, <2>1, <2>3 DEF ChildInv, ChildTypeOK
<1>6. CASE TakeStart
  <2>1. UNCHANGED calls /\ h.op = "start"
    BY <1>2, <1>6 DEF TakeStart, Takes
  <2>2. CASE stream # None
    <3>1. UNCHANGED <<stream, playing>>
      BY <1>6, <2>2 DEF TakeStart
    <3> QED
      BY <1>1, <1>3, <2>1, <3>1 DEF ChildInv, ChildTypeOK
  <2>3. CASE stream = None
    <3>1. h.pid \in Nat \ {None}
      BY <1>3, <2>1 DEF Sent
    <3>2. stream' = h.pid /\ playing' = [pid |-> h.pid, st |-> "plays", exit |-> FALSE]
      BY <1>2, <1>6, <2>3 DEF TakeStart, NoProcess
    <3>3. NoExit(mbox') /\ OneExit(mbox', stream')
      BY <1>3, <2>3 DEF NoExit, OneExit
    <3> QED
      BY <1>1, <1>3, <2>1, <3>1, <3>2, <3>3 DEF ChildInv, ChildTypeOK
  <2> QED
    BY <2>2, <2>3
<1>7. CASE TakeStop
  <2>1. UNCHANGED <<stream, calls>>
    BY <1>7 DEF TakeStop
  <2>2. PICK e \in BOOLEAN : e = (stream = playing.pid /\ playing.st # "none")
    OBVIOUS
  <2>3. playing' = [playing EXCEPT !.exit = e]
    BY <1>7, <2>2 DEF TakeStop
  <2>4. /\ playing' \in [pid : Nat, st : {"none", "plays", "waits"}, exit : BOOLEAN]
        /\ playing'.exit = e /\ playing'.pid = playing.pid /\ playing'.st = playing.st
    BY <2>3 DEF ChildInv, ChildTypeOK
  <2> QED
    BY <1>1, <1>3, <2>1, <2>2, <2>4 DEF ChildInv, ChildTypeOK
<1> QED
  BY <1>4, <1>5, <1>6, <1>7

(* Answers and moves leave the mailbox alone.                              *)
LEMMA ChildKeptReading ==
  ASSUME ChildInv, ReadNext \/ OpenNext \/ ReadPrev \/ OpenPrev
  PROVE  ChildInv'
<1>1. UNCHANGED <<up, mbox, stream, calls>>
  BY DEF ReadNext, OpenNext, ReadPrev, OpenPrev
<1>2. playing' = playing \/ (playing.st = "waits" /\ playing' = [playing EXCEPT !.st = "plays"])
  BY DEF ReadNext, OpenNext, ReadPrev, OpenPrev, Answer
<1>3. /\ playing' \in [pid : Nat, st : {"none", "plays", "waits"}, exit : BOOLEAN]
      /\ playing'.exit = playing.exit /\ playing'.pid = playing.pid
      /\ playing'.st = "none" <=> playing.st = "none"
  BY <1>2 DEF ChildInv, ChildTypeOK
<1> QED
  BY <1>1, <1>3 DEF ChildInv, ChildTypeOK

(* A player that ends takes its process along.                             *)
LEMMA ChildKeptEnding ==
  ASSUME ChildInv, NoPrev \/ TakeExit
  PROVE  ChildInv'
<1>1. CASE NoPrev
  <2>1. /\ up' = "no_prev" /\ mbox' = <<>> /\ stream' = None /\ calls' = calls
        /\ playing' = [pid |-> None, st |-> "none", exit |-> FALSE]
    BY <1>1 DEF NoPrev, Ends, NoProcess
  <2>2. <<>> \in Seq(Sent) /\ OneExit(<<>>, None)
    BY DEF OneExit
  <2>3. None \in Nat
    BY DEF None
  <2> QED
    BY <2>1, <2>2, <2>3 DEF ChildInv, ChildTypeOK
<1>2. CASE TakeExit
  <2>1. mbox \in Seq(Sent) /\ mbox # <<>> /\ Head(mbox).op = "EXIT"
    BY <1>2 DEF TakeExit, ChildInv, ChildTypeOK
  <2>2. /\ Tail(mbox) \in Seq(Sent) /\ stream # None /\ Head(mbox).pid = stream /\ NoExit(Tail(mbox))
        /\ ~NoExit(mbox)
    BY <2>1, TakenOne DEF ChildInv
  <2>3. stream' = None /\ mbox' = Tail(mbox) /\ UNCHANGED <<up, playing, calls>>
    BY <1>2, <2>2 DEF TakeExit
  <2>4. playing.st = "none"
    BY <2>2 DEF ChildInv
  <2>5. OneExit(mbox', None)
    BY <2>2, <2>3 DEF NoExit, OneExit
  <2>6. None \in Nat
    BY DEF None
  <2> QED
    BY <2>2, <2>3, <2>4, <2>5, <2>6 DEF ChildInv, ChildTypeOK
<1> QED
  BY <1>1, <1>2

(* ... of the playback process, and of those that call the player.         *)
LEMMA ChildKeptPlaying ==
  ASSUME ChildInv, PlayNext \/ PlayEnds
  PROVE  ChildInv'
<1>1. UNCHANGED <<up, stream, calls>> /\ mbox \in Seq(Sent)
  BY DEF PlayNext, PlayEnds, ChildInv, ChildTypeOK
<1>2. CASE PlayNext
  <2>1. PICK m : m = [op |-> "next", by |-> playing.pid]
    OBVIOUS
  <2>2. m \in Sent /\ m.op # "EXIT"
    BY <2>1 DEF Sent, ChildInv, ChildTypeOK
  <2>3. mbox' = Append(mbox, m) /\ playing.st = "plays" /\ playing' = [playing EXCEPT !.st = "waits"]
    BY <1>2, <2>1 DEF PlayNext
  <2>4. /\ playing' \in [pid : Nat, st : {"none", "plays", "waits"}, exit : BOOLEAN]
        /\ playing'.exit = playing.exit /\ playing'.pid = playing.pid /\ playing'.st = "waits"
    BY <2>3 DEF ChildInv, ChildTypeOK
  <2>5. mbox' \in Seq(Sent) /\ NoExit(mbox') /\ OneExit(mbox', stream)
    BY <1>1, <2>2, <2>3, SentOne DEF ChildInv
  <2> QED
    BY <1>1, <2>3, <2>4, <2>5 DEF ChildInv, ChildTypeOK
<1>3. CASE PlayEnds
  <2>1. PICK m : m = [op |-> "EXIT", pid |-> playing.pid]
    OBVIOUS
  <2>2. m \in Sent /\ m.op = "EXIT" /\ m.pid = playing.pid
    BY <2>1 DEF Sent, ChildInv, ChildTypeOK
  <2>3. /\ mbox' = Append(mbox, m) /\ playing.exit
        /\ playing' = [playing EXCEPT !.st = "none", !.exit = FALSE]
    BY <1>3, <2>1 DEF PlayEnds
  <2>4. playing.st # "none" /\ stream # None /\ playing.pid = stream /\ NoExit(mbox)
    BY <2>3 DEF ChildInv
  <2>5. /\ playing' \in [pid : Nat, st : {"none", "plays", "waits"}, exit : BOOLEAN]
        /\ playing'.exit = FALSE /\ playing'.st = "none"
    BY <2>3 DEF ChildInv, ChildTypeOK
  <2>6. mbox' \in Seq(Sent) /\ OneExit(mbox', stream)
    BY <1>1, <2>2, <2>3, <2>4, SentOne
  <2> QED
    BY <1>1, <2>5, <2>6 DEF ChildInv, ChildTypeOK
<1> QED
  BY <1>2, <1>3

(* What is sent to the player is never an end.                             *)
LEMMA ChildKeptCalling ==
  ASSUME ChildInv, Read \/ Control
  PROVE  ChildInv'
<1>1. /\ UNCHANGED <<up, stream, playing>> /\ mbox \in Seq(Sent) /\ calls \in Nat /\ calls' = calls + 1
  BY DEF Read, Control, ChildInv, ChildTypeOK
<1>2. PICK m \in Sent : mbox' = Append(mbox, m) /\ m.op # "EXIT"
  <2>1. CASE Read
    <3>1. PICK r \in [op : {"next", "prev"}, by : {None}] \cup [op : {"ref"}, n : Refs, by : {None}] :
            mbox' = Append(mbox, r)
      BY <2>1 DEF Read
    <3>2. r \in Sent /\ r.op # "EXIT"
      <4>1. None \in Nat
        BY DEF None
      <4>2. CASE r \in [op : {"next", "prev"}, by : {None}]
        BY <4>1, <4>2 DEF Sent
      <4>3. CASE r \in [op : {"ref"}, n : Refs, by : {None}]
        BY <4>1, <4>3, PlayerAssumption DEF Sent
      <4> QED
        BY <4>2, <4>3
    <3> QED
      BY <3>1, <3>2
  <2>2. CASE Control
    <3>1. PICK op \in {"start", "stop"} : mbox' = Append(mbox, [op |-> op, pid |-> calls + 1])
      BY <2>2 DEF Control
    <3>2. calls + 1 \in Nat \ {None}
      BY <1>1 DEF None
    <3>3. [op |-> op, pid |-> calls + 1] \in Sent /\ [op |-> op, pid |-> calls + 1].op # "EXIT"
      BY <3>2 DEF Sent
    <3> QED
      BY <3>1, <3>3
  <2> QED
    BY <2>1, <2>2
<1>3. mbox' \in Seq(Sent) /\ OneExit(mbox', stream) /\ (NoExit(mbox) => NoExit(mbox'))
  BY <1>1, <1>2, SentOne DEF ChildInv
<1> QED
  BY <1>1, <1>3 DEF ChildInv, ChildTypeOK

(* While the playback process runs the player knows it, and no end of it   *)
(* is in the mailbox; one that is there is of the process it knows.        *)
THEOREM ChildSound == Spec => []ChildInv
<1>1. Init => ChildInv
  <2> SUFFICES ASSUME Init PROVE ChildInv
    OBVIOUS
  <2>1. /\ up = "off" /\ mbox = <<>> /\ stream = None /\ calls = 0
        /\ playing = [pid |-> None, st |-> "none", exit |-> FALSE]
    BY DEF Init, NoProcess
  <2>2. <<>> \in Seq(Sent) /\ OneExit(<<>>, None) /\ None \in Nat
    BY DEF OneExit, None
  <2> QED
    BY <2>1, <2>2 DEF ChildInv, ChildTypeOK
<1>2. ASSUME ChildInv, [Next]_vars PROVE ChildInv'
  <2>1. CASE Player
    BY <1>2, <2>1, ChildKeptTaking, ChildKeptReading, ChildKeptEnding DEF Player
  <2>2. CASE PlayNext \/ PlayEnds
    BY <1>2, <2>2, ChildKeptPlaying
  <2>3. CASE Read \/ Control
    BY <1>2, <2>3, ChildKeptCalling
  <2>4. CASE StartPlayer
    <3>1. UNCHANGED <<mbox, stream, playing, calls>> /\ up' = "up"
      BY <2>4 DEF StartPlayer
    <3> QED
      BY <1>2, <3>1 DEF ChildInv, ChildTypeOK
  <2>5. CASE Recording \/ UNCHANGED vars
    <3>1. UNCHANGED <<mbox, stream, playing, calls, up>>
      BY <2>5 DEF Recording, vars
    <3> QED
      BY <1>2, <3>1 DEF ChildInv, ChildTypeOK
  <2> QED
    BY <1>2, <2>1, <2>2, <2>3, <2>4, <2>5 DEF Next
<1> QED
  BY <1>1, <1>2, PTL DEF Spec

(* The player never meets the end of a process it does not know: of one    *)
(* that it has forgotten, or had forgotten when it started another.        *)
THEOREM ChildrenKnownAlways == Spec => []ChildrenKnown
<1>1. ChildInv => ChildrenKnown
  BY DEF ChildInv, ChildrenKnown
<1> QED
  BY <1>1, ChildSound, PTL

-----------------------------------------------------------------------------
(* Where messages are.  If every packet fits the limit in bytes, the newest*)
(* chunk is never deleted, so that the numbers of chunks, as those of      *)
(* files, only go up; and messages only go up in a file too.               *)
PacketsFit == Usage = "nb_bytes" /\ \A size \in Sizes : size + 1 <= Limit

Ascending ==
    \A f \in DOMAIN file : \A i, j \in 1 .. Len(file[f].data) : i < j => file[f].data[i] < file[f].data[j]

Numbers ==
    /\ \A k \in DOMAIN dir : dir[k] = k + 1
    /\ file[Current].index <= Len(file[Current].data)

(* What is on disk stays as it is, also of a file that is deleted.         *)
FilesGrow ==
    \A f \in DOMAIN file :
      /\ f \in DOMAIN file' /\ file[f].onDisk <= file'[f].onDisk
      /\ \A i \in 1 .. file[f].onDisk : file'[f].data[i] = file[f].data[i]

(* n packets take at least n words.                                        *)
LEMMA TakenAtLeast ==
  ASSUME NEW r, NEW d, NEW n \in Nat, \A i \in 1 .. n : r[d[i]] \in Nat \ {0}
  PROVE  n <= Taken(r, d, n)
<1> DEFINE B == {m \in 0 .. n : ~(m <= Taken(r, d, m))}
<1>1. ASSUME NEW m \in 0 .. n
      PROVE  /\ m \in Nat /\ Taken(r, d, m) \in Nat
             /\ m = 0 => Taken(r, d, m) = 0
             /\ m # 0 => Taken(r, d, m) = r[d[m]] + Taken(r, d, m - 1) /\ m \in 1 .. n
  <2>1. m \in Nat /\ \A i \in 1 .. m : r[d[i]] \in Nat
    OBVIOUS
  <2> QED
    BY <2>1, TakenIs
<1> SUFFICES ASSUME B # {} PROVE FALSE
  <2>1. n \in 0 .. n
    OBVIOUS
  <2> QED
    BY <2>1
<1>2. PICK W : W = B
  OBVIOUS
<1>3. W \in SUBSET Nat /\ IsFiniteSet(W) /\ W # {}
  <2>1. IsFiniteSet(0 .. n)
    <3>1. n \in Int /\ 0 \in Int
      OBVIOUS
    <3> QED
      BY <3>1, FS_Interval
  <2>2. W \subseteq 0 .. n
    BY <1>2
  <2>3. W \in SUBSET Nat
    BY <1>1, <2>2
  <2> QED
    BY <1>2, <2>1, <2>2, <2>3, FS_Subset
<1>4. PICK m \in W : \A k \in W : m <= k
  BY <1>3, MinIs
<1>5. m \in 0 .. n /\ ~(m <= Taken(r, d, m))
  BY <1>2
<1>6. m # 0
  BY <1>1, <1>5
<1>7. m - 1 \in 0 .. n /\ m - 1 \notin W
  BY <1>1, <1>4, <1>5, <1>6
<1>8. m - 1 <= Taken(r, d, m - 1) /\ Taken(r, d, m - 1) \in Nat
  BY <1>1, <1>2, <1>7
<1>9. r[d[m]] \in Nat \ {0}
  BY <1>1, <1>5, <1>6
<1>10. m \in Nat /\ Taken(r, d, m) = r[d[m]] + Taken(r, d, m - 1)
  BY <1>1, <1>5, <1>6
<1> QED
  BY <1>5, <1>8, <1>9, <1>10

(* The newest chunk fits the limit alone, with its index.                  *)
LEMMA NewestFits ==
  ASSUME PacketsFit, FilesInv, NEW n \in 0 .. Len(file[Current].data), NEW i \in 0 .. Len(file[Current].data)
  PROVE  Written(Current, n) + i <= Limit
<1>1. PICK c, L : c = Current /\ L = Len(file[c].data)
  OBVIOUS
<1>2. FilesTypeOK /\ Sound(c) /\ Small(c) /\ c \in DOMAIN file /\ L \in Nat
  BY <1>1, NewestIs, FileIs DEF FilesInv
<1>3. /\ Limit \in Nat /\ ChunkSize \in Nat /\ 2 * ChunkSize <= Limit
      /\ \A size \in Sizes : size \in Nat \ {0} /\ size + 1 <= Limit
  BY RecorderAssumption DEF PacketsFit
<1>4. n \in Nat /\ n <= L /\ i \in Nat /\ i <= L
  BY <1>1, <1>2
<1>5. Written(c, n) \in Nat
  BY <1>1, <1>2, WrittenIs
<1>6. ASSUME NEW j \in 1 .. L PROVE recorded[file[c].data[j]] \in Sizes
  <2>1. file[c].data[j] \in DOMAIN recorded
    BY <1>1, <1>2 DEF Sound
  <2>2. recorded \in Seq(Sizes)
    BY <1>2 DEF FilesTypeOK
  <2> QED
    BY <2>1, <2>2
<1>7. CASE L = 1
  <2>1. PICK size : size = recorded[file[c].data[1]]
    OBVIOUS
  <2>2. size \in Nat /\ size + 1 <= Limit
    BY <1>3, <1>6, <1>7, <2>1
  <2>3. Written(c, n) <= size
    <3>1. CASE n = 0
      BY <1>1, <1>2, <2>2, <3>1, WrittenIs
    <3>2. CASE n = 1
      <4>1. Written(c, 1) = Taken(recorded, file[c].data, 1)
        BY DEF Written, Taken
      <4>2. \A j \in 1 .. 1 : recorded[file[c].data[j]] \in Nat
        BY <1>3, <1>6, <1>7
      <4>3. /\ Taken(recorded, file[c].data, 1) = recorded[file[c].data[1]] + Taken(recorded, file[c].data, 1 - 1)
            /\ Taken(recorded, file[c].data, 0) = 0
        BY <4>2, TakenIs
      <4> QED
        BY <2>1, <2>2, <3>2, <4>1, <4>3
    <3> QED
      BY <1>4, <1>7, <3>1, <3>2
  <2> QED
    BY <1>1, <1>3, <1>4, <1>5, <1>7, <2>2, <2>3
<1>8. CASE L # 1
  <2>1. Written(c, n) <= ChunkSize /\ Written(c, L) <= ChunkSize
    BY <1>1, <1>2, <1>8 DEF Small
  <2>2. L <= Written(c, L)
    <3>1. \A j \in 1 .. L : recorded[file[c].data[j]] \in Nat \ {0}
      BY <1>3, <1>6
    <3>2. L <= Taken(recorded, file[c].data, L)
      BY <1>2, <3>1, TakenAtLeast
    <3> QED
      BY <3>2 DEF Written, Taken
  <2>3. Written(c, L) \in Nat
    BY <1>1, <1>2, WrittenIs
  <2> QED
    BY <1>1, <1>3, <1>4, <1>5, <2>1, <2>2, <2>3
<1> QED
  BY <1>7, <1>8

(* It is therefore not deleted, ...                                        *)
LEMMA NewestStays ==
  ASSUME PacketsFit, RecorderInv, Numbers, NEW fs \in Seq(FileType), NEW ms, Renewed(fs, ms)
  PROVE  Newest \in Pruned(fs)
<1>1. FilesInv /\ FilesTypeOK
  BY DEF RecorderInv, FilesInv
<1>2. PICK c, L, top : c = Current /\ L = Len(file[c].data) /\ top = Newest
  OBVIOUS
<1>3. /\ top \in DOMAIN dir /\ top \in Nat /\ \A k \in DOMAIN dir : k \in Nat /\ k <= top
      /\ c \in DOMAIN file /\ L \in Nat /\ dir[top] = c
  <2>1. \A k \in DOMAIN dir : k \in Nat
    BY <1>1 DEF FilesTypeOK
  <2> QED
    BY <1>1, <1>2, <2>1, NewestIs, FileIs DEF Current
<1>4. fs[c] \in FileType
  <2>1. DOMAIN file = 1 .. Len(file) /\ Len(fs) = Len(file)
    BY <1>1, NewestIs DEF Renewed
  <2> QED
    BY <1>3, <2>1
<1>5. fs[c].onDisk \in 0 .. L /\ fs[c].index \in 0 .. L
  <2>1. /\ fs[c].onDisk \in Nat /\ fs[c].index \in Nat /\ Len(fs[c].data) \in Nat
    BY <1>4, SMTT(30) DEF FileType
  <2>2. fs[c].onDisk <= Len(fs[c].data) /\ Len(fs[c].data) <= L
    BY <1>2, <1>3 DEF Renewed
  <2>3. fs[c].index <= L
    BY <1>2, <1>3 DEF Renewed, Numbers
  <2> QED
    BY <1>3, <2>1, <2>2, <2>3
<1>6. DiskSize(fs, c) <= Limit /\ DiskSize(fs, c) \in Nat
  <2>1. Written(c, fs[c].onDisk) + fs[c].index <= Limit
    BY <1>1, <1>2, <1>5, NewestFits
  <2>2. Written(c, fs[c].onDisk) \in Nat
    <3>1. Sound(c)
      BY <1>1, <1>3 DEF FilesInv
    <3> QED
      BY <1>1, <1>2, <1>3, <1>5, <3>1, WrittenIs
  <2>3. fs[c].index \in Nat
    BY <1>5
  <2> QED
    BY <2>1, <2>2, <2>3 DEF DiskSize
<1>7. TotalSize(fs, {j \in DOMAIN dir : j >= top}) = DiskSize(fs, c)
  <2>1. PICK S : S = {j \in DOMAIN dir : j >= top}
    OBVIOUS
  <2>2. S = {top}
    <3>1. \A j \in DOMAIN dir : j >= top => j = top
      BY <1>3
    <3> QED
      BY <1>3, <2>1, <3>1
  <2>3. PICK g : g = [k \in S |-> DiskSize(fs, dir[k])]
    OBVIOUS
  <2>4. IsFiniteSet(S) /\ S \ {top} = {}
    BY <2>2, FS_Singleton
  <2>5. g \in [S -> Nat] /\ top \in S /\ g[top] = DiskSize(fs, c)
    BY <1>3, <1>6, <2>2, <2>3
  <2>6. SumFunction(g) = g[top] + SumFunction([y \in S \ {top} |-> g[y]])
    BY <2>4, <2>5, SumFacts
  <2>7. SumFunction([y \in S \ {top} |-> g[y]]) = 0
    <3>1. PICK E : E = S \ {top}
      OBVIOUS
    <3>2. IsFiniteSet(E) /\ E = {} /\ [y \in E |-> g[y]] \in [E -> Nat]
      BY <2>4, <3>1, FS_EmptySet
    <3> QED
      BY <3>1, <3>2, SumFacts
  <2> QED
    BY <1>6, <2>1, <2>3, <2>5, <2>6, <2>7 DEF TotalSize
<1> QED
  BY <1>2, <1>3, <1>6, <1>7 DEF Pruned, PacketsFit

(* ... and the new chunk has the next number.                              *)
LEMMA NextNumber ==
  ASSUME PacketsFit, RecorderInv, Numbers, NEW fs \in Seq(FileType), NEW ms, Renewed(fs, ms)
  PROVE  /\ file' = Append(fs, [data |-> ms, onDisk |-> 0, index |-> 0])
         /\ Len(file) = Newest + 1 /\ Len(fs) = Len(file) /\ Len(file) \in Nat
         /\ DOMAIN dir' \in SUBSET ((DOMAIN dir) \cup {Newest + 1}) /\ Newest + 1 \in DOMAIN dir'
         /\ \A k \in DOMAIN dir' : k # Newest + 1 => dir'[k] = dir[k]
         /\ dir'[Newest + 1] = Len(file) + 1
<1>1. FilesInv /\ FilesTypeOK /\ Len(fs) = Len(file)
  BY DEF RecorderInv, FilesInv, Renewed
<1>2. PICK old, L, top : old = Pruned(fs) /\ L = Len(file) /\ top = Newest
  OBVIOUS
<1>3. top \in old /\ top \in Nat /\ old \in SUBSET DOMAIN dir /\ \A k \in DOMAIN dir : k <= top
  <2>1. old \in SUBSET DOMAIN dir
    BY <1>2 DEF Pruned
  <2> QED
    BY <1>1, <1>2, <2>1, NewestStays, NewestIs
<1>4. Max(old) = top
  <2>1. PICK m : m = Max(old)
    OBVIOUS
  <2>2. old \in SUBSET Nat /\ IsFiniteSet(old) /\ old # {}
    BY <1>1, <1>3, FS_Subset DEF FilesTypeOK
  <2>3. m \in old /\ \A y \in old : y <= m
    BY <2>1, <2>2, MaxIs
  <2>4. m <= top /\ top <= m /\ m \in Nat
    BY <1>3, <2>2, <2>3
  <2> QED
    BY <1>3, <2>1, <2>4
<1>5. L = top + 1 /\ L \in Nat
  <2>1. Current = L /\ L \in Nat
    BY <1>1, <1>2, NewestIs DEF RecorderInv, DirInOrder
  <2> QED
    BY <1>1, <1>2, <2>1, NewestIs DEF Current, Numbers
<1>6. /\ file' = Append(fs, [NewFile EXCEPT !.data = ms])
      /\ dir' = [k \in old \cup {top + 1} |-> IF k = top + 1 THEN L + 1 ELSE dir[k]]
  <2>1. NewChunk(fs, ms)
    BY DEF Renewed
  <2>2. old # {}
    BY <1>3
  <2> QED
    BY <1>2, <1>4, <2>1, <2>2 DEF NewChunk
<1>7. [NewFile EXCEPT !.data = ms] = [data |-> ms, onDisk |-> 0, index |-> 0]
  BY DEF NewFile
<1> QED
  BY <1>1, <1>2, <1>3, <1>5, <1>6, <1>7

(* The numbers of chunks follow those of the files.                        *)
LEMMA NumbersStep ==
  ASSUME PacketsFit, RecorderInv, Numbers, [Record]_rvars
  PROVE  Numbers'
<1>1. FilesInv /\ FilesTypeOK /\ Current \in DOMAIN file
  BY NewestIs DEF RecorderInv, FilesInv
<1>2. PICK c : c = Current
  OBVIOUS
<1>3. ASSUME NEW F \in FileType, InPlace(F) PROVE Numbers'
  <2>1. dir' = dir /\ Current' = c
    BY <1>2, <1>3 DEF InPlace, Current, Newest
  <2>2. file'[c] = F
    BY <1>1, <1>2, <1>3 DEF InPlace
  <2>3. F.index <= Len(F.data)
    <3>1. Len(F.data) \in Nat /\ F.index \in Nat /\ Len(file[c].data) \in Nat /\ file[c].index \in Nat
      BY <1>1, <1>2, FileIs DEF FileType
    <3>2. Len(file[c].data) <= Len(F.data)
      <4>1. CASE recorded' = recorded /\ F.data = file[Current].data
        BY <1>2, <3>1, <4>1
      <4>2. CASE \E size \in Sizes : /\ Fits(size) /\ recorded' = Append(recorded, size)
                                      /\ F.data = Append(file[Current].data, Len(recorded) + 1)
        <5>1. PICK x : x = Len(recorded) + 1
          OBVIOUS
        <5>2. F.data = Append(file[c].data, x)
          BY <1>2, <4>2, <5>1
        <5>3. x \in Nat /\ file[c].data \in Seq(Nat)
          BY <1>1, <1>2, <5>1, FileIs DEF FilesTypeOK
        <5>4. Len(F.data) = Len(file[c].data) + 1
          BY <5>2, <5>3
        <5> QED
          BY <3>1, <5>4
      <4> QED
        BY <1>3, <4>1, <4>2 DEF InPlace
    <3>3. F.index = file[c].index \/ F.index = Len(F.data)
      BY <1>2, <1>3 DEF InPlace
    <3>4. file[c].index <= Len(file[c].data)
      BY <1>2 DEF Numbers
    <3> QED
      BY <3>1, <3>2, <3>3, <3>4
  <2> QED
    BY <2>1, <2>2, <2>3 DEF Numbers
<1>4. ASSUME NEW fs \in Seq(FileType), NEW ms, Renewed(fs, ms) PROVE Numbers'
  <2>1. PICK L, top : L = Len(file) /\ top = Newest
    OBVIOUS
  <2>2. /\ file' = Append(fs, [data |-> ms, onDisk |-> 0, index |-> 0])
        /\ L = top + 1 /\ Len(fs) = L /\ L \in Nat
        /\ DOMAIN dir' \in SUBSET ((DOMAIN dir) \cup {top + 1}) /\ top + 1 \in DOMAIN dir'
        /\ \A k \in DOMAIN dir' : k # top + 1 => dir'[k] = dir[k]
        /\ dir'[top + 1] = L + 1
    BY <1>4, <2>1, NextNumber
  <2>3. ASSUME NEW k \in DOMAIN dir' PROVE dir'[k] = k + 1
    BY <2>2 DEF Numbers
  <2>4. Current' = L + 1
    <3>1. RecorderInv'
      BY <1>4, InvNewChunk DEF Renewed
    <3>2. PICK f, g : f = file' /\ g = [data |-> ms, onDisk |-> 0, index |-> 0]
      OBVIOUS
    <3>3. f = Append(fs, g) /\ Len(fs) = L
      BY <2>2, <3>2
    <3>4. f \in Seq(FileType)
      BY <3>1, <3>2 DEF RecorderInv, FilesInv, FilesTypeOK
    <3>5. Len(f) = L + 1
      BY <3>3
    <3> QED
      BY <3>1, <3>2, <3>5 DEF RecorderInv, DirInOrder
  <2>5. file'[L + 1].index = 0 /\ file'[L + 1].data = ms
    <3>1. PICK g : g = [data |-> ms, onDisk |-> 0, index |-> 0]
      OBVIOUS
    <3>2. file'[L + 1] = g
      BY <2>2, <3>1
    <3> QED
      BY <3>1, <3>2
  <2>6. 0 <= Len(ms)
    <3>1. PICK x : x = Len(recorded) + 1
      OBVIOUS
    <3>2. ms = <<>> \/ ms = <<x>>
      BY <1>4, <3>1 DEF Renewed
    <3> QED
      BY <3>2
  <2> QED
    BY <2>3, <2>4, <2>5, <2>6 DEF Numbers
<1>5. CASE UNCHANGED rvars
  BY <1>5 DEF rvars, Numbers, Current, Newest
<1> QED
  BY <1>1, <1>3, <1>4, <1>5, StepIs

(* Files as they are after a step, in the terms of those before.           *)
LEMMA AfterRenewed ==
  ASSUME FilesInv, NEW fs \in Seq(FileType), NEW ms, Renewed(fs, ms)
  PROVE  /\ \A f \in DOMAIN file : /\ f \in DOMAIN file' /\ file'[f] = fs[f]
                                   /\ fs[f] \in FileType /\ Len(fs[f].data) \in Nat
         /\ Len(file) \in Nat /\ DOMAIN file' = 1 .. Len(file) + 1 /\ DOMAIN file = 1 .. Len(file)
         /\ file'[Len(file) + 1].data = ms /\ Len(ms) \in {0, 1}
<1>1. FilesTypeOK
  BY DEF FilesInv
<1>2. PICK L, g : L = Len(file) /\ g = [NewFile EXCEPT !.data = ms]
  OBVIOUS
<1>3. file' = Append(fs, g) /\ Len(fs) = L /\ g.data = ms /\ L \in Nat /\ DOMAIN file = 1 .. L
  BY <1>1, <1>2, NewestIs DEF Renewed, NewChunk, NewFile
<1>4. DOMAIN file' = 1 .. L + 1 /\ file'[L + 1] = g /\ \A f \in 1 .. L : file'[f] = fs[f]
  BY <1>3
<1>5. ASSUME NEW f \in DOMAIN file
      PROVE  f \in DOMAIN file' /\ file'[f] = fs[f] /\ fs[f] \in FileType /\ Len(fs[f].data) \in Nat
  <2>1. f \in 1 .. L /\ f \in 1 .. L + 1 /\ f \in DOMAIN fs
    BY <1>3
  <2>2. fs[f] \in FileType
    BY <2>1
  <2> QED
    BY <1>4, <2>1, <2>2 DEF FileType
<1>6. Len(ms) \in {0, 1}
  <2>1. PICK x : x = Len(recorded) + 1
    OBVIOUS
  <2>2. ms = <<>> \/ ms = <<x>>
    BY <2>1 DEF Renewed
  <2> QED
    BY <2>2
<1> QED
  BY <1>2, <1>3, <1>4, <1>5, <1>6

(* What a change in place leaves, for every file.                          *)
LEMMA AfterInPlace ==
  ASSUME FilesInv, NEW F \in FileType, InPlace(F)
  PROVE  /\ DOMAIN file' = DOMAIN file /\ Current \in DOMAIN file /\ file'[Current] = F
         /\ \A f \in DOMAIN file : f # Current => file'[f] = file[f]
         /\ Len(file[Current].data) \in Nat /\ Len(F.data) \in Nat /\ F.onDisk \in Nat
         /\ Len(file[Current].data) <= Len(F.data)
         /\ \A i \in 1 .. Len(file[Current].data) : F.data[i] = file[Current].data[i]
         /\ \A i \in 1 .. Len(F.data) : i \notin 1 .. Len(file[Current].data) =>
               i = Len(file[Current].data) + 1 /\ F.data[i] = Len(recorded) + 1
<1>1. FilesTypeOK
  BY DEF FilesInv
<1>2. PICK c, L, x : c = Current /\ L = Len(file[c].data) /\ x = Len(recorded) + 1
  OBVIOUS
<1>3. /\ c \in DOMAIN file /\ file[c].data \in Seq(Nat) /\ L \in Nat /\ x \in Nat
      /\ F.data \in Seq(Nat) /\ Len(F.data) \in Nat /\ F.onDisk \in Nat
  <2>1. Len(recorded) \in Nat
    BY <1>1 DEF FilesTypeOK
  <2> QED
    BY <1>1, <1>2, <2>1, NewestIs, FileIs DEF FileType
<1>4. DOMAIN file' = DOMAIN file /\ file'[c] = F /\ \A f \in DOMAIN file : f # c => file'[f] = file[f]
  BY <1>2, <1>3 DEF InPlace
<1>5. F.data = file[c].data \/ F.data = Append(file[c].data, x)
  BY <1>2 DEF InPlace
<1>6. /\ L <= Len(F.data) /\ \A i \in 1 .. L : F.data[i] = file[c].data[i]
      /\ \A i \in 1 .. Len(F.data) : i \notin 1 .. L => i = L + 1 /\ F.data[i] = x
  <2>1. CASE F.data = file[c].data
    BY <1>2, <1>3, <2>1
  <2>2. CASE F.data = Append(file[c].data, x)
    <3>1. PICK d, e : d = file[c].data /\ e = F.data
      OBVIOUS
    <3>2. d \in Seq(Nat) /\ e = Append(d, x) /\ L = Len(d)
      BY <1>2, <1>3, <2>2, <3>1
    <3>3. Len(e) = L + 1 /\ e[L + 1] = x /\ \A i \in 1 .. L : e[i] = d[i]
      BY <1>3, <3>2
    <3>4. \A i \in 1 .. L + 1 : i \notin 1 .. L => i = L + 1
      BY <1>3
    <3> QED
      BY <1>3, <3>1, <3>3, <3>4
  <2> QED
    BY <1>5, <2>1, <2>2
<1> QED
  BY <1>2, <1>3, <1>4, <1>6

(* No step changes what is on disk.                                        *)
LEMMA GrowStep ==
  ASSUME RecorderInv, [Record]_rvars
  PROVE  FilesGrow
<1>1. FilesInv /\ FilesTypeOK /\ \A f \in DOMAIN file : Sound(f)
  BY DEF RecorderInv, FilesInv
<1>2. \A f \in DOMAIN file : file[f].onDisk \in Nat /\ Len(file[f].data) \in Nat /\ file[f].onDisk <= Len(file[f].data)
  BY <1>1, FileIs DEF Sound
<1>3. ASSUME NEW F \in FileType, InPlace(F) PROVE FilesGrow
  <2>1. /\ DOMAIN file' = DOMAIN file /\ file'[Current] = F
        /\ \A f \in DOMAIN file : f # Current => file'[f] = file[f]
        /\ \A i \in 1 .. Len(file[Current].data) : F.data[i] = file[Current].data[i]
    BY <1>1, <1>3, AfterInPlace
  <2>2. file[Current].onDisk <= F.onDisk
    BY <1>3 DEF InPlace
  <2>3. ASSUME NEW f \in DOMAIN file
        PROVE  /\ file[f].onDisk <= file'[f].onDisk
               /\ \A i \in 1 .. file[f].onDisk : file'[f].data[i] = file[f].data[i]
    <3>1. \A i \in 1 .. file[f].onDisk : i \in 1 .. Len(file[f].data)
      BY <1>2
    <3>2. CASE f = Current
      BY <2>1, <2>2, <3>1, <3>2
    <3>3. CASE f # Current
      BY <1>2, <2>1, <3>3
    <3> QED
      BY <3>2, <3>3
  <2> QED
    BY <2>1, <2>3 DEF FilesGrow
<1>4. ASSUME NEW fs \in Seq(FileType), NEW ms, Renewed(fs, ms) PROVE FilesGrow
  <2>1. \A f \in DOMAIN file : /\ f \in DOMAIN file' /\ file'[f] = fs[f]
                               /\ fs[f] \in FileType /\ Len(fs[f].data) \in Nat
    BY <1>1, <1>4, AfterRenewed
  <2>2. ASSUME NEW f \in DOMAIN file
        PROVE  /\ file[f].onDisk <= fs[f].onDisk
               /\ \A i \in 1 .. file[f].onDisk : fs[f].data[i] = file[f].data[i]
    <3>1. /\ file[f].onDisk <= fs[f].onDisk /\ fs[f].onDisk <= Len(fs[f].data)
          /\ \A i \in 1 .. Len(fs[f].data) : fs[f].data[i] = file[f].data[i]
      BY <1>4 DEF Renewed
    <3>2. fs[f].onDisk \in Nat /\ Len(fs[f].data) \in Nat /\ file[f].onDisk \in Nat
      BY <1>2, <2>1 DEF FileType
    <3>3. \A i \in 1 .. file[f].onDisk : i \in 1 .. Len(fs[f].data)
      BY <3>1, <3>2
    <3> QED
      BY <3>1, <3>3
  <2> QED
    BY <2>1, <2>2 DEF FilesGrow
<1>5. CASE UNCHANGED rvars
  BY <1>2, <1>5 DEF rvars, FilesGrow
<1> QED
  BY <1>1, <1>3, <1>4, <1>5, StepIs

(* A message is always the last of its file.                               *)
LEMMA AscendingStep ==
  ASSUME RecorderInv, Ascending, [Record]_rvars
  PROVE  Ascending'
<1>1. FilesInv /\ FilesTypeOK /\ \A f \in DOMAIN file : Sound(f)
  BY DEF RecorderInv, FilesInv
<1>2. PICK N : N = Len(recorded)
  OBVIOUS
<1>3. N \in Nat /\ DOMAIN recorded = 1 .. N
  BY <1>1, <1>2 DEF FilesTypeOK
<1>4. ASSUME NEW F \in FileType, InPlace(F) PROVE Ascending'
  <2>1. PICK c, L : c = Current /\ L = Len(file[c].data)
    OBVIOUS
  <2>2. /\ DOMAIN file' = DOMAIN file /\ c \in DOMAIN file /\ file'[c] = F
        /\ \A f \in DOMAIN file : f # c => file'[f] = file[f]
        /\ L \in Nat /\ Len(F.data) \in Nat
        /\ \A i \in 1 .. L : F.data[i] = file[c].data[i]
        /\ \A i \in 1 .. Len(F.data) : i \notin 1 .. L => i = L + 1 /\ F.data[i] = N + 1
    BY <1>1, <1>2, <1>4, <2>1, AfterInPlace
  <2>3. ASSUME NEW i \in 1 .. Len(F.data), NEW j \in 1 .. Len(F.data), i < j
        PROVE  F.data[i] < F.data[j]
    <3>1. i \in 1 .. L
      <4>1. i \notin 1 .. L => i = L + 1
        BY <2>2
      <4>2. j \in 1 .. L \/ j = L + 1
        BY <2>2
      <4> QED
        BY <2>2, <2>3, <4>1, <4>2
    <3>2. F.data[i] = file[c].data[i] /\ file[c].data[i] \in 1 .. N
      BY <1>1, <1>3, <2>1, <2>2, <3>1 DEF Sound
    <3>3. CASE j \in 1 .. L
      BY <2>1, <2>2, <2>3, <3>1, <3>2, <3>3 DEF Ascending
    <3>4. CASE j \notin 1 .. L
      <4>1. F.data[j] = N + 1
        BY <2>2, <3>4
      <4> QED
        BY <1>3, <3>2, <4>1
    <3> QED
      BY <3>3, <3>4
  <2>4. ASSUME NEW f \in DOMAIN file PROVE f = c \/ file'[f] = file[f]
    BY <2>2
  <2> QED
    BY <2>2, <2>3, <2>4 DEF Ascending
<1>5. ASSUME NEW fs \in Seq(FileType), NEW ms, Renewed(fs, ms) PROVE Ascending'
  <2>1. PICK L : L = Len(file)
    OBVIOUS
  <2>2. /\ \A f \in DOMAIN file : file'[f] = fs[f] /\ Len(fs[f].data) \in Nat
        /\ L \in Nat /\ DOMAIN file' = 1 .. L + 1 /\ DOMAIN file = 1 .. L
        /\ file'[L + 1].data = ms /\ Len(ms) \in {0, 1}
    BY <1>1, <1>5, <2>1, AfterRenewed
  <2>3. ASSUME NEW f \in DOMAIN file, NEW i \in 1 .. Len(fs[f].data), NEW j \in 1 .. Len(fs[f].data), i < j
        PROVE  fs[f].data[i] < fs[f].data[j]
    <3>1. /\ Len(fs[f].data) <= Len(file[f].data)
          /\ fs[f].data[i] = file[f].data[i] /\ fs[f].data[j] = file[f].data[j]
      BY <1>5 DEF Renewed
    <3>2. i \in 1 .. Len(file[f].data) /\ j \in 1 .. Len(file[f].data)
      <4>1. PICK d : d = Len(file[f].data)
        OBVIOUS
      <4>2. PICK e : e = Len(fs[f].data)
        OBVIOUS
      <4>3. d \in Nat /\ e \in Nat /\ e <= d
        BY <1>1, <2>2, <3>1, <4>1, <4>2, FileIs
      <4>4. i \in 1 .. e /\ j \in 1 .. e
        BY <4>2
      <4>5. i \in 1 .. d /\ j \in 1 .. d
        BY <4>3, <4>4
      <4> QED
        BY <4>1, <4>5
    <3> QED
      BY <2>3, <3>1, <3>2 DEF Ascending
  <2>4. ASSUME NEW i \in 1 .. Len(ms), NEW j \in 1 .. Len(ms), i < j PROVE FALSE
    <3>1. PICK M : M = Len(ms)
      OBVIOUS
    <3>2. M = 0 \/ M = 1
      BY <2>2, <3>1
    <3>3. i \in 1 .. M /\ j \in 1 .. M
      BY <3>1
    <3>4. i = 1 /\ j = 1
      BY <3>2, <3>3
    <3> QED
      BY <2>4, <3>4
  <2>5. \A f \in DOMAIN file' : f \in DOMAIN file \/ f = L + 1
    BY <2>2
  <2> QED
    BY <2>2, <2>3, <2>4, <2>5 DEF Ascending
<1>6. CASE UNCHANGED rvars
  BY <1>6 DEF rvars, Ascending
<1> QED
  BY <1>1, <1>4, <1>5, <1>6, StepIs

-----------------------------------------------------------------------------
(* The spans.  A finite set of numbers can be sorted.                      *)
LEMMA SortedIs ==
  ASSUME NEW S \in SUBSET Nat, IsFiniteSet(S)
  PROVE  /\ Sorted(S) \in [1 .. Cardinality(S) -> S]
         /\ \A i, j \in DOMAIN Sorted(S) : i < j => Sorted(S)[i] < Sorted(S)[j]
<1> DEFINE IsSorted(s, X) == /\ s \in [1 .. Cardinality(X) -> X]
                             /\ \A i, j \in DOMAIN s : i < j => s[i] < s[j]
           B == {X \in SUBSET S : ~\E s : IsSorted(s, X)}
<1>1. B = {}
  <2> SUFFICES ASSUME B # {} PROVE FALSE
    OBVIOUS
  <2>1. PICK X \in B : \A Y \in B : Y \subseteq X => Y = X
    <3>1. PICK W : W = S
      OBVIOUS
    <3>2. IsFiniteSet(W) /\ B \in SUBSET SUBSET W
      BY <3>1
    <3> HIDE DEF B
    <3> QED
      BY <3>2, LeastSet
  <2>2. X \in SUBSET S /\ X \in SUBSET Nat /\ IsFiniteSet(X) /\ ~\E s : IsSorted(s, X)
    BY FS_Subset
  <2>3. X # {}
    <3> SUFFICES ASSUME X = {} PROVE FALSE
      OBVIOUS
    <3>1. Cardinality(X) = 0
      BY FS_EmptySet
    <3>2. IsSorted([i \in {} |-> 0], X)
      <4>1. 1 .. Cardinality(X) = {}
        BY <3>1
      <4> QED
        BY <4>1
    <3> QED
      BY <2>2, <3>2
  <2>4. PICK m \in X : \A y \in X : y <= m
    BY <2>2, <2>3, MaxIs
  <2>5. PICK Y : Y = X \ {m}
    OBVIOUS
  <2>6. Y \in SUBSET S /\ Y \subseteq X /\ Y # X /\ \A y \in Y : y < m
    BY <2>2, <2>4, <2>5
  <2>7. PICK t : IsSorted(t, Y)
    <3>1. Y \notin B
      BY <2>1, <2>6
    <3> QED
      BY <2>6, <3>1
  <2>8. PICK n : n = Cardinality(X)
    OBVIOUS
  <2>9. n \in Nat /\ n # 0 /\ Cardinality(Y) = n - 1
    BY <2>2, <2>4, <2>5, <2>8, FS_CardinalityType, FS_RemoveElement, FS_EmptySet
  <2>10. DOMAIN t = 1 .. n - 1 /\ (\A i \in 1 .. n - 1 : t[i] \in Y)
         /\ \A i, j \in 1 .. n - 1 : i < j => t[i] < t[j]
    BY <2>7, <2>9
  <2>11. PICK u : u = [i \in 1 .. n |-> IF i = n THEN m ELSE t[i]]
    OBVIOUS
  <2>12. \A i \in 1 .. n : i = n \/ i \in 1 .. n - 1
    BY <2>9
  <2>13. \A i \in 1 .. n : u[i] \in X
    BY <2>4, <2>6, <2>10, <2>11, <2>12
  <2>14. u \in [1 .. n -> X] /\ DOMAIN u = 1 .. n
    BY <2>11, <2>13
  <2>15. ASSUME NEW i \in 1 .. n, NEW j \in 1 .. n, i < j PROVE u[i] < u[j]
    <3>1. i # n /\ i \in 1 .. n - 1 /\ u[i] = t[i] /\ t[i] \in Y
      BY <2>9, <2>10, <2>11, <2>12, <2>15
    <3>2. CASE j = n
      BY <2>6, <2>11, <3>1, <3>2
    <3>3. CASE j # n
      BY <2>10, <2>11, <2>12, <2>15, <3>1, <3>3
    <3> QED
      BY <3>2, <3>3
  <2> QED
    BY <2>2, <2>8, <2>14, <2>15
<1>2. S \in SUBSET S
  OBVIOUS
<1>3. \E s : IsSorted(s, S)
  BY <1>1, <1>2
<1>4. \E s \in [1 .. Cardinality(S) -> S] : \A i, j \in DOMAIN s : i < j => s[i] < s[j]
  BY <1>3
<1> QED
  BY <1>4 DEF Sorted

(* A fork of the tree, and the whole of it for the ranges r with P(r).     *)
Branch(h, n, a, b) ==
    LET mid == a + (b - a + 1) \div 2
    IN  IF a = b THEN a
        ELSE IF Within(n, spans[a].from, spans[mid].from) THEN h[<<a, mid - 1>>]
        ELSE IF Within(n, spans[mid].from, spans[b].to) THEN h[<<mid, b>>]
        ELSE 0

Ranges == {p \in (DOMAIN spans) \X (DOMAIN spans) : p[1] <= p[2]}
IsTree(h, n, D) == h = [r \in D |-> Branch(h, n, r[1], r[2])]

(* The half of a range is a number in between, ...                         *)
LEMMA HalfIs ==
  ASSUME NEW a \in Nat, NEW b \in Nat, a < b, NEW mid, mid = a + (b - a + 1) \div 2
  PROVE  mid \in Nat /\ a < mid /\ mid <= b
OBVIOUS

(* ... so that the halves are ranges again.                                *)
LEMMA BranchesIn ==
  ASSUME NEW L \in Nat, DOMAIN spans = 1 .. L, NEW r \in Ranges, r[1] # r[2],
         NEW mid, mid = r[1] + (r[2] - r[1] + 1) \div 2
  PROVE  /\ r[1] \in 1 .. L /\ r[2] \in 1 .. L /\ r[1] < r[2] /\ mid \in 1 .. L /\ r[1] < mid /\ mid <= r[2]
         /\ <<r[1], mid - 1>> \in Ranges /\ <<mid, r[2]>> \in Ranges
<1>1. r[1] \in 1 .. L /\ r[2] \in 1 .. L /\ r[1] <= r[2]
  BY DEF Ranges
<1>2. PICK a, b : a = r[1] /\ b = r[2]
  OBVIOUS
<1>3. a \in Nat /\ b \in Nat /\ a < b /\ a >= 1 /\ b <= L
  BY <1>1, <1>2
<1>4. mid \in Nat /\ a < mid /\ mid <= b
  BY <1>2, <1>3, HalfIs
<1>5. mid \in 1 .. L /\ mid - 1 \in 1 .. L /\ a <= mid - 1
  BY <1>3, <1>4
<1>6. <<a, mid - 1>> \in Ranges /\ <<mid, b>> \in Ranges
  BY <1>1, <1>2, <1>4, <1>5 DEF Ranges
<1> QED
  BY <1>1, <1>2, <1>3, <1>4, <1>5, <1>6

(* There is such a tree: a range needs only those that are shorter.        *)
LEMMA TreeExists ==
  ASSUME NEW L \in Nat, DOMAIN spans = 1 .. L, NEW n
  PROVE  \E h : IsTree(h, n, Ranges)
<1> DEFINE D(k) == {p \in Ranges : p[2] - p[1] < k}
           B == {k \in 0 .. L : ~\E h : IsTree(h, n, D(k))}
<1>1. \A r \in Ranges : r[1] \in 1 .. L /\ r[2] \in 1 .. L /\ r[1] <= r[2]
  BY DEF Ranges
<1>2. D(L) = Ranges
  BY <1>1
<1>3. SUFFICES ASSUME B # {} PROVE FALSE
  <2>1. L \in 0 .. L
    OBVIOUS
  <2> HIDE DEF D
  <2> QED
    BY <1>2, <2>1
<1>4. PICK W : W = B
  OBVIOUS
<1>5. W \in SUBSET Nat /\ IsFiniteSet(W) /\ W # {}
  <2>1. IsFiniteSet(0 .. L)
    <3>1. L \in Int /\ 0 \in Int
      OBVIOUS
    <3> QED
      BY <3>1, FS_Interval
  <2>2. W \subseteq 0 .. L
    BY <1>4
  <2>3. W \in SUBSET Nat
    BY <2>2
  <2> QED
    BY <1>3, <1>4, <2>1, <2>2, <2>3, FS_Subset
<1>6. PICK m \in W : \A k \in W : m <= k
  BY <1>5, MinIs
<1>7. m \in 0 .. L /\ m \in Nat /\ m <= L /\ ~\E h : IsTree(h, n, D(m))
  <2>1. m \in B
    BY <1>4
  <2> HIDE DEF D
  <2>2. m \in 0 .. L /\ ~\E h : IsTree(h, n, D(m))
    BY <2>1
  <2> QED
    BY <2>2
<1>8. m # 0
  <2> SUFFICES ASSUME m = 0 PROVE FALSE
    OBVIOUS
  <2>1. D(m) = {}
    BY <1>1
  <2>2. IsTree([r \in {} |-> 0], n, {})
    BY DEF IsTree
  <2> HIDE DEF D
  <2> QED
    BY <1>7, <2>1, <2>2
<1>9. PICK h : IsTree(h, n, D(m - 1))
  <2>1. m - 1 \in 0 .. L /\ m - 1 \notin W
    BY <1>5, <1>6, <1>7, <1>8
  <2> HIDE DEF D
  <2> QED
    BY <1>4, <2>1
<1>10. PICK g : g = [r \in D(m) |-> Branch(h, n, r[1], r[2])]
  OBVIOUS
<1>11. ASSUME NEW r \in D(m) PROVE Branch(g, n, r[1], r[2]) = Branch(h, n, r[1], r[2])
  <2>1. CASE r[1] = r[2]
    BY <2>1 DEF Branch
  <2>2. CASE r[1] # r[2]
    <3>1. PICK mid, p, q : /\ mid = r[1] + (r[2] - r[1] + 1) \div 2
                           /\ p = <<r[1], mid - 1>> /\ q = <<mid, r[2]>>
      OBVIOUS
    <3>2. /\ r[1] \in 1 .. L /\ r[2] \in 1 .. L /\ mid \in 1 .. L /\ r[1] < mid /\ mid <= r[2]
          /\ p \in Ranges /\ q \in Ranges /\ r[2] - r[1] < m
      BY <2>2, <3>1, BranchesIn
    <3>3. p[1] = r[1] /\ p[2] = mid - 1 /\ q[1] = mid /\ q[2] = r[2]
      BY <3>1
    <3>4. p[2] - p[1] < m - 1 /\ q[2] - q[1] < m - 1
      BY <1>7, <3>2, <3>3
    <3>5. p \in D(m - 1) /\ q \in D(m - 1) /\ p \in D(m) /\ q \in D(m)
      <4>1. p[2] - p[1] < m /\ q[2] - q[1] < m
        BY <1>7, <3>2, <3>3, <3>4
      <4> QED
        BY <3>2, <3>4, <4>1
    <3>6. \A s \in D(m - 1) : h[s] = Branch(h, n, s[1], s[2])
      <4> HIDE DEF D
      <4> QED
        BY <1>9 DEF IsTree
    <3>7. \A s \in D(m) : g[s] = Branch(h, n, s[1], s[2])
      <4> HIDE DEF D
      <4> QED
        BY <1>10
    <3>8. g[p] = h[p] /\ g[q] = h[q]
      <4> HIDE DEF D
      <4> QED
        BY <3>5, <3>6, <3>7
    <3> HIDE DEF D
    <3> QED
      BY <3>1, <3>8 DEF Branch
  <2> QED
    BY <2>1, <2>2
<1>12. IsTree(g, n, D(m))
  <2> HIDE DEF D
  <2>1. [r \in D(m) |-> Branch(g, n, r[1], r[2])] = [r \in D(m) |-> Branch(h, n, r[1], r[2])]
    BY <1>11
  <2> QED
    BY <1>10, <2>1 DEF IsTree
<1> HIDE DEF D
<1> QED
  BY <1>7, <1>12

(* Lookup is the value of that tree for all spans.                         *)
LEMMA LookupTree ==
  ASSUME NEW L \in Nat, DOMAIN spans = 1 .. L, NEW n
  PROVE  \E h : IsTree(h, n, Ranges) /\ Lookup(n) = h[<<1, Len(spans)>>]
<1>1. PICK h : h = CHOOSE k : IsTree(k, n, Ranges)
  OBVIOUS
<1>2. IsTree(h, n, Ranges)
  BY <1>1, TreeExists
<1>3. Lookup(n) = (CHOOSE k : IsTree(k, n, Ranges))[<<1, Len(spans)>>]
  BY DEF Lookup, IsTree, Branch, Ranges
<1> QED
  BY <1>1, <1>2, <1>3

(* The spans follow each other from 0, and what has the number of a chunk  *)
(* is the file with the next number.                                       *)
SpansTrue ==
    /\ Len(spans) \in Nat \ {0} /\ DOMAIN spans = 1 .. Len(spans)
    /\ \A i \in 1 .. Len(spans) : /\ spans[i].file = spans[i].chunk + 1
                                  /\ spans[i].from \in Nat /\ spans[i].to \in Nat
    /\ spans[1].from = 0
    /\ \A i \in 1 .. Len(spans) : i # 1 => spans[i].from = spans[i - 1].to

Covers(n, i) ==
    /\ i \in 1 .. Len(spans) /\ spans[i].from <= n
    /\ n < spans[i].to \/ Len(spans) = 1

(* The tree leads to the span of n, if there is one: a range that n is in  *)
(* has a half that it is in.                                               *)
LEMMA TreeLeads ==
  ASSUME SpansTrue, NEW n \in Nat, NEW h, IsTree(h, n, Ranges), NEW r \in Ranges,
         spans[r[1]].from <= n, n < spans[r[2]].to
  PROVE  h[r] \in 1 .. Len(spans) /\ spans[h[r]].from <= n /\ n < spans[h[r]].to
<1>1. PICK L : L = Len(spans)
  OBVIOUS
<1>2. /\ L \in Nat /\ DOMAIN spans = 1 .. L
      /\ \A i \in 1 .. L : spans[i].from \in Nat /\ spans[i].to \in Nat
      /\ \A i \in 1 .. L : i # 1 => spans[i].from = spans[i - 1].to
  BY <1>1 DEF SpansTrue
<1> DEFINE Good(p) == h[p] \in 1 .. L /\ spans[h[p]].from <= n /\ n < spans[h[p]].to
           Holds(p) == p \in Ranges /\ spans[p[1]].from <= n /\ n < spans[p[2]].to
           B == {k \in 0 .. L : \E p \in Ranges : Holds(p) /\ ~Good(p) /\ p[2] - p[1] = k}
<1>3. \A p \in Ranges : p[1] \in 1 .. L /\ p[2] \in 1 .. L /\ p[1] <= p[2] /\ p[2] - p[1] \in 0 .. L
  BY <1>2 DEF Ranges
<1>4. SUFFICES ASSUME B # {} PROVE FALSE
  <2>1. Holds(r)
    OBVIOUS
  <2>2. r[2] - r[1] \in 0 .. L
    BY <1>3
  <2> HIDE DEF Holds
  <2>3. Good(r)
    BY <2>1, <2>2
  <2> QED
    BY <1>1, <2>3
<1>5. PICK W : W = B
  OBVIOUS
<1>6. W \in SUBSET Nat /\ IsFiniteSet(W) /\ W # {}
  <2>1. IsFiniteSet(0 .. L)
    <3>1. L \in Int /\ 0 \in Int
      BY <1>2
    <3> QED
      BY <3>1, FS_Interval
  <2>2. W \subseteq 0 .. L
    BY <1>5
  <2>3. W \in SUBSET Nat
    BY <1>2, <2>2
  <2> QED
    BY <1>4, <1>5, <2>1, <2>2, <2>3, FS_Subset
<1>7. PICK m \in W : \A k \in W : m <= k
  BY <1>6, MinIs
<1>8. PICK p \in Ranges : Holds(p) /\ ~Good(p) /\ p[2] - p[1] = m
  <2>1. m \in B
    BY <1>5
  <2> HIDE DEF Holds, Good
  <2> QED
    BY <2>1
<1>9. ASSUME NEW q \in Ranges, Holds(q), q[2] - q[1] < m PROVE Good(q)
  <2> HIDE DEF Holds, Good
  <2>1. PICK k : k = q[2] - q[1]
    OBVIOUS
  <2>2. k \in 0 .. L
    BY <1>3, <2>1
  <2>3. k \notin W
    BY <1>2, <1>6, <1>7, <1>9, <2>1, <2>2
  <2> QED
    BY <1>5, <1>9, <2>1, <2>2, <2>3
<1>10. h[p] = Branch(h, n, p[1], p[2])
  BY DEF IsTree
<1>11. PICK a, b, mid : a = p[1] /\ b = p[2] /\ mid = p[1] + (p[2] - p[1] + 1) \div 2
  OBVIOUS
<1>12. a \in 1 .. L /\ b \in 1 .. L /\ spans[a].from <= n /\ n < spans[b].to
  BY <1>3, <1>8, <1>11
<1>13. CASE a = b
  <2>1. h[p] = a
    BY <1>10, <1>11, <1>13 DEF Branch
  <2> QED
    BY <1>8, <1>12, <1>13, <2>1
<1>14. CASE a # b
  <2>1. PICK l, u : l = <<a, mid - 1>> /\ u = <<mid, b>>
    OBVIOUS
  <2>2. /\ mid \in 1 .. L /\ a < mid /\ mid <= b /\ l \in Ranges /\ u \in Ranges
    BY <1>2, <1>11, <1>14, <2>1, BranchesIn
  <2>3. l[1] = a /\ l[2] = mid - 1 /\ u[1] = mid /\ u[2] = b
    BY <2>1
  <2>4. b - a = m /\ l[2] - l[1] < m /\ u[2] - u[1] < m
    <3> HIDE DEF Holds, Good
    <3>1. b - a = m
      BY <1>8, <1>11
    <3>2. a \in Nat /\ b \in Nat /\ mid \in Nat
      BY <1>2, <1>12, <2>2
    <3>3. (mid - 1) - a < b - a /\ b - mid < b - a
      BY <2>2, <3>2
    <3> QED
      BY <2>3, <3>1, <3>3
  <2>5. spans[mid].from = spans[mid - 1].to /\ spans[mid].from \in Nat
    BY <1>2, <1>12, <2>2
  <2>6. CASE n < spans[mid].from
    <3>1. Within(n, spans[a].from, spans[mid].from)
      BY <1>12, <2>6 DEF Within
    <3>2. h[p] = h[l]
      BY <1>10, <1>11, <1>14, <2>1, <3>1 DEF Branch
    <3>3. Holds(l)
      BY <1>12, <2>2, <2>3, <2>5, <2>6
    <3>4. Good(l)
      <4> HIDE DEF Holds, Good
      <4> QED
        BY <1>9, <2>2, <2>4, <3>3
    <3> QED
      BY <1>8, <3>2, <3>4
  <2>7. CASE ~(n < spans[mid].from)
    <3>1. ~Within(n, spans[a].from, spans[mid].from) /\ Within(n, spans[mid].from, spans[b].to)
      BY <1>12, <2>5, <2>7 DEF Within
    <3>2. h[p] = h[u]
      BY <1>10, <1>11, <1>14, <2>1, <3>1 DEF Branch
    <3>3. Holds(u)
      BY <1>12, <2>2, <2>3, <2>5, <2>7
    <3>4. Good(u)
      <4> HIDE DEF Holds, Good
      <4> QED
        BY <1>9, <2>2, <2>4, <3>3
    <3> QED
      BY <1>8, <3>2, <3>4
  <2> QED
    BY <2>6, <2>7
<1> QED
  BY <1>13, <1>14

(* A reference is looked up in vain or in the span that covers it.         *)
LEMMA LookupIs ==
  ASSUME SpansTrue, NEW n \in Nat
  PROVE  Lookup(n) = 0 \/ Covers(n, Lookup(n))
<1>1. PICK L : L = Len(spans)
  OBVIOUS
<1>2. /\ L \in Nat /\ L # 0 /\ DOMAIN spans = 1 .. L
      /\ \A i \in 1 .. L : spans[i].from \in Nat /\ spans[i].to \in Nat
      /\ \A i \in 1 .. L : i # 1 => spans[i].from = spans[i - 1].to
      /\ spans[1].from = 0
  BY <1>1 DEF SpansTrue
<1>3. PICK h : IsTree(h, n, Ranges) /\ Lookup(n) = h[<<1, L>>]
  BY <1>1, <1>2, LookupTree
<1>4. PICK r, mid : r = <<1, L>> /\ mid = 1 + (L - 1 + 1) \div 2
  OBVIOUS
<1>5. r \in Ranges /\ r[1] = 1 /\ r[2] = L
  <2>1. 1 \in 1 .. L /\ L \in 1 .. L /\ 1 <= L
    BY <1>2
  <2> QED
    BY <1>2, <1>4, <2>1 DEF Ranges
<1>6. h[r] = Branch(h, n, 1, L)
  BY <1>3, <1>5 DEF IsTree
<1>7. CASE L = 1
  <2>1. h[r] = 1
    BY <1>6, <1>7 DEF Branch
  <2> QED
    BY <1>1, <1>2, <1>3, <1>4, <1>7, <2>1 DEF Covers
<1>8. CASE L # 1
  <2>1. PICK l, u : l = <<1, mid - 1>> /\ u = <<mid, L>>
    OBVIOUS
  <2>2. mid \in 1 .. L /\ 1 < mid /\ l \in Ranges /\ u \in Ranges
    BY <1>2, <1>4, <1>5, <1>8, <2>1, BranchesIn
  <2>3. l[1] = 1 /\ l[2] = mid - 1 /\ u[1] = mid /\ u[2] = L
    BY <2>1
  <2>4. spans[mid].from = spans[mid - 1].to
    BY <1>2, <2>2
  <2>5. h[r] \in {0, h[l], h[u]} /\ (h[r] = 0 \/ (Within(n, spans[1].from, spans[mid].from) /\ h[r] = h[l])
                                      \/ (Within(n, spans[mid].from, spans[L].to) /\ h[r] = h[u]))
    BY <1>4, <1>6, <1>8, <2>1 DEF Branch
  <2>6. CASE Within(n, spans[1].from, spans[mid].from) /\ h[r] = h[l]
    <3>1. spans[l[1]].from <= n /\ n < spans[l[2]].to
      BY <2>3, <2>4, <2>6 DEF Within
    <3> QED
      BY <1>1, <1>3, <1>4, <2>2, <2>6, <3>1, TreeLeads DEF Covers
  <2>7. CASE Within(n, spans[mid].from, spans[L].to) /\ h[r] = h[u]
    <3>1. spans[u[1]].from <= n /\ n < spans[u[2]].to
      BY <2>3, <2>7 DEF Within
    <3> QED
      BY <1>1, <1>3, <1>4, <2>2, <2>7, <3>1, TreeLeads DEF Covers
  <2> QED
    BY <1>3, <1>4, <2>5, <2>6, <2>7
<1> QED
  BY <1>7, <1>8

(* What the player finds when it starts.                                   *)
LEMMA SpansAre ==
  ASSUME FilesTypeOK, Numbers, spans' = Spans
  PROVE  /\ SpansTrue'
         /\ \A i \in 1 .. Len(spans') : spans'[i].file \in DOMAIN file
<1>1. PICK S, K, c : S = DOMAIN dir /\ K = Cardinality(S) /\ c = Sorted(S)
  OBVIOUS
<1>2. S \in SUBSET Nat /\ S # {} /\ IsFiniteSet(S)
  BY <1>1 DEF FilesTypeOK
<1>3. K \in Nat /\ K # 0
  BY <1>1, <1>2, FS_CardinalityType, FS_EmptySet
<1>4. c \in [1 .. K -> S] /\ DOMAIN c = 1 .. K
  BY <1>1, <1>2, SortedIs
<1>5. \A i \in 1 .. K : c[i] \in Nat /\ dir[c[i]] \in DOMAIN file /\ dir[c[i]] = c[i] + 1
  BY <1>1, <1>2, <1>4 DEF FilesTypeOK, Numbers
<1>6. PICK r : r = [k \in S |-> file[dir[k]].index]
  OBVIOUS
<1>7. \A i \in 1 .. K : r[c[i]] = file[dir[c[i]]].index /\ r[c[i]] \in Nat
  BY <1>4, <1>5, <1>6, FileIs
<1>8. ASSUME NEW i \in 0 .. K
      PROVE  SumFunction([j \in 1 .. i |-> file[dir[c[j]]].index]) = Taken(r, c, i)
  <2>1. \A j \in 1 .. i : j \in 1 .. K
    BY <1>3
  <2>2. [j \in 1 .. i |-> file[dir[c[j]]].index] = [j \in 1 .. i |-> r[c[j]]]
    BY <1>7, <2>1
  <2> QED
    BY <2>2 DEF Taken
<1>9. \A i \in 0 .. K : Taken(r, c, i) \in Nat /\ (i = 0 => Taken(r, c, i) = 0)
  <2> SUFFICES ASSUME NEW i \in 0 .. K PROVE Taken(r, c, i) \in Nat /\ (i = 0 => Taken(r, c, i) = 0)
    OBVIOUS
  <2>1. i \in Nat /\ \A j \in 1 .. i : r[c[j]] \in Nat
    BY <1>3, <1>7
  <2> QED
    BY <2>1, TakenIs
<1>10. PICK s : s = spans'
  OBVIOUS
<1>11. s = [i \in 1 .. K |-> [chunk |-> c[i], from |-> Taken(r, c, i - 1), to |-> Taken(r, c, i),
                              file |-> dir[c[i]]]]
  <2>1. \A i \in 1 .. K : i \in 0 .. K /\ i - 1 \in 0 .. K
    BY <1>3
  <2>2. s = [i \in 1 .. K |-> [chunk |-> c[i],
                               from |-> SumFunction([j \in 1 .. i - 1 |-> file[dir[c[j]]].index]),
                               to |-> SumFunction([j \in 1 .. i |-> file[dir[c[j]]].index]),
                               file |-> dir[c[i]]]]
    BY <1>1, <1>4, <1>10 DEF Spans
  <2> QED
    BY <1>8, <2>1, <2>2
<1>12. Len(s) = K /\ DOMAIN s = 1 .. K
  <2>1. DOMAIN s = 1 .. K
    BY <1>11
  <2> QED
    BY <1>3, <2>1
<1>13. ASSUME NEW i \in 1 .. K
       PROVE  /\ s[i].file = s[i].chunk + 1 /\ s[i].file \in DOMAIN file
              /\ s[i].from = Taken(r, c, i - 1) /\ s[i].to = Taken(r, c, i)
              /\ s[i].from \in Nat /\ s[i].to \in Nat
  <2>1. /\ s[i].chunk = c[i] /\ s[i].file = dir[c[i]]
        /\ s[i].from = Taken(r, c, i - 1) /\ s[i].to = Taken(r, c, i)
    BY <1>11
  <2>2. i \in 0 .. K /\ i - 1 \in 0 .. K
    BY <1>3
  <2> QED
    BY <1>5, <1>9, <2>1, <2>2
<1>14. s[1].from = 0
  <2>1. 1 \in 1 .. K /\ 1 - 1 = 0 /\ 0 \in 0 .. K
    BY <1>3
  <2> QED
    BY <1>9, <1>13, <2>1
<1>15. ASSUME NEW i \in 1 .. K, i # 1 PROVE s[i].from = s[i - 1].to
  <2>1. i - 1 \in 1 .. K
    BY <1>3, <1>15
  <2> QED
    BY <1>13, <2>1
<1> QED
  BY <1>3, <1>10, <1>12, <1>13, <1>14, <1>15 DEF SpansTrue

-----------------------------------------------------------------------------
(* The player's position, and the messages on disk around it.              *)
RInv == RecorderInv /\ Ascending /\ Numbers

OnDisk(m, f, i) == f \in DOMAIN file /\ i \in 1 .. file[f].onDisk /\ m = file[f].data[i]

AtType == [chunk : Nat, data : Nat, index : Nat, pos : Nat]

AtTrue(a) ==
    /\ a \in AtType /\ a.chunk + 1 \in DOMAIN file /\ a.index = a.chunk + 1
    /\ a.data = a.chunk + 1 \/ (a.data = Closed /\ a.pos = 0)

Late == serving.op = "ref" /\ serving.late
Known == answer.m # None /\ (answer.op = "ref" => ~answer.late)

PosTrue == AtTrue(at) /\ (at.data # Closed /\ ~Late => at.pos <= file[at.data].onDisk)

(* A reference that is not late is being answered with what is next.       *)
RefNext ==
    /\ serving.home.chunk = at.chunk /\ at.data # Closed /\ at.pos < file[at.data].onDisk
    /\ \E k \in 1 .. Len(spans) : /\ Covers(serving.n, k) /\ spans[k].chunk = at.chunk
                                  /\ at.pos = serving.n - spans[k].from

ServingTrue ==
    /\ serving = NoRequest \/ serving.op \in {"next", "prev", "ref"}
    /\ serving # NoRequest => up = "up"
    /\ serving.op = "ref" => /\ serving.n \in Nat /\ AtTrue(serving.home) /\ serving.late \in BOOLEAN
                             /\ ~serving.late => RefNext

(* m is behind the position, or before it.                                 *)
Behinds(m) ==
    \E f, i \in Nat : /\ OnDisk(m, f, i)
                      /\ f < at.chunk + 1 \/ (f = at.chunk + 1 /\ (at.data = Closed \/ i <= at.pos))
Aheads(m) ==
    \E f, i \in Nat : OnDisk(m, f, i) /\ (f > at.chunk + 1 \/ (f = at.data /\ i > at.pos))

(* The last answer is where it was left, until the next request moves on.  *)
Stands ==
    up = "up" /\ Known =>
      /\ answer.op \in {"next", "prev", "ref"}
      /\ answer.op # "prev" => /\ serving.op \in {"none", "prev"} => OnDisk(answer.m, at.data, at.pos)
                               /\ serving.op = "next" => Behinds(answer.m)
      /\ answer.op = "prev" => /\ serving.op \in {"none", "next"} => OnDisk(answer.m, at.data, at.pos + 1)
                               /\ serving.op = "prev" => Aheads(answer.m)

AnswerTrue ==
    answer.op = "ref" /\ Known =>
      \E k \in 1 .. Len(spans) : /\ Covers(answer.n, k)
                                 /\ OnDisk(answer.m, spans[k].file, answer.n - spans[k].from + 1)

ReaderInv ==
    /\ up = "off" => answer = NoAnswer /\ serving = NoRequest
    /\ up # "off" => SpansTrue
    /\ up = "up" => PosTrue
    /\ ServingTrue /\ Stands /\ AnswerTrue

(* A message on disk is a message of its file.                             *)
LEMMA OnDiskIs ==
  ASSUME RInv, NEW m, NEW f, NEW i, OnDisk(m, f, i)
  PROVE  /\ m \in Nat /\ m # None /\ f \in Nat /\ f # 0 /\ i \in Nat /\ i # 0
         /\ file[f].onDisk \in Nat /\ i <= file[f].onDisk /\ i \in 1 .. Len(file[f].data)
<1>1. FilesTypeOK /\ f \in DOMAIN file /\ Sound(f)
  BY DEF RInv, RecorderInv, FilesInv, OnDisk
<1>2. file[f].onDisk \in Nat /\ Len(file[f].data) \in Nat /\ file[f].onDisk <= Len(file[f].data)
  BY <1>1, FileIs DEF Sound
<1>3. i \in Nat /\ i # 0 /\ i <= file[f].onDisk /\ i \in 1 .. Len(file[f].data)
  BY <1>2 DEF OnDisk
<1>4. m \in DOMAIN recorded
  BY <1>1, <1>3 DEF OnDisk, Sound
<1>5. DOMAIN recorded = 1 .. Len(recorded) /\ Len(recorded) \in Nat
  BY <1>1 DEF FilesTypeOK
<1>6. m \in Nat /\ m # 0
  BY <1>4, <1>5
<1>7. f \in Nat /\ f # 0
  BY <1>1, NewestIs
<1> QED
  BY <1>2, <1>3, <1>6, <1>7 DEF None

(* The order of places is the order of the messages.                       *)
LEMMA OnDiskOrder ==
  ASSUME RInv, NEW m, NEW f, NEW i, OnDisk(m, f, i), NEW n, NEW g, NEW j, OnDisk(n, g, j),
         f < g \/ (f = g /\ i < j)
  PROVE  m < n
<1>1. i \in 1 .. Len(file[f].data) /\ j \in 1 .. Len(file[g].data)
  BY OnDiskIs
<1>2. f \in DOMAIN file /\ g \in DOMAIN file /\ m = file[f].data[i] /\ n = file[g].data[j]
  BY DEF OnDisk
<1>3. CASE f < g
  BY <1>1, <1>2, <1>3 DEF RInv, RecorderInv, InOrder
<1>4. CASE f = g /\ i < j
  BY <1>1, <1>2, <1>4 DEF RInv, Ascending
<1> QED
  BY <1>3, <1>4

(* A message stays in its place.                                           *)
LEMMA OnDiskStays ==
  ASSUME RInv, RInv', FilesGrow, NEW m, NEW f, NEW i, OnDisk(m, f, i)
  PROVE  OnDisk(m, f, i)'
<1>1. /\ f \in DOMAIN file' /\ file[f].onDisk <= file'[f].onDisk /\ file'[f].data[i] = file[f].data[i]
  BY DEF FilesGrow, OnDisk
<1>2. i \in Nat /\ i # 0 /\ file[f].onDisk \in Nat /\ i <= file[f].onDisk
  BY OnDiskIs
<1>3. file'[f].onDisk \in Nat
  <2>1. file' \in Seq(FileType)
    BY DEF RInv, RecorderInv, FilesInv, FilesTypeOK
  <2>2. file'[f] \in FileType
    BY <1>1, <2>1
  <2> QED
    BY <2>2 DEF FileType
<1>4. i \in 1 .. file'[f].onDisk
  BY <1>1, <1>2, <1>3
<1> QED
  BY <1>1, <1>4 DEF OnDisk

(* A chunk that is there, and its file.                                    *)
LEMMA DirIs ==
  ASSUME RInv, NEW c \in DOMAIN dir
  PROVE  c \in Nat /\ dir[c] = c + 1 /\ c + 1 \in DOMAIN file /\ file[c + 1].onDisk \in Nat
<1>1. FilesTypeOK
  BY DEF RInv, RecorderInv, FilesInv
<1>2. c \in Nat /\ dir[c] \in DOMAIN file /\ dir[c] = c + 1
  BY <1>1 DEF FilesTypeOK, RInv, Numbers
<1> QED
  BY <1>1, <1>2, FileIs

(* Opening a chunk, or failing to.                                         *)
LEMMA OpenedIs ==
  ASSUME RInv, NEW c
  PROVE  /\ c \in DOMAIN dir =>
              /\ Opened(c) = [chunk |-> c, data |-> c + 1, index |-> c + 1, pos |-> 0]
              /\ AtTrue(Opened(c)) /\ c \in Nat
         /\ c \notin DOMAIN dir /\ AtTrue(at) =>
              /\ Opened(c) = [chunk |-> at.chunk, data |-> Closed, index |-> at.index, pos |-> 0]
              /\ AtTrue(Opened(c))
<1>1. ASSUME c \in DOMAIN dir
      PROVE  /\ Opened(c) = [chunk |-> c, data |-> c + 1, index |-> c + 1, pos |-> 0]
             /\ AtTrue(Opened(c)) /\ c \in Nat
  <2>1. c \in Nat /\ dir[c] = c + 1 /\ c + 1 \in DOMAIN file
    BY <1>1, DirIs
  <2>2. Opened(c) = [chunk |-> c, data |-> c + 1, index |-> c + 1, pos |-> 0]
    BY <1>1, <2>1 DEF Opened
  <2> QED
    BY <2>1, <2>2 DEF AtTrue, AtType
<1>2. ASSUME c \notin DOMAIN dir, AtTrue(at)
      PROVE  /\ Opened(c) = [chunk |-> at.chunk, data |-> Closed, index |-> at.index, pos |-> 0]
             /\ AtTrue(Opened(c))
  <2>1. PICK a : a = at
    OBVIOUS
  <2>2. a \in AtType
    BY <1>2, <2>1 DEF AtTrue
  <2>3. [a EXCEPT !.data = Closed, !.pos = 0] = [[a EXCEPT !.data = Closed] EXCEPT !.pos = 0]
    BY <2>2 DEF AtType
  <2>4. [a EXCEPT !.data = Closed] = [chunk |-> a.chunk, data |-> Closed, index |-> a.index, pos |-> a.pos]
    BY <2>2 DEF AtType
  <2>5. PICK b : b = [a EXCEPT !.data = Closed]
    OBVIOUS
  <2>6. b = [chunk |-> a.chunk, data |-> Closed, index |-> a.index, pos |-> a.pos]
    BY <2>4, <2>5
  <2>10. [b EXCEPT !.pos = 0] = [chunk |-> a.chunk, data |-> Closed, index |-> a.index, pos |-> 0]
    BY <2>6
  <2>7. Opened(c) = [a EXCEPT !.data = Closed, !.pos = 0]
    BY <1>2, <2>1 DEF Opened
  <2>8. Opened(c) = [chunk |-> a.chunk, data |-> Closed, index |-> a.index, pos |-> 0]
    BY <2>3, <2>5, <2>10, <2>7
  <2>9. Closed \in Nat
    BY DEF Closed
  <2> QED
    BY <1>2, <2>1, <2>2, <2>8, <2>9 DEF AtTrue, AtType
<1> QED
  BY <1>1, <1>2

(* When the player stays as it is, what is on disk may grow.               *)
LEMMA ReaderIdle ==
  ASSUME RInv, RInv', ReaderInv, FilesGrow, UNCHANGED <<up, at, spans, serving, answer>>
  PROVE  ReaderInv'
<1>1. ASSUME NEW a, AtTrue(a) PROVE AtTrue(a)'
  BY <1>1 DEF AtTrue, FilesGrow
<1>2. ASSUME NEW f \in DOMAIN file
      PROVE  file[f].onDisk \in Nat /\ file'[f].onDisk \in Nat /\ file[f].onDisk <= file'[f].onDisk
  <2>1. FilesTypeOK /\ FilesTypeOK'
    BY DEF RInv, RecorderInv, FilesInv
  <2>2. f \in DOMAIN file' /\ file[f].onDisk <= file'[f].onDisk
    BY <1>2 DEF FilesGrow
  <2>3. file[f] \in FileType /\ file'[f] \in FileType
    BY <1>2, <2>1, <2>2 DEF FilesTypeOK
  <2> QED
    BY <2>2, <2>3 DEF FileType
<1>3. ASSUME up = "up" PROVE PosTrue'
  <2>1. PosTrue /\ at' = at /\ serving' = serving
    BY <1>3 DEF ReaderInv
  <2>2. AtTrue(at)' /\ (Late' <=> Late)
    BY <1>1, <2>1 DEF PosTrue, AtTrue, Late
  <2>3. ASSUME at.data # Closed, ~Late PROVE at.pos <= file'[at.data].onDisk
    <3>1. at.data \in DOMAIN file /\ at.pos \in Nat /\ at.pos <= file[at.data].onDisk
      BY <2>1, <2>3 DEF PosTrue, AtTrue, AtType
    <3> QED
      BY <1>2, <3>1
  <2> QED
    BY <2>1, <2>2, <2>3 DEF PosTrue
<1>4. ServingTrue'
  <2>1. ServingTrue /\ serving' = serving /\ at' = at /\ spans' = spans /\ up' = up
    BY DEF ReaderInv
  <2>2. ASSUME serving.op = "ref", ~serving.late PROVE RefNext'
    <3>1. RefNext /\ up = "up"
      BY <2>1, <2>2 DEF ServingTrue, NoRequest
    <3>2. PosTrue
      BY <3>1 DEF ReaderInv
    <3>3. at.pos \in Nat /\ at.data \in DOMAIN file /\ at.pos < file[at.data].onDisk
      BY <3>1, <3>2 DEF PosTrue, AtTrue, AtType, RefNext
    <3>4. at.pos < file'[at.data].onDisk
      BY <1>2, <3>3
    <3> QED
      BY <2>1, <3>1, <3>4 DEF RefNext, Covers
  <2>3. ASSUME serving.op = "ref" PROVE AtTrue(serving.home)'
    BY <1>1, <2>1, <2>3 DEF ServingTrue, AtTrue
  <2> QED
    BY <2>1, <2>2, <2>3 DEF ServingTrue
<1>5. ASSUME NEW m, NEW f, NEW i, OnDisk(m, f, i) PROVE OnDisk(m, f, i)'
  BY <1>5, OnDiskStays
<1>6. Stands'
  <2>1. Stands /\ up' = up /\ answer' = answer /\ serving' = serving /\ at' = at
    BY DEF ReaderInv
  <2>2. ASSUME NEW m, Behinds(m) PROVE Behinds(m)'
    BY <1>5, <2>1, <2>2 DEF Behinds
  <2>3. ASSUME NEW m, Aheads(m) PROVE Aheads(m)'
    BY <1>5, <2>1, <2>3 DEF Aheads
  <2>4. Known' <=> Known
    BY <2>1 DEF Known
  <2>5. \A m : Behinds(m) => Behinds(m)'
    BY <2>2
  <2>6. \A m : Aheads(m) => Aheads(m)'
    BY <2>3
  <2>7. \A m, f, i : OnDisk(m, f, i) => OnDisk(m, f, i)'
    BY <1>5
  <2>8. ASSUME up = "up", Known
        PROVE  /\ answer.op \in {"next", "prev", "ref"}
               /\ answer.op # "prev" => /\ serving.op \in {"none", "prev"} => OnDisk(answer.m, at.data, at.pos)'
                                        /\ serving.op = "next" => Behinds(answer.m)'
               /\ answer.op = "prev" => /\ serving.op \in {"none", "next"} => OnDisk(answer.m, at.data, at.pos + 1)'
                                        /\ serving.op = "prev" => Aheads(answer.m)'
    <3>1. OnDisk(answer.m, at.data, at.pos) => OnDisk(answer.m, at.data, at.pos)'
      BY <2>1, <2>7 DEF OnDisk
    <3>2. OnDisk(answer.m, at.data, at.pos + 1) => OnDisk(answer.m, at.data, at.pos + 1)'
      BY <2>1, <2>7 DEF OnDisk
    <3>3. Behinds(answer.m) => Behinds(answer.m)'
      BY <2>1, <2>5 DEF Behinds
    <3>4. Aheads(answer.m) => Aheads(answer.m)'
      BY <2>1, <2>6 DEF Aheads
    <3> QED
      BY <2>1, <2>8, <3>1, <3>2, <3>3, <3>4 DEF Stands
  <2> QED
    BY <2>1, <2>4, <2>8 DEF Stands
<1>7. AnswerTrue'
  <2>1. AnswerTrue /\ answer' = answer /\ spans' = spans
    BY DEF ReaderInv
  <2>2. ASSUME answer.op = "ref", Known
        PROVE \E k \in 1 .. Len(spans) :
                 Covers(answer.n, k) /\ OnDisk(answer.m, spans[k].file, answer.n - spans[k].from + 1)'
    <3>1. PICK k \in 1 .. Len(spans) :
                 Covers(answer.n, k) /\ OnDisk(answer.m, spans[k].file, answer.n - spans[k].from + 1)
      BY <2>1, <2>2 DEF AnswerTrue
    <3>2. OnDisk(answer.m, spans[k].file, answer.n - spans[k].from + 1)'
      BY <1>5, <2>1, <3>1 DEF OnDisk
    <3> QED
      BY <3>1, <3>2
  <2> QED
    BY <2>1, <2>2 DEF AnswerTrue, Known, Covers
<1>8. SpansTrue' <=> SpansTrue
  BY DEF SpansTrue
<1> QED
  BY <1>3, <1>4, <1>6, <1>7, <1>8 DEF ReaderInv

(* The player starts at the beginning of the oldest chunk.                 *)
LEMMA ReaderStart ==
  ASSUME RInv, ReaderInv, StartPlayer
  PROVE  ReaderInv'
<1>1. /\ up = "off" /\ up' = "up" /\ spans' = Spans /\ at' = Opened(Min(DOMAIN dir))
      /\ UNCHANGED <<file, dir, recorded, serving, answer>>
  BY DEF StartPlayer, rvars
<1>2. answer = NoAnswer /\ serving = NoRequest
  BY <1>1 DEF ReaderInv
<1>3. serving.op = "none" /\ answer.op = "none"
  BY <1>2 DEF NoAnswer, NoRequest
<1>4. FilesTypeOK /\ Numbers
  BY DEF RInv, RecorderInv, FilesInv
<1>5. SpansTrue'
  BY <1>1, <1>4, SpansAre
<1>6. DOMAIN dir \in SUBSET Nat /\ IsFiniteSet(DOMAIN dir) /\ DOMAIN dir # {}
  BY <1>4 DEF FilesTypeOK
<1>7. PICK c : c = Min(DOMAIN dir)
  OBVIOUS
<1>8. c \in DOMAIN dir
  BY <1>6, <1>7, MinIs
<1>9. c \in Nat /\ Opened(c) = [chunk |-> c, data |-> c + 1, index |-> c + 1, pos |-> 0]
  BY <1>8, OpenedIs
<1>10. c + 1 \in DOMAIN file /\ file[c + 1].onDisk \in Nat
  BY <1>8, DirIs
<1>11. at' = [chunk |-> c, data |-> c + 1, index |-> c + 1, pos |-> 0]
  BY <1>1, <1>7, <1>9
<1>12. PosTrue'
  <2>1. AtTrue(at)'
    BY <1>1, <1>9, <1>10, <1>11 DEF AtTrue, AtType
  <2>2. at'.pos <= file'[at'.data].onDisk
    BY <1>1, <1>10, <1>11
  <2> QED
    BY <2>1, <2>2 DEF PosTrue
<1>13. Stands' /\ AnswerTrue' /\ ServingTrue'
  BY <1>1, <1>2, <1>3 DEF Stands, AnswerTrue, ServingTrue, Known, NoAnswer
<1> QED
  BY <1>1, <1>5, <1>12, <1>13 DEF ReaderInv

(* A request for the next or the previous message is taken.                *)
LEMMA ReaderTake ==
  ASSUME RInv, ReaderInv, TakeStep
  PROVE  ReaderInv'
<1>1. /\ up = "up" /\ serving = NoRequest /\ serving' = Head(mbox)
      /\ serving'.op \in {"next", "prev"}
      /\ UNCHANGED <<file, dir, recorded, up, at, spans, answer>>
  BY DEF TakeStep, Takes, rvars
<1>2. serving.op = "none"
  BY <1>1 DEF NoRequest
<1>3. SpansTrue' /\ AnswerTrue'
  BY <1>1 DEF ReaderInv, SpansTrue, AnswerTrue, Known, Covers, OnDisk
<1>4. PosTrue'
  BY <1>1, <1>2 DEF ReaderInv, PosTrue, AtTrue, Late
<1>5. ServingTrue'
  BY <1>1 DEF ServingTrue
<1>6. Stands'
  <2>1. AtTrue(at)
    BY <1>1 DEF ReaderInv, PosTrue
  <2>2. Stands
    BY DEF ReaderInv
  <2>3. ASSUME Known, answer.op # "prev" PROVE Behinds(answer.m)'
    <3>1. OnDisk(answer.m, at.data, at.pos)
      BY <1>1, <1>2, <2>2, <2>3 DEF Stands
    <3>2. at.data \in Nat /\ at.data # Closed /\ at.pos \in Nat
      BY <3>1, OnDiskIs DEF Closed
    <3>3. at.data = at.chunk + 1 /\ at.pos <= at.pos
      BY <2>1, <3>2 DEF AtTrue
    <3> QED
      BY <1>1, <3>1, <3>2, <3>3 DEF Behinds, OnDisk
  <2>4. ASSUME Known, answer.op = "prev" PROVE Aheads(answer.m)'
    <3>1. OnDisk(answer.m, at.data, at.pos + 1)
      BY <1>1, <1>2, <2>2, <2>4 DEF Stands
    <3>2. at.data \in Nat /\ at.pos \in Nat /\ at.pos + 1 \in Nat
      BY <2>1 DEF AtTrue, AtType
    <3>3. at.pos + 1 > at.pos
      BY <3>2
    <3> QED
      BY <1>1, <3>1, <3>2, <3>3 DEF Aheads, OnDisk
  <2>5. Known' <=> Known
    BY <1>1 DEF Known
  <2>6. OnDisk(answer.m, at.data, at.pos) => OnDisk(answer.m, at.data, at.pos)'
    BY <1>1 DEF OnDisk
  <2>7. OnDisk(answer.m, at.data, at.pos + 1) => OnDisk(answer.m, at.data, at.pos + 1)'
    BY <1>1 DEF OnDisk
  <2>8. ASSUME Known
        PROVE  /\ answer.op \in {"next", "prev", "ref"}
               /\ answer.op # "prev" => /\ serving'.op = "prev" => OnDisk(answer.m, at.data, at.pos)'
                                        /\ serving'.op = "next" => Behinds(answer.m)'
               /\ answer.op = "prev" => /\ serving'.op = "next" => OnDisk(answer.m, at.data, at.pos + 1)'
                                        /\ serving'.op = "prev" => Aheads(answer.m)'
    BY <1>1, <1>2, <2>2, <2>3, <2>4, <2>6, <2>7, <2>8 DEF Stands
  <2> QED
    BY <1>1, <2>5, <2>8 DEF Stands
<1> QED
  BY <1>1, <1>3, <1>4, <1>5, <1>6 DEF ReaderInv

(* A position that is closed, at its beginning, ...                        *)
LEMMA ClosedIs ==
  ASSUME NEW a, AtTrue(a)
  PROVE  /\ [a EXCEPT !.data = Closed, !.pos = 0]
              = [chunk |-> a.chunk, data |-> Closed, index |-> a.index, pos |-> 0]
         /\ AtTrue([a EXCEPT !.data = Closed, !.pos = 0])
<1>1. a \in AtType
  BY DEF AtTrue
<1>2. [a EXCEPT !.data = Closed, !.pos = 0] = [[a EXCEPT !.data = Closed] EXCEPT !.pos = 0]
  BY <1>1 DEF AtType
<1>3. PICK b : b = [a EXCEPT !.data = Closed]
  OBVIOUS
<1>4. b = [chunk |-> a.chunk, data |-> Closed, index |-> a.index, pos |-> a.pos]
  BY <1>1, <1>3 DEF AtType
<1>5. [b EXCEPT !.pos = 0] = [chunk |-> a.chunk, data |-> Closed, index |-> a.index, pos |-> 0]
  BY <1>4
<1>6. Closed \in Nat
  BY DEF Closed
<1> QED
  BY <1>1, <1>2, <1>3, <1>5, <1>6 DEF AtTrue, AtType

(* ... and one that moves in its file.                                     *)
LEMMA MovedIs ==
  ASSUME NEW a, AtTrue(a), NEW p \in Nat, a.data # Closed
  PROVE  /\ [a EXCEPT !.pos = p] = [chunk |-> a.chunk, data |-> a.data, index |-> a.index, pos |-> p]
         /\ AtTrue([a EXCEPT !.pos = p])
<1>1. a \in AtType
  BY DEF AtTrue
<1>2. [a EXCEPT !.pos = p] = [chunk |-> a.chunk, data |-> a.data, index |-> a.index, pos |-> p]
  BY <1>1 DEF AtType
<1> QED
  BY <1>1, <1>2 DEF AtTrue, AtType

(* A message is read, and the position moves behind it.                    *)
LEMMA ReaderNext ==
  ASSUME RInv, ReaderInv, ReadNext
  PROVE  ReaderInv'
<1>1. /\ up = "up" /\ serving.op \in {"next", "ref"} /\ serving' = NoRequest
      /\ at.data # Closed /\ at.pos < file[at.data].onDisk
      /\ UNCHANGED <<file, dir, recorded, up, spans>>
  BY DEF ReadNext, Readable, Answer, rvars
<1>2. PICK m : m = file[at.data].data[at.pos + 1]
  OBVIOUS
<1>3. answer' = IF serving.op = "ref"
                  THEN [op |-> "ref", n |-> serving.n, late |-> serving.late, m |-> m]
                  ELSE [op |-> "next", m |-> m]
  BY <1>2 DEF ReadNext, Answer
<1>4. PosTrue /\ ServingTrue /\ Stands /\ SpansTrue
  BY <1>1 DEF ReaderInv
<1>5. AtTrue(at) /\ at.data \in DOMAIN file /\ at.data = at.chunk + 1 /\ at.pos \in Nat
  BY <1>1, <1>4 DEF PosTrue, AtTrue, AtType
<1>6. file[at.data].onDisk \in Nat
  BY <1>5, FileIs DEF RInv, RecorderInv, FilesInv
<1>7. at.pos + 1 \in Nat /\ at.pos + 1 <= file[at.data].onDisk /\ at.pos + 1 \in 1 .. file[at.data].onDisk
  BY <1>1, <1>5, <1>6
<1>8. OnDisk(m, at.data, at.pos + 1)
  BY <1>2, <1>5, <1>7 DEF OnDisk
<1>9. serving'.op = "none"
  BY <1>1 DEF NoRequest
<1>10. ServingTrue' /\ SpansTrue'
  BY <1>1, <1>4, <1>9 DEF ServingTrue, SpansTrue
<1>11. CASE serving.op = "ref" /\ serving.home.chunk # at.chunk
  <2>1. at' = [serving.home EXCEPT !.data = Closed, !.pos = 0]
    BY <1>11 DEF ReadNext
  <2>2. AtTrue(serving.home) /\ serving.late
    BY <1>4, <1>11 DEF ServingTrue, RefNext
  <2>3. AtTrue(at') /\ at'.data = Closed
    BY <2>1, <2>2, ClosedIs
  <2>4. AtTrue(at)'
    BY <1>1, <2>3 DEF AtTrue
  <2>5. PosTrue'
    BY <2>3, <2>4 DEF PosTrue
  <2>6. answer'.op = "ref" /\ answer'.late
    BY <1>3, <1>11, <2>2
  <2>7. Stands' /\ AnswerTrue'
    BY <2>6 DEF Stands, AnswerTrue, Known
  <2> QED
    BY <1>1, <1>10, <2>5, <2>7 DEF ReaderInv
<1>12. CASE ~(serving.op = "ref" /\ serving.home.chunk # at.chunk)
  <2>1. at' = [at EXCEPT !.pos = @ + 1]
    BY <1>12 DEF ReadNext
  <2>2. at' = [chunk |-> at.chunk, data |-> at.data, index |-> at.index, pos |-> at.pos + 1] /\ AtTrue(at')
    BY <1>1, <1>5, <1>7, <2>1, MovedIs
  <2>3. AtTrue(at)'
    BY <1>1, <2>2 DEF AtTrue
  <2>4. PosTrue'
    BY <1>1, <1>7, <2>2, <2>3 DEF PosTrue
  <2>5. OnDisk(m, at.data, at.pos)'
    BY <1>1, <1>8, <2>2 DEF OnDisk
  <2>6. answer'.m = m /\ answer'.op \in {"next", "ref"}
    BY <1>3
  <2>7. Stands'
    BY <1>9, <2>5, <2>6 DEF Stands
  <2>8. ASSUME answer'.op = "ref", Known'
        PROVE  \E k \in 1 .. Len(spans) :
                  Covers(answer'.n, k) /\ OnDisk(answer'.m, spans[k].file, answer'.n - spans[k].from + 1)
    <3>1. serving.op = "ref" /\ answer'.n = serving.n /\ answer'.late = serving.late
      BY <1>3, <2>8
    <3>2. RefNext
      BY <1>4, <2>8, <3>1 DEF ServingTrue, Known
    <3>3. PICK k \in 1 .. Len(spans) : /\ Covers(serving.n, k) /\ spans[k].chunk = at.chunk
                                       /\ at.pos = serving.n - spans[k].from
      BY <3>2 DEF RefNext
    <3>4. spans[k].file = at.data
      BY <1>4, <1>5, <3>3 DEF SpansTrue
    <3> QED
      BY <1>8, <2>6, <3>1, <3>3, <3>4
  <2>9. AnswerTrue'
    BY <1>1, <2>8 DEF AnswerTrue, Covers, OnDisk
  <2> QED
    BY <1>1, <1>10, <2>4, <2>7, <2>9 DEF ReaderInv
<1> QED
  BY <1>11, <1>12

(* There is none, and the next chunk is tried.                             *)
LEMMA ReaderOpenNext ==
  ASSUME RInv, ReaderInv, OpenNext
  PROVE  ReaderInv'
<1>1. /\ up = "up" /\ serving.op \in {"next", "ref"} /\ ~Readable /\ at' = Opened(at.chunk + 1)
      /\ UNCHANGED <<file, dir, recorded, up, spans, serving, answer>>
  BY DEF OpenNext, rvars
<1>2. PosTrue /\ ServingTrue /\ Stands /\ SpansTrue /\ AnswerTrue
  BY <1>1 DEF ReaderInv
<1>3. AtTrue(at) /\ at.chunk \in Nat /\ at.pos \in Nat
  BY <1>2 DEF PosTrue, AtTrue, AtType
<1>4. SpansTrue' /\ AnswerTrue'
  BY <1>1, <1>2 DEF SpansTrue, AnswerTrue, Known, Covers, OnDisk
<1>5. serving.op = "ref" => serving.late
  BY <1>1, <1>2 DEF ServingTrue, RefNext, Readable
<1>6. ServingTrue'
  BY <1>1, <1>2, <1>5 DEF ServingTrue, AtTrue
<1>7. ASSUME Known, answer.op = "prev", serving.op = "next" PROVE FALSE
  <2>1. OnDisk(answer.m, at.data, at.pos + 1)
    BY <1>1, <1>2, <1>7 DEF Stands
  <2>2. at.data # Closed /\ file[at.data].onDisk \in Nat /\ at.pos + 1 <= file[at.data].onDisk
    BY <2>1, OnDiskIs DEF Closed
  <2> QED
    BY <1>1, <1>3, <2>2 DEF Readable
<1>8. ASSUME AtTrue(at)', at'.data # Closed => at'.pos = 0,
             \A f, i \in Nat : (f < at.chunk + 1 \/ (f = at.chunk + 1 /\ (at.data = Closed \/ i <= at.pos))) =>
                                 (f < at'.chunk + 1 \/ (f = at'.chunk + 1 /\ at'.data = Closed))
      PROVE  PosTrue' /\ Stands'
  <2>1. PosTrue'
    <3>1. at'.data # Closed => at'.data \in DOMAIN file
      BY <1>1, <1>8 DEF AtTrue
    <3>2. at'.data # Closed => file[at'.data].onDisk \in Nat
      BY <3>1, FileIs DEF RInv, RecorderInv, FilesInv
    <3> QED
      BY <1>1, <1>8, <3>2 DEF PosTrue
  <2>2. ASSUME Known, serving.op = "next", answer.op # "prev" PROVE Behinds(answer.m)'
    <3>1. PICK f \in Nat :
             \E i \in Nat : /\ OnDisk(answer.m, f, i)
                            /\ f < at.chunk + 1 \/ (f = at.chunk + 1 /\ (at.data = Closed \/ i <= at.pos))
      BY <1>1, <1>2, <2>2 DEF Stands, Behinds
    <3>2. PICK i \in Nat : /\ OnDisk(answer.m, f, i)
                           /\ f < at.chunk + 1 \/ (f = at.chunk + 1 /\ (at.data = Closed \/ i <= at.pos))
      BY <3>1
    <3>3. f < at'.chunk + 1 \/ (f = at'.chunk + 1 /\ at'.data = Closed)
      BY <1>8, <3>2
    <3>4. OnDisk(answer.m, f, i)'
      BY <1>1, <3>2 DEF OnDisk
    <3> QED
      BY <3>3, <3>4 DEF Behinds
  <2>3. Known' <=> Known
    BY <1>1 DEF Known
  <2>4. Known => answer.op \in {"next", "prev", "ref"}
    BY <1>1, <1>2 DEF Stands
  <2> QED
    BY <1>1, <1>7, <2>1, <2>2, <2>3, <2>4 DEF Stands
<1>9. PICK c : c = at.chunk + 1
  OBVIOUS
<1>10. PosTrue' /\ Stands'
  <2>1. CASE c \in DOMAIN dir
    <3>1. at' = [chunk |-> c, data |-> c + 1, index |-> c + 1, pos |-> 0] /\ AtTrue(at')
      BY <1>1, <1>9, <2>1, OpenedIs
    <3>2. AtTrue(at)'
      BY <1>1, <3>1 DEF AtTrue
    <3>3. \A f, i \in Nat : (f < at.chunk + 1 \/ (f = at.chunk + 1 /\ (at.data = Closed \/ i <= at.pos))) =>
                              (f < at'.chunk + 1 \/ (f = at'.chunk + 1 /\ at'.data = Closed))
      BY <1>3, <1>9, <3>1
    <3> QED
      BY <1>8, <3>1, <3>2, <3>3
  <2>2. CASE c \notin DOMAIN dir
    <3>1. at' = [chunk |-> at.chunk, data |-> Closed, index |-> at.index, pos |-> 0] /\ AtTrue(at')
      BY <1>1, <1>3, <1>9, <2>2, OpenedIs
    <3>2. AtTrue(at)'
      BY <1>1, <3>1 DEF AtTrue
    <3>3. \A f, i \in Nat : (f < at.chunk + 1 \/ (f = at.chunk + 1 /\ (at.data = Closed \/ i <= at.pos))) =>
                              (f < at'.chunk + 1 \/ (f = at'.chunk + 1 /\ at'.data = Closed))
      BY <1>3, <3>1
    <3> QED
      BY <1>8, <3>1, <3>2, <3>3
  <2> QED
    BY <2>1, <2>2
<1> QED
  BY <1>1, <1>4, <1>6, <1>10 DEF ReaderInv

(* The message before the position is read.                                *)
LEMMA ReaderPrev ==
  ASSUME RInv, ReaderInv, ReadPrev
  PROVE  ReaderInv'
<1>1. /\ up = "up" /\ serving.op = "prev" /\ serving' = NoRequest
      /\ at.data # Closed /\ at.pos > 0
      /\ UNCHANGED <<file, dir, recorded, up, spans>>
  BY DEF ReadPrev, Answer, rvars
<1>2. answer' = [op |-> "prev", m |-> file[at.data].data[at.pos]]
  BY DEF ReadPrev, Answer
<1>3. PosTrue /\ ServingTrue /\ Stands /\ SpansTrue
  BY <1>1 DEF ReaderInv
<1>4. AtTrue(at) /\ at.data \in DOMAIN file /\ at.pos \in Nat
  BY <1>1, <1>3 DEF PosTrue, AtTrue, AtType
<1>5. file[at.data].onDisk \in Nat /\ at.pos <= file[at.data].onDisk
  <2>1. file[at.data].onDisk \in Nat
    BY <1>4, FileIs DEF RInv, RecorderInv, FilesInv
  <2> QED
    BY <1>1, <1>3, <2>1 DEF PosTrue, Late
<1>6. PICK p \in Nat : p = at.pos - 1
  BY <1>1, <1>4
<1>7. p + 1 = at.pos /\ p <= file[at.data].onDisk /\ at.pos \in 1 .. file[at.data].onDisk
  BY <1>1, <1>4, <1>5, <1>6
<1>8. OnDisk(answer'.m, at.data, p + 1)
  BY <1>2, <1>4, <1>7 DEF OnDisk
<1>9. at' = [at EXCEPT !.pos = p]
  <2>1. at' = [at EXCEPT !.pos = @ - 1]
    BY DEF ReadPrev
  <2>2. [at EXCEPT !.pos = @ - 1] = [at EXCEPT !.pos = at.pos - 1]
    BY <1>4 DEF AtTrue, AtType
  <2> QED
    BY <1>6, <2>1, <2>2
<1>10. /\ at' = [chunk |-> at.chunk, data |-> at.data, index |-> at.index, pos |-> p]
       /\ AtTrue(at')
  BY <1>1, <1>4, <1>9, MovedIs
<1>11. AtTrue(at)'
  BY <1>1, <1>10 DEF AtTrue
<1>12. PosTrue'
  BY <1>1, <1>7, <1>10, <1>11 DEF PosTrue
<1>13. serving'.op = "none" /\ answer'.op = "prev"
  BY <1>1, <1>2 DEF NoRequest
<1>14. OnDisk(answer.m, at.data, at.pos + 1)'
  BY <1>1, <1>8, <1>10 DEF OnDisk
<1>15. Stands' /\ AnswerTrue' /\ ServingTrue' /\ SpansTrue'
  BY <1>1, <1>3, <1>13, <1>14 DEF Stands, AnswerTrue, ServingTrue, SpansTrue
<1> QED
  BY <1>1, <1>12, <1>15 DEF ReaderInv

(* There is none in the chunk, and the one before is opened.               *)
LEMMA ReaderOpenPrev ==
  ASSUME RInv, ReaderInv, OpenPrev
  PROVE  ReaderInv'
<1>1. /\ up = "up" /\ serving.op = "prev" /\ AtBegin /\ at.chunk - 1 \in DOMAIN dir
      /\ at' = [Opened(at.chunk - 1) EXCEPT !.pos = file[dir[at.chunk - 1]].onDisk]
      /\ UNCHANGED <<file, dir, recorded, up, spans, serving, answer>>
  BY DEF OpenPrev, rvars
<1>2. PosTrue /\ ServingTrue /\ Stands /\ SpansTrue /\ AnswerTrue
  BY <1>1 DEF ReaderInv
<1>3. AtTrue(at) /\ at.chunk \in Nat /\ at.pos \in Nat
  BY <1>2 DEF PosTrue, AtTrue, AtType
<1>4. PICK c : c = at.chunk - 1
  OBVIOUS
<1>5. /\ c \in Nat /\ dir[c] = c + 1 /\ file[c + 1].onDisk \in Nat /\ c + 1 = at.chunk
      /\ Opened(c) = [chunk |-> c, data |-> c + 1, index |-> c + 1, pos |-> 0] /\ AtTrue(Opened(c))
  BY <1>1, <1>3, <1>4, DirIs, OpenedIs
<1>6. PICK e : e = file[c + 1].onDisk
  OBVIOUS
<1>7. at' = [Opened(c) EXCEPT !.pos = e]
  BY <1>1, <1>4, <1>5, <1>6
<1>8. Opened(c).data # Closed
  BY <1>5 DEF Closed
<1>9. /\ at' = [chunk |-> c, data |-> c + 1, index |-> c + 1, pos |-> e]
      /\ AtTrue(at')
  <2>1. PICK a : a = Opened(c)
    OBVIOUS
  <2>2. AtTrue(a) /\ a.data # Closed /\ e \in Nat /\ at' = [a EXCEPT !.pos = e]
    BY <1>5, <1>6, <1>7, <1>8, <2>1
  <2>3. at' = [chunk |-> a.chunk, data |-> a.data, index |-> a.index, pos |-> e] /\ AtTrue(at')
    BY <2>2, MovedIs
  <2> QED
    BY <1>5, <2>1, <2>3
<1>10. AtTrue(at)'
  BY <1>1, <1>9 DEF AtTrue
<1>11. PosTrue'
  BY <1>1, <1>5, <1>6, <1>9, <1>10 DEF PosTrue
<1>12. SpansTrue' /\ AnswerTrue' /\ ServingTrue'
  BY <1>1, <1>2 DEF SpansTrue, AnswerTrue, Known, Covers, OnDisk, ServingTrue
<1>13. ASSUME Known, answer.op # "prev" PROVE FALSE
  <2>1. OnDisk(answer.m, at.data, at.pos)
    BY <1>1, <1>2, <1>13 DEF Stands
  <2> QED
    BY <1>1, <2>1, OnDiskIs DEF AtBegin, Closed
<1>14. ASSUME Known, answer.op = "prev" PROVE Aheads(answer.m)'
  <2>1. PICK f \in Nat : \E i \in Nat : OnDisk(answer.m, f, i) /\ (f > at.chunk + 1 \/ (f = at.data /\ i > at.pos))
    BY <1>1, <1>2, <1>14 DEF Stands, Aheads
  <2>2. PICK i \in Nat : OnDisk(answer.m, f, i) /\ (f > at.chunk + 1 \/ (f = at.data /\ i > at.pos))
    BY <2>1
  <2>3. f # 0
    BY <2>2, OnDiskIs
  <2>4. f > c + 1
    BY <1>3, <1>5, <2>2, <2>3 DEF AtTrue, Closed
  <2> QED
    BY <1>1, <1>9, <2>2, <2>4 DEF Aheads, OnDisk
<1>15. Stands'
  BY <1>1, <1>13, <1>14 DEF Stands, Known
<1> QED
  BY <1>1, <1>11, <1>12, <1>15 DEF ReaderInv

(* A reference is looked up.                                               *)
LEMMA ReaderRef ==
  ASSUME RInv, ReaderInv, ChildTypeOK, TakeRef
  PROVE  ReaderInv'
<1>1. /\ up = "up" /\ serving = NoRequest /\ mbox # <<>> /\ Head(mbox).op = "ref"
      /\ UNCHANGED <<file, dir, recorded, up, spans>>
  BY DEF TakeRef, Takes, rvars
<1>2. PICK r : r = Head(mbox)
  OBVIOUS
<1>3. r.op = "ref" /\ r.n \in Nat
  <2>1. r \in Sent
    BY <1>1, <1>2 DEF ChildTypeOK
  <2> QED
    BY <1>1, <1>2, <2>1 DEF Sent
<1>4. serving.op = "none"
  BY <1>1 DEF NoRequest
<1>5. PosTrue /\ ServingTrue /\ Stands /\ SpansTrue /\ AnswerTrue
  BY <1>1 DEF ReaderInv
<1>6. PICK l : l = Lookup(r.n)
  OBVIOUS
<1>7. l = 0 \/ Covers(r.n, l)
  BY <1>3, <1>5, <1>6, LookupIs
<1>8. SpansTrue'
  BY <1>1, <1>5 DEF SpansTrue
<1>9. ASSUME answer' = [op |-> "ref", n |-> r.n, late |-> FALSE, m |-> None], serving' = NoRequest,
             AtTrue(at'), at'.data # Closed => at'.pos <= file[at'.data].onDisk
      PROVE  ReaderInv'
  <2>1. ~Known' /\ serving'.op = "none"
    BY <1>9 DEF Known, NoRequest
  <2>2. AtTrue(at)'
    BY <1>1, <1>9 DEF AtTrue
  <2>3. PosTrue'
    BY <1>1, <1>9, <2>2 DEF PosTrue
  <2>4. Stands' /\ AnswerTrue' /\ ServingTrue'
    BY <1>9, <2>1 DEF Stands, AnswerTrue, ServingTrue
  <2> QED
    BY <1>1, <1>8, <2>3, <2>4 DEF ReaderInv
<1>10. AtTrue(at) /\ (at.data # Closed => at.pos <= file[at.data].onDisk)
  BY <1>4, <1>5 DEF PosTrue, Late
<1>11. CASE l = 0
  <2>1. at' = at /\ answer' = [op |-> "ref", n |-> r.n, late |-> FALSE, m |-> None] /\ serving' = NoRequest
    BY <1>2, <1>6, <1>11 DEF TakeRef, Answer
  <2> QED
    BY <1>9, <1>10, <2>1
<1>12. CASE l # 0
  <2>1. Covers(r.n, l) /\ l \in 1 .. Len(spans)
    BY <1>7, <1>12 DEF Covers
  <2>2. PICK s : s = spans[l]
    OBVIOUS
  <2>3. s.from \in Nat /\ s.from <= r.n /\ s.file = s.chunk + 1
    BY <1>5, <2>1, <2>2 DEF SpansTrue, Covers
  <2>4. PICK i \in Nat : i = r.n - s.from
    BY <1>3, <2>3
  <2>5. PICK h : h = IF s.chunk = at.chunk THEN at ELSE Opened(s.chunk)
    OBVIOUS
  <2>6. /\ AtTrue(h) /\ (h.data # Closed => h.pos <= file[h.data].onDisk)
        /\ h.data # Closed => h.chunk = s.chunk
    <3>1. CASE s.chunk = at.chunk
      BY <1>10, <2>5, <3>1
    <3>2. CASE s.chunk # at.chunk /\ s.chunk \in DOMAIN dir
      <4>1. PICK c : c = s.chunk
        OBVIOUS
      <4>2. /\ h = [chunk |-> c, data |-> c + 1, index |-> c + 1, pos |-> 0]
            /\ AtTrue(h) /\ file[c + 1].onDisk \in Nat
        BY <2>5, <3>2, <4>1, OpenedIs, DirIs
      <4> QED
        BY <4>1, <4>2
    <3>3. CASE s.chunk # at.chunk /\ s.chunk \notin DOMAIN dir
      <4>1. PICK c : c = s.chunk
        OBVIOUS
      <4>2. h = [chunk |-> at.chunk, data |-> Closed, index |-> at.index, pos |-> 0] /\ AtTrue(h)
        BY <1>10, <2>5, <3>3, <4>1, OpenedIs
      <4> QED
        BY <4>2
    <3> QED
      BY <3>1, <3>2, <3>3
  <2>7. CASE h.data = Closed \/ i >= file[h.index].index
    <3>1. at' = h /\ answer' = [op |-> "ref", n |-> r.n, late |-> FALSE, m |-> None] /\ serving' = NoRequest
      BY <1>2, <1>6, <1>12, <2>2, <2>4, <2>5, <2>7 DEF TakeRef, Answer
    <3> QED
      BY <1>9, <2>6, <3>1
  <2>8. CASE ~(h.data = Closed \/ i >= file[h.index].index)
    <3>1. /\ at' = [h EXCEPT !.pos = i]
          /\ serving' = [op |-> "ref", n |-> r.n, by |-> r.by, home |-> h, late |-> i >= file[h.data].onDisk]
          /\ answer' = answer
      BY <1>2, <1>6, <1>12, <2>2, <2>4, <2>5, <2>8 DEF TakeRef
    <3>2. /\ at' = [chunk |-> h.chunk, data |-> h.data, index |-> h.index, pos |-> i] /\ AtTrue(at')
      BY <2>6, <2>8, <3>1, MovedIs
    <3>3. AtTrue(at)' /\ AtTrue(h)'
      BY <1>1, <2>6, <3>2 DEF AtTrue
    <3>4. h.data \in DOMAIN file /\ h.data = h.chunk + 1
      BY <2>6, <2>8 DEF AtTrue
    <3>5. file[h.data].onDisk \in Nat
      BY <3>4, FileIs DEF RInv, RecorderInv, FilesInv
    <3>6. PICK e \in Nat : e = file[h.data].onDisk
      BY <3>5
    <3>7. serving'.late = (i >= e) /\ serving'.op = "ref" /\ serving'.n = r.n /\ serving'.home = h
      BY <3>1, <3>6
    <3>8. ~serving'.late => i < e
      <4>1. ~serving'.late => ~(i >= e)
        BY <3>7, Zenon
      <4>2. ~(i >= e) => i < e
        BY <2>4, <3>6
      <4> QED
        BY <4>1, <4>2
    <3>9. PosTrue'
      BY <1>1, <3>2, <3>3, <3>6, <3>7, <3>8 DEF PosTrue, Late
    <3>10. ASSUME ~serving'.late PROVE RefNext'
      <4>1. at'.chunk = h.chunk /\ at'.data # Closed /\ at'.pos < file'[at'.data].onDisk
        BY <1>1, <2>8, <3>2, <3>6, <3>8, <3>10
      <4>2. Covers(r.n, l)'
        BY <1>1, <2>1 DEF Covers
      <4>3. spans'[l].chunk = at'.chunk /\ at'.pos = r.n - spans'[l].from /\ l \in 1 .. Len(spans')
        BY <1>1, <2>1, <2>2, <2>4, <2>6, <2>8, <3>2
      <4> QED
        BY <3>7, <4>1, <4>2, <4>3 DEF RefNext, Covers
    <3>11. ServingTrue'
      <4>1. serving'.late \in BOOLEAN
        BY <3>7
      <4>2. AtTrue(serving.home)'
        BY <3>3, <3>7 DEF AtTrue
      <4> QED
        BY <1>1, <1>3, <3>7, <3>10, <4>1, <4>2 DEF ServingTrue
    <3>12. Stands' /\ AnswerTrue'
      <4>1. Known' <=> Known
        BY <3>1 DEF Known
      <4>2. Stands'
        BY <1>1, <1>5, <3>1, <3>7, <4>1 DEF Stands
      <4>3. AnswerTrue'
        BY <1>1, <1>5, <3>1, <4>1 DEF AnswerTrue, Covers, OnDisk
      <4> QED
        BY <4>2, <4>3
    <3> QED
      BY <1>1, <1>8, <3>9, <3>11, <3>12 DEF ReaderInv
  <2> QED
    BY <2>7, <2>8
<1> QED
  BY <1>11, <1>12

(* A player that has ended answers no more.                                *)
LEMMA ReaderEnds ==
  ASSUME ReaderInv, up = "up", up' \notin {"off", "up"}, serving' = NoRequest,
         UNCHANGED <<file, dir, recorded, at, spans, answer>>
  PROVE  ReaderInv'
<1>1. serving'.op = "none"
  BY DEF NoRequest
<1>2. SpansTrue' /\ AnswerTrue'
  BY DEF ReaderInv, SpansTrue, AnswerTrue, Known, Covers, OnDisk
<1>3. Stands' /\ ServingTrue'
  BY <1>1 DEF Stands, ServingTrue
<1> QED
  BY <1>2, <1>3 DEF ReaderInv

(* Before the player starts.                                               *)
LEMMA ReaderInit ==
  ASSUME Init
  PROVE  RInv /\ ReaderInv
<1>1. /\ file = <<NewFile>> /\ dir = [k \in {0} |-> 1] /\ up = "off" /\ answer = NoAnswer
      /\ serving = NoRequest
  BY DEF Init, Start
<1>2. RecorderInv
  BY InvStart DEF Init
<1>3. NewFile.data = <<>> /\ NewFile.index = 0
  BY DEF NewFile
<1>4. Ascending
  BY <1>1, <1>3 DEF Ascending
<1>5. Numbers
  <2>1. Newest \in DOMAIN dir /\ Current \in DOMAIN file
    BY <1>2, NewestIs DEF RecorderInv, FilesInv
  <2>2. file[Current] = NewFile
    BY <1>1, <2>1
  <2>3. file[Current].index <= Len(file[Current].data)
    BY <1>3, <2>2
  <2> QED
    BY <1>1, <2>3 DEF Numbers
<1>6. serving.op = "none" /\ answer.op = "none"
  BY <1>1 DEF NoRequest, NoAnswer
<1>7. ReaderInv
  BY <1>1, <1>6 DEF ReaderInv, ServingTrue, Stands, AnswerTrue
<1> QED
  BY <1>2, <1>4, <1>5, <1>7 DEF RInv

(* One action after the other.                                             *)
LEMMA ReaderStep ==
  ASSUME PacketsFit, RInv, ReaderInv, ChildTypeOK, [Next]_vars
  PROVE  RInv' /\ ReaderInv'
<1>1. [Record]_rvars
  BY ReadsOnly
<1>2. RInv'
  BY <1>1, InvStep, AscendingStep, NumbersStep DEF RInv
<1>3. FilesGrow
  BY <1>1, GrowStep DEF RInv
<1>4. CASE \/ Recording \/ TakeStart \/ TakeStop \/ PlayNext \/ PlayEnds \/ Read \/ Control
           \/ UNCHANGED vars
  <2>1. UNCHANGED <<up, at, spans, serving, answer>>
    BY <1>4 DEF Recording, TakeStart, TakeStop, PlayNext, PlayEnds, Read, Control, vars
  <2> QED
    BY <1>2, <1>3, <2>1, ReaderIdle
<1>5. CASE StartPlayer
  BY <1>2, <1>5, ReaderStart
<1>6. CASE TakeStep
  BY <1>2, <1>6, ReaderTake
<1>7. CASE TakeRef
  BY <1>2, <1>7, ReaderRef
<1>8. CASE ReadNext
  BY <1>2, <1>8, ReaderNext
<1>9. CASE OpenNext
  BY <1>2, <1>9, ReaderOpenNext
<1>10. CASE ReadPrev
  BY <1>2, <1>10, ReaderPrev
<1>11. CASE OpenPrev
  BY <1>2, <1>11, ReaderOpenPrev
<1>12. ASSUME up = "up", NEW how, how \notin {"off", "up"}, Ends(how) PROVE ReaderInv'
  <2>1. up' = how /\ serving' = NoRequest /\ UNCHANGED <<file, dir, recorded, at, spans, answer>>
    BY <1>12 DEF Ends, rvars
  <2> QED
    BY <1>12, <2>1, ReaderEnds
<1>13. CASE NoPrev
  BY <1>2, <1>12, <1>13 DEF NoPrev
<1>14. CASE TakeExit
  <2>1. CASE Head(mbox).pid = stream
    <3>1. UNCHANGED <<up, at, spans, serving, answer>>
      BY <1>14, <2>1 DEF TakeExit
    <3> QED
      BY <1>2, <1>3, <3>1, ReaderIdle
  <2>2. CASE Head(mbox).pid # stream
    BY <1>2, <1>12, <1>14, <2>2 DEF TakeExit
  <2> QED
    BY <2>1, <2>2
<1> QED
  BY <1>4, <1>5, <1>6, <1>7, <1>8, <1>9, <1>10, <1>11, <1>13, <1>14 DEF Next, Player

(* The position is true at all times.                                      *)
LEMMA ReaderSound == PacketsFit => (Spec => [](RInv /\ ReaderInv))
<1> SUFFICES ASSUME PacketsFit PROVE Spec => [](RInv /\ ReaderInv)
  OBVIOUS
<1>1. Init => RInv /\ ReaderInv
  BY ReaderInit
<1>2. RInv /\ ReaderInv /\ ChildInv /\ [Next]_vars => (RInv /\ ReaderInv)'
  BY ReaderStep DEF ChildInv
<1> QED
  BY <1>1, <1>2, ChildSound, PTL DEF Spec

(* A reference is answered with the message that had its number when the   *)
(* player started, whatever was recorded, deleted or lost since.           *)
THEOREM RefRightAlways == PacketsFit => (Spec => []RefRight)
<1> SUFFICES ASSUME PacketsFit PROVE Spec => []RefRight
  OBVIOUS
<1>1. ASSUME RInv, ReaderInv PROVE RefRight
  <2> SUFFICES ASSUME answer.op = "ref", answer.m # None, ~answer.late
               PROVE  \E s \in Range(spans) :
                        LET i == answer.n - s.from + 1 IN
                        /\ s.from <= answer.n /\ (answer.n < s.to \/ Len(spans) = 1)
                        /\ i <= Len(file[s.file].data) /\ answer.m = file[s.file].data[i]
    BY DEF RefRight
  <2>1. AnswerTrue /\ Known
    BY <1>1 DEF ReaderInv, Known
  <2>2. PICK k \in 1 .. Len(spans) : /\ Covers(answer.n, k)
                                     /\ OnDisk(answer.m, spans[k].file, answer.n - spans[k].from + 1)
    BY <2>1 DEF AnswerTrue
  <2>3. PICK s : s = spans[k]
    OBVIOUS
  <2>4. PICK i : i = answer.n - s.from + 1
    OBVIOUS
  <2>5. OnDisk(answer.m, s.file, i)
    BY <2>2, <2>3, <2>4
  <2>6. i \in 1 .. Len(file[s.file].data) /\ answer.m = file[s.file].data[i]
    BY <1>1, <2>5, OnDiskIs DEF OnDisk
  <2>7. k \in DOMAIN spans
    BY <1>1 DEF ReaderInv, SpansTrue
  <2> QED
    BY <2>2, <2>3, <2>4, <2>6, <2>7 DEF Covers, Range
<1> QED
  BY <1>1, ReaderSound, PTL

(* What is read next, ...                                                  *)
LEMMA TurnNext ==
  ASSUME RInv, ReaderInv, ReadNext, Known, answer'.op = "next"
  PROVE  IF answer.op = "prev" THEN answer'.m = answer.m ELSE answer'.m > answer.m
<1>1. /\ up = "up" /\ serving.op = "next" /\ at.data # Closed /\ at.pos < file[at.data].onDisk
      /\ answer'.m = file[at.data].data[at.pos + 1]
  BY DEF ReadNext, Readable, Answer
<1>2. PosTrue /\ Stands
  BY <1>1 DEF ReaderInv
<1>3. at.data \in DOMAIN file /\ at.data = at.chunk + 1 /\ at.chunk \in Nat /\ at.pos \in Nat
  BY <1>1, <1>2 DEF PosTrue, AtTrue, AtType
<1>4. file[at.data].onDisk \in Nat
  BY <1>3, FileIs DEF RInv, RecorderInv, FilesInv
<1>5. OnDisk(answer'.m, at.data, at.pos + 1)
  BY <1>1, <1>3, <1>4 DEF OnDisk
<1>6. CASE answer.op = "prev"
  BY <1>1, <1>2, <1>6 DEF Stands, OnDisk
<1>7. CASE answer.op # "prev"
  <2>1. Behinds(answer.m)
    BY <1>1, <1>2, <1>7 DEF Stands
  <2>2. PICK f \in Nat :
           \E i \in Nat : /\ OnDisk(answer.m, f, i)
                          /\ f < at.chunk + 1 \/ (f = at.chunk + 1 /\ (at.data = Closed \/ i <= at.pos))
    BY <2>1 DEF Behinds
  <2>3. PICK i \in Nat : /\ OnDisk(answer.m, f, i)
                         /\ f < at.chunk + 1 \/ (f = at.chunk + 1 /\ (at.data = Closed \/ i <= at.pos))
    BY <2>2
  <2>4. f < at.data \/ (f = at.data /\ i < at.pos + 1)
    BY <1>1, <1>3, <2>3
  <2>5. answer.m < answer'.m
    BY <1>5, <2>3, <2>4, OnDiskOrder
  <2> QED
    BY <1>7, <2>5
<1> QED
  BY <1>6, <1>7

(* ... and before.                                                         *)
LEMMA TurnPrev ==
  ASSUME RInv, ReaderInv, ReadPrev, Known
  PROVE  IF answer.op = "prev" THEN answer'.m < answer.m ELSE answer'.m = answer.m
<1>1. /\ up = "up" /\ serving.op = "prev" /\ at.data # Closed /\ at.pos > 0
      /\ answer'.m = file[at.data].data[at.pos]
  BY DEF ReadPrev, Answer
<1>2. PosTrue /\ Stands
  BY <1>1 DEF ReaderInv
<1>3. at.data \in DOMAIN file /\ at.data = at.chunk + 1 /\ at.chunk \in Nat /\ at.pos \in Nat
  BY <1>1, <1>2 DEF PosTrue, AtTrue, AtType
<1>4. file[at.data].onDisk \in Nat /\ at.pos <= file[at.data].onDisk
  BY <1>1, <1>2, <1>3, FileIs DEF RInv, RecorderInv, FilesInv, PosTrue, Late
<1>5. OnDisk(answer'.m, at.data, at.pos)
  BY <1>1, <1>3, <1>4 DEF OnDisk
<1>6. CASE answer.op # "prev"
  BY <1>1, <1>2, <1>6 DEF Stands, OnDisk
<1>7. CASE answer.op = "prev"
  <2>1. Aheads(answer.m)
    BY <1>1, <1>2, <1>7 DEF Stands
  <2>2. PICK f \in Nat : \E i \in Nat : OnDisk(answer.m, f, i) /\ (f > at.chunk + 1 \/ (f = at.data /\ i > at.pos))
    BY <2>1 DEF Aheads
  <2>3. PICK i \in Nat : OnDisk(answer.m, f, i) /\ (f > at.chunk + 1 \/ (f = at.data /\ i > at.pos))
    BY <2>2
  <2>4. at.data < f \/ (at.data = f /\ at.pos < i)
    BY <1>3, <2>3
  <2>5. answer'.m < answer.m
    BY <1>5, <2>3, <2>4, OnDiskOrder
  <2> QED
    BY <1>7, <2>5
<1> QED
  BY <1>6, <1>7

(* The answers fit together: a next after a next is later, a prev after a  *)
(* prev earlier, and one after the other is the same message again.        *)
THEOREM AnswersInTurn == PacketsFit => (Spec => InTurn)
<1> SUFFICES ASSUME PacketsFit PROVE Spec => InTurn
  OBVIOUS
<1> DEFINE Turn ==
      LET a == answer
          b == answer'
      IN  serving # NoRequest /\ serving' = NoRequest /\ up' = "up"
          /\ a.m # None /\ (a.op = "ref" => ~a.late) =>
            /\ a.op # "prev" /\ b.op = "next" => b.m > a.m
            /\ a.op # "prev" /\ b.op = "prev" => b.m = a.m
            /\ a.op = "prev" /\ b.op = "next" => b.m = a.m
            /\ a.op = "prev" /\ b.op = "prev" => b.m < a.m
<1>1. ASSUME RInv, ReaderInv, [Next]_vars PROVE Turn
  <2> SUFFICES ASSUME serving # NoRequest, serving' = NoRequest, up' = "up", Known
               PROVE  /\ answer.op # "prev" /\ answer'.op = "next" => answer'.m > answer.m
                      /\ answer.op # "prev" /\ answer'.op = "prev" => answer'.m = answer.m
                      /\ answer.op = "prev" /\ answer'.op = "next" => answer'.m = answer.m
                      /\ answer.op = "prev" /\ answer'.op = "prev" => answer'.m < answer.m
    BY DEF Known
  <2>1. ReadNext \/ ReadPrev
    <3>1. ~(UNCHANGED serving)
      OBVIOUS
    <3>2. ~(UNCHANGED vars) /\ ~Recording /\ ~StartPlayer /\ ~PlayNext /\ ~PlayEnds /\ ~Read /\ ~Control
      BY <3>1 DEF vars, Recording, StartPlayer, PlayNext, PlayEnds, Read, Control
    <3>3. ~TakeStep /\ ~TakeRef /\ ~TakeStart /\ ~TakeStop /\ ~TakeExit
      BY DEF Takes, TakeStep, TakeRef, TakeStart, TakeStop, TakeExit
    <3>4. ~OpenNext /\ ~OpenPrev /\ ~NoPrev
      BY <3>1 DEF OpenNext, OpenPrev, NoPrev, Ends
    <3> QED
      BY <1>1, <3>2, <3>3, <3>4 DEF Next, Player
  <2>2. CASE ReadNext
    <3>1. answer'.op \in {"next", "ref"}
      BY <2>2 DEF ReadNext, Answer
    <3> QED
      BY <1>1, <2>2, <3>1, TurnNext
  <2>3. CASE ReadPrev
    <3>1. answer'.op = "prev"
      BY <2>3 DEF ReadPrev, Answer
    <3> QED
      BY <1>1, <2>3, <3>1, TurnPrev
  <2> QED
    BY <2>1, <2>2, <2>3
<1>2. RInv /\ ReaderInv /\ [Next]_vars => [Turn]_vars
  BY <1>1
<1>3. InTurn <=> [][Turn]_vars
  BY DEF InTurn
<1> HIDE DEF Turn
<1> QED
  BY <1>2, <1>3, ReaderSound, PTL DEF Spec
=============================================================================
