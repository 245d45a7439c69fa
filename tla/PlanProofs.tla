----------------------------- MODULE PlanProofs -----------------------------
(***************************************************************************)
(* A plan fits the machines it names, and no placement the planner could   *)
(* have chosen is better: proofs about the planner (MemoryNeed, Placement, *)
(* Planner) and what the coordinator asks of it (EngineStart), for every   *)
(* model, every list of machines, every window and every loss of a byte to *)
(* rounding, as composed in MCMachine.  The planner is a tower of          *)
(* recursive functions; each is followed step by step with one lemma       *)
(* (Iterated) and the property that its steps keep.                        *)
(***************************************************************************)
EXTENDS MCMachine, SequenceTheorems, FiniteSetTheorems, WellFoundedInduction, TLAPS

-----------------------------------------------------------------------------
(* Naturals, and recursive functions step by step. *)

\* A set of naturals that is not empty has a least member,
LEMMA LeastOf ==
    ASSUME NEW T, T \subseteq Nat, T # {}
    PROVE  \E m \in T : \A k \in T : m <= k
<1> DEFINE Before == {p \in Nat \X Nat : p[1] < p[2]}
<1>1. IsWellFoundedOn(Before, Nat)
  BY NatLessThanWellFounded DEF OpToRel
<1>2. PICK m \in T : \A k \in T : <<k, m>> \notin Before
  <2> HIDE DEF Before
  <2> QED BY <1>1, WFMin
<1>3. ASSUME NEW k \in T PROVE m <= k
  <2>1. k \in Nat /\ m \in Nat /\ <<k, m>> \notin Before
    BY <1>2
  <2>2. QED BY <2>1
<1>4. QED BY <1>3

\* and that is its minimum.
LEMMA LeastIsMin ==
    ASSUME NEW T, T \subseteq Nat, T # {}
    PROVE  Min(T) \in T /\ \A k \in T : Min(T) <= k
<1>1. \E a \in T : \A b \in T : a <= b
  BY LeastOf
<1>2. QED BY <1>1 DEF Min

\* What holds of the first and is handed on from each to the next holds of all.
LEMMA Rising ==
    ASSUME NEW n \in Nat, NEW f, NEW T, f[0] \in T[0],
           \A k \in 1..n : f[k - 1] \in T[k - 1] => f[k] \in T[k]
    PROVE  \A k \in 0..n : f[k] \in T[k]
<1> DEFINE Bad == {k \in 0..n : f[k] \notin T[k]}
<1>1. ASSUME Bad # {} PROVE FALSE
  <2>1. PICK k \in Bad : \A j \in Bad : k <= j
    <3>1. Bad \subseteq Nat
      OBVIOUS
    <3> HIDE DEF Bad
    <3>2. QED BY <1>1, <3>1, LeastOf
  <2>2. k \in 1..n
    BY <2>1
  <2>3. k - 1 \in 0..n /\ k - 1 \notin Bad
    BY <2>1, <2>2
  <2>4. f[k - 1] \in T[k - 1]
    BY <2>3
  <2>5. QED BY <2>1, <2>2, <2>4
<1>2. QED BY <1>1

\* A recursion over 0..n has a solution, if each step leads from what may come before to what
\* may come next.
Steps(f, n, z, G) == f = [k \in 0..n |-> IF k = 0 THEN z ELSE G[<<f[k - 1], k>>]]

\* What a step keeps holds along a recursive function of finitely many steps.
LEMMA Iterated ==
    ASSUME NEW n \in Nat, NEW z, NEW T, NEW G, z \in T[0],
           \A k \in 1..n : \A x \in T[k - 1] : G[<<x, k>>] \in T[k]
    PROVE  \E f : Steps(f, n, z, G) /\ \A k \in 0..n : f[k] \in T[k]
<1> DEFINE Good(f, k) == Steps(f, k, z, G) /\ \A j \in 0..k : f[j] \in T[j]
<1> DEFINE Bad == {k \in 0..n : ~ \E f : Good(f, k)}
<1>1. ASSUME Bad # {} PROVE FALSE
  <2>1. PICK k \in Bad : \A j \in Bad : k <= j
    <3>1. Bad \subseteq Nat
      OBVIOUS
    <3> HIDE DEF Bad
    <3>2. QED BY <1>1, <3>1, LeastOf
  <2>2. k # 0
    <3>1. Good([j \in 0..0 |-> z], 0)
      BY DEF Steps
    <3>2. QED BY <2>1, <3>1
  <2>3. k \in 1..n /\ k - 1 \in 0..n /\ k - 1 \notin Bad
    BY <2>1, <2>2
  <2>4. PICK f : Good(f, k - 1)
    BY <2>3
  <2> DEFINE g == [j \in 0..k |-> IF j = k THEN G[<<f[k - 1], k>>] ELSE f[j]]
  <2>5. \A j \in 0..(k - 1) : g[j] = f[j] /\ f[j] \in T[j]
    BY <2>3, <2>4
  <2>6. g[k] = G[<<g[k - 1], k>>] /\ g[k] \in T[k]
    <3>1. k - 1 \in 0..(k - 1) /\ k \in 0..k
      BY <2>3
    <3>2. g[k - 1] = f[k - 1] /\ f[k - 1] \in T[k - 1]
      BY <2>5, <3>1
    <3>3. g[k] = G[<<f[k - 1], k>>]
      BY <3>1
    <3> HIDE DEF g
    <3>4. QED BY <2>3, <3>2, <3>3
  <2>7. \A j \in 0..(k - 1) : f[j] = IF j = 0 THEN z ELSE G[<<f[j - 1], j>>]
    BY <2>4 DEF Steps
  <2>8. \A j \in 0..k : g[j] \in T[j] /\ g[j] = IF j = 0 THEN z ELSE G[<<g[j - 1], j>>]
    <3> HIDE DEF g
    <3>1. ASSUME NEW j \in 0..k PROVE g[j] \in T[j] /\ g[j] = IF j = 0 THEN z ELSE G[<<g[j - 1], j>>]
      <4>1. CASE j = k
        BY <2>3, <2>6, <4>1
      <4>2. CASE j # k
        <5>1. j \in 0..(k - 1) /\ (j # 0 => j - 1 \in 0..(k - 1))
          BY <2>3, <3>1, <4>2
        <5>2. QED BY <2>5, <2>7, <5>1
      <4>3. QED BY <4>1, <4>2
    <3>2. QED BY <3>1
  <2>9. g = [j \in 0..k |-> g[j]]
    OBVIOUS
  <2>10. Good(g, k)
    <3> HIDE DEF g
    <3>1. QED BY <2>8, <2>9 DEF Steps
  <2> HIDE DEF g
  <2>11. QED BY <2>1, <2>10
<1>2. n \in 0..n
  OBVIOUS
<1>3. QED BY <1>1, <1>2

-----------------------------------------------------------------------------
(* Sums over sequences. *)

\* The recursive function behind SumOver.
SumOf(s, lo) == CHOOSE f : f = [k \in 0..Len(s) |-> IF k < lo THEN 0 ELSE f[k - 1] + s[k]]

\* The sums over a sequence of numbers are numbers, each from the one before it.
LEMMA SumExists ==
    ASSUME NEW s \in Seq(Int), NEW lo \in Nat \ {0}
    PROVE  /\ SumOf(s, lo) = [k \in 0..Len(s) |-> IF k < lo THEN 0 ELSE SumOf(s, lo)[k - 1] + s[k]]
           /\ \A k \in 0..Len(s) : SumOf(s, lo)[k] \in Int
<1> DEFINE n == Len(s)
<1> DEFINE T == [k \in 0..n |-> Int]
<1> DEFINE G == [x \in Int \X (1..n) |-> IF x[2] < lo THEN 0 ELSE x[1] + s[x[2]]]
<1>1. n \in Nat /\ \A k \in 1..n : s[k] \in Int
  OBVIOUS
<1>2. \A k \in 1..n, v \in Int : G[<<v, k>>] = IF k < lo THEN 0 ELSE v + s[k]
  OBVIOUS
<1>3. \A k \in 1..n : \A v \in T[k - 1] : G[<<v, k>>] \in T[k]
  <2>1. \A k \in 1..n : T[k] = Int /\ T[k - 1] = Int
    BY <1>1
  <2>2. ASSUME NEW k \in 1..n, NEW v \in T[k - 1] PROVE G[<<v, k>>] \in T[k]
    <3>1. v \in Int /\ s[k] \in Int
      BY <1>1, <2>1
    <3>2. G[<<v, k>>] \in Int
      <4> HIDE DEF G
      <4>1. QED BY <1>2, <3>1
    <3>3. QED BY <2>1, <3>2
  <2>3. QED BY <2>2
<1>4. PICK f : Steps(f, n, 0, G) /\ \A k \in 0..n : f[k] \in T[k]
  <2>1. 0 \in T[0]
    BY <1>1
  <2> HIDE DEF T, G, n
  <2>2. QED BY <1>1, <1>3, <2>1, Iterated
<1>5. \A k \in 0..n : f[k] \in Int
  BY <1>4
<1>6. f = [k \in 0..n |-> IF k < lo THEN 0 ELSE f[k - 1] + s[k]]
  <2>1. f = [k \in 0..n |-> f[k]]
    BY <1>4 DEF Steps
  <2>2. ASSUME NEW k \in 0..n PROVE f[k] = IF k < lo THEN 0 ELSE f[k - 1] + s[k]
    <3>1. CASE k = 0
      <4>1. f[0] = 0
        BY <1>1, <1>4 DEF Steps
      <4>2. QED BY <3>1, <4>1
    <3>2. CASE k # 0
      <4>1. k \in 1..n /\ k - 1 \in 0..n
        BY <1>1, <3>2
      <4>2. f[k] = G[<<f[k - 1], k>>]
        BY <1>4, <3>2 DEF Steps
      <4>3. f[k - 1] \in Int
        BY <1>5, <4>1
      <4> HIDE DEF G
      <4>4. QED BY <1>2, <4>1, <4>2, <4>3
    <3>3. QED BY <3>1, <3>2
  <2>3. QED BY <2>1, <2>2
<1>7. SumOf(s, lo) = [k \in 0..n |-> IF k < lo THEN 0 ELSE SumOf(s, lo)[k - 1] + s[k]]
  BY <1>6, Zenon DEF SumOf
<1>8. SumOf(s, lo)[0] \in Int
  BY <1>1, <1>7
<1>9. ASSUME NEW k \in 1..n, SumOf(s, lo)[k - 1] \in Int PROVE SumOf(s, lo)[k] \in Int
  <2>1. PICK g : g = SumOf(s, lo)
    OBVIOUS
  <2>2. g[k] = IF k < lo THEN 0 ELSE g[k - 1] + s[k]
    <3>1. g = [j \in 0..n |-> IF j < lo THEN 0 ELSE g[j - 1] + s[j]]
      BY <1>7, <2>1
    <3>2. k \in 0..n
      BY <1>1
    <3> HIDE DEF n
    <3>3. QED BY <3>1, <3>2
  <2>3. QED BY <1>1, <1>9, <2>1, <2>2
<1>10. \A k \in 0..n : SumOf(s, lo)[k] \in T[k]
  <2>1. T[0] = Int /\ \A k \in 1..n : T[k] = Int /\ T[k - 1] = Int
    BY <1>1
  <2> HIDE DEF T, n
  <2>2. QED BY <1>1, <1>8, <1>9, <2>1, Rising
<1>11. QED BY <1>7, <1>10

\* A sum is nothing over nothing, and one number more at each end.
LEMMA SumIs ==
    ASSUME NEW s \in Seq(Int), NEW lo \in Nat \ {0}, NEW hi \in 0..Len(s)
    PROVE  /\ SumOver(s, lo, hi) \in Int
           /\ hi < lo => SumOver(s, lo, hi) = 0
           /\ lo <= hi => SumOver(s, lo, hi) = SumOver(s, lo, hi - 1) + s[hi]
<1>1. \A k : SumOver(s, lo, k) = SumOf(s, lo)[k]
  BY DEF SumOver, SumOf
<1>2. PICK g : g = SumOf(s, lo)
  OBVIOUS
<1>3. g[hi] \in Int /\ g[hi] = IF hi < lo THEN 0 ELSE g[hi - 1] + s[hi]
  BY <1>2, SumExists
<1>4. QED BY <1>1, <1>2, <1>3

\* What is summed from naturals is natural.
LEMMA SumIsNat ==
    ASSUME NEW s \in Seq(Nat), NEW lo \in Nat \ {0}
    PROVE  \A hi \in 0..Len(s) : SumOver(s, lo, hi) \in Nat
<1>1. s \in Seq(Int) /\ Len(s) \in Nat
  OBVIOUS
<1> DEFINE f == [k \in 0..Len(s) |-> SumOver(s, lo, k)]
<1> DEFINE T == [k \in 0..Len(s) |-> Nat]
<1>2. f[0] \in T[0]
  BY <1>1, SumIs
<1>3. ASSUME NEW k \in 1..Len(s), f[k - 1] \in T[k - 1] PROVE f[k] \in T[k]
  <2>1. k \in 0..Len(s) /\ k - 1 \in 0..Len(s) /\ s[k] \in Nat
    BY <1>1
  <2>2. SumOver(s, lo, k - 1) \in Nat
    BY <1>3, <2>1
  <2>3. SumOver(s, lo, k) \in Nat
    BY <1>1, <2>1, <2>2, SumIs
  <2>4. QED BY <2>1, <2>3
<1>4. \A k \in 0..Len(s) : f[k] \in T[k]
  <2> HIDE DEF f, T
  <2>1. QED BY <1>1, <1>2, <1>3, Rising
<1>5. QED BY <1>4

\* The sum of a sequence, its first numbers first.
LEMMA SumSeqIs ==
    ASSUME NEW s \in Seq(Int)
    PROVE  /\ SumSeq(s) \in Int /\ SumSeq(s) = SumOver(s, 1, Len(s)) /\ SumOver(s, 1, 0) = 0
           /\ \A k \in 1..Len(s) : /\ SumOver(s, 1, k - 1) \in Int
                                   /\ SumOver(s, 1, k) = SumOver(s, 1, k - 1) + s[k]
<1>1. Len(s) \in Nat
  OBVIOUS
<1>2. ASSUME NEW k \in 1..Len(s)
      PROVE  SumOver(s, 1, k - 1) \in Int /\ SumOver(s, 1, k) = SumOver(s, 1, k - 1) + s[k]
  <2>1. k \in 0..Len(s) /\ k - 1 \in 0..Len(s) /\ 1 <= k
    BY <1>1
  <2>2. QED BY <2>1, SumIs
<1>3. QED BY <1>1, <1>2, SumIs DEF SumSeq

\* Sums follow what holds of the numbers one by one.
LEMMA SumsAdd ==
    ASSUME NEW n \in Nat, NEW a \in [1..n -> Int], NEW b \in [1..n -> Int], NEW c \in [1..n -> Int],
           \A i \in 1..n : c[i] = a[i] + b[i]
    PROVE  \A k \in 0..n : SumOver(c, 1, k) = SumOver(a, 1, k) + SumOver(b, 1, k)
<1>1. a \in Seq(Int) /\ b \in Seq(Int) /\ c \in Seq(Int) /\ Len(a) = n /\ Len(b) = n /\ Len(c) = n
  OBVIOUS
<1> DEFINE f == [k \in 0..n |-> SumOver(c, 1, k)]
<1> DEFINE T == [k \in 0..n |-> {SumOver(a, 1, k) + SumOver(b, 1, k)}]
<1>2. f[0] \in T[0]
  BY <1>1, SumSeqIs
<1>3. ASSUME NEW k \in 1..n, f[k - 1] \in T[k - 1] PROVE f[k] \in T[k]
  <2>1. k \in 0..n /\ k - 1 \in 0..n /\ a[k] \in Int /\ b[k] \in Int
    OBVIOUS
  <2>2. SumOver(c, 1, k - 1) = SumOver(a, 1, k - 1) + SumOver(b, 1, k - 1)
    BY <1>3, <2>1
  <2>3. SumOver(c, 1, k) = SumOver(a, 1, k) + SumOver(b, 1, k)
    <3>1. SumOver(a, 1, k) = SumOver(a, 1, k - 1) + a[k] /\ SumOver(a, 1, k - 1) \in Int
      BY <1>1, SumSeqIs
    <3>2. SumOver(b, 1, k) = SumOver(b, 1, k - 1) + b[k] /\ SumOver(b, 1, k - 1) \in Int
      BY <1>1, SumSeqIs
    <3>3. SumOver(c, 1, k) = SumOver(c, 1, k - 1) + c[k] /\ c[k] = a[k] + b[k]
      BY <1>1, SumSeqIs
    <3>4. QED BY <2>1, <2>2, <3>1, <3>2, <3>3
  <2>4. QED BY <2>1, <2>3
<1>4. \A k \in 0..n : f[k] \in T[k]
  <2> HIDE DEF f, T
  <2>1. QED BY <1>2, <1>3, Rising
<1>5. QED BY <1>4

\* Sums of multiples are multiples of sums.
LEMMA SumsScale ==
    ASSUME NEW n \in Nat, NEW a \in [1..n -> Int], NEW d \in Int, NEW c \in [1..n -> Int],
           \A i \in 1..n : c[i] = a[i] * d
    PROVE  \A k \in 0..n : SumOver(c, 1, k) = SumOver(a, 1, k) * d
<1>1. a \in Seq(Int) /\ c \in Seq(Int) /\ Len(a) = n /\ Len(c) = n
  OBVIOUS
<1> DEFINE f == [k \in 0..n |-> SumOver(c, 1, k)]
<1> DEFINE T == [k \in 0..n |-> {SumOver(a, 1, k) * d}]
<1>2. f[0] \in T[0]
  BY <1>1, SumSeqIs
<1>3. ASSUME NEW k \in 1..n, f[k - 1] \in T[k - 1] PROVE f[k] \in T[k]
  <2>1. k \in 0..n /\ k - 1 \in 0..n /\ a[k] \in Int
    OBVIOUS
  <2>2. SumOver(c, 1, k - 1) = SumOver(a, 1, k - 1) * d
    BY <1>3, <2>1
  <2>3. \A x, y \in Int : (x + y) * d = x * d + y * d
    OBVIOUS
  <2>4. SumOver(c, 1, k) = SumOver(c, 1, k - 1) + a[k] * d /\ SumOver(a, 1, k - 1) \in Int
        /\ SumOver(a, 1, k) = SumOver(a, 1, k - 1) + a[k]
    BY <1>1, <2>1, SumSeqIs
  <2>5. SumOver(c, 1, k) = SumOver(a, 1, k) * d
    BY <2>1, <2>2, <2>3, <2>4
  <2>6. QED BY <2>1, <2>5
<1>4. \A k \in 0..n : f[k] \in T[k]
  <2> HIDE DEF f, T
  <2>1. QED BY <1>2, <1>3, Rising
<1>5. QED BY <1>4

\* A sum of what is nowhere more is no more.
LEMMA SumsGrow ==
    ASSUME NEW n \in Nat, NEW a \in [1..n -> Int], NEW b \in [1..n -> Int],
           \A i \in 1..n : a[i] <= b[i]
    PROVE  \A k \in 0..n : SumOver(a, 1, k) <= SumOver(b, 1, k)
<1>1. a \in Seq(Int) /\ b \in Seq(Int) /\ Len(a) = n /\ Len(b) = n
  OBVIOUS
<1> DEFINE f == [k \in 0..n |-> SumOver(b, 1, k) - SumOver(a, 1, k)]
<1> DEFINE T == [k \in 0..n |-> Nat]
<1>2. f[0] \in T[0]
  BY <1>1, SumSeqIs
<1>3. ASSUME NEW k \in 1..n, f[k - 1] \in T[k - 1] PROVE f[k] \in T[k]
  <2>1. k \in 0..n /\ k - 1 \in 0..n /\ a[k] \in Int /\ b[k] \in Int /\ a[k] <= b[k]
    OBVIOUS
  <2>2. SumOver(b, 1, k - 1) - SumOver(a, 1, k - 1) \in Nat
    BY <1>3, <2>1
  <2>3. SumOver(b, 1, k) - SumOver(a, 1, k) \in Nat
    <3>1. SumOver(a, 1, k) = SumOver(a, 1, k - 1) + a[k] /\ SumOver(a, 1, k - 1) \in Int
      BY <1>1, SumSeqIs
    <3>2. SumOver(b, 1, k) = SumOver(b, 1, k - 1) + b[k] /\ SumOver(b, 1, k - 1) \in Int
      BY <1>1, SumSeqIs
    <3>3. QED BY <2>1, <2>2, <3>1, <3>2
  <2>4. QED BY <2>1, <2>3
<1>4. \A k \in 0..n : f[k] \in T[k]
  <2> HIDE DEF f, T
  <2>1. QED BY <1>2, <1>3, Rising
<1>5. ASSUME NEW k \in 0..n PROVE SumOver(a, 1, k) <= SumOver(b, 1, k)
  <2>1. SumOver(a, 1, k) \in Int /\ SumOver(b, 1, k) \in Int
    BY <1>1, SumIs
  <2>2. SumOver(b, 1, k) - SumOver(a, 1, k) \in Nat
    BY <1>4
  <2>3. QED BY <2>1, <2>2
<1>6. QED BY <1>5

\* The same number everywhere, and one number among zeros.
LEMMA SumOfSame ==
    ASSUME NEW n \in Nat, NEW d \in Int, NEW a \in [1..n -> Int], \A i \in 1..n : a[i] = d
    PROVE  \A k \in 0..n : SumOver(a, 1, k) = k * d
<1>1. a \in Seq(Int) /\ Len(a) = n
  OBVIOUS
<1> DEFINE f == [k \in 0..n |-> SumOver(a, 1, k)]
<1> DEFINE T == [k \in 0..n |-> {k * d}]
<1>2. f[0] \in T[0]
  BY <1>1, SumSeqIs
<1>3. ASSUME NEW k \in 1..n, f[k - 1] \in T[k - 1] PROVE f[k] \in T[k]
  <2>1. k \in 0..n /\ k - 1 \in 0..n /\ a[k] = d
    OBVIOUS
  <2>2. SumOver(a, 1, k - 1) = (k - 1) * d
    BY <1>3, <2>1
  <2>3. (k - 1) * d + d = k * d
    BY <2>1
  <2>4. SumOver(a, 1, k) = SumOver(a, 1, k - 1) + a[k]
    BY <1>1, SumSeqIs
  <2>5. SumOver(a, 1, k) = k * d
    BY <2>1, <2>2, <2>3, <2>4
  <2>6. QED BY <2>1, <2>5
<1>4. \A k \in 0..n : f[k] \in T[k]
  <2> HIDE DEF f, T
  <2>1. QED BY <1>2, <1>3, Rising
<1>5. QED BY <1>4

\* A sum with one term is that term.
LEMMA SumOfOne ==
    ASSUME NEW n \in Nat, NEW i \in 1..n, NEW a \in [1..n -> Int],
           \A j \in 1..n : j # i => a[j] = 0
    PROVE  SumOver(a, 1, n) = a[i]
<1>1. a \in Seq(Int) /\ Len(a) = n
  OBVIOUS
<1> DEFINE f == [k \in 0..n |-> SumOver(a, 1, k)]
<1> DEFINE T == [k \in 0..n |-> {IF k < i THEN 0 ELSE a[i]}]
<1>2. f[0] \in T[0]
  BY <1>1, SumSeqIs
<1>3. ASSUME NEW k \in 1..n, f[k - 1] \in T[k - 1] PROVE f[k] \in T[k]
  <2>1. k \in 0..n /\ k - 1 \in 0..n /\ a[i] \in Int
    OBVIOUS
  <2>2. SumOver(a, 1, k - 1) = IF k - 1 < i THEN 0 ELSE a[i]
    BY <1>3, <2>1
  <2>4. SumOver(a, 1, k) = SumOver(a, 1, k - 1) + a[k]
    BY <1>1, SumSeqIs
  <2>5. SumOver(a, 1, k) = IF k < i THEN 0 ELSE a[i]
    <3>1. CASE k = i
      BY <2>1, <2>2, <2>4, <3>1
    <3>2. CASE k # i
      BY <2>1, <2>2, <2>4, <3>2
    <3>3. QED BY <3>1, <3>2
  <2>6. QED BY <2>1, <2>5
<1>4. \A k \in 0..n : f[k] \in T[k]
  <2> HIDE DEF f, T
  <2>1. QED BY <1>2, <1>3, Rising
<1>5. n \in 0..n /\ ~(n < i)
  OBVIOUS
<1>6. QED BY <1>4, <1>5

-----------------------------------------------------------------------------
(* The layers of a pipeline. *)

\* Counts of layers for n stages, one a stage at the least.
Counts(n) == {c \in [1..n -> Nat] : \A i \in 1..n : c[i] >= 1}

\* Their entries are positive.
LEMMA CountsAre ==
    ASSUME NEW n \in Nat, NEW c \in Counts(n)
    PROVE  /\ c \in [1..n -> Int] /\ c \in Seq(Int) /\ Len(c) = n /\ DOMAIN c = 1..n
           /\ \A i \in 1..n : c[i] \in Nat /\ c[i] >= 1
BY DEF Counts

\* A count changed changes the sum by as much.
LEMMA Bumped ==
    ASSUME NEW n \in Nat, NEW c \in [1..n -> Int], NEW i \in 1..n, NEW by \in Int
    PROVE  /\ Bump(c, i, by) \in [1..n -> Int] /\ Len(Bump(c, i, by)) = n
           /\ Bump(c, i, by)[i] = c[i] + by
           /\ \A j \in 1..n : j # i => Bump(c, i, by)[j] = c[j]
           /\ SumSeq(Bump(c, i, by)) = SumSeq(c) + by
           /\ SumSeq(c) \in Int
<1> DEFINE b == Bump(c, i, by)
<1> DEFINE o == [j \in 1..n |-> IF j = i THEN by ELSE 0]
<1>1. b \in [1..n -> Int] /\ Len(b) = n /\ Len(c) = n /\ c \in Seq(Int) /\ b \in Seq(Int)
  BY DEF Bump
<1>2. b[i] = c[i] + by /\ \A j \in 1..n : j # i => b[j] = c[j]
  BY DEF Bump
<1>3. o \in [1..n -> Int]
  OBVIOUS
<1>4. \A j \in 1..n : b[j] = c[j] + o[j]
  <2>1. o[i] = by /\ (\A j \in 1..n : j # i => o[j] = 0) /\ \A j \in 1..n : c[j] \in Int
    OBVIOUS
  <2> HIDE DEF b, o
  <2>2. QED BY <1>2, <2>1
<1>5. SumOver(b, 1, n) = SumOver(c, 1, n) + SumOver(o, 1, n)
  <2>1. n \in 0..n
    OBVIOUS
  <2> HIDE DEF b, o
  <2>2. QED BY <1>1, <1>3, <1>4, <2>1, SumsAdd
<1>6. SumOver(o, 1, n) = by
  <2>1. o[i] = by /\ \A j \in 1..n : j # i => o[j] = 0
    OBVIOUS
  <2> HIDE DEF o
  <2>2. QED BY <1>3, <2>1, SumOfOne
<1>7. SumSeq(b) = SumSeq(c) + by
  BY <1>1, <1>5, <1>6 DEF SumSeq
<1>8. SumSeq(c) \in Int
  BY <1>1, SumSeqIs
<1>9. QED BY <1>1, <1>2, <1>7, <1>8

\* The same, within counts.
LEMMA BumpedCounts ==
    ASSUME NEW n \in Nat, NEW c \in Counts(n), NEW i \in 1..n, NEW by \in Int, c[i] + by >= 1
    PROVE  /\ Bump(c, i, by) \in Counts(n)
           /\ Bump(c, i, by)[i] = c[i] + by
           /\ \A j \in 1..n : j # i => Bump(c, i, by)[j] = c[j]
           /\ SumSeq(Bump(c, i, by)) = SumSeq(c) + by
           /\ SumSeq(c) \in Int
<1>1. c \in [1..n -> Int] /\ \A j \in 1..n : c[j] \in Nat /\ c[j] >= 1
  BY CountsAre
<1>2. PICK b : b = Bump(c, i, by)
  OBVIOUS
<1>3. /\ b \in [1..n -> Int] /\ b[i] = c[i] + by
      /\ \A j \in 1..n : j # i => b[j] = c[j]
      /\ SumSeq(b) = SumSeq(c) + by /\ SumSeq(c) \in Int
  <2>1. c \in [1..n -> Int]
    BY <1>1
  <2>2. /\ Bump(c, i, by) \in [1..n -> Int]
        /\ Bump(c, i, by)[i] = c[i] + by
        /\ \A j \in 1..n : j # i => Bump(c, i, by)[j] = c[j]
        /\ SumSeq(Bump(c, i, by)) = SumSeq(c) + by /\ SumSeq(c) \in Int
    BY <2>1, Bumped
  <2>3. QED BY <1>2, <2>2, Zenon
<1>4. ASSUME NEW j \in 1..n PROVE b[j] \in Nat /\ b[j] >= 1
  <2>1. CASE j = i
    <3>1. b[j] = c[i] + by /\ c[i] \in Nat
      BY <1>1, <1>3, <2>1
    <3>2. QED BY <3>1
  <2>2. CASE j # i
    <3>1. b[j] = c[j]
      BY <1>3, <2>2
    <3>2. QED BY <1>1, <3>1
  <2>3. QED BY <2>1, <2>2
<1>5. b \in Counts(n)
  BY <1>3, <1>4 DEF Counts
<1>6. QED BY <1>2, <1>3, <1>5

\* A sum of counts is one of each at the least, and only that when each is one.
LEMMA CountsSum ==
    ASSUME NEW n \in Nat, NEW c \in Counts(n)
    PROVE  SumSeq(c) \in Nat /\ n <= SumSeq(c)
<1> DEFINE o == [i \in 1..n |-> 1]
<1>1. c \in [1..n -> Int] /\ c \in Seq(Int) /\ Len(c) = n /\ \A i \in 1..n : c[i] >= 1
  BY CountsAre
<1>2. o \in [1..n -> Int] /\ \A i \in 1..n : o[i] <= c[i]
  BY <1>1
<1>3. n \in 0..n
  OBVIOUS
<1>4. SumOver(o, 1, n) <= SumOver(c, 1, n)
  <2> HIDE DEF o
  <2>1. QED BY <1>1, <1>2, <1>3, SumsGrow
<1>5. SumOver(o, 1, n) = n
  <2>1. \A i \in 1..n : o[i] = 1
    OBVIOUS
  <2> HIDE DEF o
  <2>2. SumOver(o, 1, n) = n * 1
    BY <1>2, <1>3, <2>1, SumOfSame
  <2>3. n * 1 = n
    OBVIOUS
  <2>4. QED BY <2>2, <2>3
<1>6. SumSeq(c) = SumOver(c, 1, n) /\ SumSeq(c) \in Int
  BY <1>1, SumSeqIs
<1> HIDE DEF o
<1>7. QED BY <1>4, <1>5, <1>6

\* One layer a stage is as many layers as stages.
LEMMA OnesSum ==
    ASSUME NEW n \in Nat, NEW c \in Counts(n), \A i \in 1..n : c[i] = 1
    PROVE  SumSeq(c) = n
<1>1. c \in [1..n -> Int] /\ Len(c) = n /\ n \in 0..n
  BY CountsAre
<1>2. SumOver(c, 1, n) = n * 1
  BY <1>1, SumOfSame
<1>3. n * 1 = n
  OBVIOUS
<1>4. QED BY <1>1, <1>2, <1>3 DEF SumSeq

\* Every stage has a share, and one layer at the least.
LEMMA SharesAre ==
    ASSUME NEW vrams \in Seq(Nat), vrams # <<>>, NEW layers \in Nat
    PROVE  Shares(layers, vrams) \in Counts(Len(vrams))
<1> DEFINE n == Len(vrams)
<1> DEFINE w == [i \in 1..n |-> Weight(vrams[i])]
<1>1. n \in Nat /\ n >= 1 /\ DOMAIN vrams = 1..n /\ \A i \in 1..n : vrams[i] \in Nat
  OBVIOUS
<1>2. w \in Counts(n)
  BY <1>1 DEF Weight, Counts
<1>3. SumSeq(w) \in Nat /\ SumSeq(w) >= 1 /\ \A i \in 1..n : w[i] \in Nat
  <2> HIDE DEF w
  <2>1. QED BY <1>1, <1>2, CountsSum, CountsAre
<1>4. PICK s : s = SumSeq(w)
  OBVIOUS
<1>5. \A i \in 1..n : (layers * w[i]) \div s \in Int
  <2> HIDE DEF w
  <2>1. ASSUME NEW i \in 1..n PROVE (layers * w[i]) \div s \in Int
    <3>1. layers * w[i] \in Nat
      BY <1>3
    <3>2. s \in Nat /\ s >= 1
      BY <1>3, <1>4
    <3>3. QED BY <3>1, <3>2
  <2>2. QED BY <2>1
<1> DEFINE r == [i \in 1..n |-> IF (layers * w[i]) \div s < 1 THEN 1 ELSE (layers * w[i]) \div s]
<1>6. r \in Counts(n)
  <2>1. ASSUME NEW i \in 1..n
        PROVE  /\ (IF (layers * w[i]) \div s < 1 THEN 1 ELSE (layers * w[i]) \div s) \in Nat
               /\ (IF (layers * w[i]) \div s < 1 THEN 1 ELSE (layers * w[i]) \div s) >= 1
    <3>1. PICK v \in Int : v = (layers * w[i]) \div s
      BY <1>5
    <3>2. QED BY <3>1
  <2> HIDE DEF w
  <2>2. QED BY <2>1 DEF Counts
<1>7. Shares(layers, vrams) = r
  BY <1>1, <1>4 DEF Shares
<1>8. QED BY <1>6, <1>7

\* What is left over is handed out, so that no layer is missing.
HandedOf(c, over) ==
    CHOOSE f : f = [k \in 0..over |-> IF k = 0 THEN c ELSE Bump(f[k - 1], 1 + ((k - 1) % Len(c)), 1)]

\* When all that was over is handed out, the counts are enough.
LEMMA HandedOut ==
    ASSUME NEW n \in Nat \ {0}, NEW c \in Counts(n), NEW layers \in Nat
    PROVE  /\ HandOut(c, layers) \in Counts(n)
           /\ layers <= SumSeq(HandOut(c, layers))
<1>1. SumSeq(c) \in Nat /\ Len(c) = n
  BY CountsSum, CountsAre
<1>2. PICK over \in Nat : over = Floor0(layers - SumSeq(c)) /\ layers <= SumSeq(c) + over
  BY <1>1 DEF Floor0
<1> DEFINE T == [k \in 0..over |-> {d \in Counts(n) : SumSeq(d) = SumSeq(c) + k}]
<1> DEFINE G == [x \in Counts(n) \X (1..over) |-> Bump(x[1], 1 + ((x[2] - 1) % Len(c)), 1)]
<1> DEFINE h == HandedOf(c, over)
<1>3. ASSUME NEW k \in 1..over, NEW d \in T[k - 1]
      PROVE  /\ G[<<d, k>>] = Bump(d, 1 + ((k - 1) % Len(c)), 1)
             /\ Bump(d, 1 + ((k - 1) % Len(c)), 1) \in T[k]
  <2>1. d \in Counts(n) /\ SumSeq(d) = SumSeq(c) + (k - 1)
    BY <1>3
  <2>2. PICK i : i = 1 + ((k - 1) % Len(c))
    OBVIOUS
  <2>3. i \in 1..n
    BY <1>1, <2>2
  <2>4. d[i] + 1 >= 1
    BY <2>1, <2>3, CountsAre
  <2>5. Bump(d, i, 1) \in Counts(n) /\ SumSeq(Bump(d, i, 1)) = SumSeq(d) + 1
    BY <2>1, <2>3, <2>4, BumpedCounts
  <2>6. Bump(d, i, 1) \in T[k]
    BY <1>1, <2>1, <2>5
  <2>7. G[<<d, k>>] = Bump(d, 1 + ((k - 1) % Len(c)), 1)
    BY <2>1
  <2>8. QED BY <2>2, <2>6, <2>7
<1>4. c \in T[0]
  BY <1>1
<1>5. PICK f : Steps(f, over, c, G) /\ \A k \in 0..over : f[k] \in T[k]
  <2> HIDE DEF T, G
  <2>1. QED BY <1>3, <1>4, Iterated
<1>6. f = [k \in 0..over |-> IF k = 0 THEN c ELSE Bump(f[k - 1], 1 + ((k - 1) % Len(c)), 1)]
  <2>1. ASSUME NEW k \in 0..over
        PROVE  f[k] = IF k = 0 THEN c ELSE Bump(f[k - 1], 1 + ((k - 1) % Len(c)), 1)
    <3>1. f[k] = IF k = 0 THEN c ELSE G[<<f[k - 1], k>>]
      <4> HIDE DEF G, T
      <4>1. QED BY <1>5 DEF Steps
    <3>2. k # 0 => k \in 1..over /\ f[k - 1] \in T[k - 1]
      BY <1>5
    <3> HIDE DEF G, T
    <3>3. QED BY <1>3, <3>1, <3>2
  <2>2. f = [k \in 0..over |-> f[k]]
    BY <1>5 DEF Steps
  <2>3. QED BY <2>1, <2>2
<1>7. h = [k \in 0..over |-> IF k = 0 THEN c ELSE Bump(h[k - 1], 1 + ((k - 1) % Len(c)), 1)]
  BY <1>6, Zenon DEF HandedOf
<1>8. \A k \in 0..over : h[k] \in T[k]
  <2> HIDE DEF h
  <2>1. h[0] = c /\ \A k \in 1..over : h[k] = Bump(h[k - 1], 1 + ((k - 1) % Len(c)), 1)
    BY <1>7
  <2> HIDE DEF T
  <2>2. ASSUME NEW k \in 1..over, h[k - 1] \in T[k - 1] PROVE h[k] \in T[k]
    BY <1>3, <2>1, <2>2
  <2>3. QED BY <1>4, <2>1, <2>2, Rising
<1>9. HandOut(c, layers) = h[over]
  BY <1>2 DEF HandOut, HandedOf
<1>10. h[over] \in Counts(n) /\ SumSeq(h[over]) = SumSeq(c) + over
  <2> HIDE DEF h
  <2>1. over \in 0..over
    OBVIOUS
  <2>2. QED BY <1>8, <2>1
<1>11. QED BY <1>2, <1>9, <1>10

\* A round takes layers off while there are too many, one at the least.
TakenOf(c, layers) ==
    CHOOSE f : f = [k \in 0..Len(c) |-> IF k = 0 THEN c ELSE TakeOne(f[k - 1], Len(c) + 1 - k, layers)]

\* A round takes a layer at the least while there are too many, and never one too many.
LEMMA RoundTaken ==
    ASSUME NEW n \in Nat \ {0}, NEW c \in Counts(n), NEW layers \in Nat, n <= layers, layers <= SumSeq(c)
    PROVE  /\ OneRound(c, layers) \in Counts(n)
           /\ layers <= SumSeq(OneRound(c, layers))
           /\ SumSeq(OneRound(c, layers)) <= SumSeq(c)
           /\ layers < SumSeq(c) => SumSeq(OneRound(c, layers)) < SumSeq(c)
<1> DEFINE Ones(k) == layers < SumSeq(c) => \A j \in 1..n : j > n - k => c[j] = 1
<1> DEFINE T == [k \in 0..n |->
        {d \in Counts(n) : /\ layers <= SumSeq(d)
                           /\ SumSeq(d) < SumSeq(c) \/ (d = c /\ Ones(k))}]
<1> DEFINE h == TakenOf(c, layers)
<1>1. SumSeq(c) \in Nat /\ Len(c) = n
  BY CountsSum, CountsAre
<1>2. ASSUME NEW k \in 1..n, NEW d \in T[k - 1] PROVE TakeOne(d, n + 1 - k, layers) \in T[k]
  <2>1. /\ d \in Counts(n) /\ layers <= SumSeq(d)
        /\ SumSeq(d) < SumSeq(c) \/ (d = c /\ Ones(k - 1))
    <3>1. k - 1 \in 0..n
      OBVIOUS
    <3> HIDE DEF Ones
    <3>2. QED BY <1>2, <3>1
  <2>2. PICK i \in 1..n : i = n + 1 - k
    OBVIOUS
  <2>3. SumSeq(d) \in Nat /\ d[i] \in Nat /\ d[i] >= 1
    <3>1. SumSeq(d) \in Nat
      BY <2>1, CountsSum
    <3>2. d[i] \in Nat /\ d[i] >= 1
      BY <2>1, CountsAre
    <3>3. QED BY <3>1, <3>2
  <2>4. PICK b : b = TakeOne(d, i, layers)
    OBVIOUS
  <2>5. /\ b \in Counts(n) /\ layers <= SumSeq(b)
        /\ SumSeq(b) < SumSeq(c) \/ (b = c /\ Ones(k))
    <3>1. CASE SumSeq(d) > layers /\ d[i] > 1
      <4>1. b = Bump(d, i, -1)
        BY <2>4, <3>1 DEF TakeOne
      <4>2. d[i] + (-1) >= 1
        BY <2>3, <3>1
      <4>3. Bump(d, i, -1) \in Counts(n) /\ SumSeq(Bump(d, i, -1)) = SumSeq(d) + (-1)
        BY <2>1, <4>2, BumpedCounts
      <4>4. b \in Counts(n) /\ SumSeq(b) = SumSeq(d) + (-1)
        BY <4>1, <4>3
      <4> HIDE DEF Ones
      <4>5. QED BY <1>1, <2>1, <2>3, <3>1, <4>4
    <3>2. CASE ~(SumSeq(d) > layers /\ d[i] > 1)
      <4>1. b = d
        BY <2>4, <3>2 DEF TakeOne
      <4>2. CASE SumSeq(d) < SumSeq(c)
        BY <2>1, <4>1, <4>2
      <4>3. CASE d = c /\ Ones(k - 1)
        <5>1. Ones(k)
          <6>1. ASSUME layers < SumSeq(c), NEW j \in 1..n, j > n - k PROVE c[j] = 1
            <7>1. CASE j = i
              BY <1>1, <2>3, <3>2, <4>3, <6>1, <7>1
            <7>2. CASE j # i
              <8>1. j > n - (k - 1)
                BY <2>2, <6>1, <7>2
              <8>2. QED BY <4>3, <6>1, <8>1
            <7>3. QED BY <7>1, <7>2
          <6>2. QED BY <6>1
        <5> HIDE DEF Ones
        <5>2. QED BY <2>1, <4>1, <4>3, <5>1
      <4>4. QED BY <2>1, <4>2, <4>3
    <3>3. QED BY <3>1, <3>2
  <2>6. k \in 0..n
    OBVIOUS
  <2> HIDE DEF Ones
  <2>7. QED BY <2>2, <2>4, <2>5, <2>6
<1>3. c \in T[0] /\ n \in Nat /\ \A k \in 0..n : T[k] \subseteq Counts(n)
  <2>1. Ones(0)
    OBVIOUS
  <2> HIDE DEF Ones
  <2>2. QED BY <2>1
<1> DEFINE G == [y \in Counts(n) \X (1..n) |-> TakeOne(y[1], n + 1 - y[2], layers)]
<1>4. \A k \in 1..n : \A d \in T[k - 1] : G[<<d, k>>] = TakeOne(d, n + 1 - k, layers) /\ G[<<d, k>>] \in T[k]
  <2>1. ASSUME NEW k \in 1..n, NEW d \in T[k - 1]
        PROVE  G[<<d, k>>] = TakeOne(d, n + 1 - k, layers) /\ G[<<d, k>>] \in T[k]
    <3>1. d \in Counts(n)
      <4>1. k - 1 \in 0..n
        BY <1>3
      <4> HIDE DEF T, G, Ones
      <4>2. QED BY <1>3, <4>1
    <3>2. <<d, k>> \in Counts(n) \X (1..n)
      BY <3>1
    <3>3. G[<<d, k>>] = TakeOne(d, n + 1 - k, layers)
      <4> HIDE DEF T, Ones
      <4>1. QED BY <3>2
    <3>4. TakeOne(d, n + 1 - k, layers) \in T[k]
      BY <1>2
    <3> HIDE DEF T, G, Ones
    <3>5. QED BY <3>3, <3>4
  <2> HIDE DEF T, G, Ones
  <2>2. QED BY <2>1
<1>5. PICK f : Steps(f, n, c, G) /\ \A k \in 0..n : f[k] \in T[k]
  <2> HIDE DEF T, G, Ones
  <2>1. \A k \in 1..n : \A d \in T[k - 1] : G[<<d, k>>] \in T[k]
    BY <1>4
  <2>2. n \in Nat /\ c \in T[0]
    BY <1>3
  <2>3. QED BY <2>1, <2>2, Iterated
<1>6. f = [k \in 0..n |-> IF k = 0 THEN c ELSE TakeOne(f[k - 1], n + 1 - k, layers)]
  <2>1. ASSUME NEW k \in 0..n, k # 0 PROVE G[<<f[k - 1], k>>] = TakeOne(f[k - 1], n + 1 - k, layers)
    <3>1. k \in 1..n /\ k - 1 \in 0..n
      BY <1>3, <2>1
    <3>2. f[k - 1] \in T[k - 1]
      BY <1>5, <3>1
    <3> HIDE DEF T, G, Ones
    <3>3. QED BY <1>4, <3>1, <3>2
  <2> HIDE DEF T, G, Ones
  <2>2. [k \in 0..n |-> IF k = 0 THEN c ELSE G[<<f[k - 1], k>>]]
        = [k \in 0..n |-> IF k = 0 THEN c ELSE TakeOne(f[k - 1], n + 1 - k, layers)]
    BY <2>1
  <2>3. QED BY <1>5, <2>2, Zenon DEF Steps
<1>7. h = [k \in 0..n |-> IF k = 0 THEN c ELSE TakeOne(h[k - 1], n + 1 - k, layers)]
  BY <1>1, <1>6, Zenon DEF TakenOf
<1>8. h[0] = c /\ \A k \in 1..n : h[k] = TakeOne(h[k - 1], n + 1 - k, layers)
  <2>1. PICK g : g = h
    OBVIOUS
  <2>2. g = [k \in 0..n |-> IF k = 0 THEN c ELSE TakeOne(g[k - 1], n + 1 - k, layers)]
    BY <1>7, <2>1
  <2>3. 0 \in 0..n /\ \A k \in 1..n : k \in 0..n /\ k # 0
    BY <1>3
  <2> HIDE DEF T, G, Ones
  <2>4. g[0] = c /\ \A k \in 1..n : g[k] = TakeOne(g[k - 1], n + 1 - k, layers)
    BY <2>2, <2>3
  <2>5. QED BY <2>1, <2>4, Zenon
<1>9. \A k \in 0..n : h[k] \in T[k]
  <2>1. PICK g : g = h
    OBVIOUS
  <2>2. ASSUME NEW k \in 1..n, g[k - 1] \in T[k - 1] PROVE g[k] \in T[k]
    <3>1. g[k] = TakeOne(g[k - 1], n + 1 - k, layers)
      BY <1>8, <2>1
    <3>2. TakeOne(g[k - 1], n + 1 - k, layers) \in T[k]
      BY <1>2, <2>2
    <3> HIDE DEF T, G, Ones
    <3>3. QED BY <3>1, <3>2
  <2>3. g[0] \in T[0]
    <3> HIDE DEF T, G, Ones
    <3>1. QED BY <1>3, <1>8, <2>1
  <2> HIDE DEF T, G, Ones
  <2>4. \A k \in 0..n : g[k] \in T[k]
    BY <1>3, <2>2, <2>3, Rising
  <2>5. QED BY <2>1, <2>4
<1>10. OneRound(c, layers) = h[n]
  BY <1>1 DEF OneRound, TakenOf
<1>11. /\ h[n] \in Counts(n) /\ layers <= SumSeq(h[n])
       /\ SumSeq(h[n]) < SumSeq(c) \/ (h[n] = c /\ Ones(n))
  <2>1. n \in 0..n
    OBVIOUS
  <2>2. PICK b : b = h[n]
    OBVIOUS
  <2>3. b \in T[n]
    BY <1>9, <2>1, <2>2
  <2> HIDE DEF h, Ones
  <2>4. b \in Counts(n) /\ layers <= SumSeq(b) /\ (SumSeq(b) < SumSeq(c) \/ (b = c /\ Ones(n)))
    BY <2>1, <2>3
  <2>5. QED BY <2>2, <2>4
<1>12. Ones(n) => ~(layers < SumSeq(c))
  <2>1. ASSUME Ones(n), layers < SumSeq(c) PROVE FALSE
    <3>1. \A j \in 1..n : c[j] = 1
      BY <2>1
    <3>2. SumSeq(c) = n
      BY <3>1, OnesSum
    <3>3. QED BY <2>1, <3>2
  <2>2. QED BY <2>1
<1>13. PICK b : b = OneRound(c, layers)
  OBVIOUS
<1> HIDE DEF h, Ones
<1>14. SumSeq(b) \in Nat
  BY <1>10, <1>11, <1>13, CountsSum
<1>15. QED BY <1>1, <1>10, <1>11, <1>12, <1>13, <1>14

\* Rounds go on until no layer is too many.
ClawedOf(c, layers, over) ==
    CHOOSE f : f = [k \in 0..over |-> IF k = 0 THEN c ELSE OneRound(f[k - 1], layers)]

\* What is clawed back leaves as many layers as there are.
LEMMA ClawedBack ==
    ASSUME NEW n \in Nat \ {0}, NEW c \in Counts(n), NEW layers \in Nat, n <= layers, layers <= SumSeq(c)
    PROVE  /\ ClawBack(c, layers) \in Counts(n)
           /\ SumSeq(ClawBack(c, layers)) = layers
<1>1. SumSeq(c) \in Nat
  BY CountsSum
<1>2. PICK over \in Nat : over = Floor0(SumSeq(c) - layers) /\ SumSeq(c) = layers + over
  BY <1>1 DEF Floor0
<1> DEFINE T == [k \in 0..over |->
        {d \in Counts(n) : layers <= SumSeq(d) /\ (SumSeq(d) = layers \/ SumSeq(d) <= SumSeq(c) - k)}]
<1> DEFINE h == ClawedOf(c, layers, over)
<1>3. ASSUME NEW k \in 1..over, NEW d \in T[k - 1] PROVE OneRound(d, layers) \in T[k]
  <2>1. d \in Counts(n) /\ layers <= SumSeq(d) /\ (SumSeq(d) = layers \/ SumSeq(d) <= SumSeq(c) - (k - 1))
    BY <1>3
  <2>2. PICK b : b = OneRound(d, layers)
    OBVIOUS
  <2>3. /\ b \in Counts(n) /\ layers <= SumSeq(b) /\ SumSeq(b) <= SumSeq(d)
        /\ layers < SumSeq(d) => SumSeq(b) < SumSeq(d)
    BY <2>1, <2>2, RoundTaken
  <2>4. SumSeq(d) \in Nat /\ SumSeq(b) \in Nat
    <3>1. SumSeq(d) \in Nat
      BY <2>1, CountsSum
    <3>2. SumSeq(b) \in Nat
      BY <2>3, CountsSum
    <3>3. QED BY <3>1, <3>2
  <2>5. SumSeq(b) = layers \/ SumSeq(b) <= SumSeq(c) - k
    BY <1>1, <2>1, <2>3, <2>4
  <2>6. k \in 0..over
    OBVIOUS
  <2>7. QED BY <2>2, <2>3, <2>5, <2>6
<1>4. c \in T[0] /\ over \in Nat /\ \A k \in 0..over : T[k] \subseteq Counts(n)
  BY <1>1
<1> DEFINE G == [y \in Counts(n) \X (1..over) |-> OneRound(y[1], layers)]
<1>5. \A k \in 1..over : \A d \in T[k - 1] : G[<<d, k>>] = OneRound(d, layers) /\ G[<<d, k>>] \in T[k]
  <2>1. ASSUME NEW k \in 1..over, NEW d \in T[k - 1]
        PROVE  G[<<d, k>>] = OneRound(d, layers) /\ G[<<d, k>>] \in T[k]
    <3>1. d \in Counts(n)
      <4>1. k - 1 \in 0..over
        BY <1>4
      <4> HIDE DEF T, G
      <4>2. QED BY <1>4, <4>1
    <3>2. <<d, k>> \in Counts(n) \X (1..over)
      BY <3>1
    <3>3. G[<<d, k>>] = OneRound(d, layers)
      <4> HIDE DEF T
      <4>1. QED BY <3>2
    <3>4. OneRound(d, layers) \in T[k]
      BY <1>3
    <3> HIDE DEF T, G
    <3>5. QED BY <3>3, <3>4
  <2> HIDE DEF T, G
  <2>2. QED BY <2>1
<1>6. PICK f : Steps(f, over, c, G) /\ \A k \in 0..over : f[k] \in T[k]
  <2> HIDE DEF T, G
  <2>1. \A k \in 1..over : \A d \in T[k - 1] : G[<<d, k>>] \in T[k]
    BY <1>5
  <2>2. over \in Nat /\ c \in T[0]
    BY <1>4
  <2>3. QED BY <2>1, <2>2, Iterated
<1>7. f = [k \in 0..over |-> IF k = 0 THEN c ELSE OneRound(f[k - 1], layers)]
  <2>1. ASSUME NEW k \in 0..over, k # 0 PROVE G[<<f[k - 1], k>>] = OneRound(f[k - 1], layers)
    <3>1. k \in 1..over /\ k - 1 \in 0..over
      BY <1>4, <2>1
    <3>2. f[k - 1] \in T[k - 1]
      BY <1>6, <3>1
    <3> HIDE DEF T, G
    <3>3. QED BY <1>5, <3>1, <3>2
  <2> HIDE DEF T, G
  <2>2. [k \in 0..over |-> IF k = 0 THEN c ELSE G[<<f[k - 1], k>>]]
        = [k \in 0..over |-> IF k = 0 THEN c ELSE OneRound(f[k - 1], layers)]
    BY <2>1
  <2>3. QED BY <1>6, <2>2, Zenon DEF Steps
<1>8. h = [k \in 0..over |-> IF k = 0 THEN c ELSE OneRound(h[k - 1], layers)]
  BY <1>7, Zenon DEF ClawedOf
<1>9. h[0] = c /\ \A k \in 1..over : h[k] = OneRound(h[k - 1], layers)
  <2>1. PICK g : g = h
    OBVIOUS
  <2>2. g = [k \in 0..over |-> IF k = 0 THEN c ELSE OneRound(g[k - 1], layers)]
    BY <1>8, <2>1
  <2>3. 0 \in 0..over /\ \A k \in 1..over : k \in 0..over /\ k # 0
    BY <1>4
  <2> HIDE DEF T, G
  <2>4. g[0] = c /\ \A k \in 1..over : g[k] = OneRound(g[k - 1], layers)
    BY <2>2, <2>3
  <2>5. QED BY <2>1, <2>4, Zenon
<1>10. \A k \in 0..over : h[k] \in T[k]
  <2>1. PICK g : g = h
    OBVIOUS
  <2>2. ASSUME NEW k \in 1..over, g[k - 1] \in T[k - 1] PROVE g[k] \in T[k]
    <3>1. g[k] = OneRound(g[k - 1], layers)
      BY <1>9, <2>1
    <3>2. OneRound(g[k - 1], layers) \in T[k]
      BY <1>3, <2>2
    <3> HIDE DEF T, G
    <3>3. QED BY <3>1, <3>2
  <2>3. g[0] \in T[0]
    <3> HIDE DEF T, G
    <3>1. QED BY <1>4, <1>9, <2>1
  <2> HIDE DEF T, G
  <2>4. \A k \in 0..over : g[k] \in T[k]
    BY <1>4, <2>2, <2>3, Rising
  <2>5. QED BY <2>1, <2>4
<1>11. ClawBack(c, layers) = h[over]
  BY <1>2 DEF ClawBack, ClawedOf
<1>12. PICK b : b = h[over]
  OBVIOUS
<1>13. b \in Counts(n) /\ layers <= SumSeq(b) /\ (SumSeq(b) = layers \/ SumSeq(b) <= SumSeq(c) - over)
  <2>1. over \in 0..over
    OBVIOUS
  <2>2. b \in T[over]
    BY <1>10, <1>12, <2>1
  <2> HIDE DEF h
  <2>3. QED BY <2>1, <2>2
<1>14. SumSeq(b) \in Nat
  BY <1>13, CountsSum
<1> HIDE DEF h, T
<1>15. SumSeq(b) = layers
  <2>1. PICK x \in Nat, y \in Nat : x = SumSeq(b) /\ y = SumSeq(c)
    BY <1>1, <1>14
  <2>2. layers <= x /\ (x = layers \/ x <= y - over) /\ y = layers + over
    BY <1>2, <1>13, <2>1
  <2>3. QED BY <2>1, <2>2
<1>16. ClawBack(c, layers) = b
  BY <1>11, <1>12
<1>17. QED BY <1>13, <1>15, <1>16

\* What holds of two counts one by one holds of their sums, and strictly when one is strict.
LEMMA CountsGrow ==
    ASSUME NEW n \in Nat \ {0}, NEW a \in Counts(n), NEW b \in Counts(n), NEW i \in 1..n,
           \A j \in 1..n : j # i => a[j] <= b[j], a[i] < b[i]
    PROVE  SumSeq(a) < SumSeq(b)
<1>1. /\ a \in [1..n -> Int] /\ b \in [1..n -> Int] /\ Len(a) = n /\ Len(b) = n
      /\ \A j \in 1..n : a[j] \in Nat /\ b[j] \in Nat /\ a[j] >= 1
  BY CountsAre
<1>2. PICK d : d = Bump(a, i, 1)
  OBVIOUS
<1>3. a[i] + 1 >= 1
  BY <1>1
<1>4. /\ Bump(a, i, 1) \in Counts(n) /\ Bump(a, i, 1)[i] = a[i] + 1
      /\ \A j \in 1..n : j # i => Bump(a, i, 1)[j] = a[j]
      /\ SumSeq(Bump(a, i, 1)) = SumSeq(a) + 1 /\ SumSeq(a) \in Int
  BY <1>3, BumpedCounts
<1>5. /\ d \in Counts(n) /\ d[i] = a[i] + 1
      /\ \A j \in 1..n : j # i => d[j] = a[j]
      /\ SumSeq(d) = SumSeq(a) + 1 /\ SumSeq(a) \in Int
  BY <1>2, <1>4, Zenon
<1>6. d \in [1..n -> Int] /\ Len(d) = n
  BY <1>5, CountsAre
<1>7. ASSUME NEW j \in 1..n PROVE d[j] <= b[j]
  <2>1. CASE j = i
    BY <1>1, <1>5, <2>1
  <2>2. CASE j # i
    BY <1>1, <1>5, <2>2
  <2>3. QED BY <2>1, <2>2
<1>8. n \in 0..n
  OBVIOUS
<1>9. SumOver(d, 1, n) <= SumOver(b, 1, n)
  BY <1>1, <1>6, <1>7, <1>8, SumsGrow
<1>10. SumSeq(d) <= SumSeq(b)
  BY <1>1, <1>6, <1>9 DEF SumSeq
<1>11. SumSeq(b) \in Int
  BY <1>1, CountsSum
<1>12. QED BY <1>5, <1>10, <1>11

\* A layer moved from a stage that is over its capacity.
Moved(n, c, caps, i, d) ==
    /\ d \in Counts(n) /\ SumSeq(d) = SumSeq(c)
    /\ \A j \in 1..n : j # i /\ c[j] <= caps[j] => d[j] <= caps[j]
    /\ c[i] <= caps[i] => d = c
    /\ \/ d = c /\ (c[i] <= caps[i] \/ \A j \in 1..n : j # i => caps[j] <= c[j])
       \/ d[i] = c[i] - 1

\* One layer moves off a stage that is over its capacity, or every other stage is full.
LEMMA OneMoved ==
    ASSUME NEW n \in Nat \ {0}, NEW c \in Counts(n), NEW caps \in Counts(n), NEW i \in 1..n
    PROVE  Moved(n, c, caps, i, MoveOne(c, caps, i))
<1> DEFINE free == {j \in DOMAIN c : j # i /\ c[j] < caps[j]}
<1>1. /\ DOMAIN c = 1..n /\ SumSeq(c) \in Nat
      /\ \A j \in 1..n : c[j] \in Nat /\ c[j] >= 1 /\ caps[j] \in Nat /\ caps[j] >= 1
  <2>1. DOMAIN c = 1..n /\ \A j \in 1..n : c[j] \in Nat /\ c[j] >= 1
    BY CountsAre
  <2>2. \A j \in 1..n : caps[j] \in Nat /\ caps[j] >= 1
    BY CountsAre
  <2>3. SumSeq(c) \in Nat
    BY CountsSum
  <2>4. QED BY <2>1, <2>2, <2>3
<1>2. PICK d : d = MoveOne(c, caps, i)
  OBVIOUS
<1>3. CASE c[i] > caps[i] /\ free # {}
  <2>1. PICK m : m = Min(free)
    OBVIOUS
  <2>2. m \in 1..n /\ m # i /\ c[m] < caps[m]
    <3>1. free \subseteq Nat /\ free # {}
      BY <1>1, <1>3
    <3>2. Min(free) \in free
      <4> HIDE DEF free
      <4>1. QED BY <3>1, LeastIsMin
    <3>4. m \in free
      BY <2>1, <3>2
    <3>5. QED BY <1>1, <3>4
  <2>3. PICK b : b = Bump(c, m, 1)
    OBVIOUS
  <2>4. c[m] + 1 >= 1
    BY <1>1, <2>2
  <2>5. /\ Bump(c, m, 1) \in Counts(n) /\ Bump(c, m, 1)[m] = c[m] + 1
        /\ \A j \in 1..n : j # m => Bump(c, m, 1)[j] = c[j]
        /\ SumSeq(Bump(c, m, 1)) = SumSeq(c) + 1
    BY <2>2, <2>4, BumpedCounts
  <2>6. /\ b \in Counts(n) /\ b[m] = c[m] + 1 /\ (\A j \in 1..n : j # m => b[j] = c[j])
        /\ SumSeq(b) = SumSeq(c) + 1
    BY <2>3, <2>5, Zenon
  <2>7. b[i] = c[i]
    BY <2>2, <2>6
  <2>8. b[i] + (-1) >= 1
    BY <1>1, <1>3, <2>7
  <2>9. /\ Bump(b, i, -1) \in Counts(n) /\ Bump(b, i, -1)[i] = b[i] + (-1)
        /\ \A j \in 1..n : j # i => Bump(b, i, -1)[j] = b[j]
        /\ SumSeq(Bump(b, i, -1)) = SumSeq(b) + (-1)
    BY <2>6, <2>8, BumpedCounts
  <2>10. d = Bump(b, i, -1)
    BY <1>2, <1>3, <2>1, <2>3 DEF MoveOne
  <2>11. /\ d \in Counts(n) /\ d[i] = b[i] + (-1) /\ (\A j \in 1..n : j # i => d[j] = b[j])
         /\ SumSeq(d) = SumSeq(b) + (-1)
    BY <2>9, <2>10, Zenon
  <2>12. d[i] = c[i] - 1 /\ SumSeq(d) = SumSeq(c)
    BY <1>1, <2>6, <2>7, <2>11
  <2>13. ASSUME NEW j \in 1..n, j # i, c[j] <= caps[j] PROVE d[j] <= caps[j]
    <3>1. d[j] = b[j]
      BY <2>11, <2>13
    <3>2. CASE j = m
      BY <1>1, <2>2, <2>6, <3>1, <3>2
    <3>3. CASE j # m
      BY <2>6, <2>13, <3>1, <3>3
    <3>4. QED BY <3>2, <3>3
  <2>14. ~(c[i] <= caps[i])
    BY <1>1, <1>3
  <2>15. QED BY <1>2, <2>11, <2>12, <2>13, <2>14 DEF Moved
<1>4. CASE ~(c[i] > caps[i] /\ free # {})
  <2>1. d = c
    BY <1>2, <1>4 DEF MoveOne
  <2>2. c[i] <= caps[i] \/ \A j \in 1..n : j # i => caps[j] <= c[j]
    <3>1. CASE free = {}
      <4>1. ASSUME NEW j \in 1..n, j # i PROVE caps[j] <= c[j]
        <5>1. ~(c[j] < caps[j])
          BY <1>1, <3>1, <4>1
        <5>2. QED BY <1>1, <5>1
      <4>2. QED BY <4>1
    <3>2. CASE ~(c[i] > caps[i])
      BY <1>1, <3>2
    <3>3. QED BY <1>4, <3>1, <3>2
  <2>3. QED BY <1>2, <2>1, <2>2 DEF Moved
<1>5. QED BY <1>3, <1>4

\* A stage over its capacity gives layers away until it is not, or nobody has room.
EasedOf(c, caps, i) ==
    CHOOSE f : f = [k \in 0..c[i] |-> IF k = 0 THEN c ELSE MoveOne(f[k - 1], caps, i)]

\* A stage that is over its capacity is relieved when the capacities suffice together.
LEMMA Relieved ==
    ASSUME NEW n \in Nat \ {0}, NEW c \in Counts(n), NEW caps \in Counts(n), NEW i \in 1..n
    PROVE  LET d == Relieve(c, caps, i)
           IN  /\ d \in Counts(n) /\ SumSeq(d) = SumSeq(c)
               /\ \A j \in 1..n : j # i /\ c[j] <= caps[j] => d[j] <= caps[j]
               /\ SumSeq(c) <= SumSeq(caps) => d[i] <= caps[i]
<1> DEFINE Full(d) == \A j \in 1..n : j # i => caps[j] <= d[j]
<1> DEFINE Kept(d) == \A j \in 1..n : j # i /\ c[j] <= caps[j] => d[j] <= caps[j]
<1>1. PICK N \in Nat : N = c[i]
  BY CountsAre
<1> DEFINE T == [k \in 0..N |->
        {d \in Counts(n) : /\ SumSeq(d) = SumSeq(c) /\ Kept(d)
                           /\ d[i] <= caps[i] \/ d[i] <= N - k \/ Full(d)}]
<1> DEFINE h == EasedOf(c, caps, i)
<1>2. ASSUME NEW k \in 1..N, NEW d \in T[k - 1] PROVE MoveOne(d, caps, i) \in T[k]
  <2>1. /\ d \in Counts(n) /\ SumSeq(d) = SumSeq(c) /\ Kept(d)
        /\ d[i] <= caps[i] \/ d[i] <= N - (k - 1) \/ Full(d)
    <3>1. k - 1 \in 0..N
      OBVIOUS
    <3> HIDE DEF Kept, Full
    <3>2. QED BY <1>2, <3>1
  <2>2. PICK b : b = MoveOne(d, caps, i)
    OBVIOUS
  <2>3. /\ b \in Counts(n) /\ SumSeq(b) = SumSeq(d)
        /\ \A j \in 1..n : j # i /\ d[j] <= caps[j] => b[j] <= caps[j]
        /\ d[i] <= caps[i] => b = d
        /\ \/ b = d /\ (d[i] <= caps[i] \/ \A j \in 1..n : j # i => caps[j] <= d[j])
           \/ b[i] = d[i] - 1
    <3>1. d \in Counts(n)
      BY <2>1
    <3>2. Moved(n, d, caps, i, MoveOne(d, caps, i))
      <4> HIDE DEF T, Kept, Full
      <4>1. QED BY <3>1, OneMoved
    <3>3. QED BY <2>2, <3>2, Zenon DEF Moved
  <2>4. Kept(b)
    BY <2>1, <2>3
  <2>5. d[i] \in Nat /\ caps[i] \in Nat
    BY <2>1, CountsAre
  <2>6. b[i] <= caps[i] \/ b[i] <= N - k \/ Full(b)
    <3>1. CASE d[i] <= caps[i]
      BY <2>3, <3>1
    <3>2. CASE b = d /\ ~(d[i] <= caps[i])
      <4>1. Full(b)
        BY <2>3, <2>5, <3>2
      <4>2. QED BY <4>1
    <3>3. CASE b # d /\ ~(d[i] <= caps[i])
      <4>1. b[i] = d[i] - 1
        BY <2>3, <3>3
      <4>2. CASE d[i] <= N - (k - 1)
        <5> HIDE DEF Full, Kept
        <5>1. QED BY <2>5, <4>1, <4>2
      <4>3. CASE Full(d)
        <5>1. SumSeq(b) = SumSeq(d) /\ b \in Counts(n)
          BY <2>3
        <5>2. PICK m : m = MoveOne(d, caps, i)
          OBVIOUS
        <5>3. {j \in DOMAIN d : j # i /\ d[j] < caps[j]} = {}
          <6>1. DOMAIN d = 1..n /\ (\A j \in 1..n : d[j] \in Nat) /\ \A j \in 1..n : caps[j] \in Nat
            BY <2>1, CountsAre
          <6>2. ASSUME NEW j \in 1..n, j # i PROVE ~(d[j] < caps[j])
            <7>1. caps[j] <= d[j]
              BY <4>3, <6>2
            <7>2. QED BY <6>1, <7>1
          <6>3. QED BY <6>1, <6>2
        <5>4. b = d
          BY <2>2, <5>3 DEF MoveOne
        <5>5. QED BY <3>3, <5>4
      <4>4. QED BY <2>1, <3>3, <4>2, <4>3
    <3>4. QED BY <3>1, <3>2, <3>3
  <2>7. k \in 0..N
    OBVIOUS
  <2> HIDE DEF Kept, Full
  <2>8. QED BY <2>1, <2>2, <2>3, <2>4, <2>6, <2>7
<1>3. c \in T[0] /\ N \in Nat /\ \A k \in 0..N : T[k] \subseteq Counts(n)
  <2>1. Kept(c) /\ c[i] <= N - 0
    BY <1>1
  <2> HIDE DEF Kept, Full
  <2>2. QED BY <2>1
<1> DEFINE G == [y \in Counts(n) \X (1..N) |-> MoveOne(y[1], caps, i)]
<1>4. \A k \in 1..N : \A d \in T[k - 1] : G[<<d, k>>] = MoveOne(d, caps, i) /\ G[<<d, k>>] \in T[k]
  <2>1. ASSUME NEW k \in 1..N, NEW d \in T[k - 1]
        PROVE  G[<<d, k>>] = MoveOne(d, caps, i) /\ G[<<d, k>>] \in T[k]
    <3>1. d \in Counts(n)
      <4>1. k - 1 \in 0..N
        BY <1>3
      <4> HIDE DEF T, G, Kept, Full
      <4>2. QED BY <1>3, <4>1
    <3>2. <<d, k>> \in Counts(n) \X (1..N)
      BY <3>1
    <3>3. G[<<d, k>>] = MoveOne(d, caps, i)
      <4> HIDE DEF T, Kept, Full
      <4>1. QED BY <3>2
    <3>4. MoveOne(d, caps, i) \in T[k]
      BY <1>2
    <3> HIDE DEF T, G, Kept, Full
    <3>5. QED BY <3>3, <3>4
  <2> HIDE DEF T, G, Kept, Full
  <2>2. QED BY <2>1
<1>5. PICK f : Steps(f, N, c, G) /\ \A k \in 0..N : f[k] \in T[k]
  <2> HIDE DEF T, G, Kept, Full
  <2>1. \A k \in 1..N : \A d \in T[k - 1] : G[<<d, k>>] \in T[k]
    BY <1>4
  <2>2. N \in Nat /\ c \in T[0]
    BY <1>3
  <2>3. QED BY <2>1, <2>2, Iterated
<1>6. f = [k \in 0..N |-> IF k = 0 THEN c ELSE MoveOne(f[k - 1], caps, i)]
  <2>1. ASSUME NEW k \in 0..N, k # 0 PROVE G[<<f[k - 1], k>>] = MoveOne(f[k - 1], caps, i)
    <3>1. k \in 1..N /\ k - 1 \in 0..N
      BY <1>3, <2>1
    <3>2. f[k - 1] \in T[k - 1]
      BY <1>5, <3>1
    <3> HIDE DEF T, G, Kept, Full
    <3>3. QED BY <1>4, <3>1, <3>2
  <2> HIDE DEF T, G, Kept, Full
  <2>2. [k \in 0..N |-> IF k = 0 THEN c ELSE G[<<f[k - 1], k>>]]
        = [k \in 0..N |-> IF k = 0 THEN c ELSE MoveOne(f[k - 1], caps, i)]
    BY <2>1
  <2>3. QED BY <1>5, <2>2, Zenon DEF Steps
<1>7. h = [k \in 0..N |-> IF k = 0 THEN c ELSE MoveOne(h[k - 1], caps, i)]
  BY <1>1, <1>6, Zenon DEF EasedOf
<1>8. h[0] = c /\ \A k \in 1..N : h[k] = MoveOne(h[k - 1], caps, i)
  <2>1. PICK g : g = h
    OBVIOUS
  <2>2. g = [k \in 0..N |-> IF k = 0 THEN c ELSE MoveOne(g[k - 1], caps, i)]
    BY <1>7, <2>1
  <2>3. 0 \in 0..N /\ \A k \in 1..N : k \in 0..N /\ k # 0
    BY <1>3
  <2> HIDE DEF T, G, Kept, Full
  <2>4. g[0] = c /\ \A k \in 1..N : g[k] = MoveOne(g[k - 1], caps, i)
    BY <2>2, <2>3
  <2>5. QED BY <2>1, <2>4, Zenon
<1>9. \A k \in 0..N : h[k] \in T[k]
  <2>1. PICK g : g = h
    OBVIOUS
  <2>2. ASSUME NEW k \in 1..N, g[k - 1] \in T[k - 1] PROVE g[k] \in T[k]
    <3>1. g[k] = MoveOne(g[k - 1], caps, i)
      BY <1>8, <2>1
    <3>2. MoveOne(g[k - 1], caps, i) \in T[k]
      BY <1>2, <2>2
    <3> HIDE DEF T, G, Kept, Full
    <3>3. QED BY <3>1, <3>2
  <2>3. g[0] \in T[0]
    <3> HIDE DEF T, G, Kept, Full
    <3>1. QED BY <1>3, <1>8, <2>1
  <2> HIDE DEF T, G, Kept, Full
  <2>4. \A k \in 0..N : g[k] \in T[k]
    BY <1>3, <2>2, <2>3, Rising
  <2>5. QED BY <2>1, <2>4
<1>10. Relieve(c, caps, i) = h[N]
  BY <1>1 DEF Relieve, EasedOf
<1>11. PICK d : d = h[N]
  OBVIOUS
<1>12. /\ d \in Counts(n) /\ SumSeq(d) = SumSeq(c) /\ Kept(d)
       /\ d[i] <= caps[i] \/ d[i] <= N - N \/ Full(d)
  <2>1. N \in 0..N
    OBVIOUS
  <2>2. d \in T[N]
    BY <1>9, <1>11, <2>1
  <2> HIDE DEF h, Kept, Full
  <2>3. QED BY <2>1, <2>2
<1>13. SumSeq(c) <= SumSeq(caps) => d[i] <= caps[i]
  <2>1. ASSUME SumSeq(c) <= SumSeq(caps), ~(d[i] <= caps[i]) PROVE FALSE
    <3>1. d[i] \in Nat /\ d[i] >= 1 /\ caps[i] \in Nat
      BY <1>12, CountsAre
    <3>2. Full(d)
      <4> HIDE DEF Full, Kept
      <4>1. ~(d[i] <= N - N)
        BY <3>1
      <4>2. QED BY <1>12, <2>1, <4>1
    <3>3. caps[i] < d[i]
      BY <2>1, <3>1
    <3>4. SumSeq(caps) < SumSeq(d)
      <4>1. \A j \in 1..n : j # i => caps[j] <= d[j]
        BY <3>2
      <4>2. d \in Counts(n)
        BY <1>12
      <4>3. QED BY <3>3, <4>1, <4>2, CountsGrow
    <3>5. SumSeq(caps) \in Nat /\ SumSeq(c) \in Nat
      <4>1. SumSeq(caps) \in Nat
        BY CountsSum
      <4>2. SumSeq(c) \in Nat
        BY CountsSum
      <4>3. QED BY <4>1, <4>2
    <3>6. SumSeq(d) = SumSeq(c)
      BY <1>12
    <3>7. QED BY <2>1, <3>4, <3>5, <3>6
  <2>2. QED BY <2>1
<1>14. Relieve(c, caps, i) = d
  BY <1>10, <1>11
<1>15. QED BY <1>12, <1>13, <1>14

\* One stage after the other, nobody stays over its capacity when together there is room.
RepairedOf(c, caps, n) ==
    CHOOSE f : f = [k \in 0..n |-> IF k = 0 THEN c ELSE Relieve(f[k - 1], caps, k)]

\* Every stage is within its capacity when the capacities suffice together.
LEMMA Repaired ==
    ASSUME NEW n \in Nat \ {0}, NEW c \in Counts(n), NEW caps \in Counts(n)
    PROVE  LET d == Repair(c, caps)
           IN  /\ d \in Counts(n) /\ SumSeq(d) = SumSeq(c)
               /\ SumSeq(c) <= SumSeq(caps) => \A j \in 1..n : d[j] <= caps[j]
<1> DEFINE Fit(d, k) == SumSeq(c) <= SumSeq(caps) => \A j \in 1..n : j <= k => d[j] <= caps[j]
<1> DEFINE T == [k \in 0..n |-> {d \in Counts(n) : SumSeq(d) = SumSeq(c) /\ Fit(d, k)}]
<1> DEFINE h == RepairedOf(c, caps, n)
<1>1. Len(c) = n
  BY CountsAre
<1>2. ASSUME NEW k \in 1..n, NEW d \in T[k - 1] PROVE Relieve(d, caps, k) \in T[k]
  <2>1. d \in Counts(n) /\ SumSeq(d) = SumSeq(c) /\ Fit(d, k - 1)
    <3>1. k - 1 \in 0..n
      OBVIOUS
    <3> HIDE DEF Fit
    <3>2. QED BY <1>2, <3>1
  <2>2. PICK b : b = Relieve(d, caps, k)
    OBVIOUS
  <2>3. /\ b \in Counts(n) /\ SumSeq(b) = SumSeq(d)
        /\ \A j \in 1..n : j # k /\ d[j] <= caps[j] => b[j] <= caps[j]
        /\ SumSeq(d) <= SumSeq(caps) => b[k] <= caps[k]
    BY <2>1, <2>2, Relieved
  <2>4. ASSUME SumSeq(c) <= SumSeq(caps), NEW j \in 1..n, j <= k PROVE b[j] <= caps[j]
    <3>1. CASE j = k
      BY <2>1, <2>3, <2>4, <3>1
    <3>2. CASE j # k
      <4>1. j <= k - 1
        BY <2>4, <3>2
      <4>2. d[j] <= caps[j]
        BY <2>1, <2>4, <4>1
      <4>3. QED BY <2>3, <3>2, <4>2
    <3>3. QED BY <3>1, <3>2
  <2>5. Fit(b, k)
    BY <2>4
  <2>6. k \in 0..n
    OBVIOUS
  <2> HIDE DEF Fit
  <2>7. QED BY <2>1, <2>2, <2>3, <2>5, <2>6
<1>3. c \in T[0] /\ n \in Nat /\ \A k \in 0..n : T[k] \subseteq Counts(n)
  <2>1. Fit(c, 0)
    OBVIOUS
  <2> HIDE DEF Fit
  <2>2. QED BY <2>1
<1> DEFINE G == [y \in Counts(n) \X (1..n) |-> Relieve(y[1], caps, y[2])]
<1>4. \A k \in 1..n : \A d \in T[k - 1] : G[<<d, k>>] = Relieve(d, caps, k) /\ G[<<d, k>>] \in T[k]
  <2>1. ASSUME NEW k \in 1..n, NEW d \in T[k - 1]
        PROVE  G[<<d, k>>] = Relieve(d, caps, k) /\ G[<<d, k>>] \in T[k]
    <3>1. d \in Counts(n)
      <4>1. k - 1 \in 0..n
        BY <1>3
      <4> HIDE DEF T, G, Fit
      <4>2. QED BY <1>3, <4>1
    <3>2. <<d, k>> \in Counts(n) \X (1..n)
      BY <3>1
    <3>3. G[<<d, k>>] = Relieve(d, caps, k)
      <4> HIDE DEF T, Fit
      <4>1. QED BY <3>2
    <3>4. Relieve(d, caps, k) \in T[k]
      BY <1>2
    <3> HIDE DEF T, G, Fit
    <3>5. QED BY <3>3, <3>4
  <2> HIDE DEF T, G, Fit
  <2>2. QED BY <2>1
<1>5. PICK f : Steps(f, n, c, G) /\ \A k \in 0..n : f[k] \in T[k]
  <2> HIDE DEF T, G, Fit
  <2>1. \A k \in 1..n : \A d \in T[k - 1] : G[<<d, k>>] \in T[k]
    BY <1>4
  <2>2. n \in Nat /\ c \in T[0]
    BY <1>3
  <2>3. QED BY <2>1, <2>2, Iterated
<1>6. f = [k \in 0..n |-> IF k = 0 THEN c ELSE Relieve(f[k - 1], caps, k)]
  <2>1. ASSUME NEW k \in 0..n, k # 0 PROVE G[<<f[k - 1], k>>] = Relieve(f[k - 1], caps, k)
    <3>1. k \in 1..n /\ k - 1 \in 0..n
      BY <1>3, <2>1
    <3>2. f[k - 1] \in T[k - 1]
      BY <1>5, <3>1
    <3> HIDE DEF T, G, Fit
    <3>3. QED BY <1>4, <3>1, <3>2
  <2> HIDE DEF T, G, Fit
  <2>2. [k \in 0..n |-> IF k = 0 THEN c ELSE G[<<f[k - 1], k>>]]
        = [k \in 0..n |-> IF k = 0 THEN c ELSE Relieve(f[k - 1], caps, k)]
    BY <2>1
  <2>3. QED BY <1>5, <2>2, Zenon DEF Steps
<1>7. h = [k \in 0..n |-> IF k = 0 THEN c ELSE Relieve(h[k - 1], caps, k)]
  BY <1>6, Zenon DEF RepairedOf
<1>8. h[0] = c /\ \A k \in 1..n : h[k] = Relieve(h[k - 1], caps, k)
  <2>1. PICK g : g = h
    OBVIOUS
  <2>2. g = [k \in 0..n |-> IF k = 0 THEN c ELSE Relieve(g[k - 1], caps, k)]
    BY <1>7, <2>1
  <2>3. 0 \in 0..n /\ \A k \in 1..n : k \in 0..n /\ k # 0
    BY <1>3
  <2> HIDE DEF T, G, Fit
  <2>4. g[0] = c /\ \A k \in 1..n : g[k] = Relieve(g[k - 1], caps, k)
    BY <2>2, <2>3
  <2>5. QED BY <2>1, <2>4, Zenon
<1>9. \A k \in 0..n : h[k] \in T[k]
  <2>1. PICK g : g = h
    OBVIOUS
  <2>2. ASSUME NEW k \in 1..n, g[k - 1] \in T[k - 1] PROVE g[k] \in T[k]
    <3>1. g[k] = Relieve(g[k - 1], caps, k)
      BY <1>8, <2>1
    <3>2. Relieve(g[k - 1], caps, k) \in T[k]
      BY <1>2, <2>2
    <3> HIDE DEF T, G, Fit
    <3>3. QED BY <3>1, <3>2
  <2>3. g[0] \in T[0]
    <3> HIDE DEF T, G, Fit
    <3>1. QED BY <1>3, <1>8, <2>1
  <2> HIDE DEF T, G, Fit
  <2>4. \A k \in 0..n : g[k] \in T[k]
    BY <1>3, <2>2, <2>3, Rising
  <2>5. QED BY <2>1, <2>4
<1>10. Repair(c, caps) = h[n]
  BY <1>1 DEF Repair, RepairedOf
<1>11. PICK d : d = h[n]
  OBVIOUS
<1>12. d \in Counts(n) /\ SumSeq(d) = SumSeq(c) /\ Fit(d, n)
  <2>1. n \in 0..n
    OBVIOUS
  <2>2. d \in T[n]
    BY <1>9, <1>11, <2>1
  <2> HIDE DEF h, Fit
  <2>3. QED BY <2>1, <2>2
<1>13. SumSeq(c) <= SumSeq(caps) => \A j \in 1..n : d[j] <= caps[j]
  BY <1>12
<1>14. Repair(c, caps) = d
  BY <1>10, <1>11
<1> HIDE DEF Fit
<1>15. QED BY <1>12, <1>13, <1>14

\* A number that moves from one stage to the next leaves the sum as it is.
Nudged(c, i, by) == Bump(Bump(c, i, by), i + 1, -by)

\* A cut moved changes the two stages beside it, and no sum.
LEMMA NudgedIs ==
    ASSUME NEW n \in Nat, NEW c \in Counts(n), NEW i \in 1..(n - 1), NEW by \in Int,
           c[i] + by >= 1, c[i + 1] - by >= 1
    PROVE  /\ Nudged(c, i, by) \in Counts(n)
           /\ Nudged(c, i, by)[i] = c[i] + by
           /\ Nudged(c, i, by)[i + 1] = c[i + 1] - by
           /\ \A j \in 1..n : j # i /\ j # i + 1 => Nudged(c, i, by)[j] = c[j]
           /\ SumSeq(Nudged(c, i, by)) = SumSeq(c)
<1>1. /\ i \in 1..n /\ i + 1 \in 1..n /\ i # i + 1
      /\ c[i] \in Nat /\ c[i + 1] \in Nat /\ SumSeq(c) \in Nat
  <2>1. i \in 1..n /\ i + 1 \in 1..n /\ i # i + 1
    OBVIOUS
  <2>2. c[i] \in Nat /\ c[i + 1] \in Nat
    BY <2>1, CountsAre
  <2>3. SumSeq(c) \in Nat
    BY CountsSum
  <2>4. QED BY <2>1, <2>2, <2>3
<1>2. PICK l : l = i + 1
  OBVIOUS
<1>3. PICK b : b = Bump(c, i, by)
  OBVIOUS
<1>4. /\ b \in Counts(n) /\ b[i] = c[i] + by /\ (\A j \in 1..n : j # i => b[j] = c[j])
      /\ SumSeq(b) = SumSeq(c) + by
  <2>1. /\ Bump(c, i, by) \in Counts(n) /\ Bump(c, i, by)[i] = c[i] + by
        /\ \A j \in 1..n : j # i => Bump(c, i, by)[j] = c[j]
        /\ SumSeq(Bump(c, i, by)) = SumSeq(c) + by
    BY <1>1, BumpedCounts
  <2>2. QED BY <1>3, <2>1, Zenon
<1>5. l \in 1..n /\ l # i /\ b[l] = c[l] /\ -by \in Int
  BY <1>1, <1>2, <1>4
<1>6. b[l] + (-by) >= 1
  BY <1>1, <1>2, <1>5
<1>7. PICK d : d = Bump(b, l, -by)
  OBVIOUS
<1>8. /\ d \in Counts(n) /\ d[l] = b[l] + (-by) /\ (\A j \in 1..n : j # l => d[j] = b[j])
      /\ SumSeq(d) = SumSeq(b) + (-by)
  <2>1. /\ Bump(b, l, -by) \in Counts(n) /\ Bump(b, l, -by)[l] = b[l] + (-by)
        /\ \A j \in 1..n : j # l => Bump(b, l, -by)[j] = b[j]
        /\ SumSeq(Bump(b, l, -by)) = SumSeq(b) + (-by)
    BY <1>4, <1>5, <1>6, BumpedCounts
  <2>2. QED BY <1>7, <2>1, Zenon
<1>9. d = Nudged(c, i, by)
  BY <1>2, <1>3, <1>7 DEF Nudged
<1>10. d[i] = c[i] + by /\ d[l] = c[l] - by
  BY <1>1, <1>2, <1>4, <1>5, <1>8
<1>11. \A j \in 1..n : j # i /\ j # l => d[j] = c[j]
  BY <1>4, <1>8
<1>12. SumSeq(d) = SumSeq(c)
  BY <1>1, <1>4, <1>8
<1>13. QED BY <1>2, <1>8, <1>9, <1>10, <1>11, <1>12

\* A cut that moves to a multiple leaves every stage a layer, and within its capacity.
Fitting(c, caps) == \A j \in DOMAIN c : c[j] <= caps[j]

\* A cut snaps within the bounds of both stages, or stays.
LEMMA CutSnapped ==
    ASSUME NEW n \in Nat, NEW c \in Counts(n), NEW caps \in Counts(n), NEW i \in 1..(n - 1),
           NEW m \in Nat, m > 1
    PROVE  LET d == SnapCut(c, caps, m, i)
           IN  /\ d \in Counts(n) /\ SumSeq(d) = SumSeq(c)
               /\ Fitting(c, caps) => Fitting(d, caps)
<1>1. /\ i \in 1..n /\ i + 1 \in 1..n /\ i # i + 1 /\ Len(c) = n /\ DOMAIN c = 1..n
      /\ \A j \in 1..n : c[j] \in Nat /\ c[j] >= 1 /\ caps[j] \in Nat
  <2>1. i \in 1..n /\ i + 1 \in 1..n /\ i # i + 1
    OBVIOUS
  <2>2. Len(c) = n /\ DOMAIN c = 1..n /\ (\A j \in 1..n : c[j] \in Nat /\ c[j] >= 1)
    BY CountsAre
  <2>3. \A j \in 1..n : caps[j] \in Nat
    BY CountsAre
  <2>4. QED BY <2>1, <2>2, <2>3
<1>2. PICK rem \in 0..(m - 1) : rem = SumOver(c, 1, i) % m
  <2>1. c \in Seq(Int) /\ i \in 0..Len(c)
    BY <1>1, CountsAre
  <2>2. SumOver(c, 1, i) \in Int
    BY <2>1, SumIs
  <2>3. QED BY <2>2
<1>3. ASSUME NEW by \in Int, c[i] + by >= 1, c[i + 1] - by >= 1,
             c[i] + by <= c[i] \/ c[i] + by <= caps[i],
             c[i + 1] - by <= c[i + 1] \/ c[i + 1] - by <= caps[i + 1]
      PROVE  /\ Nudged(c, i, by) \in Counts(n) /\ SumSeq(Nudged(c, i, by)) = SumSeq(c)
             /\ Fitting(c, caps) => Fitting(Nudged(c, i, by), caps)
  <2>1. /\ Nudged(c, i, by) \in Counts(n)
        /\ Nudged(c, i, by)[i] = c[i] + by
        /\ Nudged(c, i, by)[i + 1] = c[i + 1] - by
        /\ \A j \in 1..n : j # i /\ j # i + 1 => Nudged(c, i, by)[j] = c[j]
        /\ SumSeq(Nudged(c, i, by)) = SumSeq(c)
    BY <1>3, NudgedIs
  <2>2. PICK b : b = Nudged(c, i, by)
    OBVIOUS
  <2>3. PICK l : l = i + 1
    OBVIOUS
  <2>4. /\ b \in Counts(n) /\ b[i] = c[i] + by /\ b[l] = c[l] - by
        /\ \A j \in 1..n : j # i /\ j # l => b[j] = c[j]
    BY <2>1, <2>2, <2>3
  <2>5. ASSUME Fitting(c, caps), NEW j \in 1..n PROVE b[j] <= caps[j]
    <3>1. \A p \in 1..n : c[p] <= caps[p]
      BY <1>1, <2>5 DEF Fitting
    <3>2. CASE j = i
      <4>1. c[i] <= caps[i] /\ c[i] \in Nat /\ caps[i] \in Nat
        BY <1>1, <3>1
      <4>2. QED BY <1>3, <2>4, <3>2, <4>1
    <3>3. CASE j = l
      <4>1. c[l] <= caps[l] /\ c[l] \in Nat /\ caps[l] \in Nat
        BY <1>1, <2>3, <3>1
      <4>2. QED BY <1>3, <2>3, <2>4, <3>3, <4>1
    <3>4. CASE j # i /\ j # l
      BY <2>4, <3>1, <3>4
    <3>5. QED BY <3>2, <3>3, <3>4
  <2>6. DOMAIN b = 1..n
    BY <2>4, CountsAre
  <2>7. Fitting(c, caps) => Fitting(b, caps)
    <3>1. ASSUME Fitting(c, caps) PROVE \A j \in 1..n : b[j] <= caps[j]
      BY <2>5, <3>1
    <3>2. QED BY <2>6, <3>1 DEF Fitting
  <2>8. QED BY <2>1, <2>2, <2>7
<1>4. PICK d : d = SnapCut(c, caps, m, i)
  OBVIOUS
<1>5. CASE d = c
  BY <1>4, <1>5
<1>6. CASE d # c
  <2>1. \/ /\ d = Bump(Bump(c, i, m - rem), i + 1, rem - m)
           /\ d[i] <= caps[i] /\ d[i + 1] >= 1 /\ rem # 0
        \/ /\ d = Bump(Bump(c, i, -rem), i + 1, rem)
           /\ d[i] >= 1 /\ d[i + 1] <= caps[i + 1]
    BY <1>2, <1>4, <1>6, Zenon DEF SnapCut
  <2>2. ASSUME NEW by \in Int, NEW yb \in Int, yb = -by
        PROVE  Bump(Bump(c, i, by), i + 1, yb) = Nudged(c, i, by)
    BY <2>2 DEF Nudged
  <2>3. ASSUME NEW by \in Int
        PROVE  Nudged(c, i, by)[i] = c[i] + by /\ Nudged(c, i, by)[i + 1] = c[i + 1] - by
    <3>1. c \in [1..n -> Int]
      BY CountsAre
    <3>2. /\ Bump(c, i, by) \in [1..n -> Int] /\ Bump(c, i, by)[i] = c[i] + by
          /\ \A j \in 1..n : j # i => Bump(c, i, by)[j] = c[j]
      <4>1. i \in 1..n
        BY <1>1
      <4>2. QED BY <3>1, <4>1, Bumped
    <3>3. PICK b : b = Bump(c, i, by)
      OBVIOUS
    <3>4. /\ b \in [1..n -> Int] /\ b[i] = c[i] + by
          /\ \A j \in 1..n : j # i => b[j] = c[j]
      BY <3>2, <3>3, Zenon
    <3>5. PICK l : l = i + 1
      OBVIOUS
    <3>6. l \in 1..n /\ -by \in Int
      BY <1>1, <3>5
    <3>7. Bump(b, l, -by)[l] = b[l] + (-by) /\ \A j \in 1..n : j # l => Bump(b, l, -by)[j] = b[j]
      BY <3>4, <3>6, Bumped
    <3>8. Nudged(c, i, by) = Bump(b, l, -by)
      BY <3>3, <3>5 DEF Nudged
    <3>9. b[l] = c[l] /\ c[l] \in Nat
      BY <1>1, <3>4, <3>5
    <3>10. Bump(b, l, -by)[l] = c[l] - by /\ Bump(b, l, -by)[i] = c[i] + by
      BY <1>1, <3>4, <3>5, <3>7, <3>9
    <3>11. QED BY <3>5, <3>8, <3>10
  <2>4. CASE d = Bump(Bump(c, i, m - rem), i + 1, rem - m) /\ d[i] <= caps[i] /\ d[i + 1] >= 1 /\ rem # 0
    <3>1. PICK by \in Int : by = m - rem /\ by > 0 /\ rem - m = -by
      OBVIOUS
    <3>2. d = Nudged(c, i, by)
      BY <2>2, <2>4, <3>1
    <3>3. d[i] = c[i] + by /\ d[i + 1] = c[i + 1] - by
      BY <2>3, <3>2
    <3>4. c[i] \in Nat /\ c[i] >= 1 /\ c[i + 1] \in Nat
      BY <1>1
    <3>5. c[i] + by >= 1 /\ c[i + 1] - by >= 1 /\ c[i] + by <= caps[i] /\ c[i + 1] - by <= c[i + 1]
      BY <2>4, <3>1, <3>3, <3>4
    <3>6. QED BY <1>3, <1>4, <3>2, <3>5
  <2>5. CASE d = Bump(Bump(c, i, -rem), i + 1, rem) /\ d[i] >= 1 /\ d[i + 1] <= caps[i + 1]
    <3>1. PICK by \in Int : by = -rem /\ by <= 0 /\ rem = -by
      OBVIOUS
    <3>2. d = Nudged(c, i, by)
      BY <2>2, <2>5, <3>1
    <3>3. d[i] = c[i] + by /\ d[i + 1] = c[i + 1] - by
      BY <2>3, <3>2
    <3>4. c[i] \in Nat /\ c[i + 1] \in Nat /\ c[i + 1] >= 1
      BY <1>1
    <3>5. c[i] + by >= 1 /\ c[i + 1] - by >= 1 /\ c[i] + by <= c[i] /\ c[i + 1] - by <= caps[i + 1]
      BY <2>5, <3>1, <3>3, <3>4
    <3>6. QED BY <1>3, <1>4, <3>2, <3>5
  <2>6. QED BY <2>1, <2>4, <2>5
<1>7. QED BY <1>5, <1>6

\* The recursive function behind Snap.
SnappedOf(c, caps, m, n) ==
    CHOOSE f : f = [k \in 0..(n - 1) |-> IF k = 0 THEN c ELSE SnapCut(f[k - 1], caps, m, k)]

\* All cuts snap without breaking a bound.
LEMMA Snapped ==
    ASSUME NEW n \in Nat \ {0}, NEW c \in Counts(n), NEW caps \in Counts(n), NEW m \in Nat, m > 1
    PROVE  LET d == Snap(c, caps, m)
           IN  /\ d \in Counts(n) /\ SumSeq(d) = SumSeq(c)
               /\ Fitting(c, caps) => Fitting(d, caps)
<1>1. PICK N \in Nat : N = n - 1
  OBVIOUS
<1> DEFINE T == [k \in 0..N |->
        {d \in Counts(n) : SumSeq(d) = SumSeq(c) /\ (Fitting(c, caps) => Fitting(d, caps))}]
<1> DEFINE h == SnappedOf(c, caps, m, n)
<1>2. Len(c) = n /\ m > 1 /\ N + 1 = n
  BY <1>1, CountsAre
<1>3. ASSUME NEW k \in 1..N, NEW d \in T[k - 1] PROVE SnapCut(d, caps, m, k) \in T[k]
  <2>1. d \in Counts(n) /\ SumSeq(d) = SumSeq(c) /\ (Fitting(c, caps) => Fitting(d, caps))
    <3>1. k - 1 \in 0..N
      OBVIOUS
    <3>2. QED BY <1>3, <3>1
  <2>2. k \in 1..(n - 1)
    BY <1>1
  <2>3. PICK b : b = SnapCut(d, caps, m, k)
    OBVIOUS
  <2>4. b \in Counts(n) /\ SumSeq(b) = SumSeq(d) /\ (Fitting(d, caps) => Fitting(b, caps))
    <3> HIDE DEF T
    <3>1. QED BY <1>2, <2>1, <2>2, <2>3, CutSnapped
  <2>5. k \in 0..N
    OBVIOUS
  <2>6. QED BY <2>1, <2>3, <2>4, <2>5
<1>4. c \in T[0] /\ N \in Nat /\ \A k \in 0..N : T[k] \subseteq Counts(n)
  OBVIOUS
<1> DEFINE G == [y \in Counts(n) \X (1..N) |-> SnapCut(y[1], caps, m, y[2])]
<1>5. \A k \in 1..N : \A d \in T[k - 1] : G[<<d, k>>] = SnapCut(d, caps, m, k) /\ G[<<d, k>>] \in T[k]
  <2>1. ASSUME NEW k \in 1..N, NEW d \in T[k - 1]
        PROVE  G[<<d, k>>] = SnapCut(d, caps, m, k) /\ G[<<d, k>>] \in T[k]
    <3>1. d \in Counts(n)
      <4>1. k - 1 \in 0..N
        BY <1>4
      <4> HIDE DEF T, G
      <4>2. QED BY <1>4, <4>1
    <3>2. <<d, k>> \in Counts(n) \X (1..N)
      BY <3>1
    <3>3. G[<<d, k>>] = SnapCut(d, caps, m, k)
      <4> HIDE DEF T
      <4>1. QED BY <3>2
    <3>4. SnapCut(d, caps, m, k) \in T[k]
      BY <1>3
    <3> HIDE DEF T, G
    <3>5. QED BY <3>3, <3>4
  <2> HIDE DEF T, G
  <2>2. QED BY <2>1
<1>6. PICK f : Steps(f, N, c, G) /\ \A k \in 0..N : f[k] \in T[k]
  <2> HIDE DEF T, G
  <2>1. \A k \in 1..N : \A d \in T[k - 1] : G[<<d, k>>] \in T[k]
    BY <1>5
  <2>2. N \in Nat /\ c \in T[0]
    BY <1>4
  <2>3. QED BY <2>1, <2>2, Iterated
<1>7. f = [k \in 0..N |-> IF k = 0 THEN c ELSE SnapCut(f[k - 1], caps, m, k)]
  <2>1. ASSUME NEW k \in 0..N, k # 0 PROVE G[<<f[k - 1], k>>] = SnapCut(f[k - 1], caps, m, k)
    <3>1. k \in 1..N /\ k - 1 \in 0..N
      BY <1>4, <2>1
    <3>2. f[k - 1] \in T[k - 1]
      BY <1>6, <3>1
    <3> HIDE DEF T, G
    <3>3. QED BY <1>5, <3>1, <3>2
  <2> HIDE DEF T, G
  <2>2. [k \in 0..N |-> IF k = 0 THEN c ELSE G[<<f[k - 1], k>>]]
        = [k \in 0..N |-> IF k = 0 THEN c ELSE SnapCut(f[k - 1], caps, m, k)]
    BY <2>1
  <2>3. QED BY <1>6, <2>2, Zenon DEF Steps
<1>8. h = [k \in 0..N |-> IF k = 0 THEN c ELSE SnapCut(h[k - 1], caps, m, k)]
  BY <1>1, <1>7, Zenon DEF SnappedOf
<1>9. h[0] = c /\ \A k \in 1..N : h[k] = SnapCut(h[k - 1], caps, m, k)
  <2>1. PICK g : g = h
    OBVIOUS
  <2>2. g = [k \in 0..N |-> IF k = 0 THEN c ELSE SnapCut(g[k - 1], caps, m, k)]
    BY <1>8, <2>1
  <2>3. 0 \in 0..N /\ \A k \in 1..N : k \in 0..N /\ k # 0
    BY <1>4
  <2> HIDE DEF T, G
  <2>4. g[0] = c /\ \A k \in 1..N : g[k] = SnapCut(g[k - 1], caps, m, k)
    BY <2>2, <2>3
  <2>5. QED BY <2>1, <2>4, Zenon
<1>10. \A k \in 0..N : h[k] \in T[k]
  <2>1. PICK g : g = h
    OBVIOUS
  <2>2. ASSUME NEW k \in 1..N, g[k - 1] \in T[k - 1] PROVE g[k] \in T[k]
    <3>1. g[k] = SnapCut(g[k - 1], caps, m, k)
      BY <1>9, <2>1
    <3>2. SnapCut(g[k - 1], caps, m, k) \in T[k]
      BY <1>3, <2>2
    <3> HIDE DEF T, G
    <3>3. QED BY <3>1, <3>2
  <2>3. g[0] \in T[0]
    <3> HIDE DEF T, G
    <3>1. QED BY <1>4, <1>9, <2>1
  <2> HIDE DEF T, G
  <2>4. \A k \in 0..N : g[k] \in T[k]
    BY <1>4, <2>2, <2>3, Rising
  <2>5. QED BY <2>1, <2>4
<1>11. Snap(c, caps, m) = h[N]
  BY <1>1, <1>2 DEF Snap, SnappedOf
<1>12. PICK d : d = h[N]
  OBVIOUS
<1>13. d \in Counts(n) /\ SumSeq(d) = SumSeq(c) /\ (Fitting(c, caps) => Fitting(d, caps))
  <2>1. N \in 0..N
    OBVIOUS
  <2>2. d \in T[N]
    BY <1>10, <1>12, <2>1
  <2> HIDE DEF h
  <2>3. QED BY <2>1, <2>2
<1>14. Snap(c, caps, m) = d
  BY <1>11, <1>12
<1>15. QED BY <1>13, <1>14

\* Every stage can hold a layer.
LEMMA CapAtLeastOne ==
    ASSUME NEW vram \in Nat, NEW reserved \in Nat, NEW perLayer \in Nat \ {0}
    PROVE  LayerCap(vram, reserved, perLayer) \in Nat /\ LayerCap(vram, reserved, perLayer) >= 1
<1>1. PICK w \in Nat : w = Weight(vram)
  BY DEF Weight
<1>2. CASE w <= reserved + perLayer
  BY <1>1, <1>2 DEF LayerCap
<1>3. CASE ~(w <= reserved + perLayer)
  <2>1. PICK x \in Nat : x = w - reserved /\ x >= perLayer
    BY <1>3
  <2>2. x \div perLayer \in Nat /\ x \div perLayer >= 1
    BY <2>1
  <2>3. LayerCap(vram, reserved, perLayer) = x \div perLayer
    BY <1>1, <1>3, <2>1 DEF LayerCap
  <2>4. QED BY <2>2, <2>3
<1>4. QED BY <1>2, <1>3

\* A pipeline's layers are all handed out, one a stage at least, and no stage is over its
\* capacity when together they have room.
LEMMA LayersPlanned ==
    ASSUME NEW layers \in Nat, NEW vrams \in Seq(Nat), NEW reserved \in Nat,
           NEW perLayer \in Nat \ {0}, NEW multiple \in Nat, NEW c,
           c = PlanLayers(layers, vrams, reserved, perLayer, multiple), c # <<>>
    PROVE  LET n == Len(vrams)
               caps == [i \in DOMAIN c |-> LayerCap(vrams[i], reserved, perLayer)]
           IN  /\ SumSeq(c) = layers
               /\ \A i \in DOMAIN c : c[i] >= 1
               /\ SumSeq(caps) >= layers => \A i \in DOMAIN c : c[i] <= caps[i]
<1>1. PICK n : n = Len(vrams)
  OBVIOUS
<1> DEFINE caps == [i \in 1..n |-> LayerCap(vrams[i], reserved, perLayer)]
<1>2. ~(n = 0 \/ n > layers)
  BY <1>1 DEF PlanLayers
<1>3. n \in Nat \ {0} /\ n <= layers /\ vrams # <<>> /\ \A i \in 1..n : vrams[i] \in Nat
  BY <1>1, <1>2
<1>4. caps \in Counts(n)
  <2>1. ASSUME NEW i \in 1..n
        PROVE  LayerCap(vrams[i], reserved, perLayer) \in Nat /\ LayerCap(vrams[i], reserved, perLayer) >= 1
    <3>1. vrams[i] \in Nat
      BY <1>3
    <3>2. QED BY <3>1, CapAtLeastOne
  <2>2. QED BY <2>1 DEF Counts
<1>5. PICK p : p = caps
  OBVIOUS
<1>6. PICK s : s = Shares(layers, vrams)
  OBVIOUS
<1>7. s \in Counts(n)
  BY <1>1, <1>3, <1>6, SharesAre
<1>8. PICK d : d = HandOut(s, layers)
  OBVIOUS
<1>9. d \in Counts(n) /\ layers <= SumSeq(d)
  BY <1>3, <1>7, <1>8, HandedOut
<1>10. PICK e : e = ClawBack(d, layers)
  OBVIOUS
<1>11. e \in Counts(n) /\ SumSeq(e) = layers
  BY <1>3, <1>9, <1>10, ClawedBack
<1>12. PICK r : r = Repair(e, p)
  OBVIOUS
<1>13. /\ r \in Counts(n) /\ SumSeq(r) = layers
       /\ layers <= SumSeq(p) => \A j \in 1..n : r[j] <= p[j]
  <2>1. LET x == Repair(e, p)
        IN  /\ x \in Counts(n) /\ SumSeq(x) = SumSeq(e)
            /\ SumSeq(e) <= SumSeq(p) => \A j \in 1..n : x[j] <= p[j]
    <3>1. e \in Counts(n) /\ p \in Counts(n) /\ n \in Nat \ {0}
      BY <1>3, <1>4, <1>5, <1>11
    <3> HIDE DEF caps
    <3>2. QED BY <3>1, Repaired
  <2>2. QED BY <1>11, <1>12, <2>1
<1>14. /\ c \in Counts(n) /\ SumSeq(c) = layers
       /\ Fitting(r, p) => Fitting(c, p)
  <2>1. c = Snap(r, p, multiple)
    BY <1>1, <1>2, <1>5, <1>6, <1>8, <1>10, <1>12, Zenon DEF PlanLayers
  <2>2. CASE multiple > 1
    <3>1. r \in Counts(n) /\ p \in Counts(n) /\ n \in Nat \ {0}
      BY <1>3, <1>4, <1>5, <1>13
    <3> HIDE DEF caps
    <3>2. c \in Counts(n) /\ SumSeq(c) = SumSeq(r) /\ (Fitting(r, p) => Fitting(c, p))
      BY <2>1, <2>2, <3>1, Snapped
    <3>3. QED BY <1>13, <3>2
  <2>3. CASE ~(multiple > 1)
    <3>1. c = r
      BY <2>1, <2>3 DEF Snap
    <3>2. QED BY <1>13, <3>1
  <2>4. QED BY <2>2, <2>3
<1>15. /\ DOMAIN c = 1..n /\ DOMAIN r = 1..n /\ \A i \in 1..n : c[i] >= 1
  <2>1. DOMAIN c = 1..n /\ \A i \in 1..n : c[i] >= 1
    BY <1>3, <1>14, CountsAre
  <2>2. DOMAIN r = 1..n
    BY <1>3, <1>13, CountsAre
  <2>3. QED BY <2>1, <2>2
<1>16. ASSUME layers <= SumSeq(p) PROVE \A i \in 1..n : c[i] <= p[i]
  BY <1>13, <1>14, <1>15, <1>16 DEF Fitting
<1>17. [i \in DOMAIN c |-> LayerCap(vrams[i], reserved, perLayer)] = p
  BY <1>5, <1>15
<1>18. SumSeq(p) \in Nat
  BY <1>3, <1>4, <1>5, CountsSum
<1> HIDE DEF caps
<1>19. SumSeq(p) >= layers => \A i \in DOMAIN c : c[i] <= p[i]
  BY <1>15, <1>16, <1>18
<1>20. QED BY <1>14, <1>15, <1>17, <1>19

-----------------------------------------------------------------------------
(* What a model needs is a number of bytes. *)

\* The backends a machine can have.
Backends == {"cuda", "metal", "unknown"}
\* A model as QuestionsAssumption describes it.
OfModel(m) ==
    /\ m \in ModelSize /\ NumBlocks(m) > 0
    /\ \A s \in {m.experts, m.slot, m.tensor, m.count} : Len(s) = NumBlocks(m)

\* A window has a tier, or is none of them.
LEMMA TierIs ==
    ASSUME NEW ctx \in Nat
    PROVE  CtxTierOf(ctx) \in Tiers \cup {0}
<1> DEFINE T == {t \in Tiers : ctx <= t}
<1>1. CASE ctx \in 1..4
  <2>1. T \subseteq Nat /\ 4 \in T /\ T \subseteq Tiers
    BY <1>1 DEF Tiers
  <2>2. Min(T) \in T
    <3> HIDE DEF T
    <3>1. QED BY <2>1, LeastIsMin
  <2>3. CtxTierOf(ctx) = Min(T)
    BY <1>1 DEF CtxTierOf
  <2>4. QED BY <2>1, <2>2, <2>3
<1>2. CASE ctx \notin 1..4
  BY <1>2 DEF CtxTierOf, Tiers
<1>3. QED BY <1>1, <1>2

\* What was measured is a number of bytes.
LEMMA MeasuredIs ==
    ASSUME NEW table \in Figures, NEW ctx \in Nat, NEW backend \in Backends
    PROVE  Measured(table, ctx, backend) \in Nat
<1>1. PICK t : t = CtxTierOf(ctx)
  OBVIOUS
<1>2. t \in Tiers \cup {0}
  BY <1>1, TierIs
<1>3. CASE t = 0
  BY <1>1, <1>3 DEF Measured
<1>4. CASE t # 0
  <2>1. t \in Tiers
    BY <1>2, <1>4
  <2>2. PICK r \in [cuda : Nat, metal : Nat] : r = table[t]
    BY <2>1 DEF Figures
  <2>3. r.cuda \in Nat /\ r.metal \in Nat
    OBVIOUS
  <2>4. CASE backend = "cuda"
    <3>1. r["cuda"] \in Nat
      OBVIOUS
    <3>2. Measured(table, ctx, backend) = r["cuda"]
      BY <1>1, <1>4, <2>2, <2>4 DEF Measured
    <3>3. QED BY <3>1, <3>2
  <2>5. CASE backend = "metal"
    <3>1. r["metal"] \in Nat
      OBVIOUS
    <3>2. Measured(table, ctx, backend) = r["metal"]
      BY <1>1, <1>4, <2>2, <2>5 DEF Measured
    <3>3. QED BY <3>1, <3>2
  <2>6. CASE backend = "unknown"
    <3>1. Measured(table, ctx, backend) =
            IF r.cuda = 0 \/ r.metal = 0 THEN 0 ELSE Larger(r.cuda, r.metal)
      BY <1>1, <1>4, <2>2, <2>6 DEF Measured
    <3>2. Larger(r.cuda, r.metal) \in Nat
      BY <2>3 DEF Larger
    <3>3. QED BY <3>1, <3>2
  <2>7. QED BY <2>4, <2>5, <2>6 DEF Backends
<1>5. QED BY <1>3, <1>4

\* The numbers of a model.
LEMMA FieldsAre ==
    ASSUME NEW m, OfModel(m)
    PROVE  /\ m.weights \in Seq(Nat) /\ m.experts \in Seq(Nat) /\ m.slot \in Seq(Nat)
           /\ m.tensor \in Seq(Nat) /\ m.count \in Seq(Nat)
           /\ NumBlocks(m) \in Nat /\ NumBlocks(m) > 0 /\ Len(m.weights) = NumBlocks(m)
           /\ Len(m.experts) = NumBlocks(m) /\ Len(m.slot) = NumBlocks(m)
           /\ Len(m.tensor) = NumBlocks(m) /\ Len(m.count) = NumBlocks(m)
           /\ m.shared \in Nat /\ m.total \in Nat /\ m.expertTotal \in Nat /\ m.nExpert \in Nat
           /\ m.nUsed \in Nat /\ m.mmproj \in Nat
<1>1. m \in ModelSize /\ NumBlocks(m) > 0 /\ m.weights \in Seq(Nat)
  BY DEF OfModel, ModelSize
<1>2. NumBlocks(m) \in Nat /\ Len(m.weights) = NumBlocks(m)
  BY <1>1 DEF NumBlocks
<1>3. /\ Len(m.experts) = NumBlocks(m) /\ Len(m.slot) = NumBlocks(m)
      /\ Len(m.tensor) = NumBlocks(m) /\ Len(m.count) = NumBlocks(m)
  BY DEF OfModel
<1>4. /\ m.experts \in Seq(Nat) /\ m.slot \in Seq(Nat) /\ m.tensor \in Seq(Nat) /\ m.count \in Seq(Nat)
  BY <1>1 DEF ModelSize
<1>5. /\ m.shared \in Nat /\ m.total \in Nat /\ m.expertTotal \in Nat /\ m.nExpert \in Nat
      /\ m.nUsed \in Nat /\ m.mmproj \in Nat
  BY <1>1 DEF ModelSize
<1>6. QED BY <1>1, <1>2, <1>3, <1>4, <1>5

\* The larger of two figures is a figure.
LEMMA HostIs ==
    ASSUME NEW table \in Figures, NEW t \in Tiers, NEW backend \in Backends
    PROVE  (IF backend # "unknown" THEN table[t][backend] ELSE Larger(table[t].cuda, table[t].metal)) \in Nat
<1>1. PICK r \in [cuda : Nat, metal : Nat] : r = table[t]
  BY DEF Figures
<1>2. r.cuda \in Nat /\ r.metal \in Nat /\ r["cuda"] \in Nat /\ r["metal"] \in Nat
  OBVIOUS
<1>3. CASE backend = "unknown"
  <2>1. Larger(r.cuda, r.metal) \in Nat
    BY <1>2 DEF Larger
  <2>2. QED BY <1>1, <1>3, <2>1
<1>4. CASE backend # "unknown"
  <2>1. r[backend] \in Nat
    BY <1>2, <1>4 DEF Backends
  <2>2. QED BY <1>1, <1>4, <2>1
<1>5. QED BY <1>3, <1>4

\* What a model needs at a window on a backend is a number of bytes.
LEMMA NeedsAre ==
    ASSUME NEW m, OfModel(m), NEW ctx \in Nat, NEW backend \in Backends
    PROVE  /\ ComputeBytes(m, ctx, backend) \in Nat
           /\ MtpCompute(m, ctx, backend) \in Nat
           /\ MtpHost(m, ctx, backend) \in Nat
           /\ KvBytes(m, ctx) \in Nat
           /\ MtpBytes(m, ctx, backend) # Unmeasured =>
                /\ MtpBytes(m, ctx, backend) \in Nat
                /\ MtpCompute(m, ctx, backend) <= MtpBytes(m, ctx, backend)
                /\ m.mtp.on => m.mtp.weights \in Nat /\ m.mtp.weights <= m.total
<1>1. m.compute \in Figures
  BY DEF OfModel, ModelSize
<1>2. PICK d : d = m.mtp
  OBVIOUS
<1>3. /\ d.on \in BOOLEAN /\ d.weights \in Nat /\ d.external \in Nat /\ d.kv \in Nat
      /\ d.compute \in Figures /\ d.host \in Figures
  BY <1>2 DEF OfModel, ModelSize
<1>4. /\ m.kvFixed \in Nat /\ m.raw \in Nat /\ m.csa \in Nat /\ m.hca \in Nat /\ m.kv \in Nat
  BY DEF OfModel, ModelSize
<1>5. ComputeBytes(m, ctx, backend) \in Nat
  BY <1>1, MeasuredIs DEF ComputeBytes
<1>6. MtpCompute(m, ctx, backend) \in Nat /\ (~d.on => MtpCompute(m, ctx, backend) = 0)
  <2>1. Measured(d.compute, ctx, backend) \in Nat
    BY <1>3, MeasuredIs
  <2>2. QED BY <1>2, <2>1 DEF MtpCompute
<1>7. MtpHost(m, ctx, backend) \in Nat
  <2>1. PICK t : t = CtxTierOf(ctx)
    OBVIOUS
  <2>2. t \in Tiers \cup {0}
    BY <2>1, TierIs
  <2>3. CASE ~d.on \/ t = 0
    BY <1>2, <2>1, <2>3 DEF MtpHost
  <2>4. CASE ~(~d.on \/ t = 0)
    <3>1. t \in Tiers
      BY <2>2, <2>4
    <3>2. MtpHost(m, ctx, backend) =
            IF backend # "unknown" THEN d.host[t][backend] ELSE Larger(d.host[t].cuda, d.host[t].metal)
      BY <1>2, <2>1, <2>4, Zenon DEF MtpHost
    <3>3. PICK h : h = d.host
      OBVIOUS
    <3>4. (IF backend # "unknown" THEN h[t][backend] ELSE Larger(h[t].cuda, h[t].metal)) \in Nat
      BY <1>3, <3>1, <3>3, HostIs
    <3>5. QED BY <3>2, <3>3, <3>4
  <2>5. QED BY <2>3, <2>4
<1>8. KvBytes(m, ctx) \in Nat
  <2>1. PICK p \in Nat : p = IF m.raw # 0 THEN m.raw + m.csa + m.hca ELSE m.kv
    BY <1>4
  <2>2. ctx * p \in Nat
    OBVIOUS
  <2>3. KvBytes(m, ctx) = m.kvFixed + ctx * p
    BY <2>1 DEF KvBytes
  <2>4. QED BY <1>4, <2>2, <2>3
<1>9. ASSUME MtpBytes(m, ctx, backend) # Unmeasured
      PROVE  /\ MtpBytes(m, ctx, backend) \in Nat
             /\ MtpCompute(m, ctx, backend) <= MtpBytes(m, ctx, backend)
             /\ d.on => d.weights \in Nat /\ d.weights <= m.total
  <2>1. CASE ~d.on
    <3>1. MtpBytes(m, ctx, backend) = 0
      BY <1>2, <2>1 DEF MtpBytes
    <3>2. QED BY <1>6, <2>1, <3>1
  <2>2. CASE d.on
    <3>1. PICK p \in Nat : p = MtpCompute(m, ctx, backend)
      BY <1>6
    <3>2. /\ ~(d.weights > m.total)
          /\ MtpBytes(m, ctx, backend) = d.external + p + d.kv * ctx
      BY <1>2, <1>9, <2>2, <3>1, Zenon DEF MtpBytes
    <3>3. d.kv * ctx \in Nat
      BY <1>3
    <3>4. m.total \in Nat
      BY FieldsAre
    <3>5. d.weights <= m.total
      BY <1>3, <3>2, <3>4
    <3>6. PICK x \in Nat : x = d.kv * ctx
      BY <3>3
    <3>7. MtpBytes(m, ctx, backend) = d.external + p + x
      BY <3>2, <3>6
    <3>8. QED BY <1>3, <3>1, <3>5, <3>7
  <2>3. QED BY <1>3, <2>1, <2>2
<1>10. QED BY <1>2, <1>5, <1>6, <1>7, <1>8, <1>9

\* The largest of some numbers is one of them.
LEMMA MaxOver ==
    ASSUME NEW s \in Seq(Nat), NEW lo \in Nat, NEW hi \in 0..Len(s), NEW V,
           V = {0} \cup {s[l] : l \in (lo + 1)..hi}
    PROVE  Max(V) \in Nat
<1> DEFINE S(k) == {0} \cup {s[l] : l \in (lo + 1)..k}
<1> DEFINE Has(k) == \E x \in S(k) : \A y \in S(k) : x >= y
<1> DEFINE f == [k \in 0..hi |-> Has(k)]
<1> DEFINE T == [k \in 0..hi |-> {TRUE}]
<1>1. f[0] \in T[0]
  <2>1. (lo + 1)..0 = {}
    OBVIOUS
  <2>2. S(0) = {0}
    BY <2>1
  <2>3. Has(0)
    <3>1. 0 \in S(0) /\ \A y \in S(0) : 0 >= y
      <4>1. \A y \in {0} : 0 >= y
        OBVIOUS
      <4> HIDE DEF S
      <4>2. QED BY <2>2, <4>1
    <3> HIDE DEF S
    <3>2. QED BY <3>1
  <2>4. QED BY <2>3
<1>2. ASSUME NEW k \in 1..hi, f[k - 1] \in T[k - 1] PROVE f[k] \in T[k]
  <2>1. k - 1 \in 0..hi /\ k \in 0..hi /\ s[k] \in Nat /\ hi <= Len(s)
    OBVIOUS
  <2>2. Has(k - 1)
    <3> HIDE DEF Has
    <3>1. QED BY <1>2, <2>1
  <2>3. PICK x \in S(k - 1) : \A y \in S(k - 1) : x >= y
    BY <2>2
  <2>4. S(k - 1) \subseteq Nat
    <3>1. \A l \in (lo + 1)..(k - 1) : l \in 1..Len(s) /\ s[l] \in Nat
      BY <2>1
    <3>2. QED BY <3>1
  <2>5. Has(k)
    <3>1. CASE lo + 1 > k
      <4>1. (lo + 1)..k = (lo + 1)..(k - 1)
        BY <3>1
      <4>2. S(k) = S(k - 1)
        BY <4>1
      <4> HIDE DEF S
      <4>3. QED BY <2>3, <4>2
    <3>2. CASE ~(lo + 1 > k)
      <4>1. (lo + 1)..k = ((lo + 1)..(k - 1)) \cup {k}
        BY <3>2
      <4>2. S(k) = S(k - 1) \cup {s[k]}
        BY <4>1
      <4> HIDE DEF S
      <4>3. x \in Nat
        BY <2>3, <2>4
      <4>4. CASE x >= s[k]
        BY <2>3, <4>2, <4>4
      <4>5. CASE ~(x >= s[k])
        <5>1. \A y \in S(k) : s[k] >= y
          BY <2>1, <2>3, <2>4, <4>2, <4>3, <4>5
        <5>2. QED BY <4>2, <5>1
      <4>6. QED BY <4>4, <4>5
    <3>3. QED BY <3>1, <3>2
  <2> HIDE DEF Has
  <2>6. QED BY <2>1, <2>5
<1>3. \A k \in 0..hi : f[k] \in T[k]
  <2>1. hi \in Nat
    OBVIOUS
  <2> HIDE DEF f, T
  <2>2. QED BY <1>1, <1>2, <2>1, Rising
<1>4. hi \in 0..hi
  OBVIOUS
<1>5. Has(hi)
  <2> HIDE DEF Has
  <2>1. QED BY <1>3, <1>4
<1>6. S(hi) \subseteq Nat
  <2>1. \A l \in (lo + 1)..hi : l \in 1..Len(s) /\ s[l] \in Nat
    OBVIOUS
  <2>2. QED BY <2>1
<1>7. V = S(hi)
  OBVIOUS
<1> HIDE DEF S, f, T
<1>8. Max(V) \in S(hi)
  BY <1>5, <1>7, Zenon DEF Max
<1>9. QED BY <1>6, <1>8

-----------------------------------------------------------------------------
(* What an owner of some blocks needs and offers. *)

\* A sum over some blocks is natural, and nothing over none.
LEMMA SumsAre ==
    ASSUME NEW s \in Seq(Nat), NEW lo \in 0..Len(s), NEW hi \in 0..Len(s)
    PROVE  SumOver(s, lo + 1, hi) \in Nat /\ (hi <= lo => SumOver(s, lo + 1, hi) = 0)
<1>1. lo + 1 \in Nat \ {0} /\ s \in Seq(Int)
  OBVIOUS
<1>2. SumOver(s, lo + 1, hi) \in Nat
  BY <1>1, SumIsNat
<1>3. hi <= lo => SumOver(s, lo + 1, hi) = 0
  <2>1. hi <= lo => hi < lo + 1
    OBVIOUS
  <2>2. hi < lo + 1 => SumOver(s, lo + 1, hi) = 0
    BY <1>1, SumIs
  <2>3. QED BY <2>1, <2>2
<1>4. QED BY <1>2, <1>3

\* What the expert cache and the staging of some blocks need is a number of bytes.
LEMMA GeometryIs ==
    ASSUME NEW m, OfModel(m), NEW lo \in 0..NumBlocks(m), NEW hi \in 0..NumBlocks(m)
    PROVE  /\ Geometry(m, lo, hi).slot \in Nat
           /\ Staging(Geometry(m, lo, hi)) \in Nat
           /\ CacheFixed(Geometry(m, lo, hi)) \in Nat
           /\ \A slotted \in Nat : CacheNeed(Geometry(m, lo, hi), slotted) \in Nat
           /\ hi <= lo => Staging(Geometry(m, lo, hi)) = 0
<1>1. /\ m.slot \in Seq(Nat) /\ m.count \in Seq(Nat) /\ m.tensor \in Seq(Nat) /\ Len(m.slot) = NumBlocks(m)
      /\ Len(m.count) = NumBlocks(m) /\ Len(m.tensor) = NumBlocks(m) /\ NumBlocks(m) \in Nat
  BY FieldsAre
<1>2. SumOver(m.slot, lo + 1, hi) \in Nat
  <2>1. PICK s \in Seq(Nat) : s = m.slot /\ Len(s) = NumBlocks(m)
    BY <1>1
  <2>2. SumOver(s, lo + 1, hi) \in Nat
    BY <2>1, SumsAre
  <2>3. QED BY <2>1, <2>2
<1>3. SumOver(m.count, lo + 1, hi) \in Nat /\ (hi <= lo => SumOver(m.count, lo + 1, hi) = 0)
  <2>1. PICK s \in Seq(Nat) : s = m.count /\ Len(s) = NumBlocks(m)
    BY <1>1
  <2>2. SumOver(s, lo + 1, hi) \in Nat /\ (hi <= lo => SumOver(s, lo + 1, hi) = 0)
    BY <2>1, SumsAre
  <2>3. QED BY <2>1, <2>2
<1> DEFINE S == {0} \cup {m.tensor[l] : l \in (lo + 1)..hi}
<1>4. Max(S) \in Nat
  <2>1. PICK s \in Seq(Nat) : s = m.tensor /\ Len(s) = NumBlocks(m)
    BY <1>1
  <2>2. S = {0} \cup {s[l] : l \in (lo + 1)..hi}
    BY <2>1
  <2>3. lo \in Nat /\ hi \in 0..Len(s)
    BY <1>1, <2>1
  <2> HIDE DEF S
  <2>4. QED BY <2>1, <2>2, <2>3, MaxOver
<1>5. PICK g : g = Geometry(m, lo, hi)
  OBVIOUS
<1>6. /\ g.slot = SumOver(m.slot, lo + 1, hi) /\ g.weights = SumOver(m.count, lo + 1, hi)
      /\ g.tensor = Max(S)
  BY <1>5 DEF Geometry
<1>7. g.slot \in Nat /\ g.weights \in Nat /\ g.tensor \in Nat /\ (hi <= lo => g.weights = 0)
  <2> HIDE DEF S
  <2>1. QED BY <1>2, <1>3, <1>4, <1>6
<1>8. Staging(g) \in Nat /\ (hi <= lo => Staging(g) = 0)
  BY <1>7, NeedAssumption DEF Staging
<1>9. CacheFixed(g) \in Nat
  <2>1. PICK w \in Nat, t \in Nat : w = g.weights /\ t = g.tensor
    BY <1>7
  <2>2. (w + 1) * AllocTail \in Nat
    BY NeedAssumption
  <2>3. PICK x \in Nat : x = (w + 1) * AllocTail
    BY <2>2
  <2>4. CacheFixed(g) = IF w = 0 THEN 0 ELSE PoolReserve + t + x
    BY <2>1, <2>3 DEF CacheFixed
  <2>5. QED BY <2>4, NeedAssumption
<1>10. ASSUME NEW slotted \in Nat PROVE CacheNeed(g, slotted) \in Nat
  <2>1. PICK w \in Nat, t \in Nat : w = g.slot /\ t = CacheFixed(g)
    BY <1>7, <1>9
  <2>2. w * slotted \in Nat
    OBVIOUS
  <2>3. CacheNeed(g, slotted) = IF slotted = 0 THEN 0 ELSE t + w * slotted
    BY <2>1 DEF CacheNeed
  <2>4. QED BY <2>2, <2>3
<1>11. QED BY <1>5, <1>7, <1>8, <1>9, <1>10

\* A question about the placement on n machines.
OfPlacing(q, n) ==
    /\ OfModel(q.m) /\ q.ctx \in Nat /\ q.backend \in Backends
    /\ q.nodes \in [1..n -> NodeMem] /\ Len(q.nodes) = n
    /\ q.hostGpu \in Nat /\ q.hostRam \in Nat /\ q.hostRam <= q.nodes[1].ram
    /\ MtpBytes(q.m, q.ctx, q.backend) # Unmeasured

\* The numbers of such a question.
LEMMA PlacingIs ==
    ASSUME NEW n \in Nat \ {0}, NEW q, OfPlacing(q, n)
    PROVE  /\ OfModel(q.m) /\ q.hostGpu \in Nat /\ q.hostRam \in Nat
           /\ NumBlocks(q.m) \in Nat /\ NumBlocks(q.m) > 0 /\ DOMAIN q.nodes = 1..n
           /\ ComputeBytes(q.m, q.ctx, q.backend) \in Nat
           /\ MtpCompute(q.m, q.ctx, q.backend) \in Nat
           /\ MtpBytes(q.m, q.ctx, q.backend) \in Nat
           /\ MtpCompute(q.m, q.ctx, q.backend) <= MtpBytes(q.m, q.ctx, q.backend)
           /\ KvBytes(q.m, q.ctx) \in Nat
           /\ \A i \in 1..n : /\ q.nodes[i].vram \in Nat /\ q.nodes[i].ram \in Nat
                              /\ q.nodes[i].pin \in Nat
<1>1. PICK m : m = q.m
  OBVIOUS
<1>2. PICK ctx, backend : ctx = q.ctx /\ backend = q.backend
  OBVIOUS
<1>3. OfModel(m) /\ ctx \in Nat /\ backend \in Backends /\ MtpBytes(m, ctx, backend) # Unmeasured
  BY <1>1, <1>2 DEF OfPlacing
<1>4. NumBlocks(m) \in Nat /\ NumBlocks(m) > 0
  BY <1>3, FieldsAre
<1>5. /\ ComputeBytes(m, ctx, backend) \in Nat /\ MtpCompute(m, ctx, backend) \in Nat
      /\ MtpBytes(m, ctx, backend) \in Nat
      /\ MtpCompute(m, ctx, backend) <= MtpBytes(m, ctx, backend)
      /\ KvBytes(m, ctx) \in Nat
  BY <1>3, NeedsAre
<1>6. /\ q.hostGpu \in Nat /\ q.hostRam \in Nat /\ DOMAIN q.nodes = 1..n
  BY DEF OfPlacing
<1>7. ASSUME NEW i \in 1..n
      PROVE  q.nodes[i].vram \in Nat /\ q.nodes[i].ram \in Nat /\ q.nodes[i].pin \in Nat
  <2>1. PICK x \in NodeMem : x = q.nodes[i]
    BY DEF OfPlacing
  <2>2. x.vram \in Nat /\ x.ram \in Nat /\ x.pin \in Nat
    BY DEF NodeMem
  <2>3. QED BY <2>1, <2>2
<1>8. QED BY <1>1, <1>2, <1>3, <1>4, <1>5, <1>6, <1>7

\* What an owner of some blocks needs is a number.
LEMMA OwnerBytesIs ==
    ASSUME NEW n \in Nat \ {0}, NEW q, OfPlacing(q, n), NEW i \in 1..n,
           NEW lo \in 0..NumBlocks(q.m), NEW hi \in 0..NumBlocks(q.m)
    PROVE  OwnerBytes(q, i, lo, hi) \in Int
<1>1. PICK m : m = q.m
  OBVIOUS
<1>2. PICK l \in Nat : l = NumBlocks(m) /\ l > 0
  BY <1>1, PlacingIs
<1>3. PICK k \in Nat : k = KvBytes(m, q.ctx)
  BY <1>1, PlacingIs
<1>4. PICK c \in Nat, t \in Nat, b \in Nat :
          /\ c = ComputeBytes(m, q.ctx, q.backend) /\ t = MtpCompute(m, q.ctx, q.backend)
          /\ b = MtpBytes(m, q.ctx, q.backend)
  BY <1>1, PlacingIs
<1>5. PICK w \in Nat : w = SumOver(m.weights, lo + 1, hi)
  <2>1. OfModel(m)
    BY <1>1, PlacingIs
  <2>2. m.weights \in Seq(Nat) /\ Len(m.weights) = l
    BY <1>2, <2>1, FieldsAre
  <2>3. PICK s \in Seq(Nat) : s = m.weights /\ Len(s) = l
    BY <2>2
  <2>4. SumOver(s, lo + 1, hi) \in Nat
    BY <1>1, <1>2, <2>3, SumsAre
  <2>5. QED BY <2>3, <2>4
<1>6. PICK s \in Nat, p \in Nat, h \in Nat : s = m.shared /\ p = m.mmproj /\ h = q.hostGpu
  <2>1. OfModel(m) /\ q.hostGpu \in Nat
    BY <1>1, PlacingIs
  <2>2. m.shared \in Nat /\ m.mmproj \in Nat
    BY <2>1, FieldsAre
  <2>3. QED BY <2>1, <2>2
<1>7. PICK v \in Int : v = CeilDiv(k * (hi - lo), l)
  <2>1. hi - lo \in Int
    BY <1>1, <1>2
  <2>2. k * (hi - lo) \in Int
    BY <2>1
  <2>3. PICK x \in Int : x = k * (hi - lo)
    BY <2>2
  <2>4. (x + l - 1) \div l \in Int
    BY <1>2
  <2>5. QED BY <2>3, <2>4 DEF CeilDiv
<1>8. OwnerBytes(q, i, lo, hi) = Overhead + w + c + t + v + (IF i = 1 THEN s + p + h + b - t ELSE 0)
  BY <1>1, <1>2, <1>3, <1>4, <1>5, <1>6, <1>7 DEF OwnerBytes
<1>9. QED BY <1>8, NeedAssumption

\* What stays on its GPU is no less than what it needs when no expert is moved.
LEMMA OnGpuIs ==
    ASSUME NEW n \in Nat \ {0}, NEW q, OfPlacing(q, n), NEW i \in 1..n,
           NEW lo \in 0..NumBlocks(q.m), NEW hi \in 0..NumBlocks(q.m), NEW c \in 0..NumBlocks(q.m)
    PROVE  /\ SumOver(q.m.experts, lo + 1, c) \in Nat
           /\ OnGpu(q, i, lo, hi, c) \in Nat
           /\ lo = c => /\ SumOver(q.m.experts, lo + 1, c) = 0
                        /\ OwnerBytes(q, i, lo, hi) <= OnGpu(q, i, lo, hi, c)
                        /\ OnGpu(q, i, lo, hi, c) = Floor0(OwnerBytes(q, i, lo, hi))
<1>1. PICK m : m = q.m
  OBVIOUS
<1>2. OfModel(m)
  BY <1>1, PlacingIs
<1>3. PICK e \in Seq(Nat) : e = m.experts /\ Len(e) = NumBlocks(m)
  BY <1>2, FieldsAre
<1>4. lo \in 0..NumBlocks(m) /\ c \in 0..NumBlocks(m)
  BY <1>1
<1>5. SumOver(e, lo + 1, c) \in Nat /\ (c <= lo => SumOver(e, lo + 1, c) = 0)
  BY <1>3, <1>4, SumsAre
<1>6. Staging(Geometry(m, lo, c)) \in Nat /\ (c <= lo => Staging(Geometry(m, lo, c)) = 0)
  BY <1>2, <1>4, GeometryIs
<1>7. PICK x \in Nat, z \in Nat : x = SumOver(e, lo + 1, c) /\ z = Staging(Geometry(m, lo, c))
  BY <1>5, <1>6
<1>8. PICK b \in Int : b = OwnerBytes(q, i, lo, hi)
  BY OwnerBytesIs
<1>9. OnGpu(q, i, lo, hi, c) = Floor0(b - x) + z
  BY <1>1, <1>3, <1>7, <1>8 DEF OnGpu, Rest
<1>10. Floor0(b - x) + z \in Nat
  BY DEF Floor0
<1>11. ASSUME lo = c PROVE x = 0 /\ z = 0 /\ Floor0(b - x) + z = Floor0(b) /\ b <= Floor0(b)
  <2>1. x = 0 /\ z = 0
    <3>1. c <= lo
      BY <1>4, <1>2, <1>11, FieldsAre
    <3>2. QED BY <1>5, <1>6, <1>7, <3>1
  <2>2. QED BY <2>1 DEF Floor0
<1>12. QED BY <1>1, <1>3, <1>7, <1>8, <1>9, <1>10, <1>11

\* What is within a machine's cap, the draft head's workspace taken off, is in what it offers.
LEMMA CapIsRam ==
    ASSUME NEW node \in NodeMem, NEW host \in Nat, host <= node.ram, NEW x \in Nat,
           x <= RamCap(LessHost(node, host)) \/ (host = 0 /\ x <= RamCap(node))
    PROVE  InRam(node, x, host)
<1>1. node.ram \in Nat /\ node.pin \in Nat
  BY DEF NodeMem
<1>2. CASE host = 0 /\ x <= RamCap(node)
  BY <1>1, <1>2 DEF RamCap, Smaller, InRam
<1>3. CASE x <= RamCap(LessHost(node, host))
  <2>1. PICK o : o = LessHost(node, host)
    OBVIOUS
  <2>2. o.ram = node.ram - host
    BY <2>1 DEF LessHost, NodeMem
  <2>3. o.pin = IF node.pin = 0 THEN 0 ELSE IF node.pin > host THEN node.pin - host ELSE 1
    BY <2>1 DEF LessHost, NodeMem
  <2>4. PICK r \in Nat, p \in Nat : r = node.ram /\ p = node.pin
    BY <1>1
  <2>5. x <= r - host
    <3>1. x <= IF o.pin > 0 THEN Smaller(o.ram, o.pin) ELSE o.ram
      BY <1>3, <2>1 DEF RamCap
    <3>2. PICK y \in Int : y = o.ram /\ y = r - host
      BY <2>2, <2>4
    <3>3. PICK z \in Int : z = o.pin
      BY <2>3, <2>4
    <3>4. QED BY <3>1, <3>2, <3>3 DEF Smaller
  <2>6. p > 0 => x <= p
    <3>1. ASSUME p > 0 PROVE x <= p
      <4>1. PICK z \in Int : z = o.pin /\ z > 0 /\ z <= p
        BY <2>3, <2>4, <3>1
      <4>2. x <= Smaller(o.ram, z)
        BY <1>3, <2>1, <4>1 DEF RamCap
      <4>3. PICK y \in Int : y = o.ram
        BY <2>2, <2>4
      <4>4. QED BY <4>1, <4>2, <4>3 DEF Smaller
    <3>2. QED BY <3>1
  <2>7. QED BY <2>4, <2>5, <2>6 DEF InRam
<1>4. QED BY <1>2, <1>3

\* The RAM that is offered is a number.
LEMMA CapIsInt ==
    ASSUME NEW node \in NodeMem, NEW host \in Nat
    PROVE  RamCap(node) \in Int /\ RamCap(LessHost(node, host)) \in Int
<1>1. node.ram \in Nat /\ node.pin \in Nat
  BY DEF NodeMem
<1>2. RamCap(node) \in Int
  BY <1>1 DEF RamCap, Smaller
<1>3. PICK o : o = LessHost(node, host)
  OBVIOUS
<1>4. o.ram = node.ram - host
  BY <1>3 DEF LessHost, NodeMem
<1>5. o.pin = IF node.pin = 0 THEN 0 ELSE IF node.pin > host THEN node.pin - host ELSE 1
  BY <1>3 DEF LessHost, NodeMem
<1>6. o.ram \in Int /\ o.pin \in Int
  BY <1>1, <1>4, <1>5
<1>7. RamCap(o) \in Int
  BY <1>6 DEF RamCap, Smaller
<1>8. QED BY <1>2, <1>3, <1>7

\* What fits an owner fits the machine it is, beside the draft head on the first.
LEMMA OwnerIs ==
    ASSUME NEW n \in Nat \ {0}, NEW q, OfPlacing(q, n), NEW i \in 1..n
    PROVE  /\ Owner(q, i).vram = q.nodes[i].vram
           /\ \A x \in Nat : x <= RamCap(Owner(q, i)) =>
                InRam(q.nodes[i], x, IF i = 1 THEN q.hostRam ELSE 0)
           /\ InRam(q.nodes[i], 0, IF i = 1 THEN q.hostRam ELSE 0)
<1>1. PICK node \in NodeMem : node = q.nodes[i]
  BY DEF OfPlacing
<1>2. PICK host \in Nat : host = q.hostRam /\ (i = 1 => host <= node.ram)
  BY <1>1 DEF OfPlacing
<1>3. node.ram \in Nat /\ node.pin \in Nat
  BY DEF NodeMem
<1>4. CASE i = 1
  <2>1. Owner(q, i) = LessHost(node, host)
    BY <1>1, <1>2, <1>4 DEF Owner
  <2>2. LessHost(node, host).vram = node.vram
    BY DEF LessHost, NodeMem
  <2>3. ASSUME NEW x \in Nat, x <= RamCap(LessHost(node, host)) PROVE InRam(node, x, host)
    BY <1>2, <1>4, <2>3, CapIsRam
  <2>4. InRam(node, 0, host)
    BY <1>2, <1>3, <1>4 DEF InRam
  <2>5. QED BY <1>1, <1>2, <1>4, <2>1, <2>2, <2>3, <2>4
<1>5. CASE i # 1
  <2>1. Owner(q, i) = node
    BY <1>1, <1>5 DEF Owner
  <2>2. ASSUME NEW x \in Nat, x <= RamCap(node) PROVE InRam(node, x, 0)
    <3>1. 0 \in Nat /\ 0 <= node.ram
      BY <1>3
    <3>2. QED BY <2>2, <3>1, CapIsRam
  <2>3. InRam(node, 0, 0)
    BY <1>3 DEF InRam
  <2>4. QED BY <1>1, <1>5, <2>1, <2>2, <2>3
<1>6. QED BY <1>4, <1>5

\* The prefix an owner moves into its RAM fits there, and what is left fits its GPU.
Spilled(q, i, lo, hi, c) ==
    /\ c \in lo..hi
    /\ OnGpu(q, i, lo, hi, c) <= q.nodes[i].vram
    /\ InRam(q.nodes[i], SumOver(q.m.experts, lo + 1, c), IF i = 1 THEN q.hostRam ELSE 0)

\* The shortest prefix that fits, fits.
LEMMA SpillFits ==
    ASSUME NEW n \in Nat \ {0}, NEW q, OfPlacing(q, n), NEW i \in 1..n, NEW slotted \in Nat,
           NEW lo \in 0..NumBlocks(q.m), NEW hi \in lo..NumBlocks(q.m), NEW c,
           c = SpillEnd(q, i, lo, hi, slotted), c # -1
    PROVE  Spilled(q, i, lo, hi, c)
<1> DEFINE fits == {k \in lo..hi : Gate(q, i, lo, hi, k, slotted) <= Owner(q, i).vram}
<1>1. NumBlocks(q.m) \in Nat
  BY PlacingIs
<1>2. PICK v \in Nat : v = q.nodes[i].vram /\ v = Owner(q, i).vram
  <2>1. q.nodes[i].vram \in Nat
    BY PlacingIs
  <2>2. Owner(q, i).vram = q.nodes[i].vram
    BY OwnerIs
  <2>3. QED BY <2>1, <2>2
<1>3. /\ lo \in fits => c = lo
      /\ lo \notin fits => /\ fits # {} /\ c = Min(fits)
                          /\ ~(SumOver(q.m.experts, lo + 1, c) > RamCap(Owner(q, i)))
  <2>1. c = ShortestFit(q.m, Owner(q, i), lo, fits)
    BY DEF SpillEnd
  <2> HIDE DEF fits
  <2>2. QED BY <2>1 DEF ShortestFit
<1>4. c \in fits
  <2>1. CASE lo \in fits
    BY <1>3, <2>1
  <2>2. CASE lo \notin fits
    <3>1. fits \subseteq Nat /\ fits # {}
      BY <1>1, <1>3, <2>2
    <3> HIDE DEF fits
    <3>2. QED BY <1>3, <2>2, <3>1, LeastIsMin
  <2>3. QED BY <2>1, <2>2
<1>5. c \in lo..hi /\ c \in 0..NumBlocks(q.m) /\ lo \in 0..NumBlocks(q.m) /\ hi \in 0..NumBlocks(q.m)
      /\ Gate(q, i, lo, hi, c, slotted) <= v
  BY <1>1, <1>2, <1>4
<1>6. PICK x \in Nat, g \in Nat : x = SumOver(q.m.experts, lo + 1, c) /\ g = OnGpu(q, i, lo, hi, c)
  BY <1>5, OnGpuIs
<1>7. CASE c = lo
  <2>1. x = 0 /\ g = Floor0(OwnerBytes(q, i, lo, hi))
    BY <1>5, <1>6, <1>7, OnGpuIs
  <2>2. Gate(q, i, lo, hi, c, slotted) = OwnerBytes(q, i, lo, hi)
    BY <1>7 DEF Gate
  <2>3. PICK b \in Int : b = OwnerBytes(q, i, lo, hi)
    BY <1>5, OwnerBytesIs
  <2>4. g <= v
    <3>1. b <= v /\ g = Floor0(b)
      BY <1>5, <2>1, <2>2, <2>3
    <3>2. QED BY <3>1 DEF Floor0
  <2>5. InRam(q.nodes[i], 0, IF i = 1 THEN q.hostRam ELSE 0)
    BY OwnerIs
  <2>6. QED BY <1>2, <1>5, <1>6, <2>1, <2>4, <2>5 DEF Spilled
<1>8. CASE c # lo
  <2>1. Gate(q, i, lo, hi, c, slotted) = g + CacheNeed(Geometry(q.m, lo, c), slotted)
    BY <1>6, <1>8 DEF Gate
  <2>2. PICK y \in Nat : y = CacheNeed(Geometry(q.m, lo, c), slotted)
    <3>1. OfModel(q.m)
      BY PlacingIs
    <3>2. CacheNeed(Geometry(q.m, lo, c), slotted) \in Nat
      <4>1. PICK m : m = q.m
        OBVIOUS
      <4>2. CacheNeed(Geometry(m, lo, c), slotted) \in Nat
        BY <1>5, <3>1, <4>1, GeometryIs
      <4>3. QED BY <4>1, <4>2
    <3>3. QED BY <3>2
  <2>3. g <= v
    BY <1>5, <2>1, <2>2
  <2>4. lo \notin fits
    <3> HIDE DEF fits
    <3>1. QED BY <1>3, <1>8
  <2>5. ~(x > RamCap(Owner(q, i)))
    <3> HIDE DEF fits
    <3>1. QED BY <1>3, <1>6, <2>4
  <2>6. x <= RamCap(Owner(q, i))
    <3>1. RamCap(Owner(q, i)) \in Int
      <4>1. PICK node \in NodeMem : node = q.nodes[i]
        BY DEF OfPlacing
      <4>2. PICK h \in Nat : h = q.hostRam
        BY DEF OfPlacing
      <4>3. PICK o : o = Owner(q, i)
        OBVIOUS
      <4>4. o = node \/ o = LessHost(node, h)
        BY <4>1, <4>2, <4>3 DEF Owner
      <4>5. QED BY <4>3, <4>4, CapIsInt
    <3>2. QED BY <2>5, <3>1
  <2>7. InRam(q.nodes[i], x, IF i = 1 THEN q.hostRam ELSE 0)
    BY <2>6, OwnerIs
  <2>8. QED BY <1>2, <1>5, <1>6, <2>3, <2>7 DEF Spilled
<1>9. QED BY <1>7, <1>8

\* A sum over more blocks is no less.
LEMMA SumsRise ==
    ASSUME NEW s \in Seq(Nat), NEW lo \in 0..Len(s), NEW k \in 0..Len(s), NEW j \in 0..k
    PROVE  SumOver(s, lo + 1, j) <= SumOver(s, lo + 1, k)
<1> DEFINE f == [x \in 0..Len(s) |-> SumOver(s, lo + 1, x)]
<1> DEFINE T == [x \in 0..Len(s) |-> {y \in Nat : \A z \in 0..x : SumOver(s, lo + 1, z) <= y}]
<1>1. Len(s) \in Nat /\ s \in Seq(Int) /\ lo + 1 \in Nat \ {0}
  OBVIOUS
<1>2. \A x \in 0..Len(s) : SumOver(s, lo + 1, x) \in Nat
  BY <1>1, SumIsNat
<1>3. f[0] \in T[0]
  <2>1. 0 \in 0..Len(s) /\ \A z \in 0..0 : z = 0
    BY <1>1
  <2>2. SumOver(s, lo + 1, 0) \in Nat
    BY <1>2, <2>1
  <2>3. QED BY <2>1, <2>2
<1>4. ASSUME NEW x \in 1..Len(s), f[x - 1] \in T[x - 1] PROVE f[x] \in T[x]
  <2>1. x \in 0..Len(s) /\ x - 1 \in 0..Len(s) /\ s[x] \in Nat
    BY <1>1
  <2>2. PICK y \in Nat, w \in Nat : y = SumOver(s, lo + 1, x) /\ w = SumOver(s, lo + 1, x - 1)
    BY <1>2, <2>1
  <2>3. \A z \in 0..(x - 1) : SumOver(s, lo + 1, z) <= w
    BY <1>4, <2>1, <2>2
  <2>4. w <= y
    <3>1. CASE x < lo + 1
      <4>1. y = 0 /\ w = 0
        BY <1>1, <2>1, <2>2, <3>1, SumIs
      <4>2. QED BY <4>1
    <3>2. CASE lo + 1 <= x
      <4>1. y = w + s[x]
        BY <1>1, <2>1, <2>2, <3>2, SumIs
      <4>2. QED BY <2>1, <2>2, <4>1
    <3>3. QED BY <1>1, <2>1, <3>1, <3>2
  <2>5. \A z \in 0..x : SumOver(s, lo + 1, z) <= y
    <3>1. ASSUME NEW z \in 0..x PROVE SumOver(s, lo + 1, z) <= y
      <4>1. CASE z = x
        BY <2>2, <4>1
      <4>2. CASE z # x
        <5>1. z \in 0..(x - 1) /\ z \in 0..Len(s)
          BY <2>1, <4>2
        <5>2. PICK v \in Nat : v = SumOver(s, lo + 1, z)
          BY <1>2, <5>1
        <5>3. QED BY <2>2, <2>3, <2>4, <5>1, <5>2
      <4>3. QED BY <4>1, <4>2
    <3>2. QED BY <3>1
  <2>6. QED BY <2>1, <2>2, <2>5
<1>5. \A x \in 0..Len(s) : f[x] \in T[x]
  <2> HIDE DEF f, T
  <2>1. QED BY <1>1, <1>3, <1>4, Rising
<1>6. QED BY <1>5

\* The RAM offered by an owner is a number.
LEMMA OwnerCapIs ==
    ASSUME NEW n \in Nat \ {0}, NEW q, OfPlacing(q, n), NEW i \in 1..n
    PROVE  RamCap(Owner(q, i)) \in Int
<1>1. PICK node \in NodeMem : node = q.nodes[i]
  BY DEF OfPlacing
<1>2. PICK h \in Nat : h = q.hostRam
  BY DEF OfPlacing
<1>3. PICK o : o = Owner(q, i)
  OBVIOUS
<1>4. o = node \/ o = LessHost(node, h)
  <2>1. CASE i = 1
    BY <1>1, <1>2, <1>3, <2>1 DEF Owner
  <2>2. CASE i # 1
    BY <1>1, <1>2, <1>3, <2>2 DEF Owner
  <2>3. QED BY <2>1, <2>2
<1>5. QED BY <1>3, <1>4, CapIsInt

\* An owner that can hold some blocks is found the shortest prefix, and with it the least RAM.
LEMMA SpillLeast ==
    ASSUME NEW n \in Nat \ {0}, NEW q, OfPlacing(q, n), NEW i \in 1..n, NEW slotted \in Nat,
           NEW lo \in 0..NumBlocks(q.m), NEW hi \in lo..NumBlocks(q.m),
           RamUsed(q, i, lo, hi, slotted) # {}
    PROVE  /\ SpillEnd(q, i, lo, hi, slotted) \in lo..hi
           /\ Min(RamUsed(q, i, lo, hi, slotted)) \in Nat
           /\ Min(RamUsed(q, i, lo, hi, slotted))
                = SumOver(q.m.experts, lo + 1, SpillEnd(q, i, lo, hi, slotted))
<1> DEFINE Ram(c) == SumOver(q.m.experts, lo + 1, c)
<1> DEFINE Can(c) == OwnerCan(q, i, lo, hi, c, slotted)
<1> DEFINE fits == {k \in lo..hi : Gate(q, i, lo, hi, k, slotted) <= Owner(q, i).vram}
<1> DEFINE used == RamUsed(q, i, lo, hi, slotted)
<1>1. PICK L \in Nat : L = NumBlocks(q.m)
  BY PlacingIs
<1>2. PICK e \in Seq(Nat) : e = q.m.experts /\ Len(e) = L
  <2>1. OfModel(q.m)
    BY PlacingIs
  <2>2. PICK m : m = q.m /\ OfModel(m)
    BY <2>1
  <2>3. m.experts \in Seq(Nat) /\ Len(m.experts) = NumBlocks(m)
    BY <2>2, FieldsAre
  <2>4. QED BY <1>1, <2>2, <2>3
<1>3. lo \in 0..L /\ hi \in lo..L /\ hi \in 0..L
  BY <1>1
<1>4. \A c \in lo..hi : c \in 0..L /\ Ram(c) \in Nat
  <2>1. ASSUME NEW c \in lo..hi PROVE c \in 0..L /\ SumOver(e, lo + 1, c) \in Nat
    <3>1. c \in 0..L
      BY <1>3
    <3>2. QED BY <1>2, <1>3, <3>1, SumsAre
  <2>2. QED BY <1>2, <2>1
<1>5. ASSUME NEW c \in lo..hi, NEW d \in lo..c PROVE Ram(d) <= Ram(c)
  <2>1. c \in 0..Len(e) /\ d \in 0..c /\ lo \in 0..Len(e)
    BY <1>2, <1>3
  <2>2. SumOver(e, lo + 1, d) <= SumOver(e, lo + 1, c)
    BY <2>1, SumsRise
  <2>3. QED BY <1>2, <2>2
<1>6. used = {Ram(c) : c \in {x \in lo..hi : Can(x)}}
  BY Zenon DEF RamUsed
<1>7. \A c \in lo..hi : Can(c) <=> /\ c \in fits
                                   /\ c > lo => HoldsExperts(Owner(q, i)) /\ Ram(c) <= RamCap(Owner(q, i))
  BY DEF OwnerCan
<1>8. PICK r \in Int : r = RamCap(Owner(q, i))
  BY OwnerCapIs
<1>9. PICK end : end = SpillEnd(q, i, lo, hi, slotted)
  OBVIOUS
<1>10. end = ShortestFit(q.m, Owner(q, i), lo, fits)
  BY <1>9 DEF SpillEnd
<1>11. used \subseteq Nat /\ used # {}
  <2> HIDE DEF Ram, Can, used
  <2>1. QED BY <1>4, <1>6 DEF used
<1>12. fits \subseteq lo..hi
  OBVIOUS
<1>13. end \in lo..hi /\ Can(end) /\ \A c \in lo..hi : Can(c) => Ram(end) <= Ram(c)
  <2>1. CASE lo \in fits
    <3>1. end = lo
      BY <1>10, <2>1 DEF ShortestFit
    <3>2. lo \in lo..hi /\ ~(lo > lo)
      BY <1>3
    <3>3. Can(lo)
      <4> HIDE DEF fits, Can
      <4>1. QED BY <1>7, <2>1, <3>2
    <3>4. \A c \in lo..hi : Ram(lo) <= Ram(c)
      <4>1. \A c \in lo..hi : lo \in lo..c
        BY <1>3
      <4> HIDE DEF Ram
      <4>2. QED BY <1>5, <4>1
    <3> HIDE DEF Ram, Can, fits
    <3>5. QED BY <3>1, <3>2, <3>3, <3>4
  <2>2. CASE lo \notin fits
    <3>1. PICK c \in lo..hi : Can(c)
      <4> HIDE DEF Ram, Can, used
      <4>1. QED BY <1>6, <1>11
    <3>2. fits # {} /\ \A x \in lo..hi : Can(x) => x \in fits /\ x > lo
      <4>1. \A x \in lo..hi : Can(x) => x \in fits
        <5> HIDE DEF Can, fits
        <5>1. QED BY <1>7
      <4>2. \A x \in fits : x > lo
        <5>1. \A x \in fits : x \in lo..hi /\ x # lo
          BY <2>2
        <5> HIDE DEF fits
        <5>2. QED BY <1>3, <5>1
      <4> HIDE DEF Can, fits
      <4>3. QED BY <3>1, <4>1, <4>2
    <3>3. fits \subseteq Nat
      <4> HIDE DEF fits
      <4>1. QED BY <1>3, <1>12
    <3>4. Min(fits) \in fits /\ \A k \in fits : Min(fits) <= k
      <4> HIDE DEF fits
      <4>1. QED BY <3>2, <3>3, LeastIsMin
    <3>5. PICK b : b = Min(fits)
      OBVIOUS
    <3> HIDE DEF fits
    <3>6. b \in lo..hi /\ b \in fits /\ \A x \in lo..hi : Can(x) => b \in lo..x
      <4>1. b \in fits /\ b \in lo..hi
        BY <1>12, <3>4, <3>5
      <4>2. ASSUME NEW x \in lo..hi, Can(x) PROVE b \in lo..x
        <5>1. x \in fits
          BY <3>2, <4>2
        <5>2. b <= x
          BY <3>4, <3>5, <5>1
        <5>3. QED BY <1>3, <4>1, <5>2
      <4> HIDE DEF Can
      <4>3. QED BY <4>1, <4>2
    <3>7. \A x \in lo..hi : Can(x) => Ram(b) <= Ram(x)
      <4> HIDE DEF Ram, Can
      <4>1. QED BY <1>5, <3>6
    <3>8. HoldsExperts(Owner(q, i)) /\ Ram(c) <= r
      <4> HIDE DEF Ram, Can
      <4>1. QED BY <1>7, <1>8, <3>1, <3>2
    <3>9. Ram(b) <= r
      <4>1. PICK x \in Nat, y \in Nat : x = Ram(b) /\ y = Ram(c)
        <5> HIDE DEF Ram, Can
        <5>1. QED BY <1>4, <3>6
      <4>2. x <= y /\ y <= r
        <5> HIDE DEF Ram, Can
        <5>1. QED BY <3>1, <3>7, <3>8, <4>1
      <4>3. QED BY <4>1, <4>2
    <3>10. end = b
      <4>1. PICK x \in Nat : x = Ram(b)
        <5> HIDE DEF Ram, Can
        <5>1. QED BY <1>4, <3>6
      <4>2. ~(x > r)
        BY <3>9, <4>1
      <4>3. ~(Ram(b) > RamCap(Owner(q, i)))
        <5> HIDE DEF Ram
        <5>1. QED BY <1>8, <4>1, <4>2
      <4>4. QED BY <1>10, <2>2, <3>2, <3>5, <3>8, <4>3 DEF ShortestFit
    <3>11. Can(b)
      <4> HIDE DEF Ram, Can
      <4>1. QED BY <1>7, <1>8, <3>6, <3>8, <3>9
    <3> HIDE DEF Ram, Can
    <3>12. QED BY <3>6, <3>7, <3>10, <3>11
  <2>3. QED BY <2>1, <2>2
<1>14. Min(used) = Ram(end) /\ Min(used) \in Nat
  <2>1. Min(used) \in used /\ \A k \in used : Min(used) <= k
    <3> HIDE DEF used
    <3>1. QED BY <1>11, LeastIsMin
  <2> HIDE DEF used, Ram, Can
  <2>2. Ram(end) \in used
    BY <1>6, <1>13
  <2>3. PICK c \in lo..hi : Can(c) /\ Min(used) = Ram(c)
    BY <1>6, <2>1
  <2>4. Ram(end) <= Ram(c) /\ Ram(c) <= Ram(end)
    BY <1>13, <2>1, <2>2, <2>3
  <2>5. Ram(end) \in Nat /\ Ram(c) \in Nat
    BY <1>4, <1>13
  <2>6. QED BY <2>3, <2>4, <2>5
<1>15. QED BY <1>9, <1>13, <1>14

-----------------------------------------------------------------------------
(* The ranges the dynamic program finds. *)

\* The cells of the table.
Cells == [cost : Nat \cup {-1}, worst : Nat, lo : Int, spillEnd : Int]

\* The least costly of some cells is one of them: there is a least by cost, by worst and by lo.
\* None of them costs less.
LEMMA LeastCostlyIs ==
    ASSUME NEW cells, cells \subseteq Cells, cells # {},
           \A x \in cells : x.cost \in Nat /\ x.lo \in Nat
    PROVE  LeastCostly(cells) \in cells /\ \A x \in cells : LeastCostly(cells).cost <= x.cost
<1> DEFINE Costs == {x.cost : x \in cells}
<1>1. PICK u \in cells : \A y \in cells : u.cost <= y.cost
  <2>1. Costs \subseteq Nat /\ Costs # {}
    OBVIOUS
  <2>2. PICK k \in Costs : \A l \in Costs : k <= l
    <3> HIDE DEF Costs
    <3>1. QED BY <2>1, LeastOf
  <2>3. QED BY <2>2
<1> DEFINE Cheap == {x \in cells : x.cost = u.cost}
<1> DEFINE Worsts == {x.worst : x \in Cheap}
<1>2. PICK v \in Cheap : \A y \in Cheap : v.worst <= y.worst
  <2>1. Worsts \subseteq Nat /\ Worsts # {}
    <3>1. \A x \in cells : x.worst \in Nat
      BY DEF Cells
    <3>2. u \in Cheap
      OBVIOUS
    <3>3. QED BY <3>1, <3>2
  <2>2. PICK k \in Worsts : \A l \in Worsts : k <= l
    <3> HIDE DEF Worsts
    <3>1. QED BY <2>1, LeastOf
  <2>3. QED BY <2>2
<1> DEFINE Good == {x \in Cheap : x.worst = v.worst}
<1> DEFINE Los == {x.lo : x \in Good}
<1>3. PICK w \in Good : \A y \in Good : w.lo <= y.lo
  <2>1. Los \subseteq Nat /\ Los # {}
    <3>1. v \in Good
      OBVIOUS
    <3>2. QED BY <3>1
  <2>2. PICK k \in Los : \A l \in Los : k <= l
    <3> HIDE DEF Los
    <3>1. QED BY <2>1, LeastOf
  <2>3. QED BY <2>2
<1>4. w \in cells /\ w.cost = u.cost /\ w.worst = v.worst
  OBVIOUS
<1>5. ASSUME NEW y \in cells
      PROVE  \/ w.cost < y.cost
             \/ w.cost = y.cost /\ w.worst < y.worst
             \/ w.cost = y.cost /\ w.worst = y.worst /\ w.lo <= y.lo
  <2>1. u.cost \in Nat /\ y.cost \in Nat /\ u.cost <= y.cost
    BY <1>1
  <2>2. v.worst \in Nat /\ y.worst \in Nat
    BY DEF Cells
  <2>3. y \in Cheap => v.worst <= y.worst
    BY <1>2
  <2>4. y \in Good => w.lo <= y.lo
    BY <1>3
  <2>5. CASE u.cost < y.cost
    BY <1>4, <2>5
  <2>6. CASE y.cost = u.cost
    <3>1. y \in Cheap
      BY <2>6
    <3>2. CASE v.worst < y.worst
      BY <1>4, <2>6, <3>2
    <3>3. CASE y.worst = v.worst
      <4>1. y \in Good
        BY <3>1, <3>3
      <4>2. QED BY <1>4, <2>4, <2>6, <3>3, <4>1
    <3>4. QED BY <2>2, <2>3, <3>1, <3>2, <3>3
  <2>7. QED BY <2>1, <2>5, <2>6
<1>6. \E x \in cells : \A y \in cells :
          \/ x.cost < y.cost
          \/ x.cost = y.cost /\ x.worst < y.worst
          \/ x.cost = y.cost /\ x.worst = y.worst /\ x.lo <= y.lo
  <2> HIDE DEF Costs, Cheap, Worsts, Good, Los
  <2>1. QED BY <1>4, <1>5
<1> HIDE DEF Costs, Cheap, Worsts, Good, Los
<1> DEFINE Before(x, y) ==
          \/ x.cost < y.cost
          \/ x.cost = y.cost /\ x.worst < y.worst
          \/ x.cost = y.cost /\ x.worst = y.worst /\ x.lo <= y.lo
<1>7. LeastCostly(cells) \in cells /\ \A y \in cells : Before(LeastCostly(cells), y)
  BY <1>6, Zenon DEF LeastCostly
<1>8. PICK x \in cells : x = LeastCostly(cells) /\ \A y \in cells : Before(x, y)
  BY <1>7
<1>9. ASSUME NEW y \in cells PROVE x.cost <= y.cost
  <2>1. Before(x, y) /\ x.cost \in Nat /\ y.cost \in Nat
    BY <1>8
  <2>2. QED BY <2>1
<1>10. QED BY <1>8, <1>9

\* A cell of owner i that ends at block hi continues one of the row before.
Led(q, before, i, hi, r) ==
    /\ r.lo \in (i - 1)..(hi - 1)
    /\ before[r.lo].cost >= 0
    /\ Spilled(q, i, r.lo, hi, r.spillEnd)
    /\ r.cost = before[r.lo].cost + SumOver(q.m.experts, r.lo + 1, r.spillEnd)

\* The cell found for an owner and an end is such a cell, and no range of the owner that ends
\* there costs less.
LEMMA BestRangeIs ==
    ASSUME NEW n \in Nat \ {0}, NEW q, OfPlacing(q, n), NEW i \in 1..n, NEW slotted \in Nat,
           NEW before \in [0..NumBlocks(q.m) -> Cells], NEW hi \in i..NumBlocks(q.m)
    PROVE  /\ BestRange(q, before, i, hi, slotted) \in Cells
           /\ BestRange(q, before, i, hi, slotted).cost >= 0 =>
                Led(q, before, i, hi, BestRange(q, before, i, hi, slotted))
           /\ \A lo \in (i - 1)..(hi - 1) :
                before[lo].cost >= 0 /\ RamUsed(q, i, lo, hi, slotted) # {} =>
                    BestRange(q, before, i, hi, slotted).cost
                      \in 0..(before[lo].cost + Min(RamUsed(q, i, lo, hi, slotted)))
<1> DEFINE Cell(lo) == RangeFrom(q, i, lo, hi, SpillEnd(q, i, lo, hi, slotted), before[lo])
<1> DEFINE usable == {lo \in (i - 1)..(hi - 1) :
                        before[lo].cost >= 0 /\ SpillEnd(q, i, lo, hi, slotted) >= 0}
<1> DEFINE found == {Cell(lo) : lo \in usable}
<1>1. NumBlocks(q.m) \in Nat
  BY PlacingIs
<1>2. ASSUME NEW lo \in usable
      PROVE  /\ Cell(lo) \in Cells /\ Cell(lo).cost \in Nat /\ Cell(lo).lo \in Nat
             /\ Led(q, before, i, hi, Cell(lo))
  <2>1. /\ lo \in (i - 1)..(hi - 1) /\ lo \in 0..NumBlocks(q.m) /\ hi \in lo..NumBlocks(q.m)
        /\ hi \in 0..NumBlocks(q.m) /\ before[lo].cost >= 0
    BY <1>1, <1>2
  <2>2. PICK c : c = SpillEnd(q, i, lo, hi, slotted)
    OBVIOUS
  <2>3. c # -1
    BY <1>2, <2>2
  <2>4. Spilled(q, i, lo, hi, c)
    BY <2>1, <2>2, <2>3, SpillFits
  <2>5. c \in lo..hi /\ c \in 0..NumBlocks(q.m)
    <3>1. c \in lo..hi
      BY <2>4 DEF Spilled
    <3>2. QED BY <1>1, <2>1, <3>1
  <2>6. PICK x \in Nat, g \in Nat : x = SumOver(q.m.experts, lo + 1, c) /\ g = OnGpu(q, i, lo, hi, c)
    BY <2>1, <2>5, OnGpuIs
  <2>7. PICK b \in Cells : b = before[lo]
    BY <2>1
  <2>8. b.cost \in Nat /\ b.worst \in Nat
    BY <2>1, <2>7 DEF Cells
  <2>9. Cell(lo) = [cost |-> b.cost + x, worst |-> Larger(g, b.worst), lo |-> lo, spillEnd |-> c]
    BY <2>2, <2>6, <2>7 DEF RangeFrom
  <2>10. PICK r : r = Cell(lo)
    OBVIOUS
  <2>11. b.cost + x \in Nat /\ Larger(g, b.worst) \in Nat
    BY <2>8 DEF Larger
  <2>12. r \in Cells /\ r.cost \in Nat /\ r.lo = lo /\ r.spillEnd = c
    <3>1. lo \in Int /\ c \in Int
      BY <2>1, <2>5
    <3>2. r = [cost |-> b.cost + x, worst |-> Larger(g, b.worst), lo |-> lo, spillEnd |-> c]
      BY <2>9, <2>10
    <3>3. QED BY <2>11, <3>1, <3>2 DEF Cells
  <2>13. lo \in Nat
    BY <2>1
  <2>14. r.cost = before[r.lo].cost + SumOver(q.m.experts, r.lo + 1, r.spillEnd)
    <3>1. r.cost = b.cost + x
      BY <2>9, <2>10
    <3>2. QED BY <2>6, <2>7, <2>12, <3>1
  <2>15. Led(q, before, i, hi, r)
    BY <2>1, <2>4, <2>12, <2>14 DEF Led
  <2>16. QED BY <2>10, <2>12, <2>13, <2>15
<1>3. BestRange(q, before, i, hi, slotted) = LeastCostly(found)
  BY DEF BestRange
<1>4. ASSUME NEW lo \in (i - 1)..(hi - 1), before[lo].cost >= 0, RamUsed(q, i, lo, hi, slotted) # {}
      PROVE  lo \in usable /\ Cell(lo).cost = before[lo].cost + Min(RamUsed(q, i, lo, hi, slotted))
  <2>1. lo \in 0..NumBlocks(q.m) /\ hi \in lo..NumBlocks(q.m)
    BY <1>1
  <2>2. /\ SpillEnd(q, i, lo, hi, slotted) \in lo..hi
        /\ Min(RamUsed(q, i, lo, hi, slotted))
             = SumOver(q.m.experts, lo + 1, SpillEnd(q, i, lo, hi, slotted))
    BY <1>4, <2>1, SpillLeast
  <2>3. SpillEnd(q, i, lo, hi, slotted) >= 0
    BY <1>1, <2>1, <2>2
  <2>4. lo \in usable
    BY <1>4, <2>3
  <2>5. Cell(lo).cost = before[lo].cost + SumOver(q.m.experts, lo + 1, SpillEnd(q, i, lo, hi, slotted))
    BY DEF RangeFrom
  <2> HIDE DEF usable, Cell
  <2>6. QED BY <2>2, <2>4, <2>5
<1>5. CASE usable = {}
  <2>1. found = {}
    BY <1>5
  <2>2. BestRange(q, before, i, hi, slotted) = NoRange
    BY <1>3, <2>1 DEF LeastCostly
  <2>3. NoRange \in Cells /\ ~(NoRange.cost >= 0)
    BY DEF NoRange, Cells
  <2> HIDE DEF usable, Cell, found
  <2>4. QED BY <1>4, <1>5, <2>2, <2>3
<1>6. CASE usable # {}
  <2>1. found \subseteq Cells /\ found # {} /\ \A x \in found : x.cost \in Nat /\ x.lo \in Nat
    <3>1. \A lo \in usable : Cell(lo) \in Cells /\ Cell(lo).cost \in Nat /\ Cell(lo).lo \in Nat
      BY <1>2
    <3> HIDE DEF usable, Cell
    <3>2. QED BY <1>6, <3>1
  <2>2. LeastCostly(found) \in found /\ \A x \in found : LeastCostly(found).cost <= x.cost
    <3> HIDE DEF found
    <3>1. QED BY <2>1, LeastCostlyIs
  <2>3. PICK lo \in usable : LeastCostly(found) = Cell(lo)
    <3> HIDE DEF usable, Cell
    <3>1. QED BY <2>2
  <2>4. PICK r : r = BestRange(q, before, i, hi, slotted) /\ r = Cell(lo)
    BY <1>3, <2>3
  <2>5. r \in Cells /\ Led(q, before, i, hi, r)
    BY <1>2, <2>4
  <2>6. ASSUME NEW l \in (i - 1)..(hi - 1), before[l].cost >= 0, RamUsed(q, i, l, hi, slotted) # {}
        PROVE  r.cost \in 0..(before[l].cost + Min(RamUsed(q, i, l, hi, slotted)))
    <3>1. l \in usable /\ Cell(l).cost = before[l].cost + Min(RamUsed(q, i, l, hi, slotted))
      BY <1>4, <2>6
    <3>2. Cell(l).cost \in Nat /\ r.cost \in Nat
      BY <1>2, <2>4, <3>1
    <3>3. Cell(l) \in found
      <4> HIDE DEF usable, Cell
      <4>1. QED BY <3>1
    <3>4. r.cost <= Cell(l).cost
      <4> HIDE DEF usable, Cell, found
      <4>1. QED BY <1>3, <2>2, <2>4, <3>3
    <3> HIDE DEF usable, Cell, found
    <3>5. QED BY <3>1, <3>2, <3>4
  <2> HIDE DEF usable, Cell, found
  <2>7. QED BY <2>4, <2>5, <2>6
<1>7. QED BY <1>5, <1>6

\* The rows of the table.
RowOf(q, slotted) ==
    CHOOSE f : f = [k \in 0..Len(q.nodes) |->
        IF k = 0 THEN [l \in 0..NumBlocks(q.m) |-> IF l = 0 THEN [NoRange EXCEPT !.cost = 0] ELSE NoRange]
        ELSE NextRow(q, f[k - 1], k, slotted)]

\* Every cell of the table that can be reached is reached by a range its owner holds.
LEMMA TableIs ==
    ASSUME NEW n \in Nat \ {0}, NEW q, OfPlacing(q, n), NEW slotted \in Nat
    PROVE  LET row == Table(q, slotted)
           IN  /\ \A i \in 0..n, l \in 0..NumBlocks(q.m) : row[i][l].cost \in Int
               /\ \A l \in 0..NumBlocks(q.m) : row[0][l].cost >= 0 => l = 0
               /\ \A i \in 1..n, hi \in 0..NumBlocks(q.m) :
                     row[i][hi].cost >= 0 => Led(q, row[i - 1], i, hi, row[i][hi])
               /\ row[0][0].cost = 0
               /\ \A i \in 1..n : row[i] = NextRow(q, row[i - 1], i, slotted)
               /\ \A i \in 0..n : row[i] \in [0..NumBlocks(q.m) -> Cells]
<1> DEFINE L == NumBlocks(q.m)
<1> DEFINE first == [l \in 0..L |-> IF l = 0 THEN [NoRange EXCEPT !.cost = 0] ELSE NoRange]
<1> DEFINE T == [k \in 0..n |-> [0..L -> Cells]]
<1> DEFINE h == RowOf(q, slotted)
<1>1. L \in Nat /\ Len(q.nodes) = n
  BY PlacingIs DEF OfPlacing
<1>2. NoRange \in Cells /\ ~(NoRange.cost >= 0) /\ [NoRange EXCEPT !.cost = 0] \in Cells
  BY DEF NoRange, Cells
<1>3. ASSUME NEW i \in 1..n, NEW before \in [0..L -> Cells]
      PROVE  /\ NextRow(q, before, i, slotted) \in [0..L -> Cells]
             /\ \A hi \in 0..L : NextRow(q, before, i, slotted)[hi].cost >= 0 =>
                    Led(q, before, i, hi, NextRow(q, before, i, slotted)[hi])
  <2> DEFINE cell == [hi \in 0..L |-> IF hi \in i..(L - (n - i))
                                      THEN BestRange(q, before, i, hi, slotted) ELSE NoRange]
  <2>1. NextRow(q, before, i, slotted) = cell
    BY <1>1, Zenon DEF NextRow
  <2>2. ASSUME NEW hi \in 0..L PROVE cell[hi] \in Cells /\ (cell[hi].cost >= 0 => Led(q, before, i, hi, cell[hi]))
    <3>1. CASE hi \in i..(L - (n - i))
      <4>1. hi \in i..L
        BY <1>1, <3>1
      <4>2. PICK r : r = BestRange(q, before, i, hi, slotted)
        OBVIOUS
      <4>3. r \in Cells /\ (r.cost >= 0 => Led(q, before, i, hi, r))
        <5> HIDE DEF cell, T
        <5>1. QED BY <4>1, <4>2, BestRangeIs
      <4>4. cell[hi] = r
        BY <3>1, <4>2
      <4> HIDE DEF cell
      <4>5. QED BY <4>3, <4>4
    <3>2. CASE ~(hi \in i..(L - (n - i)))
      <4>1. cell[hi] = NoRange
        BY <3>2
      <4> HIDE DEF cell
      <4>2. QED BY <1>2, <4>1
    <3>3. QED BY <3>1, <3>2
  <2>3. cell = [hi \in 0..L |-> cell[hi]]
    OBVIOUS
  <2> HIDE DEF cell, L
  <2>4. QED BY <2>1, <2>2, <2>3
<1>4. ASSUME NEW k \in 1..n, NEW d \in T[k - 1] PROVE NextRow(q, d, k, slotted) \in T[k]
  <2>1. k - 1 \in 0..n /\ k \in 0..n
    OBVIOUS
  <2>2. d \in [0..L -> Cells]
    BY <1>4, <2>1
  <2>3. NextRow(q, d, k, slotted) \in [0..L -> Cells]
    BY <1>3, <2>2
  <2> HIDE DEF L
  <2>4. QED BY <2>1, <2>3
<1>5. first \in T[0] /\ n \in Nat /\ \A k \in 0..n : T[k] \subseteq [0..L -> Cells]
  <2>1. first \in [0..L -> Cells]
    BY <1>2
  <2> HIDE DEF first, L
  <2>2. QED BY <2>1
<1> DEFINE G == [y \in [0..L -> Cells] \X (1..n) |-> NextRow(q, y[1], y[2], slotted)]
<1>6. \A k \in 1..n : \A d \in T[k - 1] : G[<<d, k>>] = NextRow(q, d, k, slotted) /\ G[<<d, k>>] \in T[k]
  <2>1. ASSUME NEW k \in 1..n, NEW d \in T[k - 1]
        PROVE  G[<<d, k>>] = NextRow(q, d, k, slotted) /\ G[<<d, k>>] \in T[k]
    <3>1. d \in [0..L -> Cells]
      <4>1. k - 1 \in 0..n
        BY <1>5
      <4> HIDE DEF T, G, first, L
      <4>2. QED BY <1>5, <4>1
    <3>2. <<d, k>> \in [0..L -> Cells] \X (1..n)
      BY <3>1
    <3>3. G[<<d, k>>] = NextRow(q, d, k, slotted)
      <4> HIDE DEF T, first, L
      <4>1. QED BY <3>2
    <3>4. NextRow(q, d, k, slotted) \in T[k]
      BY <1>4
    <3> HIDE DEF T, G, first, L
    <3>5. QED BY <3>3, <3>4
  <2> HIDE DEF T, G, first, L
  <2>2. QED BY <2>1
<1>7. PICK f : Steps(f, n, first, G) /\ \A k \in 0..n : f[k] \in T[k]
  <2> HIDE DEF T, G, first, L
  <2>1. \A k \in 1..n : \A d \in T[k - 1] : G[<<d, k>>] \in T[k]
    BY <1>6
  <2>2. n \in Nat /\ first \in T[0]
    BY <1>5
  <2>3. QED BY <2>1, <2>2, Iterated
<1>8. f = [k \in 0..n |-> IF k = 0 THEN first ELSE NextRow(q, f[k - 1], k, slotted)]
  <2>1. ASSUME NEW k \in 0..n, k # 0 PROVE G[<<f[k - 1], k>>] = NextRow(q, f[k - 1], k, slotted)
    <3>1. k \in 1..n /\ k - 1 \in 0..n
      BY <1>5, <2>1
    <3>2. f[k - 1] \in T[k - 1]
      BY <1>7, <3>1
    <3> HIDE DEF T, G, first, L
    <3>3. QED BY <1>6, <3>1, <3>2
  <2> HIDE DEF T, G, first, L
  <2>2. [k \in 0..n |-> IF k = 0 THEN first ELSE G[<<f[k - 1], k>>]]
        = [k \in 0..n |-> IF k = 0 THEN first ELSE NextRow(q, f[k - 1], k, slotted)]
    BY <2>1
  <2>3. QED BY <1>7, <2>2, Zenon DEF Steps
<1>9. h = [k \in 0..n |-> IF k = 0 THEN first ELSE NextRow(q, h[k - 1], k, slotted)]
  BY <1>1, <1>8, Zenon DEF RowOf
<1>10. h[0] = first /\ \A k \in 1..n : h[k] = NextRow(q, h[k - 1], k, slotted)
  <2>1. PICK g : g = h
    OBVIOUS
  <2>2. g = [k \in 0..n |-> IF k = 0 THEN first ELSE NextRow(q, g[k - 1], k, slotted)]
    BY <1>9, <2>1
  <2>3. 0 \in 0..n /\ \A k \in 1..n : k \in 0..n /\ k # 0
    BY <1>5
  <2> HIDE DEF T, G, first, L
  <2>4. g[0] = first /\ \A k \in 1..n : g[k] = NextRow(q, g[k - 1], k, slotted)
    BY <2>2, <2>3
  <2>5. QED BY <2>1, <2>4, Zenon
<1>11. \A k \in 0..n : h[k] \in T[k]
  <2>1. PICK g : g = h
    OBVIOUS
  <2>2. ASSUME NEW k \in 1..n, g[k - 1] \in T[k - 1] PROVE g[k] \in T[k]
    <3>1. g[k] = NextRow(q, g[k - 1], k, slotted)
      BY <1>10, <2>1
    <3>2. NextRow(q, g[k - 1], k, slotted) \in T[k]
      BY <1>4, <2>2
    <3> HIDE DEF T, G, first, L
    <3>3. QED BY <3>1, <3>2
  <2>3. g[0] \in T[0]
    <3> HIDE DEF T, G, first, L
    <3>1. QED BY <1>5, <1>10, <2>1
  <2> HIDE DEF T, G, first, L
  <2>4. \A k \in 0..n : g[k] \in T[k]
    BY <1>5, <2>2, <2>3, Rising
  <2>5. QED BY <2>1, <2>4
<1>12. Table(q, slotted) = h
  BY Zenon DEF Table, RowOf
<1>13. PICK row : row = h
  OBVIOUS
<1>14. /\ row[0] = first /\ \A k \in 1..n : row[k] = NextRow(q, row[k - 1], k, slotted)
       /\ \A k \in 0..n : row[k] \in [0..L -> Cells]
  <2>1. row[0] = first /\ \A k \in 1..n : row[k] = NextRow(q, row[k - 1], k, slotted)
    <3> HIDE DEF h, first, L
    <3>1. QED BY <1>10, <1>13, Zenon
  <2>2. \A k \in 0..n : row[k] \in T[k]
    <3> HIDE DEF h, first, L, T
    <3>1. QED BY <1>11, <1>13, Zenon
  <2> HIDE DEF h, first, L
  <2>3. QED BY <2>1, <2>2
<1>15. \A l \in 0..L : row[0][l].cost >= 0 => l = 0
  <2>1. \A l \in 0..L : l # 0 => first[l] = NoRange
    OBVIOUS
  <2> HIDE DEF h, first, L
  <2>2. QED BY <1>2, <1>14, <2>1
<1>16. \A i \in 1..n, hi \in 0..L : row[i][hi].cost >= 0 => Led(q, row[i - 1], i, hi, row[i][hi])
  <2>1. ASSUME NEW i \in 1..n, NEW hi \in 0..L, row[i][hi].cost >= 0
        PROVE  Led(q, row[i - 1], i, hi, row[i][hi])
    <3>1. i - 1 \in 0..n
      OBVIOUS
    <3>2. PICK before : before = row[i - 1]
      OBVIOUS
    <3>3. before \in [0..L -> Cells] /\ row[i] = NextRow(q, before, i, slotted)
      <4> HIDE DEF h, first, L
      <4>1. QED BY <1>14, <3>1, <3>2
    <3>4. Led(q, before, i, hi, row[i][hi])
      BY <1>3, <2>1, <3>3
    <3>5. QED BY <3>2, <3>4
  <2>2. QED BY <2>1
<1>17. \A i \in 0..n, l \in 0..L : row[i][l].cost \in Int
  <2>1. ASSUME NEW i \in 0..n, NEW l \in 0..L PROVE row[i][l].cost \in Int
    <3>1. PICK r : r = row[i][l]
      OBVIOUS
    <3>2. r \in Cells
      <4> HIDE DEF h, first, L
      <4>1. QED BY <1>14, <3>1
    <3>3. r.cost \in Int
      BY <3>2 DEF Cells
    <3>4. QED BY <3>1, <3>3
  <2>2. QED BY <2>1
<1>18. row[0][0].cost = 0
  <2>1. first[0] = [NoRange EXCEPT !.cost = 0]
    BY <1>1
  <2>2. [NoRange EXCEPT !.cost = 0].cost = 0
    BY DEF NoRange
  <2> HIDE DEF h, first, L
  <2>3. QED BY <1>14, <2>1, <2>2
<1> HIDE DEF h, first
<1>19. QED BY <1>12, <1>13, <1>14, <1>15, <1>16, <1>17, <1>18

-----------------------------------------------------------------------------
(* The boundaries read back from the table. *)

\* The recursive function behind ReadBack.
CutOf(row, n, L) == CHOOSE f : f = [i \in 0..n |-> IF i = n THEN L ELSE row[i + 1][f[i + 1]].lo]
\* Ranges that tile the blocks, each held by its owner.
Tiled(q, n, r) ==
    /\ r = [i \in 1..n |-> r[i]]
    /\ \A i \in 1..n :
          /\ r[i].lo \in 0..NumBlocks(q.m) /\ r[i].hi \in 0..NumBlocks(q.m) /\ r[i].lo < r[i].hi
          /\ r[i].lo = IF i = 1 THEN 0 ELSE r[i - 1].hi
          /\ i = n => r[i].hi = NumBlocks(q.m)
          /\ Spilled(q, i, r[i].lo, r[i].hi, r[i].spillEnd)

\* Every reached cell of a row stands on a reached cell of the row before it.
Ladder(row, n, L) ==
    \A i \in 1..n, hi \in 0..L :
        row[i][hi].cost >= 0 => /\ row[i][hi].lo \in (i - 1)..(hi - 1)
                                /\ row[i - 1][row[i][hi].lo].cost >= 0
\* Boundaries read back along reached cells.
Climbed(row, n, L, cut) ==
    /\ cut[n] = L
    /\ \A i \in 1..n : cut[i - 1] = row[i][cut[i]].lo
    /\ \A i \in 0..n : cut[i] \in 0..L /\ row[i][cut[i]].cost >= 0

\* From a reached last cell the boundaries are read back along reached cells.
LEMMA CutsAre ==
    ASSUME NEW n \in Nat \ {0}, NEW L \in Nat, NEW row,
           row[n][L].cost >= 0, Ladder(row, n, L)
    PROVE  Climbed(row, n, L, CutOf(row, n, L))
<1>0. \A i \in 1..n, hi \in 0..L :
        row[i][hi].cost >= 0 => /\ row[i][hi].lo \in (i - 1)..(hi - 1)
                                /\ row[i - 1][row[i][hi].lo].cost >= 0
  BY DEF Ladder
<1> DEFINE T == [k \in 0..n |-> {l \in 0..L : row[n - k][l].cost >= 0}]
<1> DEFINE G == [y \in (0..L) \X (1..n) |-> row[n - y[2] + 1][y[1]].lo]
<1>1. L \in T[0]
  OBVIOUS
<1>2. ASSUME NEW k \in 1..n, NEW d \in T[k - 1] PROVE G[<<d, k>>] = row[n - k + 1][d].lo /\ G[<<d, k>>] \in T[k]
  <2>1. k - 1 \in 0..n /\ k \in 0..n /\ n - (k - 1) = n - k + 1 /\ n - k + 1 \in 1..n /\ (n - k + 1) - 1 = n - k
    OBVIOUS
  <2>2. d \in 0..L /\ row[n - k + 1][d].cost >= 0
    BY <2>1
  <2>3. PICK l : l = row[n - k + 1][d].lo
    OBVIOUS
  <2>4. l \in (n - k)..(d - 1) /\ row[n - k][l].cost >= 0
    BY <1>0, <2>1, <2>2, <2>3
  <2>5. l \in 0..L
    BY <2>1, <2>2, <2>4
  <2>6. l \in T[k]
    BY <2>1, <2>4, <2>5
  <2>7. <<d, k>> \in (0..L) \X (1..n)
    BY <2>2
  <2>8. G[<<d, k>>] = row[n - k + 1][d].lo
    <3> HIDE DEF T
    <3>1. QED BY <2>7
  <2>9. QED BY <2>3, <2>6, <2>8
<1>3. PICK g : Steps(g, n, L, G) /\ \A k \in 0..n : g[k] \in T[k]
  <2>1. \A k \in 1..n : \A d \in T[k - 1] : G[<<d, k>>] \in T[k]
    BY <1>2
  <2> HIDE DEF T, G
  <2>2. QED BY <1>1, <2>1, Iterated
<1> DEFINE f == [i \in 0..n |-> g[n - i]]
<1>4. ASSUME NEW i \in 0..n PROVE f[i] = IF i = n THEN L ELSE row[i + 1][f[i + 1]].lo
  <2>1. g = [k \in 0..n |-> IF k = 0 THEN L ELSE G[<<g[k - 1], k>>]]
    BY <1>3, Zenon DEF Steps
  <2>2. n - i \in 0..n
    OBVIOUS
  <2>3. g[n - i] = IF n - i = 0 THEN L ELSE G[<<g[n - i - 1], n - i>>]
    <3> HIDE DEF G, T, f
    <3>1. QED BY <2>1, <2>2
  <2>4. CASE i = n
    <3>1. g[n - i] = L
      <4> HIDE DEF G, T, f
      <4>1. QED BY <2>3, <2>4
    <3>2. QED BY <2>4, <3>1
  <2>5. CASE i # n
    <3>1. n - i \in 1..n /\ i + 1 \in 0..n /\ n - i - 1 = n - (i + 1) /\ n - (n - i) + 1 = i + 1
          /\ n - i - 1 \in 0..n
      BY <2>5
    <3>2. g[n - i - 1] \in T[n - i - 1]
      <4> HIDE DEF G, T, f
      <4>1. QED BY <1>3, <3>1
    <3>3. G[<<g[n - i - 1], n - i>>] = row[n - (n - i) + 1][g[n - i - 1]].lo
      <4> HIDE DEF G, T, f
      <4>1. QED BY <1>2, <3>1, <3>2
    <3>4. f[i] = g[n - i] /\ f[i + 1] = g[n - i - 1]
      <4> HIDE DEF G, T
      <4>1. QED BY <3>1
    <3> HIDE DEF G, T, f
    <3>5. g[n - i] = G[<<g[n - i - 1], n - i>>]
      BY <2>3, <3>1
    <3>6. n - (n - i) + 1 = i + 1
      BY <3>1
    <3>7. f[i] = row[i + 1][f[i + 1]].lo
      BY <3>3, <3>4, <3>5, <3>6
    <3>8. QED BY <2>5, <3>7
  <2>6. QED BY <2>4, <2>5
<1>5. f = [i \in 0..n |-> IF i = n THEN L ELSE row[i + 1][f[i + 1]].lo]
  <2>1. f = [i \in 0..n |-> f[i]]
    OBVIOUS
  <2> HIDE DEF f, T, G
  <2>2. [i \in 0..n |-> f[i]] = [i \in 0..n |-> IF i = n THEN L ELSE row[i + 1][f[i + 1]].lo]
    BY <1>4
  <2>3. QED BY <2>1, <2>2, Zenon
<1> DEFINE cut == CutOf(row, n, L)
<1>6. cut = [i \in 0..n |-> IF i = n THEN L ELSE row[i + 1][cut[i + 1]].lo]
  <2> HIDE DEF f, T, G
  <2>1. QED BY <1>5, Zenon DEF CutOf
<1>7. PICK c : c = cut
  OBVIOUS
<1>8. c = [i \in 0..n |-> IF i = n THEN L ELSE row[i + 1][c[i + 1]].lo]
  BY <1>6, <1>7
<1> HIDE DEF cut, f, T, G
<1>9. c[n] = L /\ \A i \in 1..n : c[i - 1] = row[i][c[i]].lo
  <2>1. n \in 0..n
    OBVIOUS
  <2>2. c[n] = L
    BY <1>8, <2>1
  <2>3. ASSUME NEW i \in 1..n PROVE c[i - 1] = row[i][c[i]].lo
    <3>1. i - 1 \in 0..n /\ i - 1 # n /\ i - 1 + 1 = i
      OBVIOUS
    <3>2. c[i - 1] = row[i - 1 + 1][c[i - 1 + 1]].lo
      BY <1>8, <3>1
    <3>3. QED BY <3>1, <3>2
  <2>4. QED BY <2>2, <2>3
<1> DEFINE b == [k \in 0..n |-> c[n - k]]
<1> DEFINE U == [k \in 0..n |-> {l \in 0..L : row[n - k][l].cost >= 0}]
<1>10. b[0] \in U[0]
  BY <1>9
<1>11. ASSUME NEW k \in 1..n, b[k - 1] \in U[k - 1] PROVE b[k] \in U[k]
  <2>1. k - 1 \in 0..n /\ k \in 0..n /\ n - (k - 1) = n - k + 1 /\ n - k + 1 \in 1..n /\ (n - k + 1) - 1 = n - k
    OBVIOUS
  <2>2. b[k - 1] = c[n - k + 1] /\ b[k] = c[n - k]
    BY <2>1
  <2>3. c[n - k + 1] \in 0..L /\ row[n - k + 1][c[n - k + 1]].cost >= 0
    <3>1. U[k - 1] = {l \in 0..L : row[n - k + 1][l].cost >= 0}
      BY <2>1
    <3> HIDE DEF b, U
    <3>2. QED BY <1>11, <2>2, <3>1
  <2>4. c[n - k] = row[n - k + 1][c[n - k + 1]].lo
    <3> HIDE DEF b, U
    <3>1. c[(n - k + 1) - 1] = row[n - k + 1][c[n - k + 1]].lo
      BY <1>9, <2>1
    <3>2. QED BY <2>1, <3>1
  <2>5. PICK l : l = c[n - k]
    OBVIOUS
  <2>6. PICK hi : hi = c[n - k + 1]
    OBVIOUS
  <2>7. row[n - k + 1][hi].lo \in (n - k)..(hi - 1) /\ row[n - k][row[n - k + 1][hi].lo].cost >= 0
    <3> HIDE DEF b, U
    <3>1. QED BY <1>0, <2>1, <2>3, <2>6
  <2>8. l \in (n - k)..(hi - 1) /\ row[n - k][l].cost >= 0 /\ hi \in 0..L
    <3> HIDE DEF b, U
    <3>1. QED BY <2>3, <2>4, <2>5, <2>6, <2>7
  <2>9. l \in 0..L
    <3> HIDE DEF b, U
    <3>1. QED BY <2>1, <2>8
  <2>10. l \in U[k]
    BY <2>1, <2>8, <2>9
  <2> HIDE DEF b, U
  <2>11. QED BY <2>2, <2>5, <2>10
<1>12. \A k \in 0..n : b[k] \in U[k]
  <2>1. b[0] \in U[0]
    BY <1>10
  <2> HIDE DEF b, U
  <2>2. QED BY <1>11, <2>1, Rising
<1>13. ASSUME NEW i \in 0..n PROVE c[i] \in 0..L /\ row[i][c[i]].cost >= 0
  <2>1. n - i \in 0..n /\ n - (n - i) = i
    OBVIOUS
  <2>2. b[n - i] = c[n - (n - i)] /\ U[n - i] = {l \in 0..L : row[n - (n - i)][l].cost >= 0}
    BY <2>1
  <2>3. b[n - i] \in U[n - i]
    <3> HIDE DEF b, U
    <3>1. QED BY <1>12, <2>1
  <2> HIDE DEF b, U
  <2>4. c[n - (n - i)] \in {l \in 0..L : row[n - (n - i)][l].cost >= 0}
    BY <2>2, <2>3
  <2>5. c[i] \in {l \in 0..L : row[i][l].cost >= 0}
    BY <2>1, <2>4
  <2>6. QED BY <2>5
<1>14. Climbed(row, n, L, c)
  BY <1>9, <1>13 DEF Climbed
<1>15. QED BY <1>7, <1>14 DEF cut

\* Ranges read from the table along boundaries.
ReadFrom(row, n, cut, r) ==
    r = [i \in 1..n |-> [lo |-> cut[i - 1], hi |-> cut[i], spillEnd |-> row[i][cut[i]].spillEnd]]

\* The ranges read back tile the blocks, and each owner holds its own.  There are some when
\* the last cell is reached.
LEMMA TilesAre ==
    ASSUME NEW n \in Nat \ {0}, NEW q, OfPlacing(q, n), NEW slotted \in Nat,
           Ranges(q, slotted) # <<>>
    PROVE  /\ Tiled(q, n, Ranges(q, slotted))
           /\ \E cut : /\ Climbed(Table(q, slotted), n, NumBlocks(q.m), cut)
                       /\ ReadFrom(Table(q, slotted), n, cut, Ranges(q, slotted))
<1> DEFINE L == NumBlocks(q.m)
<1>1. L \in Nat /\ Len(q.nodes) = n
  BY PlacingIs DEF OfPlacing
<1>2. PICK row : row = Table(q, slotted)
  OBVIOUS
<1>3. /\ \A i \in 0..n, l \in 0..L : row[i][l].cost \in Int
      /\ \A l \in 0..L : row[0][l].cost >= 0 => l = 0
      /\ \A i \in 1..n, hi \in 0..L : row[i][hi].cost >= 0 => Led(q, row[i - 1], i, hi, row[i][hi])
  BY <1>2, TableIs
<1> DEFINE ranges == [i \in 1..n |-> [lo |-> CutOf(row, n, L)[i - 1], hi |-> CutOf(row, n, L)[i],
                                      spillEnd |-> row[i][CutOf(row, n, L)[i]].spillEnd]]
<1>4. Ranges(q, slotted) = IF row[n][L].cost < 0 THEN <<>> ELSE ranges
  <2>1. Ranges(q, slotted) = ReadBack(row, n, L)
    BY <1>1, <1>2 DEF Ranges
  <2> HIDE DEF L
  <2>2. ReadBack(row, n, L) = IF row[n][L].cost < 0 THEN <<>> ELSE ranges
    BY Zenon DEF ReadBack, CutOf
  <2>3. QED BY <2>1, <2>2
<1> HIDE DEF L
<1>5. row[n][L].cost >= 0
  <2>1. n \in 0..n /\ L \in 0..L
    BY <1>1
  <2>2. row[n][L].cost \in Int
    BY <1>3, <2>1
  <2>3. ~(row[n][L].cost < 0)
    BY <1>4
  <2>4. QED BY <2>2, <2>3
<1>6. ASSUME NEW i \in 1..n, NEW hi \in 0..L, row[i][hi].cost >= 0
      PROVE  /\ row[i][hi].lo \in (i - 1)..(hi - 1)
             /\ row[i - 1][row[i][hi].lo].cost >= 0
             /\ Spilled(q, i, row[i][hi].lo, hi, row[i][hi].spillEnd)
  <2>1. Led(q, row[i - 1], i, hi, row[i][hi])
    BY <1>3, <1>6
  <2>2. QED BY <2>1 DEF Led
<1>7. PICK cut : cut = CutOf(row, n, L)
  OBVIOUS
<1>8. /\ cut[n] = L
      /\ \A i \in 1..n : cut[i - 1] = row[i][cut[i]].lo
      /\ \A i \in 0..n : cut[i] \in 0..L /\ row[i][cut[i]].cost >= 0
  <2>1. Ladder(row, n, L)
    BY <1>6 DEF Ladder
  <2>2. Climbed(row, n, L, CutOf(row, n, L))
    BY <1>1, <1>5, <2>1, CutsAre
  <2>3. Climbed(row, n, L, cut)
    BY <1>7, <2>2
  <2>4. QED BY <2>3 DEF Climbed
<1>9. PICK r : r = Ranges(q, slotted)
  OBVIOUS
<1>10. r = [i \in 1..n |-> [lo |-> cut[i - 1], hi |-> cut[i], spillEnd |-> row[i][cut[i]].spillEnd]]
  <2>1. ~(row[n][L].cost < 0)
    BY <1>4
  <2>2. r = ranges
    <3> HIDE DEF ranges
    <3>1. QED BY <1>4, <1>9, <2>1
  <2>3. QED BY <1>7, <2>2
<1>11. r = [i \in 1..n |-> r[i]]
  BY <1>10
<1>12. ASSUME NEW i \in 1..n
       PROVE  /\ r[i].lo \in 0..L /\ r[i].hi \in 0..L /\ r[i].lo < r[i].hi
              /\ r[i].lo = IF i = 1 THEN 0 ELSE r[i - 1].hi
              /\ i = n => r[i].hi = L
              /\ Spilled(q, i, r[i].lo, r[i].hi, r[i].spillEnd)
  <2>1. i - 1 \in 0..n /\ i \in 0..n /\ (i # 1 => i - 1 \in 1..n)
    OBVIOUS
  <2>2. r[i].lo = cut[i - 1] /\ r[i].hi = cut[i] /\ r[i].spillEnd = row[i][cut[i]].spillEnd
    BY <1>10
  <2>3. cut[i - 1] \in 0..L /\ cut[i] \in 0..L /\ cut[i - 1] = row[i][cut[i]].lo
        /\ row[i][cut[i]].cost >= 0 /\ row[i - 1][cut[i - 1]].cost >= 0
    BY <1>8, <2>1
  <2>4. cut[i - 1] \in (i - 1)..(cut[i] - 1)
    BY <1>6, <2>3
  <2>5. Spilled(q, i, cut[i - 1], cut[i], row[i][cut[i]].spillEnd)
    BY <1>6, <2>3
  <2>6. i = 1 => cut[i - 1] = 0
    <3>1. ASSUME i = 1 PROVE cut[0] = 0
      BY <1>3, <1>8, <2>3, <3>1
    <3>2. i = 1 => i - 1 = 0
      OBVIOUS
    <3>3. QED BY <3>1, <3>2
  <2>7. i # 1 => r[i - 1].hi = cut[i - 1]
    BY <1>10, <2>1
  <2>8. cut[i - 1] < cut[i]
    BY <1>1, <2>3, <2>4
  <2>9. i = n => cut[i] = L
    BY <1>8
  <2>10. QED BY <2>2, <2>3, <2>5, <2>6, <2>7, <2>8, <2>9
<1>13. Tiled(q, n, r)
  BY <1>11, <1>12 DEF Tiled, L
<1>14. Climbed(row, n, L, cut) /\ ReadFrom(row, n, cut, r)
  BY <1>8, <1>10 DEF Climbed, ReadFrom
<1>15. QED BY <1>2, <1>9, <1>13, <1>14 DEF L

\* When the last cell of the table is reached there are ranges.
LEMMA RangesExist ==
    ASSUME NEW n \in Nat \ {0}, NEW q, OfPlacing(q, n), NEW slotted \in Nat,
           Table(q, slotted)[n][NumBlocks(q.m)].cost >= 0
    PROVE  Ranges(q, slotted) # <<>>
<1>1. Len(q.nodes) = n
  BY DEF OfPlacing
<1>2. PICK L \in Nat : L = NumBlocks(q.m)
  BY PlacingIs
<1>3. PICK row : row = Table(q, slotted)
  OBVIOUS
<1>4. row[n][L].cost \in Int /\ row[n][L].cost >= 0
  <2>1. n \in 0..n /\ L \in 0..L
    OBVIOUS
  <2>2. \A i \in 0..n, l \in 0..L : row[i][l].cost \in Int
    BY <1>2, <1>3, TableIs
  <2>3. QED BY <1>2, <1>3, <2>1, <2>2
<1>5. ~(row[n][L].cost < 0)
  BY <1>4
<1> DEFINE r == [i \in 1..n |-> [lo |-> CutOf(row, n, L)[i - 1], hi |-> CutOf(row, n, L)[i],
                                 spillEnd |-> row[i][CutOf(row, n, L)[i]].spillEnd]]
<1>6. Ranges(q, slotted) = r
  <2>1. Ranges(q, slotted) = ReadBack(row, n, L)
    BY <1>1, <1>2, <1>3 DEF Ranges
  <2>2. QED BY <1>5, <2>1, Zenon DEF ReadBack, CutOf
<1>7. DOMAIN r = 1..n /\ 1 \in 1..n
  OBVIOUS
<1> HIDE DEF r
<1>8. r # <<>>
  <2>1. DOMAIN <<>> = {}
    OBVIOUS
  <2>2. QED BY <1>7, <2>1
<1>9. QED BY <1>6, <1>8

-----------------------------------------------------------------------------
(* The cache searched for. *)

\* The cache aimed at is a number.
LEMMA TargetIs ==
    ASSUME NEW m, OfModel(m)
    PROVE  CacheTarget(m) \in Nat /\ m.nUsed \in Nat
<1>1. PICK e \in Nat, u \in Nat : e = m.nExpert /\ u = m.nUsed
  BY FieldsAre
<1>2. CeilDiv(e, 3) \in Nat
  BY SMT DEF CeilDiv
<1>3. QED BY <1>1, <1>2 DEF CacheTarget, Larger, Smaller

\* The states of the binary search.
Sizes == [lo : Nat, hi : Int, best : Nat]
\* The recursive function behind LargestCommonCache.
SearchOf(q) ==
    CHOOSE f : f = [k \in 0..CacheTarget(q.m) |->
        IF k = 0 THEN [lo |-> q.m.nUsed + 1, hi |-> CacheTarget(q.m) - 1, best |-> q.m.nUsed]
        ELSE Halve(q, f[k - 1])]

\* A step of the search is a state of it.
LEMMA HalveIs ==
    ASSUME NEW q, NEW s \in Sizes
    PROVE  Halve(q, s) \in Sizes
<1>1. s.lo \in Nat /\ s.hi \in Int /\ s.best \in Nat
      /\ s = [lo |-> s.lo, hi |-> s.hi, best |-> s.best]
  BY DEF Sizes
<1>2. PICK lo \in Nat, hi \in Int, best \in Nat : lo = s.lo /\ hi = s.hi /\ best = s.best
  BY <1>1
<1>3. PICK mid : mid = lo + (hi - lo) \div 2
  OBVIOUS
<1>4. lo <= hi => mid \in Nat
  BY <1>3
<1>5. Halve(q, s) = IF lo > hi THEN s
                    ELSE IF Works(q, mid) THEN [s EXCEPT !.lo = mid + 1, !.best = mid]
                    ELSE [s EXCEPT !.hi = mid - 1]
  <2>1. mid = s.lo + (s.hi - s.lo) \div 2 /\ (lo > hi <=> s.lo > s.hi)
    BY <1>2, <1>3
  <2>2. QED BY <2>1, Zenon DEF Halve
<1>6. lo <= hi => [s EXCEPT !.lo = mid + 1, !.best = mid] \in Sizes
  <2>1. [s EXCEPT !.lo = mid + 1, !.best = mid] = [[s EXCEPT !.lo = mid + 1] EXCEPT !.best = mid]
    OBVIOUS
  <2>2. ASSUME lo <= hi PROVE [[s EXCEPT !.lo = mid + 1] EXCEPT !.best = mid] \in Sizes
    <3>1. mid \in Nat /\ mid + 1 \in Nat
      BY <1>4, <2>2
    <3>2. PICK up : up = mid + 1
      OBVIOUS
    <3>3. [[s EXCEPT !.lo = up] EXCEPT !.best = mid] \in Sizes
      BY <3>1, <3>2 DEF Sizes
    <3>4. QED BY <3>2, <3>3
  <2>3. QED BY <2>1, <2>2
<1>7. lo <= hi => [s EXCEPT !.hi = mid - 1] \in Sizes
  BY <1>4 DEF Sizes
<1>8. CASE lo > hi
  BY <1>5, <1>8
<1>9. CASE lo <= hi
  <2>1. Halve(q, s) \in {[s EXCEPT !.lo = mid + 1, !.best = mid], [s EXCEPT !.hi = mid - 1]}
    BY <1>5, <1>9
  <2>2. QED BY <1>6, <1>7, <1>9, <2>1
<1>10. QED BY <1>2, <1>8, <1>9

\* The search starts and goes on as it says, and the cache found is a number.
LEMMA CacheIs ==
    ASSUME NEW n \in Nat \ {0}, NEW q, OfPlacing(q, n)
    PROVE  /\ LargestCommonCache(q) \in Nat
           /\ SearchOf(q)[0]
                = [lo |-> q.m.nUsed + 1, hi |-> CacheTarget(q.m) - 1, best |-> q.m.nUsed]
           /\ \A k \in 1..CacheTarget(q.m) : SearchOf(q)[k] = Halve(q, SearchOf(q)[k - 1])
           /\ \A k \in 0..CacheTarget(q.m) : SearchOf(q)[k] \in Sizes
<1> DEFINE target == CacheTarget(q.m)
<1> DEFINE z == [lo |-> q.m.nUsed + 1, hi |-> target - 1, best |-> q.m.nUsed]
<1> DEFINE T == [k \in 0..target |-> Sizes]
<1> DEFINE h == SearchOf(q)
<1>1. OfModel(q.m)
  BY PlacingIs
<1>2. target \in Nat /\ q.m.nUsed \in Nat
  <2>1. PICK m : m = q.m
    OBVIOUS
  <2>2. OfModel(m)
    BY <1>1, <2>1
  <2>3. CacheTarget(m) \in Nat /\ m.nUsed \in Nat
    BY <2>2, TargetIs
  <2>4. QED BY <2>1, <2>3
<1>3. ASSUME NEW k \in 1..target, NEW d \in T[k - 1] PROVE Halve(q, d) \in T[k]
  <2>1. d \in Sizes
    BY <1>2
  <2>2. Halve(q, d) \in Sizes
    BY <2>1, HalveIs
  <2>3. QED BY <2>2
<1>4. z \in T[0] /\ target \in Nat /\ \A k \in 0..target : T[k] \subseteq Sizes
  <2>1. PICK u \in Nat, t \in Nat : u = q.m.nUsed /\ t = target
    BY <1>2
  <2>2. [lo |-> u + 1, hi |-> t - 1, best |-> u] \in Sizes
    BY <2>1 DEF Sizes
  <2>3. z \in Sizes
    BY <2>1, <2>2
  <2> HIDE DEF z, target
  <2>4. QED BY <1>2, <2>3
<1> DEFINE G == [y \in Sizes \X (1..target) |-> Halve(q, y[1])]
<1>5. \A k \in 1..target : \A d \in T[k - 1] : G[<<d, k>>] = Halve(q, d) /\ G[<<d, k>>] \in T[k]
  <2>1. ASSUME NEW k \in 1..target, NEW d \in T[k - 1]
        PROVE  G[<<d, k>>] = Halve(q, d) /\ G[<<d, k>>] \in T[k]
    <3>1. d \in Sizes
      <4>1. k - 1 \in 0..target
        BY <1>4
      <4> HIDE DEF T, G, z, target, h
      <4>2. QED BY <1>4, <4>1
    <3>2. <<d, k>> \in Sizes \X (1..target)
      BY <3>1
    <3>3. G[<<d, k>>] = Halve(q, d)
      <4> HIDE DEF T, z, target, h
      <4>1. QED BY <3>2
    <3>4. Halve(q, d) \in T[k]
      BY <1>3
    <3> HIDE DEF T, G, z, target, h
    <3>5. QED BY <3>3, <3>4
  <2> HIDE DEF T, G, z, target, h
  <2>2. QED BY <2>1
<1>6. PICK f : Steps(f, target, z, G) /\ \A k \in 0..target : f[k] \in T[k]
  <2> HIDE DEF T, G, z, target, h
  <2>1. \A k \in 1..target : \A d \in T[k - 1] : G[<<d, k>>] \in T[k]
    BY <1>5
  <2>2. target \in Nat /\ z \in T[0]
    BY <1>4
  <2>3. QED BY <2>1, <2>2, Iterated
<1>7. f = [k \in 0..target |-> IF k = 0 THEN z ELSE Halve(q, f[k - 1])]
  <2>1. ASSUME NEW k \in 0..target, k # 0 PROVE G[<<f[k - 1], k>>] = Halve(q, f[k - 1])
    <3>1. k \in 1..target /\ k - 1 \in 0..target
      BY <1>4, <2>1
    <3>2. f[k - 1] \in T[k - 1]
      BY <1>6, <3>1
    <3> HIDE DEF T, G, z, target, h
    <3>3. QED BY <1>5, <3>1, <3>2
  <2> HIDE DEF T, G, z, target, h
  <2>2. [k \in 0..target |-> IF k = 0 THEN z ELSE G[<<f[k - 1], k>>]]
        = [k \in 0..target |-> IF k = 0 THEN z ELSE Halve(q, f[k - 1])]
    BY <2>1
  <2>3. QED BY <1>6, <2>2, Zenon DEF Steps
<1>8. h = [k \in 0..target |-> IF k = 0 THEN z ELSE Halve(q, h[k - 1])]
  BY <1>7, Zenon DEF SearchOf
<1>9. h[0] = z /\ \A k \in 1..target : h[k] = Halve(q, h[k - 1])
  <2>1. PICK g : g = h
    OBVIOUS
  <2>2. g = [k \in 0..target |-> IF k = 0 THEN z ELSE Halve(q, g[k - 1])]
    BY <1>8, <2>1
  <2>3. 0 \in 0..target /\ \A k \in 1..target : k \in 0..target /\ k # 0
    BY <1>4
  <2> HIDE DEF T, G, z, target, h
  <2>4. g[0] = z /\ \A k \in 1..target : g[k] = Halve(q, g[k - 1])
    BY <2>2, <2>3
  <2>5. QED BY <2>1, <2>4, Zenon
<1>10. \A k \in 0..target : h[k] \in T[k]
  <2>1. PICK g : g = h
    OBVIOUS
  <2>2. ASSUME NEW k \in 1..target, g[k - 1] \in T[k - 1] PROVE g[k] \in T[k]
    <3>1. g[k] = Halve(q, g[k - 1])
      BY <1>9, <2>1
    <3>2. Halve(q, g[k - 1]) \in T[k]
      BY <1>3, <2>2
    <3> HIDE DEF T, G, z, target, h
    <3>3. QED BY <3>1, <3>2
  <2>3. g[0] \in T[0]
    <3> HIDE DEF T, G, z, target, h
    <3>1. QED BY <1>4, <1>9, <2>1
  <2> HIDE DEF T, G, z, target, h
  <2>4. \A k \in 0..target : g[k] \in T[k]
    BY <1>4, <2>2, <2>3, Rising
  <2>5. QED BY <2>1, <2>4
<1>11. LargestCommonCache(q) \in {target, h[target].best, 0}
  BY Zenon DEF LargestCommonCache, SearchOf
<1>12. h[target].best \in Nat
  <2>1. PICK s : s = h[target]
    OBVIOUS
  <2>2. s \in Sizes
    <3> HIDE DEF h, target
    <3>1. QED BY <1>2, <1>10, <2>1
  <2>3. s.best \in Nat
    BY <2>2 DEF Sizes
  <2>4. QED BY <2>1, <2>3, Zenon
<1>13. \A k \in 0..target : h[k] \in Sizes
  <2> HIDE DEF h, target
  <2>1. QED BY <1>10
<1>14. LargestCommonCache(q) \in Nat
  <2> HIDE DEF h, target
  <2>1. QED BY <1>2, <1>11, <1>12
<1>15. QED BY <1>9, <1>13, <1>14, Zenon

-----------------------------------------------------------------------------
(* What a plan for a cluster owes its machines. *)

\* Every machine holds what the plan gives it.
OwnersHold(q, n, p) ==
    \A i \in 1..n : /\ p.gpuOf[i] <= q.nodes[i].vram
                    /\ InRam(q.nodes[i], p.ramOf[i], IF i = 1 THEN q.hostRam ELSE 0)
\* The ranges tile the blocks.
BlocksTiled(q, n, r) ==
    \A i \in 1..n : /\ r[i].lo < r[i].hi
                    /\ r[i].lo = IF i = 1 THEN 0 ELSE r[i - 1].hi
                    /\ i = n => r[i].hi = NumBlocks(q.m)
\* A plan for a cluster that fits its question.
Fitted(q, n, need, p) ==
    /\ p.order = q.order
    /\ OwnersHold(q, n, p)
    /\ p.ranges = <<>> => SumSeq(p.gpuOf) = need
    /\ p.ranges # <<>> => BlocksTiled(q, n, p.ranges)

\* The fields of a plan for a cluster.
LEMMA PlanIs ==
    ASSUME NEW p, NEW c1, NEW c2, NEW c3, NEW c4, NEW c5, NEW c6, NEW c7, NEW c8, NEW c9, NEW c10,
           NEW c11, NEW c12,
           p = [kind |-> c1, why |-> c2, order |-> c3, ranges |-> c4, slots |-> c5, shares |-> c6,
                gpuOf |-> c7, ramOf |-> c8, hybrid |-> c9, headLocal |-> c10, gpu |-> c11, ram |-> c12]
    PROVE  p.kind = c1 /\ p.order = c3 /\ p.ranges = c4 /\ p.slots = c5 /\ p.gpuOf = c7 /\ p.ramOf = c8
OBVIOUS

\* An exact plan is a refusal when no ranges are found,
LEMMA NoneFound ==
    ASSUME NEW q, NEW slotted, slotted = LargestCommonCache(q), TryRanges(q, slotted) = <<>>,
           NEW why, NEW gpu, NEW p, p = PlaceExactly(q, why, gpu)
    PROVE  p.kind = "refuse"
<1>1. PICK r : r = TryRanges(q, slotted)
  OBVIOUS
<1>2. p = Placed(q, why, gpu, slotted, r) /\ r = <<>>
  BY <1>1, Zenon DEF PlaceExactly
<1>3. p \in {Refusal(why, Resident(q), q.m.expertTotal + q.hostRam), Refusal(why, gpu, q.hostRam)}
  BY <1>2, Zenon DEF Placed
<1>4. QED BY <1>3 DEF Refusal

\* and the ranges found otherwise.
LEMMA ExactIs ==
    ASSUME NEW q, NEW slotted, slotted = LargestCommonCache(q), NEW r, r = TryRanges(q, slotted),
           r # <<>>, NEW why, NEW gpu, NEW p, p = PlaceExactly(q, why, gpu)
    PROVE  /\ p.kind = "cluster" /\ p.order = q.order /\ p.ranges = r /\ p.slots = slotted
           /\ p.gpuOf = [i \in DOMAIN q.nodes |-> OnGpu(q, i, r[i].lo, r[i].hi, r[i].spillEnd)]
           /\ p.ramOf = [i \in DOMAIN q.nodes |->
                           SumOver(q.m.experts, r[i].lo + 1, r[i].spillEnd)]
<1> DEFINE GpuOf(i) == OnGpu(q, i, r[i].lo, r[i].hi, r[i].spillEnd)
<1> DEFINE RamOf(i) == SumOver(q.m.experts, r[i].lo + 1, r[i].spillEnd)
<1> DEFINE each == DOMAIN q.nodes
<1>1. p = Placed(q, why, gpu, slotted, r)
  BY Zenon DEF PlaceExactly
<1>2. p = [kind |-> "cluster", why |-> "exact ranges", order |-> q.order,
           ranges |-> r, slots |-> slotted,
           shares |-> CutShares(q, r), gpuOf |-> [i \in each |-> GpuOf(i)],
           ramOf |-> [i \in each |-> RamOf(i)],
           hybrid |-> \E i \in each : RamOf(i) > 0, headLocal |-> TRUE,
           gpu |-> SumSeq([i \in each |-> GpuOf(i)]),
           ram |-> SumSeq([i \in each |-> RamOf(i)]) + q.hostRam]
  BY <1>1, Zenon DEF Placed
<1>3. PICK x : x = [i \in each |-> GpuOf(i)]
  OBVIOUS
<1>4. PICK y : y = [i \in each |-> RamOf(i)]
  OBVIOUS
<1>5. PICK c1, c2, c9, c10 : /\ c1 = "cluster" /\ c2 = "exact ranges"
                             /\ c9 = (\E i \in each : RamOf(i) > 0) /\ c10 = TRUE
  OBVIOUS
<1>6. PICK g, w, s, o : g = SumSeq(x) /\ w = SumSeq(y) + q.hostRam /\ s = CutShares(q, r) /\ o = q.order
  OBVIOUS
<1>7. p = [kind |-> c1, why |-> c2, order |-> o, ranges |-> r, slots |-> slotted,
           shares |-> s, gpuOf |-> x, ramOf |-> y, hybrid |-> c9, headLocal |-> c10,
           gpu |-> g, ram |-> w]
  BY <1>2, <1>3, <1>4, <1>5, <1>6, Zenon
<1>8. p.kind = c1 /\ p.order = o /\ p.ranges = r /\ p.slots = slotted /\ p.gpuOf = x /\ p.ramOf = y
  <2> HIDE DEF GpuOf, RamOf, each
  <2>1. QED BY <1>7, PlanIs
<1>9. QED BY <1>3, <1>4, <1>5, <1>6, <1>8, Zenon

\* An exact plan fits, or is a refusal.
LEMMA ExactFits ==
    ASSUME NEW n \in Nat \ {0}, NEW q, OfPlacing(q, n), NEW why, NEW gpu, NEW need, NEW p,
           p = PlaceExactly(q, why, gpu)
    PROVE  p.kind = "refuse" \/ (p.kind = "cluster" /\ Fitted(q, n, need, p))
<1>1. PICK slotted \in Nat : slotted = LargestCommonCache(q)
  BY CacheIs
<1>2. PICK r : r = TryRanges(q, slotted)
  OBVIOUS
<1>3. CASE r = <<>>
  <2>1. p.kind = "refuse"
    BY <1>1, <1>2, <1>3, NoneFound
  <2>2. QED BY <2>1
<1>4. CASE r # <<>>
  <2> DEFINE GpuOf(i) == OnGpu(q, i, r[i].lo, r[i].hi, r[i].spillEnd)
  <2> DEFINE RamOf(i) == SumOver(q.m.experts, r[i].lo + 1, r[i].spillEnd)
  <2> DEFINE each == DOMAIN q.nodes
  <2>1. /\ p.kind = "cluster" /\ p.order = q.order /\ p.ranges = r
        /\ p.gpuOf = [i \in each |-> GpuOf(i)] /\ p.ramOf = [i \in each |-> RamOf(i)]
    BY <1>1, <1>2, <1>4, ExactIs
  <2>2. each = 1..n
    BY PlacingIs
  <2>3. Tiled(q, n, r)
    <3>1. r = Ranges(q, slotted)
      BY <1>2, <1>4 DEF TryRanges
    <3>2. QED BY <1>4, <3>1, TilesAre
  <2>4. ASSUME NEW i \in 1..n
        PROVE  /\ p.gpuOf[i] <= q.nodes[i].vram
               /\ InRam(q.nodes[i], p.ramOf[i], IF i = 1 THEN q.hostRam ELSE 0)
    <3>1. Spilled(q, i, r[i].lo, r[i].hi, r[i].spillEnd)
      BY <2>3 DEF Tiled
    <3>2. /\ GpuOf(i) <= q.nodes[i].vram
          /\ InRam(q.nodes[i], RamOf(i), IF i = 1 THEN q.hostRam ELSE 0)
      BY <3>1 DEF Spilled
    <3>3. p.gpuOf[i] = GpuOf(i) /\ p.ramOf[i] = RamOf(i)
      <4> HIDE DEF GpuOf, RamOf, each
      <4>1. QED BY <2>1, <2>2
    <3> HIDE DEF GpuOf, RamOf, each
    <3>4. QED BY <3>2, <3>3
  <2>5. BlocksTiled(q, n, r)
    BY <2>3 DEF Tiled, BlocksTiled
  <2>6. Fitted(q, n, need, p)
    <3>1. OwnersHold(q, n, p)
      BY <2>4 DEF OwnersHold
    <3> HIDE DEF GpuOf, RamOf, each
    <3>2. QED BY <1>4, <2>1, <2>5, <3>1 DEF Fitted
  <2>7. QED BY <2>1, <2>6
<1>5. QED BY <1>3, <1>4

-----------------------------------------------------------------------------
(* The order of participation. *)

\* The orders of participation: the coordinator first, each machine once.
Orders(n) == {o \in [1..n -> 1..n] : o[1] = 1 /\ IsInjective(o)}
\* The recursive functions behind Pass and Order.
PassOf(nodes, o, i) ==
    CHOOSE f : f = [j \in 0..Len(nodes) |-> IF j = 0 THEN o ELSE Stronger(nodes, f[j - 1], i, j)]
OrderOf(nodes, coordinator) ==
    CHOOSE f : f = [i \in 0..Len(nodes) |->
        IF i = 0
        THEN [k \in 1..Len(nodes) |-> IF k = 1 THEN coordinator ELSE IF k <= coordinator THEN k - 1 ELSE k]
        ELSE Pass(nodes, f[i - 1], i)]

\* An exchange keeps the coordinator first and each machine once,
LEMMA StrongerIs ==
    ASSUME NEW n \in Nat \ {0}, NEW nodes, NEW o \in Orders(n), NEW i \in 1..n, NEW j \in 1..n
    PROVE  Stronger(nodes, o, i, j) \in Orders(n)
<1>1. /\ o \in [1..n -> 1..n] /\ o[1] = 1 /\ 1 \in 1..n
      /\ \A x, y \in 1..n : o[x] = o[y] => x = y
  BY DEF Orders, IsInjective
<1>2. CASE 1 < i /\ i < j /\ nodes[o[j]].vram > nodes[o[i]].vram
  <2>1. Stronger(nodes, o, i, j) = [o EXCEPT ![i] = o[j], ![j] = o[i]]
    BY <1>2, Zenon DEF Stronger
  <2>2. [o EXCEPT ![i] = o[j], ![j] = o[i]] \in [1..n -> 1..n]
    BY <1>1
  <2>3. [o EXCEPT ![i] = o[j], ![j] = o[i]][1] = 1
    BY <1>1, <1>2
  <2>4. ASSUME NEW x \in 1..n, NEW y \in 1..n,
               [o EXCEPT ![i] = o[j], ![j] = o[i]][x] = [o EXCEPT ![i] = o[j], ![j] = o[i]][y]
        PROVE  x = y
    <3>1. PICK d : d = [o EXCEPT ![i] = o[j], ![j] = o[i]]
      OBVIOUS
    <3>2. /\ d[i] = o[j] /\ d[j] = o[i]
          /\ \A k \in 1..n : k # i /\ k # j => d[k] = o[k]
      BY <1>1, <1>2, <3>1
    <3>3. d[x] = d[y]
      BY <2>4, <3>1
    <3> DEFINE e(k) == IF k = i THEN j ELSE IF k = j THEN i ELSE k
    <3>4. \A k \in 1..n : e(k) \in 1..n /\ d[k] = o[e(k)]
      BY <3>2
    <3>5. i # j
      BY <1>2
    <3>6. e(x) = e(y)
      <4> HIDE DEF e
      <4>1. QED BY <1>1, <3>3, <3>4
    <3>7. QED BY <3>5, <3>6
  <2>5. PICK d : d = [o EXCEPT ![i] = o[j], ![j] = o[i]]
    OBVIOUS
  <2>6. d \in [1..n -> 1..n] /\ d[1] = 1 /\ \A x, y \in 1..n : d[x] = d[y] => x = y
    BY <2>2, <2>3, <2>4, <2>5
  <2>7. d \in Orders(n)
    BY <2>6 DEF Orders, IsInjective
  <2>8. QED BY <2>1, <2>5, <2>7
<1>3. CASE ~(1 < i /\ i < j /\ nodes[o[j]].vram > nodes[o[i]].vram)
  <2>1. Stronger(nodes, o, i, j) = o
    BY <1>3, Zenon DEF Stronger
  <2>2. QED BY <2>1
<1>4. QED BY <1>2, <1>3

\* so does a pass of them,
LEMMA PassIs ==
    ASSUME NEW n \in Nat \ {0}, NEW nodes, Len(nodes) = n, NEW o \in Orders(n), NEW i \in 1..n
    PROVE  Pass(nodes, o, i) \in Orders(n)
<1> DEFINE T == [k \in 0..n |-> Orders(n)]
<1> DEFINE h == PassOf(nodes, o, i)
<1>0. Len(nodes) = n
  OBVIOUS
<1>1. ASSUME NEW k \in 1..n, NEW d \in T[k - 1] PROVE Stronger(nodes, d, i, k) \in T[k]
  <2>1. k - 1 \in 0..n /\ k \in 0..n
    OBVIOUS
  <2>2. d \in Orders(n)
    BY <2>1
  <2>3. Stronger(nodes, d, i, k) \in Orders(n)
    BY <2>2, StrongerIs
  <2>4. QED BY <2>1, <2>3
<1>2. o \in T[0] /\ n \in Nat /\ \A k \in 0..n : T[k] \subseteq Orders(n)
  OBVIOUS
<1> DEFINE G == [y \in Orders(n) \X (1..n) |-> Stronger(nodes, y[1], i, y[2])]
<1>3. \A k \in 1..n : \A d \in T[k - 1] : G[<<d, k>>] = Stronger(nodes, d, i, k) /\ G[<<d, k>>] \in T[k]
  <2>1. ASSUME NEW k \in 1..n, NEW d \in T[k - 1]
        PROVE  G[<<d, k>>] = Stronger(nodes, d, i, k) /\ G[<<d, k>>] \in T[k]
    <3>1. d \in Orders(n)
      <4>1. k - 1 \in 0..n
        BY <1>2
      <4> HIDE DEF T, G
      <4>2. QED BY <1>2, <4>1
    <3>2. <<d, k>> \in Orders(n) \X (1..n)
      BY <3>1
    <3>3. G[<<d, k>>] = Stronger(nodes, d, i, k)
      <4> HIDE DEF T
      <4>1. QED BY <3>2
    <3>4. Stronger(nodes, d, i, k) \in T[k]
      BY <1>1
    <3> HIDE DEF T, G
    <3>5. QED BY <3>3, <3>4
  <2> HIDE DEF T, G
  <2>2. QED BY <2>1
<1>4. PICK f : Steps(f, n, o, G) /\ \A k \in 0..n : f[k] \in T[k]
  <2> HIDE DEF T, G
  <2>1. \A k \in 1..n : \A d \in T[k - 1] : G[<<d, k>>] \in T[k]
    BY <1>3
  <2>2. n \in Nat /\ o \in T[0]
    BY <1>2
  <2>3. QED BY <2>1, <2>2, Iterated
<1>5. f = [k \in 0..n |-> IF k = 0 THEN o ELSE Stronger(nodes, f[k - 1], i, k)]
  <2>1. ASSUME NEW k \in 0..n, k # 0 PROVE G[<<f[k - 1], k>>] = Stronger(nodes, f[k - 1], i, k)
    <3>1. k \in 1..n /\ k - 1 \in 0..n
      BY <1>2, <2>1
    <3>2. f[k - 1] \in T[k - 1]
      BY <1>4, <3>1
    <3> HIDE DEF T, G
    <3>3. QED BY <1>3, <3>1, <3>2
  <2> HIDE DEF T, G
  <2>2. [k \in 0..n |-> IF k = 0 THEN o ELSE G[<<f[k - 1], k>>]]
        = [k \in 0..n |-> IF k = 0 THEN o ELSE Stronger(nodes, f[k - 1], i, k)]
    BY <2>1
  <2>3. QED BY <1>4, <2>2, Zenon DEF Steps
<1>6. h = [k \in 0..n |-> IF k = 0 THEN o ELSE Stronger(nodes, h[k - 1], i, k)]
  BY <1>0, <1>5, Zenon DEF PassOf
<1>7. h[0] = o /\ \A k \in 1..n : h[k] = Stronger(nodes, h[k - 1], i, k)
  <2>1. PICK g : g = h
    OBVIOUS
  <2>2. g = [k \in 0..n |-> IF k = 0 THEN o ELSE Stronger(nodes, g[k - 1], i, k)]
    BY <1>6, <2>1
  <2>3. 0 \in 0..n /\ \A k \in 1..n : k \in 0..n /\ k # 0
    BY <1>2
  <2> HIDE DEF T, G
  <2>4. g[0] = o /\ \A k \in 1..n : g[k] = Stronger(nodes, g[k - 1], i, k)
    BY <2>2, <2>3
  <2>5. QED BY <2>1, <2>4, Zenon
<1>8. \A k \in 0..n : h[k] \in T[k]
  <2>1. PICK g : g = h
    OBVIOUS
  <2>2. ASSUME NEW k \in 1..n, g[k - 1] \in T[k - 1] PROVE g[k] \in T[k]
    <3>1. g[k] = Stronger(nodes, g[k - 1], i, k)
      BY <1>7, <2>1
    <3>2. Stronger(nodes, g[k - 1], i, k) \in T[k]
      BY <1>1, <2>2
    <3> HIDE DEF T, G
    <3>3. QED BY <3>1, <3>2
  <2>3. g[0] \in T[0]
    <3> HIDE DEF T, G
    <3>1. QED BY <1>2, <1>7, <2>1
  <2> HIDE DEF T, G
  <2>4. \A k \in 0..n : g[k] \in T[k]
    BY <1>2, <2>2, <2>3, Rising
  <2>5. QED BY <2>1, <2>4
<1>9. Pass(nodes, o, i) = h[Len(nodes)]
  BY Zenon DEF Pass, PassOf
<1>10. n \in 0..n
  OBVIOUS
<1> HIDE DEF h
<1>11. h[n] \in Orders(n)
  BY <1>2, <1>8, <1>10
<1>12. QED BY <1>0, <1>9, <1>11

\* and the order they end in is one of these.
LEMMA OrderIs ==
    ASSUME NEW n \in Nat \ {0}, NEW nodes, Len(nodes) = n
    PROVE  Order(nodes, 1) \in Orders(n)
<1> DEFINE T == [k \in 0..n |-> Orders(n)]
<1> DEFINE h == OrderOf(nodes, 1)
<1> DEFINE listed == [k \in 1..Len(nodes) |-> IF k = 1 THEN 1 ELSE IF k <= 1 THEN k - 1 ELSE k]
<1>0. Len(nodes) = n
  OBVIOUS
<1>1. ASSUME NEW k \in 1..n, NEW d \in T[k - 1] PROVE Pass(nodes, d, k) \in T[k]
  <2>1. k - 1 \in 0..n /\ k \in 0..n
    OBVIOUS
  <2>2. d \in Orders(n)
    BY <2>1
  <2>3. Pass(nodes, d, k) \in Orders(n)
    BY <2>2, PassIs
  <2>4. QED BY <2>1, <2>3
<1>2. listed \in T[0] /\ n \in Nat /\ \A k \in 0..n : T[k] \subseteq Orders(n)
  <2>1. listed \in Orders(n)
    <3>1. listed = [k \in 1..n |-> k]
      BY <1>0
    <3> HIDE DEF listed
    <3>2. listed \in [1..n -> 1..n] /\ listed[1] = 1 /\ \A x, y \in 1..n : listed[x] = listed[y] => x = y
      BY <3>1
    <3>3. QED BY <3>2 DEF Orders, IsInjective
  <2> HIDE DEF listed
  <2>2. QED BY <2>1
<1> DEFINE G == [y \in Orders(n) \X (1..n) |-> Pass(nodes, y[1], y[2])]
<1>3. \A k \in 1..n : \A d \in T[k - 1] : G[<<d, k>>] = Pass(nodes, d, k) /\ G[<<d, k>>] \in T[k]
  <2>1. ASSUME NEW k \in 1..n, NEW d \in T[k - 1]
        PROVE  G[<<d, k>>] = Pass(nodes, d, k) /\ G[<<d, k>>] \in T[k]
    <3>1. d \in Orders(n)
      <4>1. k - 1 \in 0..n
        BY <1>2
      <4> HIDE DEF T, G, listed, h
      <4>2. QED BY <1>2, <4>1
    <3>2. <<d, k>> \in Orders(n) \X (1..n)
      BY <3>1
    <3>3. G[<<d, k>>] = Pass(nodes, d, k)
      <4> HIDE DEF T, listed, h
      <4>1. QED BY <3>2
    <3>4. Pass(nodes, d, k) \in T[k]
      BY <1>1
    <3> HIDE DEF T, G, listed, h
    <3>5. QED BY <3>3, <3>4
  <2> HIDE DEF T, G, listed, h
  <2>2. QED BY <2>1
<1>4. PICK f : Steps(f, n, listed, G) /\ \A k \in 0..n : f[k] \in T[k]
  <2> HIDE DEF T, G, listed, h
  <2>1. \A k \in 1..n : \A d \in T[k - 1] : G[<<d, k>>] \in T[k]
    BY <1>3
  <2>2. n \in Nat /\ listed \in T[0]
    BY <1>2
  <2>3. QED BY <2>1, <2>2, Iterated
<1>5. f = [k \in 0..n |-> IF k = 0 THEN listed ELSE Pass(nodes, f[k - 1], k)]
  <2>1. ASSUME NEW k \in 0..n, k # 0 PROVE G[<<f[k - 1], k>>] = Pass(nodes, f[k - 1], k)
    <3>1. k \in 1..n /\ k - 1 \in 0..n
      BY <1>2, <2>1
    <3>2. f[k - 1] \in T[k - 1]
      BY <1>4, <3>1
    <3> HIDE DEF T, G, listed, h
    <3>3. QED BY <1>3, <3>1, <3>2
  <2> HIDE DEF T, G, listed, h
  <2>2. [k \in 0..n |-> IF k = 0 THEN listed ELSE G[<<f[k - 1], k>>]]
        = [k \in 0..n |-> IF k = 0 THEN listed ELSE Pass(nodes, f[k - 1], k)]
    BY <2>1
  <2>3. QED BY <1>4, <2>2, Zenon DEF Steps
<1>6. h = [k \in 0..n |-> IF k = 0 THEN listed ELSE Pass(nodes, h[k - 1], k)]
  BY <1>0, <1>5, Zenon DEF OrderOf
<1>7. h[0] = listed /\ \A k \in 1..n : h[k] = Pass(nodes, h[k - 1], k)
  <2>1. PICK g : g = h
    OBVIOUS
  <2>2. g = [k \in 0..n |-> IF k = 0 THEN listed ELSE Pass(nodes, g[k - 1], k)]
    BY <1>6, <2>1
  <2>3. 0 \in 0..n /\ \A k \in 1..n : k \in 0..n /\ k # 0
    BY <1>2
  <2> HIDE DEF T, G, listed, h
  <2>4. g[0] = listed /\ \A k \in 1..n : g[k] = Pass(nodes, g[k - 1], k)
    BY <2>2, <2>3
  <2>5. QED BY <2>1, <2>4, Zenon
<1>8. \A k \in 0..n : h[k] \in T[k]
  <2>1. PICK g : g = h
    OBVIOUS
  <2>2. ASSUME NEW k \in 1..n, g[k - 1] \in T[k - 1] PROVE g[k] \in T[k]
    <3>1. g[k] = Pass(nodes, g[k - 1], k)
      BY <1>7, <2>1
    <3>2. Pass(nodes, g[k - 1], k) \in T[k]
      BY <1>1, <2>2
    <3> HIDE DEF T, G, listed, h
    <3>3. QED BY <3>1, <3>2
  <2>3. g[0] \in T[0]
    <3> HIDE DEF T, G, listed, h
    <3>1. QED BY <1>2, <1>7, <2>1
  <2> HIDE DEF T, G, listed, h
  <2>4. \A k \in 0..n : g[k] \in T[k]
    BY <1>2, <2>2, <2>3, Rising
  <2>5. QED BY <2>1, <2>4
<1>9. Order(nodes, 1) = h[Len(nodes)]
  BY Zenon DEF Order, OrderOf
<1>10. n \in 0..n
  OBVIOUS
<1> HIDE DEF h
<1>11. h[n] \in Orders(n)
  BY <1>2, <1>8, <1>10
<1>12. QED BY <1>0, <1>9, <1>11

-----------------------------------------------------------------------------
(* One machine with experts in RAM. *)

\* What of the GPU a prefix of blocks with their experts in RAM takes, and how many slots of a
\* cache there is room for beside it.
PrefixGpu(m, need, p) == Floor0(need - SumOver(m.experts, 1, p)) + Staging(Geometry(m, 0, p))
PrefixRoom(m, need, usable, p) ==
    LET g == Geometry(m, 0, p)
        free == usable - PrefixGpu(m, need, p) - CacheFixed(g)
        room == IF g.slot > 0 /\ free > 0 THEN free \div g.slot ELSE 0
    IN  IF room < m.nUsed THEN 0 ELSE Smaller(room, CacheTarget(m))

PrefixOf(at, m, need, usable, cap, p) ==
    /\ at.ram = SumOver(m.experts, 1, p)
    /\ at.gpu = PrefixGpu(m, need, p)
    /\ at.onGpu = (PrefixGpu(m, need, p) <= usable)
    /\ at.inRam = (SumOver(m.experts, 1, p) <= cap)
    /\ at.slots = PrefixRoom(m, need, usable, p)

\* The fields of a prefix.
LEMMA PrefixIs ==
    ASSUME NEW m, NEW need, NEW usable, NEW cap, NEW p
    PROVE  PrefixOf(PrefixAt(m, need, usable, cap, p), m, need, usable, cap, p)
<1>0. PICK at : at = PrefixAt(m, need, usable, cap, p)
  OBVIOUS
<1>1. PICK c1, c2, c5 : /\ c1 = SumOver(m.experts, 1, p) /\ c2 = PrefixGpu(m, need, p)
                        /\ c5 = PrefixRoom(m, need, usable, p)
  OBVIOUS
<1>2. PICK c3, c4 : c3 = (c2 <= usable) /\ c4 = (c1 <= cap)
  OBVIOUS
<1>3. at = [ram |-> c1, gpu |-> c2, onGpu |-> c3, inRam |-> c4, slots |-> c5]
  <2>1. at = [ram |-> SumOver(m.experts, 1, p), gpu |-> PrefixGpu(m, need, p),
              onGpu |-> PrefixGpu(m, need, p) <= usable, inRam |-> SumOver(m.experts, 1, p) <= cap,
              slots |-> PrefixRoom(m, need, usable, p)]
    BY <1>0, Zenon DEF PrefixAt, PrefixGpu, PrefixRoom
  <2>2. QED BY <1>1, <1>2, <2>1, Zenon
<1>4. at.ram = c1 /\ at.gpu = c2 /\ at.onGpu = c3 /\ at.inRam = c4
  BY <1>3, Zenon
<1>5. at.slots = c5
  BY <1>3, Zenon
<1>6. QED BY <1>0, <1>1, <1>2, <1>4, <1>5, Zenon DEF PrefixOf

\* The caches of a model's prefixes.
Slotted(m, need, usable, cap) ==
    {0} \cup {PrefixAt(m, need, usable, cap, p).slots : p \in 1..NumBlocks(m)}
\* The states of the scan: the prefix kept is one that fits.
Scans(m, need, usable, cap) ==
    {s \in [blocks : 0..NumBlocks(m), slots : Slotted(m, need, usable, cap), short : 0..NumBlocks(m),
             done : BOOLEAN] :
        s.blocks > 0 => /\ PrefixAt(m, need, usable, cap, s.blocks).onGpu
                        /\ PrefixAt(m, need, usable, cap, s.blocks).inRam}
\* The recursive function behind ScanPrefixes.
ScanOf(m, need, usable, cap) ==
    CHOOSE f : f = [p \in 0..NumBlocks(m) |->
        IF p = 0 THEN NothingYet
        ELSE NextPrefix(f[p - 1], PrefixAt(m, need, usable, cap, p), p, CacheTarget(m))]

\* One prefix more is a state of the scan,
LEMMA NextPrefixIs ==
    ASSUME NEW m, OfModel(m), NEW need, NEW usable, NEW cap, NEW p \in 1..NumBlocks(m),
           NEW s \in Scans(m, need, usable, cap), NEW target
    PROVE  NextPrefix(s, PrefixAt(m, need, usable, cap, p), p, target) \in Scans(m, need, usable, cap)
<1>1. PICK L \in Nat : L = NumBlocks(m)
  BY FieldsAre
<1>2. PICK U : U = Slotted(m, need, usable, cap)
  OBVIOUS
<1>3. PICK R : R = [blocks : 0..L, slots : U, short : 0..L, done : BOOLEAN]
  OBVIOUS
<1> DEFINE Short(x) == PrefixAt(m, need, usable, cap, x)
<1> DEFINE Fits(x) == Short(x).onGpu /\ Short(x).inRam
<1>4. Scans(m, need, usable, cap) = {x \in R : x.blocks > 0 => Fits(x.blocks)}
  BY <1>1, <1>2, <1>3, Zenon DEF Scans
<1> HIDE DEF Fits
<1>5. s \in R /\ (s.blocks > 0 => Fits(s.blocks))
  BY <1>4
<1>6. PICK few \in U : few = Short(p).slots
  BY <1>2 DEF Slotted
<1>7. p \in 0..L /\ p > 0
  BY <1>1
<1>8. PICK t : t = NextPrefix(s, Short(p), p, target)
  OBVIOUS
<1>9. CASE s.done \/ ~Short(p).onGpu
  <2>1. t = s
    BY <1>8, <1>9, Zenon DEF NextPrefix
  <2>2. QED BY <1>8, <2>1
<1>10. CASE ~s.done /\ Short(p).onGpu /\ ~Short(p).inRam
  <2>1. t = [s EXCEPT !.short = p, !.done = TRUE]
    BY <1>8, <1>10, Zenon DEF NextPrefix
  <2>2. t = [[s EXCEPT !.short = p] EXCEPT !.done = TRUE]
    BY <2>1
  <2>3. PICK u : u = [s EXCEPT !.short = p]
    OBVIOUS
  <2>4. u \in R /\ u.blocks = s.blocks
    BY <1>3, <1>5, <1>7, <2>3
  <2>5. t = [u EXCEPT !.done = TRUE]
    BY <2>2, <2>3
  <2>6. t \in R /\ t.blocks = u.blocks
    BY <1>3, <2>4, <2>5
  <2> HIDE DEF Short
  <2>7. t \in {x \in R : x.blocks > 0 => Fits(x.blocks)}
    BY <1>5, <2>4, <2>6
  <2>8. QED BY <1>4, <1>8, <2>7 DEF Short
<1>11. CASE ~s.done /\ Short(p).onGpu /\ Short(p).inRam
  <2> DEFINE better == s.blocks = 0 \/ Short(p).slots > s.slots
  <2>1. PICK u : u = IF better THEN [s EXCEPT !.blocks = p, !.slots = Short(p).slots] ELSE s
    OBVIOUS
  <2>2. t = [u EXCEPT !.done = u.slots = target]
    BY <1>8, <1>11, <2>1, Zenon DEF NextPrefix
  <2>3. Fits(p)
    BY <1>11 DEF Fits
  <2>4. u \in R /\ (u.blocks > 0 => Fits(u.blocks))
    <3>1. CASE better
      <4>1. u = [s EXCEPT !.blocks = p, !.slots = few]
        BY <1>6, <2>1, <3>1, Zenon
      <4>2. u = [[s EXCEPT !.blocks = p] EXCEPT !.slots = few]
        BY <4>1
      <4>3. PICK v : v = [s EXCEPT !.blocks = p]
        OBVIOUS
      <4>4. v \in R /\ v.blocks = p
        BY <1>3, <1>5, <1>7, <4>3
      <4>5. u = [v EXCEPT !.slots = few]
        BY <4>2, <4>3
      <4>6. u \in R /\ u.blocks = v.blocks
        BY <1>3, <4>4, <4>5
      <4>7. u.blocks = p
        BY <4>4, <4>6
      <4> HIDE DEF Short, better
      <4>8. QED BY <2>3, <4>6, <4>7
    <3>2. CASE ~better
      <4>1. u = s
        BY <2>1, <3>2, Zenon
      <4>2. QED BY <1>5, <4>1, Zenon
    <3>3. QED BY <3>1, <3>2, Zenon
  <2>5. PICK b \in BOOLEAN : b = (u.slots = target)
    OBVIOUS
  <2>6. t = [u EXCEPT !.done = b]
    BY <2>2, <2>5, Zenon
  <2>7. t \in R /\ t.blocks = u.blocks
    BY <1>3, <2>4, <2>6
  <2> HIDE DEF Short
  <2>8. t \in {x \in R : x.blocks > 0 => Fits(x.blocks)}
    BY <2>4, <2>7
  <2>9. QED BY <1>4, <1>8, <2>8 DEF Short
<1>12. QED BY <1>9, <1>10, <1>11, Zenon

\* and so are all the scan comes through, to where it ends.
LEMMA ScanIs ==
    ASSUME NEW m, OfModel(m), NEW need, NEW usable, NEW cap
    PROVE  /\ ScanPrefixes(m, need, usable, cap) = ScanOf(m, need, usable, cap)[NumBlocks(m)]
           /\ ScanOf(m, need, usable, cap)[0] = NothingYet
           /\ \A k \in 1..NumBlocks(m) :
                 ScanOf(m, need, usable, cap)[k]
                   = NextPrefix(ScanOf(m, need, usable, cap)[k - 1],
                                PrefixAt(m, need, usable, cap, k), k, CacheTarget(m))
           /\ \A k \in 0..NumBlocks(m) :
                 ScanOf(m, need, usable, cap)[k] \in Scans(m, need, usable, cap)
<1> DEFINE L == NumBlocks(m)
<1> DEFINE D == Scans(m, need, usable, cap)
<1> DEFINE T == [k \in 0..L |-> D]
<1> DEFINE Short(k) == PrefixAt(m, need, usable, cap, k)
<1> DEFINE z == NothingYet
<1> DEFINE h == ScanOf(m, need, usable, cap)
<1>0. L \in Nat
  BY FieldsAre
<1>1. ASSUME NEW k \in 1..L, NEW d \in T[k - 1] PROVE NextPrefix(d, Short(k), k, CacheTarget(m)) \in T[k]
  <2>1. k - 1 \in 0..L /\ k \in 0..L
    BY <1>0
  <2>2. d \in D
    BY <2>1
  <2>3. NextPrefix(d, Short(k), k, CacheTarget(m)) \in D
    BY <2>2, NextPrefixIs
  <2>4. T[k] = D
    BY <2>1
  <2> HIDE DEF T, D, Short
  <2>5. QED BY <2>3, <2>4
<1>2. z \in T[0] /\ L \in Nat /\ \A k \in 0..L : T[k] \subseteq D
  <2>1. PICK U : U = Slotted(m, need, usable, cap)
    OBVIOUS
  <2>2. 0 \in U
    BY <2>1 DEF Slotted
  <2>3. z \in [blocks : 0..L, slots : U, short : 0..L, done : BOOLEAN] /\ z.blocks = 0
    BY <1>0, <2>2 DEF NothingYet
  <2>4. ~(z.blocks > 0)
    BY <2>3
  <2>5. z \in D
    BY <2>1, <2>3, <2>4, Zenon DEF Scans
  <2> HIDE DEF z, D, L
  <2>6. QED BY <1>0, <2>5
<1> DEFINE G == [y \in D \X (1..L) |-> NextPrefix(y[1], Short(y[2]), y[2], CacheTarget(m))]
<1>3. \A k \in 1..L : \A d \in T[k - 1] : G[<<d, k>>] = NextPrefix(d, Short(k), k, CacheTarget(m)) /\ G[<<d, k>>] \in T[k]
  <2>1. ASSUME NEW k \in 1..L, NEW d \in T[k - 1]
        PROVE  G[<<d, k>>] = NextPrefix(d, Short(k), k, CacheTarget(m)) /\ G[<<d, k>>] \in T[k]
    <3>1. d \in D
      <4>1. k - 1 \in 0..L
        BY <1>2
      <4> HIDE DEF T, G, z, D, L, h, Short
      <4>2. QED BY <1>2, <4>1
    <3>2. <<d, k>> \in D \X (1..L)
      BY <3>1
    <3>3. G[<<d, k>>] = NextPrefix(d, Short(k), k, CacheTarget(m))
      <4> HIDE DEF T, z, D, L, h, Short
      <4>1. QED BY <3>2
    <3>4. NextPrefix(d, Short(k), k, CacheTarget(m)) \in T[k]
      BY <1>1
    <3> HIDE DEF T, G, z, D, L, h, Short
    <3>5. QED BY <3>3, <3>4
  <2> HIDE DEF T, G, z, D, L, h, Short
  <2>2. QED BY <2>1
<1>4. PICK f : Steps(f, L, z, G) /\ \A k \in 0..L : f[k] \in T[k]
  <2> HIDE DEF T, G, z, D, L, h, Short
  <2>1. \A k \in 1..L : \A d \in T[k - 1] : G[<<d, k>>] \in T[k]
    BY <1>3
  <2>2. L \in Nat /\ z \in T[0]
    BY <1>2
  <2>3. QED BY <2>1, <2>2, Iterated
<1>5. f = [k \in 0..L |-> IF k = 0 THEN z ELSE NextPrefix(f[k - 1], Short(k), k, CacheTarget(m))]
  <2>1. ASSUME NEW k \in 0..L, k # 0 PROVE G[<<f[k - 1], k>>] = NextPrefix(f[k - 1], Short(k), k, CacheTarget(m))
    <3>1. k \in 1..L /\ k - 1 \in 0..L
      BY <1>2, <2>1
    <3>2. f[k - 1] \in T[k - 1]
      BY <1>4, <3>1
    <3> HIDE DEF T, G, z, D, L, h, Short
    <3>3. QED BY <1>3, <3>1, <3>2
  <2> HIDE DEF T, G, z, D, L, h, Short
  <2>2. [k \in 0..L |-> IF k = 0 THEN z ELSE G[<<f[k - 1], k>>]]
        = [k \in 0..L |-> IF k = 0 THEN z ELSE NextPrefix(f[k - 1], Short(k), k, CacheTarget(m))]
    BY <2>1
  <2>3. QED BY <1>4, <2>2, Zenon DEF Steps
<1>6. h = [k \in 0..L |-> IF k = 0 THEN z ELSE NextPrefix(h[k - 1], Short(k), k, CacheTarget(m))]
  BY <1>5, Zenon DEF ScanOf
<1>7. h[0] = z /\ \A k \in 1..L : h[k] = NextPrefix(h[k - 1], Short(k), k, CacheTarget(m))
  <2>1. PICK g : g = h
    OBVIOUS
  <2>2. g = [k \in 0..L |-> IF k = 0 THEN z ELSE NextPrefix(g[k - 1], Short(k), k, CacheTarget(m))]
    BY <1>6, <2>1
  <2>3. 0 \in 0..L /\ \A k \in 1..L : k \in 0..L /\ k # 0
    BY <1>2
  <2> HIDE DEF T, G, z, D, L, h, Short
  <2>4. g[0] = z /\ \A k \in 1..L : g[k] = NextPrefix(g[k - 1], Short(k), k, CacheTarget(m))
    BY <2>2, <2>3
  <2>5. QED BY <2>1, <2>4, Zenon
<1>8. \A k \in 0..L : h[k] \in T[k]
  <2>1. PICK g : g = h
    OBVIOUS
  <2>2. ASSUME NEW k \in 1..L, g[k - 1] \in T[k - 1] PROVE g[k] \in T[k]
    <3>1. g[k] = NextPrefix(g[k - 1], Short(k), k, CacheTarget(m))
      BY <1>7, <2>1
    <3>2. NextPrefix(g[k - 1], Short(k), k, CacheTarget(m)) \in T[k]
      BY <1>1, <2>2
    <3> HIDE DEF T, G, z, D, L, h, Short
    <3>3. QED BY <3>1, <3>2
  <2>3. g[0] \in T[0]
    <3> HIDE DEF T, G, z, D, L, h, Short
    <3>1. QED BY <1>2, <1>7, <2>1
  <2> HIDE DEF T, G, z, D, L, h, Short
  <2>4. \A k \in 0..L : g[k] \in T[k]
    BY <1>2, <2>2, <2>3, Rising
  <2>5. QED BY <2>1, <2>4
<1>9. ScanPrefixes(m, need, usable, cap) = h[L]
  BY Zenon DEF ScanPrefixes, ScanOf
<1>10. \A k \in 0..L : h[k] \in D
  <2> HIDE DEF h, D, L
  <2>1. QED BY <1>8
<1>11. QED BY <1>7, <1>9, <1>10, Zenon

\* The fields of a plan for one machine.
LEMMA SingleIs ==
    ASSUME NEW p, NEW c1, NEW c2, NEW c3, NEW c4, NEW c5, NEW c6,
           p = [kind |-> c1, why |-> c2, blocks |-> c3, slots |-> c4, gpu |-> c5, ram |-> c6]
    PROVE  p.kind = c1 /\ p.why = c2 /\ p.slots = c4 /\ p.gpu = c5 /\ p.ram = c6
OBVIOUS

\* What the scan found, or a refusal when it found nothing.
LEMMA HybridIs ==
    ASSUME NEW s, s.blocks \in Nat, NEW at, NEW host, NEW p, p = HybridOf(s, at, host)
    PROVE  /\ s.blocks > 0 => /\ p.kind = "single" /\ p.slots = s.slots
                              /\ p.gpu = at.gpu /\ p.ram = at.ram + host
           /\ s.blocks = 0 => p.kind = "refuse"
<1>1. CASE s.blocks > 0
  <2>1. p = [kind |-> "single", why |-> "experts in RAM", blocks |-> s.blocks,
             slots |-> s.slots, gpu |-> at.gpu, ram |-> at.ram + host]
    <3>1. ~(s.blocks = 0 /\ s.short > 0)
      BY <1>1
    <3>2. QED BY <1>1, <3>1, Zenon DEF HybridOf
  <2>2. PICK why : why = "experts in RAM"
    OBVIOUS
  <2>3. PICK c, b, f, g, x : c = "single" /\ b = s.blocks /\ f = s.slots /\ g = at.gpu /\ x = at.ram + host
    OBVIOUS
  <2>4. p = [kind |-> c, why |-> why, blocks |-> b, slots |-> f, gpu |-> g, ram |-> x]
    BY <2>1, <2>2, <2>3, Zenon
  <2>5. p.kind = c /\ p.slots = f /\ p.gpu = g /\ p.ram = x
    BY <2>4, SingleIs
  <2>6. s.blocks # 0
    BY <1>1
  <2>7. QED BY <2>3, <2>5, <2>6, Zenon
<1>2. CASE s.blocks = 0
  <2>1. ~(s.blocks > 0)
    BY <1>2
  <2>2. p = Refusal("RAM is short", at.gpu, at.ram + host) \/ p = Refusal("GPU is short", at.gpu, at.ram + host)
    <3>1. CASE s.short > 0
      BY <1>2, <2>1, <3>1, Zenon DEF HybridOf
    <3>2. CASE ~(s.short > 0)
      BY <1>2, <2>1, <3>2, Zenon DEF HybridOf
    <3>3. QED BY <3>1, <3>2
  <2>3. PICK why : p = Refusal(why, at.gpu, at.ram + host)
    BY <2>2
  <2>4. p.kind = "refuse"
    BY <2>3 DEF Refusal
  <2>5. QED BY <2>1, <2>4, Zenon
<1>3. QED BY <1>1, <1>2

\* A plan for one machine with experts in RAM fits it, or is a refusal.
LEMMA HybridFits ==
    ASSUME NEW m, OfModel(m), NEW node \in NodeMem, NEW host \in Nat, host <= node.ram,
           NEW need, NEW usable, NEW p, p = SingleHybrid(m, node, host, need, usable)
    PROVE  \/ p.kind = "refuse"
           \/ p.kind = "single" /\ p.gpu <= usable /\ InRam(node, p.ram - host, host)
<1>1. PICK cap : cap = RamCap(LessHost(node, host))
  OBVIOUS
<1>2. PICK s : s = ScanPrefixes(m, need, usable, cap)
  OBVIOUS
<1>3. PICK L \in Nat : L = NumBlocks(m)
  BY FieldsAre
<1>4. s.blocks \in 0..L /\ (s.blocks > 0 => /\ PrefixAt(m, need, usable, cap, s.blocks).onGpu
                                            /\ PrefixAt(m, need, usable, cap, s.blocks).inRam)
  <2>1. s \in Scans(m, need, usable, cap)
    <3>1. L \in 0..L
      OBVIOUS
    <3>2. QED BY <1>2, <1>3, <3>1, ScanIs, Zenon
  <2>2. PICK U : U = Slotted(m, need, usable, cap)
    OBVIOUS
  <2>3. s \in [blocks : 0..L, slots : U, short : 0..L, done : BOOLEAN]
        /\ (s.blocks > 0 => /\ PrefixAt(m, need, usable, cap, s.blocks).onGpu
                           /\ PrefixAt(m, need, usable, cap, s.blocks).inRam)
    BY <1>3, <2>1, <2>2, Zenon DEF Scans
  <2>4. s.blocks \in 0..L
    BY <2>3
  <2>5. QED BY <2>3, <2>4, Zenon
<1>5. PICK at : at = PrefixAt(m, need, usable, cap, Chosen(s, L))
  OBVIOUS
<1>6. p = HybridOf(s, at, host)
  BY <1>1, <1>2, <1>3, <1>5, Zenon DEF SingleHybrid
<1>7. s.blocks \in Nat
  BY <1>4
<1>8. CASE s.blocks > 0
  <2>1. at = PrefixAt(m, need, usable, cap, s.blocks)
    <3>1. Chosen(s, L) = s.blocks
      BY <1>8 DEF Chosen
    <3>2. QED BY <1>5, <3>1
  <2>2. at.onGpu /\ at.inRam
    BY <1>4, <1>8, <2>1, Zenon
  <2>3. PICK x, y : x = SumOver(m.experts, 1, s.blocks) /\ y = PrefixGpu(m, need, s.blocks)
    OBVIOUS
  <2>4. at.ram = x /\ at.gpu = y /\ at.onGpu = (y <= usable) /\ at.inRam = (x <= cap)
    <3>1. PrefixOf(at, m, need, usable, cap, s.blocks)
      BY <2>1, PrefixIs
    <3>2. QED BY <2>3, <3>1, Zenon DEF PrefixOf
  <2>5. y <= usable /\ x <= cap
    BY <2>2, <2>4, Zenon
  <2>6. x \in Nat
    <3>1. m.experts \in Seq(Nat) /\ Len(m.experts) = L
      BY <1>3, FieldsAre
    <3>2. PICK e \in Seq(Nat) : e = m.experts
      BY <3>1
    <3>3. \A k \in 0..Len(e) : SumOver(e, 1, k) \in Nat
      BY SumIsNat
    <3>4. QED BY <1>4, <2>3, <3>1, <3>2, <3>3
  <2>7. InRam(node, x, host)
    BY <1>1, <2>5, <2>6, CapIsRam
  <2>8. p.kind = "single" /\ p.gpu = y /\ p.ram = x + host
    BY <1>6, <1>7, <1>8, <2>4, HybridIs
  <2>9. p.ram - host = x
    BY <2>6, <2>8
  <2>10. QED BY <2>5, <2>7, <2>8, <2>9, Zenon
<1>9. CASE s.blocks = 0
  BY <1>6, <1>7, <1>9, HybridIs
<1>10. QED BY <1>7, <1>8, <1>9

-----------------------------------------------------------------------------
(* The split by ratio: what the shares are made of. *)

\* A sum of naturals is no less than any of them.
LEMMA SumAtLeast ==
    ASSUME NEW n \in Nat, NEW a \in [1..n -> Nat], NEW i \in 1..n
    PROVE  SumOver(a, 1, n) \in Nat /\ a[i] <= SumOver(a, 1, n)
<1> DEFINE b == [j \in 1..n |-> IF j = i THEN a[i] ELSE 0]
<1>1. b \in [1..n -> Int] /\ a \in [1..n -> Int] /\ \A j \in 1..n : b[j] <= a[j]
  OBVIOUS
<1>2. b[i] = a[i] /\ \A j \in 1..n : j # i => b[j] = 0
  OBVIOUS
<1> HIDE DEF b
<1>3. SumOver(b, 1, n) = b[i]
  BY <1>1, <1>2, SumOfOne
<1>4. n \in 0..n /\ n \in Nat
  OBVIOUS
<1>5. SumOver(b, 1, n) <= SumOver(a, 1, n)
  BY <1>1, <1>4, SumsGrow
<1>6. SumOver(a, 1, n) \in Nat
  <2>1. a \in Seq(Nat) /\ Len(a) = n
    OBVIOUS
  <2>2. QED BY <1>4, <2>1, SumIsNat
<1>7. QED BY <1>2, <1>3, <1>5, <1>6

\* The first of the greatest.
LEMMA Greatest ==
    ASSUME NEW n \in Nat \ {0}, NEW h \in [1..n -> Int]
    PROVE  \E i \in 1..n : \A j \in 1..n : h[i] > h[j] \/ (h[i] = h[j] /\ i <= j)
<1> DEFINE Leads(i, k) == i \in 1..k /\ \A j \in 1..k : h[i] > h[j] \/ (h[i] = h[j] /\ i <= j)
<1> DEFINE Bad == {k \in 1..n : ~ \E i \in 1..n : Leads(i, k)}
<1>1. ASSUME Bad # {} PROVE FALSE
  <2>1. PICK k \in Bad : \A j \in Bad : k <= j
    <3>1. Bad \subseteq Nat
      OBVIOUS
    <3> HIDE DEF Bad
    <3>2. QED BY <1>1, <3>1, LeastOf
  <2>2. k \in 1..n
    BY <2>1
  <2>3. k # 1
    <3>1. Leads(1, 1)
      OBVIOUS
    <3>2. 1 \in 1..n
      OBVIOUS
    <3>3. QED BY <2>1, <3>1, <3>2
  <2>4. k - 1 \in 1..n /\ k - 1 \notin Bad
    <3> HIDE DEF Bad
    <3>1. k - 1 \in 1..n /\ ~(k <= k - 1)
      BY <2>2, <2>3
    <3>2. QED BY <2>1, <3>1
  <2>5. PICK i \in 1..n : Leads(i, k - 1)
    BY <2>4
  <2>6. h[i] \in Int /\ h[k] \in Int /\ \A j \in 1..n : h[j] \in Int
    BY <2>2
  <2>7. CASE h[i] >= h[k]
    <3>1. Leads(i, k)
      <4>1. i \in 1..k /\ i <= k
        BY <2>2, <2>5
      <4>2. ASSUME NEW j \in 1..k PROVE h[i] > h[j] \/ (h[i] = h[j] /\ i <= j)
        <5>1. CASE j = k
          BY <2>6, <2>7, <4>1, <5>1
        <5>2. CASE j # k
          <6>1. j \in 1..(k - 1)
            BY <2>2, <5>2
          <6>2. QED BY <2>5, <6>1
        <5>3. QED BY <5>1, <5>2
      <4>3. QED BY <4>1, <4>2
    <3> HIDE DEF Leads
    <3>2. QED BY <2>1, <3>1
  <2>8. CASE h[k] > h[i]
    <3>1. Leads(k, k)
      <4>1. ASSUME NEW j \in 1..k PROVE h[k] > h[j] \/ (h[k] = h[j] /\ k <= j)
        <5>1. CASE j = k
          BY <2>2, <2>6, <5>1
        <5>2. CASE j # k
          <6>1. j \in 1..(k - 1) /\ j \in 1..n
            BY <2>2, <5>2
          <6>2. h[i] >= h[j]
            BY <2>5, <2>6, <6>1
          <6>3. QED BY <2>6, <2>8, <6>1, <6>2
        <5>3. QED BY <5>1, <5>2
      <4>2. k \in 1..k
        BY <2>2
      <4>3. QED BY <4>1, <4>2
    <3> HIDE DEF Leads
    <3>2. QED BY <2>1, <2>2, <3>1
  <2>9. QED BY <2>6, <2>7, <2>8
<1>2. n \in 1..n
  OBVIOUS
<1>3. PICK i \in 1..n : Leads(i, n)
  BY <1>1, <1>2
<1>4. QED BY <1>3

\* The slice to be split, and the fixed part, pool and cap of a machine, are numbers of bytes.
LEMMA RatioIs ==
    ASSUME NEW n \in Nat \ {0}, NEW q, OfPlacing(q, n)
    PROVE  /\ Slice(q) \in Nat
           /\ \A i \in 1..n : FixedOf(q, i) \in Nat /\ Pool(q, i) \in Nat /\ Cap(q, i) \in Nat
<1>1. OfModel(q.m) /\ q.ctx \in Nat /\ q.backend \in Backends /\ q.hostGpu \in Nat
      /\ MtpBytes(q.m, q.ctx, q.backend) # Unmeasured
  BY PlacingIs DEF OfPlacing
<1>2. PICK c \in Nat : c = ComputeBytes(q.m, q.ctx, q.backend)
  BY PlacingIs
<1>3. PICK mc \in Nat : mc = MtpCompute(q.m, q.ctx, q.backend)
  BY PlacingIs
<1>4. PICK mb \in Nat : mb = MtpBytes(q.m, q.ctx, q.backend) /\ mc <= mb
  BY <1>3, PlacingIs
<1>5. PICK kv \in Nat : kv = KvBytes(q.m, q.ctx)
  BY PlacingIs
<1>6. PICK mm \in Nat, tot \in Nat, w \in Nat :
         /\ mm = q.m.mmproj /\ tot = q.m.total /\ w <= tot
         /\ w = IF q.m.mtp.on THEN q.m.mtp.weights ELSE 0
  <2>1. PICK m : m = q.m
    OBVIOUS
  <2>2. OfModel(m) /\ MtpBytes(m, q.ctx, q.backend) # Unmeasured
    BY <1>1, <2>1
  <2>3. m.mmproj \in Nat /\ m.total \in Nat
    BY <2>2, FieldsAre
  <2>4. m.mtp.on => m.mtp.weights \in Nat /\ m.mtp.weights <= m.total
    BY <1>1, <2>2, NeedsAre
  <2>5. PICK w : w = IF m.mtp.on THEN m.mtp.weights ELSE 0
    OBVIOUS
  <2>6. w \in Nat /\ w <= m.total
    BY <2>3, <2>4, <2>5
  <2>7. QED BY <2>1, <2>3, <2>5, <2>6
<1>7. PICK hg \in Nat : hg = q.hostGpu
  BY <1>1
<1>8. Slice(q) = tot - w + kv
  BY <1>5, <1>6 DEF Slice
<1>9. ASSUME NEW i \in 1..n
      PROVE  FixedOf(q, i) \in Nat /\ Pool(q, i) \in Nat /\ Cap(q, i) \in Nat
  <2>1. FixedOf(q, i) = Overhead + c + mc + (IF i = 1 THEN mm + hg + w + mb - mc ELSE 0)
    BY <1>2, <1>3, <1>4, <1>6, <1>7 DEF FixedOf
  <2>2. FixedOf(q, i) \in Nat
    BY <1>4, <2>1, NeedAssumption
  <2>3. Pool(q, i) \in Nat
    BY PlacingIs DEF Pool
  <2>4. PICK f \in Nat, p \in Nat, s \in Nat : f = FixedOf(q, i) /\ p = Pool(q, i) /\ s = Slice(q)
    BY <1>6, <1>8, <2>2, <2>3
  <2>5. Cap(q, i) = Smaller(Floor0(p - f), s)
    BY <2>4 DEF Cap
  <2>6. Cap(q, i) \in Nat
    BY <2>5 DEF Smaller, Floor0
  <2>7. QED BY <2>2, <2>3, <2>6
<1>10. QED BY <1>6, <1>8, <1>9

\* What every machine pays and what is divided is the whole need.
LEMMA FixedSum ==
    ASSUME NEW n \in Nat \ {0}, NEW q, OfPlacing(q, n), NEW unified,
           q.hostGpu = IF unified THEN MtpHost(q.m, q.ctx, q.backend) ELSE 0,
           NEW f \in [1..n -> Int], \A i \in 1..n : f[i] = FixedOf(q, i)
    PROVE  SumOver(f, 1, n) + Slice(q) = Needed(q.m, q.ctx, n, q.backend, unified)
<1>1. OfModel(q.m) /\ q.ctx \in Nat /\ q.backend \in Backends /\ q.hostGpu \in Nat
      /\ MtpBytes(q.m, q.ctx, q.backend) # Unmeasured
  BY PlacingIs DEF OfPlacing
<1>2. PICK c \in Nat : c = ComputeBytes(q.m, q.ctx, q.backend)
  BY PlacingIs
<1>3. PICK mc \in Nat : mc = MtpCompute(q.m, q.ctx, q.backend)
  BY PlacingIs
<1>4. PICK mb \in Nat : mb = MtpBytes(q.m, q.ctx, q.backend) /\ mc <= mb
  BY <1>3, PlacingIs
<1>5. PICK kv \in Nat : kv = KvBytes(q.m, q.ctx)
  BY PlacingIs
<1>6. PICK mm \in Nat, tot \in Nat, w \in Nat :
         /\ mm = q.m.mmproj /\ tot = q.m.total /\ w <= tot
         /\ w = IF q.m.mtp.on THEN q.m.mtp.weights ELSE 0
  <2>1. PICK m : m = q.m
    OBVIOUS
  <2>2. OfModel(m) /\ MtpBytes(m, q.ctx, q.backend) # Unmeasured
    BY <1>1, <2>1
  <2>3. m.mmproj \in Nat /\ m.total \in Nat
    BY <2>2, FieldsAre
  <2>4. m.mtp.on => m.mtp.weights \in Nat /\ m.mtp.weights <= m.total
    BY <1>1, <2>2, NeedsAre
  <2>5. PICK w : w = IF m.mtp.on THEN m.mtp.weights ELSE 0
    OBVIOUS
  <2>6. w \in Nat /\ w <= m.total
    BY <2>3, <2>4, <2>5
  <2>7. QED BY <2>1, <2>3, <2>5, <2>6
<1>7. PICK hg \in Nat : hg = q.hostGpu /\ hg = IF unified THEN MtpHost(q.m, q.ctx, q.backend) ELSE 0
  BY <1>1
<1>8. Slice(q) = tot - w + kv
  BY <1>5, <1>6 DEF Slice
<1>9. Needed(q.m, q.ctx, n, q.backend, unified)
        = tot + kv + n * (c + Overhead) + mm + mb + (n - 1) * mc + hg
  BY <1>2, <1>3, <1>4, <1>5, <1>6, <1>7, Zenon DEF Needed
<1> DEFINE a == [i \in 1..n |-> Overhead + c + mc]
<1> DEFINE b == [i \in 1..n |-> IF i = 1 THEN mm + hg + w + mb - mc ELSE 0]
<1>10. a \in [1..n -> Int] /\ b \in [1..n -> Int] /\ b[1] = mm + hg + w + mb - mc
       /\ (\A i \in 1..n : a[i] = Overhead + c + mc) /\ (\A i \in 1..n : i # 1 => b[i] = 0)
  BY NeedAssumption
<1>11. \A i \in 1..n : f[i] = a[i] + b[i]
  <2>1. ASSUME NEW i \in 1..n PROVE f[i] = a[i] + b[i]
    <3>1. FixedOf(q, i) = Overhead + c + mc + (IF i = 1 THEN mm + hg + w + mb - mc ELSE 0)
      BY <1>2, <1>3, <1>4, <1>6, <1>7 DEF FixedOf
    <3>2. f[i] = FixedOf(q, i)
      OBVIOUS
    <3>3. QED BY <3>1, <3>2
  <2> HIDE DEF a, b
  <2>2. QED BY <2>1
<1> HIDE DEF a, b
<1>12. n \in 0..n /\ n \in Nat /\ 1 \in 1..n
  OBVIOUS
<1>13. SumOver(f, 1, n) = SumOver(a, 1, n) + SumOver(b, 1, n)
  <2>1. \A k \in 0..n : SumOver(f, 1, k) = SumOver(a, 1, k) + SumOver(b, 1, k)
    <3>1. a \in [1..n -> Int] /\ b \in [1..n -> Int] /\ n \in Nat
      BY <1>10
    <3>2. QED BY <1>11, <3>1, SumsAdd
  <2>2. QED BY <1>12, <2>1
<1>14. SumOver(a, 1, n) = n * (Overhead + c + mc)
  <2>1. PICK d \in Int : d = Overhead + c + mc
    BY NeedAssumption
  <2>2. \A i \in 1..n : a[i] = d
    BY <1>10, <2>1
  <2>3. SumOver(a, 1, n) = n * d
    BY <1>10, <1>12, <2>2, SumOfSame
  <2>4. QED BY <2>1, <2>3
<1>15. SumOver(b, 1, n) = mm + hg + w + mb - mc
  BY <1>10, <1>12, SumOfOne
<1>16. PICK o \in Nat : o = Overhead
  BY NeedAssumption
<1>17. n * (o + c + mc) = n * (c + o) + n * mc /\ (n - 1) * mc = n * mc - mc
  BY SMT
<1>18. n * (c + o) \in Int /\ n * mc \in Int
  OBVIOUS
<1>19. QED BY <1>8, <1>9, <1>13, <1>14, <1>15, <1>16, <1>17, <1>18

-----------------------------------------------------------------------------
(* The split by ratio: shares of whole bytes. *)

\* Differences sum up to the last less the first.
LEMMA SumsTelescope ==
    ASSUME NEW n \in Nat, NEW t \in [0..n -> Int], NEW a \in [1..n -> Int],
           \A i \in 1..n : a[i] = t[i] - t[i - 1]
    PROVE  \A k \in 0..n : SumOver(a, 1, k) = t[k] - t[0]
<1> DEFINE f == [k \in 0..n |-> SumOver(a, 1, k) - t[k]]
<1> DEFINE T == [k \in 0..n |-> {0 - t[0]}]
<1>1. a \in Seq(Int) /\ Len(a) = n
  OBVIOUS
<1>2. SumOver(a, 1, 0) = 0 /\ \A k \in 1..n : SumOver(a, 1, k - 1) \in Int /\ SumOver(a, 1, k) = SumOver(a, 1, k - 1) + a[k]
  BY <1>1, SumSeqIs
<1>3. f[0] \in T[0]
  <2>1. 0 \in 0..n
    OBVIOUS
  <2>2. f[0] = SumOver(a, 1, 0) - t[0] /\ T[0] = {0 - t[0]}
    BY <2>1
  <2> HIDE DEF f, T
  <2>3. QED BY <1>2, <2>2
<1>4. ASSUME NEW k \in 1..n, f[k - 1] \in T[k - 1] PROVE f[k] \in T[k]
  <2>1. k - 1 \in 0..n /\ k \in 0..n
    OBVIOUS
  <2>2. /\ f[k - 1] = SumOver(a, 1, k - 1) - t[k - 1] /\ T[k - 1] = {0 - t[0]}
        /\ f[k] = SumOver(a, 1, k) - t[k] /\ T[k] = {0 - t[0]}
    BY <2>1
  <2> HIDE DEF f, T
  <2>3. PICK x \in Int, y \in Int, z \in Int, s \in Int :
           /\ x = t[k - 1] /\ y = t[k] /\ z = t[0] /\ s = SumOver(a, 1, k - 1)
    <3>1. 0 \in 0..n
      OBVIOUS
    <3>2. t[k - 1] \in Int /\ t[k] \in Int /\ t[0] \in Int
      BY <2>1, <3>1
    <3>3. SumOver(a, 1, k - 1) \in Int
      BY <1>2
    <3>4. QED BY <3>2, <3>3
  <2>4. SumOver(a, 1, k) = s + a[k]
    BY <1>2, <2>3
  <2>5. a[k] = y - x
    BY <2>3
  <2>6. s - x = 0 - z
    BY <1>4, <2>2, <2>3
  <2>7. SumOver(a, 1, k) - y = 0 - z
    BY <2>4, <2>5, <2>6
  <2>8. QED BY <2>2, <2>3, <2>7
<1>5. \A k \in 0..n : f[k] \in T[k]
  <2> HIDE DEF f, T
  <2>1. QED BY <1>3, <1>4, Rising
<1>6. ASSUME NEW k \in 0..n PROVE SumOver(a, 1, k) = t[k] - t[0]
  <2>1. SumOver(a, 1, k) - t[k] = 0 - t[0]
    BY <1>5
  <2>2. SumOver(a, 1, k) \in Int
    BY <1>1, SumIs
  <2>3. PICK s \in Int, x \in Int, z \in Int : s = SumOver(a, 1, k) /\ x = t[k] /\ z = t[0]
    <3>1. 0 \in 0..n
      OBVIOUS
    <3>2. t[k] \in Int /\ t[0] \in Int
      BY <3>1
    <3>3. QED BY <2>2, <3>2
  <2>4. s - x = 0 - z
    BY <2>1, <2>3, Zenon
  <2>5. s = x - z
    BY <2>4
  <2>6. QED BY <2>3, <2>5, Zenon
<1>7. QED BY <1>6

\* A share in whole bytes, and the recursive function behind WholeBytes.
ShareOf(f, drift, i) ==
    f.num[i] \div f.den - (IF f.num[i] % f.den = 0 /\ f.num[i] > 0 THEN drift[i] ELSE 0)
BytesTaken(f, drift, slice) ==
    CHOOSE g : g = [i \in 0..Len(f.num) |->
        IF i = 0 THEN 0 ELSE g[i - 1] + Smaller(ShareOf(f, drift, i), slice - g[i - 1])]

\* Shares in whole bytes come to no more than the slice, whatever a double lost.
LEMMA WholeIs ==
    ASSUME NEW n \in Nat \ {0}, NEW r, r.num \in [1..n -> Int], r.den \in Nat \ {0},
           NEW drift \in Seq({0, 1}), Len(drift) = n, NEW slice \in Nat
    PROVE  /\ WholeBytes(r, drift, slice) \in [1..n -> Int]
           /\ SumOver(WholeBytes(r, drift, slice), 1, n) <= slice
<1> DEFINE L == Len(r.num)
<1> DEFINE D == {x \in Int : x <= slice}
<1> DEFINE T == [k \in 0..L |-> D]
<1> DEFINE share(k) == ShareOf(r, drift, k)
<1> DEFINE h == BytesTaken(r, drift, slice)
<1>0. L = n /\ L \in Nat
  OBVIOUS
<1>1. ASSUME NEW k \in 1..L, NEW d \in T[k - 1] PROVE d + Smaller(share(k), slice - d) \in T[k]
  <2>1. k - 1 \in 0..L /\ k \in 0..L /\ k \in 1..n
    BY <1>0
  <2>2. d \in D
    BY <2>1
  <2>3. share(k) \in Int
    <3>1. PICK x \in Int, e \in Nat \ {0}, y \in {0, 1} : x = r.num[k] /\ e = r.den /\ y = drift[k]
      <4>1. r.num[k] \in Int
        BY <2>1
      <4>2. drift[k] \in {0, 1}
        BY <2>1
      <4>3. QED BY <4>1, <4>2
    <3>2. share(k) = x \div e - (IF x % e = 0 /\ x > 0 THEN y ELSE 0)
      BY <3>1 DEF ShareOf
    <3>3. x \div e \in Int
      OBVIOUS
    <3> HIDE DEF share
    <3>4. QED BY <3>2, <3>3
  <2>4. PICK s \in Int : s = share(k)
    BY <2>3
  <2>5. d + Smaller(s, slice - d) \in D
    BY <2>2 DEF Smaller
  <2>6. T[k] = D
    BY <2>1
  <2> HIDE DEF T, D, share
  <2>7. QED BY <2>4, <2>5, <2>6
<1>2. 0 \in T[0] /\ L \in Nat /\ \A k \in 0..L : T[k] \subseteq D
  <2>1. 0 \in D
    OBVIOUS
  <2> HIDE DEF D, L
  <2>2. QED BY <1>0, <2>1
<1> DEFINE G == [y \in D \X (1..L) |-> y[1] + Smaller(share(y[2]), slice - y[1])]
<1>3. \A k \in 1..L : \A d \in T[k - 1] : G[<<d, k>>] = d + Smaller(share(k), slice - d) /\ G[<<d, k>>] \in T[k]
  <2>1. ASSUME NEW k \in 1..L, NEW d \in T[k - 1]
        PROVE  G[<<d, k>>] = d + Smaller(share(k), slice - d) /\ G[<<d, k>>] \in T[k]
    <3>1. d \in D
      <4>1. k - 1 \in 0..L
        BY <1>2
      <4> HIDE DEF T, G, D, L, h, share
      <4>2. QED BY <1>2, <4>1
    <3>2. <<d, k>> \in D \X (1..L)
      BY <3>1
    <3>3. G[<<d, k>>] = d + Smaller(share(k), slice - d)
      <4> HIDE DEF T, D, L, h, share
      <4>1. QED BY <3>2
    <3>4. d + Smaller(share(k), slice - d) \in T[k]
      BY <1>1
    <3> HIDE DEF T, G, D, L, h, share
    <3>5. QED BY <3>3, <3>4
  <2> HIDE DEF T, G, D, L, h, share
  <2>2. QED BY <2>1
<1>4. PICK f : Steps(f, L, 0, G) /\ \A k \in 0..L : f[k] \in T[k]
  <2> HIDE DEF T, G, D, L, h, share
  <2>1. \A k \in 1..L : \A d \in T[k - 1] : G[<<d, k>>] \in T[k]
    BY <1>3
  <2>2. L \in Nat /\ 0 \in T[0]
    BY <1>2
  <2>3. QED BY <2>1, <2>2, Iterated
<1>5. f = [k \in 0..L |-> IF k = 0 THEN 0 ELSE f[k - 1] + Smaller(share(k), slice - f[k - 1])]
  <2>1. ASSUME NEW k \in 0..L, k # 0 PROVE G[<<f[k - 1], k>>] = f[k - 1] + Smaller(share(k), slice - f[k - 1])
    <3>1. k \in 1..L /\ k - 1 \in 0..L
      BY <1>2, <2>1
    <3>2. f[k - 1] \in T[k - 1]
      BY <1>4, <3>1
    <3> HIDE DEF T, G, D, L, h, share
    <3>3. QED BY <1>3, <3>1, <3>2
  <2> HIDE DEF T, G, D, L, h, share
  <2>2. [k \in 0..L |-> IF k = 0 THEN 0 ELSE G[<<f[k - 1], k>>]]
        = [k \in 0..L |-> IF k = 0 THEN 0 ELSE f[k - 1] + Smaller(share(k), slice - f[k - 1])]
    BY <2>1
  <2>3. QED BY <1>4, <2>2, Zenon DEF Steps
<1>6. h = [k \in 0..L |-> IF k = 0 THEN 0 ELSE h[k - 1] + Smaller(share(k), slice - h[k - 1])]
  BY <1>5, Zenon DEF BytesTaken
<1>7. h[0] = 0 /\ \A k \in 1..L : h[k] = h[k - 1] + Smaller(share(k), slice - h[k - 1])
  <2>1. PICK g : g = h
    OBVIOUS
  <2>2. g = [k \in 0..L |-> IF k = 0 THEN 0 ELSE g[k - 1] + Smaller(share(k), slice - g[k - 1])]
    BY <1>6, <2>1
  <2>3. 0 \in 0..L /\ \A k \in 1..L : k \in 0..L /\ k # 0
    BY <1>2
  <2> HIDE DEF T, G, D, L, h, share
  <2>4. g[0] = 0 /\ \A k \in 1..L : g[k] = g[k - 1] + Smaller(share(k), slice - g[k - 1])
    BY <2>2, <2>3
  <2>5. QED BY <2>1, <2>4, Zenon
<1>8. \A k \in 0..L : h[k] \in T[k]
  <2>1. PICK g : g = h
    OBVIOUS
  <2>2. ASSUME NEW k \in 1..L, g[k - 1] \in T[k - 1] PROVE g[k] \in T[k]
    <3>1. g[k] = g[k - 1] + Smaller(share(k), slice - g[k - 1])
      BY <1>7, <2>1
    <3>2. g[k - 1] + Smaller(share(k), slice - g[k - 1]) \in T[k]
      BY <1>1, <2>2
    <3> HIDE DEF T, G, D, L, h, share
    <3>3. QED BY <3>1, <3>2
  <2>3. g[0] \in T[0]
    <3> HIDE DEF T, G, D, L, h, share
    <3>1. QED BY <1>2, <1>7, <2>1
  <2> HIDE DEF T, G, D, L, h, share
  <2>4. \A k \in 0..L : g[k] \in T[k]
    BY <1>2, <2>2, <2>3, Rising
  <2>5. QED BY <2>1, <2>4
<1>9. PICK t : t = h
  OBVIOUS
<1>10. WholeBytes(r, drift, slice) = [i \in DOMAIN r.num |-> h[i] - h[i - 1]]
  BY Zenon DEF WholeBytes, BytesTaken, ShareOf
<1>11. DOMAIN r.num = 1..n
  <2>1. PICK num \in [1..n -> Int] : num = r.num
    OBVIOUS
  <2>2. QED BY <2>1
<1>12. t \in [0..n -> Int] /\ t[0] = 0 /\ t[n] <= slice
  <2>1. h = [k \in 0..L |-> IF k = 0 THEN 0 ELSE h[k - 1] + Smaller(share(k), slice - h[k - 1])]
    BY <1>6
  <2>2. PICK e : e = [k \in 0..L |-> IF k = 0 THEN 0 ELSE h[k - 1] + Smaller(share(k), slice - h[k - 1])]
    OBVIOUS
  <2>3. t = e
    BY <1>9, <2>1, <2>2, Zenon
  <2>4. DOMAIN e = 0..L /\ e = [k \in 0..L |-> e[k]]
    <3> HIDE DEF L, h, share
    <3>1. QED BY <2>2
  <2>5. \A k \in 0..L : t[k] \in D
    <3>1. \A k \in 0..L : t[k] \in T[k] /\ T[k] = D
      <4>1. \A k \in 0..L : T[k] = D
        OBVIOUS
      <4> HIDE DEF T, D, L, h, share
      <4>2. QED BY <1>8, <1>9, <4>1
    <3> HIDE DEF T, D, L, h, share
    <3>2. QED BY <3>1
  <2>6. t[0] = 0
    <3> HIDE DEF T, D, L, h, share
    <3>1. QED BY <1>7, <1>9
  <2> HIDE DEF T, L, h, share
  <2>7. QED BY <1>0, <2>3, <2>4, <2>5, <2>6
<1> HIDE DEF h, T, L, D, share
<1> DEFINE w == [i \in 1..n |-> t[i] - t[i - 1]]
<1>13. WholeBytes(r, drift, slice) = w
  <2>1. WholeBytes(r, drift, slice) = [i \in DOMAIN r.num |-> t[i] - t[i - 1]]
    BY <1>9, <1>10
  <2>2. QED BY <1>11, <2>1
<1>14. w \in [1..n -> Int] /\ \A i \in 1..n : w[i] = t[i] - t[i - 1]
  <2>1. ASSUME NEW i \in 1..n PROVE t[i] - t[i - 1] \in Int
    <3>1. i \in 0..n /\ i - 1 \in 0..n
      OBVIOUS
    <3>2. t[i] \in Int /\ t[i - 1] \in Int
      BY <1>12, <3>1
    <3>3. QED BY <3>2
  <2>2. QED BY <2>1
<1> HIDE DEF w
<1>15. SumOver(w, 1, n) = t[n] - t[0]
  <2>1. \A k \in 0..n : SumOver(w, 1, k) = t[k] - t[0]
    <3>1. n \in Nat
      OBVIOUS
    <3>2. QED BY <1>12, <1>14, <3>1, SumsTelescope
  <2>2. n \in 0..n
    OBVIOUS
  <2>3. QED BY <2>1, <2>2
<1>16. t[n] \in Int
  BY <1>12
<1>17. QED BY <1>12, <1>13, <1>14, <1>15, <1>16

-----------------------------------------------------------------------------
(* The split by ratio: the numerators and their denominator. *)

\* The sum of a sequence of numbers is a number.
LEMMA SumSeqOf ==
    ASSUME NEW n \in Nat, NEW a \in [1..n -> Int]
    PROVE  SumSeq(a) = SumOver(a, 1, n) /\ SumSeq(a) \in Int
<1>1. a \in Seq(Int) /\ Len(a) = n
  OBVIOUS
<1>2. QED BY <1>1, SumSeqIs

\* Shares as numerators and one denominator.
Rational(n, f) == f.num \in [1..n -> Int] /\ f.den \in Nat \ {0}

\* Shares capped keep a denominator that is not zero.
LEMMA CappedIs ==
    ASSUME NEW n \in Nat \ {0}, NEW want \in [1..n -> Int], NEW cap \in [1..n -> Int],
           NEW over \in Nat \ {0}, SumSeq(want) <= SumSeq(cap)
    PROVE  Rational(n, Capped(want, cap, over))
<1>1. DOMAIN want = 1..n /\ n \in Nat /\ n \in 0..n
  OBVIOUS
<1>2. PICK kept : kept = [i \in 1..n |-> Smaller(want[i], cap[i])]
  OBVIOUS
<1>3. kept \in [1..n -> Int] /\ \A i \in 1..n : kept[i] <= want[i]
  <2>1. ASSUME NEW i \in 1..n PROVE Smaller(want[i], cap[i]) \in Int /\ Smaller(want[i], cap[i]) <= want[i]
    <3>1. PICK x \in Int, y \in Int : x = want[i] /\ y = cap[i]
      OBVIOUS
    <3>2. Smaller(x, y) \in Int /\ Smaller(x, y) <= x
      BY DEF Smaller
    <3>3. QED BY <3>1, <3>2
  <2>2. QED BY <1>2, <2>1
<1>4. PICK w \in Int, c \in Int, k \in Int : w = SumSeq(want) /\ c = SumSeq(cap) /\ k = SumSeq(kept)
  BY <1>1, <1>3, SumSeqOf
<1>5. k <= w
  <2>1. \A j \in 0..n : SumOver(kept, 1, j) <= SumOver(want, 1, j)
    BY <1>1, <1>3, SumsGrow
  <2>2. SumSeq(kept) = SumOver(kept, 1, n) /\ SumSeq(want) = SumOver(want, 1, n)
    BY <1>1, <1>3, SumSeqOf
  <2>3. QED BY <1>1, <1>4, <2>1, <2>2
<1>6. w <= c
  BY <1>4
<1>7. Capped(want, cap, over) = Refill(want, cap, kept, w - k, c - k, over)
  <2>1. [i \in DOMAIN want |-> Smaller(want[i], cap[i])] = kept
    BY <1>1, <1>2
  <2>2. PICK m : m = [i \in DOMAIN want |-> Smaller(want[i], cap[i])]
    OBVIOUS
  <2>3. Capped(want, cap, over) = Refill(want, cap, m, SumSeq(want) - SumSeq(m), SumSeq(cap) - SumSeq(m), over)
    BY <2>2, Zenon DEF Capped
  <2>4. m = kept
    BY <2>1, <2>2
  <2>5. QED BY <1>4, <2>3, <2>4
<1>8. PICK f : f = Refill(want, cap, kept, w - k, c - k, over)
  OBVIOUS
<1>9. CASE w - k = 0
  <2>1. f = [num |-> want, den |-> over]
    BY <1>8, <1>9 DEF Refill
  <2>2. Rational(n, f)
    BY <2>1 DEF Rational
  <2>3. QED BY <1>7, <1>8, <2>2
<1>10. CASE w - k # 0
  <2>1. PICK room \in Nat \ {0}, excess \in Nat : room = c - k /\ excess = w - k
    BY <1>5, <1>6, <1>10
  <2>2. PICK num : num = [i \in 1..n |-> kept[i] * room + excess * (cap[i] - kept[i])]
    OBVIOUS
  <2>3. num \in [1..n -> Int]
    <3>1. ASSUME NEW i \in 1..n PROVE kept[i] * room + excess * (cap[i] - kept[i]) \in Int
      <4>1. PICK x \in Int, y \in Int : x = kept[i] /\ y = cap[i]
        BY <1>3
      <4>2. x * room + excess * (y - x) \in Int
        OBVIOUS
      <4>3. QED BY <4>1, <4>2
    <3>2. QED BY <2>2, <3>1
  <2>4. f = [num |-> num, den |-> over * room]
    <3>1. f = [num |-> [i \in DOMAIN want |-> kept[i] * (c - k) + (w - k) * (cap[i] - kept[i])], den |-> over * (c - k)]
      BY <1>8, <1>10, Zenon DEF Refill
    <3>2. [i \in DOMAIN want |-> kept[i] * (c - k) + (w - k) * (cap[i] - kept[i])] = num
      BY <1>1, <2>1, <2>2
    <3>3. QED BY <2>1, <3>1, <3>2
  <2>5. over * room \in Nat \ {0}
    BY SMT
  <2>6. Rational(n, f)
    BY <2>3, <2>4, <2>5 DEF Rational
  <2>7. QED BY <1>7, <1>8, <2>6
<1>11. QED BY <1>9, <1>10

\* The first shares come to more than nothing, as the coordinator has memory.
LEMMA FirstIs ==
    ASSUME NEW q, Len(q.nodes) \in Nat \ {0}, OfPlacing(q, Len(q.nodes)), Pool(q, 1) > 0
    PROVE  /\ FirstShares(q) \in [1..Len(q.nodes) -> Int]
           /\ SumSeq(FirstShares(q)) \in Nat \ {0}
<1>1. PICK n \in Nat \ {0} : n = Len(q.nodes)
  OBVIOUS
<1>2. OfPlacing(q, n)
  BY <1>1
<1>3. \A i \in 1..n : Pool(q, i) \in Nat
  BY <1>2, RatioIs
<1>4. PICK L \in Nat : L = NumBlocks(q.m) /\ L > 0
  BY <1>2, PlacingIs
<1>5. PICK p : p = [i \in 1..Len(q.nodes) |-> Pool(q, i)]
  OBVIOUS
<1>6. p \in [1..n -> Nat] /\ p \in [1..n -> Int] /\ p[1] = Pool(q, 1)
  BY <1>1, <1>3, <1>5
<1>7. PICK all \in Int : all = SumSeq(p)
  BY <1>6, SumSeqOf
<1>8. p[1] <= all /\ p[1] \in Nat /\ p[1] > 0
  <2>1. 1 \in 1..n /\ n \in Nat
    OBVIOUS
  <2>2. p[1] <= SumOver(p, 1, n)
    BY <1>6, <2>1, SumAtLeast
  <2>3. SumSeq(p) = SumOver(p, 1, n)
    BY <1>6, <2>1, SumSeqOf
  <2>4. QED BY <1>6, <1>7, <2>1, <2>2, <2>3
<1>9. PICK s : s = FirstShares(q)
  OBVIOUS
<1>10. CASE Pool(q, 1) * L >= all
  <2>1. s = p
    BY <1>4, <1>5, <1>7, <1>9, <1>10, Zenon DEF FirstShares
  <2>2. QED BY <1>1, <1>6, <1>7, <1>8, <1>9, <2>1
<1>11. CASE ~(Pool(q, 1) * L >= all)
  <2>1. s = [i \in 1..Len(q.nodes) |-> IF i = 1 THEN all - Pool(q, 1) ELSE Pool(q, i) * (L - 1)]
    BY <1>4, <1>5, <1>7, <1>9, <1>11, Zenon DEF FirstShares
  <2>2. s = [i \in 1..n |-> IF i = 1 THEN all - Pool(q, 1) ELSE Pool(q, i) * (L - 1)]
    BY <1>1, <2>1
  <2>3. PICK first \in Nat : first = Pool(q, 1) /\ first > 0
    BY <1>6, <1>8
  <2>4. all - first \in Nat \ {0}
    <3>1. first * L < all
      BY <1>7, <1>11, <2>3
    <3>2. first <= first * L
      BY <1>4, SMT
    <3>3. first * L \in Int
      OBVIOUS
    <3>4. QED BY <3>1, <3>2, <3>3
  <2>5. s \in [1..n -> Nat] /\ s[1] = all - first
    <3>1. ASSUME NEW i \in 1..n, i # 1 PROVE Pool(q, i) * (L - 1) \in Nat
      <4>1. PICK x \in Nat, y \in Nat : x = Pool(q, i) /\ y = L - 1
        BY <1>3, <1>4
      <4>2. x * y \in Nat
        OBVIOUS
      <4>3. QED BY <4>1, <4>2
    <3>2. 1 \in 1..n
      OBVIOUS
    <3>3. QED BY <2>2, <2>3, <2>4, <3>1, <3>2
  <2>6. 1 \in 1..n /\ n \in Nat /\ s \in [1..n -> Int]
    BY <2>5
  <2>7. SumOver(s, 1, n) \in Nat /\ s[1] <= SumOver(s, 1, n)
    BY <2>5, <2>6, SumAtLeast
  <2>8. SumSeq(s) = SumOver(s, 1, n)
    BY <2>6, SumSeqOf
  <2>9. SumSeq(s) \in Nat \ {0}
    BY <2>4, <2>5, <2>7, <2>8
  <2>10. QED BY <1>1, <1>9, <2>6, <2>9
<1>12. QED BY <1>10, <1>11

\* The filled shares are rational when the caps come to the slice at the least.
LEMMA FilledIs ==
    ASSUME NEW q, Len(q.nodes) \in Nat \ {0}, OfPlacing(q, Len(q.nodes)), Pool(q, 1) > 0,
           NEW caps \in [1..Len(q.nodes) -> Int],
           \A i \in 1..Len(q.nodes) : caps[i] = Cap(q, i), Slice(q) <= SumSeq(caps)
    PROVE  Rational(Len(q.nodes), Filled(q))
<1>1. PICK n \in Nat \ {0} : n = Len(q.nodes)
  OBVIOUS
<1>2. OfPlacing(q, n) /\ n \in 0..n /\ n \in Nat
  BY <1>1
<1>3. PICK first, over : first = FirstShares(q) /\ over = SumSeq(FirstShares(q))
  OBVIOUS
<1>4. first \in [1..n -> Int] /\ DOMAIN first = 1..n /\ over \in Nat \ {0} /\ over = SumSeq(first)
  BY <1>1, <1>3, FirstIs
<1>5. PICK slice \in Nat : slice = Slice(q)
  BY <1>2, RatioIs
<1>6. PICK want : want = [i \in DOMAIN first |-> first[i] * Slice(q)]
  OBVIOUS
<1>7. PICK cap : cap = [i \in DOMAIN first |-> Cap(q, i) * over]
  OBVIOUS
<1>8. Filled(q) = Capped(want, cap, over)
  BY <1>3, <1>6, <1>7, Zenon DEF Filled
<1>9. want \in [1..n -> Int] /\ \A i \in 1..n : want[i] = first[i] * slice
  <2>1. want = [i \in 1..n |-> first[i] * slice]
    BY <1>4, <1>5, <1>6
  <2>2. ASSUME NEW i \in 1..n PROVE first[i] * slice \in Int
    <3>1. first[i] \in Int
      BY <1>4
    <3>2. QED BY <3>1
  <2>3. QED BY <2>1, <2>2
<1>10. caps \in [1..n -> Int] /\ \A i \in 1..n : caps[i] = Cap(q, i)
  BY <1>1
<1>11. cap \in [1..n -> Int] /\ \A i \in 1..n : cap[i] = caps[i] * over
  <2>1. cap = [i \in 1..n |-> caps[i] * over]
    BY <1>4, <1>7, <1>10
  <2>2. ASSUME NEW i \in 1..n PROVE caps[i] * over \in Int
    <3>1. caps[i] \in Int
      BY <1>10
    <3>2. QED BY <1>4, <3>1
  <2>3. QED BY <2>1, <2>2
<1>12. SumSeq(want) = over * slice
  <2>1. \A k \in 0..n : SumOver(want, 1, k) = SumOver(first, 1, k) * slice
    <3>1. first \in [1..n -> Int] /\ want \in [1..n -> Int] /\ slice \in Int /\ n \in Nat
      BY <1>4, <1>9
    <3>2. \A i \in 1..n : want[i] = first[i] * slice
      BY <1>9
    <3>3. QED BY <3>1, <3>2, SumsScale, Zenon
  <2>2. SumSeq(want) = SumOver(want, 1, n) /\ SumSeq(first) = SumOver(first, 1, n)
    BY <1>2, <1>4, <1>9, SumSeqOf
  <2>3. QED BY <1>2, <1>4, <2>1, <2>2
<1>13. SumSeq(cap) = SumSeq(caps) * over
  <2>1. \A k \in 0..n : SumOver(cap, 1, k) = SumOver(caps, 1, k) * over
    <3>1. caps \in [1..n -> Int] /\ cap \in [1..n -> Int] /\ over \in Int /\ n \in Nat
      BY <1>4, <1>10, <1>11
    <3>2. \A i \in 1..n : cap[i] = caps[i] * over
      BY <1>11
    <3>3. QED BY <3>1, <3>2, SumsScale, Zenon
  <2>2. SumSeq(cap) = SumOver(cap, 1, n) /\ SumSeq(caps) = SumOver(caps, 1, n)
    BY <1>2, <1>10, <1>11, SumSeqOf
  <2>3. QED BY <1>2, <2>1, <2>2
<1>14. PICK c \in Int : c = SumSeq(caps) /\ slice <= c
  <2>1. SumSeq(caps) \in Int
    BY <1>2, <1>10, SumSeqOf
  <2>2. QED BY <1>5, <2>1
<1>15. over * slice <= c * over
  BY <1>4, <1>14, SMT
<1>16. SumSeq(want) <= SumSeq(cap)
  BY <1>12, <1>13, <1>14, <1>15
<1>17. Rational(n, Capped(want, cap, over))
  BY <1>4, <1>9, <1>11, <1>16, CappedIs
<1>18. QED BY <1>1, <1>8, <1>17

-----------------------------------------------------------------------------
(* The split by ratio: what rounding lost. *)

\* The machine with the most room is one of them.
LEMMA RoomiestIs ==
    ASSUME NEW n \in Nat \ {0}, NEW q, OfPlacing(q, n), NEW s \in [1..n -> Int]
    PROVE  Roomiest(q, s) \in 1..n /\ \A i \in 1..n : Headroom(q, s, i) \in Nat
<1>1. ASSUME NEW i \in 1..n PROVE Headroom(q, s, i) \in Nat
  <2>1. PICK p \in Nat, f \in Nat, x \in Int : p = Pool(q, i) /\ f = FixedOf(q, i) /\ x = s[i]
    BY RatioIs
  <2>2. Headroom(q, s, i) = Floor0(p - f - x)
    BY <2>1 DEF Headroom
  <2>3. Floor0(p - f - x) \in Nat
    BY DEF Floor0
  <2>4. QED BY <2>2, <2>3
<1>2. PICK h : h = [i \in 1..n |-> Headroom(q, s, i)]
  OBVIOUS
<1>3. h \in [1..n -> Int]
  BY <1>1, <1>2
<1>4. PICK i \in 1..n : \A j \in 1..n : h[i] > h[j] \/ (h[i] = h[j] /\ i <= j)
  BY <1>3, Greatest
<1>5. DOMAIN s = 1..n
  OBVIOUS
<1>6. \E k \in DOMAIN s : \A j \in DOMAIN s :
         \/ Headroom(q, s, k) > Headroom(q, s, j)
         \/ Headroom(q, s, k) = Headroom(q, s, j) /\ k <= j
  <2>1. \A j \in 1..n : h[j] = Headroom(q, s, j)
    BY <1>2
  <2>2. QED BY <1>4, <1>5, <2>1
<1>7. Roomiest(q, s) \in DOMAIN s
  BY <1>6, Zenon DEF Roomiest
<1>8. QED BY <1>1, <1>5, <1>7

\* The tightest machine is one of them.
LEMMA TightestIs ==
    ASSUME NEW n \in Nat \ {0}, NEW q, OfPlacing(q, n)
    PROVE  Tightest(q) \in 1..n
<1>1. \A i \in 1..n : Cap(q, i) \in Nat
  BY RatioIs
<1>2. PICK h : h = [i \in 1..n |-> 0 - Cap(q, i)]
  OBVIOUS
<1>3. h \in [1..n -> Int]
  BY <1>1, <1>2
<1>4. PICK i \in 1..n : \A j \in 1..n : h[i] > h[j] \/ (h[i] = h[j] /\ i <= j)
  BY <1>3, Greatest
<1>5. DOMAIN q.nodes = 1..n
  BY PlacingIs
<1>6. \A j \in 1..n : Cap(q, i) < Cap(q, j) \/ (Cap(q, i) = Cap(q, j) /\ i <= j)
  <2>1. ASSUME NEW j \in 1..n PROVE Cap(q, i) < Cap(q, j) \/ (Cap(q, i) = Cap(q, j) /\ i <= j)
    <3>1. PICK x \in Nat, y \in Nat : x = Cap(q, i) /\ y = Cap(q, j)
      BY <1>1
    <3>2. h[i] = 0 - x /\ h[j] = 0 - y
      BY <1>2, <3>1
    <3>3. 0 - x > 0 - y \/ (0 - x = 0 - y /\ i <= j)
      BY <1>4, <3>2
    <3>4. x < y \/ (x = y /\ i <= j)
      BY <3>3
    <3>5. QED BY <3>1, <3>4
  <2>2. QED BY <2>1
<1>7. \E k \in DOMAIN q.nodes : \A j \in DOMAIN q.nodes :
         Cap(q, k) < Cap(q, j) \/ (Cap(q, k) = Cap(q, j) /\ k <= j)
  BY <1>5, <1>6
<1>8. Tightest(q) \in DOMAIN q.nodes
  BY <1>7, Zenon DEF Tightest
<1>9. QED BY <1>5, <1>8

\* Shares with no more than d left of the slice.
Givens(q, n, d) == {s \in [1..n -> Int] : SumSeq(s) <= Slice(q) /\ Slice(q) - SumSeq(s) <= d}

\* One more gift leaves fewer bytes.
LEMMA GivenIs ==
    ASSUME NEW n \in Nat \ {0}, NEW q, OfPlacing(q, n), NEW d \in Nat \ {0}, NEW s \in Givens(q, n, d)
    PROVE  GiveTo(q, s) \in Givens(q, n, d - 1)
<1>1. s \in [1..n -> Int] /\ SumSeq(s) <= Slice(q) /\ Slice(q) - SumSeq(s) <= d
  BY DEF Givens
<1>2. PICK slice \in Nat : slice = Slice(q)
  BY RatioIs
<1>3. PICK sum \in Int : sum = SumSeq(s)
  BY <1>1, SumSeqOf
<1>4. PICK left : left = slice - sum
  OBVIOUS
<1>5. left \in Nat /\ left <= d
  BY <1>1, <1>2, <1>3, <1>4
<1>6. PICK i \in 1..n, room \in Nat : i = Roomiest(q, s) /\ room = Headroom(q, s, i)
  BY <1>1, RoomiestIs
<1>7. PICK t \in 1..n : t = Tightest(q)
  BY TightestIs
<1>8. PICK g : g = GiveTo(q, s)
  OBVIOUS
<1>9. g = IF left = 0 THEN s
          ELSE IF room = 0 THEN [s EXCEPT ![t] = @ + left]
          ELSE [s EXCEPT ![i] = @ + Smaller(left, room)]
  BY <1>2, <1>3, <1>4, <1>6, <1>7, <1>8, Zenon DEF GiveTo
<1>10. CASE left = 0
  <2>1. g = s
    BY <1>9, <1>10
  <2>2. slice - sum <= d - 1
    BY <1>4, <1>10
  <2>3. g \in Givens(q, n, d - 1)
    BY <1>1, <1>2, <1>3, <2>1, <2>2 DEF Givens
  <2>4. QED BY <1>8, <2>3
<1>11. CASE left # 0
  <2>1. PICK k \in 1..n, by \in Nat : g = Bump(s, k, by) /\ by >= 1 /\ by <= left
    <3>1. CASE room = 0
      <4>1. g = Bump(s, t, left)
        BY <1>9, <1>11, <3>1, Zenon DEF Bump
      <4>2. QED BY <1>5, <1>11, <4>1
    <3>2. CASE room # 0
      <4>1. g = Bump(s, i, Smaller(left, room))
        BY <1>9, <1>11, <3>2, Zenon DEF Bump
      <4>2. PICK b : b = Smaller(left, room)
        OBVIOUS
      <4>3. b \in Nat /\ b >= 1 /\ b <= left
        BY <1>5, <1>11, <3>2, <4>2 DEF Smaller
      <4>4. QED BY <4>1, <4>2, <4>3
    <3>3. QED BY <3>1, <3>2
  <2>2. /\ Bump(s, k, by) \in [1..n -> Int]
        /\ SumSeq(Bump(s, k, by)) = SumSeq(s) + by
    <3>1. n \in Nat /\ by \in Int
      OBVIOUS
    <3>2. s \in [1..n -> Int] /\ k \in 1..n
      BY <1>1
    <3>3. /\ Bump(s, k, by) \in [1..n -> Int] /\ Len(Bump(s, k, by)) = n
          /\ Bump(s, k, by)[k] = s[k] + by
          /\ \A j \in 1..n : j # k => Bump(s, k, by)[j] = s[j]
          /\ SumSeq(Bump(s, k, by)) = SumSeq(s) + by
          /\ SumSeq(s) \in Int
      BY <3>1, <3>2, Bumped
    <3>4. QED BY <3>3
  <2>3. g \in [1..n -> Int] /\ SumSeq(g) = sum + by
    BY <1>3, <2>1, <2>2
  <2>4. sum + by <= slice /\ slice - (sum + by) <= d - 1
    BY <1>4, <1>5, <2>1
  <2>5. g \in Givens(q, n, d - 1)
    BY <1>2, <2>3, <2>4 DEF Givens
  <2>6. QED BY <1>8, <2>5
<1>12. QED BY <1>10, <1>11

\* The recursive function behind WithRemainder.
GivenOf(q, shares, lost) ==
    CHOOSE f : f = [k \in 0..lost |-> IF k = 0 THEN shares ELSE GiveTo(q, f[k - 1])]

\* All the bytes lost to rounding are given, and no more.
LEMMA RemainderGiven ==
    ASSUME NEW n \in Nat \ {0}, NEW q, OfPlacing(q, n), NEW s \in [1..n -> Int],
           SumSeq(s) <= Slice(q)
    PROVE  /\ WithRemainder(q, s) \in [1..n -> Int]
           /\ SumSeq(WithRemainder(q, s)) = Slice(q)
<1> DEFINE lost == Slice(q) - SumSeq(s)
<1> DEFINE D == [1..n -> Int]
<1> DEFINE T == [k \in 0..lost |-> Givens(q, n, lost - k)]
<1> DEFINE h == GivenOf(q, s, lost)
<1>0. lost \in Nat
  <2>1. PICK x \in Nat, y \in Int : x = Slice(q) /\ y = SumSeq(s)
    <3>1. n \in Nat
      OBVIOUS
    <3>2. QED BY <3>1, RatioIs, SumSeqOf
  <2>2. y <= x
    BY <2>1
  <2>3. QED BY <2>1, <2>2
<1>1. ASSUME NEW k \in 1..lost, NEW d \in T[k - 1] PROVE GiveTo(q, d) \in T[k]
  <2>1. k - 1 \in 0..lost /\ k \in 0..lost /\ lost - (k - 1) \in Nat \ {0} /\ lost - (k - 1) - 1 = lost - k
    <3> HIDE DEF lost
    <3>1. QED BY <1>0
  <2>2. T[k - 1] = Givens(q, n, lost - (k - 1)) /\ T[k] = Givens(q, n, lost - k)
    BY <2>1
  <2> HIDE DEF T, D, lost, h
  <2>3. d \in Givens(q, n, lost - (k - 1))
    BY <2>2
  <2>4. PICK e \in Nat \ {0} : e = lost - (k - 1)
    BY <2>1
  <2>5. GiveTo(q, d) \in Givens(q, n, e - 1)
    BY <2>3, <2>4, GivenIs
  <2>6. e - 1 = lost - k
    BY <2>1, <2>4
  <2>7. QED BY <2>2, <2>5, <2>6
<1>2. s \in T[0] /\ lost \in Nat /\ \A k \in 0..lost : T[k] \subseteq D
  <2>1. s \in Givens(q, n, lost)
    <3>1. PICK y \in Int : y = lost
      BY <1>0
    <3>2. Slice(q) - SumSeq(s) <= y
      BY <3>1
    <3>3. QED BY <3>1, <3>2 DEF Givens
  <2>2. lost - 0 = lost /\ 0 \in 0..lost
    <3> HIDE DEF lost
    <3>1. QED BY <1>0
  <2>3. T[0] = Givens(q, n, lost)
    <3>1. T[0] = Givens(q, n, lost - 0)
      <4> HIDE DEF lost
      <4>1. QED BY <2>2
    <3> HIDE DEF lost, T
    <3>2. QED BY <2>2, <3>1
  <2>4. ASSUME NEW k \in 0..lost PROVE T[k] \subseteq D
    BY DEF Givens
  <2> HIDE DEF T, D, lost, h
  <2>5. QED BY <1>0, <2>1, <2>3, <2>4
<1> DEFINE G == [y \in D \X (1..lost) |-> GiveTo(q, y[1])]
<1>3. \A k \in 1..lost : \A d \in T[k - 1] : G[<<d, k>>] = GiveTo(q, d) /\ G[<<d, k>>] \in T[k]
  <2>1. ASSUME NEW k \in 1..lost, NEW d \in T[k - 1]
        PROVE  G[<<d, k>>] = GiveTo(q, d) /\ G[<<d, k>>] \in T[k]
    <3>1. d \in D
      <4>1. k - 1 \in 0..lost
        BY <1>2
      <4> HIDE DEF T, G, D, lost, h
      <4>2. QED BY <1>2, <4>1
    <3>2. <<d, k>> \in D \X (1..lost)
      BY <3>1
    <3>3. G[<<d, k>>] = GiveTo(q, d)
      <4> HIDE DEF T, D, lost, h
      <4>1. QED BY <3>2
    <3>4. GiveTo(q, d) \in T[k]
      BY <1>1
    <3> HIDE DEF T, G, D, lost, h
    <3>5. QED BY <3>3, <3>4
  <2> HIDE DEF T, G, D, lost, h
  <2>2. QED BY <2>1
<1>4. PICK f : Steps(f, lost, s, G) /\ \A k \in 0..lost : f[k] \in T[k]
  <2> HIDE DEF T, G, D, lost, h
  <2>1. \A k \in 1..lost : \A d \in T[k - 1] : G[<<d, k>>] \in T[k]
    BY <1>3
  <2>2. lost \in Nat /\ s \in T[0]
    BY <1>2
  <2>3. QED BY <2>1, <2>2, Iterated
<1>5. f = [k \in 0..lost |-> IF k = 0 THEN s ELSE GiveTo(q, f[k - 1])]
  <2>1. ASSUME NEW k \in 0..lost, k # 0 PROVE G[<<f[k - 1], k>>] = GiveTo(q, f[k - 1])
    <3>1. k \in 1..lost /\ k - 1 \in 0..lost
      BY <1>2, <2>1
    <3>2. f[k - 1] \in T[k - 1]
      BY <1>4, <3>1
    <3> HIDE DEF T, G, D, lost, h
    <3>3. QED BY <1>3, <3>1, <3>2
  <2> HIDE DEF T, G, D, lost, h
  <2>2. [k \in 0..lost |-> IF k = 0 THEN s ELSE G[<<f[k - 1], k>>]]
        = [k \in 0..lost |-> IF k = 0 THEN s ELSE GiveTo(q, f[k - 1])]
    BY <2>1
  <2>3. QED BY <1>4, <2>2, Zenon DEF Steps
<1>6. h = [k \in 0..lost |-> IF k = 0 THEN s ELSE GiveTo(q, h[k - 1])]
  BY <1>5, Zenon DEF GivenOf
<1>7. h[0] = s /\ \A k \in 1..lost : h[k] = GiveTo(q, h[k - 1])
  <2>1. PICK g : g = h
    OBVIOUS
  <2>2. g = [k \in 0..lost |-> IF k = 0 THEN s ELSE GiveTo(q, g[k - 1])]
    BY <1>6, <2>1
  <2>3. 0 \in 0..lost /\ \A k \in 1..lost : k \in 0..lost /\ k # 0
    BY <1>2
  <2> HIDE DEF T, G, D, lost, h
  <2>4. g[0] = s /\ \A k \in 1..lost : g[k] = GiveTo(q, g[k - 1])
    BY <2>2, <2>3
  <2>5. QED BY <2>1, <2>4, Zenon
<1>8. \A k \in 0..lost : h[k] \in T[k]
  <2>1. PICK g : g = h
    OBVIOUS
  <2>2. ASSUME NEW k \in 1..lost, g[k - 1] \in T[k - 1] PROVE g[k] \in T[k]
    <3>1. g[k] = GiveTo(q, g[k - 1])
      BY <1>7, <2>1
    <3>2. GiveTo(q, g[k - 1]) \in T[k]
      BY <1>1, <2>2
    <3> HIDE DEF T, G, D, lost, h
    <3>3. QED BY <3>1, <3>2
  <2>3. g[0] \in T[0]
    <3> HIDE DEF T, G, D, lost, h
    <3>1. QED BY <1>2, <1>7, <2>1
  <2> HIDE DEF T, G, D, lost, h
  <2>4. \A k \in 0..lost : g[k] \in T[k]
    BY <1>2, <2>2, <2>3, Rising
  <2>5. QED BY <2>1, <2>4
<1>9. WithRemainder(q, s) = h[lost]
  BY Zenon DEF WithRemainder, GivenOf
<1>10. T[lost] = Givens(q, n, 0)
  <2>1. lost \in 0..lost /\ lost - lost = 0
    <3> HIDE DEF lost
    <3>1. QED BY <1>0
  <2>2. T[lost] = Givens(q, n, lost - lost)
    <3> HIDE DEF lost
    <3>1. QED BY <2>1
  <2> HIDE DEF T, lost
  <2>3. QED BY <2>1, <2>2
<1>11. lost \in 0..lost
  <2> HIDE DEF lost
  <2>1. QED BY <1>0
<1> HIDE DEF T, D, lost, h
<1>12. PICK g : g = WithRemainder(q, s)
  OBVIOUS
<1>13. g \in Givens(q, n, 0)
  BY <1>8, <1>9, <1>10, <1>11, <1>12
<1>14. g \in [1..n -> Int] /\ SumSeq(g) <= Slice(q) /\ Slice(q) - SumSeq(g) <= 0
  BY <1>13 DEF Givens
<1>15. PICK x \in Nat, y \in Int : x = Slice(q) /\ y = SumSeq(g)
  <2>1. n \in Nat
    OBVIOUS
  <2>2. QED BY <1>14, <2>1, RatioIs, SumSeqOf
<1>16. x = y
  BY <1>14, <1>15
<1>17. QED BY <1>12, <1>14, <1>15, <1>16

-----------------------------------------------------------------------------
(* The split by ratio fits, or the exact placement answers. *)

\* When nothing is too short, the caps come to the slice and no pool is exceeded.
LEMMA EnoughIs ==
    ASSUME NEW q, NEW need, NEW bytes, TooShort(q, need, bytes) = ""
    PROVE  /\ ~(SumSeq([i \in DOMAIN q.nodes |-> Cap(q, i)]) < Slice(q))
           /\ \A i \in DOMAIN q.nodes : ~(bytes[i] > Pool(q, i))
<1> DEFINE c1 == SumSeq([i \in DOMAIN q.nodes |-> Pool(q, i)]) < need
<1> DEFINE c2 == Cap(q, 1) * NumBlocks(q.m) < Slice(q)
<1> DEFINE c3 == SumSeq([i \in DOMAIN q.nodes |-> Cap(q, i)]) < Slice(q)
<1> DEFINE c4 == \E i \in DOMAIN q.nodes : bytes[i] > Pool(q, i)
<1>1. TooShort(q, need, bytes)
        = IF c1 THEN "not enough GPU memory"
          ELSE IF c2 THEN "the coordinator cannot hold a block"
          ELSE IF c3 THEN "not enough reachable GPU memory"
          ELSE IF c4 THEN "an owner is short" ELSE ""
  BY Zenon DEF TooShort
<1> HIDE DEF c1, c2, c3, c4
<1>2. ~c1
  BY <1>1, Zenon
<1>3. ~c2
  BY <1>1, <1>2, Zenon
<1>4. ~c3
  BY <1>1, <1>2, <1>3, Zenon
<1>5. ~c4
  BY <1>1, <1>2, <1>3, <1>4, Zenon
<1>6. QED BY <1>4, <1>5 DEF c3, c4

\* The shares of the split come to the slice, exactly.
LEMMA SharesHold ==
    ASSUME NEW q, Len(q.nodes) \in Nat \ {0}, OfPlacing(q, Len(q.nodes)), Pool(q, 1) > 0,
           NEW drift \in Seq({0, 1}), Len(drift) = Len(q.nodes),
           NEW caps \in [1..Len(q.nodes) -> Int],
           \A i \in 1..Len(q.nodes) : caps[i] = Cap(q, i), Slice(q) <= SumSeq(caps)
    PROVE  /\ WithRemainder(q, WholeShares(q, drift)) \in [1..Len(q.nodes) -> Int]
           /\ SumSeq(WithRemainder(q, WholeShares(q, drift))) = Slice(q)
<1>1. PICK n \in Nat \ {0} : n = Len(q.nodes)
  OBVIOUS
<1>2. OfPlacing(q, n) /\ Len(drift) = n
  BY <1>1
<1>3. PICK f : f = Filled(q)
  OBVIOUS
<1>4. Rational(n, f)
  <2>1. Rational(Len(q.nodes), Filled(q))
    BY FilledIs
  <2>2. QED BY <1>1, <1>3, <2>1
<1>5. f.num \in [1..n -> Int] /\ f.den \in Nat \ {0}
  BY <1>4 DEF Rational
<1>6. PICK slice \in Nat : slice = Slice(q)
  BY <1>2, RatioIs
<1>7. PICK w : w = WholeBytes(f, drift, slice)
  OBVIOUS
<1>8. WholeShares(q, drift) = w
  BY <1>3, <1>6, <1>7 DEF WholeShares
<1>9. w \in [1..n -> Int] /\ SumOver(w, 1, n) <= slice
  BY <1>2, <1>5, <1>7, WholeIs
<1>10. SumSeq(w) <= Slice(q)
  <2>1. n \in Nat
    OBVIOUS
  <2>2. SumSeq(w) = SumOver(w, 1, n)
    BY <1>9, <2>1, SumSeqOf
  <2>3. QED BY <1>6, <1>9, <2>2
<1>11. WithRemainder(q, w) \in [1..n -> Int] /\ SumSeq(WithRemainder(q, w)) = Slice(q)
  BY <1>2, <1>9, <1>10, RemainderGiven
<1>12. QED BY <1>1, <1>8, <1>11

\* A split by ratio fits its question, or is a refusal, or the exact plan that answers instead.
LEMMA SplitFits ==
    ASSUME NEW q, Len(q.nodes) \in Nat \ {0}, OfPlacing(q, Len(q.nodes)), Pool(q, 1) > 0,
           NEW drift \in Seq({0, 1}), Len(drift) = Len(q.nodes), NEW unified,
           q.hostGpu = IF unified THEN MtpHost(q.m, q.ctx, q.backend) ELSE 0,
           NEW need, need = Needed(q.m, q.ctx, Len(q.nodes), q.backend, unified),
           NEW p, p = SplitByRatio(q, need, drift)
    PROVE  p.kind = "refuse" \/ (p.kind = "cluster" /\ Fitted(q, Len(q.nodes), need, p))
<1>1. PICK n \in Nat \ {0} : n = Len(q.nodes)
  OBVIOUS
<1>2. OfPlacing(q, n) /\ DOMAIN q.nodes = 1..n /\ n \in Nat /\ n \in 0..n
  BY <1>1, PlacingIs
<1>3. PICK shares : shares = WithRemainder(q, WholeShares(q, drift))
  OBVIOUS
<1>4. PICK bytes : bytes = [i \in DOMAIN q.nodes |-> FixedOf(q, i) + shares[i]]
  OBVIOUS
<1>5. PICK why : why = TooShort(q, need, bytes)
  OBVIOUS
<1>6. p = ByRatio(q, need, why, bytes)
  BY <1>3, <1>4, <1>5, Zenon DEF SplitByRatio
<1>7. CASE why # ""
  <2>1. p = PlaceExactly(q, why, need)
    BY <1>6, <1>7, Zenon DEF ByRatio
  <2>2. p.kind = "refuse" \/ (p.kind = "cluster" /\ Fitted(q, n, need, p))
    BY <1>2, <2>1, ExactFits
  <2>3. QED BY <1>1, <2>2
<1>8. CASE why = ""
  <2>1. /\ ~(SumSeq([i \in DOMAIN q.nodes |-> Cap(q, i)]) < Slice(q))
        /\ \A i \in DOMAIN q.nodes : ~(bytes[i] > Pool(q, i))
    BY <1>5, <1>8, EnoughIs
  <2>2. PICK caps : caps = [i \in DOMAIN q.nodes |-> Cap(q, i)]
    OBVIOUS
  <2>3. caps \in [1..n -> Int] /\ \A i \in 1..n : caps[i] = Cap(q, i)
    BY <1>2, <2>2, RatioIs
  <2>4. Slice(q) <= SumSeq(caps)
    <3>1. SumSeq(caps) \in Int
      BY <1>2, <2>3, SumSeqOf
    <3>2. Slice(q) \in Nat
      BY <1>2, RatioIs
    <3>3. ~(SumSeq(caps) < Slice(q))
      BY <2>1, <2>2
    <3>4. QED BY <3>1, <3>2, <3>3
  <2>5. shares \in [1..n -> Int] /\ SumSeq(shares) = Slice(q)
    <3>1. caps \in [1..Len(q.nodes) -> Int] /\ \A i \in 1..Len(q.nodes) : caps[i] = Cap(q, i)
      BY <1>1, <2>3
    <3>2. /\ WithRemainder(q, WholeShares(q, drift)) \in [1..Len(q.nodes) -> Int]
          /\ SumSeq(WithRemainder(q, WholeShares(q, drift))) = Slice(q)
      BY <2>4, <3>1, SharesHold
    <3>3. QED BY <1>1, <1>3, <3>2
  <2>6. PICK f : f = [i \in 1..n |-> FixedOf(q, i)]
    OBVIOUS
  <2>7. f \in [1..n -> Int] /\ \A i \in 1..n : f[i] = FixedOf(q, i)
    <3>1. \A i \in 1..n : FixedOf(q, i) \in Nat
      BY <1>2, RatioIs
    <3>2. QED BY <2>6, <3>1
  <2>8. bytes \in [1..n -> Int] /\ \A i \in 1..n : bytes[i] = f[i] + shares[i]
    <3>1. bytes = [i \in 1..n |-> FixedOf(q, i) + shares[i]]
      BY <1>2, <1>4
    <3>2. ASSUME NEW i \in 1..n PROVE FixedOf(q, i) + shares[i] \in Int /\ FixedOf(q, i) = f[i]
      <4>1. FixedOf(q, i) \in Nat /\ FixedOf(q, i) = f[i]
        BY <1>2, <2>7, RatioIs
      <4>2. shares[i] \in Int
        BY <2>5
      <4>3. QED BY <4>1, <4>2
    <3>3. QED BY <3>1, <3>2
  <2>9. SumSeq(bytes) = need
    <3>1. \A k \in 0..n : SumOver(bytes, 1, k) = SumOver(f, 1, k) + SumOver(shares, 1, k)
      <4>1. f \in [1..n -> Int] /\ shares \in [1..n -> Int] /\ bytes \in [1..n -> Int] /\ n \in Nat
        BY <2>5, <2>7, <2>8
      <4>2. \A i \in 1..n : bytes[i] = f[i] + shares[i]
        BY <2>8
      <4>3. QED BY <4>1, <4>2, SumsAdd
    <3>2. SumOver(f, 1, n) + Slice(q) = Needed(q.m, q.ctx, n, q.backend, unified)
      <4>1. f \in [1..n -> Int] /\ \A i \in 1..n : f[i] = FixedOf(q, i)
        BY <2>7
      <4>2. OfPlacing(q, n)
        BY <1>2
      <4>3. QED BY <4>1, <4>2, FixedSum
    <3>3. SumSeq(bytes) = SumOver(bytes, 1, n) /\ SumSeq(shares) = SumOver(shares, 1, n)
      BY <1>2, <2>5, <2>8, SumSeqOf
    <3>4. SumOver(bytes, 1, n) = SumOver(f, 1, n) + SumOver(shares, 1, n)
      BY <1>2, <3>1
    <3>5. need = Needed(q.m, q.ctx, n, q.backend, unified)
      BY <1>1
    <3>6. SumOver(bytes, 1, n) = SumOver(f, 1, n) + Slice(q)
      BY <2>5, <3>3, <3>4
    <3>7. QED BY <3>2, <3>3, <3>5, <3>6
  <2>10. PICK none : none = [i \in DOMAIN q.nodes |-> 0]
    OBVIOUS
  <2>11. p.kind = "cluster" /\ p.order = q.order /\ p.ranges = <<>> /\ p.gpuOf = bytes /\ p.ramOf = none
    <3>1. p = [kind |-> "cluster", why |-> "ratio", order |-> q.order, ranges |-> <<>>,
               slots |-> 0, shares |-> Filled(q).num, gpuOf |-> bytes,
               ramOf |-> none, hybrid |-> FALSE, headLocal |-> FALSE, gpu |-> need, ram |-> q.hostRam]
      BY <1>6, <1>8, <2>10, Zenon DEF ByRatio
    <3>2. PICK c1, c2, c3, c4, c5, c6, c9, c11, c12 :
            /\ c1 = "cluster" /\ c2 = "ratio" /\ c3 = q.order /\ c4 = <<>> /\ c5 = 0 /\ c6 = Filled(q).num
            /\ c9 = FALSE /\ c11 = need /\ c12 = q.hostRam
      OBVIOUS
    <3>3. p = [kind |-> c1, why |-> c2, order |-> c3, ranges |-> c4, slots |-> c5, shares |-> c6,
               gpuOf |-> bytes, ramOf |-> none, hybrid |-> c9, headLocal |-> c9, gpu |-> c11, ram |-> c12]
      BY <3>1, <3>2, Zenon
    <3>4. p.kind = c1 /\ p.order = c3 /\ p.ranges = c4 /\ p.gpuOf = bytes /\ p.ramOf = none
      BY <3>3, PlanIs
    <3>5. QED BY <3>2, <3>4, Zenon
  <2>12. OwnersHold(q, n, p)
    <3>1. ASSUME NEW i \in 1..n
          PROVE  /\ p.gpuOf[i] <= q.nodes[i].vram
                 /\ InRam(q.nodes[i], p.ramOf[i], IF i = 1 THEN q.hostRam ELSE 0)
      <4>1. PICK x \in Int, y \in Nat : x = bytes[i] /\ y = Pool(q, i)
        <5>1. bytes[i] \in Int
          BY <2>8
        <5>2. Pool(q, i) \in Nat
          BY <1>2, RatioIs
        <5>3. QED BY <5>1, <5>2
      <4>2. ~(x > y)
        BY <1>2, <2>1, <4>1
      <4>3. p.gpuOf[i] <= q.nodes[i].vram
        BY <2>11, <4>1, <4>2 DEF Pool
      <4>4. p.ramOf[i] = 0
        BY <1>2, <2>10, <2>11
      <4>5. InRam(q.nodes[i], 0, IF i = 1 THEN q.hostRam ELSE 0)
        BY <1>2, OwnerIs
      <4>6. QED BY <4>3, <4>4, <4>5
    <3>2. QED BY <3>1 DEF OwnersHold
  <2>13. Fitted(q, n, need, p)
    BY <2>9, <2>11, <2>12, Zenon DEF Fitted
  <2>14. QED BY <1>1, <2>11, <2>13
<1>9. QED BY <1>7, <1>8

-----------------------------------------------------------------------------
(* The whole decision. *)

\* The machines the planner is given.
LEMMA RosterIs ==
    ASSUME NEW me \in NodeMem, NEW workers \in Seq(NodeMem)
    PROVE  /\ Roster(me, workers) \in [1..(Len(workers) + 1) -> NodeMem]
           /\ Len(Roster(me, workers)) = Len(workers) + 1
           /\ Roster(me, workers)[1] = me
<1>1. PICK k \in Nat : k = Len(workers)
  OBVIOUS
<1> DEFINE Lent(w) == [w EXCEPT !.ram = IF w.cpu /\ ~w.unified /\ w.backend = "cuda" THEN @ ELSE 0]
<1>2. PICK lent : lent = [i \in DOMAIN workers |-> Lent(workers[i])]
  OBVIOUS
<1>3. ASSUME NEW w \in NodeMem PROVE Lent(w) \in NodeMem
  <2>1. w.ram \in Nat
    BY DEF NodeMem
  <2>2. PICK x \in Nat : x = IF w.cpu /\ ~w.unified /\ w.backend = "cuda" THEN w.ram ELSE 0
    BY <2>1
  <2>3. Lent(w) = [w EXCEPT !.ram = x]
    BY <2>2, Zenon
  <2>4. [w EXCEPT !.ram = x] \in NodeMem
    BY DEF NodeMem
  <2>5. QED BY <2>3, <2>4
<1>4. lent \in [1..k -> NodeMem]
  <2>1. DOMAIN workers = 1..k /\ \A i \in 1..k : workers[i] \in NodeMem
    BY <1>1
  <2> HIDE DEF Lent
  <2>2. QED BY <1>2, <1>3, <2>1
<1>5. Roster(me, workers) = <<me>> \o lent
  BY <1>2, Zenon DEF Roster
<1>6. lent \in Seq(NodeMem) /\ Len(lent) = k /\ <<me>> \in Seq(NodeMem) /\ Len(<<me>>) = 1
  BY <1>4
<1>7. PICK r : r = <<me>> \o lent
  OBVIOUS
<1>8. r \in Seq(NodeMem) /\ Len(r) = k + 1 /\ r[1] = me
  BY <1>6, <1>7
<1>9. r \in [1..(k + 1) -> NodeMem]
  BY <1>8
<1>10. QED BY <1>1, <1>5, <1>7, <1>8, <1>9

\* The backend they are priced for.
LEMMA BackendIs ==
    ASSUME NEW n \in Nat \ {0}, NEW nodes \in [1..n -> NodeMem]
    PROVE  RosterBackend(nodes) \in Backends
<1>1. nodes[1] \in NodeMem
  OBVIOUS
<1>2. nodes[1].backend \in Backends
  BY <1>1 DEF NodeMem, Backends
<1>3. RosterBackend(nodes) \in {nodes[1].backend, "unknown"}
  BY Zenon DEF RosterBackend
<1>4. QED BY <1>2, <1>3 DEF Backends

\* What a model needs on so many machines is a number.
LEMMA NeededIs ==
    ASSUME NEW m, OfModel(m), NEW ctx \in Nat, NEW backend \in Backends, NEW n \in Nat, NEW unified,
           MtpBytes(m, ctx, backend) # Unmeasured
    PROVE  Needed(m, ctx, n, backend, unified) \in Int
<1>1. PICK c \in Nat, mc \in Nat, mb \in Nat, kv \in Nat, mh \in Nat :
         /\ c = ComputeBytes(m, ctx, backend) /\ mc = MtpCompute(m, ctx, backend)
         /\ mb = MtpBytes(m, ctx, backend) /\ kv = KvBytes(m, ctx) /\ mh = MtpHost(m, ctx, backend)
  BY NeedsAre
<1>2. PICK tot \in Nat, mm \in Nat : tot = m.total /\ mm = m.mmproj
  BY FieldsAre
<1>3. PICK x \in Nat : x = IF unified THEN MtpHost(m, ctx, backend) ELSE 0
  BY <1>1
<1>4. Needed(m, ctx, n, backend, unified)
        = tot + kv + n * (c + Overhead) + mm + mb + (n - 1) * mc + x
  BY <1>1, <1>2, <1>3, Zenon DEF Needed
<1>5. QED BY <1>4, NeedAssumption

\* A refusal is one.
LEMMA RefusalIs ==
    ASSUME NEW why, NEW gpu, NEW ram
    PROVE  Refusal(why, gpu, ram).kind = "refuse"
BY DEF Refusal

\* A question about the engine.
LEMMA QuestionIs ==
    ASSUME NEW a \in Questions, a.about = "engine"
    PROVE  /\ a.model \in DOMAIN Models /\ a.me \in NodeMem /\ a.workers \in Seq(NodeMem)
           /\ a.ctx \in Nat /\ a.drift \in Seq({0, 1}) /\ Len(a.drift) = Len(a.workers) + 1
           /\ OfModel(M(a))
<1>1. \/ a \in OfEngine /\ Len(a.drift) = Len(a.workers) + 1
      \/ a \in OfPipeline
  BY QuestionsAssumption
<1>2. a \notin OfPipeline
  <2>1. ASSUME a \in OfPipeline PROVE a.about = "pipeline"
    BY <2>1 DEF OfPipeline
  <2>2. QED BY <2>1
<1>3. a \in OfEngine /\ Len(a.drift) = Len(a.workers) + 1
  BY <1>1, <1>2
<1>4. /\ a.model \in DOMAIN Models /\ a.me \in NodeMem /\ a.workers \in Seq(NodeMem)
      /\ a.ctx \in Nat /\ a.drift \in Seq({0, 1})
  BY <1>3 DEF OfEngine
<1>5. OfModel(M(a))
  BY <1>4, QuestionsAssumption DEF OfModel, M
<1>6. QED BY <1>3, <1>4, <1>5

\* The draft head's workspace in the coordinator's RAM is a number.
LEMMA HostRamIs ==
    ASSUME NEW a \in Questions, a.about = "engine"
    PROVE  HostRamOf(a) \in Nat
<1>1. /\ a.me \in NodeMem /\ a.workers \in Seq(NodeMem) /\ a.ctx \in Nat /\ OfModel(M(a))
  BY QuestionIs
<1>2. PICK n \in Nat \ {0} : n = Len(a.workers) + 1
  BY <1>1
<1>3. PICK nodes : nodes = Nodes(a)
  OBVIOUS
<1>4. nodes \in [1..n -> NodeMem]
  BY <1>1, <1>2, <1>3, RosterIs DEF Nodes
<1>5. PICK b \in Backends : b = RosterBackend(Nodes(a))
  BY <1>2, <1>3, <1>4, BackendIs
<1>6. HostOf(a) \in Nat
  BY <1>1, <1>5, NeedsAre DEF HostOf
<1>7. QED BY <1>6 DEF HostRamOf

\* The question the exact placement answers.
LEMMA AskedIs ==
    ASSUME NEW a \in Questions, a.about = "engine",
           MtpBytes(M(a), a.ctx, RosterBackend(Nodes(a))) # Unmeasured,
           HostRamOf(a) <= a.me.ram,
           NEW n, n = Len(a.workers) + 1, NEW o \in Orders(n),
           NEW q, q = Placing(a, o)
    PROVE  /\ n \in Nat \ {0} /\ Len(q.nodes) = n /\ OfPlacing(q, n)
           /\ q.m = M(a) /\ q.ctx = a.ctx /\ q.backend = RosterBackend(Nodes(a))
           /\ q.order = o /\ q.nodes[1] = a.me /\ q.hostRam = HostRamOf(a)
           /\ q.hostGpu = (IF a.me.unified THEN MtpHost(q.m, q.ctx, q.backend) ELSE 0)
<1>1. /\ a.me \in NodeMem /\ a.workers \in Seq(NodeMem) /\ a.ctx \in Nat /\ OfModel(M(a))
  BY QuestionIs
<1>2. n \in Nat \ {0}
  BY <1>1
<1>3. PICK nodes : nodes = Nodes(a)
  OBVIOUS
<1>4. nodes \in [1..n -> NodeMem] /\ Len(nodes) = n /\ nodes[1] = a.me
  BY <1>1, <1>3, RosterIs DEF Nodes
<1>5. o \in [1..n -> 1..n] /\ o[1] = 1 /\ DOMAIN o = 1..n
  BY DEF Orders
<1>6. PICK b \in Backends : b = RosterBackend(Nodes(a))
  BY <1>2, <1>3, <1>4, BackendIs
<1>7. PICK m : m = M(a)
  OBVIOUS
<1>8. PICK host \in Nat : host = MtpHost(m, a.ctx, b)
  BY <1>1, <1>7, NeedsAre
<1>9. PICK ram \in Nat : ram = HostRamOf(a) /\ ram = IF a.me.unified THEN 0 ELSE host
  <2>1. HostOf(a) = host
    BY <1>6, <1>7, <1>8 DEF HostOf
  <2>2. HostRamOf(a) = IF a.me.unified THEN 0 ELSE host
    BY <2>1 DEF HostRamOf
  <2>3. QED BY <2>2
<1>10. PICK g \in Nat : g = HostOf(a) - HostRamOf(a) /\ g = IF a.me.unified THEN host ELSE 0
  <2>1. HostOf(a) = host
    BY <1>6, <1>7, <1>8 DEF HostOf
  <2>2. host - ram = IF a.me.unified THEN host ELSE 0
    BY <1>9
  <2>3. host - ram \in Nat
    BY <2>2
  <2>4. QED BY <1>9, <2>1, <2>2, <2>3
<1>11. PICK ns : ns = [i \in DOMAIN o |-> nodes[o[i]]]
  OBVIOUS
<1>12. ns \in [1..n -> NodeMem] /\ Len(ns) = n /\ ns[1] = a.me
  <2>1. ns = [i \in 1..n |-> nodes[o[i]]]
    BY <1>5, <1>11
  <2>2. \A i \in 1..n : nodes[o[i]] \in NodeMem
    BY <1>4, <1>5
  <2>3. 1 \in 1..n /\ n \in Nat
    BY <1>2
  <2>4. ns \in [1..n -> NodeMem]
    BY <2>1, <2>2
  <2>5. Len(ns) = n
    BY <2>3, <2>4
  <2>6. ns[1] = a.me
    BY <1>4, <1>5, <2>1, <2>3
  <2>7. QED BY <2>4, <2>5, <2>6
<1>13. PICK ctx \in Nat : ctx = a.ctx
  BY <1>1
<1>14. q = [m |-> m, order |-> o, ctx |-> ctx, nodes |-> ns, backend |-> b, hostGpu |-> g, hostRam |-> ram]
  BY <1>3, <1>6, <1>7, <1>9, <1>10, <1>11, <1>13, Zenon DEF Placing
<1>15. /\ q.m = m /\ q.order = o /\ q.ctx = ctx /\ q.nodes = ns /\ q.backend = b
       /\ q.hostGpu = g /\ q.hostRam = ram
  BY <1>14
<1>16. OfPlacing(q, n)
  <2>1. OfModel(m) /\ MtpBytes(m, ctx, b) # Unmeasured
    BY <1>1, <1>6, <1>7, <1>13
  <2>2. ram <= ns[1].ram
    BY <1>9, <1>12
  <2>3. ctx \in Nat /\ b \in Backends /\ g \in Nat /\ ram \in Nat
    OBVIOUS
  <2>4. QED BY <1>12, <1>15, <2>1, <2>2, <2>3, Zenon DEF OfPlacing
<1>17. g = IF a.me.unified THEN MtpHost(m, ctx, b) ELSE 0
  BY <1>8, <1>10, <1>13
<1>18. QED BY <1>2, <1>6, <1>7, <1>9, <1>12, <1>13, <1>15, <1>16, <1>17, Zenon

\* A plan that fits the question of the exact placement fits the machines that were asked about.
LEMMA ClusterOf ==
    ASSUME NEW a \in Questions, a.about = "engine",
           MtpBytes(M(a), a.ctx, RosterBackend(Nodes(a))) # Unmeasured,
           HostRamOf(a) <= a.me.ram,
           NEW n, n = Len(a.workers) + 1, NEW o \in Orders(n),
           NEW q, q = Placing(a, o),
           NEW p, Fitted(q, n, Needed(M(a), a.ctx, n, RosterBackend(Nodes(a)), a.me.unified), p)
    PROVE  ClusterFits(a, p)
<1>1. /\ n \in Nat \ {0} /\ Len(q.nodes) = n /\ OfPlacing(q, n)
      /\ q.m = M(a) /\ q.backend = RosterBackend(Nodes(a)) /\ q.order = o
  BY AskedIs
<1>2. p.order = o
  BY <1>1 DEF Fitted
<1>3. Placing(a, p.order) = q
  BY <1>2
<1>4. DOMAIN q.nodes = 1..n
  BY <1>1, PlacingIs
<1>5. /\ OwnersHold(q, n, p)
      /\ p.ranges = <<>> => SumSeq(p.gpuOf) = Needed(M(a), a.ctx, n, RosterBackend(Nodes(a)), a.me.unified)
      /\ p.ranges # <<>> => BlocksTiled(q, n, p.ranges)
  BY DEF Fitted
<1>6. \A i \in DOMAIN q.nodes :
          /\ p.gpuOf[i] <= q.nodes[i].vram
          /\ InRam(q.nodes[i], p.ramOf[i], IF i = 1 THEN q.hostRam ELSE 0)
  BY <1>4, <1>5, Zenon DEF OwnersHold
<1>7. p.ranges = <<>> =>
        SumSeq(p.gpuOf) = Needed(M(a), a.ctx, Len(q.nodes), q.backend, a.me.unified)
  BY <1>1, <1>5
<1>8. p.ranges # <<>> =>
        \A i \in DOMAIN q.nodes :
            /\ p.ranges[i].lo < p.ranges[i].hi
            /\ p.ranges[i].lo = IF i = 1 THEN 0 ELSE p.ranges[i - 1].hi
            /\ i = Len(q.nodes) => p.ranges[i].hi = Blocks(a)
  <2>1. ASSUME p.ranges # <<>>, NEW i \in 1..n
        PROVE  /\ p.ranges[i].lo < p.ranges[i].hi
               /\ p.ranges[i].lo = IF i = 1 THEN 0 ELSE p.ranges[i - 1].hi
               /\ i = n => p.ranges[i].hi = NumBlocks(q.m)
    BY <1>5, <2>1, Zenon DEF BlocksTiled
  <2>2. Blocks(a) = NumBlocks(q.m)
    BY <1>1 DEF Blocks
  <2>3. QED BY <1>1, <1>4, <2>1, <2>2
<1>9. IsInjective(p.order)
  BY <1>2 DEF Orders
<1>10. QED BY <1>3, <1>6, <1>7, <1>8, <1>9, Zenon DEF ClusterFits

\* What a plan for the engine is, or a refusal.
EngineFits(a, p) ==
    \/ p.kind = "refuse"
    \/ p.kind = "single" /\ SingleFits(a, p)
    \/ p.kind = "cluster" /\ ClusterFits(a, p)

\* The question of the exact placement is the one the plan asks.
LEMMA PlacedFor ==
    ASSUME NEW a \in Questions, a.about = "engine", NEW n, n = Len(Nodes(a)),
           NEW o \in Orders(n)
    PROVE  Placing(a, o) =
             [m |-> M(a), nodes |-> [i \in 1..n |-> Nodes(a)[o[i]]], order |-> o,
              ctx |-> a.ctx, backend |-> RosterBackend(Nodes(a)),
              hostGpu |-> MtpHost(M(a), a.ctx, RosterBackend(Nodes(a)))
                          - (IF a.me.unified THEN 0 ELSE MtpHost(M(a), a.ctx, RosterBackend(Nodes(a)))),
              hostRam |-> IF a.me.unified THEN 0 ELSE MtpHost(M(a), a.ctx, RosterBackend(Nodes(a)))]
<1>1. PICK m, nodes, ctx, b : m = M(a) /\ nodes = Nodes(a) /\ ctx = a.ctx /\ b = RosterBackend(Nodes(a))
  OBVIOUS
<1>2. PICK ram : ram = IF a.me.unified THEN 0 ELSE MtpHost(m, ctx, b)
  OBVIOUS
<1>3. PICK g : g = MtpHost(m, ctx, b) - ram
  OBVIOUS
<1>4. HostOf(a) = MtpHost(m, ctx, b)
  BY <1>1, Zenon DEF HostOf
<1>5. HostRamOf(a) = ram
  BY <1>2, <1>4, Zenon DEF HostRamOf
<1>6. DOMAIN o = 1..n
  BY DEF Orders
<1>7. PICK ns : ns = [i \in 1..n |-> nodes[o[i]]]
  OBVIOUS
<1>8. HostOf(a) - HostRamOf(a) = g
  BY <1>3, <1>4, <1>5, Zenon
<1>9. Placing(a, o)
        = [m |-> m, order |-> o, ctx |-> ctx, nodes |-> ns, backend |-> b, hostGpu |-> g, hostRam |-> ram]
  BY <1>1, <1>5, <1>6, <1>7, <1>8, Zenon DEF Placing
<1>10. [m |-> m, order |-> o, ctx |-> ctx, nodes |-> ns, backend |-> b, hostGpu |-> g, hostRam |-> ram]
         = [m |-> m, nodes |-> ns, order |-> o, ctx |-> ctx, backend |-> b, hostGpu |-> g, hostRam |-> ram]
  OBVIOUS
<1>11. QED BY <1>1, <1>2, <1>3, <1>7, <1>9, <1>10, Zenon

\* The coordinator can take part at all.
Able(a) ==
    /\ MtpBytes(M(a), a.ctx, RosterBackend(Nodes(a))) # Unmeasured
    /\ HostRamOf(a) <= a.me.ram /\ a.me.vram > 0
NeedOf(a, k) == Needed(M(a), a.ctx, k, RosterBackend(Nodes(a)), a.me.unified)
\* The four ways a decision ends: it is refused before anything is divided, the machine can do
\* alone, the model is divided, or the machine moves experts to its RAM.
Refused(a, p) ==
    /\ p.kind = "refuse"
    /\ ~Able(a) \/ Len(Nodes(a)) = 1 \/ ComputeBytes(M(a), a.ctx, RosterBackend(Nodes(a))) = 0
Alone(a, p) ==
    /\ Able(a) /\ NeedOf(a, 1) <= a.me.vram
    /\ p = [kind |-> "single", why |-> "fits", blocks |-> 0, slots |-> 0,
            gpu |-> NeedOf(a, 1), ram |-> HostRamOf(a)]
Divided(a, p) ==
    /\ Able(a) /\ Len(Nodes(a)) > 1
    /\ p = SplitByRatio(Placing(a, Order(Nodes(a), 1)), NeedOf(a, Len(Nodes(a))), a.drift)
Stretched(a, p) ==
    /\ Able(a) /\ Len(Nodes(a)) = 1 /\ ~a.me.unified /\ BucketsConsistent(M(a))
    /\ NeedOf(a, 1) > a.me.vram
    /\ p = SingleHybrid(M(a), a.me, HostRamOf(a), NeedOf(a, 1), a.me.vram)

\* There is no fifth.
LEMMA Decided ==
    ASSUME NEW a \in Questions, a.about = "engine",
           NEW p, p = Plan(M(a), Nodes(a), 1, a.ctx, a.force, a.drift)
    PROVE  Refused(a, p) \/ Alone(a, p) \/ Divided(a, p) \/ Stretched(a, p)
<1>1. /\ a.me \in NodeMem /\ a.workers \in Seq(NodeMem) /\ a.ctx \in Nat /\ OfModel(M(a))
  BY QuestionIs
<1>2. PICK n : n = Len(a.workers) + 1
  OBVIOUS
<1>3. n \in Nat \ {0}
  BY <1>1, <1>2
<1>4. /\ Nodes(a) \in [1..n -> NodeMem] /\ Len(Nodes(a)) = n /\ Nodes(a)[1] = a.me
  BY <1>1, <1>2, RosterIs DEF Nodes
<1>5. PICK m, nodes, ctx : m = M(a) /\ nodes = Nodes(a) /\ ctx = a.ctx
  OBVIOUS
<1>6. PICK b \in Backends : b = RosterBackend(nodes)
  BY <1>3, <1>4, <1>5, BackendIs
<1>7. PICK host \in Nat : host = MtpHost(m, ctx, b)
  BY <1>1, <1>5, NeedsAre
<1>8. PICK ram \in Nat : ram = (IF a.me.unified THEN 0 ELSE host) /\ ram = HostRamOf(a)
  <2>1. HostOf(a) = host
    BY <1>5, <1>6, <1>7 DEF HostOf
  <2>2. HostRamOf(a) = IF a.me.unified THEN 0 ELSE host
    BY <2>1 DEF HostRamOf
  <2>3. QED BY <2>2
<1>9. PICK o : o = Order(nodes, 1)
  OBVIOUS
<1>10. o \in Orders(n)
  BY <1>3, <1>4, <1>5, <1>9, OrderIs
<1> DEFINE NeedOn(k) == Needed(m, ctx, k, b, a.me.unified)
<1>11. PICK q : q = Placing(a, o)
  OBVIOUS
<1>12. q = [m |-> m, nodes |-> [i \in 1..n |-> nodes[o[i]]], order |-> o, ctx |-> ctx, backend |-> b,
            hostGpu |-> host - ram, hostRam |-> ram]
  BY <1>4, <1>5, <1>6, <1>7, <1>8, <1>10, <1>11, PlacedFor, Zenon
<1>13. PICK r1, r2, r3, r4, r5, r6, s :
         /\ r1 = Refusal("draft head unmeasured", 0, 0)
         /\ r2 = Refusal("workspace unmeasured", 0, 0)
         /\ r3 = Refusal("no RAM for the draft head", NeedOn(IF a.force THEN n ELSE 1), ram)
         /\ r4 = Refusal("coordinator without GPU memory", NeedOn(1), ram)
         /\ r5 = Refusal("GPU is short", NeedOn(1), ram)
         /\ r6 = Refusal("expert layout unknown", NeedOn(1), ram)
         /\ s = [kind |-> "single", why |-> "fits", blocks |-> 0, slots |-> 0, gpu |-> NeedOn(1), ram |-> ram]
  OBVIOUS
<1>14. PICK x, y : x = SplitByRatio(q, NeedOn(n), a.drift) /\ y = SingleHybrid(m, a.me, ram, NeedOn(1), a.me.vram)
  OBVIOUS
<1>15. PICK need1, u, noWork, noExperts, buckets, forced :
         /\ need1 = NeedOn(1) /\ u = (MtpBytes(m, ctx, b) = Unmeasured)
         /\ noWork = (ComputeBytes(m, ctx, b) = 0)
         /\ noExperts = (m.nExpert = 0 \/ a.me.unified)
         /\ buckets = BucketsConsistent(m) /\ forced = a.force
  OBVIOUS
<1>16. p = CASE u -> r1 [] noWork -> r2
             [] OTHER ->
                CASE a.me.ram < ram -> r3
                  [] a.me.ram >= ram /\ a.me.vram = 0 -> r4
                  [] a.me.ram >= ram /\ a.me.vram > 0 ->
                     IF a.me.vram >= need1 /\ ~(forced /\ n > 1) THEN s
                     ELSE IF n > 1 THEN x
                     ELSE IF noExperts THEN r5
                     ELSE IF ~buckets THEN r6 ELSE y
  <2>1. host = MtpHost(m, ctx, RosterBackend(nodes)) /\ Len(nodes) = n /\ nodes[1] = a.me
    BY <1>4, <1>5, <1>6, <1>7
  <2>2. p = Plan(m, nodes, 1, ctx, a.force, a.drift)
    BY <1>5
  <2>3. QED BY <1>6, <1>8, <1>9, <1>12, <1>13, <1>14, <1>15, <2>1, <2>2, Zenon DEF Plan
<1>17. PICK vram \in Nat, have \in Nat : vram = a.me.vram /\ have = a.me.ram
  BY <1>1 DEF NodeMem
<1>18. u \in BOOLEAN /\ noWork \in BOOLEAN /\ noExperts \in BOOLEAN /\ (~u => need1 \in Int)
  <2>1. MtpBytes(m, ctx, b) # Unmeasured => NeedOn(1) \in Int
    <3>1. OfModel(m) /\ ctx \in Nat /\ 1 \in Nat
      BY <1>1, <1>5
    <3>2. QED BY <3>1, NeededIs
  <2>2. QED BY <1>15, <2>1
<1>19. \/ p \in {r1, r2, r3, r4, r5, r6} /\ (u \/ noWork \/ have < ram \/ vram = 0 \/ n = 1)
       \/ ~u /\ ram <= have /\ vram > 0 /\ p = s /\ need1 <= vram
       \/ ~u /\ ram <= have /\ vram > 0 /\ p = x /\ n > 1
       \/ ~u /\ ram <= have /\ vram > 0 /\ p = y /\ n = 1 /\ ~noExperts /\ buckets /\ need1 > vram
  <2>1. /\ have >= ram <=> ~(have < ram)
        /\ vram > 0 <=> ~(vram = 0)
        /\ n > 1 <=> ~(n = 1)
        /\ ~u => (vram >= need1 <=> need1 <= vram) /\ (need1 > vram <=> ~(vram >= need1))
    BY <1>3, <1>18
  <2>2. QED BY <1>8, <1>16, <1>17, <1>18, <2>1
<1>20. /\ n = Len(Nodes(a)) /\ ram = HostRamOf(a) /\ need1 = NeedOf(a, 1) /\ NeedOn(n) = NeedOf(a, n)
       /\ m = M(a) /\ o = Order(Nodes(a), 1)
       /\ u = (MtpBytes(M(a), a.ctx, RosterBackend(Nodes(a))) = Unmeasured)
       /\ noWork = (ComputeBytes(M(a), a.ctx, RosterBackend(Nodes(a))) = 0)
  BY <1>4, <1>5, <1>6, <1>8, <1>9, <1>15, Zenon DEF NeedOf
<1>21. Able(a) <=> ~u /\ ram <= have /\ vram > 0
  BY <1>17, <1>20 DEF Able
<1>22. CASE p \in {r1, r2, r3, r4, r5, r6} /\ (u \/ noWork \/ have < ram \/ vram = 0 \/ n = 1)
  <2>1. /\ r1.kind = "refuse" /\ r2.kind = "refuse" /\ r3.kind = "refuse" /\ r4.kind = "refuse"
        /\ r5.kind = "refuse" /\ r6.kind = "refuse"
    BY <1>13, RefusalIs, Zenon
  <2>2. p.kind = "refuse"
    BY <1>22, <2>1
  <2>3. ~Able(a) \/ n = 1 \/ noWork
    BY <1>21, <1>22
  <2>4. QED BY <1>20, <2>2, <2>3, Zenon DEF Refused
<1>23. CASE ~u /\ ram <= have /\ vram > 0 /\ p = s /\ need1 <= vram
  <2>1. Able(a)
    BY <1>21, <1>23
  <2>2. s = [kind |-> "single", why |-> "fits", blocks |-> 0, slots |-> 0,
             gpu |-> NeedOf(a, 1), ram |-> HostRamOf(a)]
    BY <1>13, <1>15, <1>20, Zenon
  <2>3. QED BY <1>17, <1>20, <1>23, <2>1, <2>2, Zenon DEF Alone
<1>24. CASE ~u /\ ram <= have /\ vram > 0 /\ p = x /\ n > 1
  <2>1. Able(a)
    BY <1>21, <1>24
  <2>2. x = SplitByRatio(Placing(a, Order(Nodes(a), 1)), NeedOf(a, Len(Nodes(a))), a.drift)
    BY <1>11, <1>14, <1>20, Zenon
  <2>3. QED BY <1>20, <1>24, <2>1, <2>2, Zenon DEF Divided
<1>25. CASE ~u /\ ram <= have /\ vram > 0 /\ p = y /\ n = 1 /\ ~noExperts /\ buckets /\ need1 > vram
  <2>1. Able(a)
    BY <1>21, <1>25
  <2>2. y = SingleHybrid(M(a), a.me, HostRamOf(a), NeedOf(a, 1), a.me.vram)
    BY <1>14, <1>15, <1>20, Zenon
  <2>3. ~a.me.unified /\ BucketsConsistent(M(a))
    BY <1>15, <1>20, <1>25
  <2>4. QED BY <1>17, <1>20, <1>25, <2>1, <2>2, <2>3, Zenon DEF Stretched
<1>26. QED BY <1>19, <1>22, <1>23, <1>24, <1>25

\* Whatever is decided for an engine fits, or is a refusal.
LEMMA PlanOf ==
    ASSUME NEW a \in Questions, a.about = "engine",
           NEW p, p = Plan(M(a), Nodes(a), 1, a.ctx, a.force, a.drift)
    PROVE  EngineFits(a, p)
<1>1. /\ a.me \in NodeMem /\ a.workers \in Seq(NodeMem) /\ OfModel(M(a))
      /\ a.drift \in Seq({0, 1}) /\ Len(a.drift) = Len(a.workers) + 1
      /\ a.me.pin \in Nat /\ a.me.ram \in Nat /\ a.me.vram \in Nat
  <2>1. /\ a.me \in NodeMem /\ a.workers \in Seq(NodeMem) /\ OfModel(M(a))
        /\ a.drift \in Seq({0, 1}) /\ Len(a.drift) = Len(a.workers) + 1
    BY QuestionIs
  <2>2. QED BY <2>1 DEF NodeMem
<1>2. PICK n \in Nat \ {0} : n = Len(a.workers) + 1
  BY <1>1
<1>3. Nodes(a) \in [1..n -> NodeMem] /\ Len(Nodes(a)) = n
  BY <1>1, <1>2, RosterIs DEF Nodes
<1>4. PICK ram \in Nat : ram = HostRamOf(a)
  BY HostRamIs
<1>5. CASE Refused(a, p)
  BY <1>5 DEF Refused, EngineFits
<1>6. CASE Alone(a, p)
  <2>1. PICK c, why, z1, z2, need1 : c = "single" /\ why = "fits" /\ z1 = 0 /\ z2 = 0 /\ need1 = NeedOf(a, 1)
    OBVIOUS
  <2>2. p = [kind |-> c, why |-> why, blocks |-> z1, slots |-> z2, gpu |-> need1, ram |-> ram]
        /\ need1 <= a.me.vram /\ ram <= a.me.ram
    BY <1>4, <1>6, <2>1, Zenon DEF Alone, Able
  <2>3. p.kind = c /\ p.gpu = need1 /\ p.ram = ram
    BY <2>2, SingleIs
  <2>4. InRam(a.me, 0, ram)
    BY <1>1, <2>2 DEF InRam
  <2>5. p.ram - HostRamOf(a) = 0
    BY <1>4, <2>3
  <2>6. SingleFits(a, p)
    BY <1>4, <2>2, <2>3, <2>4, <2>5, Zenon DEF SingleFits
  <2>7. QED BY <2>1, <2>3, <2>6 DEF EngineFits
<1>7. CASE Divided(a, p)
  <2>1. PICK o, q : o = Order(Nodes(a), 1) /\ q = Placing(a, o)
    OBVIOUS
  <2>2. o \in Orders(n)
    BY <1>3, <2>1, OrderIs
  <2>3. /\ MtpBytes(M(a), a.ctx, RosterBackend(Nodes(a))) # Unmeasured
        /\ HostRamOf(a) <= a.me.ram /\ a.me.vram > 0
    BY <1>7 DEF Divided, Able
  <2>4. /\ Len(q.nodes) = n /\ OfPlacing(q, n)
        /\ q.m = M(a) /\ q.ctx = a.ctx /\ q.backend = RosterBackend(Nodes(a))
        /\ q.order = o /\ q.nodes[1] = a.me /\ q.hostRam = HostRamOf(a)
        /\ q.hostGpu = (IF a.me.unified THEN MtpHost(q.m, q.ctx, q.backend) ELSE 0)
    BY <1>2, <2>1, <2>2, <2>3, AskedIs
  <2>5. Pool(q, 1) > 0
    BY <2>3, <2>4 DEF Pool
  <2>6. PICK need : need = Needed(q.m, q.ctx, Len(q.nodes), q.backend, a.me.unified)
    OBVIOUS
  <2>7. need = NeedOf(a, n) /\ need = Needed(M(a), a.ctx, n, RosterBackend(Nodes(a)), a.me.unified)
    BY <2>4, <2>6 DEF NeedOf
  <2>8. p = SplitByRatio(q, need, a.drift)
    BY <1>3, <1>7, <2>1, <2>7, Zenon DEF Divided
  <2>9. Len(q.nodes) \in Nat \ {0} /\ OfPlacing(q, Len(q.nodes)) /\ Len(a.drift) = Len(q.nodes)
    BY <1>1, <1>2, <2>4
  <2>10. p.kind = "refuse" \/ (p.kind = "cluster" /\ Fitted(q, Len(q.nodes), need, p))
    <3>1. q.hostGpu = IF a.me.unified THEN MtpHost(q.m, q.ctx, q.backend) ELSE 0
      BY <2>4
    <3>2. a.drift \in Seq({0, 1})
      BY <1>1
    <3>3. QED BY <2>5, <2>6, <2>8, <2>9, <3>1, <3>2, SplitFits, Zenon
  <2>11. CASE p.kind = "refuse"
    BY <2>11 DEF EngineFits
  <2>12. CASE p.kind = "cluster" /\ Fitted(q, Len(q.nodes), need, p)
    <3>1. Fitted(q, n, Needed(M(a), a.ctx, n, RosterBackend(Nodes(a)), a.me.unified), p)
      BY <2>4, <2>7, <2>12, Zenon
    <3>2. ClusterFits(a, p)
      BY <1>2, <2>1, <2>2, <2>3, <3>1, ClusterOf
    <3>3. QED BY <2>12, <3>2 DEF EngineFits
  <2>13. QED BY <2>10, <2>11, <2>12
<1>8. CASE Stretched(a, p)
  <2>1. PICK need1 : need1 = NeedOf(a, 1)
    OBVIOUS
  <2>2. p = SingleHybrid(M(a), a.me, ram, need1, a.me.vram) /\ ram <= a.me.ram
    BY <1>4, <1>8, <2>1, Zenon DEF Stretched, Able
  <2>3. PICK m : m = M(a) /\ OfModel(m)
    BY <1>1
  <2>4. p = SingleHybrid(m, a.me, ram, need1, a.me.vram)
    BY <2>2, <2>3
  <2>5. \/ p.kind = "refuse"
        \/ p.kind = "single" /\ p.gpu <= a.me.vram /\ InRam(a.me, p.ram - ram, ram)
    BY <1>1, <2>2, <2>3, <2>4, HybridFits
  <2>6. CASE p.kind = "refuse"
    BY <2>6 DEF EngineFits
  <2>7. CASE p.kind = "single" /\ p.gpu <= a.me.vram /\ InRam(a.me, p.ram - ram, ram)
    <3>1. SingleFits(a, p)
      BY <1>4, <2>7 DEF SingleFits
    <3>2. QED BY <2>7, <3>1 DEF EngineFits
  <2>8. QED BY <2>5, <2>6, <2>7
<1>9. QED BY <1>5, <1>6, <1>7, <1>8, Decided

\* What is decided for a question fits it, whatever the kind of the question.
DecidedFor(a, p) ==
    \/ p = Nothing
    \/ a.about = "engine" /\ EngineFits(a, p)
    \/ a.about = "pipeline" /\ p.kind = "layers" /\ LayersFit(a, p.counts)
\* The inductive invariant: a plan is for the question that was asked.
PlanInv ==
    \/ component # "plan" /\ ask = Nothing /\ plan = Nothing
    \/ ask \in Questions /\ DecidedFor(ask, plan)

\* A pipeline's question has numbers.
LEMMA PipelineIs ==
    ASSUME NEW a \in Questions, a.about = "pipeline"
    PROVE  /\ a.layers \in Nat /\ a.vrams \in Seq(Nat) /\ a.reserved \in Nat
           /\ a.perLayer \in Nat \ {0} /\ a.multiple \in Nat
<1>1. a \in OfEngine \/ a \in OfPipeline
  BY QuestionsAssumption
<1>2. a \notin OfEngine
  <2>1. ASSUME a \in OfEngine PROVE a.about = "engine"
    BY <2>1 DEF OfEngine
  <2>2. QED BY <2>1
<1>3. QED BY <1>1, <1>2 DEF OfPipeline

\* The layers counted for a pipeline fit it.
LEMMA LayersAreFit ==
    ASSUME NEW a \in Questions, a.about = "pipeline", NEW c,
           c = PlanLayers(a.layers, a.vrams, a.reserved, a.perLayer, a.multiple)
    PROVE  LayersFit(a, c)
<1>1. PICK layers \in Nat, vrams \in Seq(Nat), reserved \in Nat, per \in Nat \ {0}, multiple \in Nat :
         /\ layers = a.layers /\ vrams = a.vrams /\ reserved = a.reserved
         /\ per = a.perLayer /\ multiple = a.multiple
  BY PipelineIs
<1>2. c = PlanLayers(layers, vrams, reserved, per, multiple)
  BY <1>1
<1>3. PICK caps : caps = [i \in DOMAIN c |-> LayerCap(vrams[i], reserved, per)]
  OBVIOUS
<1>4. c # <<>> => /\ SumSeq(c) = layers
                  /\ \A i \in DOMAIN c : c[i] >= 1
                  /\ SumSeq(caps) >= layers => \A i \in DOMAIN c : c[i] <= caps[i]
  <2>1. ASSUME c # <<>>
        PROVE  /\ SumSeq(c) = layers
               /\ \A i \in DOMAIN c : c[i] >= 1
               /\ SumSeq([i \in DOMAIN c |-> LayerCap(vrams[i], reserved, per)]) >= layers =>
                     \A i \in DOMAIN c : c[i] <= [k \in DOMAIN c |-> LayerCap(vrams[k], reserved, per)][i]
    BY <1>2, <2>1, LayersPlanned, Zenon
  <2>2. QED BY <1>3, <2>1, Zenon
<1>5. QED BY <1>1, <1>3, <1>4, Zenon DEF LayersFit

\* A machine that decides starts with a question and no plan.
LEMMA PlanStarts ==
    ASSUME MachineInit
    PROVE  PlanInv
BY DEF MachineInit, StartInit, PlanInv, DecidedFor

\* A plan is made once, for the question, and fits it.
LEMMA PlanStepKeeps ==
    ASSUME PlanInv, [MachineNext]_MachineVars
    PROVE  PlanInv'
<1>1. CASE UNCHANGED startVars /\ UNCHANGED component
  BY <1>1 DEF PlanInv, DecidedFor, EngineFits, startVars
<1>2. CASE component = "plan" /\ component' = component /\ StartNext
  <2>1. ask \in Questions /\ DecidedFor(ask, plan)
    BY <1>2 DEF PlanInv
  <2>2. CASE Decide
    <3>1. /\ ask.about = "engine" /\ ask' = ask
          /\ plan' = Plan(M(ask), Nodes(ask), 1, ask.ctx, ask.force, ask.drift)
      BY <2>2 DEF Decide
    <3>2. EngineFits(ask, plan')
      BY <2>1, <3>1, PlanOf
    <3>3. DecidedFor(ask, plan')
      BY <3>1, <3>2 DEF DecidedFor
    <3>4. QED BY <2>1, <3>1, <3>3 DEF PlanInv
  <2>3. CASE Start
    BY <2>1, <2>3 DEF Start, PlanInv
  <2>4. CASE CountLayers
    <3>1. PICK c : c = PlanLayers(ask.layers, ask.vrams, ask.reserved, ask.perLayer, ask.multiple)
      OBVIOUS
    <3>2. ask.about = "pipeline" /\ ask' = ask /\ plan' = [kind |-> "layers", counts |-> c]
      BY <2>4, <3>1, Zenon DEF CountLayers
    <3>3. LayersFit(ask, c)
      BY <2>1, <3>1, <3>2, LayersAreFit
    <3>4. plan'.kind = "layers" /\ plan'.counts = c
      BY <3>2
    <3>5. DecidedFor(ask, plan')
      BY <3>2, <3>3, <3>4 DEF DecidedFor
    <3>6. QED BY <2>1, <3>2, <3>5 DEF PlanInv
  <2>5. QED BY <1>2, <2>2, <2>3, <2>4 DEF StartNext
<1>3. QED BY <1>1, <1>2 DEF MachineNext, MachineVars

\* Whatever is decided fits.
LEMMA PlanInvIsEnough ==
    ASSUME PlanInv
    PROVE  PlanFits
<1>1. CASE plan = Nothing
  <2>1. plan.kind = "none"
    BY <1>1 DEF Nothing
  <2>2. QED BY <2>1 DEF PlanFits
<1>2. CASE EngineFits(ask, plan)
  BY <1>2 DEF EngineFits, PlanFits
<1>3. CASE plan.kind = "layers" /\ LayersFit(ask, plan.counts)
  BY <1>3 DEF PlanFits
<1>4. QED BY <1>1, <1>2, <1>3 DEF PlanInv, DecidedFor

\* A plan fits the machines it names: in every state of a machine (idletoken_plan_compute,
\* idletoken_plan_layers).
THEOREM PlansFit == MachineSpec => []PlanFits
<1>1. MachineInit => PlanInv
  BY PlanStarts
<1>2. PlanInv /\ [MachineNext]_MachineVars => PlanInv'
  BY PlanStepKeeps
<1>3. PlanInv => PlanFits
  BY PlanInvIsEnough
<1>4. QED BY <1>1, <1>2, <1>3, PTL DEF MachineSpec

-----------------------------------------------------------------------------
(* No placement uses less RAM than the ranges found. *)

\* A range of an owner that can hold it leads from a reached cell to a reached cell, at the
\* price of its RAM.
LEMMA Reaches ==
    ASSUME NEW n \in Nat \ {0}, NEW q, OfPlacing(q, n), NEW slotted \in Nat,
           NEW row, row = Table(q, slotted), NEW i \in 1..n,
           NEW hi \in i..(NumBlocks(q.m) - (n - i)), NEW lo \in (i - 1)..(hi - 1),
           row[i - 1][lo].cost >= 0, RamUsed(q, i, lo, hi, slotted) # {}
    PROVE  row[i][hi].cost \in 0..(row[i - 1][lo].cost + Min(RamUsed(q, i, lo, hi, slotted)))
<1>1. PICK L \in Nat : L = NumBlocks(q.m)
  BY PlacingIs
<1>2. Len(q.nodes) = n
  BY DEF OfPlacing
<1>3. hi \in i..L /\ hi \in 0..L /\ i - 1 \in 0..n
  BY <1>1
<1>4. PICK before : before = row[i - 1]
  OBVIOUS
<1>5. before \in [0..L -> Cells] /\ row[i] = NextRow(q, before, i, slotted)
  BY <1>1, <1>3, <1>4, TableIs
<1>6. PICK r : r = BestRange(q, before, i, hi, slotted)
  OBVIOUS
<1>7. row[i][hi] = r
  <2>1. NextRow(q, before, i, slotted)
          = [h \in 0..L |-> IF h \in i..(L - (n - i)) THEN BestRange(q, before, i, h, slotted) ELSE NoRange]
    BY <1>1, <1>2, Zenon DEF NextRow
  <2>2. hi \in i..(L - (n - i))
    BY <1>1
  <2>3. QED BY <1>3, <1>5, <1>6, <2>1, <2>2
<1>8. \A l \in (i - 1)..(hi - 1) :
        before[l].cost >= 0 /\ RamUsed(q, i, l, hi, slotted) # {} =>
          r.cost \in 0..(before[l].cost + Min(RamUsed(q, i, l, hi, slotted)))
  BY <1>1, <1>3, <1>5, <1>6, BestRangeIs
<1>9. QED BY <1>4, <1>7, <1>8

\* The ends of a cut leave a block at least for every machine before and after them.
LEMMA CutsClimb ==
    ASSUME NEW n \in Nat \ {0}, NEW L \in Nat, NEW c \in Cuts(n, L)
    PROVE  /\ c[0] = 0 /\ c[n] = L
           /\ \A i \in 1..n : c[i] \in i..(L - (n - i)) /\ c[i - 1] \in (i - 1)..(c[i] - 1)
<1>1. c \in [0..n -> 0..L] /\ c[0] = 0 /\ c[n] = L /\ \A i \in 1..n : c[i - 1] < c[i]
  BY DEF Cuts
<1>2. \A i \in 0..n : c[i] \in 0..L
  BY <1>1
<1> DEFINE T == [k \in 0..n |-> {x \in 0..L : x >= k}]
<1>3. c[0] \in T[0]
  BY <1>1
<1>4. ASSUME NEW k \in 1..n, c[k - 1] \in T[k - 1] PROVE c[k] \in T[k]
  <2>1. k - 1 \in 0..n /\ k \in 0..n
    OBVIOUS
  <2>2. c[k] \in 0..L /\ c[k - 1] \in 0..L /\ c[k - 1] >= k - 1 /\ c[k - 1] < c[k]
    BY <1>1, <1>2, <1>4, <2>1
  <2>3. c[k] >= k
    BY <2>2
  <2>4. QED BY <2>1, <2>2, <2>3
<1>5. \A k \in 0..n : c[k] \in T[k]
  <2> HIDE DEF T
  <2>1. QED BY <1>3, <1>4, Rising
<1> DEFINE b == [k \in 0..n |-> c[n - k]]
<1> DEFINE U == [k \in 0..n |-> {x \in 0..L : x <= L - k}]
<1>6. b[0] \in U[0]
  BY <1>1
<1>7. ASSUME NEW k \in 1..n, b[k - 1] \in U[k - 1] PROVE b[k] \in U[k]
  <2>1. k - 1 \in 0..n /\ k \in 0..n /\ n - k \in 0..n /\ n - (k - 1) \in 1..n /\ n - (k - 1) - 1 = n - k
    OBVIOUS
  <2>2. PICK j \in 1..n : j = n - (k - 1)
    BY <2>1
  <2>3. b[k - 1] = c[j] /\ b[k] = c[j - 1]
    BY <2>1, <2>2
  <2>4. c[j - 1] < c[j] /\ c[j] <= L - (k - 1) /\ c[j] \in 0..L /\ c[j - 1] \in 0..L
    <3>1. j \in 0..n /\ j - 1 \in 0..n
      BY <2>2
    <3>2. c[j] \in {x \in 0..L : x <= L - (k - 1)}
      BY <1>7, <2>1, <2>3
    <3>3. QED BY <1>1, <1>2, <3>1, <3>2
  <2>5. c[j - 1] <= L - k
    BY <2>4
  <2>6. U[k] = {x \in 0..L : x <= L - k}
    BY <2>1
  <2> HIDE DEF b, U
  <2>7. QED BY <2>3, <2>4, <2>5, <2>6
<1>8. \A k \in 0..n : b[k] \in U[k]
  <2> HIDE DEF b, U
  <2>1. QED BY <1>6, <1>7, Rising
<1>9. ASSUME NEW i \in 1..n PROVE c[i] \in i..(L - (n - i)) /\ c[i - 1] \in (i - 1)..(c[i] - 1)
  <2>1. i \in 0..n /\ i - 1 \in 0..n /\ n - i \in 0..n /\ n - (n - i) = i
    OBVIOUS
  <2>2. c[i] >= i /\ c[i - 1] >= i - 1
    BY <1>5, <2>1
  <2>3. c[i] <= L - (n - i)
    <3>1. b[n - i] = c[i] /\ U[n - i] = {x \in 0..L : x <= L - (n - i)}
      BY <2>1
    <3> HIDE DEF b, U
    <3>2. QED BY <1>8, <2>1, <3>1
  <2>4. c[i - 1] < c[i] /\ c[i] \in 0..L /\ c[i - 1] \in 0..L
    BY <1>1, <1>2, <2>1
  <2>5. QED BY <2>2, <2>3, <2>4
<1>10. QED BY <1>1, <1>9

\* The least RAM each owner can do with along a cut.
RamAlong(q, c, slotted) == [i \in DOMAIN q.nodes |-> Min(RamUsed(q, i, c[i - 1], c[i], slotted))]

\* Along a cut that every owner can hold the table is reached up to the last cell, at the price
\* of their RAM at the most.
LEMMA Covered ==
    ASSUME NEW n \in Nat \ {0}, NEW q, OfPlacing(q, n), NEW slotted \in Nat,
           NEW c \in Feasible(q, slotted)
    PROVE  Table(q, slotted)[n][NumBlocks(q.m)].cost \in 0..LeastRamOf(q, c, slotted)
<1>1. PICK L \in Nat : L = NumBlocks(q.m)
  BY PlacingIs
<1>2. Len(q.nodes) = n /\ DOMAIN q.nodes = 1..n
  BY PlacingIs DEF OfPlacing
<1>3. c \in Cuts(n, L) /\ \A i \in 1..n : RamUsed(q, i, c[i - 1], c[i], slotted) # {}
  BY <1>1, <1>2 DEF Feasible
<1>4. PICK row : row = Table(q, slotted)
  OBVIOUS
<1>5. PICK ram : ram = RamAlong(q, c, slotted)
  OBVIOUS
<1>6. ram = [i \in 1..n |-> Min(RamUsed(q, i, c[i - 1], c[i], slotted))]
  BY <1>2, <1>5 DEF RamAlong
<1>7. c[0] = 0 /\ c[n] = L /\ \A i \in 1..n : c[i] \in i..(L - (n - i)) /\ c[i - 1] \in (i - 1)..(c[i] - 1)
  BY <1>3, CutsClimb
<1>8. ram \in [1..n -> Nat]
  <2>1. ASSUME NEW i \in 1..n PROVE Min(RamUsed(q, i, c[i - 1], c[i], slotted)) \in Nat
    <3>1. PICK lo, hi : lo = c[i - 1] /\ hi = c[i]
      OBVIOUS
    <3>2. lo \in 0..L /\ hi \in lo..L
      <4>1. hi \in i..(L - (n - i)) /\ lo \in (i - 1)..(hi - 1)
        BY <1>7, <3>1
      <4>2. QED BY <4>1
    <3>3. RamUsed(q, i, lo, hi, slotted) # {}
      BY <1>3, <3>1
    <3>4. Min(RamUsed(q, i, lo, hi, slotted)) \in Nat
      BY <1>1, <3>2, <3>3, SpillLeast
    <3>5. QED BY <3>1, <3>4
  <2>2. QED BY <1>6, <2>1
<1>9. ram \in Seq(Int) /\ Len(ram) = n
  BY <1>8
<1>10. LeastRamOf(q, c, slotted) = SumOver(ram, 1, n)
  <2>1. LeastRamOf(q, c, slotted) = SumSeq(ram)
    BY <1>5, Zenon DEF LeastRamOf, RamAlong
  <2>2. QED BY <1>9, <2>1, SumSeqIs
<1> DEFINE f == [k \in 0..n |-> row[k][c[k]].cost]
<1> DEFINE T == [k \in 0..n |-> 0..SumOver(ram, 1, k)]
<1>11. f[0] \in T[0]
  <2>1. row[0][0].cost = 0
    BY <1>4, TableIs
  <2>2. SumOver(ram, 1, 0) = 0
    BY <1>9, SumSeqIs
  <2>3. 0 \in 0..n
    OBVIOUS
  <2>4. f[0] = row[0][c[0]].cost /\ T[0] = 0..SumOver(ram, 1, 0)
    BY <2>3
  <2> HIDE DEF f, T
  <2>5. QED BY <1>7, <2>1, <2>2, <2>4
<1>12. ASSUME NEW k \in 1..n, f[k - 1] \in T[k - 1] PROVE f[k] \in T[k]
  <2>1. k - 1 \in 0..n /\ k \in 0..n
    OBVIOUS
  <2>2. /\ f[k - 1] = row[k - 1][c[k - 1]].cost /\ T[k - 1] = 0..SumOver(ram, 1, k - 1)
        /\ f[k] = row[k][c[k]].cost /\ T[k] = 0..SumOver(ram, 1, k)
    BY <2>1
  <2> HIDE DEF f, T
  <2>3. PICK lo, hi : lo = c[k - 1] /\ hi = c[k]
    OBVIOUS
  <2>4. hi \in k..(L - (n - k)) /\ lo \in (k - 1)..(hi - 1)
    BY <1>7, <2>3
  <2>5. PICK s \in Int : s = SumOver(ram, 1, k - 1) /\ SumOver(ram, 1, k) = s + ram[k]
    BY <1>9, SumSeqIs
  <2>6. PICK x \in Nat : x = ram[k] /\ x = Min(RamUsed(q, k, lo, hi, slotted))
    BY <1>6, <1>8, <2>3
  <2>7. PICK y \in Int : y = row[k - 1][lo].cost /\ y >= 0 /\ y <= s
    BY <1>12, <2>2, <2>3, <2>5
  <2>8. RamUsed(q, k, lo, hi, slotted) # {}
    BY <1>3, <2>3
  <2>9. row[k][hi].cost \in 0..(row[k - 1][lo].cost + Min(RamUsed(q, k, lo, hi, slotted)))
    <3>1. row[k - 1][lo].cost >= 0
      BY <2>7
    <3>2. hi \in k..(NumBlocks(q.m) - (n - k))
      BY <1>1, <2>4
    <3>3. lo \in (k - 1)..(hi - 1)
      BY <2>4
    <3>4. QED BY <1>4, <2>8, <3>1, <3>2, <3>3, Reaches
  <2>10. row[k][hi].cost \in 0..(y + x)
    BY <2>6, <2>7, <2>9
  <2>11. row[k][hi].cost \in 0..(s + x)
    BY <2>7, <2>10
  <2>12. QED BY <2>2, <2>3, <2>5, <2>6, <2>11
<1>13. \A k \in 0..n : f[k] \in T[k]
  <2> HIDE DEF f, T
  <2>1. QED BY <1>11, <1>12, Rising
<1>14. n \in 0..n
  OBVIOUS
<1>15. row[n][c[n]].cost \in 0..SumOver(ram, 1, n)
  BY <1>13, <1>14
<1>16. QED BY <1>1, <1>4, <1>7, <1>10, <1>15

\* Ranges that are found cost what the last cell of the table says.
LEMMA RangesCost ==
    ASSUME NEW n \in Nat \ {0}, NEW q, OfPlacing(q, n), NEW slotted \in Nat,
           NEW r, r = Ranges(q, slotted), r # <<>>
    PROVE  SumSeq([i \in 1..n |-> SumOver(q.m.experts, r[i].lo + 1, r[i].spillEnd)])
             = Table(q, slotted)[n][NumBlocks(q.m)].cost
<1>1. PICK L \in Nat : L = NumBlocks(q.m)
  BY PlacingIs
<1>2. PICK row : row = Table(q, slotted)
  OBVIOUS
<1>3. PICK cut : Climbed(row, n, L, cut) /\ ReadFrom(row, n, cut, r)
  BY <1>1, <1>2, TilesAre
<1>4. /\ cut[n] = L
      /\ \A i \in 1..n : cut[i - 1] = row[i][cut[i]].lo
      /\ \A i \in 0..n : cut[i] \in 0..L /\ row[i][cut[i]].cost >= 0
  BY <1>3 DEF Climbed
<1>5. \A i \in 1..n : r[i].lo = cut[i - 1] /\ r[i].hi = cut[i] /\ r[i].spillEnd = row[i][cut[i]].spillEnd
  BY <1>3 DEF ReadFrom
<1>6. /\ \A i \in 0..n, l \in 0..L : row[i][l].cost \in Int
      /\ \A l \in 0..L : row[0][l].cost >= 0 => l = 0
      /\ \A i \in 1..n, hi \in 0..L : row[i][hi].cost >= 0 => Led(q, row[i - 1], i, hi, row[i][hi])
      /\ row[0][0].cost = 0
  BY <1>1, <1>2, TableIs
<1> DEFINE t == [i \in 0..n |-> row[i][cut[i]].cost]
<1> DEFINE a == [i \in 1..n |-> SumOver(q.m.experts, r[i].lo + 1, r[i].spillEnd)]
<1>7. t \in [0..n -> Int]
  BY <1>4, <1>6
<1>8. ASSUME NEW i \in 1..n PROVE a[i] \in Int /\ a[i] = t[i] - t[i - 1]
  <2>1. i \in 0..n /\ i - 1 \in 0..n
    OBVIOUS
  <2>2. PICK hi \in 0..L, lo \in 0..L : hi = cut[i] /\ lo = cut[i - 1] /\ lo = row[i][hi].lo
    BY <1>4, <2>1
  <2>3. PICK e : e = row[i][hi].spillEnd
    OBVIOUS
  <2>4. Led(q, row[i - 1], i, hi, row[i][hi])
    BY <1>4, <1>6, <2>1, <2>2
  <2>5. row[i][hi].cost = row[i - 1][lo].cost + SumOver(q.m.experts, lo + 1, e) /\ e \in lo..hi
    BY <2>2, <2>3, <2>4 DEF Led, Spilled
  <2>6. SumOver(q.m.experts, lo + 1, e) \in Nat
    <3>1. e \in 0..L
      BY <2>2, <2>5
    <3>2. QED BY <1>1, <2>2, <3>1, OnGpuIs
  <2>7. PICK x \in Nat : x = SumOver(q.m.experts, lo + 1, e)
    BY <2>6
  <2>8. a[i] = x
    BY <1>5, <2>2, <2>3, <2>7
  <2>9. PICK y \in Int, z \in Int : y = t[i] /\ z = t[i - 1]
    BY <1>7, <2>1
  <2>10. y = row[i][hi].cost /\ z = row[i - 1][lo].cost
    BY <2>1, <2>2, <2>9
  <2> HIDE DEF a, t
  <2>11. QED BY <2>5, <2>7, <2>8, <2>9, <2>10
<1>9. a \in [1..n -> Int]
  <2>1. a = [i \in 1..n |-> a[i]]
    OBVIOUS
  <2> HIDE DEF a, t
  <2>2. QED BY <1>8, <2>1
<1>10. t[0] = 0 /\ t[n] = row[n][L].cost
  <2>1. 0 \in 0..n /\ n \in 0..n
    OBVIOUS
  <2>2. cut[0] = 0
    BY <1>4, <1>6, <2>1
  <2>3. QED BY <1>4, <1>6, <2>1, <2>2
<1>11. SumSeq(a) = t[n]
  <2>1. a \in Seq(Int) /\ Len(a) = n
    <3> HIDE DEF a, t
    <3>1. QED BY <1>9
  <2>2. SumOver(a, 1, n) = t[n] - t[0]
    <3>1. n \in 0..n
      OBVIOUS
    <3> HIDE DEF a, t
    <3>2. QED BY <1>7, <1>8, <1>9, <3>1, SumsTelescope
  <2>3. PICK z \in Int : z = t[n]
    <3>1. n \in 0..n
      OBVIOUS
    <3> HIDE DEF t
    <3>2. QED BY <1>7, <3>1
  <2> HIDE DEF a, t
  <2>4. z - 0 = z
    OBVIOUS
  <2>5. QED BY <1>10, <2>1, <2>2, <2>3, <2>4, SumSeqIs
<1>12. QED BY <1>1, <1>2, <1>10, <1>11

-----------------------------------------------------------------------------
(* No placement keeps a larger cache than the one found. *)

\* More slots need no less.
LEMMA CacheRises ==
    ASSUME NEW m, OfModel(m), NEW lo \in 0..NumBlocks(m), NEW hi \in 0..NumBlocks(m),
           NEW s \in Nat, NEW t \in Nat, s <= t
    PROVE  CacheNeed(Geometry(m, lo, hi), s) <= CacheNeed(Geometry(m, lo, hi), t)
<1>1. PICK g : g = Geometry(m, lo, hi)
  OBVIOUS
<1>2. PICK w \in Nat, f \in Nat : w = g.slot /\ f = CacheFixed(g)
  BY <1>1, GeometryIs
<1>3. \A x \in Nat : CacheNeed(g, x) = IF x = 0 THEN 0 ELSE f + w * x
  BY <1>2 DEF CacheNeed
<1>4. PICK d \in Nat : t = s + d
  <2>1. t - s \in Nat /\ t = s + (t - s)
    OBVIOUS
  <2>2. QED BY <2>1
<1>5. w * t = w * s + w * d /\ w * s \in Nat /\ w * d \in Nat
  BY <1>4
<1>6. QED BY <1>1, <1>3, <1>5

\* What must fit an owner rises with the slots.
LEMMA GateRises ==
    ASSUME NEW n \in Nat \ {0}, NEW q, OfPlacing(q, n), NEW i \in 1..n,
           NEW lo \in 0..NumBlocks(q.m), NEW hi \in 0..NumBlocks(q.m), NEW c \in 0..NumBlocks(q.m),
           NEW s \in Nat, NEW t \in Nat, s <= t
    PROVE  /\ Gate(q, i, lo, hi, c, s) \in Int /\ Gate(q, i, lo, hi, c, t) \in Int
           /\ Gate(q, i, lo, hi, c, s) <= Gate(q, i, lo, hi, c, t)
<1>1. PICK m : m = q.m /\ OfModel(m)
  BY PlacingIs
<1>2. PICK x \in Nat : x = OnGpu(q, i, lo, hi, c)
  BY OnGpuIs
<1>3. PICK b \in Int : b = OwnerBytes(q, i, lo, hi)
  BY OwnerBytesIs
<1>4. PICK y \in Nat, z \in Nat : /\ y = CacheNeed(Geometry(m, lo, c), s)
                                  /\ z = CacheNeed(Geometry(m, lo, c), t) /\ y <= z
  <2>1. lo \in 0..NumBlocks(m) /\ c \in 0..NumBlocks(m)
    BY <1>1
  <2>2. CacheNeed(Geometry(m, lo, c), s) \in Nat /\ CacheNeed(Geometry(m, lo, c), t) \in Nat
    BY <1>1, <2>1, GeometryIs
  <2>3. CacheNeed(Geometry(m, lo, c), s) <= CacheNeed(Geometry(m, lo, c), t)
    BY <1>1, <2>1, CacheRises
  <2>4. QED BY <2>2, <2>3
<1>5. /\ Gate(q, i, lo, hi, c, s) = IF c = lo THEN b ELSE x + y
      /\ Gate(q, i, lo, hi, c, t) = IF c = lo THEN b ELSE x + z
  BY <1>1, <1>2, <1>3, <1>4, Zenon DEF Gate
<1>6. QED BY <1>4, <1>5

\* A cut that can be held with more slots can be held with fewer.
LEMMA FeasibleFalls ==
    ASSUME NEW n \in Nat \ {0}, NEW q, OfPlacing(q, n), NEW s \in Nat, NEW t \in Nat, s <= t
    PROVE  Feasible(q, t) \subseteq Feasible(q, s)
<1>1. PICK L \in Nat : L = NumBlocks(q.m)
  BY PlacingIs
<1>2. Len(q.nodes) = n /\ DOMAIN q.nodes = 1..n
  BY PlacingIs DEF OfPlacing
<1>3. ASSUME NEW c \in Feasible(q, t) PROVE c \in Feasible(q, s)
  <2>1. c \in Cuts(n, L) /\ \A i \in 1..n : RamUsed(q, i, c[i - 1], c[i], t) # {}
    BY <1>1, <1>2, <1>3 DEF Feasible
  <2>2. ASSUME NEW i \in 1..n PROVE RamUsed(q, i, c[i - 1], c[i], s) # {}
    <3>1. PICK lo, hi : lo = c[i - 1] /\ hi = c[i]
      OBVIOUS
    <3>2. hi \in i..(L - (n - i)) /\ lo \in (i - 1)..(hi - 1)
      BY <2>1, <3>1, CutsClimb
    <3>3. lo \in 0..L /\ hi \in 0..L
      BY <3>2
    <3>4. PICK x \in lo..hi : OwnerCan(q, i, lo, hi, x, t)
      BY <2>1, <3>1 DEF RamUsed
    <3>5. x \in 0..L
      BY <3>3
    <3>6. PICK g \in Int, h \in Int : /\ g = Gate(q, i, lo, hi, x, s) /\ h = Gate(q, i, lo, hi, x, t)
                                      /\ g <= h
      BY <1>1, <3>3, <3>5, GateRises
    <3>7. PICK v \in Nat : v = Owner(q, i).vram
      <4>1. q.nodes[i].vram \in Nat
        BY PlacingIs
      <4>2. Owner(q, i).vram = q.nodes[i].vram
        BY OwnerIs
      <4>3. QED BY <4>1, <4>2
    <3>8. OwnerCan(q, i, lo, hi, x, s)
      <4>1. h <= v
        BY <3>4, <3>6, <3>7 DEF OwnerCan
      <4>2. g <= v
        BY <3>6, <4>1
      <4>3. QED BY <3>4, <3>6, <3>7, <4>2 DEF OwnerCan
    <3>9. RamUsed(q, i, lo, hi, s) # {}
      BY <3>4, <3>8 DEF RamUsed
    <3>10. QED BY <3>1, <3>9
  <2>3. QED BY <1>1, <1>2, <2>1, <2>2 DEF Feasible
<1>4. QED BY <1>3

\* When the table finds nothing there is nothing to find, with these slots or with more.
LEMMA NothingToFind ==
    ASSUME NEW n \in Nat \ {0}, NEW q, OfPlacing(q, n), Placeable(q), NEW s \in Nat, ~Works(q, s)
    PROVE  \A t \in Nat : s <= t => Feasible(q, t) = {}
<1>1. Ranges(q, s) = <<>>
  BY DEF Works, TryRanges
<1>2. ~(Table(q, s)[n][NumBlocks(q.m)].cost >= 0)
  BY <1>1, RangesExist
<1>3. Feasible(q, s) = {}
  <2>1. ASSUME NEW c \in Feasible(q, s) PROVE FALSE
    <3>1. PICK y : y = Table(q, s)[n][NumBlocks(q.m)].cost
      OBVIOUS
    <3>2. PICK z : z = LeastRamOf(q, c, s)
      OBVIOUS
    <3>3. y \in 0..z
      BY <3>1, <3>2, Covered
    <3>4. QED BY <1>2, <3>1, <3>3
  <2>2. QED BY <2>1
<1>4. QED BY <1>3, FeasibleFalls

\* What a step of the search does.
LEMMA Halved ==
    ASSUME NEW q, NEW s \in Sizes, s.lo <= s.hi
    PROVE  \E mid \in s.lo..s.hi :
              /\ mid \in Nat
              /\ Works(q, mid) => /\ Halve(q, s).lo = mid + 1 /\ Halve(q, s).best = mid
                                  /\ Halve(q, s).hi = s.hi
              /\ ~Works(q, mid) => /\ Halve(q, s).lo = s.lo /\ Halve(q, s).best = s.best
                                   /\ Halve(q, s).hi = mid - 1
<1>1. PICK lo \in Nat, hi \in Int, best \in Nat : lo = s.lo /\ hi = s.hi /\ best = s.best
  BY DEF Sizes
<1>2. PICK mid : mid = lo + (hi - lo) \div 2
  OBVIOUS
<1>3. mid \in lo..hi /\ mid \in Nat
  BY <1>1, <1>2
<1>4. Halve(q, s) = IF lo > hi THEN s
                    ELSE IF Works(q, mid) THEN [s EXCEPT !.lo = mid + 1, !.best = mid]
                    ELSE [s EXCEPT !.hi = mid - 1]
  <2>1. mid = s.lo + (s.hi - s.lo) \div 2 /\ (lo > hi <=> s.lo > s.hi)
    BY <1>1, <1>2
  <2>2. QED BY <2>1, Zenon DEF Halve
<1>5. ~(lo > hi)
  BY <1>1
<1>6. CASE Works(q, mid)
  <2>1. PICK up : up = mid + 1
    OBVIOUS
  <2>2. Halve(q, s) = [s EXCEPT !.lo = up, !.best = mid]
    BY <1>4, <1>5, <1>6, <2>1
  <2>3. /\ [s EXCEPT !.lo = up, !.best = mid].lo = up /\ [s EXCEPT !.lo = up, !.best = mid].best = mid
        /\ [s EXCEPT !.lo = up, !.best = mid].hi = s.hi
    BY DEF Sizes
  <2>4. QED BY <1>1, <1>3, <1>6, <2>1, <2>2, <2>3
<1>7. CASE ~Works(q, mid)
  <2>1. PICK down : down = mid - 1
    OBVIOUS
  <2>2. Halve(q, s) = [s EXCEPT !.hi = down]
    BY <1>4, <1>5, <1>7, <2>1
  <2>3. /\ [s EXCEPT !.hi = down].lo = s.lo /\ [s EXCEPT !.hi = down].best = s.best
        /\ [s EXCEPT !.hi = down].hi = down
    BY DEF Sizes
  <2>4. QED BY <1>1, <1>3, <1>7, <2>1, <2>2, <2>3
<1>8. QED BY <1>6, <1>7

\* What is left to search after k steps: what is below works, what is above does not, and the
\* sizes between are fewer by one at least for every step.
Searching(q, target, k, s) ==
    /\ s \in Sizes
    /\ s.lo = s.best + 1 /\ Works(q, s.best) /\ q.m.nUsed <= s.best
    /\ \A x \in (s.hi + 1)..target : Feasible(q, x) = {}
    /\ s.lo > s.hi \/ s.hi - s.lo + 1 <= target - k

\* A step of the search keeps that.
LEMMA SearchStep ==
    ASSUME NEW n \in Nat \ {0}, NEW q, OfPlacing(q, n), Placeable(q), NEW target \in Nat,
           NEW k \in 1..target, NEW s, Searching(q, target, k - 1, s)
    PROVE  Searching(q, target, k, Halve(q, s))
<1>1. PICK u \in Nat : u = q.m.nUsed
  <2>1. PICK m : m = q.m /\ OfModel(m)
    BY PlacingIs
  <2>2. QED BY <2>1, TargetIs
<1>2. s \in Sizes /\ s.lo \in Nat /\ s.hi \in Int /\ s.best \in Nat
  BY DEF Searching, Sizes
<1>3. PICK lo \in Nat, hi \in Int, best \in Nat : lo = s.lo /\ hi = s.hi /\ best = s.best
  BY <1>2
<1>4. /\ lo = best + 1 /\ Works(q, best) /\ u <= best
      /\ \A x \in (hi + 1)..target : Feasible(q, x) = {}
      /\ lo > hi \/ hi - lo + 1 <= target - (k - 1)
  BY <1>1, <1>3 DEF Searching
<1>5. PICK r : r = Halve(q, s)
  OBVIOUS
<1>6. r \in Sizes
  BY <1>2, <1>5, HalveIs
<1>7. CASE lo > hi
  <2>1. r = s
    BY <1>3, <1>5, <1>7 DEF Halve
  <2>2. QED BY <1>1, <1>2, <1>3, <1>4, <1>5, <1>7, <2>1 DEF Searching
<1>8. CASE ~(lo > hi)
  <2>1. PICK mid \in lo..hi :
              /\ mid \in Nat
              /\ Works(q, mid) => r.lo = mid + 1 /\ r.best = mid /\ r.hi = hi
              /\ ~Works(q, mid) => r.lo = lo /\ r.best = best /\ r.hi = mid - 1
    <3>1. s.lo <= s.hi
      BY <1>3, <1>8
    <3>2. QED BY <1>2, <1>3, <1>5, <3>1, Halved
  <2>2. CASE Works(q, mid)
    <3>1. r.lo = mid + 1 /\ r.best = mid /\ r.hi = hi
      BY <2>1, <2>2
    <3>2. u <= mid /\ (mid + 1 > hi \/ hi - (mid + 1) + 1 <= target - k)
      BY <1>4, <1>8, <2>1
    <3>3. Searching(q, target, k, r)
      BY <1>1, <1>4, <1>6, <2>2, <3>1, <3>2 DEF Searching
    <3>4. QED BY <1>5, <3>3
  <2>3. CASE ~Works(q, mid)
    <3>1. r.lo = lo /\ r.best = best /\ r.hi = mid - 1
      BY <2>1, <2>3
    <3>2. lo > mid - 1 \/ (mid - 1) - lo + 1 <= target - k
      BY <1>4, <1>8, <2>1
    <3>3. \A x \in (mid - 1 + 1)..target : Feasible(q, x) = {}
      <4>1. ASSUME NEW x \in (mid - 1 + 1)..target PROVE Feasible(q, x) = {}
        <5>1. x \in Nat /\ mid <= x
          BY <2>1
        <5>2. QED BY <2>1, <2>3, <5>1, NothingToFind
      <4>2. QED BY <4>1
    <3>4. Searching(q, target, k, r)
      BY <1>1, <1>4, <1>6, <3>1, <3>2, <3>3 DEF Searching
    <3>5. QED BY <1>5, <3>4
  <2>4. QED BY <2>2, <2>3
<1>9. QED BY <1>7, <1>8

\* The cache found works, if it is one, and no larger useful cache up to the target does.
LEMMA CacheIsLargest ==
    ASSUME NEW n \in Nat \ {0}, NEW q, OfPlacing(q, n), Placeable(q),
           NEW s, s = LargestCommonCache(q)
    PROVE  /\ s # 0 => Works(q, s)
           /\ \A x \in Larger(s + 1, q.m.nUsed)..CacheTarget(q.m) : Feasible(q, x) = {}
<1>1. PICK u \in Nat, target \in Nat : u = q.m.nUsed /\ target = CacheTarget(q.m)
  <2>1. PICK m : m = q.m /\ OfModel(m)
    BY PlacingIs
  <2>2. QED BY <2>1, TargetIs
<1>2. PICK h : h = SearchOf(q)
  OBVIOUS
<1>3. /\ h[0] = [lo |-> u + 1, hi |-> target - 1, best |-> u]
      /\ \A k \in 1..target : h[k] = Halve(q, h[k - 1])
      /\ \A k \in 0..target : h[k] \in Sizes
      /\ s \in Nat
  BY <1>1, <1>2, CacheIs
<1>4. s = IF Works(q, target) THEN target
          ELSE IF u < target /\ Works(q, u) THEN h[target].best ELSE 0
  <2>1. LargestCommonCache(q)
          = IF Works(q, CacheTarget(q.m)) THEN CacheTarget(q.m)
            ELSE IF q.m.nUsed < CacheTarget(q.m) /\ Works(q, q.m.nUsed)
                 THEN SearchOf(q)[CacheTarget(q.m)].best ELSE 0
    BY Zenon DEF LargestCommonCache, SearchOf
  <2>2. QED BY <1>1, <1>2, <2>1
<1>5. \A x : x \in Larger(s + 1, u)..target => x \in Nat /\ s < x /\ u <= x /\ x <= target
  BY <1>3 DEF Larger
<1>6. CASE Works(q, target)
  <2>1. s = target
    BY <1>4, <1>6
  <2>2. \A x \in Larger(s + 1, u)..target : FALSE
    BY <1>5, <2>1
  <2>3. QED BY <1>1, <1>6, <2>1, <2>2
<1>7. CASE ~Works(q, target) /\ u < target /\ Works(q, u)
  <2> DEFINE T == [k \in 0..target |-> {x \in Sizes : Searching(q, target, k, x)}]
  <2>1. h[0] \in T[0]
    <3>1. h[0].lo = u + 1 /\ h[0].hi = target - 1 /\ h[0].best = u /\ h[0] \in Sizes
      <4>1. PICK a, b : a = u + 1 /\ b = target - 1
        OBVIOUS
      <4>2. h[0] = [lo |-> a, hi |-> b, best |-> u]
        BY <1>3, <4>1
      <4>3. QED BY <1>3, <4>1, <4>2
    <3>2. \A x \in (target - 1 + 1)..target : Feasible(q, x) = {}
      <4>1. \A x \in (target - 1 + 1)..target : x \in Nat /\ target <= x
        OBVIOUS
      <4>2. QED BY <1>7, <4>1, NothingToFind
    <3>3. (target - 1) - (u + 1) + 1 <= target - 0 /\ u <= u
      OBVIOUS
    <3>4. Searching(q, target, 0, h[0])
      BY <1>1, <1>7, <3>1, <3>2, <3>3 DEF Searching
    <3>5. QED BY <3>1, <3>4
  <2>2. ASSUME NEW k \in 1..target, h[k - 1] \in T[k - 1] PROVE h[k] \in T[k]
    <3>1. k - 1 \in 0..target /\ k \in 0..target
      OBVIOUS
    <3>2. Searching(q, target, k - 1, h[k - 1])
      BY <2>2, <3>1
    <3>3. Searching(q, target, k, h[k])
      BY <1>3, <3>2, SearchStep
    <3>4. QED BY <1>3, <3>1, <3>3
  <2>3. \A k \in 0..target : h[k] \in T[k]
    <3> HIDE DEF T
    <3>1. QED BY <2>1, <2>2, Rising
  <2>4. PICK z : z = h[target]
    OBVIOUS
  <2>5. Searching(q, target, target, z) /\ z \in Sizes
    <3>1. target \in 0..target
      OBVIOUS
    <3>2. QED BY <2>3, <2>4, <3>1
  <2>6. s = z.best
    BY <1>4, <1>7, <2>4
  <2>7. PICK lo \in Nat, hi \in Int : lo = z.lo /\ hi = z.hi
    BY <2>5 DEF Sizes
  <2>8. /\ lo = s + 1 /\ Works(q, s) /\ u <= s
        /\ \A x \in (hi + 1)..target : Feasible(q, x) = {}
        /\ lo > hi \/ hi - lo + 1 <= target - target
    BY <1>1, <2>5, <2>6, <2>7 DEF Searching
  <2>9. hi <= s
    BY <1>3, <2>8
  <2>10. \A x \in Larger(s + 1, u)..target : x \in (hi + 1)..target
    BY <1>3, <1>5, <2>9
  <2>11. QED BY <1>1, <2>8, <2>10
<1>8. CASE ~Works(q, target) /\ ~(u < target /\ Works(q, u))
  <2>1. s = 0
    BY <1>4, <1>8
  <2>2. ASSUME NEW x \in Larger(s + 1, u)..target PROVE Feasible(q, x) = {}
    <3>1. x \in Nat /\ u <= x /\ x <= target
      BY <1>5
    <3>2. CASE u < target
      BY <1>8, <3>1, <3>2, NothingToFind
    <3>3. CASE ~(u < target)
      <4>1. target <= x
        BY <3>1, <3>3
      <4>2. QED BY <1>8, <3>1, <4>1, NothingToFind
    <3>4. QED BY <3>2, <3>3
  <2>3. QED BY <1>1, <2>1, <2>2
<1>9. QED BY <1>6, <1>7, <1>8

\* No placement is better than a plan for a cluster, and none is possible when the plan is to
\* refuse.
Unbeaten(q, p) ==
    /\ p.kind = "refuse" /\ Placeable(q) => Feasible(q, 0) = {}
    /\ p.kind = "cluster" /\ p.ranges # <<>> =>
          /\ p.order = q.order
          /\ \A c \in Feasible(q, p.slots) : SumSeq(p.ramOf) <= LeastRamOf(q, c, p.slots)
          /\ \A x \in Larger(p.slots + 1, q.m.nUsed)..CacheTarget(q.m) : Feasible(q, x) = {}

\* No placement is better than the exact plan.
LEMMA ExactBest ==
    ASSUME NEW n \in Nat \ {0}, NEW q, OfPlacing(q, n), NEW why, NEW gpu, NEW p,
           p = PlaceExactly(q, why, gpu)
    PROVE  (p.kind = "refuse" \/ p.kind = "cluster") /\ Unbeaten(q, p)
<1>1. PICK slotted \in Nat : slotted = LargestCommonCache(q)
  BY CacheIs
<1>2. PICK r : r = TryRanges(q, slotted)
  OBVIOUS
<1>3. CASE r = <<>>
  <2>1. p.kind = "refuse"
    BY <1>1, <1>2, <1>3, NoneFound
  <2>2. ASSUME Placeable(q) PROVE Feasible(q, 0) = {}
    <3>1. ~Works(q, slotted)
      BY <1>2, <1>3 DEF Works
    <3>2. slotted # 0 => Works(q, slotted)
      BY <1>1, <2>2, CacheIsLargest
    <3>3. slotted = 0
      BY <3>1, <3>2
    <3>4. ~Works(q, 0)
      BY <3>1, <3>3
    <3>5. 0 \in Nat /\ 0 <= 0
      OBVIOUS
    <3>6. QED BY <2>2, <3>4, <3>5, NothingToFind
  <2>3. QED BY <2>1, <2>2 DEF Unbeaten
<1>4. CASE r # <<>>
  <2>1. Placeable(q) /\ r = Ranges(q, slotted)
    BY <1>2, <1>4 DEF TryRanges
  <2>2. PICK ram : ram = [i \in 1..n |-> SumOver(q.m.experts, r[i].lo + 1, r[i].spillEnd)]
    OBVIOUS
  <2>3. p.kind = "cluster" /\ p.order = q.order /\ p.slots = slotted /\ p.ranges = r /\ p.ramOf = ram
    <3>1. DOMAIN q.nodes = 1..n
      BY PlacingIs
    <3>2. /\ p.kind = "cluster" /\ p.order = q.order /\ p.ranges = r /\ p.slots = slotted
          /\ p.gpuOf = [i \in DOMAIN q.nodes |-> OnGpu(q, i, r[i].lo, r[i].hi, r[i].spillEnd)]
          /\ p.ramOf = [i \in DOMAIN q.nodes |-> SumOver(q.m.experts, r[i].lo + 1, r[i].spillEnd)]
      BY <1>1, <1>2, <1>4, ExactIs
    <3>3. QED BY <2>2, <3>1, <3>2
  <2>4. ASSUME NEW c \in Feasible(q, slotted) PROVE SumSeq(ram) <= LeastRamOf(q, c, slotted)
    <3>1. PICK y : y = Table(q, slotted)[n][NumBlocks(q.m)].cost
      OBVIOUS
    <3>2. PICK z : z = LeastRamOf(q, c, slotted)
      OBVIOUS
    <3>3. SumSeq(ram) = y
      BY <1>4, <2>1, <2>2, <3>1, RangesCost
    <3>4. y \in 0..z
      BY <3>1, <3>2, Covered
    <3>5. QED BY <3>2, <3>3, <3>4
  <2>5. \A x \in Larger(slotted + 1, q.m.nUsed)..CacheTarget(q.m) : Feasible(q, x) = {}
    BY <1>1, <2>1, CacheIsLargest
  <2>6. p.kind # "refuse"
    BY <2>3
  <2>7. QED BY <2>3, <2>4, <2>5, <2>6, Zenon DEF Unbeaten
<1>5. QED BY <1>3, <1>4

\* The split by ratio is a plan without ranges, or the exact plan.
LEMMA SplitBest ==
    ASSUME NEW n \in Nat \ {0}, NEW q, OfPlacing(q, n), NEW need, NEW drift,
           NEW p, p = SplitByRatio(q, need, drift)
    PROVE  (p.kind = "refuse" \/ p.kind = "cluster") /\ Unbeaten(q, p)
<1>1. PICK bytes : bytes = [i \in DOMAIN q.nodes |->
                              FixedOf(q, i) + WithRemainder(q, WholeShares(q, drift))[i]]
  OBVIOUS
<1>2. PICK why : why = TooShort(q, need, bytes)
  OBVIOUS
<1>3. p = ByRatio(q, need, why, bytes)
  BY <1>1, <1>2, Zenon DEF SplitByRatio
<1>4. CASE why # ""
  <2>1. p = PlaceExactly(q, why, need)
    BY <1>3, <1>4, Zenon DEF ByRatio
  <2>2. QED BY <2>1, ExactBest
<1>5. CASE why = ""
  <2>1. PICK c1, c2, c3, c4, c5, c6, c8, c9, c12 :
          /\ c1 = "cluster" /\ c2 = "ratio" /\ c3 = q.order /\ c4 = <<>> /\ c5 = 0
          /\ c6 = Filled(q).num /\ c8 = [i \in DOMAIN q.nodes |-> 0]
          /\ c9 = FALSE /\ c12 = q.hostRam
    OBVIOUS
  <2>2. p = [kind |-> c1, why |-> c2, order |-> c3, ranges |-> c4, slots |-> c5, shares |-> c6,
             gpuOf |-> bytes, ramOf |-> c8, hybrid |-> c9, headLocal |-> c9, gpu |-> need,
             ram |-> c12]
    BY <1>3, <1>5, <2>1, Zenon DEF ByRatio
  <2>3. p.kind = c1 /\ p.ranges = c4
    BY <2>2, PlanIs
  <2>4. p.kind = "cluster" /\ p.kind # "refuse" /\ p.ranges = <<>>
    BY <2>1, <2>3
  <2>5. QED BY <2>4 DEF Unbeaten
<1>6. QED BY <1>4, <1>5

-----------------------------------------------------------------------------
(* No prefix of one machine's blocks has room for a larger cache than the one found. *)

\* Without a slot there is no expert.
LEMMA NoSlots ==
    ASSUME NEW m, OfModel(m), BucketsConsistent(m), NEW p \in 0..NumBlocks(m),
           Geometry(m, 0, p).slot = 0
    PROVE  SumOver(m.experts, 1, p) = 0
<1>1. PICK L \in Nat : L = NumBlocks(m)
  BY FieldsAre
<1>2. PICK w \in Seq(Nat), e \in Seq(Nat) : w = m.slot /\ e = m.experts /\ Len(w) = L /\ Len(e) = L
  BY <1>1, FieldsAre
<1>3. \A l \in 1..L : w[l] = 0 => e[l] = 0
  <2>1. ASSUME NEW l \in 1..L, w[l] = 0 PROVE e[l] = 0
    <3>1. GeometrySound(m, l)
      BY <1>1, <2>1 DEF BucketsConsistent, NumBlocks
    <3>2. 0 \in {m.slot[l], m.tensor[l], m.count[l]}
      BY <1>2, <2>1
    <3>3. QED BY <1>2, <3>1, <3>2 DEF GeometrySound
  <2>2. QED BY <2>1
<1>4. w \in Seq(Int) /\ e \in Seq(Int) /\ p \in 0..L
  BY <1>1, <1>2
<1>5. SumOver(w, 1, p) = 0
  <2>1. Geometry(m, 0, p).slot = SumOver(m.slot, 0 + 1, p)
    BY DEF Geometry
  <2>2. QED BY <1>2, <2>1
<1>6. \A k \in 0..p : SumOver(w, 1, k) = 0
  <2>1. ASSUME NEW k \in 0..p PROVE SumOver(w, 1, k) = 0
    <3>1. 0 \in 0..Len(w) /\ p \in 0..Len(w) /\ 0 + 1 = 1 /\ k \in 0..Len(w)
      BY <1>2, <1>4
    <3>2. SumOver(w, 0 + 1, k) <= SumOver(w, 0 + 1, p)
      BY <3>1, SumsRise
    <3>3. SumOver(w, 1, k) \in Nat
      BY <3>1, SumIsNat
    <3>4. QED BY <1>5, <3>1, <3>2, <3>3
  <2>2. QED BY <2>1
<1> DEFINE f == [k \in 0..p |-> SumOver(e, 1, k)]
<1> DEFINE T == [k \in 0..p |-> {0}]
<1>7. f[0] \in T[0]
  BY <1>4, SumSeqIs
<1>8. ASSUME NEW k \in 1..p, f[k - 1] \in T[k - 1] PROVE f[k] \in T[k]
  <2>1. k \in 1..L /\ k \in 0..p /\ k - 1 \in 0..p
    BY <1>4
  <2>2. SumOver(w, 1, k) = SumOver(w, 1, k - 1) + w[k] /\ SumOver(e, 1, k) = SumOver(e, 1, k - 1) + e[k]
    BY <1>2, <1>4, <2>1, SumSeqIs
  <2>3. w[k] \in Nat
    BY <1>2, <2>1
  <2>4. w[k] = 0
    BY <1>6, <2>1, <2>2, <2>3
  <2>5. e[k] = 0
    BY <1>3, <2>1, <2>4
  <2>6. SumOver(e, 1, k - 1) = 0
    BY <1>8, <2>1
  <2>7. QED BY <2>1, <2>2, <2>5, <2>6
<1>9. \A k \in 0..p : f[k] \in T[k]
  <2>1. p \in Nat
    BY <1>4
  <2> HIDE DEF f, T
  <2>2. QED BY <1>7, <1>8, <2>1, Rising
<1>10. QED BY <1>2, <1>4, <1>9

\* What is no less than so many times a divisor holds it that often.
LEMMA Quotient ==
    ASSUME NEW a \in Int, NEW w \in Nat \ {0}, NEW s \in Nat, w * s <= a
    PROVE  s <= a \div w
<1>1. PICK d \in Int : d = a \div w
  OBVIOUS
<1>2. PICK x \in Int : x = w * d
  OBVIOUS
<1>3. x <= a /\ a < x + w
  BY <1>1, <1>2
<1>4. ASSUME d < s PROVE FALSE
  <2>1. PICK k \in Nat : s = d + 1 + k
    <3>1. s - d - 1 \in Nat /\ s = d + 1 + (s - d - 1)
      BY <1>4
    <3>2. QED BY <3>1
  <2>2. w * s = x + w + w * k /\ w * k \in Nat
    BY <1>2, <2>1
  <2>3. QED BY <1>3, <2>2
<1>5. QED BY <1>1, <1>4

\* A prefix says of a cache there is room for that it is no larger than its own.
LEMMA RoomIs ==
    ASSUME NEW m, OfModel(m), NEW need \in Int, NEW usable \in Int, NEW p \in 1..NumBlocks(m)
    PROVE  /\ PrefixGpu(m, need, p) \in Nat
           /\ PrefixRoom(m, need, usable, p) \in 0..CacheTarget(m)
           /\ \A s \in 1..CacheTarget(m) :
                 /\ m.nUsed <= s /\ Geometry(m, 0, p).slot > 0
                 /\ PrefixGpu(m, need, p) + CacheNeed(Geometry(m, 0, p), s) <= usable
                 => s <= PrefixRoom(m, need, usable, p)
<1>1. PICK L \in Nat : L = NumBlocks(m)
  BY FieldsAre
<1>2. p \in 0..L /\ 0 \in 0..L
  BY <1>1
<1>3. PICK u \in Nat, target \in Nat : u = m.nUsed /\ target = CacheTarget(m)
  BY TargetIs
<1>4. PICK g : g = Geometry(m, 0, p)
  OBVIOUS
<1>5. PICK w \in Nat, st \in Nat, fixed \in Nat : w = g.slot /\ st = Staging(g) /\ fixed = CacheFixed(g)
  BY <1>1, <1>2, <1>4, GeometryIs
<1>6. PICK r \in Nat : r = SumOver(m.experts, 1, p)
  <2>1. PICK e \in Seq(Nat) : e = m.experts /\ Len(e) = L
    BY <1>1, FieldsAre
  <2>2. SumOver(e, 1, p) \in Nat
    BY <1>2, <2>1, SumIsNat
  <2>3. QED BY <2>1, <2>2
<1>7. PICK gpu \in Nat : gpu = PrefixGpu(m, need, p)
  <2>1. PrefixGpu(m, need, p) = Floor0(need - r) + st
    BY <1>4, <1>5, <1>6 DEF PrefixGpu
  <2>2. Floor0(need - r) \in Nat
    BY DEF Floor0
  <2>3. QED BY <2>1, <2>2
<1>8. PICK free \in Int : free = usable - gpu - fixed
  OBVIOUS
<1>9. PICK room \in Nat : room = IF w > 0 /\ free > 0 THEN free \div w ELSE 0
  <2>1. w > 0 /\ free > 0 => free \div w \in Nat
    OBVIOUS
  <2>2. QED BY <2>1
<1>10. PrefixRoom(m, need, usable, p) = IF room < u THEN 0 ELSE Smaller(room, target)
  BY <1>3, <1>4, <1>5, <1>7, <1>8, <1>9, Zenon DEF PrefixRoom
<1>11. PrefixRoom(m, need, usable, p) \in 0..target
  BY <1>10 DEF Smaller
<1>12. ASSUME NEW s \in 1..target, u <= s, w > 0, gpu + CacheNeed(g, s) <= usable
       PROVE  s <= PrefixRoom(m, need, usable, p)
  <2>1. w * s \in Nat
    OBVIOUS
  <2>2. PICK x \in Nat : x = w * s
    BY <2>1
  <2>3. CacheNeed(g, s) = fixed + x
    BY <1>5, <2>2 DEF CacheNeed
  <2>4. x <= free
    BY <1>8, <1>12, <2>3
  <2>5. x > 0
    <3>1. PICK a \in Nat, b \in Nat : w = a + 1 /\ s = b + 1
      <4>1. w - 1 \in Nat /\ s - 1 \in Nat /\ w = (w - 1) + 1 /\ s = (s - 1) + 1
        BY <1>12
      <4>2. QED BY <4>1
    <3>2. x = a * b + a + b + 1 /\ a * b \in Nat
      BY <2>2, <3>1
    <3>3. QED BY <3>2
  <2>6. s <= free \div w
    BY <1>12, <2>2, <2>4, Quotient
  <2>7. s <= room
    BY <1>9, <1>12, <2>4, <2>5, <2>6
  <2>8. QED BY <1>10, <1>12, <2>7 DEF Smaller
<1>13. QED BY <1>3, <1>4, <1>5, <1>7, <1>11, <1>12

\* What one prefix more changes in the scan.
Advanced(s, at, k, target, t) ==
    /\ s.done \/ ~at.onGpu => t = s
    /\ ~s.done /\ at.onGpu /\ ~at.inRam => t.blocks = s.blocks /\ t.slots = s.slots
    /\ ~s.done /\ at.onGpu /\ at.inRam =>
          /\ s.blocks = 0 \/ at.slots > s.slots => t.blocks = k /\ t.slots = at.slots
          /\ ~(s.blocks = 0 \/ at.slots > s.slots) => t.blocks = s.blocks /\ t.slots = s.slots
          /\ t.done => t.slots = target

LEMMA AdvancedIs ==
    ASSUME NEW U, NEW N, NEW s \in [blocks : N, slots : U, short : N, done : BOOLEAN],
           NEW at, NEW k, NEW target
    PROVE  Advanced(s, at, k, target, NextPrefix(s, at, k, target))
<1>0. PICK t : t = NextPrefix(s, at, k, target)
  OBVIOUS
<1>1. ASSUME s.done \/ ~at.onGpu PROVE t = s
  BY <1>0, <1>1, Zenon DEF NextPrefix
<1>2. ASSUME ~s.done, at.onGpu, ~at.inRam PROVE t.blocks = s.blocks /\ t.slots = s.slots
  <2>1. t = [s EXCEPT !.short = k, !.done = TRUE]
    BY <1>0, <1>2, Zenon DEF NextPrefix
  <2>2. [s EXCEPT !.short = k, !.done = TRUE].blocks = s.blocks
        /\ [s EXCEPT !.short = k, !.done = TRUE].slots = s.slots
    OBVIOUS
  <2>3. QED BY <2>1, <2>2, Zenon
<1>3. ASSUME ~s.done, at.onGpu, at.inRam
      PROVE  /\ s.blocks = 0 \/ at.slots > s.slots => t.blocks = k /\ t.slots = at.slots
             /\ ~(s.blocks = 0 \/ at.slots > s.slots) => t.blocks = s.blocks /\ t.slots = s.slots
             /\ t.done => t.slots = target
  <2>1. PICK few : few = at.slots
    OBVIOUS
  <2>2. PICK u : u = IF s.blocks = 0 \/ few > s.slots
                     THEN [s EXCEPT !.blocks = k, !.slots = few] ELSE s
    OBVIOUS
  <2>3. PICK b \in BOOLEAN : b = (u.slots = target)
    OBVIOUS
  <2>4. t = [u EXCEPT !.done = b]
    <3>1. t = [u EXCEPT !.done = u.slots = target]
      BY <1>0, <1>3, <2>1, <2>2, Zenon DEF NextPrefix
    <3>2. QED BY <2>3, <3>1, Zenon
  <2>5. /\ s.blocks = 0 \/ few > s.slots => u.blocks = k /\ u.slots = few
        /\ ~(s.blocks = 0 \/ few > s.slots) => u = s
        /\ DOMAIN u = {"blocks", "slots", "short", "done"}
    BY <2>2
  <2>6. t.blocks = u.blocks /\ t.slots = u.slots /\ t.done = b
    BY <2>4, <2>5
  <2>7. b => u.slots = target
    BY <2>3, Zenon
  <2>8. t.done => t.slots = target
    BY <2>6, <2>7, Zenon
  <2>9. QED BY <2>1, <2>5, <2>6, <2>8, Zenon
<1>4. QED BY <1>0, <1>1, <1>2, <1>3, Zenon DEF Advanced

\* What the scan has seen after k prefixes: none of those that fit has room for a larger cache
\* than it keeps, and once it is done none that comes will.
Scanned(m, need, usable, cap, k, s) ==
    /\ s.slots \in 0..CacheTarget(m)
    /\ s.blocks = 0 => s.slots = 0
    /\ s.done => s.slots = CacheTarget(m) \/ \E j \in 1..k : SumOver(m.experts, 1, j) > cap
    /\ \A p \in 1..k : PrefixGpu(m, need, p) <= usable /\ SumOver(m.experts, 1, p) <= cap =>
           PrefixRoom(m, need, usable, p) <= s.slots

\* A prefix more keeps that.
LEMMA ScanStep ==
    ASSUME NEW m, OfModel(m), NEW need \in Int, NEW usable \in Int, NEW cap \in Int,
           NEW k \in 1..NumBlocks(m), NEW s \in Scans(m, need, usable, cap),
           Scanned(m, need, usable, cap, k - 1, s), NEW t,
           t = NextPrefix(s, PrefixAt(m, need, usable, cap, k), k, CacheTarget(m))
    PROVE  Scanned(m, need, usable, cap, k, t)
<1>1. PICK L \in Nat : L = NumBlocks(m)
  BY FieldsAre
<1>2. PICK target \in Nat : target = CacheTarget(m)
  BY TargetIs
<1>3. PICK at : at = PrefixAt(m, need, usable, cap, k)
  OBVIOUS
<1>4. PICK room \in 0..target : room = PrefixRoom(m, need, usable, k)
  BY <1>2, RoomIs
<1>5. PICK gpu \in Nat : gpu = PrefixGpu(m, need, k)
  BY RoomIs
<1>6. PICK e \in Seq(Nat) : e = m.experts /\ Len(e) = L
  BY <1>1, FieldsAre
<1>7. PICK r \in Nat : r = SumOver(m.experts, 1, k) /\ \A j \in 1..k : SumOver(m.experts, 1, j) <= r
  <2>1. k \in 0..Len(e) /\ 0 \in 0..Len(e) /\ 0 + 1 = 1
    BY <1>1, <1>6
  <2>2. SumOver(e, 1, k) \in Nat
    BY <2>1, SumIsNat
  <2>3. ASSUME NEW j \in 1..k PROVE SumOver(e, 1, j) <= SumOver(e, 1, k)
    <3>1. j \in 0..k
      OBVIOUS
    <3>2. SumOver(e, 0 + 1, j) <= SumOver(e, 0 + 1, k)
      BY <2>1, <3>1, SumsRise
    <3>3. QED BY <2>1, <3>2
  <2>4. QED BY <1>6, <2>2, <2>3
<1>8. PICK c3 \in BOOLEAN, c4 \in BOOLEAN : c3 = (gpu <= usable) /\ c4 = (r <= cap)
  <2>1. (gpu <= usable) \in BOOLEAN /\ (r <= cap) \in BOOLEAN
    OBVIOUS
  <2>2. QED BY <2>1, Zenon
<1>9. at.onGpu = c3 /\ at.inRam = c4 /\ at.slots = room
  <2>1. PrefixOf(at, m, need, usable, cap, k)
    BY <1>3, PrefixIs
  <2>2. QED BY <1>4, <1>5, <1>7, <1>8, <2>1, Zenon DEF PrefixOf
<1>10. PICK N, U : s \in [blocks : N, slots : U, short : N, done : BOOLEAN]
  <2>1. PICK V : V = Slotted(m, need, usable, cap)
    OBVIOUS
  <2>2. s \in [blocks : 0..L, slots : V, short : 0..L, done : BOOLEAN]
    BY <1>1, <2>1, Zenon DEF Scans
  <2>3. QED BY <2>2, Zenon
<1>11. Advanced(s, at, k, target, t)
  <2>1. t = NextPrefix(s, at, k, target)
    BY <1>2, <1>3
  <2>2. Advanced(s, at, k, target, NextPrefix(s, at, k, target))
    BY <1>10, AdvancedIs
  <2>3. QED BY <2>1, <2>2, Zenon
<1>12. PICK slotted \in 0..target : slotted = s.slots
  BY <1>2 DEF Scanned
<1>13. /\ s.blocks = 0 => slotted = 0
       /\ s.done => slotted = target \/ \E j \in 1..(k - 1) : SumOver(m.experts, 1, j) > cap
       /\ \A p \in 1..(k - 1) : PrefixGpu(m, need, p) <= usable /\ SumOver(m.experts, 1, p) <= cap =>
             PrefixRoom(m, need, usable, p) <= slotted
  BY <1>2, <1>12 DEF Scanned
<1>14. \A p \in 1..k : p = k \/ p \in 1..(k - 1)
  OBVIOUS
<1>15. \A p \in 1..(k - 1) : p \in 1..k /\ PrefixRoom(m, need, usable, p) \in 0..target
                             /\ SumOver(m.experts, 1, p) \in Nat
  <2>1. ASSUME NEW p \in 1..(k - 1)
        PROVE  p \in 1..k /\ PrefixRoom(m, need, usable, p) \in 0..target /\ SumOver(m.experts, 1, p) \in Nat
    <3>1. p \in 1..NumBlocks(m) /\ p \in 1..k /\ p \in 0..Len(e)
      BY <1>1, <1>6
    <3>2. SumOver(e, 1, p) \in Nat
      BY <3>1, SumIsNat
    <3>3. QED BY <1>2, <1>6, <3>1, <3>2, RoomIs
  <2>2. QED BY <2>1
<1>16. CASE s.done \/ ~c3
  <2>1. t = s
    BY <1>9, <1>11, <1>16, Zenon DEF Advanced
  <2>2. gpu <= usable /\ r <= cap => room <= slotted
    <3>1. ASSUME gpu <= usable, r <= cap PROVE room <= slotted
      <4>1. s.done
        BY <1>8, <1>16, <3>1, Zenon
      <4>2. ASSUME NEW j \in 1..(k - 1), SumOver(m.experts, 1, j) > cap PROVE FALSE
        <5>1. PICK x \in Nat : x = SumOver(m.experts, 1, j) /\ x <= r
          BY <1>7, <1>15
        <5>2. QED BY <3>1, <4>2, <5>1
      <4>3. slotted = target
        BY <1>13, <4>1, <4>2
      <4>4. QED BY <4>3
    <3>2. QED BY <3>1
  <2>3. \A p \in 1..k : PrefixGpu(m, need, p) <= usable /\ SumOver(m.experts, 1, p) <= cap =>
           PrefixRoom(m, need, usable, p) <= slotted
    BY <1>4, <1>5, <1>7, <1>13, <1>14, <2>2
  <2>4. s.done => slotted = target \/ \E j \in 1..k : SumOver(m.experts, 1, j) > cap
    BY <1>13, <1>15
  <2>5. QED BY <1>2, <1>12, <1>13, <2>1, <2>3, <2>4 DEF Scanned
<1>17. CASE ~s.done /\ c3 /\ ~c4
  <2>1. t.blocks = s.blocks /\ t.slots = s.slots
    BY <1>9, <1>11, <1>17, Zenon DEF Advanced
  <2>2. ~(r <= cap)
    BY <1>8, <1>17, Zenon
  <2>3. \E j \in 1..k : SumOver(m.experts, 1, j) > cap
    BY <1>7, <2>2
  <2>4. \A p \in 1..k : PrefixGpu(m, need, p) <= usable /\ SumOver(m.experts, 1, p) <= cap =>
           PrefixRoom(m, need, usable, p) <= slotted
    BY <1>7, <1>13, <1>14, <2>2
  <2>5. QED BY <1>2, <1>12, <1>13, <2>1, <2>3, <2>4 DEF Scanned
<1>18. CASE ~s.done /\ c3 /\ c4
  <2>1. /\ s.blocks = 0 \/ at.slots > s.slots => t.blocks = k /\ t.slots = at.slots
        /\ ~(s.blocks = 0 \/ at.slots > s.slots) => t.blocks = s.blocks /\ t.slots = s.slots
        /\ t.done => t.slots = target
    BY <1>9, <1>11, <1>18, Zenon DEF Advanced
  <2>2. PICK kept \in 0..target : kept = t.slots
    BY <1>9, <1>12, <2>1
  <2>3. room <= kept /\ slotted <= kept
    BY <1>9, <1>12, <1>13, <2>1, <2>2
  <2>4. t.blocks = 0 => kept = 0
    BY <1>9, <1>12, <1>13, <2>1, <2>2
  <2>5. \A p \in 1..k : PrefixGpu(m, need, p) <= usable /\ SumOver(m.experts, 1, p) <= cap =>
           PrefixRoom(m, need, usable, p) <= kept
    <3>1. ASSUME NEW p \in 1..k, PrefixGpu(m, need, p) <= usable, SumOver(m.experts, 1, p) <= cap
          PROVE  PrefixRoom(m, need, usable, p) <= kept
      <4>1. CASE p = k
        BY <1>4, <2>3, <4>1
      <4>2. CASE p \in 1..(k - 1)
        <5>1. PICK x \in Nat : x = PrefixRoom(m, need, usable, p) /\ x <= slotted
          BY <1>13, <1>15, <3>1, <4>2
        <5>2. QED BY <2>3, <5>1
      <4>3. QED BY <1>14, <4>1, <4>2
    <3>2. QED BY <3>1
  <2>6. QED BY <1>2, <2>1, <2>2, <2>4, <2>5 DEF Scanned
<1>19. QED
  <2>1. s.done \in BOOLEAN
    BY <1>10
  <2>2. QED BY <1>16, <1>17, <1>18, <2>1, Zenon

\* When the scan ends it has seen every prefix.
LEMMA ScanSees ==
    ASSUME NEW m, OfModel(m), NEW need \in Int, NEW usable \in Int, NEW cap \in Int,
           NEW s, s = ScanPrefixes(m, need, usable, cap)
    PROVE  Scanned(m, need, usable, cap, NumBlocks(m), s) /\ s.blocks \in Nat
<1>1. PICK L \in Nat : L = NumBlocks(m)
  BY FieldsAre
<1>2. PICK h : h = ScanOf(m, need, usable, cap)
  OBVIOUS
<1>3. PICK D : D = Scans(m, need, usable, cap)
  OBVIOUS
<1>4. /\ s = h[L] /\ h[0] = NothingYet
      /\ \A k \in 1..L : h[k] = NextPrefix(h[k - 1], PrefixAt(m, need, usable, cap, k), k, CacheTarget(m))
      /\ \A k \in 0..L : h[k] \in D
  BY <1>1, <1>2, <1>3, ScanIs, Zenon
<1> DEFINE T == [k \in 0..L |-> {x \in D : Scanned(m, need, usable, cap, k, x)}]
<1>5. h[0] \in T[0]
  <2>1. PICK target \in Nat : target = CacheTarget(m)
    BY TargetIs
  <2>2. h[0] = NothingYet
    BY <1>4
  <2>3. h[0].slots = 0 /\ ~h[0].done
    BY <2>2 DEF NothingYet
  <2>4. \A p \in 1..0 : FALSE
    OBVIOUS
  <2>5. Scanned(m, need, usable, cap, 0, h[0])
    BY <2>1, <2>3, <2>4 DEF Scanned
  <2>6. 0 \in 0..L
    OBVIOUS
  <2>7. QED BY <1>4, <2>5, <2>6
<1>6. ASSUME NEW k \in 1..L, h[k - 1] \in T[k - 1] PROVE h[k] \in T[k]
  <2>1. k - 1 \in 0..L /\ k \in 0..L /\ k \in 1..NumBlocks(m)
    BY <1>1
  <2>2. h[k - 1] \in D /\ Scanned(m, need, usable, cap, k - 1, h[k - 1])
    BY <1>6, <2>1
  <2>3. PICK x \in Scans(m, need, usable, cap) : x = h[k - 1]
    BY <1>3, <2>2
  <2>4. PICK y : y = h[k]
    OBVIOUS
  <2>5. y = NextPrefix(x, PrefixAt(m, need, usable, cap, k), k, CacheTarget(m))
    BY <1>4, <2>3, <2>4
  <2>6. Scanned(m, need, usable, cap, k - 1, x)
    BY <2>2, <2>3
  <2>7. Scanned(m, need, usable, cap, k, y)
    BY <2>1, <2>5, <2>6, ScanStep
  <2>8. QED BY <1>4, <2>1, <2>4, <2>7
<1>7. \A k \in 0..L : h[k] \in T[k]
  <2> HIDE DEF T
  <2>1. QED BY <1>5, <1>6, Rising
<1>8. L \in 0..L
  OBVIOUS
<1>9. s \in D /\ Scanned(m, need, usable, cap, L, s)
  BY <1>4, <1>7, <1>8
<1>10. s.blocks \in Nat
  <2>1. PICK V : V = Slotted(m, need, usable, cap)
    OBVIOUS
  <2>2. s \in [blocks : 0..L, slots : V, short : 0..L, done : BOOLEAN]
    BY <1>1, <1>3, <1>9, <2>1, Zenon DEF Scans
  <2>3. s.blocks \in 0..L
    BY <2>2
  <2>4. QED BY <2>3
<1>11. QED BY <1>1, <1>9, <1>10

\* A prefix has no room for a larger useful cache than so many slots.
NoRoom(m, need, usable, cap, slotted) ==
    \A s \in Larger(slotted + 1, m.nUsed)..CacheTarget(m), p \in 1..NumBlocks(m) :
        SumOver(m.experts, 1, p) <= cap =>
            PrefixGpu(m, need, p) + CacheNeed(Geometry(m, 0, p), s) > usable

\* One machine that cannot hold the model alone is given the largest cache there is room for.
LEMMA HybridBest ==
    ASSUME NEW m, OfModel(m), BucketsConsistent(m), NEW node \in NodeMem, NEW host \in Nat,
           NEW need \in Int, NEW usable \in Int, need > usable,
           NEW p, p = SingleHybrid(m, node, host, need, usable)
    PROVE  \/ p.kind = "refuse"
           \/ p.kind = "single" /\ NoRoom(m, need, usable, RamCap(LessHost(node, host)), p.slots)
<1>1. PICK cap \in Int : cap = RamCap(LessHost(node, host))
  BY CapIsInt
<1>2. PICK s : s = ScanPrefixes(m, need, usable, cap)
  OBVIOUS
<1>3. PICK L \in Nat : L = NumBlocks(m)
  BY FieldsAre
<1>4. Scanned(m, need, usable, cap, L, s) /\ s.blocks \in Nat
  BY <1>2, <1>3, ScanSees
<1>5. PICK at : at = PrefixAt(m, need, usable, cap, Chosen(s, L))
  OBVIOUS
<1>6. p = HybridOf(s, at, host)
  BY <1>1, <1>2, <1>3, <1>5, Zenon DEF SingleHybrid
<1>7. CASE s.blocks > 0
  <2>1. p.kind = "single" /\ p.slots = s.slots
    BY <1>4, <1>6, <1>7, HybridIs
  <2>2. PICK target \in Nat, u \in Nat : target = CacheTarget(m) /\ u = m.nUsed
    BY TargetIs
  <2>3. PICK slotted \in 0..target : slotted = s.slots
    BY <1>4, <2>2 DEF Scanned
  <2>4. ASSUME NEW x \in Larger(slotted + 1, m.nUsed)..target, NEW k \in 1..L,
               SumOver(m.experts, 1, k) <= cap
        PROVE  PrefixGpu(m, need, k) + CacheNeed(Geometry(m, 0, k), x) > usable
    <3>1. x \in 1..target /\ u <= x /\ slotted < x
      BY <2>2, <2>4 DEF Larger
    <3>2. k \in 1..NumBlocks(m) /\ k \in 0..NumBlocks(m) /\ 0 \in 0..NumBlocks(m)
      BY <1>3
    <3>3. PICK g \in Nat : g = PrefixGpu(m, need, k)
      BY <3>2, RoomIs
    <3>4. PICK room \in 0..target : room = PrefixRoom(m, need, usable, k)
      BY <2>2, <3>2, RoomIs
    <3>5. PICK c \in Nat : c = CacheNeed(Geometry(m, 0, k), x)
      BY <3>1, <3>2, GeometryIs
    <3>6. ASSUME g + c <= usable PROVE FALSE
      <4>1. g <= usable
        BY <3>6
      <4>2. room <= slotted
        BY <1>4, <2>3, <2>4, <3>3, <3>4, <4>1 DEF Scanned
      <4>3. PICK w \in Nat : w = Geometry(m, 0, k).slot
        BY <3>2, GeometryIs
      <4>4. CASE w > 0
        <5>1. x <= room
          <6>1. x \in 1..CacheTarget(m) /\ m.nUsed <= x
            BY <2>2, <3>1
          <6>2. PrefixGpu(m, need, k) + CacheNeed(Geometry(m, 0, k), x) <= usable
            BY <3>3, <3>5, <3>6
          <6>3. Geometry(m, 0, k).slot > 0
            BY <4>3, <4>4
          <6>4. x <= PrefixRoom(m, need, usable, k)
            BY <3>2, <6>1, <6>2, <6>3, RoomIs
          <6>5. QED BY <3>4, <6>4
        <5>2. QED BY <3>1, <4>2, <5>1
      <4>5. CASE w = 0
        <5>1. SumOver(m.experts, 1, k) = 0
          BY <3>2, <4>3, <4>5, NoSlots
        <5>2. PICK st \in Nat : st = Staging(Geometry(m, 0, k))
          BY <3>2, GeometryIs
        <5>3. g = Floor0(need - 0) + st
          BY <3>3, <5>1, <5>2 DEF PrefixGpu
        <5>4. need <= g
          BY <5>3 DEF Floor0
        <5>5. QED BY <4>1, <5>4
      <4>6. QED BY <4>4, <4>5
    <3>7. QED BY <3>3, <3>5, <3>6
  <2>5. NoRoom(m, need, usable, cap, slotted)
    BY <1>3, <2>2, <2>4 DEF NoRoom
  <2>6. QED BY <1>1, <2>1, <2>3, <2>5
<1>8. CASE s.blocks = 0
  BY <1>4, <1>6, <1>8, HybridIs
<1>9. QED BY <1>4, <1>7, <1>8

-----------------------------------------------------------------------------
(* No plan could have been better. *)

\* What BestPlacement says of the answer to a question about the engine.
EngineBest(a, p) ==
    /\ p.kind = "cluster" /\ p.ranges # <<>> =>
          LET q == Placing(a, p.order)
          IN  /\ \A c \in Feasible(q, p.slots) : SumSeq(p.ramOf) <= LeastRamOf(q, c, p.slots)
              /\ \A s \in Larger(p.slots + 1, M(a).nUsed)..CacheTarget(M(a)) : Feasible(q, s) = {}
    /\ p.kind = "refuse" /\ Len(Nodes(a)) > 1 /\ a.me.vram > 0
       /\ ComputeBytes(M(a), a.ctx, RosterBackend(Nodes(a))) > 0
       /\ MtpBytes(M(a), a.ctx, RosterBackend(Nodes(a))) # Unmeasured
       /\ a.me.ram >= HostRamOf(a) =>
          LET q == Placing(a, Order(Nodes(a), 1))
          IN  Placeable(q) => Feasible(q, 0) = {}
    /\ p.kind = "single" /\ p.why = "experts in RAM" =>
          \A s \in Larger(p.slots + 1, M(a).nUsed)..CacheTarget(M(a)), k \in 1..Blocks(a) :
              LET at == PrefixAt(M(a), Needed(M(a), a.ctx, 1, a.me.backend, FALSE), a.me.vram,
                                 RamCap(LessHost(a.me, HostRamOf(a))), k)
              IN  at.inRam => at.gpu + CacheNeed(Geometry(M(a), 0, k), s) > a.me.vram

\* Nothing better than what is decided for an engine could have been.
LEMMA BestOf ==
    ASSUME NEW a \in Questions, a.about = "engine",
           NEW p, p = Plan(M(a), Nodes(a), 1, a.ctx, a.force, a.drift)
    PROVE  EngineBest(a, p)
<1>1. /\ a.me \in NodeMem /\ a.workers \in Seq(NodeMem) /\ OfModel(M(a)) /\ a.ctx \in Nat
      /\ a.me.ram \in Nat /\ a.me.vram \in Nat
  <2>1. a.me \in NodeMem /\ a.workers \in Seq(NodeMem) /\ OfModel(M(a)) /\ a.ctx \in Nat
    BY QuestionIs
  <2>2. QED BY <2>1 DEF NodeMem
<1>2. PICK n \in Nat \ {0} : n = Len(a.workers) + 1
  BY <1>1
<1>3. Nodes(a) \in [1..n -> NodeMem] /\ Len(Nodes(a)) = n /\ Nodes(a)[1] = a.me
  BY <1>1, <1>2, RosterIs DEF Nodes
<1>4. PICK ram \in Nat : ram = HostRamOf(a)
  BY HostRamIs
<1>5. CASE Refused(a, p)
  <2>1. p.kind = "refuse"
    BY <1>5 DEF Refused
  <2>2. ~(/\ Len(Nodes(a)) > 1 /\ a.me.vram > 0
          /\ ComputeBytes(M(a), a.ctx, RosterBackend(Nodes(a))) > 0
          /\ MtpBytes(M(a), a.ctx, RosterBackend(Nodes(a))) # Unmeasured
          /\ a.me.ram >= HostRamOf(a))
    BY <1>1, <1>3, <1>4, <1>5 DEF Refused, Able
  <2>3. p.kind # "cluster" /\ p.kind # "single"
    BY <2>1
  <2>4. QED BY <2>2, <2>3, Zenon DEF EngineBest
<1>6. CASE Alone(a, p)
  <2>1. PICK c, why, z1, z2, need1 : c = "single" /\ why = "fits" /\ z1 = 0 /\ z2 = 0 /\ need1 = NeedOf(a, 1)
    OBVIOUS
  <2>2. p = [kind |-> c, why |-> why, blocks |-> z1, slots |-> z2, gpu |-> need1, ram |-> ram]
    BY <1>4, <1>6, <2>1, Zenon DEF Alone
  <2>3. p.kind = c /\ p.why = why
    BY <2>2, SingleIs
  <2>4. p.kind # "cluster" /\ p.kind # "refuse"
    BY <2>1, <2>3
  <2>5. p.why # "experts in RAM"
    BY <2>1, <2>3, Zenon
  <2>6. QED BY <2>4, <2>5, Zenon DEF EngineBest
<1>7. CASE Divided(a, p)
  <2>1. PICK o, q : o = Order(Nodes(a), 1) /\ q = Placing(a, o)
    OBVIOUS
  <2>2. o \in Orders(n)
    BY <1>3, <2>1, OrderIs
  <2>3. MtpBytes(M(a), a.ctx, RosterBackend(Nodes(a))) # Unmeasured /\ HostRamOf(a) <= a.me.ram
    BY <1>7 DEF Divided, Able
  <2>4. OfPlacing(q, n) /\ q.m = M(a) /\ q.order = o
    BY <1>2, <2>1, <2>2, <2>3, AskedIs
  <2>5. PICK need : need = NeedOf(a, n)
    OBVIOUS
  <2>6. p = SplitByRatio(q, need, a.drift)
    BY <1>3, <1>7, <2>1, <2>5, Zenon DEF Divided
  <2>7. (p.kind = "refuse" \/ p.kind = "cluster") /\ Unbeaten(q, p)
    BY <2>4, <2>6, SplitBest
  <2>8. p.kind # "single"
    BY <2>7
  <2>9. ASSUME p.kind = "cluster", p.ranges # <<>>
        PROVE  /\ Placing(a, p.order) = q
               /\ \A c \in Feasible(q, p.slots) : SumSeq(p.ramOf) <= LeastRamOf(q, c, p.slots)
               /\ \A s \in Larger(p.slots + 1, M(a).nUsed)..CacheTarget(M(a)) : Feasible(q, s) = {}
    <3>1. /\ p.order = q.order
          /\ \A c \in Feasible(q, p.slots) : SumSeq(p.ramOf) <= LeastRamOf(q, c, p.slots)
          /\ \A x \in Larger(p.slots + 1, q.m.nUsed)..CacheTarget(q.m) : Feasible(q, x) = {}
      BY <2>7, <2>9, Zenon DEF Unbeaten
    <3>2. Placing(a, p.order) = q
      BY <2>1, <2>4, <3>1
    <3>3. QED BY <2>4, <3>1, <3>2, Zenon
  <2>10. ASSUME p.kind = "refuse", Placeable(q) PROVE Feasible(q, 0) = {}
    BY <2>7, <2>10, Zenon DEF Unbeaten
  <2>11. QED BY <2>1, <2>8, <2>9, <2>10, Zenon DEF EngineBest
<1>8. CASE Stretched(a, p)
  <2>1. Len(Nodes(a)) = 1 /\ ~a.me.unified
    BY <1>8 DEF Stretched
  <2>2. PICK m : m = M(a) /\ OfModel(m)
    BY <1>1
  <2>3. PICK need : need = NeedOf(a, 1)
    OBVIOUS
  <2>4. need \in Int
    <3>1. RosterBackend(Nodes(a)) \in Backends
      BY <1>2, <1>3, BackendIs
    <3>2. MtpBytes(M(a), a.ctx, RosterBackend(Nodes(a))) # Unmeasured
      BY <1>8 DEF Stretched, Able
    <3>3. PICK b \in Backends, ctx \in Nat : b = RosterBackend(Nodes(a)) /\ ctx = a.ctx
      BY <1>1, <3>1
    <3>4. Needed(m, ctx, 1, b, a.me.unified) \in Int
      BY <2>2, <3>2, <3>3, NeededIs
    <3>5. QED BY <2>2, <2>3, <3>3, <3>4 DEF NeedOf
  <2>5. need = Needed(M(a), a.ctx, 1, a.me.backend, FALSE)
    <3>1. n = 1 /\ ~a.me.unified
      BY <1>3, <2>1
    <3>2. RosterBackend(Nodes(a)) = a.me.backend
      <4>1. \A i \in DOMAIN Nodes(a) : Nodes(a)[i].backend = Nodes(a)[1].backend
        BY <1>3, <3>1
      <4>2. RosterBackend(Nodes(a)) = Nodes(a)[1].backend
        BY <4>1, Zenon DEF RosterBackend
      <4>3. QED BY <1>3, <4>2
    <3>3. a.me.unified = FALSE
      BY <1>1, <3>1 DEF NodeMem
    <3>4. QED BY <2>3, <3>2, <3>3, Zenon DEF NeedOf
  <2>6. BucketsConsistent(m) /\ need > a.me.vram
    BY <1>8, <2>2, <2>3 DEF Stretched
  <2>7. p = SingleHybrid(m, a.me, ram, need, a.me.vram)
    BY <1>4, <1>8, <2>2, <2>3, Zenon DEF Stretched
  <2>8. PICK vram \in Int : vram = a.me.vram
    BY <1>1
  <2>9. PICK cap : cap = RamCap(LessHost(a.me, ram))
    OBVIOUS
  <2>10. p.kind = "refuse" \/ (p.kind = "single" /\ NoRoom(m, need, vram, cap, p.slots))
    <3>1. p = SingleHybrid(m, a.me, ram, need, vram) /\ need > vram
      BY <2>6, <2>7, <2>8
    <3>2. p.kind = "refuse" \/ (p.kind = "single" /\ NoRoom(m, need, vram, RamCap(LessHost(a.me, ram)), p.slots))
      BY <1>1, <2>2, <2>4, <2>6, <3>1, HybridBest
    <3>3. QED BY <2>9, <3>2
  <2>11. p.kind # "cluster" /\ ~(Len(Nodes(a)) > 1)
    <3>1. p.kind \in {"refuse", "single"}
      BY <2>10, Zenon
    <3>2. p.kind # "cluster"
      BY <3>1
    <3>3. Len(Nodes(a)) = 1
      BY <2>1, Zenon
    <3>4. QED BY <3>2, <3>3
  <2>12. ASSUME p.kind = "single",
                NEW s \in Larger(p.slots + 1, M(a).nUsed)..CacheTarget(M(a)), NEW k \in 1..Blocks(a),
                PrefixAt(M(a), need, a.me.vram, cap, k).inRam
         PROVE  PrefixAt(M(a), need, a.me.vram, cap, k).gpu + CacheNeed(Geometry(M(a), 0, k), s) > a.me.vram
    <3>1. PICK at : at = PrefixAt(m, need, vram, cap, k) /\ at = PrefixAt(M(a), need, a.me.vram, cap, k)
      BY <2>2, <2>8
    <3>2. PrefixOf(at, m, need, vram, cap, k)
      BY <3>1, PrefixIs
    <3>3. at.gpu = PrefixGpu(m, need, k) /\ SumOver(m.experts, 1, k) <= cap
      BY <2>12, <3>1, <3>2, Zenon DEF PrefixOf
    <3>4. NoRoom(m, need, vram, cap, p.slots)
      BY <2>10, <2>12
    <3>5. k \in 1..NumBlocks(m) /\ s \in Larger(p.slots + 1, m.nUsed)..CacheTarget(m)
      BY <2>2 DEF Blocks
    <3>6. PrefixGpu(m, need, k) + CacheNeed(Geometry(m, 0, k), s) > vram
      BY <3>3, <3>4, <3>5, Zenon DEF NoRoom
    <3>7. QED BY <2>2, <2>8, <3>1, <3>3, <3>6, Zenon
  <2>13. QED BY <1>4, <2>5, <2>9, <2>11, <2>12, Zenon DEF EngineBest
<1>9. QED BY <1>5, <1>6, <1>7, <1>8, Decided

\* The inductive invariant: a plan is the best answer to the question that was asked.
BestInv ==
    \/ component # "plan" /\ ask = Nothing /\ plan = Nothing
    \/ /\ ask \in Questions
       /\ plan = Nothing \/ (ask.about = "engine" /\ EngineBest(ask, plan)) \/ plan.kind = "layers"

\* A machine that decides starts with a question and no plan.
LEMMA BestStarts ==
    ASSUME MachineInit
    PROVE  BestInv
BY DEF MachineInit, StartInit, BestInv

\* A plan is made once, for the question.
LEMMA BestStepKeeps ==
    ASSUME BestInv, [MachineNext]_MachineVars
    PROVE  BestInv'
<1>1. CASE UNCHANGED startVars /\ UNCHANGED component
  BY <1>1 DEF BestInv, EngineBest, startVars
<1>2. CASE component = "plan" /\ component' = component /\ StartNext
  <2>1. /\ ask \in Questions
        /\ plan = Nothing \/ (ask.about = "engine" /\ EngineBest(ask, plan)) \/ plan.kind = "layers"
    BY <1>2 DEF BestInv
  <2>2. CASE Decide
    <3>1. /\ ask.about = "engine" /\ ask' = ask
          /\ plan' = Plan(M(ask), Nodes(ask), 1, ask.ctx, ask.force, ask.drift)
      BY <2>2 DEF Decide
    <3>2. EngineBest(ask, plan')
      BY <2>1, <3>1, BestOf
    <3>3. QED BY <2>1, <3>1, <3>2 DEF BestInv
  <2>3. CASE Start
    BY <2>1, <2>3 DEF Start, BestInv
  <2>4. CASE CountLayers
    <3>1. PICK c : c = PlanLayers(ask.layers, ask.vrams, ask.reserved, ask.perLayer, ask.multiple)
      OBVIOUS
    <3>2. ask' = ask /\ plan' = [kind |-> "layers", counts |-> c]
      BY <2>4, <3>1, Zenon DEF CountLayers
    <3>3. plan'.kind = "layers"
      BY <3>2
    <3>4. QED BY <2>1, <3>2, <3>3 DEF BestInv
  <2>5. QED BY <1>2, <2>2, <2>3, <2>4 DEF StartNext
<1>3. QED BY <1>1, <1>2 DEF MachineNext, MachineVars

\* Then no placement is better.
LEMMA BestInvIsEnough ==
    ASSUME BestInv
    PROVE  BestPlacement
<1>1. CASE plan = Nothing
  <2>1. plan.kind = "none"
    BY <1>1 DEF Nothing
  <2>2. plan.kind # "cluster" /\ plan.kind # "refuse" /\ plan.kind # "single"
    BY <2>1
  <2>3. QED BY <2>2, Zenon DEF BestPlacement, LeastRam, LargestCache, IsExact
<1>2. CASE EngineBest(ask, plan)
  BY <1>2, Zenon DEF EngineBest, BestPlacement, LeastRam, LargestCache, IsExact
<1>3. CASE plan.kind = "layers"
  <2>1. plan.kind # "cluster" /\ plan.kind # "refuse" /\ plan.kind # "single"
    BY <1>3
  <2>2. QED BY <2>1, Zenon DEF BestPlacement, LeastRam, LargestCache, IsExact
<1>4. QED BY <1>1, <1>2, <1>3 DEF BestInv

\* No placement the planner could have chosen is better than the one it chose: in every state of
\* a machine (try_cluster_moe_hybrid, moe_cache_reserve, the single machine's scan).
THEOREM PlacementIsBest == MachineSpec => []BestPlacement
<1>1. MachineInit => BestInv
  BY BestStarts
<1>2. BestInv /\ [MachineNext]_MachineVars => BestInv'
  BY BestStepKeeps
<1>3. BestInv => BestPlacement
  BY BestInvIsEnough
<1>4. QED BY <1>1, <1>2, <1>3, PTL DEF MachineSpec

=============================================================================
