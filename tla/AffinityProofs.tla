--------------------------- MODULE AffinityProofs ---------------------------
(***************************************************************************)
(* The affinity strategies, for any machine and any number of threads: the *)
(* maps and masks of the topology, the even distribution of createVector(), *)
(* the rounds of the core strategy, and what a call ends with.             *)
(***************************************************************************)
EXTENDS Affinity, FiniteSetTheorems, FunctionTheorems, TLAPS

\* What the proofs about createVector() show of Slot, and the least number of a set.
Vector == INSTANCE CreateVectorProofs WITH
            Sizes <- {}, nt <- 0, np <- 0, calls <- <<>>, procVect <- <<>>
-----------------------------------------------------------------------------
(* Orders: the elements of a finite set, in an order, are numbered.        *)

IsOrder(R, S) ==
  /\ \A x \in S : <<x, x>> \notin R
  /\ \A x, y \in S : x = y \/ <<x, y>> \in R \/ <<y, x>> \in R
  /\ \A x, y, z \in S : <<x, y>> \in R /\ <<y, z>> \in R => <<x, z>> \in R
\* The elements before x, and the number of them.
Before(S, R, x) == {y \in S : <<y, x>> \in R}
Rank(S, R) == [x \in S |-> Cardinality(Before(S, R, x))]

\* An element has as its rank the number of those before it.
LEMMA RankIsBijection ==
  ASSUME NEW S, IsFiniteSet(S), NEW R, IsOrder(R, S)
  PROVE  Rank(S, R) \in Bijection(S, 0 .. Cardinality(S) - 1)
<1>1. PICK n \in Nat : n = Cardinality(S)
  BY FS_CardinalityType
<1>2. ASSUME NEW x \in S
      PROVE  /\ IsFiniteSet(Before(S, R, x)) /\ Cardinality(Before(S, R, x)) \in 0 .. n - 1
  <2>1. Before(S, R, x) \in SUBSET (S \ {x})
    BY DEF Before, IsOrder
  <2>2. IsFiniteSet(S \ {x}) /\ Cardinality(S \ {x}) = n - 1
    BY <1>1, FS_RemoveElement
  <2>3. IsFiniteSet(Before(S, R, x)) /\ Cardinality(Before(S, R, x)) <= n - 1
    BY <2>1, <2>2, FS_Subset
  <2> QED BY <1>1, <2>3, FS_CardinalityType
<1>3. Rank(S, R) \in [S -> 0 .. n - 1]
  BY <1>2 DEF Rank
<1>4. ASSUME NEW x \in S, NEW y \in S, <<x, y>> \in R
      PROVE  Cardinality(Before(S, R, x)) < Cardinality(Before(S, R, y))
  <2>1. Before(S, R, x) \cup {x} \in SUBSET Before(S, R, y) /\ x \notin Before(S, R, x)
    BY <1>4 DEF Before, IsOrder
  <2>2. Cardinality(Before(S, R, x) \cup {x}) = Cardinality(Before(S, R, x)) + 1
    BY <1>2, <2>1, FS_AddElement
  <2>3. Cardinality(Before(S, R, x) \cup {x}) <= Cardinality(Before(S, R, y))
    BY <1>2, <2>1, FS_Subset
  <2> QED BY <1>2, <2>2, <2>3
<1>5. ASSUME NEW x \in S, NEW y \in S, Rank(S, R)[x] = Rank(S, R)[y] PROVE x = y
  <2>1. Cardinality(Before(S, R, x)) = Cardinality(Before(S, R, y))
    BY <1>5 DEF Rank
  <2>2. <<x, y>> \notin R /\ <<y, x>> \notin R
    BY <1>2, <1>4, <2>1
  <2> QED BY <2>2 DEF IsOrder
<1>6. Rank(S, R) \in Injection(S, 0 .. n - 1)
  BY <1>3, <1>5, Fun_IsInj
<1>7. IsFiniteSet(0 .. n - 1) /\ Cardinality(0 .. n - 1) = n
  <2>1. PICK m \in Int : m = n - 1
    OBVIOUS
  <2>2. IsFiniteSet(0 .. m) /\ Cardinality(0 .. m) = IF 0 > m THEN 0 ELSE m - 0 + 1
    BY FS_Interval
  <2>3. Cardinality(0 .. m) = n
    BY <2>1, <2>2
  <2> QED BY <2>1, <2>2, <2>3
<1>8. Rank(S, R) \in Surjection(S, 0 .. n - 1)
  BY <1>1, <1>6, <1>7, FS_Injection
<1> QED BY <1>1, <1>6, <1>8 DEF Bijection

\* So the list of the elements has each of them once.
LEMMA InOrderIsBijection ==
  ASSUME NEW S, IsFiniteSet(S), NEW R, IsOrder(R, S)
  PROVE  /\ InOrderOf(S, R) \in Bijection(1 .. Cardinality(S), S)
         /\ \A i \in 1 .. Cardinality(S) :
              Cardinality(Before(S, R, InOrderOf(S, R)[i])) = i - 1
<1>1. PICK n \in Nat : n = Cardinality(S)
  BY FS_CardinalityType
<1>2. PICK r : r = Rank(S, R)
  OBVIOUS
<1>3. r \in Bijection(S, 0 .. n - 1)
  BY <1>1, <1>2, RankIsBijection
<1>4. /\ \A x \in S : r[x] \in 0 .. n - 1 /\ r[x] = Cardinality({y \in S : <<y, x>> \in R})
      /\ \A x, y \in S : r[x] = r[y] => x = y
      /\ \A i \in 0 .. n - 1 : \E x \in S : r[x] = i
  BY <1>2, <1>3 DEF Bijection, Injection, Surjection, IsInjective, Rank, Before
<1>5. PICK f : f = InOrderOf(S, R)
  OBVIOUS
<1>6. DOMAIN f = 1 .. n /\ f = [i \in 1 .. n |-> f[i]]
  <2> DEFINE e(i) == CHOOSE x \in S : Cardinality({y \in S : <<y, x>> \in R}) = i - 1
  <2>1. f = [i \in 1 .. n |-> e(i)]
    BY <1>1, <1>5 DEF InOrderOf
  <2> HIDE DEF e
  <2> QED BY <2>1
<1>7. ASSUME NEW i \in 1 .. n
      PROVE  f[i] \in S /\ r[f[i]] = i - 1 /\ Cardinality(Before(S, R, f[i])) = i - 1
  <2>1. f[i] = CHOOSE x \in S : Cardinality({y \in S : <<y, x>> \in R}) = i - 1
    BY <1>1, <1>5 DEF InOrderOf
  <2>2. \E x \in S : Cardinality({y \in S : <<y, x>> \in R}) = i - 1
    <3>1. i - 1 \in 0 .. n - 1
      OBVIOUS
    <3>2. PICK x \in S : r[x] = i - 1
      BY <1>4, <3>1
    <3>3. Cardinality({y \in S : <<y, x>> \in R}) = i - 1
      BY <1>4, <3>2
    <3> QED BY <3>3
  <2>3. f[i] \in S /\ Cardinality({y \in S : <<y, f[i]>> \in R}) = i - 1
    BY <2>1, <2>2, Zenon
  <2> QED BY <1>4, <2>3 DEF Before
<1>8. f \in [1 .. n -> S]
  BY <1>6, <1>7
<1>9. ASSUME NEW i \in 1 .. n, NEW j \in 1 .. n, f[i] = f[j] PROVE i = j
  <2>1. r[f[i]] = i - 1 /\ r[f[j]] = j - 1
    BY <1>7
  <2>2. i - 1 = j - 1
    BY <1>9, <2>1
  <2> QED BY <2>2
<1>10. ASSUME NEW x \in S PROVE \E i \in 1 .. n : f[i] = x
  <2>1. r[x] + 1 \in 1 .. n /\ (r[x] + 1) - 1 = r[x]
    <3>1. r[x] \in 0 .. n - 1
      BY <1>4
    <3> QED BY <3>1
  <2>2. f[r[x] + 1] \in S /\ r[f[r[x] + 1]] = r[x]
    BY <1>7, <2>1
  <2>3. f[r[x] + 1] = x
    BY <1>4, <2>2
  <2> QED BY <2>1, <2>3
<1>11. f \in Bijection(1 .. n, S)
  BY <1>8, <1>9, <1>10, Fun_IsBij
<1> QED BY <1>1, <1>5, <1>7, <1>11

\* Numbers in ascending order.
LEMMA AscendingIs ==
  ASSUME NEW S, IsFiniteSet(S), S \subseteq Int
  PROVE  /\ Ascending(S) \in Bijection(1 .. Cardinality(S), S)
         /\ \A i, j \in 1 .. Cardinality(S) : i < j => Ascending(S)[i] < Ascending(S)[j]
<1>1. PICK R : R = {p \in S \X S : p[1] < p[2]}
  OBVIOUS
<1>2. \A x, y \in S : <<x, y>> \in R <=> x < y
  BY <1>1
<1>3. IsOrder(R, S)
  BY <1>2 DEF IsOrder
<1>4. PICK n \in Nat : n = Cardinality(S)
  BY FS_CardinalityType
<1>5. PICK f : f = Ascending(S) /\ f = InOrderOf(S, R)
  BY <1>1 DEF Ascending
<1>6. f \in Bijection(1 .. n, S) /\ \A i \in 1 .. n : Cardinality(Before(S, R, f[i])) = i - 1
  BY <1>3, <1>4, <1>5, InOrderIsBijection
<1>7. f \in [1 .. n -> S] /\ \A i, j \in 1 .. n : f[i] = f[j] => i = j
  BY <1>6, Fun_BijectionProperties
<1>8. ASSUME NEW i \in 1 .. n, NEW j \in 1 .. n, i < j PROVE f[i] < f[j]
  <2>1. f[i] \in Int /\ f[j] \in Int
    BY <1>7
  <2>2. SUFFICES ASSUME f[j] <= f[i] PROVE FALSE
    BY <2>1
  <2>3. PICK A, B : A = Before(S, R, f[j]) /\ B = Before(S, R, f[i])
    OBVIOUS
  <2>4. A \subseteq B /\ B \subseteq S
    <3>1. A = {y \in S : y < f[j]} /\ B = {y \in S : y < f[i]}
      BY <1>2, <1>7, <2>3 DEF Before
    <3>2. ASSUME NEW y \in S, y < f[j] PROVE y < f[i]
      BY <2>1, <2>2, <3>2
    <3> QED BY <3>1, <3>2
  <2>5. IsFiniteSet(B) /\ Cardinality(A) <= Cardinality(B)
    BY <2>4, FS_Subset
  <2>6. Cardinality(A) = j - 1 /\ Cardinality(B) = i - 1
    BY <1>6, <2>3
  <2> QED BY <1>8, <2>5, <2>6
<1> QED BY <1>4, <1>5, <1>6, <1>8
-----------------------------------------------------------------------------
(* Sums.                                                                   *)

Part(size, i) == {i} \X (1 .. size[i])
Parts(size, k) == UNION {Part(size, i) : i \in 1 .. k}

\* A sum is the number of the pairs below it.
LEMMA SumOfIs == \A size, k : SumOf(size, k) = Cardinality(Parts(size, k))
BY DEF SumOf, Parts, Part

\* It is a number, ...
LEMMA PartsAreFinite ==
  ASSUME NEW size, NEW k \in Nat, \A i \in 1 .. k : size[i] \in Nat
  PROVE  IsFiniteSet(Parts(size, k)) /\ SumOf(size, k) \in Nat
<1>1. ASSUME NEW i \in 1 .. k PROVE IsFiniteSet(Part(size, i))
  <2>1. IsFiniteSet({i}) /\ IsFiniteSet(1 .. size[i])
    <3>1. PICK n \in Nat : n = size[i]
      OBVIOUS
    <3>2. IsFiniteSet(1 .. n)
      BY FS_Interval
    <3> QED BY <3>1, <3>2, FS_Singleton
  <2> QED BY <2>1, FS_Product DEF Part
<1>2. IsFiniteSet({Part(size, i) : i \in 1 .. k})
  <2>1. PICK f : f = [i \in 1 .. k |-> Part(size, i)]
    OBVIOUS
  <2>2. f \in Surjection(1 .. k, {Part(size, i) : i \in 1 .. k})
    BY <2>1, Fun_IsSurj
  <2>3. IsFiniteSet(1 .. k)
    BY FS_Interval
  <2> QED BY <2>2, <2>3, FS_Surjection
<1>3. IsFiniteSet(Parts(size, k))
  BY <1>1, <1>2, FS_UNION DEF Parts
<1> QED BY <1>3, SumOfIs, FS_CardinalityType

\* ... one term more adds that term, ...
LEMMA SumOfNext ==
  ASSUME NEW size, NEW k \in Nat, \A i \in 1 .. k + 1 : size[i] \in Nat
  PROVE  SumOf(size, k + 1) = SumOf(size, k) + size[k + 1]
<1>0. \A i \in 1 .. k : size[i] \in Nat
  OBVIOUS
<1>1. IsFiniteSet(Parts(size, k)) /\ SumOf(size, k) \in Nat
  BY <1>0, PartsAreFinite
<1>2. Parts(size, k + 1) = Parts(size, k) \cup Part(size, k + 1)
  <2>1. 1 .. k + 1 = (1 .. k) \cup {k + 1}
    OBVIOUS
  <2> QED BY <2>1 DEF Parts
<1>3. Parts(size, k) \cap Part(size, k + 1) = {}
  <2>1. ASSUME NEW p \in Parts(size, k), p \in Part(size, k + 1) PROVE FALSE
    <3>1. PICK i \in 1 .. k : p \in Part(size, i)
      BY DEF Parts
    <3>2. p[1] = i /\ p[1] = k + 1
      BY <2>1, <3>1 DEF Part
    <3> QED BY <3>1, <3>2
  <2> QED BY <2>1
<1>4. IsFiniteSet(Part(size, k + 1)) /\ Cardinality(Part(size, k + 1)) = size[k + 1]
  <2>1. size[k + 1] \in Nat
    OBVIOUS
  <2>2. IsFiniteSet({k + 1}) /\ Cardinality({k + 1}) = 1
    BY FS_Singleton
  <2>3. IsFiniteSet(1 .. size[k + 1]) /\ Cardinality(1 .. size[k + 1]) = size[k + 1]
    <3>1. PICK n \in Nat : n = size[k + 1]
      BY <2>1
    <3>2. IsFiniteSet(1 .. n) /\ Cardinality(1 .. n) = n
      BY FS_Interval
    <3> QED BY <3>1, <3>2
  <2>4. /\ IsFiniteSet(Part(size, k + 1))
        /\ Cardinality(Part(size, k + 1)) = 1 * size[k + 1]
    <3>1. PICK A, B : A = {k + 1} /\ B = 1 .. size[k + 1]
      OBVIOUS
    <3>2. IsFiniteSet(A) /\ IsFiniteSet(B) /\ Cardinality(A) = 1 /\ Cardinality(B) = size[k + 1]
      BY <2>2, <2>3, <3>1
    <3>3. IsFiniteSet(A \X B) /\ Cardinality(A \X B) = Cardinality(A) * Cardinality(B)
      BY <3>2, FS_Product
    <3> QED BY <3>1, <3>2, <3>3 DEF Part
  <2> QED BY <2>1, <2>4
<1>5. Cardinality({}) = 0
  BY FS_EmptySet
<1>6. Cardinality(Parts(size, k + 1))
        = Cardinality(Parts(size, k)) + size[k + 1]
            - Cardinality(Parts(size, k) \cap Part(size, k + 1))
  BY <1>1, <1>2, <1>4, FS_Union
<1>7. SumOf(size, k + 1) = SumOf(size, k) + size[k + 1] - 0
  BY <1>3, <1>5, <1>6, SumOfIs
<1>8. SumOf(size, k) \in Nat /\ size[k + 1] \in Nat
  BY <1>1
<1> QED BY <1>7, <1>8

\* ... more terms add, ...
LEMMA SumOfMono ==
  ASSUME NEW size, NEW k \in Nat, NEW j \in Nat, j <= k, \A i \in 1 .. k : size[i] \in Nat
  PROVE  SumOf(size, j) <= SumOf(size, k)
<1>1. Parts(size, j) \in SUBSET Parts(size, k)
  BY DEF Parts
<1> QED BY <1>1, PartsAreFinite, SumOfIs, FS_Subset

\* ... equal ones are multiplied, ...
LEMMA SumOfEqual ==
  ASSUME NEW size, NEW k \in Nat, NEW w \in Nat, \A i \in 1 .. k : size[i] = w
  PROVE  SumOf(size, k) = k * w
<1>1. Parts(size, k) = (1 .. k) \X (1 .. w)
  BY DEF Parts, Part
<1>2. IsFiniteSet(1 .. k) /\ Cardinality(1 .. k) = k /\ IsFiniteSet(1 .. w)
      /\ Cardinality(1 .. w) = w
  BY FS_Interval
<1>3. Cardinality((1 .. k) \X (1 .. w)) = Cardinality(1 .. k) * Cardinality(1 .. w)
  BY <1>2, FS_Product
<1> QED BY <1>1, <1>2, <1>3, SumOfIs

\* ... and none is zero.
LEMMA SumOfNone == \A size : SumOf(size, 0) = 0
BY FS_EmptySet, SumOfIs DEF Parts

\* A set of numbers up to n has a greatest one.
LEMMA GreatestNumber ==
  ASSUME NEW n \in Nat, NEW S, S \subseteq 0 .. n, S # {}
  PROVE  \E x \in S : \A y \in S : y <= x
<1> DEFINE T == {n - i : i \in S}
<1>1. T \subseteq Nat /\ T # {}
  <2>1. \A i \in S : n - i \in Nat
    OBVIOUS
  <2> QED BY <2>1
<1>2. PICK m \in T : \A y \in T : m <= y
  <2> HIDE DEF T
  <2> QED BY <1>1, Vector!LeastNumber
<1>3. PICK x \in S : m = n - x
  BY <1>2
<1>4. ASSUME NEW y \in S PROVE y <= x
  <2>1. n - x <= n - y
    BY <1>2, <1>3
  <2> QED BY <2>1
<1> QED BY <1>4

\* The largest member of a set of numbers.
LEMMA MaxIs ==
  ASSUME NEW n \in Nat, NEW S, S \subseteq 0 .. n, S # {}
  PROVE  Max(S) \in S /\ \A y \in S : y <= Max(S)
<1>1. \E x \in S : \A y \in S : x >= y
  <2>1. PICK x \in S : \A y \in S : y <= x
    BY GreatestNumber
  <2> QED BY <2>1
<1>2. Max(S) = CHOOSE x \in S : \A y \in S : x >= y
  BY Zenon DEF Max
<1>3. Max(S) \in S /\ \A y \in S : Max(S) >= y
  BY <1>1, <1>2, Zenon
<1> QED BY <1>3

\* The smallest member of a set of numbers.
LEMMA MinIs ==
  ASSUME NEW S, S \subseteq Nat, S # {}
  PROVE  Min(S) \in S /\ \A y \in S : Min(S) <= y
<1>1. \E x \in S : \A y \in S : x <= y
  BY Vector!LeastNumber
<1>2. Min(S) = CHOOSE x \in S : \A y \in S : x <= y
  BY Zenon DEF Min
<1> QED BY <1>1, <1>2, Zenon

-----------------------------------------------------------------------------
(* Words and places.                                                       *)

\* What a word holds.
LEMMA WidthType == W \in Nat /\ W > 0
BY TopologyAssumption

\* What the system reports.
LEMMA MachineFacts ==
  ASSUME Construct
  PROVE  /\ active_processors \in Nat /\ active_processors > 0
         /\ machine.n = active_processors
         /\ IsPartition(machine.cores, Processors)
         /\ machine.caches = {} \/ IsPartition(machine.caches, Processors)
         /\ machine.groups \in Seq(1 .. W)
         /\ ~Linux => /\ Len(machine.groups) \in Nat /\ Len(machine.groups) > 0
                      /\ \A i \in 1 .. Len(machine.groups) : machine.groups[i] \in 1 .. W
                      /\ SumOf(machine.groups, Len(machine.groups)) = active_processors
<1>1. machine \in Machines /\ active_processors = machine.n
  BY DEF Construct
<1>2. /\ machine.n \in Nat \ {0}
      /\ IsPartition(machine.cores, 0 .. machine.n - 1)
      /\ machine.caches = {} \/ IsPartition(machine.caches, 0 .. machine.n - 1)
      /\ machine.groups \in Seq(1 .. W)
      /\ machine.groups # <<>> => SumOf(machine.groups, Len(machine.groups)) = machine.n
  BY <1>1, TopologyAssumption
<1>3. PICK g : g = machine.groups
  OBVIOUS
<1>4. ASSUME g # <<>>
      PROVE  /\ Len(g) \in Nat /\ Len(g) > 0 /\ \A i \in 1 .. Len(g) : g[i] \in 1 .. W
  <2>1. PICK S : S = 1 .. W
    OBVIOUS
  <2>2. g \in Seq(S)
    BY <1>2, <1>3, <2>1
  <2>3. Len(g) \in Nat /\ Len(g) > 0 /\ \A i \in 1 .. Len(g) : g[i] \in S
    BY <1>4, <2>2
  <2> QED BY <2>1, <2>3
<1> QED BY <1>1, <1>2, <1>3, <1>4 DEF Processors, Linux

\* Quotient and remainder, which the product with the width has to stay apart from.
LEMMA Division ==
  ASSUME NEW a \in Nat, NEW w \in Nat, w > 0
  PROVE  \E q \in Nat, r \in 0 .. w - 1, k \in Nat :
           a \div w = q /\ a % w = r /\ q * w = k /\ a = k + r
<1>1. a \div w \in Nat /\ a % w \in 0 .. w - 1
  OBVIOUS
<1>2. PICK q \in Nat, r \in 0 .. w - 1 : q = a \div w /\ r = a % w
  BY <1>1
<1>3. a = q * w + r
  BY <1>2
<1>4. PICK k \in Nat : k = q * w
  OBVIOUS
<1> QED BY <1>2, <1>3, <1>4

\* A multiple of the width is a number, and grows.
LEMMA TimesMono ==
  ASSUME NEW a \in Nat, NEW b \in Nat, NEW w \in Nat, a <= b
  PROVE  a * w \in Nat /\ b * w \in Nat /\ a * w <= b * w
OBVIOUS

\* No other quotient and remainder make up the number.
LEMMA DivisionIsUnique ==
  ASSUME NEW w \in Nat, w > 0, NEW q \in Nat, NEW r \in 0 .. w - 1
  PROVE  q * w + r \in Nat /\ (q * w + r) \div w = q /\ (q * w + r) % w = r
<1>1. PICK k \in Nat : k = q * w
  OBVIOUS
<1>2. k + r \in Nat
  OBVIOUS
<1>3. PICK p \in Nat, s \in 0 .. w - 1, l \in Nat :
        (k + r) \div w = p /\ (k + r) % w = s /\ p * w = l /\ k + r = l + s
  BY <1>2, Division
<1>4. ASSUME p < q PROVE FALSE
  <2>1. PICK p1 \in Nat : p1 = p + 1
    OBVIOUS
  <2>2. p1 * w <= q * w
    BY <1>4, <2>1, TimesMono
  <2>3. p1 * w = p * w + w
    BY <2>1
  <2> QED BY <1>1, <1>3, <2>2, <2>3
<1>5. ASSUME q < p PROVE FALSE
  <2>1. PICK q1 \in Nat : q1 = q + 1
    OBVIOUS
  <2>2. q1 * w <= p * w
    BY <1>5, <2>1, TimesMono
  <2>3. q1 * w = q * w + w
    BY <2>1
  <2> QED BY <1>1, <1>3, <2>2, <2>3
<1>6. p = q
  BY <1>4, <1>5
<1>7. k = l
  BY <1>1, <1>3, <1>6
<1> QED BY <1>1, <1>2, <1>3, <1>6, <1>7

\* The words a machine has.
IsWord(k) == k \in Nat /\ (Linux \/ k < Len(machine.groups))

\* The first processor of a word is a number, ...
LEMMA FirstType ==
  ASSUME Construct, NEW k \in Nat, Linux \/ k <= Len(machine.groups)
  PROVE  First(k) \in Nat
<1>1. CASE Linux
  BY <1>1, WidthType DEF First
<1>2. CASE ~Linux
  <2>1. \A i \in 1 .. k : machine.groups[i] \in Nat
    BY <1>2, MachineFacts
  <2> QED BY <1>2, <2>1, PartsAreFinite DEF First
<1> QED BY <1>1, <1>2

\* The first processor of a word and the next word's are at most W apart.
LEMMA FirstNext ==
  ASSUME Construct, NEW k, IsWord(k)
  PROVE  /\ First(k) \in Nat /\ First(k + 1) \in Nat
         /\ First(k) < First(k + 1) /\ First(k + 1) <= First(k) + W
<1>0. k \in Nat /\ k + 1 \in Nat
  BY DEF IsWord
<1>1. CASE Linux
  <2>1. PICK j \in Nat : j = k + 1
    BY <1>0
  <2>2. j * W = k * W + W
    BY <1>0, <2>1, WidthType
  <2>3. PICK f \in Nat : f = k * W
    BY <1>0, WidthType
  <2>4. First(k) = f /\ First(k + 1) = f + W
    BY <1>1, <2>1, <2>2, <2>3 DEF First
  <2> QED BY <2>4, WidthType
<1>2. CASE ~Linux
  <2>1. \A i \in 1 .. k + 1 : machine.groups[i] \in Nat
    BY <1>0, <1>2, MachineFacts DEF IsWord
  <2>2. SumOf(machine.groups, k + 1) = SumOf(machine.groups, k) + machine.groups[k + 1]
    BY <1>0, <2>1, SumOfNext
  <2>3. machine.groups[k + 1] \in 1 .. W
    BY <1>0, <1>2, MachineFacts DEF IsWord
  <2>4. First(k) \in Nat
    BY <1>0, <1>2, FirstType DEF IsWord
  <2>5. First(k) = SumOf(machine.groups, k) /\ First(k + 1) = SumOf(machine.groups, k + 1)
    BY <1>2 DEF First
  <2> QED BY <2>2, <2>3, <2>4, <2>5, WidthType
<1> QED BY <1>1, <1>2

\* ... and is not less for a later word.
LEMMA FirstMono ==
  ASSUME Construct, NEW j \in Nat, NEW k \in Nat, j <= k, Linux \/ k <= Len(machine.groups)
  PROVE  First(j) \in Nat /\ First(k) \in Nat /\ First(j) <= First(k)
<1>1. CASE Linux
  BY <1>1, TimesMono, WidthType DEF First
<1>2. CASE ~Linux
  <2>1. \A i \in 1 .. k : machine.groups[i] \in Nat
    BY <1>2, MachineFacts
  <2>2. SumOf(machine.groups, j) <= SumOf(machine.groups, k)
    BY <2>1, SumOfMono
  <2>3. First(j) \in Nat /\ First(k) \in Nat
    BY <1>2, FirstType, MachineFacts
  <2> QED BY <1>2, <2>2, <2>3 DEF First
<1> QED BY <1>1, <1>2

\* A processor is in one word, behind its first processor.
LEMMA PlaceOf ==
  ASSUME Construct, NEW c \in Processors
  PROVE  /\ IsWord(WordOf(c)) /\ WordOf(c) \in Nat
         /\ First(WordOf(c)) \in Nat /\ First(WordOf(c)) <= c
         /\ c < First(WordOf(c) + 1) /\ c - First(WordOf(c)) \in 0 .. W - 1
<1>0. c \in Nat /\ c < active_processors
  BY MachineFacts DEF Processors
<1>1. CASE Linux
  <2>1. PICK q \in Nat, r \in 0 .. W - 1, k \in Nat : c \div W = q /\ q * W = k /\ c = k + r
    BY <1>0, Division, WidthType
  <2>2. WordOf(c) = q /\ First(q) = k
    BY <1>1, <2>1 DEF WordOf, First
  <2>3. PICK p \in Nat : p = q + 1
    OBVIOUS
  <2>4. First(p) = p * W /\ p * W = q * W + W
    BY <1>1, <2>3, WidthType DEF First
  <2> QED BY <1>1, <2>1, <2>2, <2>3, <2>4, WidthType DEF IsWord
<1>2. CASE ~Linux
  <2>1. PICK l \in Nat : l = Len(machine.groups) /\ l > 0
    BY <1>2, MachineFacts
  <2>2. PICK S : S = {k \in 0 .. l - 1 : First(k) <= c}
    OBVIOUS
  <2>3. 0 \in S
    BY <1>0, <1>2, <2>1, <2>2, SumOfNone DEF First
  <2>4. Max(S) \in S /\ \A y \in S : y <= Max(S)
    <3>1. S \subseteq 0 .. l /\ S # {}
      BY <2>2, <2>3
    <3> QED BY <3>1, MaxIs
  <2>5. WordOf(c) = Max(S)
    BY <1>2, <2>1, <2>2 DEF WordOf
  <2>6. PICK k \in 0 .. l - 1 : k = WordOf(c) /\ First(k) <= c /\ \A y \in S : y <= k
    BY <2>2, <2>4, <2>5
  <2>7. IsWord(k)
    BY <2>1, <2>6 DEF IsWord
  <2>8. /\ First(k) \in Nat /\ First(k + 1) \in Nat /\ First(k + 1) <= First(k) + W
    BY <2>7, FirstNext
  <2>9. c < First(k + 1)
    <3>1. CASE k + 1 \in 0 .. l - 1
      <4>1. k + 1 \notin S
        BY <2>6
      <4> QED BY <1>0, <2>2, <2>8, <3>1, <4>1
    <3>2. CASE k + 1 = l
      <4>1. First(l) = active_processors
        BY <1>2, <2>1, MachineFacts DEF First
      <4> QED BY <1>0, <3>2, <4>1
    <3> QED BY <3>1, <3>2
  <2> QED BY <1>0, <2>6, <2>7, <2>8, <2>9, WidthType
<1> QED BY <1>1, <1>2

\* No other word has it.
LEMMA WordIsUnique ==
  ASSUME Construct, NEW c \in Processors, NEW k, IsWord(k), First(k) <= c, c < First(k + 1)
  PROVE  WordOf(c) = k
<1>0. c \in Nat
  BY MachineFacts DEF Processors
<1>1. PICK w \in Nat : w = WordOf(c) /\ IsWord(w) /\ First(w) <= c /\ c < First(w + 1)
  BY PlaceOf
<1>2. k \in Nat /\ k + 1 \in Nat /\ w + 1 \in Nat
  BY DEF IsWord
<1>3. ASSUME k < w PROVE FALSE
  <2>1. First(k + 1) <= First(w) /\ First(k + 1) \in Nat /\ First(w) \in Nat
    BY <1>1, <1>2, <1>3, FirstMono DEF IsWord
  <2> QED BY <1>0, <1>1, <2>1
<1>4. ASSUME w < k PROVE FALSE
  <2>1. First(w + 1) <= First(k) /\ First(w + 1) \in Nat /\ First(k) \in Nat
    BY <1>1, <1>2, <1>4, FirstMono DEF IsWord
  <2> QED BY <1>0, <1>1, <2>1
<1> QED BY <1>1, <1>2, <1>3, <1>4

\* A processor of a later word is a later one.
LEMMA LaterWord ==
  ASSUME Construct, NEW c \in Processors, NEW d \in Processors, WordOf(c) < WordOf(d)
  PROVE  c < d
<1>1. PICK k \in Nat : k = WordOf(c) /\ c < First(k + 1)
  BY PlaceOf
<1>2. PICK l \in Nat : l = WordOf(d) /\ IsWord(l) /\ First(l) <= d
  BY PlaceOf
<1>3. k + 1 \in Nat /\ k + 1 <= l
  BY <1>1, <1>2
<1>4. Linux \/ l <= Len(machine.groups)
  BY <1>2, MachineFacts DEF IsWord
<1>5. First(k + 1) \in Nat /\ First(l) \in Nat /\ First(k + 1) <= First(l)
  BY <1>3, <1>4, FirstMono
<1>6. c \in Nat /\ d \in Nat
  BY MachineFacts DEF Processors
<1> QED BY <1>1, <1>2, <1>5, <1>6

\* A word of a mask.
Masks == [bits : SUBSET Nat, word : Nat]
\* The list of words is that of the set of processors S.
Describes(ws, S) ==
  /\ ws \in Seq(Masks) /\ Len(ws) > 0
  /\ \A i \in 1 .. Len(ws) : ws[i].bits # {}
  /\ \A i \in 1 .. Len(ws) : \A b \in ws[i].bits :
       b + First(ws[i].word) \in S /\ WordOf(b + First(ws[i].word)) = ws[i].word
  /\ \A i, j \in 1 .. Len(ws) : ws[i].word = ws[j].word => i = j
  /\ \A c \in S : \E i \in 1 .. Len(ws) :
       WordOf(c) = ws[i].word /\ c - First(WordOf(c)) \in ws[i].bits
\* Its words are in ascending order.
IsAscending(ws) == \A i, j \in 1 .. Len(ws) : i < j => ws[i].word < ws[j].word

\* The processors are finitely many numbers.
LEMMA ProcessorsType ==
  ASSUME Construct
  PROVE  /\ Processors \subseteq Nat /\ IsFiniteSet(Processors)
         /\ Cardinality(Processors) = active_processors /\ Processors # {}
         /\ \A c \in Processors : c < active_processors
<1>1. PICK n \in Nat : n = active_processors /\ n > 0
  BY MachineFacts
<1>2. PICK m \in Int : m = n - 1
  OBVIOUS
<1>3. IsFiniteSet(0 .. m) /\ Cardinality(0 .. m) = IF 0 > m THEN 0 ELSE m - 0 + 1
  BY FS_Interval
<1>4. Processors = 0 .. m
  BY <1>1, <1>2 DEF Processors
<1>5. 0 \in Processors
  BY <1>1, <1>2, <1>4
<1> QED BY <1>1, <1>2, <1>3, <1>4, <1>5

\* A list of functions' values is a sequence.
LEMMA ListIsSeq ==
  ASSUME NEW T, NEW n \in Nat, NEW f \in [1 .. n -> T]
  PROVE  f \in Seq(T) /\ Len(f) = n
OBVIOUS

\* parseLine() reads the words of each set of processors.
LEMMA WordsAre ==
  ASSUME Construct, NEW S \in SUBSET Processors, S # {}
  PROVE  Describes(Words(S), S) /\ IsAscending(Words(S))
<1> DEFINE U == {WordOf(c) : c \in S}
           used == Ascending(U)
           bits(k) == {c - First(k) : c \in {x \in S : WordOf(x) = k}}
<1>0. \A c \in S : c \in Nat /\ c \in Processors
  BY ProcessorsType
<1>1. U \subseteq Nat /\ U # {} /\ IsFiniteSet(U)
  <2>1. PICK f : f = [c \in S |-> WordOf(c)]
    OBVIOUS
  <2>2. f \in Surjection(S, U)
    BY <2>1, Fun_IsSurj
  <2>3. IsFiniteSet(S)
    BY ProcessorsType, FS_Subset
  <2>4. IsFiniteSet(U)
    BY <2>2, <2>3, FS_Surjection
  <2>5. \A c \in S : WordOf(c) \in Nat
    BY <1>0, PlaceOf
  <2> QED BY <2>4, <2>5
<1>2. PICK n \in Nat : n = Cardinality(U)
  BY <1>1, FS_CardinalityType
<1>3. used \in Bijection(1 .. n, U) /\ \A i, j \in 1 .. n : i < j => used[i] < used[j]
  <2>1. U \subseteq Int
    BY <1>1
  <2> HIDE DEF U
  <2> QED BY <1>1, <1>2, <2>1, AscendingIs
<1>4. /\ used \in [1 .. n -> U]
      /\ \A i, j \in 1 .. n : used[i] = used[j] => i = j
      /\ \A k \in U : \E i \in 1 .. n : used[i] = k
  <2> HIDE DEF used, U
  <2> QED BY <1>3 DEF Bijection, Injection, Surjection, IsInjective
<1>5. n > 0
  <2>1. n # 0
    <3> HIDE DEF U
    <3> QED BY <1>1, <1>2, FS_EmptySet
  <2> QED BY <2>1
<1>6. PICK ws : ws = Words(S)
  OBVIOUS
<1>7. ws = [i \in 1 .. n |-> [bits |-> bits(used[i]), word |-> used[i]]]
  <2>1. DOMAIN used = 1 .. n
    BY <1>4
  <2>2. ws = [i \in DOMAIN used |-> [bits |-> bits(used[i]), word |-> used[i]]]
    BY <1>6 DEF Words
  <2> QED BY <2>1, <2>2
<1>8. \A k \in U : bits(k) \subseteq Nat
  <2>1. ASSUME NEW c \in S PROVE c - First(WordOf(c)) \in Nat
    BY <1>0, PlaceOf
  <2> QED BY <2>1
<1>9. \A k \in U : bits(k) # {}
  OBVIOUS
<1>10. \A k \in U : \A b \in bits(k) : b + First(k) \in S /\ WordOf(b + First(k)) = k
  <2>1. ASSUME NEW k \in U, NEW c \in S, WordOf(c) = k
        PROVE  (c - First(k)) + First(k) = c
    BY <1>0, <2>1, PlaceOf
  <2> QED BY <2>1
<1>11. \A c \in S : WordOf(c) \in U /\ c - First(WordOf(c)) \in bits(WordOf(c))
  OBVIOUS
<1> HIDE DEF U, used, bits
<1>12. \A i \in 1 .. n : /\ ws[i].bits = bits(used[i]) /\ ws[i].word = used[i]
                         /\ used[i] \in U /\ ws[i] = [bits |-> bits(used[i]), word |-> used[i]]
  BY <1>4, <1>7
<1>13. ws \in Seq(Masks) /\ Len(ws) = n
  <2>1. ASSUME NEW i \in 1 .. n PROVE ws[i] \in Masks
    <3>1. used[i] \in Nat /\ bits(used[i]) \in SUBSET Nat
      BY <1>1, <1>8, <1>12
    <3>2. PICK k \in Nat, B \in SUBSET Nat : k = used[i] /\ B = bits(used[i])
      BY <3>1
    <3>3. [bits |-> B, word |-> k] \in Masks
      BY DEF Masks
    <3>4. ws[i] = [bits |-> B, word |-> k]
      BY <1>12, <3>2, Zenon
    <3> QED BY <3>3, <3>4
  <2>2. ws \in [1 .. n -> Masks]
    BY <1>7, <2>1
  <2> QED BY <2>2, ListIsSeq
<1>14. \A i \in 1 .. n : ws[i].bits # {}
  BY <1>9, <1>12
<1>15. \A i \in 1 .. n : \A b \in ws[i].bits :
         b + First(ws[i].word) \in S /\ WordOf(b + First(ws[i].word)) = ws[i].word
  BY <1>10, <1>12
<1>16. ASSUME NEW i \in 1 .. n, NEW j \in 1 .. n, ws[i].word = ws[j].word PROVE i = j
  <2>1. used[i] = used[j]
    BY <1>12, <1>16
  <2> QED BY <1>4, <2>1
<1>17. ASSUME NEW c \in S
       PROVE  \E i \in 1 .. n : WordOf(c) = ws[i].word /\ c - First(WordOf(c)) \in ws[i].bits
  <2>1. PICK i \in 1 .. n : used[i] = WordOf(c)
    BY <1>4, <1>11
  <2> QED BY <1>11, <1>12, <2>1
<1>18. \A i, j \in 1 .. n : ws[i].word = ws[j].word => i = j
  BY <1>16, Zenon
<1>19. \A c \in S : \E i \in 1 .. n :
         WordOf(c) = ws[i].word /\ c - First(WordOf(c)) \in ws[i].bits
  BY <1>17, Zenon
<1>20. Describes(ws, S)
  BY <1>5, <1>13, <1>14, <1>15, <1>18, <1>19, Zenon DEF Describes
<1>21. IsAscending(ws)
  BY <1>3, <1>12, <1>13 DEF IsAscending
<1> QED BY <1>6, <1>20, <1>21

\* Two lists of words of sets without a common processor differ, and are in order.
LEMMA DescribesOne ==
  ASSUME Construct, NEW ws, NEW S \in SUBSET Processors, NEW T \in SUBSET Processors,
         Describes(ws, S), Describes(ws, T)
  PROVE  S = T
<1>1. ASSUME NEW A \in SUBSET Processors, NEW B \in SUBSET Processors,
             Describes(ws, A), Describes(ws, B), NEW c \in A
      PROVE  c \in B
  <2>1. PICK i \in 1 .. Len(ws) : WordOf(c) = ws[i].word /\ c - First(WordOf(c)) \in ws[i].bits
    BY <1>1 DEF Describes
  <2>2. PICK b : b = c - First(WordOf(c))
    OBVIOUS
  <2>3. b + First(ws[i].word) \in B
    BY <1>1, <2>1, <2>2 DEF Describes
  <2>4. c \in Nat /\ First(WordOf(c)) \in Nat
    BY PlaceOf, ProcessorsType
  <2> QED BY <2>1, <2>2, <2>3, <2>4
<1> QED BY <1>1

\* What compareVectors() looks at: the first word.
LEMMA FirstWord ==
  ASSUME Construct, NEW ws, NEW S \in SUBSET Processors, Describes(ws, S)
  PROVE  /\ Head(ws) = ws[1] /\ ws[1].word \in Nat
         /\ ws[1].bits \subseteq 0 .. active_processors - 1 /\ ws[1].bits # {}
         /\ \A b \in ws[1].bits : b \in Nat /\ b + First(ws[1].word) \in S
<1>1. ws \in Seq(Masks) /\ Len(ws) > 0
  BY DEF Describes
<1>2. 1 \in 1 .. Len(ws) /\ ws[1] \in Masks /\ Head(ws) = ws[1]
  BY <1>1
<1>3. ws[1].word \in Nat /\ ws[1].bits \subseteq Nat
  BY <1>2 DEF Masks
<1>4. ws[1].bits # {} /\ \A b \in ws[1].bits : b + First(ws[1].word) \in S
                           /\ WordOf(b + First(ws[1].word)) = ws[1].word
  BY <1>2 DEF Describes
<1>5. ASSUME NEW b \in ws[1].bits PROVE b \in 0 .. active_processors - 1
  <2>1. b \in Nat /\ b + First(ws[1].word) \in Processors
    BY <1>3, <1>4
  <2>2. First(ws[1].word) \in Nat
    BY <1>4, <2>1, PlaceOf
  <2>3. b + First(ws[1].word) < active_processors
    BY <2>1, ProcessorsType
  <2> QED BY <2>1, <2>2, <2>3, MachineFacts
<1> QED BY <1>2, <1>3, <1>4, <1>5

\* Numbers without a common bit.
LEMMA IsLessFacts ==
  ASSUME NEW n \in Nat, NEW A, A \subseteq 0 .. n, A # {},
         NEW B, B \subseteq 0 .. n, B # {}, A \cap B = {}
  PROVE  /\ IsLess(A, B) <=> \E b \in B : \A a \in A : a < b
         /\ IsLess(A, B) \/ IsLess(B, A)
<1>1. IsLess(A, B) <=> \E b \in B : \A a \in A : a < b
  <2>1. B \ A = B /\ A \ B = A
    OBVIOUS
  <2> QED BY <2>1 DEF IsLess
<1>2. IsLess(B, A) <=> \E b \in A : \A a \in B : a < b
  <2>1. B \ A = B /\ A \ B = A
    OBVIOUS
  <2> QED BY <2>1 DEF IsLess
<1>3. PICK m \in A \cup B : \A y \in A \cup B : y <= m
  <2>1. A \cup B \subseteq 0 .. n /\ A \cup B # {}
    OBVIOUS
  <2> QED BY <2>1, GreatestNumber
<1>4. CASE m \in B
  <2>1. \A a \in A : a < m
    BY <1>3, <1>4
  <2> QED BY <1>1, <1>4, <2>1
<1>5. CASE m \in A
  <2>1. \A a \in B : a < m
    BY <1>3, <1>5
  <2> QED BY <1>1, <1>2, <1>5, <2>1
<1> QED BY <1>3, <1>4, <1>5

\* A partition of the processors has finitely many parts, none of them empty.
LEMMA PartFacts ==
  ASSUME Construct, NEW P, IsPartition(P, Processors)
  PROVE  /\ IsFiniteSet(P) /\ P # {} /\ Cardinality(P) \in Nat /\ Cardinality(P) > 0
         /\ \A S \in P : /\ S \in SUBSET Processors /\ S # {} /\ IsFiniteSet(S)
                         /\ Describes(Words(S), S)
         /\ \A S, T \in P : S = T \/ S \cap T = {}
<1>1. P \in SUBSET SUBSET Processors
  BY DEF IsPartition
<1>2. IsFiniteSet(SUBSET Processors)
  BY ProcessorsType, FS_SUBSET
<1>3. IsFiniteSet(P)
  BY <1>1, <1>2, FS_Subset
<1>4. P # {}
  BY ProcessorsType DEF IsPartition
<1>5. Cardinality(P) \in Nat /\ Cardinality(P) # 0
  BY <1>3, <1>4, FS_CardinalityType, FS_EmptySet
<1>6. ASSUME NEW S \in P
      PROVE  /\ S \in SUBSET Processors /\ S # {} /\ IsFiniteSet(S)
             /\ Describes(Words(S), S)
  <2>1. S \in SUBSET Processors /\ S # {}
    BY <1>1 DEF IsPartition
  <2> QED BY <2>1, ProcessorsType, FS_Subset, WordsAre
<1>7. \A S, T \in P : S = T \/ S \cap T = {}
  BY DEF IsPartition
<1>8. Cardinality(P) > 0
  BY <1>5
<1> QED BY <1>3, <1>4, <1>5, <1>6, <1>7, <1>8

\* compareVectors() orders the masks of a partition.
LEMMA CompareIsOrder ==
  ASSUME Construct, NEW P, IsPartition(P, Processors),
         NEW M, M = {Words(S) : S \in P},
         NEW R, R = {p \in M \X M : CompareVectors(p[1], p[2])}
  PROVE  IsOrder(R, M)
<1> DEFINE k(v) == v[1].word
           B(v) == v[1].bits
<1>1. PICK n \in Nat : n = active_processors - 1
  <2>1. active_processors - 1 \in Nat
    BY MachineFacts
  <2> QED BY <2>1
<1>2. ASSUME NEW v \in M
      PROVE  /\ Head(v) = v[1] /\ k(v) \in Nat /\ B(v) \subseteq 0 .. n /\ B(v) # {}
             /\ \E S \in P : v = Words(S)
  <2>1. PICK S \in P : v = Words(S)
    OBVIOUS
  <2>2. S \in SUBSET Processors /\ Describes(v, S)
    BY <2>1, PartFacts
  <2> QED BY <1>1, <2>1, <2>2, FirstWord
<1>3. ASSUME NEW v \in M, NEW w \in M, v # w, k(v) = k(w)
      PROVE  B(v) \cap B(w) = {}
  <2>1. PICK S \in P, T \in P : v = Words(S) /\ w = Words(T)
    BY <1>2
  <2>2. S \cap T = {} /\ S \in SUBSET Processors /\ T \in SUBSET Processors
        /\ Describes(v, S) /\ Describes(w, T)
    BY <1>3, <2>1, PartFacts
  <2>3. ASSUME NEW b \in B(v) \cap B(w) PROVE FALSE
    <3>1. b + First(k(v)) \in S /\ b + First(k(w)) \in T
      BY <2>2, <2>3, FirstWord
    <3> QED BY <1>3, <2>2, <3>1
  <2> QED BY <2>3
<1>4. ASSUME NEW v \in M, NEW w \in M
      PROVE  <<v, w>> \in R <=> k(v) < k(w) \/ (k(v) = k(w) /\ IsLess(B(v), B(w)))
  <2>1. <<v, w>> \in R <=> CompareVectors(v, w)
    OBVIOUS
  <2>2. Head(v) = v[1] /\ Head(w) = w[1]
    BY <1>2
  <2> QED BY <2>1, <2>2 DEF CompareVectors
<1>5. \A v \in M : ~IsLess(B(v), B(v))
  BY DEF IsLess
<1>6. ASSUME NEW v \in M, NEW w \in M, v # w, k(v) = k(w)
      PROVE  /\ IsLess(B(v), B(w)) <=> \E b \in B(w) : \A a \in B(v) : a < b
             /\ IsLess(B(v), B(w)) \/ IsLess(B(w), B(v))
  <2>1. B(v) \cap B(w) = {}
    BY <1>3, <1>6
  <2>2. B(v) \subseteq 0 .. n /\ B(v) # {} /\ B(w) \subseteq 0 .. n /\ B(w) # {}
    BY <1>2
  <2> HIDE DEF B
  <2> QED BY <2>1, <2>2, IsLessFacts
<1>7. \A v \in M : k(v) \in Nat /\ B(v) \subseteq 0 .. n /\ B(v) # {}
  BY <1>2
<1> HIDE DEF k, B
<1>8. \A v \in M : <<v, v>> \notin R
  BY <1>4, <1>5, <1>7
<1>9. ASSUME NEW v \in M, NEW w \in M PROVE v = w \/ <<v, w>> \in R \/ <<w, v>> \in R
  <2>1. k(v) < k(w) \/ k(v) = k(w) \/ k(w) < k(v)
    BY <1>7
  <2> QED BY <1>4, <1>6, <2>1
<1>10. ASSUME NEW u \in M, NEW v \in M, NEW w \in M, <<u, v>> \in R, <<v, w>> \in R
       PROVE  <<u, w>> \in R
  <2>1. /\ k(u) < k(v) \/ (k(u) = k(v) /\ IsLess(B(u), B(v)))
        /\ k(v) < k(w) \/ (k(v) = k(w) /\ IsLess(B(v), B(w)))
        /\ k(u) \in Nat /\ k(v) \in Nat /\ k(w) \in Nat
    BY <1>4, <1>7, <1>10
  <2>2. CASE k(u) < k(w)
    BY <1>4, <2>2
  <2>3. CASE ~(k(u) < k(w))
    <3>1. k(u) = k(v) /\ k(v) = k(w) /\ IsLess(B(u), B(v)) /\ IsLess(B(v), B(w))
      BY <2>1, <2>3
    <3>2. u # v /\ v # w
      BY <1>5, <3>1
    <3>3. PICK b \in B(v) : \A a \in B(u) : a < b
      BY <1>6, <3>1, <3>2
    <3>4. PICK c \in B(w) : \A a \in B(v) : a < c
      BY <1>6, <3>1, <3>2
    <3>5. \A a \in B(u) : a < c
      <4>1. B(u) \subseteq 0 .. n /\ b \in 0 .. n /\ c \in 0 .. n /\ b < c
        BY <1>7, <3>3, <3>4
      <4> QED BY <3>3, <4>1
    <3>6. u # w
      <4>1. B(w) \subseteq 0 .. n
        BY <1>7
      <4>2. c \notin B(u)
        BY <3>4, <3>5, <4>1
      <4> QED BY <3>4, <4>2
    <3>7. IsLess(B(u), B(w))
      BY <1>6, <3>1, <3>4, <3>5, <3>6
    <3> QED BY <1>4, <3>1, <3>7
  <2> QED BY <2>2, <2>3
<1>11. \A v, w \in M : v = w \/ <<v, w>> \in R \/ <<w, v>> \in R
  BY <1>9
<1>12. \A u, v, w \in M : <<u, v>> \in R /\ <<v, w>> \in R => <<u, w>> \in R
  BY <1>10, Zenon
<1> QED BY <1>8, <1>11, <1>12, Zenon DEF IsOrder

\* The list of a partition has the words of each part once.
LEMMA SortedIs ==
  ASSUME Construct, NEW P, IsPartition(P, Processors)
  PROVE  \E e \in Bijection(1 .. Cardinality(P), P) :
           Sorted(P) = [i \in 1 .. Cardinality(P) |-> Words(e[i])]
<1>1. PICK M : M = {Words(S) : S \in P}
  OBVIOUS
<1>2. PICK R : R = {p \in M \X M : CompareVectors(p[1], p[2])}
  OBVIOUS
<1>3. IsOrder(R, M)
  BY <1>1, <1>2, CompareIsOrder
<1>4. PICK n \in Nat : n = Cardinality(P)
  BY PartFacts
<1>5. IsFiniteSet(M) /\ Cardinality(M) = n
  <2>1. PICK f : f = [S \in P |-> Words(S)]
    OBVIOUS
  <2>2. f \in [P -> M] /\ \A S \in P : f[S] = Words(S)
    BY <1>1, <2>1
  <2>3. ASSUME NEW S \in P, NEW T \in P, f[S] = f[T] PROVE S = T
    BY <2>2, <2>3, PartFacts, DescribesOne
  <2>4. \A v \in M : \E S \in P : f[S] = v
    BY <1>1, <2>2
  <2>5. f \in Bijection(P, M)
    BY <2>2, <2>3, <2>4, Fun_IsBij
  <2>6. ExistsBijection(P, M)
    BY <2>5 DEF ExistsBijection
  <2> QED BY <1>4, <2>6, PartFacts, FS_Bijection
<1>6. PICK s : s = Sorted(P)
  OBVIOUS
<1>7. s = InOrderOf(M, R)
  BY <1>1, <1>2, <1>6 DEF Sorted
<1>8. s \in Bijection(1 .. n, M)
  BY <1>3, <1>5, <1>7, InOrderIsBijection
<1>9. /\ s \in [1 .. n -> M]
      /\ \A i, j \in 1 .. n : s[i] = s[j] => i = j
      /\ \A v \in M : \E i \in 1 .. n : s[i] = v
  BY <1>8 DEF Bijection, Injection, Surjection, IsInjective
<1>10. PICK e : e = [i \in 1 .. n |-> CHOOSE S \in P : s[i] = Words(S)]
  OBVIOUS
<1>11. ASSUME NEW i \in 1 .. n PROVE e[i] \in P /\ s[i] = Words(e[i])
  <2>1. \E S \in P : s[i] = Words(S)
    BY <1>1, <1>9
  <2>2. e[i] = CHOOSE S \in P : s[i] = Words(S)
    BY <1>10
  <2> QED BY <2>1, <2>2, Zenon
<1>12. e \in [1 .. n -> P]
  BY <1>10, <1>11
<1>13. \A i, j \in 1 .. n : e[i] = e[j] => i = j
  BY <1>9, <1>11
<1>14. ASSUME NEW S \in P PROVE \E i \in 1 .. n : e[i] = S
  <2>1. PICK i \in 1 .. n : s[i] = Words(S)
    BY <1>1, <1>9
  <2>2. Words(e[i]) = Words(S) /\ e[i] \in P
    BY <1>11, <2>1
  <2>3. e[i] = S
    BY <2>2, PartFacts, DescribesOne
  <2> QED BY <2>3
<1>15. e \in Bijection(1 .. n, P)
  BY <1>12, <1>13, <1>14, Fun_IsBij
<1>16. s = [i \in 1 .. n |-> Words(e[i])]
  BY <1>9, <1>11
<1> QED BY <1>4, <1>6, <1>15, <1>16

\* Sums of the same terms are the same.
LEMMA SumOfSame ==
  ASSUME NEW f, NEW g, NEW k \in Nat, \A i \in 1 .. k : f[i] = g[i]
  PROVE  SumOf(f, k) = SumOf(g, k)
<1>1. \A i \in 1 .. k : Part(f, i) = Part(g, i)
  BY DEF Part
<1>2. Parts(f, k) = Parts(g, k)
  BY <1>1 DEF Parts
<1> QED BY <1>2, SumOfIs

\* The words of the cores, together, are those of the processors.
Chunks == UNION {Range(words) : words \in Range(processorMap)}

\* The maps that the constructor makes of the cores.
LEMMA ProcessorMapIs ==
  ASSUME Construct
  PROVE  /\ processorMap = Sorted(machine.cores)
         /\ Linux => groupMap = Groups(processorMap)
         /\ ~Linux => groupMap = [k \in 0 .. Len(machine.groups) - 1 |->
                                    LET count == machine.groups[k + 1]
                                    IN  [bits |-> 0 .. count - 1, count |-> count]]
<1>1. machine.cores # {}
  BY MachineFacts, PartFacts
<1> QED BY <1>1 DEF Construct, FromSys, FromLogicalProcessorInformation, MapOf

\* They are of processors, and each processor is in one.
LEMMA ChunksAre ==
  ASSUME Construct
  PROVE  /\ \A d \in Chunks : /\ d.word \in Nat /\ d.bits \subseteq Nat /\ d.bits # {}
                              /\ \A b \in d.bits : /\ b + First(d.word) \in Processors
                                                   /\ WordOf(b + First(d.word)) = d.word
         /\ \A c \in Processors : \E d \in Chunks :
              d.word = WordOf(c) /\ c - First(WordOf(c)) \in d.bits
<1> DEFINE P == machine.cores
<1>1. IsPartition(P, Processors)
  BY MachineFacts
<1>2. PICK n \in Nat : n = Cardinality(P)
  BY <1>1, PartFacts
<1>3. PICK e \in Bijection(1 .. n, P) : Sorted(P) = [i \in 1 .. n |-> Words(e[i])]
  BY <1>1, <1>2, SortedIs
<1>4. /\ \A i \in 1 .. n : e[i] \in P
      /\ \A S \in P : \E i \in 1 .. n : e[i] = S
  BY <1>3 DEF Bijection, Injection, Surjection
<1>5. Range(processorMap) = {Words(S) : S \in P}
  <2>1. processorMap = [i \in 1 .. n |-> Words(e[i])]
    BY <1>3, ProcessorMapIs
  <2> QED BY <1>4, <2>1 DEF Range
<1>6. Chunks = UNION {Range(Words(S)) : S \in P}
  BY <1>5 DEF Chunks
<1>7. ASSUME NEW S \in P
      PROVE  /\ S \in SUBSET Processors /\ Describes(Words(S), S)
             /\ Words(S) \in Seq(Masks)
             /\ Range(Words(S)) = {Words(S)[i] : i \in 1 .. Len(Words(S))}
  <2>1. S \in SUBSET Processors /\ Describes(Words(S), S)
    BY <1>1, PartFacts
  <2>2. Words(S) \in Seq(Masks)
    BY <2>1 DEF Describes
  <2>3. DOMAIN Words(S) = 1 .. Len(Words(S))
    BY <2>2
  <2> QED BY <2>1, <2>2, <2>3 DEF Range
<1> HIDE DEF P
<1>8. ASSUME NEW d \in Chunks
      PROVE  /\ d.word \in Nat /\ d.bits \subseteq Nat /\ d.bits # {}
             /\ \A b \in d.bits : /\ b + First(d.word) \in Processors
                                  /\ WordOf(b + First(d.word)) = d.word
  <2>1. PICK S \in P : d \in Range(Words(S))
    BY <1>6
  <2>2. PICK ws : ws = Words(S)
    OBVIOUS
  <2>3. PICK i \in 1 .. Len(ws) : d = ws[i]
    BY <1>7, <2>1, <2>2
  <2>4. d \in Masks
    BY <1>7, <2>2, <2>3
  <2>5. /\ d.bits # {}
        /\ \A b \in d.bits : b + First(d.word) \in S /\ WordOf(b + First(d.word)) = d.word
    BY <1>7, <2>2, <2>3 DEF Describes
  <2>6. S \in SUBSET Processors
    BY <1>7
  <2> QED BY <2>4, <2>5, <2>6 DEF Masks
<1>9. ASSUME NEW c \in Processors
      PROVE  \E d \in Chunks : d.word = WordOf(c) /\ c - First(WordOf(c)) \in d.bits
  <2>1. PICK S \in P : c \in S
    BY <1>1 DEF IsPartition
  <2>2. PICK ws : ws = Words(S)
    OBVIOUS
  <2>3. PICK i \in 1 .. Len(ws) : WordOf(c) = ws[i].word /\ c - First(WordOf(c)) \in ws[i].bits
    BY <1>7, <2>1, <2>2 DEF Describes
  <2>4. ws[i] \in Chunks
    BY <1>6, <1>7, <2>2
  <2> QED BY <2>3, <2>4
<1> QED BY <1>8, <1>9

\* Every group below one that has a processor is full.
LEMMA GroupsAreFull ==
  ASSUME Construct, Linux, NEW c \in Processors, NEW k \in 0 .. WordOf(c) - 1
  PROVE  groupMap[k].count = W
<1> DEFINE last == Max({d.word : d \in Chunks})
           bits(j) == UNION {d.bits : d \in {x \in Chunks : x.word = j}}
<1>1. groupMap = [j \in 0 .. last |-> [bits |-> bits(j), count |-> Cardinality(bits(j))]]
  BY ProcessorMapIs DEF Groups, Chunks
<1>2. WordOf(c) \in Nat /\ First(WordOf(c)) \in Nat /\ First(WordOf(c)) <= c
  BY PlaceOf
<1>3. k \in Nat /\ k < WordOf(c)
  BY <1>2
<1>4. WordOf(c) <= last /\ last \in Nat
  <2>1. PICK T : T = {d.word : d \in Chunks}
    OBVIOUS
  <2>2. PICK n \in Nat : n = active_processors
    BY MachineFacts
  <2>3. ASSUME NEW d \in Chunks PROVE d.word \in 0 .. n
    <3>1. PICK b \in d.bits : /\ b + First(d.word) \in Processors
                              /\ WordOf(b + First(d.word)) = d.word
      BY ChunksAre
    <3>2. PICK x \in Processors : x = b + First(d.word) /\ WordOf(x) = d.word
      BY <3>1
    <3>3. x \in Nat /\ x < n
      BY <2>2, ProcessorsType
    <3>4. PICK q \in Nat, r \in 0 .. W - 1, l \in Nat : x \div W = q /\ q * W = l /\ x = l + r
      BY <3>3, Division, WidthType
    <3>5. d.word = q
      BY <3>2, <3>4 DEF WordOf
    <3>6. q <= l
      <4>1. PICK w \in Nat : w = W /\ w > 0
        BY WidthType
      <4>2. q <= q * w
        BY <4>1
      <4> QED BY <3>4, <4>1, <4>2
    <3> QED BY <3>3, <3>4, <3>5, <3>6
  <2>4. T \subseteq 0 .. n
    BY <2>1, <2>3
  <2>5. WordOf(c) \in T
    BY <2>1, ChunksAre
  <2>6. Max(T) \in T /\ \A y \in T : y <= Max(T)
    BY <2>4, <2>5, MaxIs
  <2> QED BY <2>1, <2>4, <2>5, <2>6
<1>5. bits(k) = 0 .. W - 1
  <2>1. ASSUME NEW b \in 0 .. W - 1 PROVE b \in bits(k)
    <3>1. k * W + b \in Nat /\ (k * W + b) \div W = k
      BY <1>3, DivisionIsUnique, WidthType
    <3>2. PICK x \in Nat : x = k * W + b
      BY <3>1
    <3>3. First(k) = k * W /\ k * W \in Nat
      BY <1>3, WidthType DEF First
    <3>4. x < First(WordOf(c))
      <4>1. PICK j \in Nat : j = k + 1
        BY <1>3
      <4>2. First(j) <= First(WordOf(c)) /\ First(j) \in Nat
        BY <1>2, <1>3, <4>1, FirstMono
      <4>3. First(j) = k * W + W
        BY <1>3, <4>1, WidthType DEF First
      <4> QED BY <1>2, <3>2, <3>3, <4>2, <4>3, WidthType
    <3>5. x \in Processors
      <4>1. c \in Nat /\ c < active_processors
        BY ProcessorsType
      <4> QED BY <1>2, <3>2, <3>4, <4>1, MachineFacts DEF Processors
    <3>6. WordOf(x) = k
      BY <3>1, <3>2 DEF WordOf
    <3>7. PICK d \in Chunks : d.word = k /\ x - First(k) \in d.bits
      BY <3>5, <3>6, ChunksAre
    <3>8. x - First(k) = b
      BY <3>2, <3>3
    <3> QED BY <3>7, <3>8
  <2>2. ASSUME NEW b \in bits(k) PROVE b \in 0 .. W - 1
    <3>1. PICK d \in Chunks : d.word = k /\ b \in d.bits
      OBVIOUS
    <3>2. b \in Nat /\ b + First(k) \in Processors /\ WordOf(b + First(k)) = k
      BY <3>1, ChunksAre
    <3>3. (b + First(k)) - First(k) \in 0 .. W - 1 /\ First(k) \in Nat
      BY <3>2, PlaceOf
    <3> QED BY <3>2, <3>3
  <2> HIDE DEF bits
  <2> QED BY <2>1, <2>2
<1>6. Cardinality(0 .. W - 1) = W
  <2>1. PICK m \in Int : m = W - 1
    BY WidthType
  <2>2. Cardinality(0 .. m) = IF 0 > m THEN 0 ELSE m - 0 + 1
    BY FS_Interval
  <2> QED BY <2>1, <2>2, WidthType
<1> HIDE DEF bits, last
<1>7. groupMap[k] = [bits |-> bits(k), count |-> Cardinality(bits(k))]
  <2>1. k \in 0 .. last
    BY <1>2, <1>3, <1>4
  <2> QED BY <1>1, <2>1
<1> QED BY <1>5, <1>6, <1>7

\* The processors of the groups below a word are those before its first one.
LEMMA OffsetIs ==
  ASSUME Construct, NEW c \in Processors
  PROVE  CalculateOffset(WordOf(c)) = First(WordOf(c))
<1>1. PICK w \in Nat : w = WordOf(c) /\ IsWord(w)
  BY PlaceOf
<1>2. PICK s : s = [i \in 1 .. w |-> groupMap[i - 1].count]
  OBVIOUS
<1>3. CalculateOffset(w) = SumOf(s, w)
  BY <1>2 DEF CalculateOffset
<1>4. CASE Linux
  <2>1. ASSUME NEW i \in 1 .. w PROVE s[i] = W
    <3>1. i - 1 \in 0 .. WordOf(c) - 1
      BY <1>1
    <3> QED BY <1>2, <1>4, <3>1, GroupsAreFull
  <2>2. SumOf(s, w) = w * W
    BY <2>1, SumOfEqual, WidthType
  <2> QED BY <1>1, <1>3, <1>4, <2>2 DEF First
<1>5. CASE ~Linux
  <2>1. ASSUME NEW i \in 1 .. w PROVE s[i] = machine.groups[i]
    <3>1. PICK j : j = i - 1 /\ j \in 0 .. Len(machine.groups) - 1 /\ j + 1 = i
      BY <1>1, <1>5, MachineFacts DEF IsWord
    <3>2. groupMap[j].count = machine.groups[j + 1]
      BY <1>5, <3>1, ProcessorMapIs
    <3> QED BY <1>2, <3>1, <3>2
  <2>2. SumOf(s, w) = SumOf(machine.groups, w)
    BY <2>1, SumOfSame
  <2> QED BY <1>1, <1>3, <1>5, <2>2 DEF First
<1> QED BY <1>4, <1>5

\* coreMapToCoreList() has every processor of the mask once.
LEMMA CoreListIs ==
  ASSUME Construct, NEW S \in SUBSET Processors, NEW ws, Describes(ws, S)
  PROVE  /\ CoreList(ws) \in Bijection(1 .. Cardinality(S), S)
         /\ Len(CoreList(ws)) = Cardinality(S) /\ Cardinality(S) \in Nat
<1> DEFINE places == UNION {{i} \X ws[i].bits : i \in DOMAIN ws}
           before(p, q) == p[1] < q[1] \/ (p[1] = q[1] /\ p[2] < q[2])
           R == {x \in places \X places : before(x[1], x[2])}
           place == InOrderOf(places, R)
           g == [p \in places |-> p[2] + First(ws[p[1]].word)]
<1>1. /\ ws \in Seq(Masks) /\ DOMAIN ws = 1 .. Len(ws) /\ Len(ws) \in Nat
      /\ \A i \in 1 .. Len(ws) : ws[i] \in Masks /\ ws[i].bits \subseteq Nat
  <2>1. ws \in Seq(Masks)
    BY DEF Describes
  <2>2. DOMAIN ws = 1 .. Len(ws) /\ Len(ws) \in Nat /\ \A i \in 1 .. Len(ws) : ws[i] \in Masks
    BY <2>1
  <2>3. \A w \in Masks : w.bits \subseteq Nat
    BY DEF Masks
  <2> QED BY <2>1, <2>2, <2>3
<1>2. \A p \in places : /\ p = <<p[1], p[2]>> /\ p[1] \in 1 .. Len(ws) /\ p[2] \in ws[p[1]].bits
                        /\ p[1] \in Nat /\ p[2] \in Nat
  BY <1>1
<1>3. \A i \in 1 .. Len(ws) : \A b \in ws[i].bits : <<i, b>> \in places
  BY <1>1
<1> HIDE DEF places
<1>4. ASSUME NEW p \in places
      PROVE  /\ g[p] = p[2] + First(ws[p[1]].word) /\ g[p] \in S
             /\ WordOf(g[p]) = ws[p[1]].word /\ First(ws[p[1]].word) \in Nat
             /\ CalculateOffset(ws[p[1]].word) = First(ws[p[1]].word)
  <2>1. g[p] = p[2] + First(ws[p[1]].word)
    OBVIOUS
  <2>2. g[p] \in S /\ WordOf(g[p]) = ws[p[1]].word
    BY <1>2, <2>1 DEF Describes
  <2>3. g[p] \in Processors
    BY <2>2
  <2> QED BY <2>1, <2>2, <2>3, PlaceOf, OffsetIs
<1>5. DOMAIN g = places
  OBVIOUS
<1> HIDE DEF g
<1>6. g \in [places -> S]
  <2>1. g = [p \in places |-> g[p]]
    BY DEF g
  <2> QED BY <1>4, <2>1
<1>7. ASSUME NEW p \in places, NEW q \in places, g[p] = g[q] PROVE p = q
  <2>1. ws[p[1]].word = ws[q[1]].word
    BY <1>4, <1>7
  <2>2. p[1] = q[1]
    BY <1>2, <2>1 DEF Describes
  <2>3. p[2] = q[2]
    BY <1>2, <1>4, <1>7, <2>2
  <2> QED BY <1>2, <2>2, <2>3
<1>8. ASSUME NEW c \in S PROVE \E p \in places : g[p] = c
  <2>1. PICK i \in 1 .. Len(ws) : WordOf(c) = ws[i].word /\ c - First(WordOf(c)) \in ws[i].bits
    BY DEF Describes
  <2>2. PICK b : b = c - First(WordOf(c)) /\ b + First(WordOf(c)) = c
    BY PlaceOf, ProcessorsType
  <2>3. <<i, b>> \in places
    BY <1>3, <2>1, <2>2
  <2>4. g[<<i, b>>] = c
    BY <1>4, <2>1, <2>2, <2>3
  <2> QED BY <2>3, <2>4
<1>9. g \in Injection(places, S) /\ g \in Surjection(places, S)
  BY <1>6, <1>7, <1>8, Fun_IsInj, Fun_IsSurj
<1>10. IsFiniteSet(S)
  BY ProcessorsType, FS_Subset
<1>11. IsFiniteSet(places) /\ Cardinality(places) = Cardinality(S)
  BY <1>9, <1>10, FS_Injection
<1>12. PICK n \in Nat : n = Cardinality(S)
  BY <1>10, FS_CardinalityType
<1>13. IsOrder(R, places)
  <2>1. ASSUME NEW p \in places, NEW q \in places PROVE <<p, q>> \in R <=> before(p, q)
    OBVIOUS
  <2> HIDE DEF R
  <2>2. \A p \in places : <<p, p>> \notin R
    BY <1>2, <2>1
  <2>3. \A p, q \in places : p = q \/ <<p, q>> \in R \/ <<q, p>> \in R
    <3>1. ASSUME NEW p \in places, NEW q \in places PROVE p = q \/ before(p, q) \/ before(q, p)
      <4>1. p[1] \in Nat /\ p[2] \in Nat /\ q[1] \in Nat /\ q[2] \in Nat
            /\ p = <<p[1], p[2]>> /\ q = <<q[1], q[2]>>
        BY <1>2
      <4>2. p[1] = q[1] /\ p[2] = q[2] => p = q
        BY <4>1
      <4> QED BY <4>1, <4>2
    <3> HIDE DEF before
    <3> QED BY <2>1, <3>1
  <2>4. ASSUME NEW p \in places, NEW q \in places, NEW r \in places,
               <<p, q>> \in R, <<q, r>> \in R
        PROVE  <<p, r>> \in R
    <3>1. before(p, q) /\ before(q, r)
      BY <2>1, <2>4
    <3>2. p[1] \in Nat /\ p[2] \in Nat /\ q[1] \in Nat /\ q[2] \in Nat
          /\ r[1] \in Nat /\ r[2] \in Nat
      BY <1>2
    <3>3. before(p, r)
      BY <3>1, <3>2
    <3> QED BY <2>1, <3>3
  <2> HIDE DEF before
  <2>5. \A p, q, r \in places : <<p, q>> \in R /\ <<q, r>> \in R => <<p, r>> \in R
    BY <2>4
  <2> QED BY <2>2, <2>3, <2>5, Zenon DEF IsOrder
<1> HIDE DEF R
<1>14. place \in Bijection(1 .. n, places)
  BY <1>11, <1>12, <1>13, InOrderIsBijection
<1>15. PICK f : f = CoreList(ws)
  OBVIOUS
<1>16. f = [j \in DOMAIN place |-> place[j][2] + CalculateOffset(ws[place[j][1]].word)]
  BY <1>15 DEF CoreList, places, R
<1> HIDE DEF place
<1>17. /\ place \in [1 .. n -> places]
       /\ \A i, j \in 1 .. n : place[i] = place[j] => i = j
       /\ \A p \in places : \E i \in 1 .. n : place[i] = p
  BY <1>14 DEF Bijection, Injection, Surjection, IsInjective
<1>18. \A j \in 1 .. n : f[j] = g[place[j]]
  BY <1>4, <1>16, <1>17
<1>19. f \in [1 .. n -> S]
  <2>1. f = [j \in 1 .. n |-> f[j]]
    BY <1>16, <1>17
  <2>2. \A j \in 1 .. n : f[j] \in S
    BY <1>4, <1>17, <1>18
  <2> QED BY <2>1, <2>2
<1>20. ASSUME NEW i \in 1 .. n, NEW j \in 1 .. n, f[i] = f[j] PROVE i = j
  <2>1. place[i] = place[j]
    BY <1>7, <1>17, <1>18, <1>20
  <2> QED BY <1>17, <2>1
<1>21. \A c \in S : \E j \in 1 .. n : f[j] = c
  BY <1>8, <1>17, <1>18
<1>22. f \in Bijection(1 .. n, S)
  BY <1>19, <1>20, <1>21, Fun_IsBij
<1>23. Len(f) = n
  BY <1>19, ListIsSeq
<1> QED BY <1>12, <1>15, <1>22, <1>23

-----------------------------------------------------------------------------
(* createVector() distributes evenly.                                      *)

\* The proofs about createVector have what is needed of Slot.
LEMMA SameSlot == Vector!Slot = Slot
BY DEF Vector!Slot, Slot

\* The left half is the larger one.
Half(n) == (n + 1) \div 2
\* Both halves are numbers, and smaller.
LEMMA HalfIs ==
  \A n \in Nat : /\ Half(n) \in Nat /\ Half(n) <= n /\ n - Half(n) \in Nat
                 /\ n > 1 => Half(n) < n /\ n - Half(n) < n /\ Half(n) > 0 /\ n - Half(n) > 0
                 /\ 2 * Half(n) = n \/ 2 * Half(n) = n + 1
  BY DEF Half

\* One thread, or one processor: ...
LEMMA SlotFew ==
  \A n, m, t \in Nat : n <= 1 \/ m <= 1 => Slot[<<n, m, t>>] = 0
BY SameSlot, Vector!SlotOfFew

\* ... otherwise both are halved; ...
LEMMA SlotHalves ==
  ASSUME NEW n \in Nat, NEW m \in Nat, NEW t \in Nat, n > 1, m > 1
  PROVE  Slot[<<n, m, t>>] =
           IF t < Half(n) THEN Slot[<<Half(n), Half(m), t>>]
           ELSE Half(m) + Slot[<<n - Half(n), m - Half(m), t - Half(n)>>]
BY SameSlot, Vector!SlotOfHalves DEF Vector!Half, Half

\* ... and the processor is one of them.
LEMMA SlotIn ==
  \A n, m, t \in Nat : Slot[<<n, m, t>>] \in Nat /\ (m > 0 => Slot[<<n, m, t>>] < m)
BY SameSlot, Vector!SlotType

\* A power of two is halved into powers of two.
LEMMA HalfOfPower ==
  ASSUME NEW m \in Nat, m > 1, IsPowerOfTwo(m)
  PROVE  m = 2 * Half(m) /\ m - Half(m) = Half(m) /\ IsPowerOfTwo(Half(m))
<1>1. m % m = 0
  <2>1. (1 * m + 0) % m = 0
    <3>1. 1 \in Nat /\ 0 \in 0 .. m - 1
      OBVIOUS
    <3> QED BY <3>1, DivisionIsUnique
  <2>2. 1 * m + 0 = m
    OBVIOUS
  <2> QED BY <2>1, <2>2
<1>2. m % 2 = 0
  BY <1>1 DEF IsPowerOfTwo
<1>3. PICK h \in Nat : h = Half(m)
  BY HalfIs
<1>4. m = 2 * h /\ h > 0
  BY <1>2, <1>3 DEF Half
<1>5. ASSUME NEW d \in 2 .. h, h % d = 0 PROVE d % 2 = 0
  <2>1. PICK q \in Nat, r \in 0 .. d - 1, k \in Nat :
          h % d = r /\ q * d = k /\ h = k + r
    BY Division
  <2>2. h = q * d
    BY <1>5, <2>1
  <2>3. PICK p \in Nat : p = 2 * q
    OBVIOUS
  <2>4. p * d = 2 * (q * d)
    BY <2>3
  <2>5. (p * d + 0) % d = 0
    <3>1. d \in Nat /\ d > 0 /\ 0 \in 0 .. d - 1
      OBVIOUS
    <3> QED BY <3>1, DivisionIsUnique
  <2>6. p * d + 0 = m
    BY <1>4, <2>2, <2>4
  <2>7. m % d = 0 /\ d \in 2 .. m
    BY <1>4, <2>5, <2>6
  <2> QED BY <2>7 DEF IsPowerOfTwo
<1>6. IsPowerOfTwo(h)
  BY <1>4, <1>5 DEF IsPowerOfTwo
<1> QED BY <1>3, <1>4, <1>6

\* The threads, of n over m processors, that get processor k.
On(n, m, k) == {t \in 0 .. n - 1 : Slot[<<n, m, t>>] = k}

\* The numbers below n are n.
LEMMA CountTo ==
  ASSUME NEW n \in Nat
  PROVE  IsFiniteSet(0 .. n - 1) /\ Cardinality(0 .. n - 1) = n
<1>1. PICK m \in Int : m = n - 1
  OBVIOUS
<1>2. IsFiniteSet(0 .. m) /\ Cardinality(0 .. m) = IF 0 > m THEN 0 ELSE m - 0 + 1
  BY FS_Interval
<1> QED BY <1>1, <1>2

\* They are finitely many.
LEMMA OnIsFinite ==
  ASSUME NEW n \in Nat, NEW m, NEW k
  PROVE  IsFiniteSet(On(n, m, k)) /\ Cardinality(On(n, m, k)) \in Nat
         /\ Cardinality(On(n, m, k)) <= n
<1>1. On(n, m, k) \in SUBSET (0 .. n - 1)
  BY DEF On
<1> QED BY <1>1, CountTo, FS_Subset, FS_CardinalityType

\* One thread, or one processor, which gets them all.
LEMMA OnFew ==
  ASSUME NEW n \in Nat, NEW m \in Nat, NEW k \in Nat, n <= 1 \/ m <= 1
  PROVE  On(n, m, k) = IF k = 0 THEN 0 .. n - 1 ELSE {}
<1>1. \A t \in 0 .. n - 1 : Slot[<<n, m, t>>] = 0
  BY SlotFew
<1> QED BY <1>1 DEF On

\* The left half of the processors gets the left half of the threads, ...
LEMMA OnLeft ==
  ASSUME NEW n \in Nat, NEW m \in Nat, NEW k \in Nat, n > 1, m > 1, k < Half(m)
  PROVE  On(n, m, k) = On(Half(n), Half(m), k)
<1>1. PICK h \in Nat, i \in Nat : h = Half(n) /\ i = Half(m) /\ h <= n
  BY HalfIs
<1>2. \A t \in 0 .. n - 1 :
        Slot[<<n, m, t>>] = IF t < h THEN Slot[<<h, i, t>>]
                            ELSE i + Slot[<<n - h, m - i, t - h>>]
  <2>1. ASSUME NEW t \in 0 .. n - 1
        PROVE Slot[<<n, m, t>>] = IF t < h THEN Slot[<<h, i, t>>]
                                  ELSE i + Slot[<<n - h, m - i, t - h>>]
    <3>1. t \in Nat
      OBVIOUS
    <3> QED BY <1>1, <3>1, SlotHalves
  <2> QED BY <2>1
<1>3. ASSUME NEW t \in 0 .. n - 1, Slot[<<n, m, t>>] = k PROVE t < h
  <2>1. ASSUME ~(t < h) PROVE FALSE
    <3>1. n - h \in Nat /\ m - i \in Nat /\ t - h \in Nat
      BY <1>1, <2>1, HalfIs
    <3>2. PICK a : a = Slot[<<n - h, m - i, t - h>>]
      OBVIOUS
    <3>3. a \in Nat
      BY <3>1, <3>2, SlotIn
    <3>4. k = i + a
      BY <1>2, <1>3, <2>1, <3>2
    <3> QED BY <1>1, <3>3, <3>4
  <2> QED BY <2>1
<1>4. ASSUME NEW t \in On(n, m, k) PROVE t \in On(h, i, k)
  <2>1. t \in 0 .. n - 1 /\ Slot[<<n, m, t>>] = k
    BY DEF On
  <2>2. t < h
    BY <1>3, <2>1
  <2>3. Slot[<<h, i, t>>] = k
    BY <1>2, <2>1, <2>2
  <2> QED BY <1>1, <2>1, <2>2, <2>3 DEF On
<1>5. ASSUME NEW t \in On(h, i, k) PROVE t \in On(n, m, k)
  <2>1. t \in 0 .. h - 1 /\ Slot[<<h, i, t>>] = k
    BY DEF On
  <2>2. t \in 0 .. n - 1 /\ t < h
    BY <1>1, <2>1
  <2> QED BY <1>2, <2>1, <2>2 DEF On
<1>6. On(n, m, k) = On(h, i, k)
  BY <1>4, <1>5
<1> QED BY <1>1, <1>6

\* ... and the right half the others.
LEMMA OnRight ==
  ASSUME NEW n \in Nat, NEW m \in Nat, NEW k \in Nat, n > 1, m > 1, k >= Half(m)
  PROVE  Cardinality(On(n, m, k)) = Cardinality(On(n - Half(n), m - Half(m), k - Half(m)))
<1>1. PICK h \in Nat, i \in Nat : h = Half(n) /\ i = Half(m) /\ h <= n
  BY HalfIs
<1>2. PICK p \in Nat, q \in Nat, l \in Nat : p = n - h /\ q = m - i /\ l = k - i
  <2>1. k - i \in Nat
    BY <1>1
  <2> QED BY <1>1, <2>1, HalfIs
<1>3. ASSUME NEW t \in Nat
      PROVE  Slot[<<n, m, t>>] = IF t < h THEN Slot[<<h, i, t>>] ELSE i + Slot[<<p, q, t - h>>]
  <2>1. Slot[<<n, m, t>>] = IF t < Half(n) THEN Slot[<<Half(n), Half(m), t>>]
            ELSE Half(m) + Slot[<<n - Half(n), m - Half(m), t - Half(n)>>]
    BY SlotHalves
  <2>2. n - Half(n) = p /\ m - Half(m) = q
    BY <1>1, <1>2
  <2> QED BY <1>1, <2>1, <2>2, Zenon
<1>4. ASSUME NEW t \in On(n, m, k) PROVE t - h \in On(p, q, l) /\ t \in Nat
  <2>1. t \in 0 .. n - 1 /\ Slot[<<n, m, t>>] = k /\ t \in Nat
    BY DEF On
  <2>2. ASSUME t < h PROVE FALSE
    <3>1. Slot[<<h, i, t>>] = k
      BY <1>3, <2>1, <2>2
    <3>2. i > 0
      BY <1>1, HalfIs
    <3>3. Slot[<<h, i, t>>] < i
      BY <2>1, <3>2, SlotIn
    <3> QED BY <1>1, <3>1, <3>3
  <2>3. PICK a : a = Slot[<<p, q, t - h>>]
    OBVIOUS
  <2>4. t - h \in Nat
    BY <2>1, <2>2
  <2>5. a \in Nat
    BY <2>3, <2>4, SlotIn
  <2>6. k = i + a
    BY <1>3, <2>1, <2>2, <2>3
  <2>7. a = l
    BY <1>2, <2>5, <2>6
  <2>8. t - h \in 0 .. p - 1
    BY <1>2, <2>1, <2>4
  <2> QED BY <2>1, <2>3, <2>7, <2>8 DEF On
<1>5. ASSUME NEW u \in On(p, q, l) PROVE u + h \in On(n, m, k) /\ (u + h) - h = u
  <2>1. u \in 0 .. p - 1 /\ Slot[<<p, q, u>>] = l
    BY DEF On
  <2>2. PICK t \in Nat : t = u + h /\ t - h = u /\ ~(t < h) /\ t \in 0 .. n - 1
    BY <1>2, <2>1
  <2>3. Slot[<<n, m, t>>] = i + l
    BY <1>3, <2>1, <2>2
  <2>4. i + l = k
    BY <1>2
  <2> QED BY <2>2, <2>3, <2>4 DEF On
<1>6. PICK f : f = [t \in On(n, m, k) |-> t - h]
  OBVIOUS
<1>7. f \in [On(n, m, k) -> On(p, q, l)]
  BY <1>4, <1>6
<1>8. \A s, t \in On(n, m, k) : f[s] = f[t] => s = t
  BY <1>4, <1>6
<1>9. ASSUME NEW u \in On(p, q, l) PROVE \E t \in On(n, m, k) : f[t] = u
  BY <1>5, <1>6
<1>10. f \in Bijection(On(n, m, k), On(p, q, l))
  BY <1>7, <1>8, <1>9, Fun_IsBij
<1>11. Cardinality(On(p, q, l)) = Cardinality(On(n, m, k))
  <2>1. ExistsBijection(On(n, m, k), On(p, q, l))
    BY <1>10 DEF ExistsBijection
  <2> QED BY <2>1, OnIsFinite, FS_Bijection
<1> QED BY <1>1, <1>2, <1>11

\* If s threads for each processor are enough, none gets more; and if there are enough
\* threads for s on each processor, none gets less: for s = 1, and for any s if the
\* number of processors is a power of two.
Levelled(n) ==
  \A m, s, k \in Nat : k < m /\ (s = 1 \/ IsPowerOfTwo(m)) =>
    /\ n <= m * s => Cardinality(On(n, m, k)) <= s
    /\ m * s <= n => s <= Cardinality(On(n, m, k))

\* It is so for one thread or one processor, ...
LEMMA LevelledFew ==
  ASSUME NEW n \in Nat, NEW m \in Nat, NEW s \in Nat, NEW k \in Nat, k < m, n <= 1 \/ m <= 1
  PROVE  /\ n <= m * s => Cardinality(On(n, m, k)) <= s
         /\ m * s <= n => s <= Cardinality(On(n, m, k))
<1>1. PICK c \in Nat : c = Cardinality(On(n, m, k))
  BY OnIsFinite
<1>2. c = IF k = 0 THEN n ELSE 0
  BY <1>1, OnFew, CountTo, FS_EmptySet
<1>3. CASE m = 1
  BY <1>1, <1>2, <1>3
<1>4. CASE m # 1
  <2>1. n <= 1 /\ m >= 2
    BY <1>4
  <2>2. CASE s = 0
    <3>1. m * s = 0
      BY <2>2
    <3> QED BY <1>1, <1>2, <2>2, <3>1
  <2>3. CASE s # 0
    <3>1. m * s >= 2
      <4>1. 2 * s <= m * s
        BY <2>1, TimesMono
      <4> QED BY <2>3, <4>1
    <3> QED BY <1>1, <1>2, <2>1, <2>3, <3>1
  <2> QED BY <2>2, <2>3
<1> QED BY <1>3, <1>4

\* ... and for the halves of any number of them.
LEMMA AllLevelled == \A n \in Nat : Levelled(n)
<1> DEFINE T == {i \in Nat : ~Levelled(i)}
<1>1. ASSUME T # {} PROVE FALSE
  <2>1. PICK n \in T : \A y \in T : n <= y
    <3>1. T \subseteq Nat
      OBVIOUS
    <3> HIDE DEF T
    <3> QED BY <1>1, <3>1, Vector!LeastNumber
  <2>2. n \in Nat /\ \A i \in Nat : i < n => Levelled(i)
    BY <2>1
  <2>3. ASSUME NEW m \in Nat, NEW s \in Nat, NEW k \in Nat, k < m, s = 1 \/ IsPowerOfTwo(m)
        PROVE  /\ n <= m * s => Cardinality(On(n, m, k)) <= s
               /\ m * s <= n => s <= Cardinality(On(n, m, k))
    <3>1. CASE n <= 1 \/ m <= 1
      BY <2>2, <2>3, <3>1, LevelledFew
    <3>2. CASE n > 1 /\ m > 1
      <4>1. PICK h \in Nat, i \in Nat : h = Half(n) /\ i = Half(m)
        BY <2>2, HalfIs
      <4>2. PICK p \in Nat, q \in Nat : p = n - h /\ q = m - i
        BY <2>2, <4>1, HalfIs
      <4>3. /\ h < n /\ p < n /\ i > 0 /\ q > 0
            /\ 2 * h = n \/ 2 * h = n + 1
            /\ 2 * i = m \/ 2 * i = m + 1
        BY <2>2, <3>2, <4>1, <4>2, HalfIs
      <4>4. s = 1 \/ (IsPowerOfTwo(i) /\ q = i /\ m = 2 * i)
        BY <2>3, <3>2, <4>1, <4>2, HalfOfPower
      <4>5. PICK a \in Nat, b \in Nat, c \in Nat : a = i * s /\ b = q * s /\ c = m * s
        OBVIOUS
      <4>6. /\ n <= c => h <= a /\ p <= b
            /\ c <= n => a <= h /\ b <= p
        <5>1. CASE s = 1
          <6>1. a = i /\ b = q /\ c = m
            BY <4>5, <5>1
          <6> QED BY <2>2, <4>2, <4>3, <6>1
        <5>2. CASE IsPowerOfTwo(i) /\ q = i /\ m = 2 * i
          <6>1. c = 2 * a /\ b = a
            BY <4>5, <5>2
          <6> QED BY <2>2, <4>2, <4>3, <6>1
        <5> QED BY <4>4, <5>1, <5>2
      <4>7. CASE k < i
        <5>1. On(n, m, k) = On(h, i, k)
          BY <2>2, <3>2, <4>1, <4>7, OnLeft
        <5>2. /\ h <= a => Cardinality(On(h, i, k)) <= s
              /\ a <= h => s <= Cardinality(On(h, i, k))
          BY <2>2, <2>3, <4>3, <4>4, <4>5, <4>7 DEF Levelled
        <5> QED BY <4>5, <4>6, <5>1, <5>2
      <4>8. CASE ~(k < i)
        <5>1. PICK l \in Nat : l = k - i /\ l < q
          <6>1. k - i \in Nat /\ k - i < q
            BY <2>3, <4>2, <4>8
          <6> QED BY <6>1
        <5>2. Cardinality(On(n, m, k)) = Cardinality(On(p, q, l))
          <6>1. k >= Half(m)
            BY <4>1, <4>8
          <6> QED BY <2>2, <3>2, <4>1, <4>2, <5>1, <6>1, OnRight
        <5>3. s = 1 \/ IsPowerOfTwo(q)
          BY <4>4
        <5>4. /\ p <= b => Cardinality(On(p, q, l)) <= s
              /\ b <= p => s <= Cardinality(On(p, q, l))
          BY <2>2, <4>3, <4>5, <5>1, <5>3 DEF Levelled
        <5> QED BY <4>5, <4>6, <5>2, <5>4
      <4> QED BY <4>7, <4>8
    <3> QED BY <2>2, <2>3, <3>1, <3>2
  <2>4. Levelled(n)
    BY <2>3 DEF Levelled
  <2> QED BY <2>1, <2>4
<1> QED BY <1>1

\* The number of the lesser members numbers a set of numbers.
LEMMA NumberRank ==
  ASSUME NEW S, IsFiniteSet(S), S \subseteq Int
  PROVE  [x \in S |-> Cardinality({y \in S : y < x})] \in Bijection(S, 0 .. Cardinality(S) - 1)
<1>1. PICK R : R = {p \in S \X S : p[1] < p[2]}
  OBVIOUS
<1>2. \A x, y \in S : <<x, y>> \in R <=> x < y
  BY <1>1
<1>3. IsOrder(R, S)
  BY <1>2 DEF IsOrder
<1>4. Rank(S, R) \in Bijection(S, 0 .. Cardinality(S) - 1)
  BY <1>3, RankIsBijection
<1>5. \A x \in S : Before(S, R, x) = {y \in S : y < x}
  BY <1>2 DEF Before
<1>6. Rank(S, R) = [x \in S |-> Cardinality({y \in S : y < x})]
  BY <1>5 DEF Rank
<1> QED BY <1>4, <1>6

\* A set of one element.
LEMMA OnlyOne ==
  ASSUME NEW S, IsFiniteSet(S), Cardinality(S) <= 1, NEW x \in S, NEW y \in S
  PROVE  x = y
<1>1. Cardinality(S) \in Nat /\ IsFiniteSet(S \ {x}) /\ Cardinality(S \ {x}) = Cardinality(S) - 1
  BY FS_RemoveElement, FS_CardinalityType
<1>2. Cardinality(S \ {x}) \in Nat
  BY <1>1, FS_CardinalityType
<1>3. Cardinality(S \ {x}) = 0
  BY <1>1, <1>2
<1>4. S \ {x} = {}
  BY <1>1, <1>3, FS_EmptySet
<1> QED BY <1>4

\* Enough processors: no two threads get the same one.
LEMMA SlotInjective ==
  ASSUME NEW n \in Nat, NEW m \in Nat, n <= m, NEW s \in 0 .. n - 1, NEW t \in 0 .. n - 1,
         Slot[<<n, m, s>>] = Slot[<<n, m, t>>]
  PROVE  s = t
<1>1. PICK k \in Nat : k = Slot[<<n, m, s>>] /\ k < m
  <2>1. s \in Nat /\ m > 0
    OBVIOUS
  <2> QED BY <2>1, SlotIn
<1>2. s \in On(n, m, k) /\ t \in On(n, m, k)
  BY <1>1 DEF On
<1>3. Cardinality(On(n, m, k)) <= 1
  <2>1. m * 1 = m
    OBVIOUS
  <2> QED BY <1>1, <2>1, AllLevelled DEF Levelled
<1> QED BY <1>2, <1>3, OnIsFinite, OnlyOne

\* Enough threads: each processor gets one.
LEMMA SlotSurjective ==
  ASSUME NEW n \in Nat, NEW m \in Nat, m <= n, NEW k \in 0 .. m - 1
  PROVE  \E t \in 0 .. n - 1 : Slot[<<n, m, t>>] = k
<1>1. Cardinality(On(n, m, k)) >= 1
  <2>1. m * 1 = m /\ k \in Nat /\ k < m
    OBVIOUS
  <2> QED BY <2>1, AllLevelled, OnIsFinite DEF Levelled
<1>2. On(n, m, k) # {}
  BY <1>1, FS_EmptySet
<1> QED BY <1>2 DEF On

-----------------------------------------------------------------------------
(* The vector of the spread strategy.                                      *)

ListOf(k) == IF Len(cacheMap) = 0 THEN <<>> ELSE CoreList(cacheMap[k + 1])
Index(M, t) == Cardinality({s \in M : s < t})

\* What the vector has for a thread that gets the k-th cache.
LEMMA SpreadValue ==
  ASSUME NEW n \in Nat, NEW m \in Nat, m = Len(cacheMap), NEW t \in 1 .. n,
         NEW k, k = Slot[<<n, m, t - 1>>], NEW M, M = On(n, m, k)
  PROVE  /\ SpreadVector(n)[t] =
              IF Len(ListOf(k)) = 0 THEN 0
              ELSE ListOf(k)[Slot[<<Cardinality(M), Len(ListOf(k)), Index(M, t - 1)>>] + 1]
         /\ t - 1 \in M
<1> DEFINE cache == Distribution(n, m)
           map == CacheAffinityMap(n)
           coreList(j) == IF Len(cacheMap) = 0 THEN <<>> ELSE CoreList(cacheMap[j + 1])
           place(j, u) ==
             LET index == Cardinality({s \in map[j] : s < u})
             IN  IF Len(coreList(j)) = 0 THEN 0
                 ELSE coreList(j)[Slot[<<Cardinality(map[j]), Len(coreList(j)), index>>] + 1]
<1>1. cache = [u \in 0 .. n - 1 |-> Slot[<<n, m, u>>]]
  BY DEF Distribution
<1>2. map = [j \in Range(cache) |-> {u \in DOMAIN cache : cache[u] = j}]
  BY DEF CacheAffinityMap
<1>3. t - 1 \in 0 .. n - 1
  OBVIOUS
<1>4. Range(cache) = {Slot[<<n, m, u>>] : u \in 0 .. n - 1}
  <2>1. PICK c : c = cache
    OBVIOUS
  <2>2. DOMAIN c = 0 .. n - 1 /\ \A u \in 0 .. n - 1 : c[u] = Slot[<<n, m, u>>]
    BY <1>1, <2>1
  <2>3. Range(c) = {c[u] : u \in DOMAIN c}
    BY DEF Range
  <2>4. Range(c) = {Slot[<<n, m, u>>] : u \in 0 .. n - 1}
    BY <2>2, <2>3
  <2> HIDE DEF cache
  <2> QED BY <2>1, <2>4
<1>5. k \in DOMAIN map /\ \A j \in DOMAIN map : map[j] = On(n, m, j)
  BY <1>1, <1>2, <1>3, <1>4 DEF On
<1>6. map[k] = M /\ t - 1 \in M
  BY <1>3, <1>5 DEF On
<1>7. SpreadVector(n)[t] = place(CHOOSE j \in DOMAIN map : t - 1 \in map[j], t - 1)
  BY DEF SpreadVector
<1>8. (CHOOSE j \in DOMAIN map : t - 1 \in map[j]) = k
  <2>1. \A j \in DOMAIN map : t - 1 \in map[j] <=> j = k
    BY <1>3, <1>5 DEF On
  <2> HIDE DEF map
  <2> QED BY <1>5, <2>1
<1>9. SpreadVector(n)[t] = place(k, t - 1)
  BY <1>7, <1>8
<1>10. coreList(k) = ListOf(k)
  BY DEF ListOf
<1> HIDE DEF coreList, map
<1>11. place(k, t - 1) =
         IF Len(ListOf(k)) = 0 THEN 0
         ELSE ListOf(k)[Slot[<<Cardinality(M), Len(ListOf(k)), Index(M, t - 1)>>] + 1]
  BY <1>6, <1>10 DEF Index
<1> QED BY <1>6, <1>9, <1>11

\* Without a cache every list is empty.
LEMMA NoCache ==
  ASSUME Construct, machine.caches = {}
  PROVE  /\ Len(cacheMap) \in Nat
         /\ \A n \in Nat : \A t \in 1 .. n : Len(ListOf(Slot[<<n, Len(cacheMap), t - 1>>])) = 0
<1>1. CASE Linux
  <2>1. cacheMap = <<<<>>>>
    BY <1>1 DEF Construct, FromSys, MapOf
  <2>2. Len(cacheMap) = 1 /\ cacheMap[1] = <<>>
    BY <2>1
  <2>3. Len(CoreList(<<>>)) = 0
    <3> DEFINE places == UNION {{i} \X <<>>[i].bits : i \in DOMAIN <<>>}
               R == {x \in places \X places :
                       x[1][1] < x[2][1] \/ (x[1][1] = x[2][1] /\ x[1][2] < x[2][2])}
               place == InOrderOf(places, R)
    <3>1. places = {}
      <4>1. DOMAIN <<>> = {}
        OBVIOUS
      <4> QED BY <4>1
    <3>2. Cardinality(places) = 0
      BY <3>1, FS_EmptySet
    <3> HIDE DEF places
    <3>3. DOMAIN place = 1 .. 0
      BY <3>2 DEF InOrderOf
    <3>4. PICK f : f = CoreList(<<>>)
      OBVIOUS
    <3>5. f = [j \in DOMAIN place |-> place[j][2] + CalculateOffset(<<>>[place[j][1]].word)]
      BY <3>4 DEF CoreList, places
    <3> HIDE DEF place
    <3>6. f \in [1 .. 0 -> Nat]
      BY <3>3, <3>5
    <3>7. Len(f) = 0
      BY <3>6, ListIsSeq
    <3> QED BY <3>4, <3>7
  <2>4. ASSUME NEW n \in Nat, NEW t \in 1 .. n PROVE Len(ListOf(Slot[<<n, 1, t - 1>>])) = 0
    <3>1. Slot[<<n, 1, t - 1>>] = 0
      <4>1. t - 1 \in Nat
        OBVIOUS
      <4> QED BY <4>1, SlotFew
    <3> QED BY <2>2, <2>3, <3>1 DEF ListOf
  <2> QED BY <2>2, <2>4
<1>2. CASE ~Linux
  <2>1. cacheMap = Sorted({})
    BY <1>2 DEF Construct, FromLogicalProcessorInformation
  <2>2. PICK M : M = {Words(S) : S \in {}}
    OBVIOUS
  <2>3. PICK R : R = {p \in M \X M : CompareVectors(p[1], p[2])}
    OBVIOUS
  <2>4. cacheMap = InOrderOf(M, R)
    BY <2>1, <2>2, <2>3 DEF Sorted
  <2>5. M = {}
    BY <2>2
  <2>6. Cardinality(M) = 0
    BY <2>5, FS_EmptySet
  <2>7. cacheMap \in [1 .. 0 -> Nat]
    <3> DEFINE e(i) == CHOOSE x \in M : Cardinality({y \in M : <<y, x>> \in R}) = i - 1
    <3>1. cacheMap = [i \in 1 .. 0 |-> e(i)]
      BY <2>4, <2>6 DEF InOrderOf
    <3> HIDE DEF e
    <3> QED BY <3>1
  <2>8. Len(cacheMap) = 0
    BY <2>7, ListIsSeq
  <2> QED BY <2>8 DEF ListOf
<1> QED BY <1>1, <1>2

\* With caches, each has its list of processors.
LEMMA CacheLists ==
  ASSUME Construct, machine.caches # {}
  PROVE  LET m == Cardinality(machine.caches)
         IN  /\ m \in Nat /\ m > 0 /\ Len(cacheMap) = m
             /\ \E e \in Bijection(1 .. m, machine.caches) :
                  \A k \in 0 .. m - 1 :
                    /\ ListOf(k) \in Bijection(1 .. Cardinality(e[k + 1]), e[k + 1])
                    /\ Len(ListOf(k)) = Cardinality(e[k + 1])
                    /\ Cardinality(e[k + 1]) \in Nat
                    /\ Cardinality(e[k + 1]) > 0
                    /\ e[k + 1] \in machine.caches
<1>1. IsPartition(machine.caches, Processors)
  BY MachineFacts
<1>2. PICK m \in Nat : m = Cardinality(machine.caches) /\ m > 0
  BY <1>1, PartFacts
<1>3. cacheMap = Sorted(machine.caches)
  BY DEF Construct, FromSys, FromLogicalProcessorInformation, MapOf
<1>4. PICK e \in Bijection(1 .. m, machine.caches) :
        cacheMap = [i \in 1 .. m |-> Words(e[i])]
  BY <1>1, <1>2, <1>3, SortedIs
<1>5. e \in [1 .. m -> machine.caches]
  BY <1>4 DEF Bijection, Injection
<1>6. Len(cacheMap) = m
  <2>1. PICK T : T = {Words(S) : S \in machine.caches}
    OBVIOUS
  <2>2. cacheMap \in [1 .. m -> T]
    BY <1>4, <1>5, <2>1
  <2> QED BY <2>2, ListIsSeq
<1>7. ASSUME NEW k \in 0 .. m - 1
      PROVE  /\ ListOf(k) \in Bijection(1 .. Cardinality(e[k + 1]), e[k + 1])
             /\ Len(ListOf(k)) = Cardinality(e[k + 1])
             /\ Cardinality(e[k + 1]) \in Nat
             /\ Cardinality(e[k + 1]) > 0
             /\ e[k + 1] \in machine.caches
  <2>1. PICK i \in 1 .. m : i = k + 1
    BY <1>2
  <2>2. PICK C : C = e[i] /\ C \in machine.caches
    BY <1>5
  <2>3. ListOf(k) = CoreList(Words(C))
    BY <1>2, <1>4, <1>6, <2>1, <2>2 DEF ListOf
  <2>4. C \in SUBSET Processors /\ C # {} /\ IsFiniteSet(C) /\ Describes(Words(C), C)
    BY <1>1, <2>2, PartFacts
  <2>5. /\ CoreList(Words(C)) \in Bijection(1 .. Cardinality(C), C)
        /\ Len(CoreList(Words(C))) = Cardinality(C) /\ Cardinality(C) \in Nat
    BY <2>4, CoreListIs
  <2>6. Cardinality(C) # 0
    BY <2>4, FS_EmptySet
  <2>7. Cardinality(C) > 0
    BY <2>5, <2>6
  <2> QED BY <2>1, <2>2, <2>3, <2>5, <2>7
<1> QED BY <1>2, <1>4, <1>6, <1>7

-----------------------------------------------------------------------------
(* The spread and the logical strategy.                                    *)

\* What the spread strategy does with n threads: e numbers the caches, and the threads
\* that a cache gets are distributed over its list of processors.
Spreads(e, m, n, v) ==
  /\ e \in Bijection(1 .. m, machine.caches)
  /\ \A k \in 0 .. m - 1 :
       /\ e[k + 1] \in machine.caches
       /\ Cardinality(e[k + 1]) \in Nat /\ Cardinality(e[k + 1]) > 0
       /\ ListOf(k) \in Bijection(1 .. Cardinality(e[k + 1]), e[k + 1])
  /\ \A t \in 1 .. n : \E k \in 0 .. m - 1 :
       /\ t - 1 \in On(n, m, k) /\ v[t] \in e[k + 1]
       /\ v[t] = ListOf(k)[Slot[<<Cardinality(On(n, m, k)), Cardinality(e[k + 1]),
                                  Index(On(n, m, k), t - 1)>>] + 1]

\* The places of a cache's threads are numbered from zero.
LEMMA IndexIs ==
  ASSUME NEW n \in Nat, NEW m \in Nat, NEW k
  PROVE  LET M == On(n, m, k)
         IN  [x \in M |-> Index(M, x)] \in Bijection(M, 0 .. Cardinality(M) - 1)
<1>1. PICK M : M = On(n, m, k)
  OBVIOUS
<1>2. IsFiniteSet(M) /\ M \subseteq Int
  <2>1. M \subseteq Int
    BY <1>1 DEF On
  <2> QED BY <1>1, <2>1, OnIsFinite
<1>3. [x \in M |-> Cardinality({y \in M : y < x})] \in Bijection(M, 0 .. Cardinality(M) - 1)
  BY <1>2, NumberRank
<1> QED BY <1>1, <1>3 DEF Index

\* SpreadVector() does so.
LEMMA SpreadIs ==
  ASSUME Construct, machine.caches # {}, NEW n \in Nat,
         NEW m, m = Cardinality(machine.caches)
  PROVE  m \in Nat /\ m > 0 /\ \E e : Spreads(e, m, n, SpreadVector(n))
<1>1. m \in Nat /\ m > 0 /\ Len(cacheMap) = m
  BY CacheLists
<1>2. PICK e \in Bijection(1 .. m, machine.caches) :
        \A k \in 0 .. m - 1 : /\ ListOf(k) \in Bijection(1 .. Cardinality(e[k + 1]), e[k + 1])
                              /\ Len(ListOf(k)) = Cardinality(e[k + 1])
                              /\ Cardinality(e[k + 1]) \in Nat
                              /\ Cardinality(e[k + 1]) > 0
                              /\ e[k + 1] \in machine.caches
  BY CacheLists
<1>3. PICK v : v = SpreadVector(n)
  OBVIOUS
<1>4. ASSUME NEW t \in 1 .. n
      PROVE  \E k \in 0 .. m - 1 :
               /\ t - 1 \in On(n, m, k) /\ v[t] \in e[k + 1]
               /\ v[t] = ListOf(k)[Slot[<<Cardinality(On(n, m, k)), Cardinality(e[k + 1]),
                                          Index(On(n, m, k), t - 1)>>] + 1]
  <2>1. PICK k \in 0 .. m - 1 : k = Slot[<<n, m, t - 1>>]
    <3>1. t - 1 \in Nat
      OBVIOUS
    <3>2. Slot[<<n, m, t - 1>>] \in Nat /\ Slot[<<n, m, t - 1>>] < m
      BY <1>1, <3>1, SlotIn
    <3> QED BY <1>1, <3>2
  <2>2. PICK M : M = On(n, m, k)
    OBVIOUS
  <2>3. PICK s \in Nat : s = Cardinality(e[k + 1]) /\ s > 0 /\ Len(ListOf(k)) = s
    BY <1>2
  <2>4. /\ v[t] = IF Len(ListOf(k)) = 0 THEN 0
                  ELSE ListOf(k)[Slot[<<Cardinality(M), Len(ListOf(k)), Index(M, t - 1)>>] + 1]
        /\ t - 1 \in M
    <3>1. /\ SpreadVector(n)[t] =
                IF Len(ListOf(k)) = 0 THEN 0
                ELSE ListOf(k)[Slot[<<Cardinality(M), Len(ListOf(k)), Index(M, t - 1)>>] + 1]
          /\ t - 1 \in M
      <4>1. PICK z : z = SpreadVector(n)[t]
        OBVIOUS
      <4>2. m = Len(cacheMap)
        BY <1>1
      <4>3. /\ z = IF Len(ListOf(k)) = 0 THEN 0
                  ELSE ListOf(k)[Slot[<<Cardinality(M), Len(ListOf(k)), Index(M, t - 1)>>] + 1]
            /\ t - 1 \in M
        BY <1>1, <2>1, <2>2, <4>1, <4>2, SpreadValue
      <4> QED BY <4>1, <4>3
    <3> QED BY <1>3, <3>1, Zenon
  <2>5. PICK c \in Nat : c = Cardinality(M)
    BY <1>1, <2>2, OnIsFinite
  <2>6. PICK i \in Nat : i = Index(M, t - 1)
    <3>1. [x \in M |-> Index(M, x)] \in Bijection(M, 0 .. c - 1)
      BY <1>1, <2>2, <2>5, IndexIs
    <3>2. [x \in M |-> Index(M, x)] \in [M -> 0 .. c - 1]
      BY <3>1 DEF Bijection, Injection
    <3>3. Index(M, t - 1) \in 0 .. c - 1
      BY <2>4, <3>2
    <3> QED BY <2>5, <3>3
  <2>7. PICK j \in 1 .. s : j = Slot[<<c, s, i>>] + 1
    <3>1. Slot[<<c, s, i>>] \in Nat /\ Slot[<<c, s, i>>] < s
      BY <2>3, <2>5, <2>6, SlotIn
    <3> QED BY <2>3, <3>1
  <2>8. v[t] = ListOf(k)[j]
    BY <2>3, <2>4, <2>5, <2>6, <2>7
  <2>9. ListOf(k) \in [1 .. s -> e[k + 1]]
    BY <1>2, <2>3 DEF Bijection, Injection
  <2>10. v[t] \in e[k + 1]
    BY <2>7, <2>8, <2>9
  <2> QED BY <2>2, <2>3, <2>4, <2>5, <2>6, <2>7, <2>8, <2>10
<1>5. Spreads(e, m, n, v)
  BY <1>2, <1>4 DEF Spreads
<1> QED BY <1>1, <1>3, <1>5

\* The caches of two numbers have no processor in common.
LEMMA CachesApart ==
  ASSUME Construct, NEW e, NEW m \in Nat, NEW n \in Nat, NEW v, Spreads(e, m, n, v),
         NEW j \in 0 .. m - 1, NEW k \in 0 .. m - 1, NEW p, p \in e[j + 1], p \in e[k + 1]
  PROVE  j = k
<1>1. PICK a \in 1 .. m, b \in 1 .. m : a = j + 1 /\ b = k + 1
  OBVIOUS
<1>2. e[a] \in machine.caches /\ e[b] \in machine.caches
  BY <1>1 DEF Spreads
<1>3. e[a] = e[b]
  BY <1>1, <1>2, MachineFacts DEF IsPartition
<1>4. \A x, y \in 1 .. m : e[x] = e[y] => x = y
  <2>1. e \in Injection(1 .. m, machine.caches)
    BY DEF Spreads, Bijection
  <2> QED BY <2>1, Zenon DEF Injection, IsInjective
<1>5. a = b
  BY <1>3, <1>4
<1> QED BY <1>1, <1>5

\* A thread has a processor of a cache just if createVector() gave it the cache.
LEMMA ThreadsOfCache ==
  ASSUME Construct, NEW e, NEW m \in Nat, NEW n \in Nat, NEW v, Spreads(e, m, n, v),
         NEW k \in 0 .. m - 1, NEW t \in 1 .. n
  PROVE  /\ v[t] \in e[k + 1] <=> t - 1 \in On(n, m, k)
         /\ v[t] \in e[k + 1] =>
              v[t] = ListOf(k)[Slot[<<Cardinality(On(n, m, k)), Cardinality(e[k + 1]),
                                      Index(On(n, m, k), t - 1)>>] + 1]
<1>1. PICK j \in 0 .. m - 1 :
        /\ t - 1 \in On(n, m, j) /\ v[t] \in e[j + 1]
        /\ v[t] = ListOf(j)[Slot[<<Cardinality(On(n, m, j)), Cardinality(e[j + 1]),
                                   Index(On(n, m, j), t - 1)>>] + 1]
  BY DEF Spreads
<1>2. v[t] \in e[k + 1] => j = k
  BY <1>1, CachesApart
<1>3. t - 1 \in On(n, m, k) => j = k
  BY <1>1 DEF On
<1> QED BY <1>1, <1>2, <1>3

\* So the threads on a cache are as many as createVector() gave it.
LEMMA CacheLoad ==
  ASSUME Construct, NEW e, NEW m \in Nat, NEW n \in Nat, NEW v, Spreads(e, m, n, v),
         NEW k \in 0 .. m - 1, NEW T, T = {t \in 1 .. n : v[t] \in e[k + 1]}
  PROVE  Cardinality(T) = Cardinality(On(n, m, k))
<1>1. T = {t \in 1 .. n : t - 1 \in On(n, m, k)}
  BY ThreadsOfCache
<1>2. PICK M : M = On(n, m, k) /\ IsFiniteSet(M) /\ M \subseteq 0 .. n - 1
  <2>1. On(n, m, k) \subseteq 0 .. n - 1
    BY DEF On
  <2> QED BY <2>1, OnIsFinite
<1>3. PICK f : f = [x \in M |-> x + 1]
  OBVIOUS
<1>4. f \in [M -> T]
  BY <1>1, <1>2, <1>3
<1>5. ASSUME NEW x \in M, NEW y \in M, f[x] = f[y] PROVE x = y
  BY <1>2, <1>3, <1>5
<1>6. ASSUME NEW t \in T PROVE \E x \in M : f[x] = t
  <2>1. t - 1 \in M /\ (t - 1) + 1 = t
    BY <1>1, <1>2
  <2> QED BY <1>3, <2>1
<1>7. f \in Bijection(M, T)
  BY <1>4, <1>5, <1>6, Fun_IsBij
<1>8. Cardinality(T) = Cardinality(M)
  <2>1. ExistsBijection(M, T)
    BY <1>7 DEF ExistsBijection
  <2> QED BY <1>2, <2>1, FS_Bijection
<1> QED BY <1>2, <1>8

\* A cache of equally large ones has as many processors as the others: m of s each.
LEMMA EqualCaches ==
  ASSUME Construct, NEW e, NEW m \in Nat, NEW n \in Nat, NEW v, Spreads(e, m, n, v),
         machine.caches # {}, NEW s \in Nat, \A C \in machine.caches : Cardinality(C) = s
  PROVE  active_processors = m * s
<1>1. PICK A, B : A = 1 .. m /\ B = 1 .. s
  OBVIOUS
<1>2. IsFiniteSet(A) /\ IsFiniteSet(B) /\ Cardinality(A) = m /\ Cardinality(B) = s
  BY <1>1, FS_Interval
<1>3. IsFiniteSet(A \X B) /\ Cardinality(A \X B) = m * s
  BY <1>2, FS_Product
<1>4. PICK f : f = [x \in A \X B |-> ListOf(x[1] - 1)[x[2]]]
  OBVIOUS
<1>5. ASSUME NEW i \in A
      PROVE  /\ i - 1 \in 0 .. m - 1 /\ e[i] \in machine.caches /\ e[i] \subseteq Processors
             /\ ListOf(i - 1) \in Bijection(B, e[i])
  <2>1. PICK k \in 0 .. m - 1 : k = i - 1 /\ i = k + 1
    BY <1>1
  <2>2. e[i] \in machine.caches /\ ListOf(k) \in Bijection(1 .. Cardinality(e[i]), e[i])
    BY <2>1 DEF Spreads
  <2>3. Cardinality(e[i]) = s
    BY <2>2
  <2>4. e[i] \subseteq Processors
    BY <2>2, MachineFacts DEF IsPartition
  <2> QED BY <1>1, <2>1, <2>2, <2>3, <2>4
<1>6. f \in [A \X B -> Processors]
  <2>1. ASSUME NEW i \in A, NEW j \in B PROVE ListOf(i - 1)[j] \in Processors
    <3>1. ListOf(i - 1) \in [B -> e[i]]
      BY <1>5 DEF Bijection, Injection
    <3> QED BY <1>5, <3>1
  <2> QED BY <1>4, <2>1
<1>7. ASSUME NEW x \in A \X B, NEW y \in A \X B, f[x] = f[y] PROVE x = y
  <2>1. PICK i \in A, j \in B : x = <<i, j>>
    OBVIOUS
  <2>2. PICK k \in A, l \in B : y = <<k, l>>
    OBVIOUS
  <2>3. ListOf(i - 1)[j] = ListOf(k - 1)[l]
    BY <1>4, <1>7, <2>1, <2>2
  <2>4. /\ ListOf(i - 1) \in [B -> e[i]] /\ ListOf(k - 1) \in [B -> e[k]]
        /\ \A a, b \in B : ListOf(i - 1)[a] = ListOf(i - 1)[b] => a = b
    <3>1. ListOf(i - 1) \in Injection(B, e[i]) /\ ListOf(k - 1) \in Injection(B, e[k])
      BY <1>5 DEF Bijection
    <3> QED BY <3>1, Zenon DEF Injection, IsInjective
  <2>5. i - 1 = k - 1
    <3>1. PICK a \in 0 .. m - 1, b \in 0 .. m - 1 : a = i - 1 /\ b = k - 1
      BY <1>5
    <3>2. a + 1 = i /\ b + 1 = k
      BY <1>1, <3>1
    <3>3. PICK p : p = ListOf(i - 1)[j]
      OBVIOUS
    <3>4. p \in e[i] /\ p \in e[k]
      BY <2>3, <2>4, <3>3
    <3>5. a = b
      BY <3>2, <3>4, CachesApart
    <3> QED BY <3>1, <3>5
  <2>6. i = k
    BY <1>1, <2>5
  <2>7. j = l
    BY <2>3, <2>4, <2>6
  <2> QED BY <2>1, <2>2, <2>6, <2>7
<1>8. ASSUME NEW p \in Processors PROVE \E x \in A \X B : f[x] = p
  <2>1. PICK C \in machine.caches : p \in C
    BY MachineFacts DEF IsPartition
  <2>2. PICK i \in A : e[i] = C
    <3>1. e \in Surjection(1 .. m, machine.caches)
      BY DEF Spreads, Bijection
    <3> QED BY <1>1, <3>1 DEF Surjection
  <2>3. PICK j \in B : ListOf(i - 1)[j] = p
    <3>1. ListOf(i - 1) \in Surjection(B, e[i])
      BY <1>5 DEF Bijection
    <3> QED BY <2>1, <2>2, <3>1 DEF Surjection
  <2>4. <<i, j>> \in A \X B /\ f[<<i, j>>] = p
    BY <1>4, <2>3
  <2> QED BY <2>4
<1>9. f \in Bijection(A \X B, Processors)
  BY <1>6, <1>7, <1>8, Fun_IsBij
<1>10. Cardinality(Processors) = Cardinality(A \X B)
  <2>1. ExistsBijection(A \X B, Processors)
    BY <1>9 DEF ExistsBijection
  <2> QED BY <1>3, <2>1, FS_Bijection
<1> QED BY <1>3, <1>10, ProcessorsType

\* Processors are shared only where threads are more, and idle only where they are fewer.
Shares(v, n) ==
  /\ n <= active_processors => \A s, t \in 1 .. n : v[s] = v[t] => s = t
  /\ active_processors <= n => \A p \in Processors : \E t \in 1 .. n : v[t] = p

\* The threads that v gives a processor of C; and the same of caches.
Load(v, n, C) == Cardinality({t \in 1 .. n : v[t] \in C})
SharesCaches(v, n) ==
  machine.caches # {} =>
    /\ n <= Cardinality(machine.caches) => \A C \in machine.caches : Load(v, n, C) <= 1
    /\ Cardinality(machine.caches) <= n => \A C \in machine.caches : Load(v, n, C) >= 1

\* The vector is a function of the threads ...
LEMMA VectorOf ==
  ASSUME NEW n \in Nat, NEW v, v = SpreadVector(n)
  PROVE  v = [t \in 1 .. n |-> v[t]]
<1> DEFINE map == CacheAffinityMap(n)
           coreList(k) == IF Len(cacheMap) = 0 THEN <<>> ELSE CoreList(cacheMap[k + 1])
           place(k, t) ==
             LET index == Cardinality({s \in map[k] : s < t})
             IN  IF Len(coreList(k)) = 0 THEN 0
                 ELSE coreList(k)[Slot[<<Cardinality(map[k]), Len(coreList(k)), index>>] + 1]
           f(t) == place(CHOOSE k \in DOMAIN map : t - 1 \in map[k], t - 1)
<1>1. v = [t \in 1 .. n |-> f(t)]
  BY DEF SpreadVector
<1> HIDE DEF f
<1> QED BY <1>1

\* ... to processors.
LEMMA SpreadType ==
  ASSUME Construct, NEW n \in Nat, NEW v, v = SpreadVector(n)
  PROVE  v \in [1 .. n -> Processors]
<1>1. v = [t \in 1 .. n |-> v[t]]
  BY VectorOf
<1>2. ASSUME NEW t \in 1 .. n PROVE v[t] \in Processors
  <2>1. CASE machine.caches = {}
    <3>1. PICK m \in Nat : m = Len(cacheMap)
      BY <2>1, NoCache
    <3>2. PICK k : k = Slot[<<n, m, t - 1>>]
      OBVIOUS
    <3>3. PICK M : M = On(n, m, k)
      OBVIOUS
    <3>4. PICK z : z = SpreadVector(n)[t]
      OBVIOUS
    <3>5. z = IF Len(ListOf(k)) = 0 THEN 0
              ELSE ListOf(k)[Slot[<<Cardinality(M), Len(ListOf(k)), Index(M, t - 1)>>] + 1]
      BY <3>1, <3>2, <3>3, <3>4, SpreadValue
    <3>6. Len(ListOf(Slot[<<n, Len(cacheMap), t - 1>>])) = 0
      BY <2>1, NoCache
    <3>7. Len(ListOf(k)) = 0
      BY <3>1, <3>2, <3>6
    <3>8. z = 0
      BY <3>5, <3>7
    <3>9. 0 \in Processors
      BY MachineFacts DEF Processors
    <3> QED BY <3>4, <3>8, <3>9
  <2>2. CASE machine.caches # {}
    <3>1. PICK m : m = Cardinality(machine.caches)
      OBVIOUS
    <3>2. PICK e : Spreads(e, m, n, v)
      BY <2>2, <3>1, SpreadIs
    <3>3. PICK C \in machine.caches : v[t] \in C
      <4>1. PICK k \in 0 .. m - 1 : v[t] \in e[k + 1]
        BY <3>2 DEF Spreads
      <4>2. e[k + 1] \in machine.caches
        BY <3>2 DEF Spreads
      <4> QED BY <4>1, <4>2
    <3> QED BY <2>2, <3>3, MachineFacts DEF IsPartition
  <2> QED BY <2>1, <2>2
<1>3. [t \in 1 .. n |-> v[t]] \in [1 .. n -> Processors]
  BY <1>2
<1> QED BY <1>1, <1>3

\* Spread shares caches as promised, whatever they are, ...
LEMMA SpreadSharesCaches ==
  ASSUME Construct, NEW n \in Nat, NEW v, v = SpreadVector(n)
  PROVE  SharesCaches(v, n)
<1>1. SUFFICES ASSUME machine.caches # {}
               PROVE  /\ n <= Cardinality(machine.caches) =>
                           \A C \in machine.caches : Load(v, n, C) <= 1
                      /\ Cardinality(machine.caches) <= n =>
                           \A C \in machine.caches : Load(v, n, C) >= 1
  BY DEF SharesCaches
<1>2. PICK m \in Nat : m = Cardinality(machine.caches) /\ m > 0
  BY <1>1, SpreadIs
<1>3. PICK e : Spreads(e, m, n, v)
  BY <1>1, <1>2, SpreadIs
<1>4. ASSUME NEW C \in machine.caches
      PROVE  /\ n <= m => Load(v, n, C) <= 1
             /\ m <= n => Load(v, n, C) >= 1
  <2>1. PICK i \in 1 .. m : e[i] = C
    <3>1. e \in Bijection(1 .. m, machine.caches)
      BY <1>3 DEF Spreads
    <3> QED BY <3>1, Fun_BijectionProperties
  <2>2. PICK k \in 0 .. m - 1 : k + 1 = i /\ k \in Nat /\ k < m
    <3>1. i - 1 \in 0 .. m - 1 /\ (i - 1) + 1 = i
      OBVIOUS
    <3> QED BY <3>1
  <2>3. PICK T : T = {t \in 1 .. n : v[t] \in e[k + 1]}
    OBVIOUS
  <2>4. Cardinality(T) = Cardinality(On(n, m, k))
    BY <1>3, <2>3, CacheLoad
  <2>5. Load(v, n, C) = Cardinality(T)
    BY <2>1, <2>2, <2>3 DEF Load
  <2>6. PICK c \in Nat : c = Cardinality(On(n, m, k))
    BY OnIsFinite
  <2>7. /\ n <= m => c <= 1
        /\ m <= n => 1 <= c
    <3>1. m * 1 = m
      OBVIOUS
    <3>2. /\ n <= m * 1 => Cardinality(On(n, m, k)) <= 1
          /\ m * 1 <= n => 1 <= Cardinality(On(n, m, k))
      BY <2>2, AllLevelled DEF Levelled
    <3> QED BY <2>6, <3>1, <3>2
  <2> QED BY <2>4, <2>5, <2>6, <2>7
<1> QED BY <1>2, <1>4

\* ... and processors, if the caches are regular.
LEMMA SpreadShares ==
  ASSUME Construct, RegularCaches, NEW n \in Nat, NEW v, v = SpreadVector(n)
  PROVE  Shares(v, n)
<1>1. PICK m \in Nat : m = Cardinality(machine.caches) /\ m > 0 /\ IsPowerOfTwo(m)
  <2>1. machine.caches # {}
    <3>1. Cardinality({}) = 0
      BY FS_EmptySet
    <3> QED BY <3>1 DEF RegularCaches, IsPowerOfTwo
  <2> QED BY <2>1, SpreadIs DEF RegularCaches
<1>2. machine.caches # {}
  BY <1>1, FS_EmptySet
<1>3. PICK e : Spreads(e, m, n, v)
  BY <1>1, <1>2, SpreadIs
<1>4. PICK s \in Nat : s > 0 /\ \A C \in machine.caches : Cardinality(C) = s
  <2>1. 0 \in 0 .. m - 1
    BY <1>1
  <2>2. e[0 + 1] \in machine.caches /\ Cardinality(e[0 + 1]) \in Nat /\ Cardinality(e[0 + 1]) > 0
    BY <1>3, <2>1 DEF Spreads
  <2> QED BY <2>2 DEF RegularCaches
<1>5. active_processors = m * s /\ active_processors \in Nat
  BY <1>2, <1>3, <1>4, EqualCaches, MachineFacts
<1>6. ASSUME NEW k \in 0 .. m - 1
      PROVE  /\ e[k + 1] \in machine.caches /\ Cardinality(e[k + 1]) = s
             /\ ListOf(k) \in Bijection(1 .. s, e[k + 1])
             /\ Cardinality(On(n, m, k)) \in Nat
             /\ n <= active_processors => Cardinality(On(n, m, k)) <= s
             /\ active_processors <= n => s <= Cardinality(On(n, m, k))
  <2>1. /\ e[k + 1] \in machine.caches
        /\ ListOf(k) \in Bijection(1 .. Cardinality(e[k + 1]), e[k + 1])
    BY <1>3 DEF Spreads
  <2>2. Cardinality(e[k + 1]) = s
    BY <1>4, <2>1
  <2>3. /\ n <= m * s => Cardinality(On(n, m, k)) <= s
        /\ m * s <= n => s <= Cardinality(On(n, m, k))
    BY <1>1, AllLevelled DEF Levelled
  <2> QED BY <1>5, <2>1, <2>2, <2>3, OnIsFinite
<1>7. ASSUME n <= active_processors, NEW t \in 1 .. n, NEW u \in 1 .. n, v[t] = v[u]
      PROVE  t = u
  <2>1. PICK k \in 0 .. m - 1 : v[t] \in e[k + 1]
    BY <1>3 DEF Spreads
  <2>2. PICK M : M = On(n, m, k)
    OBVIOUS
  <2>3. PICK c \in Nat : c = Cardinality(M) /\ c <= s
    BY <1>6, <1>7, <2>2
  <2>4. PICK f : f = [x \in M |-> Index(M, x)]
    OBVIOUS
  <2>5. f \in Bijection(M, 0 .. c - 1)
    BY <2>2, <2>3, <2>4, IndexIs
  <2>6. f \in [M -> 0 .. c - 1] /\ \A x, y \in M : f[x] = f[y] => x = y
    BY <2>5, Fun_BijectionProperties
  <2>7. t - 1 \in M /\ u - 1 \in M
    <3>1. v[u] \in e[k + 1]
      BY <1>7, <2>1
    <3> QED BY <1>3, <2>1, <2>2, <3>1, ThreadsOfCache
  <2>8. PICK i \in 0 .. c - 1, j \in 0 .. c - 1 : i = f[t - 1] /\ j = f[u - 1]
    BY <2>6, <2>7
  <2>9. i = Index(M, t - 1) /\ j = Index(M, u - 1)
    BY <2>4, <2>7, <2>8
  <2>10. PICK a \in 1 .. s, b \in 1 .. s : a = Slot[<<c, s, i>>] + 1 /\ b = Slot[<<c, s, j>>] + 1
    <3>1. i \in Nat /\ j \in Nat
      OBVIOUS
    <3>2. /\ Slot[<<c, s, i>>] \in Nat /\ Slot[<<c, s, i>>] < s
          /\ Slot[<<c, s, j>>] \in Nat /\ Slot[<<c, s, j>>] < s
      BY <1>4, <2>3, <3>1, SlotIn
    <3> QED BY <3>2
  <2>11. v[t] = ListOf(k)[a] /\ v[u] = ListOf(k)[b]
    <3>1. v[u] \in e[k + 1]
      BY <1>7, <2>1
    <3>2. Cardinality(e[k + 1]) = s
      BY <1>6
    <3>3. v[t] = ListOf(k)[Slot[<<Cardinality(On(n, m, k)), Cardinality(e[k + 1]),
                                  Index(On(n, m, k), t - 1)>>] + 1]
      BY <1>3, <2>1, ThreadsOfCache
    <3>4. v[u] = ListOf(k)[Slot[<<Cardinality(On(n, m, k)), Cardinality(e[k + 1]),
                                  Index(On(n, m, k), u - 1)>>] + 1]
      BY <1>3, <3>1, ThreadsOfCache
    <3> QED BY <2>2, <2>3, <2>9, <2>10, <3>2, <3>3, <3>4
  <2>12. a = b
    <3>1. ListOf(k) \in Bijection(1 .. s, e[k + 1])
      BY <1>6
    <3>2. \A x, y \in 1 .. s : ListOf(k)[x] = ListOf(k)[y] => x = y
      BY <3>1, Fun_BijectionProperties
    <3> QED BY <1>7, <2>11, <3>2
  <2>13. i = j
    <3>1. Slot[<<c, s, i>>] = Slot[<<c, s, j>>]
      <4>1. i \in Nat /\ j \in Nat
        OBVIOUS
      <4>2. Slot[<<c, s, i>>] \in Nat /\ Slot[<<c, s, j>>] \in Nat
        BY <4>1, SlotIn
      <4> QED BY <2>10, <2>12, <4>2
    <3> QED BY <2>3, <3>1, SlotInjective
  <2>14. t - 1 = u - 1
    BY <2>6, <2>7, <2>8, <2>13
  <2> QED BY <2>14
<1>8. ASSUME active_processors <= n, NEW p \in Processors
      PROVE  \E t \in 1 .. n : v[t] = p
  <2>1. PICK C \in machine.caches : p \in C
    BY <1>2, MachineFacts DEF IsPartition
  <2>2. PICK l \in 1 .. m : e[l] = C
    <3>1. e \in Bijection(1 .. m, machine.caches)
      BY <1>3 DEF Spreads
    <3> QED BY <3>1, Fun_BijectionProperties
  <2>3. PICK k \in 0 .. m - 1 : k + 1 = l
    <3>1. l - 1 \in 0 .. m - 1 /\ (l - 1) + 1 = l
      OBVIOUS
    <3> QED BY <3>1
  <2>4. PICK M : M = On(n, m, k)
    OBVIOUS
  <2>5. PICK c \in Nat : c = Cardinality(M) /\ s <= c
    BY <1>6, <1>8, <2>4
  <2>6. PICK a \in 1 .. s : ListOf(k)[a] = p
    <3>1. ListOf(k) \in Bijection(1 .. s, e[k + 1])
      BY <1>6
    <3> QED BY <2>1, <2>2, <2>3, <3>1, Fun_BijectionProperties
  <2>7. PICK i \in 0 .. c - 1 : Slot[<<c, s, i>>] = a - 1
    <3>1. a - 1 \in 0 .. s - 1
      OBVIOUS
    <3>2. PICK q \in 0 .. s - 1 : q = a - 1
      BY <3>1
    <3> QED BY <2>5, <3>2, SlotSurjective
  <2>8. PICK x \in M : Index(M, x) = i
    <3>1. PICK f : f = [y \in M |-> Index(M, y)]
      OBVIOUS
    <3>2. f \in Bijection(M, 0 .. c - 1)
      BY <2>4, <2>5, <3>1, IndexIs
    <3>3. PICK x \in M : f[x] = i
      <4>1. PICK D : D = 0 .. c - 1
        OBVIOUS
      <4>2. f \in Bijection(M, D) /\ i \in D
        BY <3>2, <4>1
      <4>3. \A y \in D : \E x \in M : f[x] = y
        BY <4>2, Fun_BijectionProperties
      <4> QED BY <4>2, <4>3
    <3> QED BY <3>1, <3>3
  <2>9. PICK t \in 1 .. n : t - 1 = x
    <3>1. x \in 0 .. n - 1
      BY <2>4 DEF On
    <3>2. x + 1 \in 1 .. n /\ (x + 1) - 1 = x
      BY <3>1
    <3> QED BY <3>2
  <2>10. v[t] \in e[k + 1]
    BY <1>3, <2>4, <2>9, ThreadsOfCache
  <2>11. v[t] = ListOf(k)[Slot[<<Cardinality(On(n, m, k)), Cardinality(e[k + 1]),
                                 Index(On(n, m, k), t - 1)>>] + 1]
    BY <1>3, <2>10, ThreadsOfCache
  <2>12. Cardinality(e[k + 1]) = s
    BY <1>6
  <2>13. v[t] = ListOf(k)[(a - 1) + 1]
    BY <2>4, <2>5, <2>7, <2>8, <2>9, <2>11, <2>12
  <2>14. (a - 1) + 1 = a
    OBVIOUS
  <2> QED BY <2>6, <2>13, <2>14
<1> QED BY <1>7, <1>8 DEF Shares

\* The logical strategy takes the processors in turn.
LEMMA LogicalShares ==
  ASSUME Construct, NEW n \in Nat, NEW v, v = [t \in 1 .. n |-> (t - 1) % active_processors]
  PROVE  v \in [1 .. n -> Processors] /\ Shares(v, n)
<1>1. PICK w \in Nat : w = active_processors /\ w > 0
  BY MachineFacts
<1>2. Processors = 0 .. w - 1
  BY <1>1 DEF Processors
<1>3. ASSUME NEW t \in 1 .. n PROVE (t - 1) % w \in 0 .. w - 1
  <2>1. t - 1 \in Nat
    OBVIOUS
  <2> QED BY <1>1, <2>1, Division
<1>4. v \in [1 .. n -> Processors]
  BY <1>1, <1>2, <1>3
<1>5. ASSUME NEW t \in 1 .. n, t <= w PROVE v[t] = t - 1
  <2>1. PICK r \in 0 .. w - 1 : r = t - 1
    BY <1>5
  <2>2. 0 \in Nat /\ (0 * w + r) % w = r
    BY <1>1, DivisionIsUnique
  <2>3. 0 * w + r = r
    BY <1>1
  <2> QED BY <1>1, <2>1, <2>2, <2>3
<1>6. ASSUME n <= w, NEW s \in 1 .. n, NEW t \in 1 .. n, v[s] = v[t] PROVE s = t
  BY <1>1, <1>5, <1>6
<1>7. ASSUME w <= n, NEW p \in Processors PROVE \E t \in 1 .. n : v[t] = p
  <2>1. p + 1 \in 1 .. n /\ p + 1 <= w /\ (p + 1) - 1 = p
    BY <1>1, <1>2, <1>7
  <2> QED BY <1>5, <2>1
<1> QED BY <1>1, <1>4, <1>6, <1>7 DEF Shares

-----------------------------------------------------------------------------
(* The core strategy: rounds over sets of processors ...                   *)

\* The core strategy: e are the cores, left[c] the processors that are left of core c in
\* the current round, v the vector so far and i the next core.  The first round has each
\* thread on the first processor of a core of its own.
IsFirst(p, S) == p \in S /\ \A x \in S : p <= x
Rounds(e, m, left, v, i) ==
  /\ \A c \in 1 .. m : c <= Len(v) => IsFirst(v[c], e[c])
  /\ Len(v) < m => i = Len(v) + 1 /\ \A c \in i .. m : left[c] = e[c]
\* Cores are not empty, and apart.
Cores(e, m) ==
  /\ m \in Nat /\ m > 0
  /\ \A c \in 1 .. m : e[c] # {} /\ e[c] \subseteq Nat
  /\ \A c, d \in 1 .. m : c = d \/ e[c] \cap e[d] = {}

\* A vector with one more processor.
LEMMA AppendIs ==
  ASSUME NEW v \in Seq(Nat), NEW p \in Nat, NEW w, w = Append(v, p)
  PROVE  /\ Len(v) \in Nat /\ w \in Seq(Nat) /\ Len(w) = Len(v) + 1
         /\ \A t \in 1 .. Len(v) : w[t] = v[t]
         /\ w[Len(v) + 1] = p
         /\ Range(w) = Range(v) \cup {p}
<1>1. PICK n \in Nat : n = Len(v)
  OBVIOUS
<1>2. DOMAIN v = 1 .. n /\ DOMAIN w = 1 .. n + 1 /\ Len(w) = n + 1 /\ w \in Seq(Nat)
  BY <1>1
<1>3. (\A t \in 1 .. n : w[t] = v[t]) /\ w[n + 1] = p
  BY <1>1
<1>4. Range(v) = {v[t] : t \in 1 .. n} /\ Range(w) = {w[t] : t \in 1 .. n + 1}
  BY <1>2 DEF Range
<1>5. Range(w) = Range(v) \cup {p}
  <2>1. ASSUME NEW x \in Range(w) PROVE x \in Range(v) \cup {p}
    <3>1. PICK t \in 1 .. n + 1 : x = w[t]
      BY <1>4
    <3>2. CASE t = n + 1
      BY <1>3, <3>1, <3>2
    <3>3. CASE t # n + 1
      <4>1. t \in 1 .. n
        BY <3>3
      <4> QED BY <1>3, <1>4, <3>1, <4>1
    <3> QED BY <3>2, <3>3
  <2>2. ASSUME NEW x \in Range(v) PROVE x \in Range(w)
    <3>1. PICK t \in 1 .. n : x = v[t]
      BY <1>4
    <3>2. t \in 1 .. n + 1
      OBVIOUS
    <3>3. x = w[t]
      BY <1>3, <3>1
    <3> QED BY <1>4, <3>2, <3>3
  <2>3. p \in Range(w)
    <3>1. n + 1 \in 1 .. n + 1
      OBVIOUS
    <3> QED BY <1>3, <1>4, <3>1
  <2> QED BY <2>1, <2>2, <2>3
<1> QED BY <1>1, <1>2, <1>3, <1>5

\* The core after the last is the first.
LEMMA NextIs ==
  ASSUME NEW m \in Nat, m > 0, NEW i \in 1 .. m
  PROVE  /\ (i % m) + 1 \in 1 .. m
         /\ i < m => (i % m) + 1 = i + 1
         /\ i = m => (i % m) + 1 = 1
<1>1. CASE i < m
  <2>1. i \in 0 .. m - 1 /\ 0 \in Nat
    BY <1>1
  <2>2. (0 * m + i) % m = i
    BY <2>1, DivisionIsUnique
  <2>3. 0 * m + i = i
    OBVIOUS
  <2> QED BY <1>1, <2>2, <2>3
<1>2. CASE i = m
  <2>1. 1 \in Nat /\ 0 \in 0 .. m - 1
    OBVIOUS
  <2>2. (1 * m + 0) % m = 0
    BY <2>1, DivisionIsUnique
  <2>3. 1 * m + 0 = m
    OBVIOUS
  <2> QED BY <1>2, <2>2, <2>3
<1> QED BY <1>1, <1>2

\* A round passes over a core of which nothing is left.
LEMMA RoundsSkip ==
  ASSUME NEW e, NEW m, Cores(e, m), NEW v \in Seq(Nat), NEW i \in 1 .. m,
         NEW left, Rounds(e, m, left, v, i), left[i] = {}, NEW kept, NEW j
  PROVE  Rounds(e, m, kept, v, j)
<1>1. m \in Nat /\ m > 0 /\ e[i] # {}
  BY DEF Cores
<1>2. ASSUME Len(v) < m PROVE FALSE
  <2>1. left[i] = e[i]
    BY <1>1, <1>2 DEF Rounds
  <2> QED BY <1>1, <2>1
<1> QED BY <1>2 DEF Rounds

\* A round takes the first processor that is left of a core.
LEMMA RoundsTake ==
  ASSUME NEW e, NEW m, Cores(e, m), NEW v \in Seq(Nat), NEW i \in 1 .. m,
         NEW left, Rounds(e, m, left, v, i), NEW p, IsFirst(p, left[i]),
         left[i] \subseteq e[i], NEW kept, \A c \in 1 .. m : c # i => kept[c] = left[c],
         NEW j, j = (i % m) + 1, NEW w, w = Append(v, p)
  PROVE  Rounds(e, m, kept, w, j)
<1>1. m \in Nat /\ m > 0 /\ p \in e[i] /\ p \in Nat
  BY DEF Cores, IsFirst
<1>2. PICK n \in Nat : n = Len(v) /\ Len(w) = n + 1 /\ w[n + 1] = p
                       /\ \A t \in 1 .. n : w[t] = v[t]
  BY <1>1, AppendIs
<1>3. /\ \A c \in 1 .. m : c <= n => IsFirst(v[c], e[c])
      /\ n < m => i = n + 1 /\ \A c \in i .. m : left[c] = e[c]
  BY <1>2 DEF Rounds
<1>4. ASSUME NEW c \in 1 .. m, c <= n + 1 PROVE IsFirst(w[c], e[c])
  <2>1. CASE c <= n
    <3>1. c \in 1 .. n
      BY <2>1
    <3> QED BY <1>2, <1>3, <2>1, <3>1
  <2>2. CASE c = n + 1
    <3>1. i = c /\ left[i] = e[i]
      BY <1>1, <1>3, <2>2
    <3> QED BY <1>2, <2>2, <3>1
  <2>3. c <= n \/ c = n + 1
    BY <1>1, <1>4
  <2> QED BY <2>1, <2>2, <2>3, Zenon
<1>5. ASSUME n + 1 < m PROVE j = n + 2 /\ \A c \in j .. m : kept[c] = e[c]
  <2>1. i = n + 1 /\ i < m
    BY <1>1, <1>3, <1>5
  <2>2. j = i + 1
    BY <1>1, <2>1, NextIs
  <2>3. ASSUME NEW c \in j .. m PROVE kept[c] = e[c]
    <3>1. c \in 1 .. m /\ c \in i .. m /\ c # i
      BY <1>1, <2>1, <2>2
    <3>2. left[c] = e[c]
      BY <1>1, <1>3, <2>1, <3>1
    <3> QED BY <3>1, <3>2
  <2> QED BY <2>1, <2>2, <2>3
<1> QED BY <1>2, <1>4, <1>5 DEF Rounds

-----------------------------------------------------------------------------
(* ... which the words of each core are.                                   *)

\* The processors that the words describe, and those that are left of them with a mask of
\* the j-th word.
CoreOf(ws) ==
  {q \in Processors : \E k \in 1 .. Len(ws) :
     WordOf(q) = ws[k].word /\ q - First(WordOf(q)) \in ws[k].bits}
LeftOf(ws, mask, j) ==
  {q \in CoreOf(ws) : \E k \in 1 .. Len(ws) :
     /\ WordOf(q) = ws[k].word
     /\ k > j \/ (k = j /\ q - First(WordOf(q)) \in mask.bits)}
\* The mask is what is left of the j-th word.
IsCurrent(ws, mask, j) ==
  /\ mask \in Masks /\ j \in 0 .. Len(ws)
  /\ mask.bits # {} => j >= 1 /\ mask.word = ws[j].word /\ mask.bits \subseteq ws[j].bits

\* The words describe the core.
LEMMA CoreIs ==
  ASSUME Construct, NEW ws, NEW S \in SUBSET Processors, Describes(ws, S)
  PROVE  CoreOf(ws) = S
<1>1. ASSUME NEW q \in Processors, NEW k \in 1 .. Len(ws), WordOf(q) = ws[k].word,
             q - First(WordOf(q)) \in ws[k].bits
      PROVE  q \in S
  <2>1. PICK b : b = q - First(WordOf(q))
    OBVIOUS
  <2>2. b + First(ws[k].word) \in S
    BY <1>1, <2>1 DEF Describes
  <2>3. q \in Nat /\ First(WordOf(q)) \in Nat
    BY ProcessorsType, PlaceOf
  <2>4. b + First(ws[k].word) = q
    BY <1>1, <2>1, <2>3
  <2> QED BY <2>2, <2>4
<1>2. ASSUME NEW q \in S
      PROVE  q \in CoreOf(ws)
  BY DEF CoreOf, Describes
<1> QED BY <1>1, <1>2 DEF CoreOf

\* What is left is left of the core, a word after the current one or a bit of it.
LEMMA LeftIs ==
  ASSUME Construct, NEW ws, NEW S \in SUBSET Processors, Describes(ws, S), NEW mask, NEW j,
         NEW q, NEW k \in 1 .. Len(ws), WordOf(q) = ws[k].word
  PROVE  q \in LeftOf(ws, mask, j) <=>
           q \in S /\ (k > j \/ (k = j /\ q - First(WordOf(q)) \in mask.bits))
<1>1. \A l \in 1 .. Len(ws) : WordOf(q) = ws[l].word => l = k
  BY DEF Describes
<1>2. CoreOf(ws) = S
  BY CoreIs
<1> QED BY <1>1, <1>2 DEF LeftOf

\* A processor of a core has its bit in one of the words.
LEMMA PlaceIn ==
  ASSUME Construct, NEW ws, NEW S \in SUBSET Processors, Describes(ws, S), NEW q \in S
  PROVE  \E k \in 1 .. Len(ws) : WordOf(q) = ws[k].word /\ q - First(WordOf(q)) \in ws[k].bits
BY DEF Describes

\* With the first word a core begins with all its processors, ...
LEMMA LeftStart ==
  ASSUME Construct, NEW ws, NEW S \in SUBSET Processors, Describes(ws, S)
  PROVE  LeftOf(ws, ws[1], 1) = S /\ IsCurrent(ws, ws[1], 1)
<1>1. ws \in Seq(Masks) /\ Len(ws) \in Nat /\ Len(ws) > 0 /\ ws[1] \in Masks
  BY DEF Describes
<1>2. IsCurrent(ws, ws[1], 1)
  BY <1>1 DEF IsCurrent
<1>3. ASSUME NEW q \in S PROVE q \in LeftOf(ws, ws[1], 1)
  <2>1. PICK k \in 1 .. Len(ws) : WordOf(q) = ws[k].word /\ q - First(WordOf(q)) \in ws[k].bits
    BY PlaceIn
  <2>2. PICK mask : mask = ws[1]
    OBVIOUS
  <2>3. k > 1 \/ (k = 1 /\ q - First(WordOf(q)) \in mask.bits)
    BY <1>1, <2>1, <2>2
  <2>4. q \in LeftOf(ws, mask, 1)
    BY <2>1, <2>3, LeftIs
  <2> QED BY <2>2, <2>4
<1>4. LeftOf(ws, ws[1], 1) \subseteq S
  BY CoreIs DEF LeftOf
<1> QED BY <1>2, <1>3, <1>4

\* ... and so it does again once nothing is left of it.
LEMMA LeftAgain ==
  ASSUME Construct, NEW ws, NEW S \in SUBSET Processors, Describes(ws, S),
         NEW mask, NEW j, IsCurrent(ws, mask, j), mask.bits = {}
  PROVE  /\ LeftOf(ws, mask, 0) = S /\ IsCurrent(ws, mask, 0)
         /\ j = Len(ws) => LeftOf(ws, mask, j) = {}
<1>1. Len(ws) \in Nat
  BY DEF Describes
<1>2. IsCurrent(ws, mask, 0)
  BY <1>1 DEF IsCurrent
<1>3. ASSUME NEW q \in S PROVE q \in LeftOf(ws, mask, 0)
  <2>1. PICK k \in 1 .. Len(ws) : WordOf(q) = ws[k].word
    BY PlaceIn
  <2>2. k > 0
    BY <1>1
  <2> QED BY <2>1, <2>2, LeftIs
<1>4. LeftOf(ws, mask, 0) \subseteq S
  BY CoreIs DEF LeftOf
<1>5. ASSUME j = Len(ws), NEW q \in LeftOf(ws, mask, j) PROVE FALSE
  <2>1. PICK k \in 1 .. Len(ws) : k > j \/ (k = j /\ q - First(WordOf(q)) \in mask.bits)
    BY DEF LeftOf
  <2> QED BY <1>1, <1>5, <2>1
<1> QED BY <1>2, <1>3, <1>4, <1>5

\* A processor is taken from the current word, or from the next if nothing is left of it.
Takes(ws, mask, j, cur, p, next, i) ==
  /\ ~(mask.bits = {} /\ j = Len(ws))
  /\ cur = IF mask.bits = {} THEN ws[j + 1] ELSE mask
  /\ p = CalculateCoreNum(cur.bits) + CalculateOffset(cur.word)
  /\ next = [cur EXCEPT !.bits = cur.bits \ {CalculateCoreNum(cur.bits)}]
  /\ i = j + (IF mask.bits = {} THEN 1 ELSE 0)
\* It takes the first of those that are left, and no other.
LEMMA LeftTake ==
  ASSUME Construct, NEW ws, NEW S \in SUBSET Processors, Describes(ws, S), IsAscending(ws),
         NEW mask, NEW j, IsCurrent(ws, mask, j),
         NEW cur, NEW p, NEW next, NEW i, Takes(ws, mask, j, cur, p, next, i)
  PROVE  /\ IsFirst(p, LeftOf(ws, mask, j)) /\ p \in S
         /\ LeftOf(ws, next, i) = LeftOf(ws, mask, j) \ {p}
         /\ IsCurrent(ws, next, i)
<1>0. /\ ~(mask.bits = {} /\ j = Len(ws))
      /\ cur = IF mask.bits = {} THEN ws[j + 1] ELSE mask
      /\ p = CalculateCoreNum(cur.bits) + CalculateOffset(cur.word)
      /\ next = [cur EXCEPT !.bits = cur.bits \ {CalculateCoreNum(cur.bits)}]
      /\ i = j + (IF mask.bits = {} THEN 1 ELSE 0)
  BY DEF Takes
<1>1. Len(ws) \in Nat /\ ws \in Seq(Masks) /\ j \in 0 .. Len(ws) /\ mask \in Masks
  BY DEF Describes, IsCurrent
<1>2. /\ i \in 1 .. Len(ws) /\ cur \in Masks /\ cur.word = ws[i].word
      /\ cur.bits \subseteq ws[i].bits /\ cur.bits # {}
  <2>1. CASE mask.bits = {}
    <3>1. i = j + 1 /\ cur = ws[i] /\ i \in 1 .. Len(ws)
      BY <1>0, <1>1, <2>1
    <3> QED BY <1>1, <3>1 DEF Describes
  <2>2. CASE mask.bits # {}
    <3>1. i = j /\ cur = mask
      BY <1>0, <1>1, <2>2
    <3> QED BY <1>1, <2>2, <3>1 DEF IsCurrent
  <2> QED BY <2>1, <2>2
<1>3. PICK b \in Nat : /\ b = CalculateCoreNum(cur.bits) /\ b \in cur.bits
                       /\ \A y \in cur.bits : b <= y
  <2>1. cur.bits \subseteq Nat
    BY <1>2 DEF Masks
  <2> QED BY <1>2, <2>1, MinIs DEF CalculateCoreNum
<1>4. PICK q \in S : q = b + First(cur.word) /\ WordOf(q) = cur.word
  <2>1. b \in ws[i].bits
    BY <1>2, <1>3
  <2> QED BY <1>2, <2>1 DEF Describes
<1>5. First(cur.word) \in Nat /\ q \in Nat /\ q - First(WordOf(q)) = b
  <2>1. First(WordOf(q)) \in Nat
    BY PlaceOf
  <2> QED BY <1>4, <2>1, ProcessorsType
<1>6. p = q
  <2>1. CalculateOffset(WordOf(q)) = First(WordOf(q))
    BY OffsetIs
  <2> QED BY <1>0, <1>3, <1>4, <2>1
<1>7. next \in Masks /\ next.word = cur.word /\ next.bits = cur.bits \ {b}
  BY <1>0, <1>2, <1>3 DEF Masks
<1>8. IsCurrent(ws, next, i)
  BY <1>1, <1>2, <1>7 DEF IsCurrent
<1>9. ASSUME NEW x \in S
      PROVE  /\ x \in LeftOf(ws, next, i) <=> x \in LeftOf(ws, mask, j) /\ x # p
             /\ x = p => x \in LeftOf(ws, mask, j)
             /\ x \in LeftOf(ws, mask, j) => p <= x
  <2>1. PICK k \in 1 .. Len(ws) : WordOf(x) = ws[k].word /\ x - First(WordOf(x)) \in ws[k].bits
    BY PlaceIn
  <2>2. x \in LeftOf(ws, mask, j) <=> k > j \/ (k = j /\ x - First(WordOf(x)) \in mask.bits)
    BY <2>1, LeftIs
  <2>3. x \in LeftOf(ws, next, i) <=> k > i \/ (k = i /\ x - First(WordOf(x)) \in next.bits)
    <3>1. PICK n, l : n = next /\ l = i
      OBVIOUS
    <3>2. x \in LeftOf(ws, n, l) <=> k > l \/ (k = l /\ x - First(WordOf(x)) \in n.bits)
      BY <2>1, LeftIs
    <3> QED BY <3>1, <3>2, Zenon
  <2>4. PICK a : a = x - First(WordOf(x))
    OBVIOUS
  <2>5. x = p <=> k = i /\ a = b
    <3>1. First(WordOf(x)) \in Nat /\ x \in Nat
      BY PlaceOf, ProcessorsType
    <3>2. x = p => k = i
      BY <1>2, <1>4, <1>6, <2>1 DEF Describes
    <3>3. k = i => WordOf(x) = cur.word
      BY <1>2, <2>1
    <3> QED BY <1>4, <1>5, <1>6, <2>4, <3>1, <3>2, <3>3
  <2>6. x \in LeftOf(ws, mask, j) <=> k > i \/ (k = i /\ a \in cur.bits)
    <3>1. CASE mask.bits = {}
      <4>1. i = j + 1 /\ cur = ws[i]
        BY <1>0, <1>1, <3>1
      <4>2. k > j <=> k > i \/ k = i
        BY <1>1, <4>1
      <4> QED BY <2>1, <2>2, <2>4, <3>1, <4>1, <4>2
    <3>2. CASE mask.bits # {}
      <4>1. i = j /\ cur = mask
        BY <1>0, <1>1, <3>2
      <4> QED BY <2>2, <2>4, <4>1
    <3> QED BY <3>1, <3>2
  <2>7. x \in LeftOf(ws, next, i) <=> k > i \/ (k = i /\ a \in cur.bits /\ a # b)
    BY <1>7, <2>3, <2>4
  <2>8. ~(k > i /\ k = i)
    BY <1>1, <1>2
  <2>9. ASSUME k > i PROVE p < x
    <3>1. ws[i].word < ws[k].word
      BY <1>1, <1>2, <1>9, <2>1, <2>9 DEF IsAscending
    <3>2. WordOf(q) < WordOf(x)
      BY <1>2, <1>4, <2>1, <3>1
    <3> QED BY <1>6, <3>2, LaterWord
  <2>10. ASSUME k = i, a \in cur.bits PROVE p <= x
    <3>1. b <= a /\ First(WordOf(x)) = First(cur.word)
      BY <1>2, <1>3, <2>1, <2>10
    <3>2. x \in Nat /\ a \in Nat
      BY <1>2, <2>10, ProcessorsType DEF Masks
    <3> QED BY <1>4, <1>5, <1>6, <2>4, <3>1, <3>2
  <2>11. p \in Nat /\ x \in Nat
    BY <1>5, <1>6, ProcessorsType
  <2> QED BY <1>3, <2>5, <2>6, <2>7, <2>8, <2>9, <2>10, <2>11
<1>10. LeftOf(ws, mask, j) \subseteq S /\ LeftOf(ws, next, i) \subseteq S
  BY CoreIs DEF LeftOf
<1>11. IsFirst(p, LeftOf(ws, mask, j))
  BY <1>4, <1>6, <1>9, <1>10 DEF IsFirst
<1> QED BY <1>4, <1>6, <1>8, <1>9, <1>10, <1>11

\* The words of each entry of processorMap describe a core.
CoreNow == [c \in 1 .. Len(processorMap) |-> CoreOf(processorMap[c])]
\* They are all of the cores, once each.
LEMMA CoresAre ==
  ASSUME Construct
  PROVE  /\ Len(processorMap) \in Nat /\ Len(processorMap) > 0
         /\ DOMAIN processorMap = 1 .. Len(processorMap)
         /\ Cores(CoreNow, Len(processorMap))
         /\ \A c \in 1 .. Len(processorMap) :
              /\ Describes(processorMap[c], CoreNow[c]) /\ IsAscending(processorMap[c])
              /\ CoreNow[c] \in machine.cores /\ CoreNow[c] \in SUBSET Processors
         /\ \A S \in machine.cores : \E c \in 1 .. Len(processorMap) : CoreNow[c] = S
<1>1. PICK P : P = machine.cores /\ IsPartition(P, Processors)
  BY MachineFacts
<1>2. PICK m \in Nat : m = Cardinality(P) /\ m > 0
  BY <1>1, PartFacts
<1>3. PICK e \in Bijection(1 .. m, P) : processorMap = [i \in 1 .. m |-> Words(e[i])]
  BY <1>1, <1>2, ProcessorMapIs, SortedIs
<1>4. /\ e \in [1 .. m -> P] /\ \A i, j \in 1 .. m : e[i] = e[j] => i = j
      /\ \A S \in P : \E i \in 1 .. m : e[i] = S
  BY <1>3, Fun_BijectionProperties
<1>5. DOMAIN processorMap = 1 .. m /\ Len(processorMap) = m
  <2>1. PICK T : T = {Words(S) : S \in P}
    OBVIOUS
  <2>2. processorMap \in [1 .. m -> T]
    BY <1>3, <1>4, <2>1
  <2> QED BY <1>3, <2>2, ListIsSeq
<1>6. ASSUME NEW c \in 1 .. m
      PROVE  /\ CoreNow[c] = e[c] /\ e[c] \in P /\ e[c] \in SUBSET Processors /\ e[c] # {}
             /\ Describes(processorMap[c], e[c]) /\ IsAscending(processorMap[c])
  <2>1. e[c] \in P /\ processorMap[c] = Words(e[c])
    BY <1>3, <1>4
  <2>2. e[c] \in SUBSET Processors /\ e[c] # {} /\ Describes(Words(e[c]), e[c])
        /\ IsAscending(Words(e[c]))
    BY <1>1, <2>1, PartFacts, WordsAre
  <2>3. CoreOf(processorMap[c]) = e[c]
    BY <2>1, <2>2, CoreIs
  <2> QED BY <1>5, <2>1, <2>2, <2>3 DEF CoreNow
<1>7. \A c, d \in 1 .. m : c = d \/ CoreNow[c] \cap CoreNow[d] = {}
  <2>1. ASSUME NEW c \in 1 .. m, NEW d \in 1 .. m, c # d PROVE CoreNow[c] \cap CoreNow[d] = {}
    <3>1. e[c] # e[d] /\ e[c] \in P /\ e[d] \in P
      BY <1>4, <2>1
    <3>2. e[c] \cap e[d] = {}
      BY <1>1, <3>1, PartFacts
    <3> QED BY <1>6, <3>2
  <2> QED BY <2>1
<1>8. Cores(CoreNow, m)
  <2>1. \A c \in 1 .. m : CoreNow[c] # {} /\ CoreNow[c] \subseteq Nat
    BY <1>6, ProcessorsType
  <2> QED BY <1>2, <1>7, <2>1 DEF Cores
<1>9. \A S \in machine.cores : \E c \in 1 .. m : CoreNow[c] = S
  BY <1>1, <1>4, <1>6
<1> QED BY <1>1, <1>2, <1>5, <1>6, <1>8, <1>9

\* The same of the state of the strategy.
LeftNow == [c \in 1 .. Len(processorMap) |-> LeftOf(processorMap[c], pMap[c], maskIndex[c])]
\* The state of the loop is that of rounds over the sets of processors.
CoreRounds ==
  /\ procVect \in Seq(Nat) /\ Range(procVect) \subseteq Processors
  /\ coreId \in 1 .. Len(processorMap)
  /\ DOMAIN pMap = 1 .. Len(processorMap) /\ DOMAIN maskIndex = 1 .. Len(processorMap)
  /\ \A c \in 1 .. Len(processorMap) : IsCurrent(processorMap[c], pMap[c], maskIndex[c])
  /\ Rounds(CoreNow, Len(processorMap), LeftNow, procVect, coreId)

\* What depends on the machine stays as it is with it.
LEMMA SameTopology ==
  ASSUME UNCHANGED topology
  PROVE  /\ CoreNow' = CoreNow /\ Processors' = Processors
         /\ machine' = machine /\ processorMap' = processorMap
         /\ active_processors' = active_processors
         /\ \A c \in 1 .. Len(processorMap) :
              LeftNow'[c] = LeftOf(processorMap[c], pMap'[c], maskIndex'[c])
<1>1. CoreNow' = CoreNow /\ Processors' = Processors
  BY DEF topology, First, Linux, WordOf, Processors, CoreOf, CoreNow
<1>2. ASSUME NEW c \in 1 .. Len(processorMap)
      PROVE  LeftNow'[c] = LeftOf(processorMap[c], pMap'[c], maskIndex'[c])
  <2>1. LeftNow'[c] = LeftOf(processorMap[c], pMap[c], maskIndex[c])'
    BY DEF topology, LeftNow
  <2>2. LeftOf(processorMap[c], pMap[c], maskIndex[c])' =
          LeftOf(processorMap[c], pMap'[c], maskIndex'[c])
    BY DEF topology, First, Linux, WordOf, Processors, CoreOf, LeftOf
  <2> QED BY <2>1, <2>2
<1> QED BY <1>1, <1>2 DEF topology

\* Nothing else disturbs the rounds.
LEMMA SameRounds ==
  ASSUME UNCHANGED <<topology, coreVars, procVect>>, CoreRounds
  PROVE  CoreRounds'
<1>1. /\ CoreNow' = CoreNow /\ Processors' = Processors /\ processorMap' = processorMap
      /\ UNCHANGED <<pMap, maskIndex, coreId, procVect>>
  BY SameTopology DEF coreVars
<1>2. LeftNow' = LeftNow
  BY <1>1 DEF topology, First, Linux, WordOf, Processors, CoreOf, LeftOf, LeftNow
<1> QED BY <1>1, <1>2 DEF CoreRounds

\* The step of a round leads to the rest of it.
LEMMA NewRounds ==
  ASSUME UNCHANGED topology,
         procVect' \in Seq(Nat), Range(procVect') \subseteq Processors,
         coreId' \in 1 .. Len(processorMap),
         DOMAIN pMap' = 1 .. Len(processorMap), DOMAIN maskIndex' = 1 .. Len(processorMap),
         \A c \in 1 .. Len(processorMap) : IsCurrent(processorMap[c], pMap'[c], maskIndex'[c]),
         Rounds(CoreNow, Len(processorMap), LeftNow', procVect', coreId')
  PROVE  CoreRounds'
<1>1. CoreNow' = CoreNow /\ Processors' = Processors /\ processorMap' = processorMap
  BY SameTopology
<1> QED BY <1>1 DEF CoreRounds

\* The loop starts with the first round, ...
LEMMA StartRounds ==
  ASSUME Construct, UNCHANGED topology, NEW n, GetCore(n)
  PROVE  CoreRounds'
<1>1. PICK m \in Nat : m = Len(processorMap) /\ m > 0 /\ DOMAIN processorMap = 1 .. m
                       /\ Cores(CoreNow, m)
  BY CoresAre
<1>2. /\ procVect' = <<>> /\ coreId' = 1
      /\ pMap' = [c \in 1 .. m |-> processorMap[c][1]] /\ maskIndex' = [c \in 1 .. m |-> 1]
  BY <1>1 DEF GetCore
<1>3. ASSUME NEW c \in 1 .. m
      PROVE  /\ IsCurrent(processorMap[c], pMap'[c], maskIndex'[c])
             /\ LeftNow'[c] = CoreNow[c]
  <2>1. Describes(processorMap[c], CoreNow[c]) /\ CoreNow[c] \in SUBSET Processors
    BY <1>1, CoresAre
  <2>2. /\ LeftOf(processorMap[c], processorMap[c][1], 1) = CoreNow[c]
        /\ IsCurrent(processorMap[c], processorMap[c][1], 1)
    BY <2>1, LeftStart
  <2>3. pMap'[c] = processorMap[c][1] /\ maskIndex'[c] = 1
    BY <1>2
  <2>4. LeftNow'[c] = LeftOf(processorMap[c], pMap'[c], maskIndex'[c])
    BY <1>1, SameTopology
  <2> QED BY <2>2, <2>3, <2>4
<1>4. Range(<<>>) = {} /\ Len(<<>>) = 0 /\ <<>> \in Seq(Nat)
  BY DEF Range
<1>5. PICK v : v = <<>>
  OBVIOUS
<1>6. Rounds(CoreNow, m, LeftNow', v, 1)
  <2>1. Len(v) = 0
    BY <1>5
  <2> QED BY <1>3, <2>1 DEF Rounds
<1> QED BY <1>1, <1>2, <1>3, <1>4, <1>5, <1>6, NewRounds

\* ... a step that passes over a core goes on with it, ...
LEMMA SkipRounds ==
  ASSUME Construct, CoreRounds, Skip
  PROVE  CoreRounds'
<1>1. PICK m \in Nat : m = Len(processorMap) /\ m > 0 /\ DOMAIN processorMap = 1 .. m
                       /\ Cores(CoreNow, m)
  BY CoresAre
<1>2. PICK i \in 1 .. m : i = coreId
  BY <1>1 DEF CoreRounds
<1>3. /\ pMap[i].bits = {} /\ maskIndex[i] = Len(processorMap[i])
      /\ maskIndex' = [maskIndex EXCEPT ![i] = 0] /\ coreId' = (i % m) + 1
      /\ UNCHANGED topology /\ pMap' = pMap /\ procVect' = procVect
  BY <1>1, <1>2 DEF Skip, Exhausted, NextCore
<1>4. /\ DOMAIN pMap = 1 .. m /\ DOMAIN maskIndex = 1 .. m
      /\ \A c \in 1 .. m : IsCurrent(processorMap[c], pMap[c], maskIndex[c])
      /\ Rounds(CoreNow, m, LeftNow, procVect, i)
      /\ procVect \in Seq(Nat) /\ Range(procVect) \subseteq Processors
  BY <1>1, <1>2 DEF CoreRounds
<1>5. ASSUME NEW c \in 1 .. m
      PROVE  /\ Describes(processorMap[c], CoreNow[c]) /\ CoreNow[c] \in SUBSET Processors
             /\ LeftNow[c] = LeftOf(processorMap[c], pMap[c], maskIndex[c])
             /\ LeftNow'[c] = LeftOf(processorMap[c], pMap'[c], maskIndex'[c])
  <2>1. Describes(processorMap[c], CoreNow[c]) /\ CoreNow[c] \in SUBSET Processors
    BY <1>1, CoresAre
  <2>2. LeftNow'[c] = LeftOf(processorMap[c], pMap'[c], maskIndex'[c])
    BY <1>1, <1>3, SameTopology
  <2> QED BY <1>1, <2>1, <2>2 DEF LeftNow
<1>6. ASSUME NEW c \in 1 .. m, c # i
      PROVE  IsCurrent(processorMap[c], pMap'[c], maskIndex'[c])
  <2>1. maskIndex'[c] = maskIndex[c]
    BY <1>3, <1>4, <1>6
  <2> QED BY <1>3, <1>4, <2>1
<1>7. /\ LeftNow[i] = {} /\ IsCurrent(processorMap[i], pMap'[i], maskIndex'[i])
  <2>1. maskIndex'[i] = 0
    BY <1>3, <1>4
  <2>2. PICK mask, j : mask = pMap[i] /\ j = maskIndex[i] /\ IsCurrent(processorMap[i], mask, j)
                       /\ mask.bits = {} /\ j = Len(processorMap[i])
    BY <1>3, <1>4
  <2>3. IsCurrent(processorMap[i], mask, 0) /\ LeftOf(processorMap[i], mask, j) = {}
    BY <1>5, <2>2, LeftAgain
  <2> QED BY <1>3, <1>5, <2>1, <2>2, <2>3
<1>8. Rounds(CoreNow, m, LeftNow', procVect, coreId')
  <2>1. PICK left, kept, v : left = LeftNow /\ kept = LeftNow' /\ v = procVect
    OBVIOUS
  <2>2. Rounds(CoreNow, m, left, v, i) /\ left[i] = {} /\ v \in Seq(Nat)
    BY <1>4, <1>7, <2>1
  <2>3. PICK e : e = CoreNow
    OBVIOUS
  <2>4. Rounds(e, m, kept, v, (i % m) + 1)
    BY <1>1, <2>2, <2>3, RoundsSkip
  <2> QED BY <1>3, <2>1, <2>3, <2>4
<1>9. coreId' \in 1 .. m
  BY <1>1, <1>3, NextIs
<1>10. DOMAIN maskIndex' = 1 .. m
  BY <1>3, <1>4
<1>11. \A c \in 1 .. m : IsCurrent(processorMap[c], pMap'[c], maskIndex'[c])
  BY <1>6, <1>7
<1> QED BY <1>1, <1>3, <1>4, <1>8, <1>9, <1>10, <1>11, NewRounds

\* ... and so does one that takes a processor.
LEMMA TakeRounds ==
  ASSUME Construct, CoreRounds, Take
  PROVE  /\ CoreRounds' /\ Len(procVect') = Len(procVect) + 1
<1>1. PICK m \in Nat : m = Len(processorMap) /\ m > 0 /\ DOMAIN processorMap = 1 .. m
                       /\ Cores(CoreNow, m)
  BY CoresAre
<1>2. PICK i \in 1 .. m : i = coreId
  BY <1>1 DEF CoreRounds
<1>3. /\ DOMAIN pMap = 1 .. m /\ DOMAIN maskIndex = 1 .. m
      /\ \A c \in 1 .. m : IsCurrent(processorMap[c], pMap[c], maskIndex[c])
      /\ Rounds(CoreNow, m, LeftNow, procVect, i)
      /\ procVect \in Seq(Nat) /\ Range(procVect) \subseteq Processors
  BY <1>1, <1>2 DEF CoreRounds
<1>4. PICK ws, mask, j : ws = processorMap[i] /\ mask = pMap[i] /\ j = maskIndex[i]
  OBVIOUS
<1>5. PICK cur : cur = IF mask.bits = {} THEN ws[j + 1] ELSE mask
  OBVIOUS
<1>6. PICK p : p = CalculateCoreNum(cur.bits) + CalculateOffset(cur.word)
  OBVIOUS
<1>7. PICK next : next = [cur EXCEPT !.bits = cur.bits \ {CalculateCoreNum(cur.bits)}]
  OBVIOUS
<1>8. PICK k : k = j + (IF mask.bits = {} THEN 1 ELSE 0)
  OBVIOUS
<1>9. /\ ~(mask.bits = {} /\ j = Len(ws))
      /\ procVect' = Append(procVect, p)
      /\ pMap' = [pMap EXCEPT ![i] = next]
      /\ maskIndex' = [maskIndex EXCEPT ![i] = k]
      /\ coreId' = (i % m) + 1 /\ UNCHANGED topology
  <2>1. Current = cur
    BY <1>2, <1>4, <1>5 DEF Current
  <2>2. /\ ~(mask.bits = {} /\ j = Len(ws)) /\ coreId' = (i % m) + 1 /\ UNCHANGED topology
    BY <1>1, <1>2, <1>4 DEF Take, TakeFrom, Exhausted, NextCore
  <2>3. procVect' = Append(procVect, p)
    BY <1>6, <2>1 DEF Take, TakeFrom
  <2>4. pMap' = [pMap EXCEPT ![i] = next]
    BY <1>2, <1>7, <2>1 DEF Take, TakeFrom
  <2>5. maskIndex' = [maskIndex EXCEPT ![i] = maskIndex[i] + IF mask.bits = {} THEN 1 ELSE 0]
    BY <1>2, <1>4 DEF Take, TakeFrom
  <2> QED BY <1>4, <1>8, <2>2, <2>3, <2>4, <2>5
<1>10. ASSUME NEW c \in 1 .. m
       PROVE  /\ Describes(processorMap[c], CoreNow[c]) /\ CoreNow[c] \in SUBSET Processors
              /\ LeftNow[c] = LeftOf(processorMap[c], pMap[c], maskIndex[c])
              /\ LeftNow'[c] = LeftOf(processorMap[c], pMap'[c], maskIndex'[c])
  <2>1. Describes(processorMap[c], CoreNow[c]) /\ CoreNow[c] \in SUBSET Processors
    BY <1>1, CoresAre
  <2>2. LeftNow'[c] = LeftOf(processorMap[c], pMap'[c], maskIndex'[c])
    BY <1>1, <1>9, SameTopology
  <2> QED BY <1>1, <2>1, <2>2 DEF LeftNow
<1>11. ASSUME NEW c \in 1 .. m, c # i
       PROVE  LeftNow'[c] = LeftNow[c] /\ IsCurrent(processorMap[c], pMap'[c], maskIndex'[c])
  <2>1. maskIndex'[c] = maskIndex[c] /\ pMap'[c] = pMap[c]
    BY <1>3, <1>9, <1>11
  <2> QED BY <1>3, <1>10, <2>1
<1>12. /\ IsFirst(p, LeftNow[i]) /\ p \in CoreNow[i] /\ LeftNow[i] \subseteq CoreNow[i]
       /\ IsCurrent(processorMap[i], pMap'[i], maskIndex'[i])
  <2>1. pMap'[i] = next /\ maskIndex'[i] = k
    BY <1>3, <1>9
  <2>2. PICK S \in SUBSET Processors : /\ S = CoreNow[i] /\ Describes(ws, S)
                                      /\ IsAscending(ws)
    BY <1>1, <1>4, <1>10, CoresAre
  <2>3. IsCurrent(ws, mask, j)
    BY <1>3, <1>4
  <2>4. /\ IsFirst(p, LeftOf(ws, mask, j)) /\ p \in S
        /\ IsCurrent(ws, next, k)
    <3>1. Takes(ws, mask, j, cur, p, next, k)
      BY <1>5, <1>6, <1>7, <1>8, <1>9 DEF Takes
    <3> QED BY <2>2, <2>3, <3>1, LeftTake
  <2>5. LeftOf(ws, mask, j) \subseteq S
    BY <2>2, CoreIs DEF LeftOf
  <2>6. LeftNow[i] = LeftOf(ws, mask, j)
    BY <1>4, <1>10
  <2> QED BY <1>4, <2>1, <2>2, <2>4, <2>5, <2>6
<1>13. p \in Processors /\ p \in Nat
  BY <1>10, <1>12, ProcessorsType
<1>14. PICK v, w : v \in Seq(Nat) /\ v = procVect /\ w = Append(v, p) /\ procVect' = w
  BY <1>3, <1>9
<1>15. w \in Seq(Nat) /\ Len(w) = Len(v) + 1 /\ Range(w) \subseteq Processors
  <2>1. w \in Seq(Nat) /\ Len(w) = Len(v) + 1 /\ Range(w) = Range(v) \cup {p}
    BY <1>13, <1>14, AppendIs
  <2> QED BY <1>3, <1>13, <1>14, <2>1
<1>16. Rounds(CoreNow, m, LeftNow', w, coreId')
  <2>1. PICK left, kept, e : left = LeftNow /\ kept = LeftNow' /\ e = CoreNow
    OBVIOUS
  <2>2. /\ Rounds(e, m, left, v, i) /\ IsFirst(p, left[i]) /\ left[i] \subseteq e[i]
        /\ \A c \in 1 .. m : c # i => kept[c] = left[c]
    BY <1>3, <1>11, <1>12, <1>14, <2>1
  <2>3. PICK l : l = (i % m) + 1
    OBVIOUS
  <2>4. Rounds(e, m, kept, w, l)
    BY <1>1, <1>14, <2>1, <2>2, <2>3, RoundsTake
  <2> QED BY <1>9, <2>1, <2>3, <2>4
<1>17. coreId' \in 1 .. m
  BY <1>1, <1>9, NextIs
<1>18. DOMAIN maskIndex' = 1 .. m /\ DOMAIN pMap' = 1 .. m
  BY <1>3, <1>9
<1>19. \A c \in 1 .. m : IsCurrent(processorMap[c], pMap'[c], maskIndex'[c])
  BY <1>11, <1>12
<1>20. CoreRounds'
  BY <1>1, <1>9, <1>14, <1>15, <1>16, <1>17, <1>18, <1>19, NewRounds
<1> QED BY <1>14, <1>15, <1>20

-----------------------------------------------------------------------------
(* The invariant of a call.                                                *)

\* The strategies that properties speak of.
Strategies == {"spread", "core", "logical"}
\* What each strategy has done so far.
OfStrategy ==
  /\ strategy = "spread" => /\ SharesCaches(procVect, threads)
                            /\ RegularCaches => Shares(procVect, threads)
  /\ strategy = "logical" => Shares(procVect, threads)
  /\ strategy = "core" => CoreRounds
\* How far the vector and the threads are.
OfThreads ==
  /\ pc = "core" => Len(procVect) < threads /\ pinned = <<>>
  /\ pc \in {"set", "done"} => procVect \in [1 .. threads -> Processors]
  /\ pc = "set" => Len(pinned) < threads
  /\ pc = "done" => Len(pinned) = threads
  /\ pinned \in Seq(SUBSET Processors)
  /\ \A t \in 1 .. Len(pinned) : pinned[t] = {procVect[t]}
\* The inductive invariant.
PinInv ==
  /\ Construct
  /\ pc \in {"idle", "core", "set", "done"}
  /\ pc = "idle" => strategy = "none" /\ procVect = <<>> /\ pinned = <<>>
  /\ pc = "core" => strategy = "core"
  /\ strategy \in Strategies =>
       /\ threads \in Nat
       /\ threads = 0 => pc = "done" /\ procVect = <<>> /\ pinned = <<>>
       /\ threads > 0 => OfStrategy /\ OfThreads

\* On Windows, too, the processor's number is turned into the processor.
LEMMA OffsetOfGroup ==
  ASSUME Construct, ~Linux, NEW k \in Nat, k <= Len(machine.groups)
  PROVE  CalculateOffset(k) = First(k)
<1>1. PICK s : s = [i \in 1 .. k |-> groupMap[i - 1].count]
  OBVIOUS
<1>2. CalculateOffset(k) = SumOf(s, k)
  BY <1>1 DEF CalculateOffset
<1>3. ASSUME NEW i \in 1 .. k PROVE s[i] = machine.groups[i]
  <2>1. PICK j : j = i - 1 /\ j \in 0 .. Len(machine.groups) - 1 /\ j + 1 = i
    BY MachineFacts
  <2>2. groupMap[j].count = machine.groups[j + 1]
    BY <2>1, ProcessorMapIs
  <2> QED BY <1>1, <2>1, <2>2
<1>4. SumOf(s, k) = SumOf(machine.groups, k)
  BY <1>3, SumOfSame
<1> QED BY <1>2, <1>4 DEF First

\* On Windows, too, a processor's number is turned into its group, ...
LEMMA GroupOfIs ==
  ASSUME Construct, ~Linux, NEW p \in Processors
  PROVE  GroupOf(p) = WordOf(p)
<1>1. PICK n \in Nat : n = Len(machine.groups) /\ n > 0
  BY MachineFacts
<1>2. PICK w \in Nat : w = WordOf(p) /\ w < n /\ First(w) <= p /\ p < First(w + 1)
                       /\ First(w) \in Nat
  BY <1>1, PlaceOf DEF IsWord
<1>3. p \in Nat
  BY ProcessorsType
<1>4. DOMAIN groupMap = 0 .. n - 1
  BY <1>1, ProcessorMapIs
<1>5. ASSUME NEW k \in 0 .. n - 1
      PROVE  /\ CalculateOffset(k) + groupMap[k].count = First(k + 1)
             /\ First(k + 1) \in Nat
  <2>1. CalculateOffset(k) = First(k)
    BY <1>1, OffsetOfGroup
  <2>2. groupMap[k].count = machine.groups[k + 1]
    BY <1>1, ProcessorMapIs
  <2>3. First(k + 1) = First(k) + machine.groups[k + 1]
    <3>1. \A i \in 1 .. k + 1 : machine.groups[i] \in Nat
      BY <1>1, MachineFacts, WidthType
    <3>2. SumOf(machine.groups, k + 1) = SumOf(machine.groups, k) + machine.groups[k + 1]
      BY <3>1, SumOfNext
    <3> QED BY <3>2 DEF First
  <2>4. First(k + 1) \in Nat
    <3>1. k + 1 \in Nat /\ k + 1 <= Len(machine.groups)
      BY <1>1
    <3> QED BY <3>1, FirstType
  <2> QED BY <2>1, <2>2, <2>3, <2>4
<1>6. ASSUME NEW g \in 0 .. n - 1
      PROVE  (\A k \in 0 .. g : p >= CalculateOffset(k) + groupMap[k].count) <=> g < w
  <2>1. ASSUME g < w, NEW k \in 0 .. g PROVE p >= CalculateOffset(k) + groupMap[k].count
    <3>1. k \in 0 .. n - 1 /\ k + 1 \in Nat /\ k + 1 <= w /\ w <= Len(machine.groups)
      BY <1>1, <1>2, <2>1
    <3>2. First(k + 1) <= First(w)
      BY <3>1, FirstMono
    <3>3. PICK a \in Nat : a = First(k + 1) /\ CalculateOffset(k) + groupMap[k].count = a
      BY <1>5, <3>1
    <3>4. p >= a
      BY <1>2, <1>3, <3>2, <3>3
    <3> QED BY <3>3, <3>4
  <2>2. ASSUME ~(g < w) PROVE \E k \in 0 .. g : ~(p >= CalculateOffset(k) + groupMap[k].count)
    <3>1. w \in 0 .. g /\ w \in 0 .. n - 1
      BY <1>2, <2>2
    <3>2. ~(p >= First(w + 1))
      BY <1>2, <1>3, <1>5, <3>1
    <3> QED BY <1>5, <3>1, <3>2
  <2> QED BY <2>1, <2>2
<1>7. {g \in DOMAIN groupMap : \A k \in 0 .. g : p >= CalculateOffset(k) + groupMap[k].count}
        = 0 .. w - 1
  BY <1>2, <1>4, <1>6
<1>8. Cardinality(0 .. w - 1) = w
  BY CountTo
<1> QED BY <1>2, <1>7, <1>8 DEF GroupOf

\* ... and so into a mask of that processor alone.
LEMMA MaskIs ==
  ASSUME Construct, NEW p \in Processors
  PROVE  (IF Linux THEN Processors \cap {p} ELSE InGroup(p)) = {p}
<1>1. CASE Linux
  BY <1>1
<1>2. CASE ~Linux
  <2>1. GroupOf(p) = WordOf(p) /\ CalculateOffset(WordOf(p)) = First(WordOf(p))
    BY <1>2, GroupOfIs, OffsetIs
  <2>2. InGroup(p) = {c \in Processors : WordOf(c) = WordOf(p)
                                         /\ c - First(WordOf(p)) = p - First(WordOf(p))}
    BY <2>1 DEF InGroup
  <2>3. First(WordOf(p)) \in Nat /\ Processors \subseteq Nat
    BY PlaceOf, ProcessorsType
  <2>4. PICK f \in Nat : f = First(WordOf(p))
    BY <2>3
  <2>5. \A c \in Processors : c - f = p - f <=> c = p
    BY <2>3
  <2>6. InGroup(p) = {p}
    BY <2>2, <2>4, <2>5
  <2> QED BY <1>2, <2>6
<1> QED BY <1>1, <1>2

\* The maps are those of the machine as long as neither changes.
LEMMA SameConstruct ==
  ASSUME UNCHANGED topology, Construct
  PROVE  Construct'
<1>1. /\ Sorted(machine.cores)' = Sorted(machine.cores)
      /\ Sorted(machine.caches)' = Sorted(machine.caches)
  BY DEF topology, First, Linux, WordOf, Words, Sorted
<1>2. /\ MapOf(machine.cores)' = MapOf(machine.cores)
      /\ MapOf(machine.caches)' = MapOf(machine.caches)
  BY <1>1 DEF MapOf, topology
<1>3. FromSys => FromSys'
  BY <1>2 DEF FromSys, topology
<1>4. FromLogicalProcessorInformation => FromLogicalProcessorInformation'
  BY <1>1 DEF FromLogicalProcessorInformation, topology
<1> QED BY <1>3, <1>4 DEF Construct, Linux, topology

\* What has been said of the vector is still so.
LEMMA SameShares ==
  ASSUME UNCHANGED topology
  PROVE  /\ Shares(procVect', threads') => Shares(procVect, threads)'
         /\ SharesCaches(procVect', threads') => SharesCaches(procVect, threads)'
         /\ RegularCaches' => RegularCaches
<1>1. Shares(procVect', threads') => Shares(procVect, threads)'
  BY DEF topology, Shares, Processors
<1>2. SharesCaches(procVect', threads') => SharesCaches(procVect, threads)'
  BY DEF topology, SharesCaches, Load
<1>3. RegularCaches' => RegularCaches
  BY DEF topology, RegularCaches
<1> QED BY <1>1, <1>2, <1>3

\* A sequence of n processors is a function.
LEMMA VectorIs ==
  ASSUME NEW v \in Seq(Nat), NEW n \in Nat, Len(v) = n, NEW P, Range(v) \subseteq P
  PROVE  v \in [1 .. n -> P]
<1>1. DOMAIN v = 1 .. n /\ v = [i \in 1 .. n |-> v[i]]
  OBVIOUS
<1>2. \A i \in 1 .. n : v[i] \in P
  BY <1>1 DEF Range
<1> QED BY <1>1, <1>2

\* The invariant holds before a call, ...
LEMMA InitPinInv == Init => PinInv
BY DEF Init, PinInv, Strategies

\* A call fills the vector, begins to do so, or returns.
LEMMA AskPinInv ==
  ASSUME PinInv, PinThreads
  PROVE  PinInv'
<1>1. PICK n \in 0 .. MaxThreads :
        \/ AuPinThreadsSpread(n) \/ AuPinThreadsCore(n) \/ AuPinThreadsLogical(n)
        \/ PinUnknown(n)
        \/ \E v \in CustomVectors : AuPinThreadsCustom(n, v)
  BY DEF PinThreads
<1>2. n \in Nat
  BY BoundAssumption
<1>3. /\ UNCHANGED topology /\ threads' = n /\ pinned' = <<>> /\ procVect = <<>>
      /\ Construct
  BY <1>1 DEF AuPinThreadsSpread, AuPinThreadsCore, AuPinThreadsLogical, PinUnknown,
       AuPinThreadsCustom, Ask, PinInv
<1>4. Construct'
  BY <1>3, SameConstruct
<1>5. ASSUME NEW f \in {SpreadVector(n), [t \in 1 .. n |-> (t - 1) % active_processors]},
             procVect' = f, f \in [1 .. n -> Processors], pc' = "set", n > 0
      PROVE  OfThreads'
  <2>1. Processors' = Processors
    BY <1>3, SameTopology
  <2>2. Len(<<>>) = 0 /\ <<>> \in Seq(SUBSET Processors)
    OBVIOUS
  <2> QED BY <1>2, <1>3, <1>5, <2>1, <2>2 DEF OfThreads
<1>6. CASE AuPinThreadsSpread(n)
  <2>1. strategy' = "spread"
    BY <1>6 DEF AuPinThreadsSpread, Ask
  <2>2. CASE n = 0
    <3>1. pc' = "done" /\ procVect' = <<>>
      BY <1>3, <1>6, <2>2 DEF AuPinThreadsSpread, PinByIndex, Return
    <3> QED BY <1>3, <1>4, <2>1, <2>2, <3>1 DEF PinInv, Strategies
  <2>3. CASE n # 0
    <3>1. pc' = "set" /\ procVect' = SpreadVector(n)
      BY <1>6, <2>3 DEF AuPinThreadsSpread, PinByIndex, GetAffinityVector, GetSpread,
           SPREAD, CORE, LOGICAL
    <3>2. PICK v : v = SpreadVector(n)
      OBVIOUS
    <3>3. v \in [1 .. n -> Processors] /\ SharesCaches(v, n) /\ (RegularCaches => Shares(v, n))
      BY <1>2, <1>3, <3>2, SpreadType, SpreadSharesCaches, SpreadShares
    <3>4. SharesCaches(procVect', threads') /\ (RegularCaches => Shares(procVect', threads'))
      BY <1>3, <3>1, <3>2, <3>3
    <3>5. OfStrategy'
      BY <1>3, <2>1, <3>4, SameShares DEF OfStrategy
    <3>6. OfThreads'
      BY <1>2, <1>5, <2>3, <3>1, <3>2, <3>3
    <3> QED BY <1>2, <1>3, <1>4, <2>1, <2>3, <3>1, <3>5, <3>6 DEF PinInv, Strategies
  <2> QED BY <2>2, <2>3
<1>7. CASE AuPinThreadsLogical(n)
  <2>1. strategy' = "logical"
    BY <1>7 DEF AuPinThreadsLogical, Ask
  <2>2. CASE n = 0
    <3>1. pc' = "done" /\ procVect' = <<>>
      BY <1>3, <1>7, <2>2 DEF AuPinThreadsLogical, PinByIndex, Return
    <3> QED BY <1>3, <1>4, <2>1, <2>2, <3>1 DEF PinInv, Strategies
  <2>3. CASE n # 0
    <3>1. pc' = "set" /\ procVect' = [t \in 1 .. n |-> (t - 1) % active_processors]
      BY <1>7, <2>3 DEF AuPinThreadsLogical, PinByIndex, GetAffinityVector, GetLogical,
           SPREAD, CORE, LOGICAL
    <3>2. PICK v : v = [t \in 1 .. n |-> (t - 1) % active_processors]
      OBVIOUS
    <3>3. v \in [1 .. n -> Processors] /\ Shares(v, n)
      BY <1>2, <1>3, <3>2, LogicalShares
    <3>4. Shares(procVect', threads')
      BY <1>3, <3>1, <3>2, <3>3
    <3>5. OfStrategy'
      BY <1>3, <2>1, <3>4, SameShares DEF OfStrategy
    <3>6. OfThreads'
      BY <1>2, <1>5, <2>3, <3>1, <3>2, <3>3
    <3> QED BY <1>2, <1>3, <1>4, <2>1, <2>3, <3>1, <3>5, <3>6 DEF PinInv, Strategies
  <2> QED BY <2>2, <2>3
<1>8. CASE AuPinThreadsCore(n)
  <2>1. strategy' = "core"
    BY <1>8 DEF AuPinThreadsCore, Ask
  <2>2. CASE n = 0
    <3>1. pc' = "done" /\ procVect' = <<>>
      BY <1>3, <1>8, <2>2 DEF AuPinThreadsCore, PinByIndex, Return
    <3> QED BY <1>3, <1>4, <2>1, <2>2, <3>1 DEF PinInv, Strategies
  <2>3. CASE n # 0
    <3>1. GetCore(n)
      BY <1>8, <2>3 DEF AuPinThreadsCore, PinByIndex, GetAffinityVector, SPREAD, CORE, LOGICAL
    <3>2. pc' = "core" /\ procVect' = <<>>
      BY <3>1 DEF GetCore
    <3>3. OfStrategy'
      BY <1>3, <2>1, <3>1, StartRounds DEF OfStrategy
    <3>4. OfThreads'
      BY <1>2, <1>3, <2>3, <3>2 DEF OfThreads
    <3> QED BY <1>2, <1>3, <1>4, <2>1, <2>3, <3>2, <3>3, <3>4 DEF PinInv, Strategies
  <2> QED BY <2>2, <2>3
<1>9. ASSUME PinUnknown(n) \/ \E v \in CustomVectors : AuPinThreadsCustom(n, v)
      PROVE  PinInv'
  <2>1. strategy' \in {"unknown", "custom"} /\ pc' \in {"set", "done"}
    BY <1>9 DEF PinUnknown, AuPinThreadsCustom, Ask, PinByIndex, PinByVector, Return,
         GetAffinityVector, GetUnknown, SPREAD, CORE, LOGICAL
  <2> QED BY <1>4, <2>1 DEF PinInv, Strategies
<1> QED BY <1>1, <1>6, <1>7, <1>8, <1>9

\* ... the loop passes over a core, ...
LEMMA SkipPinInv ==
  ASSUME PinInv, Skip
  PROVE  PinInv'
<1>1. /\ UNCHANGED <<topology, pc, strategy, threads, procVect, pinned>>
      /\ pc = "core" /\ strategy = "core" /\ Construct
  BY DEF Skip, PinInv
<1>2. Construct' /\ Processors' = Processors
  BY <1>1, SameConstruct, SameTopology
<1>3. threads \in Nat /\ threads > 0 /\ OfStrategy /\ OfThreads
  BY <1>1 DEF PinInv, Strategies
<1>4. OfStrategy'
  <2>1. CoreRounds'
    BY <1>1, <1>3, SkipRounds DEF OfStrategy
  <2> QED BY <1>1, <2>1 DEF OfStrategy
<1>5. OfThreads'
  BY <1>1, <1>2, <1>3 DEF OfThreads
<1> QED BY <1>1, <1>2, <1>3, <1>4, <1>5 DEF PinInv, Strategies

\* ... takes a processor, ...
LEMMA TakePinInv ==
  ASSUME PinInv, Take
  PROVE  PinInv'
<1>1. /\ UNCHANGED <<topology, strategy, threads, pinned>>
      /\ pc = "core" /\ strategy = "core" /\ Construct
      /\ pc' = IF Len(procVect) + 1 = threads THEN "set" ELSE "core"
  BY DEF Take, TakeFrom, PinInv
<1>2. Construct' /\ Processors' = Processors
  BY <1>1, SameConstruct, SameTopology
<1>3. threads \in Nat /\ threads > 0 /\ OfStrategy /\ OfThreads
  BY <1>1 DEF PinInv, Strategies
<1>4. CoreRounds /\ Len(procVect) < threads /\ pinned = <<>>
  BY <1>1, <1>3 DEF OfStrategy, OfThreads
<1>5. CoreRounds' /\ Len(procVect') = Len(procVect) + 1
  BY <1>1, <1>4, TakeRounds
<1>6. OfStrategy'
  BY <1>1, <1>5 DEF OfStrategy
<1>7. PICK k \in Nat : k = Len(procVect)
  BY <1>4 DEF CoreRounds
<1>8. CASE k + 1 = threads
  <2>1. procVect' \in Seq(Nat) /\ Range(procVect') \subseteq Processors
    BY <1>2, <1>5 DEF CoreRounds
  <2>2. procVect' \in [1 .. threads -> Processors]
    <3>1. PICK v : v = procVect'
      OBVIOUS
    <3> QED BY <1>3, <1>5, <1>7, <1>8, <2>1, <3>1, VectorIs
  <2>3. OfThreads'
    BY <1>1, <1>2, <1>3, <1>4, <1>7, <1>8, <2>2 DEF OfThreads
  <2> QED BY <1>1, <1>2, <1>3, <1>6, <1>7, <1>8, <2>3 DEF PinInv, Strategies
<1>9. CASE k + 1 # threads
  <2>1. OfThreads'
    BY <1>1, <1>2, <1>3, <1>4, <1>5, <1>7, <1>9 DEF OfThreads
  <2> QED BY <1>1, <1>2, <1>3, <1>6, <1>7, <1>9, <2>1 DEF PinInv, Strategies
<1> QED BY <1>8, <1>9

\* ... threads are pinned one by one, ...
LEMMA SetPinInv ==
  ASSUME PinInv, SetAffinity
  PROVE  PinInv'
<1>1. /\ UNCHANGED <<topology, strategy, threads, procVect, coreVars>>
      /\ pc = "set" /\ Construct /\ pc' \in {"set", "done"}
      /\ pc' = IF Len(pinned) + 1 = threads THEN "done" ELSE "set"
  BY DEF SetAffinity, PinInv
<1>2. Construct' /\ Processors' = Processors
  BY <1>1, SameConstruct, SameTopology
<1>3. CASE strategy \in Strategies
  <2>1. threads \in Nat /\ threads > 0 /\ OfStrategy /\ OfThreads
    BY <1>1, <1>3 DEF PinInv
  <2>2. OfStrategy'
    <3>1. procVect' = procVect /\ threads' = threads
      BY <1>1
    <3>2. strategy = "core" => CoreRounds'
      BY <1>1, <2>1, SameRounds DEF OfStrategy
    <3> QED BY <1>1, <2>1, <3>1, <3>2, SameShares DEF OfStrategy
  <2>3. /\ procVect \in [1 .. threads -> Processors] /\ pinned \in Seq(SUBSET Processors)
        /\ Len(pinned) < threads /\ \A t \in 1 .. Len(pinned) : pinned[t] = {procVect[t]}
    BY <1>1, <2>1 DEF OfThreads
  <2>4. PICK k \in Nat : k = Len(pinned) /\ k + 1 \in 1 .. threads /\ DOMAIN pinned = 1 .. k
    BY <2>1, <2>3
  <2>5. PICK p \in Processors : p = procVect[k + 1]
    BY <2>3, <2>4
  <2>6. pinned' = Append(pinned, {p})
    <3>1. PICK M : M = IF Linux THEN Processors \cap {p} ELSE InGroup(p)
      OBVIOUS
    <3>2. M = {p}
      BY <1>1, <3>1, MaskIs
    <3>3. pinned' = Append(pinned, IF M = {} THEN Processors ELSE M)
      BY <2>4, <2>5, <3>1 DEF SetAffinity
    <3> QED BY <3>2, <3>3
  <2>7. /\ pinned' \in Seq(SUBSET Processors) /\ Len(pinned') = k + 1
        /\ \A t \in 1 .. k + 1 : pinned'[t] = {procVect[t]}
    <3>1. {p} \in SUBSET Processors
      OBVIOUS
    <3>2. ASSUME NEW t \in 1 .. k + 1 PROVE pinned'[t] = {procVect[t]}
      <4>1. CASE t = k + 1
        BY <2>3, <2>4, <2>5, <2>6, <4>1
      <4>2. CASE t # k + 1
        <5>1. t \in 1 .. k
          BY <4>2
        <5> QED BY <2>3, <2>4, <2>6, <5>1
      <4> QED BY <4>1, <4>2
    <3> QED BY <2>3, <2>4, <2>6, <3>1, <3>2
  <2>8. OfThreads'
    BY <1>1, <1>2, <2>1, <2>3, <2>4, <2>7 DEF OfThreads
  <2> QED BY <1>1, <1>2, <1>3, <2>1, <2>2, <2>8 DEF PinInv, Strategies
<1>4. CASE strategy \notin Strategies
  BY <1>1, <1>2, <1>4 DEF PinInv, Strategies
<1> QED BY <1>3, <1>4

\* ... or nothing happens.
LEMMA SamePinInv ==
  ASSUME PinInv, UNCHANGED vars
  PROVE  PinInv'
<1>1. /\ UNCHANGED <<topology, coreVars, procVect>>
      /\ UNCHANGED <<pc, strategy, threads, pinned>>
  BY DEF vars
<1>2. Construct' /\ Processors' = Processors
  BY <1>1, SameConstruct, SameTopology DEF PinInv
<1>3. OfStrategy => OfStrategy'
  <2>1. procVect' = procVect /\ threads' = threads
    BY <1>1
  <2>2. CoreRounds => CoreRounds'
    BY <1>1, SameRounds
  <2> QED BY <1>1, <2>1, <2>2, SameShares DEF OfStrategy
<1>4. OfThreads => OfThreads'
  BY <1>1, <1>2 DEF OfThreads
<1> QED BY <1>1, <1>2, <1>3, <1>4 DEF PinInv, Strategies

\* The invariant of a call that pins threads.
THEOREM PinInvariant == Spec => []PinInv
<1>1. PinInv /\ [Next \/ Halted]_vars => PinInv'
  <2> SUFFICES ASSUME PinInv, [Next \/ Halted]_vars
               PROVE  PinInv'
    OBVIOUS
  <2>1. CASE PinThreads
    BY <2>1, AskPinInv
  <2>2. CASE Skip
    BY <2>2, SkipPinInv
  <2>3. CASE Take
    BY <2>3, TakePinInv
  <2>4. CASE SetAffinity
    BY <2>4, SetPinInv
  <2>5. CASE Halted \/ UNCHANGED vars
    BY <2>5, SamePinInv DEF Halted
  <2> QED BY <2>1, <2>2, <2>3, <2>4, <2>5 DEF Next
<1> QED BY <1>1, InitPinInv, PTL DEF Spec

-----------------------------------------------------------------------------
(* What a call ends with.                                                  *)

\* The vector gives each thread a member of P of its own while there is one, and each member
\* of P a thread when there are enough.
SharesOut(v, n, P) ==
  /\ n <= Cardinality(P) => /\ \A t \in 1 .. n : v[t] \in P
                            /\ \A s, t \in 1 .. n : s # t => v[s] # v[t]
  /\ Cardinality(P) <= n => \A p \in P : \E t \in 1 .. n : v[t] = p

\* The first processors of the cores are as many as the cores.
LEMMA PhysicalIs ==
  ASSUME Construct, NEW m \in Nat, m = Len(processorMap)
  PROVE  /\ Cardinality(Physical) = m
         /\ \A c \in 1 .. m : Min(CoreNow[c]) \in Physical /\ IsFirst(Min(CoreNow[c]), CoreNow[c])
         /\ \A c, d \in 1 .. m : Min(CoreNow[c]) = Min(CoreNow[d]) => c = d
         /\ \A p \in Physical : \E c \in 1 .. m : p = Min(CoreNow[c])
<1>1. PICK f : f = [c \in 1 .. m |-> Min(CoreNow[c])]
  OBVIOUS
<1>2. Cores(CoreNow, m) /\ \A c \in 1 .. m : CoreNow[c] \in machine.cores
  BY CoresAre
<1>3. ASSUME NEW c \in 1 .. m PROVE f[c] \in CoreNow[c] /\ IsFirst(f[c], CoreNow[c])
  <2>1. CoreNow[c] \subseteq Nat /\ CoreNow[c] # {}
    BY <1>2 DEF Cores
  <2>2. Min(CoreNow[c]) \in CoreNow[c] /\ \A y \in CoreNow[c] : Min(CoreNow[c]) <= y
    BY <2>1, MinIs
  <2> QED BY <1>1, <2>2 DEF IsFirst
<1>4. ASSUME NEW c \in 1 .. m PROVE f[c] \in Physical
  BY <1>1, <1>2 DEF Physical
<1>5. ASSUME NEW c \in 1 .. m, NEW d \in 1 .. m, f[c] = f[d] PROVE c = d
  <2>1. f[c] \in CoreNow[c] \cap CoreNow[d]
    BY <1>3, <1>5
  <2> QED BY <1>2, <2>1 DEF Cores
<1>6. ASSUME NEW p \in Physical PROVE \E c \in 1 .. m : f[c] = p
  <2>1. PICK S \in machine.cores : p = Min(S)
    BY DEF Physical
  <2>2. PICK c \in 1 .. m : CoreNow[c] = S
    BY CoresAre
  <2> QED BY <1>1, <2>1, <2>2
<1>7. f \in Bijection(1 .. m, Physical)
  <2>1. f \in [1 .. m -> Physical]
    BY <1>1, <1>4
  <2> QED BY <1>5, <1>6, <2>1, Fun_IsBij
<1>8. Cardinality(Physical) = m
  BY <1>7, FS_CountingElements DEF ExistsBijection
<1>9. \A c \in 1 .. m : f[c] = Min(CoreNow[c])
  BY <1>1
<1> QED BY <1>3, <1>4, <1>5, <1>6, <1>8, <1>9

\* The first round takes them, in the order of the cores.
LEMMA CoreShares ==
  ASSUME Construct, CoreRounds, NEW n \in Nat, procVect \in [1 .. n -> Processors]
  PROVE  SharesOut(procVect, n, Physical)
<1>1. PICK m \in Nat : m = Len(processorMap)
  BY CoresAre
<1>2. Len(procVect) = n
  BY ListIsSeq
<1>3. ASSUME NEW t \in 1 .. n, t <= m PROVE procVect[t] = Min(CoreNow[t])
  <2>1. t \in 1 .. m
    BY <1>3
  <2>2. IsFirst(procVect[t], CoreNow[t])
    BY <1>1, <1>2, <2>1 DEF CoreRounds, Rounds
  <2>3. IsFirst(Min(CoreNow[t]), CoreNow[t])
    BY <1>1, <2>1, PhysicalIs
  <2>4. CoreNow[t] \subseteq Nat
    BY <1>1, <2>1, CoresAre DEF Cores
  <2> QED BY <2>2, <2>3, <2>4 DEF IsFirst
<1>4. Cardinality(Physical) = m
  BY <1>1, PhysicalIs
<1>5. ASSUME n <= m
      PROVE  /\ \A t \in 1 .. n : procVect[t] \in Physical
             /\ \A s, t \in 1 .. n : s # t => procVect[s] # procVect[t]
  <2>1. \A t \in 1 .. n : t \in 1 .. m /\ procVect[t] = Min(CoreNow[t])
    BY <1>3, <1>5
  <2> QED BY <1>1, <2>1, PhysicalIs
<1>6. ASSUME m <= n, NEW p \in Physical PROVE \E t \in 1 .. n : procVect[t] = p
  <2>1. PICK c \in 1 .. m : p = Min(CoreNow[c])
    BY <1>1, PhysicalIs
  <2>2. c \in 1 .. n /\ c <= m
    BY <1>6
  <2> QED BY <1>3, <2>1, <2>2
<1> QED BY <1>4, <1>5, <1>6 DEF SharesOut

\* At its end, a call has pinned each thread to the processor that its vector names.
LEMMA PinnedIs ==
  ASSUME PinInv, Pinned
  PROVE  /\ Construct /\ threads \in Nat /\ Len(pinned) = threads /\ DOMAIN pinned = 1 .. threads
         /\ threads > 0 => OfStrategy /\ procVect \in [1 .. threads -> Processors]
         /\ \A t \in 1 .. threads : pinned[t] = {procVect[t]}
<1>1. pc = "done" /\ strategy \in Strategies /\ threads \in Nat /\ Construct
  BY DEF PinInv, Pinned, Done, Strategies
<1>2. CASE threads = 0
  <2>1. pinned = <<>>
    BY <1>1, <1>2 DEF PinInv
  <2> QED BY <1>1, <1>2, <2>1
<1>3. CASE threads > 0
  <2>1. OfStrategy /\ OfThreads
    BY <1>1, <1>3 DEF PinInv
  <2>2. /\ procVect \in [1 .. threads -> Processors] /\ Len(pinned) = threads
        /\ pinned \in Seq(SUBSET Processors)
        /\ \A t \in 1 .. Len(pinned) : pinned[t] = {procVect[t]}
    BY <1>1, <2>1 DEF OfThreads
  <2> QED BY <1>1, <2>1, <2>2
<1> QED BY <1>1, <1>2, <1>3

\* Every strategy, on every machine and for any number of threads, ends with each thread
\* pinned by setAffinity() to exactly one processor, also through the groups of Windows.
THEOREM EachOnOneProcessorHolds == Spec => []EachOnOneProcessor
<1>1. ASSUME PinInv PROVE EachOnOneProcessor
  <2>1. SUFFICES ASSUME Pinned
                 PROVE  Len(pinned) = threads
                        /\ \A t \in 1 .. threads : Cardinality(pinned[t]) = 1
    BY DEF EachOnOneProcessor
  <2>2. Len(pinned) = threads /\ \A t \in 1 .. threads : pinned[t] = {procVect[t]}
    BY <1>1, <2>1, PinnedIs
  <2>3. ASSUME NEW t \in 1 .. threads PROVE Cardinality(pinned[t]) = 1
    <3>1. PICK p : p = procVect[t] /\ pinned[t] = {p}
      BY <2>2
    <3> QED BY <3>1, FS_Singleton
  <2> QED BY <2>2, <2>3
<1> QED BY <1>1, PinInvariant, PTL

\* The vectors of the three strategies share what the strategy has to share out only between
\* too many threads, and leave none of it idle but with too few: all processors for spread,
\* with equal caches whose number is a power of two, and for logical; the first processor
\* of each core, whatever the cores are, for core.
THEOREM ProcessorsAreSharedHolds == Spec => []ProcessorsAreShared
<1>1. ASSUME PinInv PROVE ProcessorsAreShared
  <2>1. SUFFICES ASSUME Pinned, strategy = "spread" => RegularCaches
                 PROVE  /\ threads <= Cardinality(Offered) =>
                             /\ UNION Range(pinned) \subseteq Offered
                             /\ \A s, t \in 1 .. threads : s # t => pinned[s] \cap pinned[t] = {}
                        /\ Cardinality(Offered) <= threads =>
                             Offered \subseteq UNION Range(pinned)
    BY DEF ProcessorsAreShared
  <2>2. /\ Construct /\ threads \in Nat /\ DOMAIN pinned = 1 .. threads
        /\ threads > 0 => OfStrategy /\ procVect \in [1 .. threads -> Processors]
        /\ \A t \in 1 .. threads : pinned[t] = {procVect[t]}
    BY <1>1, <2>1, PinnedIs
  <2>3. Range(pinned) = {{procVect[t]} : t \in 1 .. threads}
    BY <2>2 DEF Range
  <2>4. CASE threads = 0
    <3>1. Range(pinned) = {}
      BY <2>3, <2>4
    <3>2. Cardinality(Offered) \in Nat /\ Cardinality(Offered) > 0
      <4>1. PICK m \in Nat : m = Len(processorMap) /\ m > 0
        BY <2>2, CoresAre
      <4>2. Cardinality(Physical) = m
        BY <2>2, <4>1, PhysicalIs
      <4>3. Cardinality(Processors) = active_processors
        BY <2>2, ProcessorsType
      <4> QED BY <2>2, <4>1, <4>2, <4>3, MachineFacts DEF Offered
    <3> QED BY <2>4, <3>1, <3>2
  <2>5. CASE threads > 0
    <3>1. OfStrategy /\ procVect \in [1 .. threads -> Processors]
      BY <2>2, <2>5
    <3>2. SharesOut(procVect, threads, Offered)
      <4>1. CASE strategy = "core"
        <5>1. CoreRounds /\ Offered = Physical
          BY <3>1, <4>1 DEF OfStrategy, Offered
        <5> QED BY <2>2, <3>1, <5>1, CoreShares
      <4>2. CASE strategy # "core"
        <5>1. Shares(procVect, threads)
          BY <2>1, <3>1, <4>2 DEF OfStrategy, Pinned
        <5>2. Offered = Processors /\ Cardinality(Processors) = active_processors
          BY <2>2, <4>2, ProcessorsType DEF Offered
        <5> QED BY <3>1, <5>1, <5>2 DEF Shares, SharesOut
      <4> QED BY <4>1, <4>2
    <3>3. ASSUME threads <= Cardinality(Offered)
          PROVE  /\ UNION Range(pinned) \subseteq Offered
                 /\ \A s, t \in 1 .. threads : s # t => pinned[s] \cap pinned[t] = {}
      <4>1. /\ \A t \in 1 .. threads : procVect[t] \in Offered
            /\ \A s, t \in 1 .. threads : s # t => procVect[s] # procVect[t]
        BY <3>2, <3>3 DEF SharesOut
      <4>2. UNION Range(pinned) \subseteq Offered
        BY <2>3, <4>1
      <4>3. ASSUME NEW s \in 1 .. threads, NEW t \in 1 .. threads, s # t
            PROVE  pinned[s] \cap pinned[t] = {}
        <5>1. procVect[s] # procVect[t]
          BY <4>1, <4>3
        <5> QED BY <2>2, <5>1
      <4> QED BY <4>2, <4>3
    <3>4. ASSUME Cardinality(Offered) <= threads
          PROVE  Offered \subseteq UNION Range(pinned)
      <4>1. \A p \in Offered : \E t \in 1 .. threads : procVect[t] = p
        BY <3>2, <3>4 DEF SharesOut
      <4> QED BY <2>3, <4>1
    <3> QED BY <3>3, <3>4
  <2> QED BY <2>2, <2>4, <2>5
<1> QED BY <1>1, PinInvariant, PTL

\* Spread puts no second thread on a cache before all have one, for any caches and any
\* number of threads.
THEOREM CachesAreSharedHolds == Spec => []CachesAreShared
<1>1. ASSUME PinInv PROVE CachesAreShared
  <2> DEFINE load(C) == Cardinality({t \in 1 .. threads : pinned[t] \subseteq C})
  <2>1. SUFFICES ASSUME Pinned, strategy = "spread", machine.caches # {}
                 PROVE  /\ threads <= Cardinality(machine.caches) =>
                             \A C \in machine.caches : load(C) <= 1
                        /\ Cardinality(machine.caches) <= threads =>
                             \A C \in machine.caches : load(C) >= 1
    BY DEF CachesAreShared
  <2>2. /\ Construct /\ threads \in Nat
        /\ threads > 0 => OfStrategy /\ procVect \in [1 .. threads -> Processors]
        /\ \A t \in 1 .. threads : pinned[t] = {procVect[t]}
    BY <1>1, <2>1, PinnedIs
  <2>3. \A C : load(C) = Load(procVect, threads, C)
    BY <2>2 DEF Load
  <2> HIDE DEF load
  <2>4. CASE threads = 0
    <3>1. \A C : Load(procVect, threads, C) = 0
      <4>1. \A C : {t \in 1 .. threads : procVect[t] \in C} = {}
        BY <2>4
      <4> QED BY <4>1, FS_EmptySet DEF Load
    <3>2. Cardinality(machine.caches) \in Nat /\ Cardinality(machine.caches) > 0
      BY <2>1, <2>2, MachineFacts, PartFacts
    <3> QED BY <2>3, <2>4, <3>1, <3>2
  <2>5. CASE threads > 0
    <3>1. SharesCaches(procVect, threads)
      BY <2>1, <2>2, <2>5 DEF OfStrategy
    <3> QED BY <2>1, <2>3, <3>1 DEF SharesCaches
  <2> QED BY <2>2, <2>4, <2>5
<1> QED BY <1>1, PinInvariant, PTL

\* The loop of the core strategy gives no core a second thread before every core has one,
\* at every step, for cores of any size.
THEOREM CoresBeforeSiblingsHolds == Spec => []CoresBeforeSiblings
<1>1. ASSUME PinInv PROVE CoresBeforeSiblings
  <2> DEFINE load(C) == Cardinality({t \in DOMAIN procVect : procVect[t] \in C})
  <2>1. SUFFICES ASSUME strategy = "core", NEW C \in machine.cores, NEW D \in machine.cores,
                        load(C) >= 2
                 PROVE  load(D) >= 1
    BY DEF CoresBeforeSiblings
  <2>2. threads \in Nat /\ Construct
    BY <1>1, <2>1 DEF PinInv, Strategies
  <2>3. CASE threads = 0
    <3>1. procVect = <<>>
      BY <1>1, <2>1, <2>3 DEF PinInv, Strategies
    <3>2. load(C) = 0
      <4>1. {t \in DOMAIN procVect : procVect[t] \in C} = {}
        BY <3>1
      <4> QED BY <4>1, FS_EmptySet
    <3> QED BY <2>1, <3>2
  <2>4. CASE threads > 0
    <3>1. CoreRounds
      BY <1>1, <2>1, <2>2, <2>4 DEF PinInv, Strategies, OfStrategy
    <3>2. PICK m \in Nat : m = Len(processorMap)
      BY <2>2, CoresAre
    <3>3. PICK c \in 1 .. m, d \in 1 .. m : C = CoreNow[c] /\ D = CoreNow[d]
      BY <2>1, <2>2, <3>2, CoresAre
    <3>4. PICK n \in Nat : n = Len(procVect) /\ DOMAIN procVect = 1 .. n
      BY <3>1 DEF CoreRounds
    <3>5. \A k \in 1 .. m : k <= n => procVect[k] \in CoreNow[k]
      BY <3>1, <3>2, <3>4 DEF CoreRounds, Rounds, IsFirst
    <3>6. ASSUME NEW S PROVE IsFiniteSet({t \in 1 .. n : procVect[t] \in S})
      <4>1. {t \in 1 .. n : procVect[t] \in S} \subseteq 1 .. n
        OBVIOUS
      <4>2. IsFiniteSet(1 .. n)
        BY FS_Interval
      <4> QED BY <4>1, <4>2, FS_Subset
    <3>7. CASE d <= n
      <4>1. PICK T : T = {t \in 1 .. n : procVect[t] \in D}
        OBVIOUS
      <4>2. d \in T /\ IsFiniteSet(T)
        BY <3>3, <3>5, <3>6, <3>7, <4>1
      <4>3. Cardinality(T) \in Nat /\ Cardinality(T) # 0
        BY <4>2, FS_CardinalityType, FS_EmptySet
      <4>4. load(D) = Cardinality(T)
        BY <3>4, <4>1
      <4> HIDE DEF load
      <4> QED BY <4>3, <4>4
    <3>8. CASE ~(d <= n)
      <4>1. PICK T : T = {t \in 1 .. n : procVect[t] \in C}
        OBVIOUS
      <4>2. T \subseteq {c}
        <5>1. ASSUME NEW t \in T PROVE t = c
          <6>1. t \in 1 .. m /\ t <= n /\ procVect[t] \in C
            BY <3>8, <4>1
          <6>2. procVect[t] \in CoreNow[t] \cap CoreNow[c]
            BY <3>3, <3>5, <6>1
          <6>3. Cores(CoreNow, m)
            BY <2>2, <3>2, CoresAre
          <6> QED BY <6>1, <6>2, <6>3 DEF Cores
        <5> QED BY <5>1
      <4>3. Cardinality(T) <= 1
        <5>1. IsFiniteSet({c}) /\ Cardinality({c}) = 1
          BY FS_Singleton
        <5> QED BY <4>2, <5>1, FS_Subset
      <4>4. load(C) = Cardinality(T)
        BY <3>4, <4>1
      <4>5. Cardinality(T) \in Nat
        BY <3>6, <4>1, FS_CardinalityType
      <4> QED BY <2>1, <4>3, <4>4, <4>5
    <3> QED BY <3>7, <3>8
  <2> QED BY <2>2, <2>3, <2>4
<1> QED BY <1>1, PinInvariant, PTL

=============================================================================
