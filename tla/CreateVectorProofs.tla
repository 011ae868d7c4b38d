-------------------------- MODULE CreateVectorProofs --------------------------
(* Proofs about CreateVector: what holds for any numbers of threads and     *)
(* processors.                                                              *)
EXTENDS CreateVector, FiniteSetTheorems, WellFoundedInduction, TLAPS

\* A set of natural numbers has a least one: the intervals from zero to its members are
\* finite sets, and strict inclusion of finite sets is well-founded.
LEMMA LeastNumber ==
  ASSUME NEW T, T \subseteq Nat, T # {}
  PROVE  \E x \in T : \A y \in T : x <= y
<1> DEFINE U == {0..n : n \in T}
<1>1. PICK R : R = StrictSubsetOrdering(Nat)
  OBVIOUS
<1>2. PICK F : F = FiniteSubsetsOf(Nat)
  OBVIOUS
<1>3. IsWellFoundedOn(R, F)
  BY <1>1, <1>2, FS_StrictSubsetOrderingWellFounded
<1>4. U \subseteq F
  <2>1. ASSUME NEW n \in T PROVE 0..n \in F
    <3>1. IsFiniteSet(0..n)
      BY FS_Interval
    <3> QED BY <3>1, <1>2 DEF FiniteSubsetsOf
  <2> QED BY <2>1
<1>5. U # {}
  OBVIOUS
<1>6. PICK V : V = U
  OBVIOUS
<1>7. \E v \in V : \A w \in V : ~ (<<w, v>> \in R)
  BY <1>3, <1>4, <1>5, <1>6, WFMin
<1>8. PICK x \in T : \A y \in T : ~ (<<0..y, 0..x>> \in R)
  BY <1>6, <1>7
<1>9. ASSUME NEW y \in T, y < x PROVE FALSE
  <2>1. 0..y \subseteq 0..x /\ 0..y # 0..x
    <3>1. x \in 0..x /\ x \notin 0..y
      BY <1>9
    <3> QED BY <3>1, <1>9
  <2>2. <<0..y, 0..x>> \in R
    BY <2>1, <1>1 DEF StrictSubsetOrdering
  <2> QED BY <2>2, <1>8
<1>10. \A y \in T : x <= y
  BY <1>9
<1> QED BY <1>10

\* The threads and processors that no pending activation covers.
ThreadsDone    == IF calls = <<>> THEN nt ELSE Top.t0
ProcessorsDone == IF calls = <<>> THEN np ELSE Top.p0

\* The pending activations cut what is left into adjacent non-empty ranges ...
Cut ==
  /\ \A i \in 1 .. Len(calls) :
       /\ calls[i].t0 <= calls[i].t1 /\ calls[i].t1 < nt
       /\ calls[i].p0 <= calls[i].p1 /\ calls[i].p1 < np
  /\ \A i \in 1 .. Len(calls) - 1 : /\ calls[i + 1].t0 = calls[i].t1 + 1
                                    /\ calls[i + 1].p0 = calls[i].p1 + 1
  /\ calls # <<>> => /\ calls[Len(calls)].t1 = nt - 1
                     /\ calls[Len(calls)].p1 = np - 1

\* ... each with enough processors for its threads if there are enough for all,
\* and with enough threads for its processors if there are enough for all.
Fits ==
  \A i \in 1 .. Len(calls) :
    /\ nt <= np => calls[i].t1 - calls[i].t0 <= calls[i].p1 - calls[i].p0
    /\ np <= nt => calls[i].p1 - calls[i].p0 <= calls[i].t1 - calls[i].t0

\* The first a threads go to the first c processors, in order, and one to each as
\* far as the totals n and m allow; and so do those that are done.
Spread(a, c, n, m, f) ==
  /\ \A t \in 0 .. a - 1 : f[t] < c
  /\ \A s, t \in 0 .. a - 1 : s <= t => f[s] <= f[t]
  /\ n <= m => \A s, t \in 0 .. a - 1 : s < t => f[s] < f[t]
  /\ m <= n => \A p \in 0 .. c - 1 : \E t \in 0 .. a - 1 : f[t] = p
Placed == Spread(ThreadsDone, ProcessorsDone, nt, np, procVect)

\* With nothing to distribute, or nothing to distribute it over, the one call
\* returns and leaves the zeros it was given.
Idle ==
  /\ calls \in {<<>>, <<Call(0, nt - 1, 0, np - 1)>>}
  /\ procVect = [t \in 0 .. nt - 1 |-> 0]

Inv ==
  /\ TypeOK
  /\ nt > 0 /\ np > 0 => Cut /\ Fits /\ Placed
  /\ ~(nt > 0 /\ np > 0) => Idle

Range4 == [t0 : Nat, t1 : Int, p0 : Nat, p1 : Int]
-----------------------------------------------------------------------------
(* Sequences.                                                               *)

\* Removal of the first element moves every other one down by one.
LEMMA TailElements ==
  ASSUME NEW S, NEW s \in Seq(S), s # <<>>
  PROVE  /\ Tail(s) \in Seq(S) /\ Len(Tail(s)) = Len(s) - 1
         /\ \A i \in 1 .. Len(s) - 1 : Tail(s)[i] = s[i + 1]
         /\ Len(s) \in Nat \ {0} /\ Head(s) = s[1] /\ Head(s) \in S
  OBVIOUS

\* Replacement of the first element by two moves every other one up by one.
LEMMA SplitElements ==
  ASSUME NEW S, NEW s \in Seq(S), s # <<>>, NEW a \in S, NEW b \in S
  PROVE  LET r == <<a, b>> \o Tail(s) IN
           /\ r \in Seq(S) /\ Len(r) = Len(s) + 1 /\ r # <<>>
           /\ r[1] = a /\ r[2] = b
           /\ \A i \in 3 .. Len(s) + 1 : r[i] = s[i - 1]
<1>1. <<a, b>> \in Seq(S) /\ Len(<<a, b>>) = 2
  OBVIOUS
<1>2. Tail(s) \in Seq(S) /\ Len(Tail(s)) = Len(s) - 1 /\ Len(s) \in Nat \ {0}
      /\ \A i \in 1 .. Len(s) - 1 : Tail(s)[i] = s[i + 1]
  BY TailElements
<1>. DEFINE r == <<a, b>> \o Tail(s)
<1>3. r \in Seq(S) /\ Len(r) = 2 + (Len(s) - 1)
  BY <1>1, <1>2
<1>4. \A i \in 1 .. Len(r) :
        r[i] = IF i <= 2 THEN <<a, b>>[i] ELSE Tail(s)[i - 2]
  BY <1>1, <1>2, <1>3
<1>5. r[1] = a /\ r[2] = b
  BY <1>2, <1>3, <1>4
<1>6. ASSUME NEW i \in 3 .. Len(s) + 1
      PROVE  r[i] = s[i - 1]
  <2>1. i \in 1 .. Len(r) /\ i > 2 /\ i - 2 \in 1 .. Len(s) - 1 /\ (i - 2) + 1 = i - 1
    BY <1>2, <1>3
  <2>2. r[i] = Tail(s)[i - 2]
    BY <1>4, <2>1
  <2>. QED  BY <1>2, <2>1, <2>2
<1>7. r # <<>>
  BY <1>2, <1>3
<1>. QED  BY <1>2, <1>3, <1>5, <1>6, <1>7

\* The middle of a range of two elements or more leaves both halves non-empty,
\* and rounds the left one up.
LEMMA Middles ==
  \A x, y \in Nat : x < y =>
    /\ Middle(x, y) \in Nat /\ x <= Middle(x, y) /\ Middle(x, y) < y
    /\ \/ 2 * (Middle(x, y) - x) = y - x
       \/ 2 * (Middle(x, y) - x) = y - x - 1
  BY DEF Middle

\* A distribution f of threads below a over processors below c, extended by the
\* threads a .. b, all on c, is one of threads up to b over processors up to d.
Extends(a, b, c, n, f, g) ==
  g = [t \in 0 .. n - 1 |-> IF t \in a .. b THEN c ELSE f[t]]
LEMMA Extension ==
  ASSUME NEW a \in Nat, NEW b \in Nat, NEW c \in Nat, NEW d \in Nat,
         NEW n \in Nat, NEW m \in Nat, a <= b, b < n, c <= d, a = b \/ c = d,
         n <= m => b - a <= d - c,
         m <= n => d - c <= b - a,
         NEW f \in [0 .. n - 1 -> Nat], NEW g,
         Spread(a, c, n, m, f), Extends(a, b, c, n, f, g)
  PROVE  Spread(b + 1, d + 1, n, m, g)
<1>. USE DEF Spread, Extends
<1>0. (b + 1) - 1 = b /\ (d + 1) - 1 = d
  OBVIOUS
<1>1. \A t \in 0 .. b : g[t] = IF a <= t THEN c ELSE f[t]
  OBVIOUS
<1>2. \A t \in 0 .. a - 1 : f[t] \in Nat
  OBVIOUS
<1>3. \A t \in 0 .. b : g[t] < d + 1
  BY <1>1, <1>2
<1>4. \A s, t \in 0 .. b : s <= t => g[s] <= g[t]
  BY <1>1, <1>2
<1>5. n <= m => \A s, t \in 0 .. b : s < t => g[s] < g[t]
  BY <1>1, <1>2
<1>6. ASSUME m <= n, NEW p \in 0 .. d PROVE \E t \in 0 .. b : g[t] = p
  <2>1. CASE p < c
    <3>1. PICK t \in 0 .. a - 1 : f[t] = p
      BY <1>6, <2>1
    <3>. QED  BY <1>1, <3>1
  <2>2. CASE ~(p < c)
    <3>1. p = c
      BY <1>6, <2>2
    <3>2. a \in 0 .. b /\ g[a] = c
      BY <1>1
    <3>. QED  BY <3>1, <3>2
  <2>. QED  BY <2>1, <2>2
<1>. QED  BY <1>0, <1>3, <1>4, <1>5, <1>6

\* An extension stays within the range of the processors.
LEMMA ExtensionInRange ==
  ASSUME NEW a \in Nat, NEW b \in Nat, NEW c \in Nat, NEW n \in Nat, NEW m \in Nat,
         c < m, NEW f \in [0 .. n - 1 -> Nat], \A t \in 0 .. n - 1 : f[t] < m,
         NEW g, Extends(a, b, c, n, f, g)
  PROVE  g \in [0 .. n - 1 -> Nat] /\ \A t \in 0 .. n - 1 : g[t] < m
<1>1. g = [t \in 0 .. n - 1 |-> IF t \in a .. b THEN c ELSE f[t]]
  BY DEF Extends
<1>2. \A t \in 0 .. n - 1 : f[t] \in Nat
  OBVIOUS
<1>3. \A t \in 0 .. n - 1 : g[t] = IF t \in a .. b THEN c ELSE f[t]
  BY <1>1
<1>4. \A t \in 0 .. n - 1 : g[t] \in Nat /\ g[t] < m
  BY <1>2, <1>3
<1>. QED  BY <1>1, <1>4
-----------------------------------------------------------------------------
(* Steps.                                                                   *)

LEMMA InvInit == Init => Inv
<1>. SUFFICES ASSUME Init PROVE Inv
  OBVIOUS
<1>1. nt \in Nat /\ np \in Nat
  BY SizesAssumption DEF Init
<1>2. calls = <<Call(0, nt - 1, 0, np - 1)>> /\ procVect = [t \in 0 .. nt - 1 |-> 0]
  BY DEF Init
<1>. DEFINE first == Call(0, nt - 1, 0, np - 1)
<1>3. first \in Range4 /\ first.t0 = 0 /\ first.t1 = nt - 1 /\ first.p0 = 0
      /\ first.p1 = np - 1
  BY <1>1 DEF Call, Range4
<1>. HIDE DEF first
<1>4. calls = <<first>>
  BY <1>2 DEF first
<1>5. calls \in Seq(Range4) /\ Len(calls) = 1 /\ calls[1] = first /\ Head(calls) = first
      /\ calls # <<>>
  BY <1>3, <1>4
<1>6. TypeOK
  BY <1>1, <1>2, <1>5 DEF TypeOK, Range4
<1>7. ASSUME nt > 0, np > 0 PROVE Cut /\ Fits /\ Placed
  <2>1. Cut
    BY <1>1, <1>3, <1>5, <1>7 DEF Cut
  <2>2. Fits
    BY <1>1, <1>3, <1>5, <1>7 DEF Fits
  <2>3. ThreadsDone = 0 /\ ProcessorsDone = 0
    BY <1>3, <1>5 DEF ThreadsDone, ProcessorsDone, Top
  <2>4. Placed
    BY <2>3 DEF Placed, Spread
  <2>. QED  BY <2>1, <2>2, <2>4
<1>8. Idle
  BY <1>2 DEF Idle
<1>. QED  BY <1>6, <1>7, <1>8 DEF Inv

\* The first activation, as the invariant describes it.
LEMMA TopFacts ==
  ASSUME Inv, calls # <<>>, nt > 0, np > 0
  PROVE  /\ Top \in Range4 /\ Nonempty
         /\ Top.t1 \in Nat /\ Top.p1 \in Nat /\ Top.t1 < nt /\ Top.p1 < np
         /\ nt <= np => Top.t1 - Top.t0 <= Top.p1 - Top.p0
         /\ np <= nt => Top.p1 - Top.p0 <= Top.t1 - Top.t0
         /\ ThreadsDone = Top.t0 /\ ProcessorsDone = Top.p0
<1>1. calls \in Seq(Range4) /\ nt \in Nat /\ np \in Nat
  BY DEF Inv, TypeOK, Range4
<1>2. Len(calls) \in Nat \ {0} /\ Top = calls[1] /\ Top \in Range4
  BY <1>1, TailElements DEF Top
<1>3. 1 \in 1 .. Len(calls)
  BY <1>2
<1>4. Top.t0 \in Nat /\ Top.t1 \in Int /\ Top.p0 \in Nat /\ Top.p1 \in Int
  BY <1>2 DEF Range4
<1>5. /\ Top.t0 <= Top.t1 /\ Top.t1 < nt
      /\ Top.p0 <= Top.p1 /\ Top.p1 < np
  BY <1>2, <1>3 DEF Inv, Cut
<1>6. /\ nt <= np => Top.t1 - Top.t0 <= Top.p1 - Top.p0
      /\ np <= nt => Top.p1 - Top.p0 <= Top.t1 - Top.t0
  BY <1>2, <1>3 DEF Inv, Fits
<1>. QED  BY <1>1, <1>2, <1>4, <1>5, <1>6 DEF Nonempty, ThreadsDone, ProcessorsDone

\* An activation that assigns its range: one thread, or one processor.
AssignTop ==
  /\ calls # <<>>
  /\ Top.t0 = Top.t1 \/ Top.p0 = Top.p1
  /\ procVect' = [t \in DOMAIN procVect |->
                    IF t \in Top.t0 .. Top.t1 THEN Top.p0 ELSE procVect[t]]
  /\ calls' = Tail(calls)
  /\ UNCHANGED <<nt, np>>

\* It handles the next range of threads and of processors, and leaves the other calls.
LEMMA AssignFacts ==
  ASSUME Inv, AssignTop, nt > 0, np > 0
  PROVE  /\ calls' \in Seq(Range4) /\ Len(calls') = Len(calls) - 1
         /\ \A i \in 1 .. Len(calls) - 1 : calls'[i] = calls[i + 1]
         /\ Len(calls) \in Nat \ {0} /\ Top = calls[1]
         /\ ThreadsDone' = Top.t1 + 1 /\ ProcessorsDone' = Top.p1 + 1
<1>. USE DEF AssignTop
<1>. DEFINE b == Top.t1  d == Top.p1
<1>1. b \in Nat /\ d \in Nat
  BY TopFacts
<1>2. nt \in Nat /\ np \in Nat /\ calls \in Seq(Range4) /\ nt' = nt /\ np' = np
  BY DEF Inv, TypeOK, Range4
<1>3. /\ calls' \in Seq(Range4) /\ Len(calls') = Len(calls) - 1
      /\ \A i \in 1 .. Len(calls) - 1 : calls'[i] = calls[i + 1]
      /\ Len(calls) \in Nat \ {0} /\ Top = calls[1]
  BY <1>2, TailElements DEF Top
<1>4. ThreadsDone' = b + 1 /\ ProcessorsDone' = d + 1
  <2>1. CASE Len(calls) = 1
    <3>1. calls' = <<>>
      BY <1>3, <2>1
    <3>2. b = nt - 1 /\ d = np - 1
      BY <1>3, <2>1 DEF Inv, Cut
    <3>. QED  BY <1>1, <1>2, <3>1, <3>2 DEF ThreadsDone, ProcessorsDone
  <2>2. CASE Len(calls) # 1
    <3>0. Len(calls') # 0 /\ 1 \in 1 .. Len(calls) - 1
      BY <1>3, <2>2
    <3>1. 1 \in 1 .. Len(calls) - 1 /\ calls' # <<>>
      BY <3>0
    <3>2. Head(calls') = calls[1 + 1]
      BY <1>3, <3>1
    <3>3. calls[1 + 1].t0 = calls[1].t1 + 1 /\ calls[1 + 1].p0 = calls[1].p1 + 1
      BY <3>1 DEF Inv, Cut
    <3>. QED  BY <1>3, <3>1, <3>2, <3>3 DEF ThreadsDone, ProcessorsDone, Top
  <2>. QED  BY <2>1, <2>2
<1>. QED  BY <1>3, <1>4

LEMMA InvAssign ==
  ASSUME Inv, AssignTop, nt > 0, np > 0
  PROVE  Inv'
<1>. USE DEF AssignTop
<1>. DEFINE a == Top.t0  b == Top.t1  c == Top.p0  d == Top.p1
<1>1. /\ a \in Nat /\ b \in Nat /\ c \in Nat /\ d \in Nat
      /\ a <= b /\ b < nt /\ c <= d /\ d < np
      /\ nt <= np => b - a <= d - c
      /\ np <= nt => d - c <= b - a
      /\ ThreadsDone = a /\ ProcessorsDone = c
  BY TopFacts DEF Range4, Nonempty
<1>2. /\ nt \in Nat /\ np \in Nat /\ procVect \in [0 .. nt - 1 -> Nat]
      /\ calls \in Seq(Range4) /\ nt' = nt /\ np' = np
      /\ \A t \in 0 .. nt - 1 : procVect[t] < np
  BY DEF Inv, TypeOK, Range4
<1>3. a = b \/ c = d
  OBVIOUS
<1>4. procVect' = [t \in 0 .. nt - 1 |-> IF t \in a .. b THEN c ELSE procVect[t]]
  BY <1>2
<1>5. /\ calls' \in Seq(Range4) /\ Len(calls') = Len(calls) - 1
      /\ \A i \in 1 .. Len(calls) - 1 : calls'[i] = calls[i + 1]
      /\ Len(calls) \in Nat \ {0} /\ Top = calls[1]
  BY AssignFacts
<1>6. ThreadsDone' = b + 1 /\ ProcessorsDone' = d + 1
  BY AssignFacts
<1>. HIDE DEF a, b, c, d
<1>7. Cut'
  <2>1. ASSUME NEW i \in 1 .. Len(calls')
        PROVE  /\ calls'[i].t0 <= calls'[i].t1 /\ calls'[i].t1 < nt'
               /\ calls'[i].p0 <= calls'[i].p1 /\ calls'[i].p1 < np'
    <3>1. i + 1 \in 1 .. Len(calls) /\ calls'[i] = calls[i + 1]
      BY <1>5
    <3>. QED  BY <1>2, <3>1 DEF Inv, Cut
  <2>2. ASSUME NEW i \in 1 .. Len(calls') - 1
        PROVE  /\ calls'[i + 1].t0 = calls'[i].t1 + 1
               /\ calls'[i + 1].p0 = calls'[i].p1 + 1
    <3>1. /\ calls'[i] = calls[i + 1] /\ calls'[i + 1] = calls[(i + 1) + 1]
          /\ i + 1 \in 1 .. Len(calls) - 1
      BY <1>5
    <3>. QED  BY <3>1 DEF Inv, Cut
  <2>3. ASSUME calls' # <<>>
        PROVE  calls'[Len(calls')].t1 = nt' - 1 /\ calls'[Len(calls')].p1 = np' - 1
    <3>1. Len(calls') \in 1 .. Len(calls) - 1
      BY <1>5, <2>3
    <3>2. calls'[Len(calls')] = calls[Len(calls') + 1] /\ Len(calls') + 1 = Len(calls)
      BY <1>5, <3>1
    <3>. QED  BY <1>2, <3>2 DEF Inv, Cut
  <2>. QED  BY <2>1, <2>2, <2>3 DEF Cut
<1>8. Fits'
  <2>1. ASSUME NEW i \in 1 .. Len(calls')
        PROVE  i + 1 \in 1 .. Len(calls) /\ calls'[i] = calls[i + 1]
    BY <1>5
  <2>. QED  BY <1>2, <2>1 DEF Inv, Fits
<1>9. Placed'
  <2>1. Spread(a, c, nt, np, procVect)
    BY <1>1 DEF Inv, Placed
  <2>2. Extends(a, b, c, nt, procVect, procVect')
    BY <1>4 DEF Extends
  <2>3. Spread(b + 1, d + 1, nt, np, procVect')
    BY <1>1, <1>2, <1>3, <2>1, <2>2, Extension
  <2>. QED  BY <1>2, <1>6, <2>3 DEF Placed
<1>10. TypeOK'
  <2>0. Extends(a, b, c, nt, procVect, procVect')
    BY <1>4 DEF Extends
  <2>1. procVect' \in [0 .. nt - 1 -> Nat] /\ \A t \in 0 .. nt - 1 : procVect'[t] < np
    <3>1. c < np
      BY <1>1, <1>2
    <3>. QED  BY <1>1, <1>2, <2>0, <3>1, ExtensionInRange
  <2>. QED  BY <1>2, <1>5, <2>1 DEF TypeOK, Range4
<1>. QED  BY <1>2, <1>7, <1>8, <1>9, <1>10 DEF Inv

\* An activation that calls itself on the halves of its ranges.
LEMMA SplitFacts ==
  ASSUME Inv, Split, nt > 0, np > 0
  PROVE  LET a == Top.t0  b == Top.t1  c == Top.p0  d == Top.p1
             tm == Middle(a, b)  pm == Middle(c, d)
             left == Call(a, tm, c, pm)  right == Call(tm + 1, b, pm + 1, d)
         IN
           /\ a < b /\ c < d /\ UNCHANGED <<nt, np, procVect>>
           /\ tm \in Nat /\ a <= tm /\ tm < b
           /\ 2 * (tm - a) = b - a \/ 2 * (tm - a) = b - a - 1
           /\ pm \in Nat /\ c <= pm /\ pm < d
           /\ 2 * (pm - c) = d - c \/ 2 * (pm - c) = d - c - 1
           /\ left \in Range4 /\ left.t0 = a /\ left.t1 = tm /\ left.p0 = c /\ left.p1 = pm
           /\ right \in Range4 /\ right.t0 = tm + 1 /\ right.t1 = b
           /\ right.p0 = pm + 1 /\ right.p1 = d
           /\ calls' \in Seq(Range4) /\ Len(calls') = Len(calls) + 1 /\ calls' # <<>>
           /\ calls'[1] = left /\ calls'[2] = right
           /\ \A i \in 3 .. Len(calls) + 1 : calls'[i] = calls[i - 1]
           /\ Len(calls) \in Nat \ {0} /\ Top = calls[1]
           /\ ThreadsDone' = a /\ ProcessorsDone' = c
<1>. DEFINE a == Top.t0  b == Top.t1  c == Top.p0  d == Top.p1
            tm == Middle(a, b)  pm == Middle(c, d)
            left == Call(a, tm, c, pm)  right == Call(tm + 1, b, pm + 1, d)
<1>0. /\ calls # <<>> /\ a < b /\ c < d
      /\ calls' = <<left, right>> \o Tail(calls) /\ UNCHANGED <<nt, np, procVect>>
  BY DEF Split, SplitAt, SplitInto
<1>. HIDE DEF tm, pm, left, right
<1>1. /\ a \in Nat /\ b \in Nat /\ c \in Nat /\ d \in Nat
      /\ b < nt /\ d < np
      /\ nt <= np => b - a <= d - c
      /\ np <= nt => d - c <= b - a
      /\ ThreadsDone = a /\ ProcessorsDone = c
  BY <1>0, TopFacts DEF Range4
<1>. HIDE DEF a, b, c, d
<1>2. /\ nt \in Nat /\ np \in Nat /\ calls \in Seq(Range4)
      /\ nt' = nt /\ np' = np /\ procVect' = procVect
  BY <1>0 DEF Inv, TypeOK, Range4
<1>3. /\ tm \in Nat /\ a <= tm /\ tm < b
      /\ 2 * (tm - a) = b - a \/ 2 * (tm - a) = b - a - 1
  BY <1>0, <1>1, Middles DEF tm
<1>4. /\ pm \in Nat /\ c <= pm /\ pm < d
      /\ 2 * (pm - c) = d - c \/ 2 * (pm - c) = d - c - 1
  BY <1>0, <1>1, Middles DEF pm
<1>5. /\ left \in Range4 /\ left.t0 = a /\ left.t1 = tm /\ left.p0 = c /\ left.p1 = pm
      /\ right \in Range4 /\ right.t0 = tm + 1 /\ right.t1 = b
      /\ right.p0 = pm + 1 /\ right.p1 = d
  BY <1>1, <1>3, <1>4 DEF Call, Range4, left, right
<1>6. /\ calls' \in Seq(Range4) /\ Len(calls') = Len(calls) + 1 /\ calls' # <<>>
      /\ calls'[1] = left /\ calls'[2] = right
      /\ \A i \in 3 .. Len(calls) + 1 : calls'[i] = calls[i - 1]
  BY <1>0, <1>2, <1>5, SplitElements
<1>7. Len(calls) \in Nat \ {0} /\ Top = calls[1] /\ Head(calls') = left
      /\ a = calls[1].t0 /\ b = calls[1].t1 /\ c = calls[1].p0 /\ d = calls[1].p1
  BY <1>0, <1>2, <1>6, TailElements DEF Top, a, b, c, d
<1>8. ThreadsDone' = a /\ ProcessorsDone' = c
  BY <1>5, <1>6, <1>7 DEF ThreadsDone, ProcessorsDone, Top
<1>. QED  BY <1>0, <1>1, <1>2, <1>3, <1>4, <1>5, <1>6, <1>7, <1>8
          DEF a, b, c, d, tm, pm, left, right

LEMMA InvSplit ==
  ASSUME Inv, Split, nt > 0, np > 0
  PROVE  Inv'
<1>. DEFINE a == Top.t0  b == Top.t1  c == Top.p0  d == Top.p1
            tm == Middle(a, b)  pm == Middle(c, d)
            left == Call(a, tm, c, pm)  right == Call(tm + 1, b, pm + 1, d)
<1>0. calls # <<>> /\ a < b /\ c < d
  BY DEF Split, SplitAt, SplitInto
<1>1. /\ a \in Nat /\ b \in Nat /\ c \in Nat /\ d \in Nat
      /\ b < nt /\ d < np
      /\ nt <= np => b - a <= d - c
      /\ np <= nt => d - c <= b - a
      /\ ThreadsDone = a /\ ProcessorsDone = c
  BY <1>0, TopFacts DEF Range4
<1>2. /\ nt \in Nat /\ np \in Nat /\ calls \in Seq(Range4)
      /\ nt' = nt /\ np' = np /\ procVect' = procVect
  BY SplitFacts DEF Inv, TypeOK, Range4
<1>3. /\ tm \in Nat /\ a <= tm /\ tm < b
      /\ 2 * (tm - a) = b - a \/ 2 * (tm - a) = b - a - 1
  BY SplitFacts
<1>4. /\ pm \in Nat /\ c <= pm /\ pm < d
      /\ 2 * (pm - c) = d - c \/ 2 * (pm - c) = d - c - 1
  BY SplitFacts
<1>5. /\ left \in Range4 /\ left.t0 = a /\ left.t1 = tm /\ left.p0 = c /\ left.p1 = pm
      /\ right \in Range4 /\ right.t0 = tm + 1 /\ right.t1 = b
      /\ right.p0 = pm + 1 /\ right.p1 = d
  BY SplitFacts
<1>6. /\ calls' \in Seq(Range4) /\ Len(calls') = Len(calls) + 1 /\ calls' # <<>>
      /\ calls'[1] = left /\ calls'[2] = right
      /\ \A i \in 3 .. Len(calls) + 1 : calls'[i] = calls[i - 1]
  BY SplitFacts
<1>7. /\ Len(calls) \in Nat \ {0} /\ Top = calls[1]
      /\ a = calls[1].t0 /\ b = calls[1].t1 /\ c = calls[1].p0 /\ d = calls[1].p1
  BY SplitFacts
<1>8. ThreadsDone' = a /\ ProcessorsDone' = c
  BY SplitFacts
<1>. HIDE DEF a, b, c, d, tm, pm, left, right
<1>9. \A i \in 1 .. Len(calls') :
        \/ i = 1
        \/ i = 2
        \/ i \in 3 .. Len(calls) + 1 /\ i - 1 \in 2 .. Len(calls)
  BY <1>6, <1>7
<1>10. Cut'
  <2>1. ASSUME NEW i \in 1 .. Len(calls')
        PROVE  /\ calls'[i].t0 <= calls'[i].t1 /\ calls'[i].t1 < nt
               /\ calls'[i].p0 <= calls'[i].p1 /\ calls'[i].p1 < np
    <3>1. CASE i = 1
      <4>1. calls'[i] = left
        BY <1>6, <3>1
      <4>. QED  BY <1>1, <1>2, <1>3, <1>4, <1>5, <4>1
    <3>2. CASE i = 2
      <4>1. calls'[i] = right
        BY <1>6, <3>2
      <4>. QED  BY <1>1, <1>2, <1>3, <1>4, <1>5, <4>1
    <3>3. CASE i \in 3 .. Len(calls) + 1 /\ i - 1 \in 2 .. Len(calls)
      BY <1>6, <1>7, <3>3 DEF Inv, Cut
    <3>. QED  BY <1>9, <3>1, <3>2, <3>3
  <2>2. ASSUME NEW i \in 1 .. Len(calls') - 1
        PROVE  /\ calls'[i + 1].t0 = calls'[i].t1 + 1
               /\ calls'[i + 1].p0 = calls'[i].p1 + 1
    <3>1. CASE i = 1
      BY <1>5, <1>6, <3>1
    <3>2. CASE i = 2
      <4>1. 1 \in 1 .. Len(calls) - 1 /\ calls'[2 + 1] = calls[1 + 1]
        BY <1>6, <1>7, <3>2
      <4>2. calls[1 + 1].t0 = calls[1].t1 + 1 /\ calls[1 + 1].p0 = calls[1].p1 + 1
        BY <4>1 DEF Inv, Cut
      <4>. QED  BY <1>5, <1>6, <1>7, <3>2, <4>1, <4>2
    <3>3. CASE i > 2
      <4>1. /\ i - 1 \in 1 .. Len(calls) - 1 /\ (i - 1) + 1 = i
            /\ i \in 3 .. Len(calls) + 1 /\ i + 1 \in 3 .. Len(calls) + 1
            /\ (i + 1) - 1 = i
        BY <1>6, <1>7, <3>3
      <4>2. calls'[i] = calls[i - 1] /\ calls'[i + 1] = calls[(i - 1) + 1]
        BY <1>6, <4>1
      <4>3. /\ calls[(i - 1) + 1].t0 = calls[i - 1].t1 + 1
            /\ calls[(i - 1) + 1].p0 = calls[i - 1].p1 + 1
        BY <4>1 DEF Inv, Cut
      <4>. QED  BY <4>2, <4>3
    <3>. QED  BY <1>6, <1>7, <3>1, <3>2, <3>3
  <2>3. calls'[Len(calls')].t1 = nt - 1 /\ calls'[Len(calls')].p1 = np - 1
    <3>1. calls[Len(calls)].t1 = nt - 1 /\ calls[Len(calls)].p1 = np - 1
      BY <1>0 DEF Inv, Cut
    <3>2. CASE Len(calls) = 1
      BY <1>5, <1>6, <1>7, <3>1, <3>2
    <3>3. CASE Len(calls) # 1
      <4>0. \A n \in Nat \ {0, 1} : n + 1 \in 3 .. n + 1 /\ (n + 1) - 1 = n
        OBVIOUS
      <4>1. Len(calls') \in 3 .. Len(calls) + 1 /\ Len(calls') - 1 = Len(calls)
        BY <1>6, <1>7, <3>3, <4>0
      <4>. QED  BY <1>6, <3>1, <4>1
    <3>. QED  BY <3>2, <3>3
  <2>. QED  BY <1>2, <2>1, <2>2, <2>3 DEF Cut
<1>11. Fits'
  <2>0. /\ nt <= np => tm - a <= pm - c /\ b - (tm + 1) <= d - (pm + 1)
        /\ np <= nt => pm - c <= tm - a /\ d - (pm + 1) <= b - (tm + 1)
    BY <1>0, <1>1, <1>2, <1>3, <1>4
  <2>1. ASSUME NEW i \in 1 .. Len(calls')
        PROVE  /\ nt <= np => calls'[i].t1 - calls'[i].t0 <= calls'[i].p1 - calls'[i].p0
               /\ np <= nt => calls'[i].p1 - calls'[i].p0 <= calls'[i].t1 - calls'[i].t0
    <3>1. CASE i = 1
      <4>1. calls'[i] = left
        BY <1>6, <3>1
      <4>. QED  BY <1>5, <2>0, <4>1
    <3>2. CASE i = 2
      <4>1. calls'[i] = right
        BY <1>6, <3>2
      <4>. QED  BY <1>5, <2>0, <4>1
    <3>3. CASE i \in 3 .. Len(calls) + 1 /\ i - 1 \in 2 .. Len(calls)
      <4>1. calls'[i] = calls[i - 1] /\ i - 1 \in 1 .. Len(calls)
        BY <1>6, <1>7, <3>3
      <4>. QED  BY <4>1 DEF Inv, Fits
    <3>. QED  BY <1>9, <3>1, <3>2, <3>3
  <2>. QED  BY <1>2, <2>1 DEF Fits
<1>12. Placed'
  <2>1. Spread(a, c, nt, np, procVect)
    BY <1>1 DEF Inv, Placed
  <2>. QED  BY <1>2, <1>8, <2>1 DEF Placed
<1>13. TypeOK'
  BY <1>2, <1>6 DEF Inv, TypeOK, Range4
<1>. QED  BY <1>2, <1>10, <1>11, <1>12, <1>13 DEF Inv

\* A thread alone is assigned its range's first processor.
LEMMA PinAssigns ==
  ASSUME Inv, Pin, nt > 0, np > 0
  PROVE  AssignTop
<1>1. /\ calls # <<>> /\ Top.t0 = Top.t1 /\ calls' = Tail(calls)
      /\ UNCHANGED <<nt, np>> /\ procVect' = [procVect EXCEPT ![Top.t0] = Top.p0]
  BY DEF Pin
<1>2. Top.t0 \in Nat
  BY <1>1, TopFacts DEF Range4
<1>3. Top.t0 .. Top.t1 = {Top.t0}
  BY <1>1, <1>2
<1>4. procVect' = [t \in DOMAIN procVect |->
                     IF t \in Top.t0 .. Top.t1 THEN Top.p0 ELSE procVect[t]]
  BY <1>1, <1>3
<1>. QED  BY <1>1, <1>4 DEF AssignTop

\* No step of the recursion breaks the invariant.
LEMMA InvNext == Inv /\ [Next \/ Halted]_vars => Inv'
<1>. SUFFICES ASSUME Inv, [Next \/ Halted]_vars PROVE Inv'
  OBVIOUS
<1>1. CASE UNCHANGED vars
  BY <1>1 DEF vars, Inv, TypeOK, Cut, Fits, Placed, Spread, Idle, ThreadsDone,
              ProcessorsDone, Top
<1>2. CASE Halted
  BY <1>1, <1>2 DEF Halted
<1>3. CASE nt > 0 /\ np > 0 /\ Empty
  BY <1>3, TopFacts DEF Empty
<1>4. CASE nt > 0 /\ np > 0 /\ Pin
  BY <1>4, PinAssigns, InvAssign
<1>5. CASE nt > 0 /\ np > 0 /\ Fill
  BY <1>5, InvAssign DEF Fill, AssignTop
<1>6. CASE nt > 0 /\ np > 0 /\ Split
  BY <1>6, InvSplit
<1>7. CASE ~(nt > 0 /\ np > 0) /\ Next
  <2>1. Idle /\ TypeOK /\ nt \in Nat /\ np \in Nat
    BY <1>7 DEF Inv, TypeOK
  <2>. DEFINE first == Call(0, nt - 1, 0, np - 1)
  <2>2. calls # <<>> /\ UNCHANGED <<nt, np>>
    BY <1>7 DEF Next, Empty, Pin, Fill, Split, SplitAt, SplitInto
  <2>a. calls = <<first>>
    BY <2>1, <2>2, Zenon DEF Idle
  <2>b. \A x : Head(<<x>>) = x /\ Tail(<<x>>) = <<>>
    OBVIOUS
  <2>3. Top = first /\ Tail(calls) = <<>>
    BY <2>a, <2>b, Zenon DEF Top
  <2>4. ~Nonempty
    BY <1>7, <2>1, <2>3 DEF Nonempty, Call
  <2>5. Empty
    BY <1>7, <2>4 DEF Next, Pin, Fill, Split, SplitAt, SplitInto
  <2>6. calls' = <<>> /\ procVect' = procVect
    BY <2>3, <2>5 DEF Empty
  <2>7. Idle' /\ TypeOK'
    BY <2>1, <2>2, <2>6 DEF Idle, TypeOK
  <2>. QED  BY <1>7, <2>2, <2>7 DEF Inv
<1>. QED  BY <1>1, <1>2, <1>3, <1>4, <1>5, <1>6, <1>7 DEF Next
-----------------------------------------------------------------------------
(* Theorems.                                                                *)

LEMMA InvAlways == Spec => []Inv
  BY InvInit, InvNext, PTL DEF Spec

\* createVector writes only entries of its vector, and only processors there are.
THEOREM VectorTypeCorrect == Spec => []TypeOK
<1>1. Inv => TypeOK
  BY DEF Inv
<1>. QED  BY <1>1, InvAlways, PTL

\* The distribution follows the order of the threads.
THEOREM InOrderCorrect == Spec => []InOrder
<1>1. Inv => InOrder
  <2>. SUFFICES ASSUME Inv, Finished PROVE \A s, t \in 0 .. nt - 1 :
                                             s <= t => procVect[s] <= procVect[t]
    BY DEF InOrder
  <2>1. CASE nt > 0 /\ np > 0
    BY <2>1 DEF Inv, Placed, Spread, ThreadsDone, Finished
  <2>2. CASE ~(nt > 0 /\ np > 0)
    BY <2>2 DEF Inv, Idle
  <2>. QED  BY <2>1, <2>2
<1>. QED  BY <1>1, InvAlways, PTL

\* No two threads share a processor while there are enough processors.
THEOREM NoNeedlessSharingCorrect == Spec => []NoNeedlessSharing
<1>1. Inv => NoNeedlessSharing
  <2>. SUFFICES ASSUME Inv, Finished, nt <= np, NEW s \in 0 .. nt - 1,
                       NEW t \in 0 .. nt - 1, s # t
                PROVE  procVect[s] # procVect[t]
    BY DEF NoNeedlessSharing
  <2>1. nt \in Nat /\ np \in Nat /\ procVect \in [0 .. nt - 1 -> Nat]
    BY DEF Inv, TypeOK
  <2>2. nt > 0 /\ np > 0
    BY <2>1
  <2>3. \A x, y \in 0 .. nt - 1 : x < y => procVect[x] < procVect[y]
    BY <2>2 DEF Inv, Placed, Spread, ThreadsDone, Finished
  <2>4. s < t \/ t < s
    BY <2>1
  <2>. QED  BY <2>1, <2>3, <2>4
<1>. QED  BY <1>1, InvAlways, PTL

\* No processor is idle while there are enough threads.
THEOREM NoIdleProcessorCorrect == Spec => []NoIdleProcessor
<1>1. Inv => NoIdleProcessor
  <2>. SUFFICES ASSUME Inv, Finished, np <= nt, NEW p \in 0 .. np - 1
                PROVE  \E t \in 0 .. nt - 1 : procVect[t] = p
    BY DEF NoIdleProcessor
  <2>1. nt \in Nat /\ np \in Nat
    BY DEF Inv, TypeOK
  <2>2. nt > 0 /\ np > 0
    BY <2>1
  <2>. QED  BY <2>2 DEF Inv, Placed, Spread, ThreadsDone, ProcessorsDone, Finished
<1>. QED  BY <1>1, InvAlways, PTL
-----------------------------------------------------------------------------
(* Slot.  TLA+ takes for a recursive function some function that satisfies  *)
(* its equation; that there is one is shown here.                          *)

Triples == Nat \X Nat \X Nat
\* The equation of Slot at one triple, for a function g in its place.
Half(n) == (n + 1) \div 2
Value(g, n, m, t) ==
  IF n <= 1 \/ m <= 1 THEN 0
  ELSE IF t < Half(n) THEN g[<<Half(n), Half(m), t>>]
       ELSE Half(m) + g[<<n - Half(n), m - Half(m), t - Half(n)>>]
\* g solves the equation for fewer than k threads.
Solves(g, k) ==
  \A n, m, t \in Nat : n < k => g[<<n, m, t>>] = Value(g, n, m, t)

LEMMA HalfIs ==
  \A n \in Nat : /\ Half(n) \in Nat /\ Half(n) <= n /\ n - Half(n) \in Nat
                 /\ n > 1 => Half(n) < n /\ n - Half(n) < n
  BY DEF Half

LEMMA TripleIs ==
  /\ \A n, m, t \in Nat : <<n, m, t>> \in Triples
  /\ \A x \in Triples : /\ x[1] \in Nat /\ x[2] \in Nat /\ x[3] \in Nat
                        /\ x = <<x[1], x[2], x[3]>>
  BY DEF Triples

\* Two solutions have the same values.
LEMMA SolutionsAgree ==
  ASSUME NEW g, NEW h, NEW j \in Nat, NEW k \in Nat, Solves(g, j), Solves(h, k),
         NEW n \in Nat, n < j, n < k, NEW m \in Nat, NEW t \in Nat
  PROVE  g[<<n, m, t>>] = h[<<n, m, t>>]
<1> DEFINE Same(i) == \A p, u \in Nat : g[<<i, p, u>>] = h[<<i, p, u>>]
           T == {i \in Nat : i < j /\ i < k /\ ~Same(i)}
<1>1. ASSUME T # {} PROVE FALSE
  <2>1. PICK i \in T : \A y \in T : i <= y
    <3>1. T \subseteq Nat
      OBVIOUS
    <3> HIDE DEF T
    <3> QED BY <1>1, <3>1, LeastNumber
  <2>2. i \in Nat /\ i < j /\ i < k /\ \A y \in Nat : y < i => Same(y)
    BY <2>1
  <2>3. ASSUME NEW p \in Nat, NEW u \in Nat PROVE g[<<i, p, u>>] = h[<<i, p, u>>]
    <3>1. g[<<i, p, u>>] = Value(g, i, p, u) /\ h[<<i, p, u>>] = Value(h, i, p, u)
      BY <2>2 DEF Solves
    <3>2. Value(g, i, p, u) = Value(h, i, p, u)
      <4>1. CASE i <= 1 \/ p <= 1
        BY <4>1 DEF Value
      <4>2. CASE i > 1 /\ u < Half(i)
        <5>1. Same(Half(i)) /\ Half(p) \in Nat
          BY <2>2, <4>2, HalfIs
        <5> QED BY <4>2, <5>1 DEF Value
      <4>3. CASE i > 1 /\ ~(u < Half(i))
        <5>0. i \in Nat /\ i > 1 /\ ~(u < Half(i))
          BY <2>2, <4>3
        <5>1. Half(i) \in Nat /\ i - Half(i) \in Nat /\ i - Half(i) < i /\ p - Half(p) \in Nat
          BY <5>0, HalfIs
        <5>2. p - Half(p) \in Nat /\ u - Half(i) \in Nat
          BY <5>0, <5>1
        <5>3. Same(i - Half(i))
          <6> HIDE DEF Same
          <6> QED BY <2>2, <5>1
        <5> QED BY <4>3, <5>2, <5>3 DEF Value
      <4> QED BY <2>2, <4>1, <4>2, <4>3
    <3> QED BY <3>1, <3>2
  <2> QED BY <2>1, <2>3
<1>2. Same(n)
  BY <1>1
<1> QED BY <1>2

\* There is a solution for every number of threads.
LEMMA SolutionExists ==
  ASSUME NEW k \in Nat
  PROVE  \E g : Solves(g, k)
<1> DEFINE T == {i \in Nat : ~ \E g : Solves(g, i)}
<1>1. ASSUME T # {} PROVE FALSE
  <2>1. PICK i \in T : \A y \in T : i <= y
    <3>1. T \subseteq Nat
      OBVIOUS
    <3> HIDE DEF T
    <3> QED BY <1>1, <3>1, LeastNumber
  <2>2. i \in Nat /\ i # 0
    <3>1. Solves(<<>>, 0)
      BY DEF Solves
    <3> QED BY <2>1, <3>1
  <2>3. PICK j \in Nat : i = j + 1
    <3>1. i - 1 \in Nat /\ i = (i - 1) + 1
      BY <2>2
    <3> QED BY <3>1
  <2>4. PICK g : Solves(g, j)
    BY <2>1, <2>3
  <2> DEFINE h == [x \in Triples |-> IF x[1] = j THEN Value(g, x[1], x[2], x[3]) ELSE g[x]]
  <2>5. \A n, m, t \in Nat : h[<<n, m, t>>] = IF n = j THEN Value(g, n, m, t) ELSE g[<<n, m, t>>]
    <3>1. ASSUME NEW n \in Nat, NEW m \in Nat, NEW t \in Nat
          PROVE  h[<<n, m, t>>] = IF n = j THEN Value(g, n, m, t) ELSE g[<<n, m, t>>]
      BY TripleIs
    <3> QED BY <3>1
  <2> HIDE DEF h
  <2>6. ASSUME NEW n \in Nat, NEW m \in Nat, NEW t \in Nat, n < i
        PROVE  h[<<n, m, t>>] = Value(h, n, m, t)
    <3>1. Value(h, n, m, t) = Value(g, n, m, t)
      <4>1. CASE n <= 1 \/ m <= 1
        BY <4>1 DEF Value
      <4>2. CASE n > 1 /\ t < Half(n)
        <5>1. Half(n) \in Nat /\ Half(n) < j /\ Half(m) \in Nat
          BY <2>3, <2>6, <4>2, HalfIs
        <5>2. h[<<Half(n), Half(m), t>>] = g[<<Half(n), Half(m), t>>]
          BY <2>5, <5>1
        <5> QED BY <4>2, <5>2 DEF Value
      <4>3. CASE n > 1 /\ ~(t < Half(n))
        <5>1. /\ n - Half(n) \in Nat /\ n - Half(n) < j /\ m - Half(m) \in Nat
              /\ t - Half(n) \in Nat
          BY <2>3, <2>6, <4>3, HalfIs
        <5>2. h[<<n - Half(n), m - Half(m), t - Half(n)>>]
                = g[<<n - Half(n), m - Half(m), t - Half(n)>>]
          BY <2>5, <5>1
        <5> QED BY <4>3, <5>2 DEF Value
      <4> QED BY <4>1, <4>2, <4>3
    <3>2. h[<<n, m, t>>] = IF n = j THEN Value(g, n, m, t) ELSE g[<<n, m, t>>]
      BY <2>5
    <3>3. n < j => g[<<n, m, t>>] = Value(g, n, m, t)
      BY <2>4 DEF Solves
    <3>4. n = j \/ n < j
      BY <2>3, <2>6
    <3> QED BY <3>1, <3>2, <3>3, <3>4
  <2>7. Solves(h, i)
    BY <2>6 DEF Solves
  <2> QED BY <2>1, <2>7
<1> QED BY <1>1

\* So there is a function that solves the equation for all numbers of threads ...
LEMMA SlotExists ==
  \E f : f = [x \in Triples |-> Value(f, x[1], x[2], x[3])]
<1> DEFINE g(k) == CHOOSE g : Solves(g, k)
           f == [x \in Triples |-> g(x[1] + 1)[x]]
<1>1. \A k \in Nat : Solves(g(k), k)
  BY SolutionExists
<1> HIDE DEF g
<1>2. \A n, m, t \in Nat : f[<<n, m, t>>] = g(n + 1)[<<n, m, t>>]
  <2>1. ASSUME NEW n \in Nat, NEW m \in Nat, NEW t \in Nat
        PROVE  f[<<n, m, t>>] = g(n + 1)[<<n, m, t>>]
    BY TripleIs
  <2> QED BY <2>1
<1>3. f = [x \in Triples |-> f[x]]
  OBVIOUS
<1> HIDE DEF f
<1>4. ASSUME NEW n \in Nat, NEW m \in Nat, NEW t \in Nat
      PROVE  f[<<n, m, t>>] = Value(f, n, m, t)
  <2>1. f[<<n, m, t>>] = Value(g(n + 1), n, m, t)
    BY <1>1, <1>2 DEF Solves
  <2>2. ASSUME NEW i \in Nat, i < n, NEW p \in Nat, NEW u \in Nat
        PROVE  f[<<i, p, u>>] = g(n + 1)[<<i, p, u>>]
    <3>1. g(i + 1)[<<i, p, u>>] = g(n + 1)[<<i, p, u>>]
      <4>1. Solves(g(i + 1), i + 1) /\ Solves(g(n + 1), n + 1)
        BY <1>1
      <4>2. i + 1 \in Nat /\ n + 1 \in Nat /\ i < i + 1 /\ i < n + 1
        BY <2>2
      <4> QED BY <4>1, <4>2, SolutionsAgree
    <3> QED BY <1>2, <3>1
  <2>3. Value(g(n + 1), n, m, t) = Value(f, n, m, t)
    <3>1. CASE n <= 1 \/ m <= 1
      BY <3>1 DEF Value
    <3>2. CASE n > 1 /\ t < Half(n)
      <4>1. Half(n) \in Nat /\ Half(n) < n /\ Half(m) \in Nat
        BY <3>2, HalfIs
      <4>2. f[<<Half(n), Half(m), t>>] = g(n + 1)[<<Half(n), Half(m), t>>]
        BY <2>2, <4>1
      <4> QED BY <3>2, <4>2 DEF Value
    <3>3. CASE n > 1 /\ ~(t < Half(n))
      <4>1. /\ n - Half(n) \in Nat /\ n - Half(n) < n /\ m - Half(m) \in Nat
            /\ t - Half(n) \in Nat
        BY <3>3, HalfIs
      <4>2. f[<<n - Half(n), m - Half(m), t - Half(n)>>]
              = g(n + 1)[<<n - Half(n), m - Half(m), t - Half(n)>>]
        BY <2>2, <4>1
      <4> QED BY <3>3, <4>2 DEF Value
    <3> QED BY <3>1, <3>2, <3>3
  <2> QED BY <2>1, <2>3
<1>5. \A x \in Triples : f[x] = Value(f, x[1], x[2], x[3])
  BY <1>4, TripleIs
<1>6. f = [x \in Triples |-> Value(f, x[1], x[2], x[3])]
  BY <1>3, <1>5
<1> QED BY <1>6

\* ... and Slot is one.
LEMMA SlotIs ==
  ASSUME NEW n \in Nat, NEW m \in Nat, NEW t \in Nat
  PROVE  Slot[<<n, m, t>>] = Value(Slot, n, m, t)
<1>1. Slot = CHOOSE f : f = [x \in Triples |-> Value(f, x[1], x[2], x[3])]
  BY Zenon DEF Slot, Value, Half, Triples
<1>2. Slot = [x \in Triples |-> Value(Slot, x[1], x[2], x[3])]
  BY <1>1, SlotExists, Zenon
<1>3. <<n, m, t>> \in Triples /\ <<n, m, t>>[1] = n /\ <<n, m, t>>[2] = m /\ <<n, m, t>>[3] = t
  BY TripleIs
<1> QED BY <1>2, <1>3, Zenon

\* One thread, or one processor: processor 0.
LEMMA SlotOfFew ==
  ASSUME NEW n \in Nat, NEW m \in Nat, NEW t \in Nat, n <= 1 \/ m <= 1
  PROVE  Slot[<<n, m, t>>] = 0
BY SlotIs DEF Value

\* The left half of the threads goes to the left half of the processors, the others to
\* the others.
LEMMA SlotOfHalves ==
  ASSUME NEW n \in Nat, NEW m \in Nat, NEW t \in Nat, n > 1, m > 1
  PROVE  Slot[<<n, m, t>>] =
           IF t < Half(n) THEN Slot[<<Half(n), Half(m), t>>]
           ELSE Half(m) + Slot[<<n - Half(n), m - Half(m), t - Half(n)>>]
BY SlotIs DEF Value

\* No processor is beyond the last one.
InRange(n) ==
  \A m, t \in Nat : Slot[<<n, m, t>>] \in Nat /\ (m > 0 => Slot[<<n, m, t>>] < m)
LEMMA SlotType ==
  ASSUME NEW n \in Nat, NEW m \in Nat, NEW t \in Nat
  PROVE  Slot[<<n, m, t>>] \in Nat /\ (m > 0 => Slot[<<n, m, t>>] < m)
<1>. DEFINE T == {i \in Nat : ~InRange(i)}
<1>1. ASSUME T # {} PROVE FALSE
  <2>1. PICK i \in T : \A y \in T : i <= y
    <3>1. T \subseteq Nat
      OBVIOUS
    <3>. HIDE DEF T
    <3>. QED  BY <1>1, <3>1, LeastNumber
  <2>2. i \in Nat /\ \A y \in Nat : y < i => InRange(y)
    BY <2>1
  <2>3. ASSUME NEW p \in Nat, NEW u \in Nat
        PROVE  Slot[<<i, p, u>>] \in Nat /\ (p > 0 => Slot[<<i, p, u>>] < p)
    <3>1. CASE i <= 1 \/ p <= 1
      BY <2>2, <3>1, SlotOfFew
    <3>2. CASE i > 1 /\ p > 1
      <4>1. /\ Half(i) \in Nat /\ Half(i) < i /\ i - Half(i) \in Nat /\ i - Half(i) < i
            /\ Half(p) \in Nat /\ Half(p) < p /\ p - Half(p) \in Nat
        BY <2>2, <3>2, HalfIs
      <4>2. Half(i) > 0 /\ Half(p) > 0
        BY <2>2, <3>2 DEF Half
      <4>3. CASE u < Half(i)
        <5>1. Slot[<<Half(i), Half(p), u>>] \in Nat /\ Slot[<<Half(i), Half(p), u>>] < Half(p)
          BY <2>2, <4>1, <4>2 DEF InRange
        <5>2. Slot[<<i, p, u>>] = Slot[<<Half(i), Half(p), u>>]
          BY <2>2, <3>2, <4>3, SlotOfHalves
        <5>. QED  BY <4>1, <5>1, <5>2
      <4>4. CASE ~(u < Half(i))
        <5>1. u - Half(i) \in Nat
          BY <4>1, <4>4
        <5>. DEFINE x == Slot[<<i - Half(i), p - Half(p), u - Half(i)>>]
        <5>2. x \in Nat /\ x < p - Half(p)
          <6>1. InRange(i - Half(i)) /\ p - Half(p) > 0
            BY <2>2, <4>1
          <6>. QED  BY <4>1, <5>1, <6>1 DEF InRange
        <5>3. Slot[<<i, p, u>>] = Half(p) + x
          BY <2>2, <3>2, <4>4, SlotOfHalves
        <5>. HIDE DEF x
        <5>. QED  BY <4>1, <5>2, <5>3
      <4>. QED  BY <4>3, <4>4
    <3>. QED  BY <2>2, <3>1, <3>2
  <2>4. InRange(i)
    BY <2>3 DEF InRange
  <2>. QED  BY <2>1, <2>4
<1>2. InRange(n)
  BY <1>1
<1>. QED  BY <1>2 DEF InRange

-----------------------------------------------------------------------------
(* createVector computes Slot.                                              *)

\* The threads that are done have their processors, and a pending activation has to
\* compute, for its range of threads, what Slot says of it, from its first processor on.
DueOf(n, m, a, b, c, d) ==
  \A t \in a .. b : Slot[<<n, m, t>>] = c + Slot[<<b - a + 1, d - c + 1, t - a>>]
Due(n, m, call) == DueOf(n, m, call.t0, call.t1, call.p0, call.p1)
Agreed ==
  nt > 0 /\ np > 0 =>
    /\ \A t \in 0 .. ThreadsDone - 1 : procVect[t] = Slot[<<nt, np, t>>]
    /\ \A i \in 1 .. Len(calls) : Due(nt, np, calls[i])

LEMMA AgreedInit == Init => Agreed
<1>. SUFFICES ASSUME Init, nt > 0, np > 0
              PROVE  /\ \A t \in 0 .. ThreadsDone - 1 : procVect[t] = Slot[<<nt, np, t>>]
                     /\ \A i \in 1 .. Len(calls) : Due(nt, np, calls[i])
  BY DEF Agreed
<1>. DEFINE first == Call(0, nt - 1, 0, np - 1)
<1>1. nt \in Nat /\ np \in Nat
  BY SizesAssumption DEF Init
<1>2. first \in Range4 /\ first.t0 = 0 /\ first.t1 = nt - 1 /\ first.p0 = 0
      /\ first.p1 = np - 1
  BY <1>1 DEF Call, Range4
<1>3. calls = <<first>>
  BY DEF Init
<1>. HIDE DEF first
<1>4. Len(calls) = 1 /\ calls[1] = first /\ Head(calls) = first /\ calls # <<>>
  BY <1>2, <1>3
<1>5. ThreadsDone = 0
  BY <1>2, <1>4 DEF ThreadsDone, Top
<1>6. Due(nt, np, first)
  <2>1. ASSUME NEW t \in 0 .. nt - 1
        PROVE  Slot[<<nt, np, t>>] = 0 + Slot[<<nt - 1 - 0 + 1, np - 1 - 0 + 1, t - 0>>]
    <3>1. nt - 1 - 0 + 1 = nt /\ np - 1 - 0 + 1 = np /\ t - 0 = t
      BY <1>1
    <3>2. Slot[<<nt, np, t>>] \in Nat
      BY <1>1, SlotType
    <3>. QED  BY <3>1, <3>2
  <2>. QED  BY <1>2, <2>1 DEF Due, DueOf
<1>. QED  BY <1>4, <1>5, <1>6

LEMMA AgreedAssign ==
  ASSUME Inv, Agreed, AssignTop, nt > 0, np > 0
  PROVE  Agreed'
<1>. DEFINE a == Top.t0  b == Top.t1  c == Top.p0  d == Top.p1
<1>1. /\ a \in Nat /\ b \in Nat /\ c \in Nat /\ d \in Nat /\ a <= b /\ b < nt /\ c <= d
      /\ ThreadsDone = a /\ (a = b \/ c = d) /\ nt \in Nat /\ np \in Nat
      /\ procVect \in [0 .. nt - 1 -> Nat] /\ nt' = nt /\ np' = np
      /\ procVect' = [t \in DOMAIN procVect |-> IF t \in a .. b THEN c ELSE procVect[t]]
  BY TopFacts DEF AssignTop, Range4, Nonempty, Inv, TypeOK
<1>2. /\ Len(calls') = Len(calls) - 1
      /\ \A i \in 1 .. Len(calls) - 1 : calls'[i] = calls[i + 1]
      /\ Len(calls) \in Nat \ {0} /\ Top = calls[1] /\ ThreadsDone' = b + 1
  BY AssignFacts
<1>3. /\ \A t \in 0 .. a - 1 : procVect[t] = Slot[<<nt, np, t>>]
      /\ \A i \in 1 .. Len(calls) : Due(nt, np, calls[i])
  BY <1>1 DEF Agreed
<1>. HIDE DEF a, b, c, d
<1>4. ASSUME NEW t \in a .. b PROVE Slot[<<nt, np, t>>] = c
  <2>1. Due(nt, np, Top)
    BY <1>2, <1>3
  <2>2. Slot[<<nt, np, t>>] = c + Slot[<<b - a + 1, d - c + 1, t - a>>]
    BY <2>1 DEF Due, DueOf, a, b, c, d
  <2>3. /\ b - a + 1 \in Nat /\ d - c + 1 \in Nat /\ t - a \in Nat
        /\ b - a + 1 <= 1 \/ d - c + 1 <= 1
    BY <1>1
  <2>4. Slot[<<b - a + 1, d - c + 1, t - a>>] = 0
    BY <2>3, SlotOfFew
  <2>. QED  BY <1>1, <2>2, <2>4
<1>5. ASSUME NEW t \in 0 .. b PROVE procVect'[t] = Slot[<<nt, np, t>>]
  <2>1. procVect'[t] = IF t \in a .. b THEN c ELSE procVect[t]
    BY <1>1
  <2>2. t \notin a .. b => t \in 0 .. a - 1
    BY <1>1
  <2>. QED  BY <1>3, <1>4, <2>1, <2>2
<1>6. ASSUME NEW i \in 1 .. Len(calls') PROVE Due(nt, np, calls'[i])
  <2>1. calls'[i] = calls[i + 1] /\ i + 1 \in 1 .. Len(calls)
    BY <1>2
  <2>. QED  BY <1>3, <2>1
<1>7. (b + 1) - 1 = b
  BY <1>1
<1>. QED  BY <1>1, <1>2, <1>5, <1>6, <1>7 DEF Agreed

\* What is due of an activation is due of its two halves.
LEMMA DueHalves ==
  ASSUME NEW n, NEW m, NEW a \in Nat, NEW b \in Nat, NEW c \in Nat, NEW d \in Nat,
         NEW tm \in Nat, NEW pm \in Nat, a <= tm, tm < b, c <= pm, pm < d,
         2 * (tm - a) = b - a \/ 2 * (tm - a) = b - a - 1,
         2 * (pm - c) = d - c \/ 2 * (pm - c) = d - c - 1,
         DueOf(n, m, a, b, c, d)
  PROVE  DueOf(n, m, a, tm, c, pm) /\ DueOf(n, m, tm + 1, b, pm + 1, d)
<1>. DEFINE k == b - a + 1  l == d - c + 1
<1>1. k \in Nat /\ l \in Nat /\ k > 1 /\ l > 1
  OBVIOUS
<1>2. Half(k) = tm - a + 1 /\ Half(l) = pm - c + 1
  BY DEF Half
<1>3. k - Half(k) = b - (tm + 1) + 1 /\ l - Half(l) = d - (pm + 1) + 1
  BY <1>2
<1>. HIDE DEF k, l
<1>4. ASSUME NEW t \in a .. tm
      PROVE  Slot[<<n, m, t>>] = c + Slot[<<tm - a + 1, pm - c + 1, t - a>>]
  <2>1. t - a \in Nat /\ t - a < Half(k) /\ t \in a .. b
    BY <1>2
  <2>2. Slot[<<k, l, t - a>>] = Slot[<<Half(k), Half(l), t - a>>]
    BY <1>1, <2>1, SlotOfHalves
  <2>. QED  BY <1>2, <2>1, <2>2 DEF k, l, DueOf
<1>5. ASSUME NEW t \in tm + 1 .. b
      PROVE  Slot[<<n, m, t>>] =
               pm + 1 + Slot[<<b - (tm + 1) + 1, d - (pm + 1) + 1, t - (tm + 1)>>]
  <2>1. /\ t - a \in Nat /\ ~(t - a < Half(k)) /\ t \in a .. b
        /\ (t - a) - Half(k) = t - (tm + 1)
    BY <1>2
  <2>. DEFINE x == Slot[<<b - (tm + 1) + 1, d - (pm + 1) + 1, t - (tm + 1)>>]
  <2>2. Slot[<<k, l, t - a>>] = Half(l) + x
    <3>1. Slot[<<k, l, t - a>>] =
            Half(l) + Slot[<<k - Half(k), l - Half(l), (t - a) - Half(k)>>]
      BY <1>1, <2>1, SlotOfHalves
    <3>. QED  BY <1>3, <2>1, <3>1
  <2>3. x \in Nat
    <3>1. b - (tm + 1) + 1 \in Nat /\ d - (pm + 1) + 1 \in Nat /\ t - (tm + 1) \in Nat
      OBVIOUS
    <3>. QED  BY <3>1, SlotType
  <2>4. Slot[<<n, m, t>>] = c + Slot[<<k, l, t - a>>]
    BY <2>1 DEF k, l, DueOf
  <2>. HIDE DEF x
  <2>5. Slot[<<n, m, t>>] = pm + 1 + x
    BY <1>2, <2>2, <2>3, <2>4
  <2>. QED  BY <2>5 DEF x
<1>. QED  BY <1>4, <1>5 DEF DueOf

LEMMA AgreedSplit ==
  ASSUME Inv, Agreed, Split, nt > 0, np > 0
  PROVE  Agreed'
<1>. DEFINE a == Top.t0  b == Top.t1  c == Top.p0  d == Top.p1
            tm == Middle(a, b)  pm == Middle(c, d)
            left == Call(a, tm, c, pm)  right == Call(tm + 1, b, pm + 1, d)
<1>0. calls # <<>>
  BY DEF Split, SplitAt, SplitInto
<1>1. /\ a \in Nat /\ b \in Nat /\ c \in Nat /\ d \in Nat /\ nt \in Nat /\ np \in Nat
      /\ ThreadsDone = a
  BY <1>0, TopFacts DEF Range4, Inv, TypeOK
<1>2. /\ tm \in Nat /\ a <= tm /\ tm < b
      /\ 2 * (tm - a) = b - a \/ 2 * (tm - a) = b - a - 1
      /\ pm \in Nat /\ c <= pm /\ pm < d
      /\ 2 * (pm - c) = d - c \/ 2 * (pm - c) = d - c - 1
  BY SplitFacts
<1>3. /\ left.t0 = a /\ left.t1 = tm /\ left.p0 = c /\ left.p1 = pm
      /\ right.t0 = tm + 1 /\ right.t1 = b /\ right.p0 = pm + 1 /\ right.p1 = d
  BY SplitFacts
<1>4. /\ Len(calls') = Len(calls) + 1 /\ calls'[1] = left /\ calls'[2] = right
      /\ \A i \in 3 .. Len(calls) + 1 : calls'[i] = calls[i - 1]
      /\ Len(calls) \in Nat \ {0} /\ Top = calls[1]
      /\ ThreadsDone' = a /\ UNCHANGED <<nt, np, procVect>>
  BY SplitFacts
<1>5. /\ \A t \in 0 .. a - 1 : procVect[t] = Slot[<<nt, np, t>>]
      /\ \A i \in 1 .. Len(calls) : Due(nt, np, calls[i])
  BY <1>1 DEF Agreed
<1>6. DueOf(nt, np, a, b, c, d)
  BY <1>4, <1>5 DEF Due
<1>. HIDE DEF a, b, c, d, tm, pm, left, right
<1>7. Due(nt, np, left) /\ Due(nt, np, right)
  <2>1. DueOf(nt, np, a, tm, c, pm) /\ DueOf(nt, np, tm + 1, b, pm + 1, d)
    BY <1>1, <1>2, <1>6, DueHalves
  <2>. QED  BY <1>3, <2>1 DEF Due
<1>8. ASSUME NEW i \in 1 .. Len(calls') PROVE Due(nt, np, calls'[i])
  <2>1. \/ i = 1
        \/ i = 2
        \/ i \in 3 .. Len(calls) + 1 /\ i - 1 \in 1 .. Len(calls)
    BY <1>4
  <2>. QED  BY <1>4, <1>5, <1>7, <2>1
<1>. QED  BY <1>4, <1>5, <1>8 DEF Agreed

LEMMA AgreedNext == Inv /\ Agreed /\ [Next \/ Halted]_vars => Agreed'
<1>. SUFFICES ASSUME Inv, Agreed, [Next \/ Halted]_vars PROVE Agreed'
  OBVIOUS
<1>1. CASE UNCHANGED vars
  BY <1>1 DEF vars, Agreed, ThreadsDone, Top
<1>2. CASE Halted
  BY <1>1, <1>2 DEF Halted
<1>3. CASE nt > 0 /\ np > 0 /\ Empty
  BY <1>3, TopFacts DEF Empty
<1>4. CASE nt > 0 /\ np > 0 /\ Pin
  BY <1>4, PinAssigns, AgreedAssign
<1>5. CASE nt > 0 /\ np > 0 /\ Fill
  BY <1>5, AgreedAssign DEF Fill, AssignTop
<1>6. CASE nt > 0 /\ np > 0 /\ Split
  BY <1>6, AgreedSplit
<1>7. CASE ~(nt > 0 /\ np > 0) /\ Next
  BY <1>7 DEF Next, Empty, Pin, Fill, Split, SplitAt, SplitInto, Agreed
<1>. QED  BY <1>1, <1>2, <1>3, <1>4, <1>5, <1>6, <1>7 DEF Next

\* For any numbers of threads and processors the recursion leaves the vector that its
\* callers count on: Slot's, and zeros if there is no processor.
THEOREM ComputesDistributionCorrect == Spec => []ComputesDistribution
<1>1. Inv /\ Agreed => ComputesDistribution
  <2>. SUFFICES ASSUME Inv, Agreed, Finished PROVE procVect = Distribution(nt, np)
    BY DEF ComputesDistribution
  <2>1. nt \in Nat /\ np \in Nat /\ procVect \in [0 .. nt - 1 -> Nat]
    BY DEF Inv, TypeOK
  <2>2. ASSUME NEW t \in 0 .. nt - 1 PROVE procVect[t] = Slot[<<nt, np, t>>]
    <3>1. CASE nt > 0 /\ np > 0
      BY <3>1 DEF Agreed, ThreadsDone, Finished
    <3>2. CASE ~(nt > 0 /\ np > 0)
      <4>1. procVect[t] = 0
        BY <3>2 DEF Inv, Idle
      <4>2. t \in Nat /\ (nt <= 1 \/ np <= 1)
        BY <2>1, <3>2
      <4>. QED  BY <2>1, <4>1, <4>2, SlotOfFew
    <3>. QED  BY <3>1, <3>2
  <2>. QED  BY <2>1, <2>2 DEF Distribution
<1>2. Init => Agreed
  BY AgreedInit
<1>3. Inv /\ Agreed /\ [Next \/ Halted]_vars => Agreed'
  BY AgreedNext
<1>. QED  BY <1>1, <1>2, <1>3, InvAlways, PTL DEF Spec
=============================================================================
