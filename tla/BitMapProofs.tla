----------------------------- MODULE BitMapProofs -----------------------------
(***************************************************************************)
(* For any word width, sizes and number of threads: a bitmap's words are   *)
(* never indexed out of range; no bit beyond its size is ever set, if      *)
(* programs pass only positions for which 1 << pos is a single bit; and it *)
(* behaves as a set of positions, if they merge only sizes for which the   *)
(* last word is the first one, or whole.                                   *)
(***************************************************************************)
EXTENDS BitMap, FiniteSetTheorems, FunctionTheorems, TLAPS

\* The positions that IntBit() maps to themselves.
Fit == \A pos \in Positions : pos % WordBits < IntBits - 1

Places ==
  {Idle} \cup {p \in [op : {"all", "set", "clear"}, map : Maps, from : Maps, i : Nat] :
                 p.op = "all" => p.from = p.map}
Reach(p) == CommonSize(p.map, p.from)

\* What TypeOK leaves unsaid: functions, and that a thread which goes through the words
\* of two bitmaps stays among those that both have.
Typed ==
  /\ size \in [Maps -> Nat]
  /\ DOMAIN words = Maps
  /\ lock \in [Maps -> Threads \cup {NoThread}]
  /\ at \in [Threads -> Places]
WordsTyped == \A m \in Maps : words[m] \in [Indices(size[m]) -> SUBSET Word]
InRange == \A t \in Threads : at[t] # Idle => at[t].i \in Indices(Reach(at[t]))
Held ==
  /\ \A t \in Threads : at[t] # Idle => (Merging(t) <=> lock[at[t].map] = t)
  /\ \A m \in Maps : lock[m] # NoThread => at[lock[m]] # Idle /\ at[lock[m]].map = m
IInv == size \in Sizes /\ Typed /\ WordsTyped /\ InRange /\ Held

------------------------------------------------------------------------------
(* Words and positions *)

LEMMA WidthType == WordBits \in Nat /\ WordBits > 0
BY WidthsAssumption

\* A position is the beginning of its word and the place in it.
LEMMA Euclid ==
  ASSUME NEW a \in Nat
  PROVE  \E q \in Nat, r \in 0 .. WordBits - 1, k \in Nat :
           a \div WordBits = q /\ a % WordBits = r /\ q * WordBits = k /\ a = k + r
<1>1. PICK w : w = WordBits /\ w \in Nat /\ w > 0
  BY WidthType
<1>2. a \div w \in Nat /\ a % w \in 0 .. w - 1
  BY <1>1
<1>3. PICK q \in Nat, r \in 0 .. w - 1 : q = a \div w /\ r = a % w
  BY <1>2
<1>4. a = q * w + r
  BY <1>1, <1>3
<1>5. PICK k \in Nat : k = q * w
  BY <1>1
<1> QED BY <1>1, <1>3, <1>4, <1>5

LEMMA TimesMono ==
  ASSUME NEW a \in Nat, NEW b \in Nat, NEW w \in Nat, a <= b
  PROVE  a * w \in Nat /\ b * w \in Nat /\ a * w <= b * w
OBVIOUS

\* A larger bitmap has at least as many words.
LEMMA DivMono ==
  ASSUME NEW a \in Nat, NEW b \in Nat, a <= b
  PROVE  a \div WordBits <= b \div WordBits
<1>1. PICK p \in Nat, r \in 0 .. WordBits - 1, k \in Nat :
        a \div WordBits = p /\ p * WordBits = k /\ a = k + r
  BY Euclid
<1>2. PICK q \in Nat, s \in 0 .. WordBits - 1, l \in Nat :
        b \div WordBits = q /\ b % WordBits = s /\ q * WordBits = l /\ b = l + s
  BY Euclid, Zenon
<1>3. CASE q < p
  <2>1. (q + 1) * WordBits <= k
    BY <1>1, <1>3, WidthType, TimesMono
  <2>2. (q + 1) * WordBits = l + WordBits
    BY <1>2, WidthType
  <2> QED BY <1>1, <1>2, <2>1, <2>2, WidthType
<1> QED BY <1>1, <1>2, <1>3

LEMMA IndicesAre ==
  ASSUME NEW n \in Nat, NEW q, n \div WordBits = q
  PROVE  q \in Nat /\ Indices(n) = 0 .. q /\ NWords(n) = q + 1
<1>1. q \in Nat
  BY Euclid
<1>2. NWords(n) = q + 1
  BY DEF NWords
<1> QED BY <1>1, <1>2 DEF Indices

\* Every valid position has a word, and its place in it.
LEMMA PositionIsInWord ==
  ASSUME NEW n \in Nat, NEW pos \in Nat, pos <= n
  PROVE  /\ WordIdx(pos) \in Indices(n)
         /\ PosInWord(pos) \in Word
         /\ WordIdx(pos) * WordBits + PosInWord(pos) = pos
<1>1. pos \div WordBits <= n \div WordBits
  BY DivMono
<1>2. PICK q \in Nat, r \in 0 .. WordBits - 1, k \in Nat :
        pos \div WordBits = q /\ pos % WordBits = r /\ q * WordBits = k /\ pos = k + r
  BY Euclid
<1>3. WordIdx(pos) = q /\ PosInWord(pos) = r
  BY <1>2 DEF WordIdx, PosInWord
<1>4. q \in Indices(n)
  <2>1. PICK l : n \div WordBits = l
    OBVIOUS
  <2>2. l \in Nat /\ Indices(n) = 0 .. l
    BY <2>1, IndicesAre
  <2>3. q <= l
    BY <1>1, <1>2, <2>1
  <2> QED BY <1>2, <2>2, <2>3
<1> QED BY <1>2, <1>3, <1>4 DEF Word

\* A single bit, as the int 1 << pos has it, is made of bits of a word.
LEMMA IntBitType ==
  ASSUME NEW p \in Word
  PROVE  IntBit(p) \subseteq Word /\ (p < IntBits - 1 => IntBit(p) = {p})
<1>1. /\ WordBits \in Nat /\ IntBits \in Nat /\ IntBits > 0 /\ IntBits <= WordBits
      /\ p \in Nat /\ p < WordBits
  BY WidthsAssumption DEF Word
<1>2. p % IntBits \in 0 .. IntBits - 1 /\ (p < IntBits => p % IntBits = p)
  BY <1>1
<1> DEFINE r == p % IntBits
<1> HIDE DEF r
<1>3. r \in 0 .. IntBits - 1 /\ (p < IntBits => r = p)
  BY <1>2 DEF r
<1>4. IntBit(p) = IF r = IntBits - 1 THEN r .. WordBits - 1 ELSE {r}
  BY DEF IntBit, r
<1> QED BY <1>1, <1>3, <1>4 DEF Word

LEMMA CommonSizeIs ==
  ASSUME Typed, NEW m \in Maps, NEW o \in Maps
  PROVE  /\ CommonSize(m, o) \in Nat
         /\ CommonSize(m, o) <= size[m] /\ CommonSize(m, o) <= size[o]
BY DEF CommonSize, Typed

\* The words that both bitmaps have are words of each.
LEMMA ReachedWord ==
  ASSUME Typed, NEW m \in Maps, NEW o \in Maps, NEW i \in Indices(CommonSize(m, o))
  PROVE  i \in Nat /\ i \in Indices(size[m]) /\ i \in Indices(size[o])
<1>1. size[m] \in Nat /\ size[o] \in Nat
  BY DEF Typed
<1>2. /\ CommonSize(m, o) \div WordBits <= size[m] \div WordBits
      /\ CommonSize(m, o) \div WordBits <= size[o] \div WordBits
  BY <1>1, CommonSizeIs, DivMono
<1>3. PICK c \in Nat, p \in Nat, q \in Nat :
        /\ CommonSize(m, o) \div WordBits = c
        /\ size[m] \div WordBits = p /\ size[o] \div WordBits = q
  BY <1>1, CommonSizeIs, IndicesAre
<1>4. /\ Indices(CommonSize(m, o)) = 0 .. c
      /\ Indices(size[m]) = 0 .. p /\ Indices(size[o]) = 0 .. q
  BY <1>1, <1>3, CommonSizeIs, IndicesAre
<1> QED BY <1>2, <1>3, <1>4

\* What the last word of set() may fill, and the mask of a merge's last word.
LEMMA AllSetMaskFits ==
  ASSUME NEW n \in Nat, NEW i \in Indices(n)
  PROVE  /\ AllSetMask(n, i) \subseteq Word
         /\ \A b \in AllSetMask(n, i) : i * WordBits + b < n
<1>1. PICK q \in Nat, r \in 0 .. WordBits - 1, l \in Nat :
        n \div WordBits = q /\ q * WordBits = l /\ n = l + r
  BY Euclid
<1>2. i \in Nat /\ i <= q
  <2>1. Indices(n) = 0 .. q
    BY <1>1, IndicesAre
  <2> QED BY <2>1
<1>3. PICK k \in Nat : k = i * WordBits /\ k <= l
  BY <1>1, <1>2, WidthType, TimesMono
<1>4. AllSetMask(n, i) = IF n - k < WordBits THEN 0 .. (n - k) - 1 ELSE 0 .. WordBits - 1
  BY <1>3 DEF AllSetMask, NBitMask, Word
<1>5. ASSUME NEW b \in AllSetMask(n, i) PROVE b \in 0 .. WordBits - 1 /\ k + b < n
  <2>1. CASE n - k < WordBits
    <3>1. b \in 0 .. (n - k) - 1
      BY <1>4, <2>1
    <3> QED BY <1>1, <1>3, <2>1, <3>1, WidthType
  <2>2. CASE ~(n - k < WordBits)
    <3>1. b \in 0 .. WordBits - 1
      BY <1>4, <2>2
    <3> QED BY <1>1, <1>3, <2>2, <3>1, WidthType
  <2> QED BY <2>1, <2>2
<1> QED BY <1>3, <1>5 DEF Word

\* The rest that MergeLast() looks up is less than a word: its word is the first.
LEMMA RestIsInFirstWord ==
  ASSUME NEW n \in Nat, NEW i \in Indices(n), IsLast(i, n)
  PROVE  LET rest == n - i * WordBits
         IN  /\ rest \in Nat /\ rest <= n /\ rest < WordBits
             /\ WordIdx(rest) = 0 /\ PosInWord(rest) = rest
<1>1. PICK q \in Nat, r \in 0 .. WordBits - 1, k \in Nat :
        n \div WordBits = q /\ q * WordBits = k /\ n = k + r
  BY Euclid
<1>2. i = q
  <2>1. Indices(n) = 0 .. q /\ NWords(n) = q + 1
    BY <1>1, IndicesAre
  <2> QED BY <2>1 DEF IsLast
<1>3. n - i * WordBits = r /\ r <= n
  BY <1>1, <1>2, WidthType
<1>4. PICK p \in Nat, s \in 0 .. WordBits - 1, l \in Nat :
        r \div WordBits = p /\ r % WordBits = s /\ p * WordBits = l /\ r = l + s
  BY WidthType, Euclid
<1>5. p = 0 /\ s = r
  <2>1. CASE p >= 1
    <3>1. 1 * WordBits <= l /\ 1 * WordBits = WordBits
      BY <1>4, <2>1, WidthType, TimesMono
    <3> QED BY <1>4, <3>1, WidthType
  <2>2. CASE p = 0
    BY <1>4, <2>2, WidthType
  <2> QED BY <2>1, <2>2
<1>6. WordIdx(r) = 0 /\ PosInWord(r) = r
  BY <1>4, <1>5 DEF WordIdx, PosInWord
<1> QED BY <1>3, <1>6, WidthType

------------------------------------------------------------------------------
(* Types *)

LEMMA TypedImpliesTypeOK == IInv => TypeOK
<1> SUFFICES ASSUME IInv PROVE TypeOK
  OBVIOUS
<1>1. ASSUME NEW t \in Threads, at[t] # Idle
      PROVE  /\ at[t].map \in Maps /\ at[t].from \in Maps
             /\ at[t].i \in Indices(size[at[t].map])
  <2>1. at[t].map \in Maps /\ at[t].from \in Maps
    BY <1>1 DEF IInv, Typed, Places
  <2> QED BY <1>1, <2>1, ReachedWord DEF IInv, InRange, Reach
<1> QED BY <1>1 DEF IInv, Typed, WordsTyped, Held, TypeOK

LEMMA InitHolds == Init => IInv
<1> SUFFICES ASSUME Init PROVE IInv
  OBVIOUS
<1>1. size \in Sizes /\ size \in [Maps -> Nat]
  BY SizesAssumption DEF Init
<1> QED BY <1>1, ThreadsAssumption
        DEF Init, IInv, Typed, WordsTyped, InRange, Held, Places, Idle, Merging

\* A word of a bitmap is replaced by a set of bits of a word.
LEMMA PutKeeps ==
  ASSUME IInv, NEW m \in Maps, NEW i \in Indices(size[m]), NEW bits \in SUBSET Word,
         Put(m, i, bits), size' = size
  PROVE  /\ DOMAIN words' = Maps /\ WordsTyped'
         /\ words'[m][i] = bits
         /\ \A o \in Maps : \A j \in Indices(size[o]) :
              o # m \/ j # i => words'[o][j] = words[o][j]
<1>1. words' = [words EXCEPT ![m] = [words[m] EXCEPT ![i] = bits]]
  BY DEF Put
<1>2. DOMAIN words = Maps /\ \A o \in Maps : words[o] \in [Indices(size[o]) -> SUBSET Word]
  BY DEF IInv, Typed, WordsTyped
<1>3. words'[m] = [words[m] EXCEPT ![i] = bits]
  BY <1>1, <1>2
<1>4. \A o \in Maps : o # m => words'[o] = words[o]
  BY <1>1, <1>2
<1>5. DOMAIN words' = Maps
  BY <1>1, <1>2
<1>6. WordsTyped'
  BY <1>2, <1>3, <1>4 DEF WordsTyped
<1> QED BY <1>2, <1>3, <1>4, <1>5, <1>6

\* Steps that leave the places and the mutexes alone keep what is said of them.
LEMMA PlacesKept ==
  ASSUME IInv, UNCHANGED <<size, lock, at>>, DOMAIN words' = Maps, WordsTyped'
  PROVE  IInv'
<1>2. Typed'
  BY DEF IInv, Typed
<1>3. InRange'
  BY DEF IInv, InRange, Reach, CommonSize
<1>4. Held'
  BY DEF IInv, Held, Merging
<1> QED BY <1>2, <1>3, <1>4 DEF IInv

LEMMA BitTypes ==
  ASSUME IInv, NEW m \in Maps, NEW pos \in Positions, pos <= size[m]
  PROVE  /\ WordIdx(pos) \in Indices(size[m])
         /\ words[m][WordIdx(pos)] \in SUBSET Word
         /\ IntBit(PosInWord(pos)) \subseteq Word
<1>1. pos \in Nat /\ size[m] \in Nat
  BY PositionsAssumption DEF IInv, Typed
<1>2. WordIdx(pos) \in Indices(size[m]) /\ PosInWord(pos) \in Word
  BY <1>1, PositionIsInWord
<1> QED BY <1>2, IntBitType DEF IInv, WordsTyped

LEMMA QuietKeeps == IInv /\ UNCHANGED <<size, words, lock, at>> => IInv'
<1> SUFFICES ASSUME IInv, UNCHANGED <<size, words, lock, at>> PROVE IInv'
  OBVIOUS
<1>1. DOMAIN words' = Maps /\ WordsTyped'
  BY DEF IInv, Typed, WordsTyped
<1> QED BY <1>1, PlacesKept

LEMMA BitKeeps ==
  ASSUME IInv, NEW m \in Maps, NEW pos \in Positions, SetBit(m, pos) \/ ClearBit(m, pos)
  PROVE  IInv'
<1>1. UNCHANGED <<size, lock, at>>
  BY DEF SetBit, ClearBit, Atomic
<1>2. CASE ~IsValidPos(m, pos)
  BY <1>1, <1>2, QuietKeeps DEF SetBit, ClearBit
<1>3. CASE IsValidPos(m, pos)
  <2>1. pos <= size[m]
    BY <1>3, PositionsAssumption DEF IsValidPos, IInv, Typed
  <2>2. PICK bits \in SUBSET Word : Put(m, WordIdx(pos), bits)
    BY <1>3, <2>1, BitTypes DEF SetBit, ClearBit
  <2> QED BY <1>1, <2>1, <2>2, BitTypes, PutKeeps, PlacesKept
<1> QED BY <1>2, <1>3

LEMMA ClearAllKeeps == ASSUME IInv, NEW m \in Maps, ClearAll(m) PROVE IInv'
<1>1. UNCHANGED <<size, lock, at>>
  BY DEF ClearAll, Atomic
<1>2. words' = [words EXCEPT ![m] = [i \in Indices(size[m]) |-> {}]]
  BY DEF ClearAll
<1>3. DOMAIN words' = Maps /\ WordsTyped'
  BY <1>1, <1>2 DEF IInv, Typed, WordsTyped
<1> QED BY <1>1, <1>3, PlacesKept

\* A thread begins to go through the words of two bitmaps, or of one and itself.
LEMMA BeginKeeps ==
  ASSUME IInv, NEW t \in Threads, NEW op \in {"all", "set", "clear"},
         NEW m \in Maps, NEW o \in Maps, op = "all" => o = m, at[t] = Idle,
         at' = [at EXCEPT ![t] = [op |-> op, map |-> m, from |-> o, i |-> 0]],
         \/ op = "all" /\ lock' = lock
         \/ op # "all" /\ Free(m) /\ lock' = [lock EXCEPT ![m] = t],
         UNCHANGED <<size, words>>
  PROVE  IInv'
<1> DEFINE p == [op |-> op, map |-> m, from |-> o, i |-> 0]
<1>1. p \in Places /\ p # Idle /\ p.op = op /\ p.map = m /\ p.from = o /\ p.i = 0
  BY DEF Places, Idle
<1> HIDE DEF p
<1>2. at' = [at EXCEPT ![t] = p]
  BY DEF p
<1>3. Typed'
  BY <1>1, <1>2 DEF IInv, Typed
<1>4. WordsTyped'
  BY DEF IInv, WordsTyped
<1>5. InRange'
  <2>1. 0 \in Indices(CommonSize(m, o))
    <3>1. PICK q : CommonSize(m, o) \div WordBits = q
      OBVIOUS
    <3>2. q \in Nat /\ Indices(CommonSize(m, o)) = 0 .. q
      BY <3>1, CommonSizeIs, IndicesAre DEF IInv
    <3> QED BY <3>2
  <2>2. ASSUME NEW u \in Threads, at'[u] # Idle
        PROVE  at'[u].i \in Indices(Reach(at[u])')
    <3>1. CASE u = t
      BY <1>1, <1>2, <2>1, <3>1 DEF IInv, Typed, Reach, CommonSize
    <3>2. CASE u # t
      BY <1>2, <2>2, <3>2 DEF IInv, Typed, InRange, Reach, CommonSize
    <3> QED BY <3>1, <3>2
  <2> QED BY <2>2 DEF InRange
<1>6. Held'
  <2>1. \A k \in Maps : lock[k] # t
    BY ThreadsAssumption DEF IInv, Held
  <2>2. ASSUME NEW u \in Threads, at'[u] # Idle
        PROVE  Merging(u)' <=> lock'[at'[u].map] = u
    <3>1. CASE u = t
      BY <1>1, <1>2, <2>1, <3>1 DEF IInv, Typed, Merging
    <3>2. CASE u # t
      <4>1. at'[u] = at[u] /\ at[u].map \in Maps
        BY <1>2, <2>2, <3>2 DEF IInv, Typed, Places
      <4>2. Merging(u) <=> lock[at[u].map] = u
        BY <2>2, <4>1 DEF IInv, Held
      <4>3. lock'[at[u].map] = u <=> lock[at[u].map] = u
        BY <3>2, <4>1, ThreadsAssumption DEF IInv, Typed, Free
      <4> QED BY <4>1, <4>2, <4>3 DEF Merging
    <3> QED BY <3>1, <3>2
  <2>3. ASSUME NEW k \in Maps, lock'[k] # NoThread
        PROVE  at'[lock'[k]] # Idle /\ at'[lock'[k]].map = k
    <3>1. CASE lock'[k] = lock[k]
      <4>1. lock[k] \in Threads /\ lock[k] # t
        BY <2>1, <2>3, <3>1 DEF IInv, Typed
      <4>2. at[lock[k]] # Idle /\ at[lock[k]].map = k
        BY <2>3, <3>1 DEF IInv, Held
      <4> QED BY <1>2, <3>1, <4>1, <4>2 DEF IInv, Typed
    <3>2. CASE lock'[k] # lock[k]
      BY <1>1, <1>2, <3>2 DEF IInv, Typed
    <3> QED BY <3>1, <3>2
  <2> QED BY <2>2, <2>3 DEF Held
<1> QED BY <1>3, <1>4, <1>5, <1>6 DEF IInv

\* It goes on to the next word.
LEMMA NextWordKeeps ==
  ASSUME IInv, NEW t \in Threads, at[t] # Idle, ~IsLast(at[t].i, Reach(at[t])),
         at' = [at EXCEPT ![t] = [@ EXCEPT !.i = at[t].i + 1]],
         UNCHANGED <<size, lock>>, DOMAIN words' = Maps, WordsTyped'
  PROVE  IInv'
<1> DEFINE p == [at[t] EXCEPT !.i = at[t].i + 1]
<1>1. /\ at[t] \in [op : {"all", "set", "clear"}, map : Maps, from : Maps, i : Nat]
      /\ at[t].op = "all" => at[t].from = at[t].map
  BY DEF IInv, Typed, Places
<1>2. /\ p \in Places /\ p # Idle /\ p.op = at[t].op /\ p.map = at[t].map
      /\ p.from = at[t].from /\ p.i = at[t].i + 1 /\ p.op # "none"
  BY <1>1 DEF Places, Idle
<1> HIDE DEF p
<1>3. at' = [at EXCEPT ![t] = p]
  BY DEF p
<1>4. Typed'
  BY <1>2, <1>3 DEF IInv, Typed
<1>5. InRange'
  <2>1. p.i \in Indices(Reach(at[t]))
    <3>1. PICK q : Reach(at[t]) \div WordBits = q
      OBVIOUS
    <3>2. Reach(at[t]) \in Nat
      BY <1>1, CommonSizeIs DEF IInv, Reach
    <3>3. q \in Nat /\ Indices(Reach(at[t])) = 0 .. q /\ NWords(Reach(at[t])) = q + 1
      BY <3>1, <3>2, IndicesAre
    <3>4. at[t].i \in 0 .. q /\ at[t].i + 1 # q + 1
      BY <3>3 DEF IInv, InRange, IsLast
    <3> QED BY <1>2, <3>3, <3>4
  <2>2. ASSUME NEW u \in Threads, at'[u] # Idle
        PROVE  at'[u].i \in Indices(Reach(at[u])')
    <3>1. CASE u = t
      BY <1>2, <1>3, <2>1, <3>1 DEF IInv, Typed, Reach, CommonSize
    <3>2. CASE u # t
      BY <1>3, <2>2, <3>2 DEF IInv, Typed, InRange, Reach, CommonSize
    <3> QED BY <3>1, <3>2
  <2> QED BY <2>2 DEF InRange
<1>6. Held'
  <2>1. \A u \in Threads : /\ at'[u] = Idle <=> at[u] = Idle
                           /\ at'[u].op = at[u].op
                           /\ at[u] # Idle => at'[u].map = at[u].map
    BY <1>2, <1>3 DEF IInv, Typed
  <2>2. ASSUME NEW k \in Maps, lock[k] # NoThread
        PROVE  at'[lock[k]] # Idle /\ at'[lock[k]].map = k
    BY <2>1, <2>2 DEF IInv, Typed, Held
  <2>3. ASSUME NEW u \in Threads, at'[u] # Idle
        PROVE  Merging(u)' <=> lock'[at'[u].map] = u
    BY <2>1, <2>3 DEF IInv, Held, Merging
  <2> QED BY <2>2, <2>3 DEF Held
<1> QED BY <1>4, <1>5, <1>6 DEF IInv

\* It is done, and unlocks the mutex if it merged.
LEMMA EndKeeps ==
  ASSUME IInv, NEW t \in Threads, at[t] # Idle, at' = [at EXCEPT ![t] = Idle],
         IF Merging(t) THEN lock' = [lock EXCEPT ![at[t].map] = NoThread] ELSE lock' = lock,
         size' = size, DOMAIN words' = Maps, WordsTyped'
  PROVE  IInv'
<1>1. at[t].map \in Maps
  BY DEF IInv, Typed, Places
<1>2. Typed'
  BY DEF IInv, Typed, Places
<1>3. InRange'
  BY DEF IInv, Typed, InRange, Reach, CommonSize
<1>4. \A k \in Maps : lock'[k] = IF lock[k] = t THEN NoThread ELSE lock[k]
  <2>1. ASSUME NEW k \in Maps PROVE lock'[k] = IF lock[k] = t THEN NoThread ELSE lock[k]
    <3>1. lock[k] = t => k = at[t].map
      BY ThreadsAssumption DEF IInv, Held
    <3>2. Merging(t) <=> lock[at[t].map] = t
      BY DEF IInv, Held
    <3> QED BY <1>1, <3>1, <3>2 DEF IInv, Typed
  <2> QED BY <2>1
<1>5. \A u \in Threads : u # t => at'[u] = at[u]
  BY DEF IInv, Typed
<1>6. at'[t] = Idle
  BY DEF IInv, Typed
<1>7. ASSUME NEW u \in Threads, at'[u] # Idle
      PROVE  Merging(u)' <=> lock'[at'[u].map] = u
  <2>1. u # t /\ at'[u] = at[u] /\ at[u].map \in Maps
    BY <1>5, <1>6, <1>7 DEF IInv, Typed, Places
  <2>2. Merging(u) <=> lock[at[u].map] = u
    BY <1>7, <2>1 DEF IInv, Held
  <2>3. lock'[at[u].map] = u <=> lock[at[u].map] = u
    BY <1>4, <2>1, ThreadsAssumption
  <2> QED BY <2>1, <2>2, <2>3 DEF Merging
<1>8. ASSUME NEW k \in Maps, lock'[k] # NoThread
      PROVE  at'[lock'[k]] # Idle /\ at'[lock'[k]].map = k
  <2>1. lock'[k] = lock[k] /\ lock[k] # t /\ lock[k] # NoThread
    BY <1>4, <1>8
  <2>2. lock[k] \in Threads
    BY <2>1 DEF IInv, Typed
  <2> QED BY <1>5, <2>1, <2>2 DEF IInv, Held
<1>9. Held'
  BY <1>7, <1>8 DEF Held
<1> QED BY <1>2, <1>3, <1>9 DEF IInv

------------------------------------------------------------------------------
(* The steps, and the bits they set *)

\* What the words may hold: no bit beyond the size.
Within(m, i, bits) == \A b \in bits : i * WordBits + b < size[m]

\* A thread that is in an operation has a word of each bitmap.
LEMMA PlaceFacts ==
  ASSUME IInv, NEW t \in Threads, at[t].op # "none"
  PROVE  /\ at[t] # Idle
         /\ at[t].op \in {"all", "set", "clear"}
         /\ at[t].map \in Maps /\ at[t].from \in Maps /\ at[t].i \in Nat
         /\ Reach(at[t]) = CommonSize(at[t].map, at[t].from)
         /\ Reach(at[t]) \in Nat
         /\ Reach(at[t]) <= size[at[t].map]
         /\ at[t].i \in Indices(Reach(at[t]))
         /\ at[t].i \in Indices(size[at[t].map])
         /\ at[t].i \in Indices(size[at[t].from])
<1>1. at[t] # Idle /\ at[t].op \in {"all", "set", "clear"}
      /\ at[t].map \in Maps /\ at[t].from \in Maps /\ at[t].i \in Nat
  BY DEF IInv, Typed, Places, Idle
<1>2. Reach(at[t]) = CommonSize(at[t].map, at[t].from)
  BY DEF Reach
<1>3. at[t].i \in Indices(Reach(at[t]))
  BY <1>1 DEF IInv, InRange
<1>4. Reach(at[t]) \in Nat /\ Reach(at[t]) <= size[at[t].map]
  BY <1>1, <1>2, CommonSizeIs DEF IInv
<1>5. at[t].i \in Indices(size[at[t].map]) /\ at[t].i \in Indices(size[at[t].from])
  BY <1>1, <1>2, <1>3, ReachedWord DEF IInv
<1> QED BY <1>1, <1>2, <1>3, <1>4, <1>5

LEMMA BeginSetAllKeeps ==
  ASSUME IInv, NEW t \in Threads, NEW m \in Maps, BeginSetAll(t, m)
  PROVE  IInv' /\ UNCHANGED <<size, words>>
BY BeginKeeps DEF BeginSetAll

LEMMA BeginMergeKeeps ==
  ASSUME IInv, NEW t \in Threads, NEW op \in {"set", "clear"},
         NEW m \in Maps, NEW o \in Maps, BeginMerge(t, op, m, o)
  PROVE  IInv' /\ UNCHANGED <<size, words>>
BY BeginKeeps DEF BeginMerge

\* set() fills a word as far as the size.
LEMMA SetWordStep ==
  ASSUME IInv, NEW t \in Threads, SetWord(t)
  PROVE  /\ IInv' /\ size' = size
         /\ \E m \in Maps, bits \in SUBSET Word : \E i \in Indices(size[m]) :
              Put(m, i, words[m][i] \cup bits) /\ Within(m, i, bits)
<1>1. PICK m : m = at[t].map
  OBVIOUS
<1>2. PICK i : i = at[t].i
  OBVIOUS
<1>3. /\ at[t].op = "all" /\ Put(m, i, words[m][i] \cup AllSetMask(size[m], i))
      /\ at' = [at EXCEPT ![t] = IF IsLast(i, size[m]) THEN Idle ELSE [@ EXCEPT !.i = i + 1]]
      /\ UNCHANGED <<size, lock>>
  BY <1>1, <1>2 DEF SetWord
<1>4. /\ at[t] # Idle /\ m \in Maps /\ i \in Indices(size[m]) /\ size[m] \in Nat
      /\ ~Merging(t)
  BY <1>1, <1>2, <1>3, PlaceFacts DEF IInv, Typed, Merging
<1>5. AllSetMask(size[m], i) \in SUBSET Word /\ Within(m, i, AllSetMask(size[m], i))
  BY <1>4, AllSetMaskFits DEF Within
<1>6. words[m][i] \cup AllSetMask(size[m], i) \in SUBSET Word
  BY <1>4, <1>5 DEF IInv, WordsTyped
<1>7. DOMAIN words' = Maps /\ WordsTyped'
  BY <1>3, <1>4, <1>6, PutKeeps
<1>8. ASSUME IsLast(i, size[m]) PROVE IInv'
  <2>1. at' = [at EXCEPT ![t] = Idle]
    BY <1>3, <1>8
  <2> QED BY <1>3, <1>4, <1>7, <2>1, EndKeeps
<1>9. ASSUME ~IsLast(i, size[m]) PROVE IInv'
  <2>1. ~IsLast(at[t].i, Reach(at[t]))
    BY <1>1, <1>2, <1>3, <1>4, <1>9 DEF IInv, Typed, Places, Reach, CommonSize
  <2>2. at' = [at EXCEPT ![t] = [@ EXCEPT !.i = at[t].i + 1]]
    BY <1>2, <1>3, <1>9
  <2>3. size' = size /\ lock' = lock
    BY <1>3
  <2> QED BY <1>4, <1>7, <2>1, <2>2, <2>3, NextWordKeeps
<1> QED BY <1>3, <1>4, <1>5, <1>8, <1>9

\* A merge goes through the whole words of the smaller bitmap.
LEMMA MergeWordStep ==
  ASSUME IInv, NEW t \in Threads, MergeWord(t)
  PROVE  /\ IInv' /\ size' = size
         /\ \E m \in Maps, bits \in SUBSET Word : \E i \in Indices(size[m]) :
              /\ Put(m, i, words[m][i] \cup bits) \/ Put(m, i, words[m][i] \ bits)
              /\ Within(m, i, bits)
<1>1. PICK m : m = at[t].map
  OBVIOUS
<1>2. PICK i : i = at[t].i
  OBVIOUS
<1>3. PICK bits : bits = words[at[t].from][i]
  OBVIOUS
<1>4. /\ at[t].op \in {"set", "clear"}
      /\ ~IsLast(i, CommonSize(m, at[t].from))
      /\ Put(m, i, words[m][i] \cup bits) \/ Put(m, i, words[m][i] \ bits)
      /\ at' = [at EXCEPT ![t] = [@ EXCEPT !.i = at[t].i + 1]]
      /\ UNCHANGED <<size, lock>>
  BY <1>1, <1>2, <1>3 DEF MergeWord, Merging, Op
<1>5. /\ at[t] # Idle /\ m \in Maps /\ at[t].from \in Maps
      /\ i \in Indices(size[m]) /\ i \in Indices(size[at[t].from]) /\ size[m] \in Nat
      /\ Reach(at[t]) = CommonSize(m, at[t].from) /\ Reach(at[t]) \in Nat
      /\ Reach(at[t]) <= size[m] /\ i \in Indices(Reach(at[t])) /\ i \in Nat
  BY <1>1, <1>2, <1>4, PlaceFacts DEF IInv, Typed
<1>6. bits \in SUBSET Word /\ words[m][i] \in SUBSET Word
  BY <1>3, <1>5 DEF IInv, WordsTyped
<1>7. DOMAIN words' = Maps /\ WordsTyped'
  <2>1. PICK new \in SUBSET Word : Put(m, i, new)
    BY <1>4, <1>6
  <2> QED BY <1>4, <1>5, <2>1, PutKeeps
<1>8. IInv'
  BY <1>2, <1>4, <1>5, <1>7, NextWordKeeps
<1>9. Within(m, i, bits)
  <2> PICK n \in Nat : n = Reach(at[t])
    BY <1>5
  <2>1. PICK q \in Nat, r \in 0 .. WordBits - 1, l \in Nat :
          n \div WordBits = q /\ n % WordBits = r /\ q * WordBits = l /\ n = l + r
    BY Euclid, Zenon
  <2>2. i + 1 <= q
    <3>1. Indices(n) = 0 .. q /\ NWords(n) = q + 1
      BY <2>1, IndicesAre
    <3> QED BY <1>4, <1>5, <2>1, <3>1 DEF IsLast
  <2>3. (i + 1) * WordBits <= l
    BY <1>5, <2>1, <2>2, WidthType, TimesMono
  <2>4. PICK k \in Nat : k = i * WordBits
    BY <1>5, WidthType
  <2>5. (i + 1) * WordBits = k + WordBits
    BY <1>5, <2>4, WidthType
  <2>6. \A b \in Word : k + b < size[m]
    BY <1>5, <2>1, <2>3, <2>4, <2>5, WidthType DEF Word
  <2> QED BY <1>6, <2>4, <2>6 DEF Within
<1> QED BY <1>4, <1>5, <1>6, <1>8, <1>9

\* And of the last one it takes as many bits as remain, whichever word that is.
LEMMA MergeLastStep ==
  ASSUME IInv, NEW t \in Threads, MergeLast(t)
  PROVE  /\ IInv' /\ size' = size
         /\ \E m \in Maps, bits \in SUBSET Word : \E i \in Indices(size[m]) :
              /\ Put(m, i, words[m][i] \cup bits) \/ Put(m, i, words[m][i] \ bits)
              /\ Within(m, i, bits)
<1>1. PICK m : m = at[t].map
  OBVIOUS
<1>2. PICK sz : sz = CommonSize(m, at[t].from)
  OBVIOUS
<1>3. PICK rest : rest = sz - at[t].i * WordBits
  OBVIOUS
<1>4. PICK bits : bits = NBitMask(PosInWord(rest)) \cap words[at[t].from][WordIdx(rest)]
  OBVIOUS
<1>5. /\ at[t].op \in {"set", "clear"} /\ Merging(t)
      /\ IsLast(at[t].i, sz)
      /\ \/ Put(m, WordIdx(rest), words[m][WordIdx(rest)] \cup bits)
         \/ Put(m, WordIdx(rest), words[m][WordIdx(rest)] \ bits)
      /\ at' = [at EXCEPT ![t] = Idle]
      /\ lock' = [lock EXCEPT ![m] = NoThread]
      /\ size' = size
  BY <1>1, <1>2, <1>3, <1>4 DEF MergeLast, Merging, Op
<1>6. /\ at[t] # Idle /\ m \in Maps /\ size[m] \in Nat
      /\ sz \in Nat /\ sz <= size[m] /\ at[t].i \in Indices(sz)
  BY <1>1, <1>2, <1>5, PlaceFacts DEF IInv, Typed
<1>7. /\ rest \in Nat /\ rest <= sz /\ rest < WordBits
      /\ WordIdx(rest) = 0 /\ PosInWord(rest) = rest
  BY <1>3, <1>5, <1>6, RestIsInFirstWord
<1>8. 0 \in Indices(size[m])
  <2>1. PICK q : size[m] \div WordBits = q
    OBVIOUS
  <2>2. q \in Nat /\ Indices(size[m]) = 0 .. q
    BY <1>6, <2>1, IndicesAre
  <2> QED BY <2>2
<1>9. bits \in SUBSET Word /\ words[m][0] \in SUBSET Word
  <2>1. bits \subseteq 0 .. rest - 1
    BY <1>4, <1>7 DEF NBitMask
  <2> QED BY <1>6, <1>7, <1>8, <2>1, WidthType DEF IInv, WordsTyped, Word
<1>10. DOMAIN words' = Maps /\ WordsTyped'
  <2>1. PICK new \in SUBSET Word : Put(m, 0, new)
    BY <1>5, <1>7, <1>9
  <2> QED BY <1>5, <1>6, <1>8, <2>1, PutKeeps
<1>11. IInv'
  BY <1>1, <1>5, <1>6, <1>10, EndKeeps
<1>12. Within(m, 0, bits)
  <2>1. \A b \in bits : b \in Nat /\ b < rest
    BY <1>4, <1>7 DEF NBitMask
  <2> QED BY <1>6, <1>7, <2>1, WidthType DEF Within
<1> QED BY <1>5, <1>6, <1>7, <1>8, <1>9, <1>11, <1>12

LEMMA NextKeeps == IInv /\ [Next]_vars => IInv'
<1> SUFFICES ASSUME IInv, [Next]_vars PROVE IInv'
  OBVIOUS
<1>1. ASSUME NEW m \in Maps, ClearAll(m) \/ Count(m) \/ IsZero(m) \/ IsFull(m) PROVE IInv'
  BY <1>1, ClearAllKeeps, QuietKeeps DEF Count, IsZero, IsFull, Ask, Atomic
<1>2. ASSUME NEW m \in Maps, NEW pos \in Positions,
             SetBit(m, pos) \/ ClearBit(m, pos) \/ IsSet(m, pos) \/ IsClear(m, pos)
      PROVE  IInv'
  BY <1>2, BitKeeps, QuietKeeps DEF IsSet, IsClear, Ask, Atomic
<1>3. ASSUME NEW t \in Threads, NEW m \in Maps, BeginSetAll(t, m) PROVE IInv'
  BY <1>3, BeginSetAllKeeps
<1>4. ASSUME NEW t \in Threads, NEW m \in Maps, NEW o \in Maps,
             Union(t, m, o) \/ \E op \in {"set", "clear"} : BeginMerge(t, op, m, o)
      PROVE  IInv'
  BY <1>4, BeginMergeKeeps DEF Union
<1>5. ASSUME NEW t \in Threads, SetWord(t) \/ MergeWord(t) \/ MergeLast(t) PROVE IInv'
  BY <1>5, SetWordStep, MergeWordStep, MergeLastStep
<1>6. CASE UNCHANGED vars
  BY <1>6, QuietKeeps DEF vars
<1> QED BY <1>1, <1>2, <1>3, <1>4, <1>5, <1>6 DEF Next

\* Threads stay among the words of the bitmaps they go through, and the mutex of a
\* bitmap is held by the one that merges into it: for any widths, sizes and positions.
THEOREM TypeCorrect == Spec => []TypeOK
BY InitHolds, NextKeeps, TypedImpliesTypeOK, PTL DEF Spec

------------------------------------------------------------------------------
(* No bit beyond the size *)

\* A word that gains or loses bits within the size.
LEMMA PutKeepsPadding ==
  ASSUME IInv, PaddingClear, NEW m \in Maps, NEW i \in Indices(size[m]),
         NEW bits \in SUBSET Word, Within(m, i, bits), size' = size,
         Put(m, i, words[m][i] \cup bits) \/ Put(m, i, words[m][i] \ bits)
  PROVE  PaddingClear'
<1>1. words[m][i] \in SUBSET Word
  BY DEF IInv, WordsTyped
<1>2. PICK new \in SUBSET Word : Put(m, i, new) /\ new \subseteq words[m][i] \cup bits
  BY <1>1
<1>3. /\ words'[m][i] = new
      /\ \A o \in Maps : \A j \in Indices(size[o]) :
           o # m \/ j # i => words'[o][j] = words[o][j]
  BY <1>2, PutKeeps
<1>4. ASSUME NEW o \in Maps, NEW j \in Indices(size[o]), NEW b \in words'[o][j]
      PROVE  j * WordBits + b < size[o]
  <2>1. CASE o = m /\ j = i
    BY <1>2, <1>3, <1>4, <2>1 DEF PaddingClear, Within
  <2>2. CASE o # m \/ j # i
    BY <1>3, <1>4, <2>2 DEF PaddingClear
  <2> QED BY <2>1, <2>2
<1> QED BY <1>4 DEF PaddingClear

LEMMA PaddingInit == Init => PaddingClear
BY DEF Init, PaddingClear

LEMMA PaddingBit ==
  ASSUME Fit, IInv, PaddingClear, NEW m \in Maps, NEW pos \in Positions,
         SetBit(m, pos) \/ ClearBit(m, pos)
  PROVE  PaddingClear'
<1>1. size' = size
  BY DEF SetBit, ClearBit, Atomic
<1>2. CASE ~IsValidPos(m, pos)
  BY <1>1, <1>2 DEF SetBit, ClearBit, PaddingClear
<1>3. CASE IsValidPos(m, pos)
  <2>1. pos \in Nat /\ size[m] \in Nat /\ pos < size[m]
    BY <1>3, PositionsAssumption DEF IsValidPos, IInv, Typed
  <2>2. /\ WordIdx(pos) \in Indices(size[m]) /\ PosInWord(pos) \in Word
        /\ WordIdx(pos) * WordBits + PosInWord(pos) = pos
    BY <2>1, PositionIsInWord
  <2>3. IntBit(PosInWord(pos)) = {PosInWord(pos)}
    BY <2>2, IntBitType DEF Fit, PosInWord
  <2>4. Within(m, WordIdx(pos), {PosInWord(pos)})
    BY <2>1, <2>2 DEF Within
  <2>5. \/ Put(m, WordIdx(pos), words[m][WordIdx(pos)] \cup {PosInWord(pos)})
        \/ Put(m, WordIdx(pos), words[m][WordIdx(pos)] \ {PosInWord(pos)})
    BY <1>3, <2>3 DEF SetBit, ClearBit
  <2> QED BY <1>1, <2>2, <2>4, <2>5, PutKeepsPadding
<1> QED BY <1>2, <1>3

LEMMA PaddingNext ==
  ASSUME Fit, IInv, PaddingClear, [Next]_vars
  PROVE  PaddingClear'
<1>1. ASSUME NEW m \in Maps, ClearAll(m) PROVE PaddingClear'
  BY <1>1 DEF ClearAll, Atomic, PaddingClear, IInv, Typed
<1>2. ASSUME NEW m \in Maps, Count(m) \/ IsZero(m) \/ IsFull(m) PROVE PaddingClear'
  BY <1>2 DEF Count, IsZero, IsFull, Ask, Atomic, PaddingClear
<1>3. ASSUME NEW m \in Maps, NEW pos \in Positions, SetBit(m, pos) \/ ClearBit(m, pos)
      PROVE  PaddingClear'
  BY <1>3, PaddingBit
<1>4. ASSUME NEW m \in Maps, NEW pos \in Positions, IsSet(m, pos) \/ IsClear(m, pos)
      PROVE  PaddingClear'
  BY <1>4 DEF IsSet, IsClear, Ask, Atomic, PaddingClear
<1>5. ASSUME NEW t \in Threads, NEW m \in Maps, BeginSetAll(t, m) PROVE PaddingClear'
  BY <1>5 DEF BeginSetAll, PaddingClear
<1>6. ASSUME NEW t \in Threads, NEW m \in Maps, NEW o \in Maps,
             Union(t, m, o) \/ \E op \in {"set", "clear"} : BeginMerge(t, op, m, o)
      PROVE  PaddingClear'
  BY <1>6 DEF Union, BeginMerge, PaddingClear
<1>7. ASSUME NEW t \in Threads, SetWord(t) \/ MergeWord(t) \/ MergeLast(t)
      PROVE  PaddingClear'
  BY <1>7, SetWordStep, MergeWordStep, MergeLastStep, PutKeepsPadding
<1>8. CASE UNCHANGED vars
  BY <1>8 DEF vars, PaddingClear
<1> QED BY <1>1, <1>2, <1>3, <1>4, <1>5, <1>6, <1>7, <1>8 DEF Next

\* If programs pass only positions for which 1 << pos is a single bit, no bit beyond the
\* size is ever set, whatever the sizes of the bitmaps that are merged.
THEOREM PaddingStaysClear == ASSUME Fit PROVE Spec => []PaddingClear
<1>1. IInv /\ PaddingClear /\ [Next]_vars => PaddingClear'
  BY PaddingNext
<1> QED BY <1>1, InitHolds, NextKeeps, PaddingInit, PTL DEF Spec

------------------------------------------------------------------------------
(* The refinement: bitmaps as sets of positions *)

\* The positions of the bits of a word.
Place(i, b) == i * WordBits + b
At(i, bits) == {Place(i, b) : b \in bits}

\* The smaller of two merged bitmaps has less than a word of bits or a whole number of
\* words.
WholeMerges ==
  \A p \in Merges :
    LET least == IF p[1] < p[2] THEN p[1] ELSE p[2]
    IN  least < WordBits \/ least % WordBits = 0

\* Bitmaps that are merged are a pair of sizes that programs merge.
MergesAllowed ==
  \A t \in Threads : Merging(t) => <<size[at[t].map], size[at[t].from]>> \in Merges

LEMMA PlaceIsUnique ==
  ASSUME NEW i \in Nat, NEW j \in Nat, NEW b \in Word, NEW c \in Word,
         Place(i, b) = Place(j, c)
  PROVE  i = j /\ b = c
<1>1. WordBits \in Nat /\ b \in Nat /\ c \in Nat /\ b < WordBits /\ c < WordBits
  BY WidthType DEF Word
<1>2. PICK k \in Nat, l \in Nat : k = i * WordBits /\ l = j * WordBits
  BY <1>1
<1>3. k + b = l + c
  BY <1>2 DEF Place
<1>4. CASE i < j
  <2>1. (i + 1) * WordBits <= l /\ (i + 1) * WordBits = k + WordBits
    BY <1>1, <1>2, <1>4, TimesMono
  <2> QED BY <1>1, <1>3, <2>1
<1>5. CASE j < i
  <2>1. (j + 1) * WordBits <= k /\ (j + 1) * WordBits = l + WordBits
    BY <1>1, <1>2, <1>5, TimesMono
  <2> QED BY <1>1, <1>3, <2>1
<1>6. CASE i = j
  BY <1>1, <1>2, <1>3, <1>6
<1> QED BY <1>4, <1>5, <1>6

\* Different words have different positions.
LEMMA AtDisjoint ==
  ASSUME NEW i \in Nat, NEW j \in Nat, i # j, NEW S \in SUBSET Word, NEW T \in SUBSET Word
  PROVE  At(i, S) \cap At(j, T) = {}
BY PlaceIsUnique DEF At

LEMMA BitsOfIs ==
  ASSUME NEW m \in Maps
  PROVE  BitsOf(m) = UNION {At(i, words[m][i]) : i \in Indices(size[m])}
BY DEF BitsOf, At, Place

LEMMA IndexIsNat == ASSUME NEW n \in Nat, NEW i \in Indices(n) PROVE i \in Nat
<1>1. PICK q : n \div WordBits = q
  OBVIOUS
<1>2. q \in Nat /\ Indices(n) = 0 .. q
  BY <1>1, IndicesAre
<1> QED BY <1>2

\* What a word of a bitmap has to say of its positions.
LEMMA BitsAt ==
  ASSUME IInv, NEW m \in Maps, NEW i \in Indices(size[m]), NEW S \in SUBSET Word
  PROVE  BitsOf(m) \cap At(i, S) = At(i, words[m][i] \cap S)
<1>1. size[m] \in Nat /\ \A j \in Indices(size[m]) : words[m][j] \in SUBSET Word
  BY DEF IInv, Typed, WordsTyped
<1>2. i \in Nat /\ \A j \in Indices(size[m]) : j \in Nat
  BY <1>1, IndexIsNat
<1>3. At(i, words[m][i] \cap S) = At(i, words[m][i]) \cap At(i, S)
  <2>1. PICK w \in SUBSET Word : w = words[m][i]
    BY <1>1
  <2>2. At(i, w \cap S) = At(i, w) \cap At(i, S)
    BY <1>2, PlaceIsUnique DEF At
  <2> QED BY <2>1, <2>2
<1>4. ASSUME NEW j \in Indices(size[m]), j # i
      PROVE  At(j, words[m][j]) \cap At(i, S) = {}
  <2>1. words[m][j] \in SUBSET Word
    BY <1>1
  <2> QED BY <1>2, <1>4, <2>1, AtDisjoint
<1> QED BY <1>3, <1>4, BitsOfIs

\* A word that gains or loses bits.
LEMMA PutBits ==
  ASSUME IInv, NEW m \in Maps, NEW i \in Indices(size[m]), NEW S \in SUBSET Word,
         size' = size, NEW new, Put(m, i, new)
  PROVE  /\ \A o \in Maps : o # m => BitsOf(o)' = BitsOf(o)
         /\ new = words[m][i] \cup S => BitsOf(m)' = BitsOf(m) \cup At(i, S)
         /\ new = words[m][i] \ S => BitsOf(m)' = BitsOf(m) \ At(i, S)
<1>1. size[m] \in Nat /\ \A j \in Indices(size[m]) : words[m][j] \in SUBSET Word
  BY DEF IInv, Typed, WordsTyped
<1>2. i \in Nat /\ \A j \in Indices(size[m]) : j \in Nat
  BY <1>1, IndexIsNat
<1>3. /\ words'[m][i] = new
      /\ \A j \in Indices(size[m]) : j # i => words'[m][j] = words[m][j]
      /\ \A o \in Maps : o # m => words'[o] = words[o]
  BY DEF Put, IInv, Typed, WordsTyped
<1>4. \A o \in Maps : o # m => BitsOf(o)' = BitsOf(o)
  BY <1>3 DEF BitsOf
<1>5. BitsOf(m)' = UNION {At(j, words'[m][j]) : j \in Indices(size[m])}
  BY DEF BitsOf, At, Place
<1>6. BitsOf(m) = UNION {At(j, words[m][j]) : j \in Indices(size[m])}
  BY BitsOfIs
<1>7. ASSUME new = words[m][i] \cup S PROVE BitsOf(m)' = BitsOf(m) \cup At(i, S)
  <2>1. At(i, words'[m][i]) = At(i, words[m][i]) \cup At(i, S)
    <3>1. PICK w \in SUBSET Word : w = words[m][i] /\ words'[m][i] = w \cup S
      BY <1>1, <1>3, <1>7
    <3>2. At(i, w \cup S) = At(i, w) \cup At(i, S)
      BY <1>2, PlaceIsUnique DEF At
    <3> QED BY <3>1, <3>2
  <2>2. ASSUME NEW p PROVE p \in BitsOf(m)' <=> p \in BitsOf(m) \cup At(i, S)
    <3>1. p \in BitsOf(m)' <=> \E j \in Indices(size[m]) : p \in At(j, words'[m][j])
      BY <1>5
    <3>2. p \in BitsOf(m) <=> \E j \in Indices(size[m]) : p \in At(j, words[m][j])
      BY <1>6
    <3> QED BY <1>3, <2>1, <3>1, <3>2
  <2> QED BY <2>2
<1>8. ASSUME new = words[m][i] \ S PROVE BitsOf(m)' = BitsOf(m) \ At(i, S)
  <2>1. At(i, words'[m][i]) = At(i, words[m][i]) \ At(i, S)
    <3>1. PICK w \in SUBSET Word : w = words[m][i] /\ words'[m][i] = w \ S
      BY <1>1, <1>3, <1>8
    <3>2. At(i, w \ S) = At(i, w) \ At(i, S)
      BY <1>2, PlaceIsUnique DEF At
    <3> QED BY <3>1, <3>2
  <2>2. ASSUME NEW j \in Indices(size[m]), j # i
        PROVE  At(j, words[m][j]) \cap At(i, S) = {}
    <3>1. words[m][j] \in SUBSET Word
      BY <1>1
    <3> QED BY <1>2, <2>2, <3>1, AtDisjoint
  <2>3. ASSUME NEW p PROVE p \in BitsOf(m)' <=> p \in BitsOf(m) \ At(i, S)
    <3>1. p \in BitsOf(m)' <=> \E j \in Indices(size[m]) : p \in At(j, words'[m][j])
      BY <1>5
    <3>2. p \in BitsOf(m) <=> \E j \in Indices(size[m]) : p \in At(j, words[m][j])
      BY <1>6
    <3> QED BY <1>3, <2>1, <2>2, <3>1, <3>2
  <2> QED BY <2>3
<1> QED BY <1>4, <1>7, <1>8

\* The bitmaps of the abstract specification after such a step.
Sets == [m \in Maps |-> BitsOf(m)]

LEMMA SetsChange ==
  ASSUME NEW m \in Maps, NEW S, BitsOf(m)' = S,
         \A o \in Maps : o # m => BitsOf(o)' = BitsOf(o)
  PROVE  Sets' = [Sets EXCEPT ![m] = S]
BY DEF Sets

\* A position has its bit in its word.
LEMMA PositionBit ==
  ASSUME IInv, NEW m \in Maps, NEW pos \in Nat, pos <= size[m]
  PROVE  /\ WordIdx(pos) \in Indices(size[m]) /\ PosInWord(pos) \in Word
         /\ At(WordIdx(pos), {PosInWord(pos)}) = {pos}
         /\ pos \in BitsOf(m) <=> PosInWord(pos) \in words[m][WordIdx(pos)]
<1> DEFINE i == WordIdx(pos)
           r == PosInWord(pos)
<1>1. size[m] \in Nat
  BY DEF IInv, Typed
<1>2. i \in Indices(size[m]) /\ r \in Word /\ i * WordBits + r = pos
  BY <1>1, PositionIsInWord
<1> HIDE DEF i, r
<1>3. At(i, {r}) = {pos}
  BY <1>2 DEF At, Place
<1>4. BitsOf(m) \cap {pos} = At(i, words[m][i] \cap {r})
  BY <1>2, <1>3, BitsAt
<1>5. CASE r \in words[m][i]
  <2>1. words[m][i] \cap {r} = {r}
    BY <1>5
  <2> QED BY <1>2, <1>3, <1>4, <1>5, <2>1 DEF i, r
<1>6. CASE r \notin words[m][i]
  <2>1. words[m][i] \cap {r} = {} /\ At(i, {}) = {}
    BY <1>6 DEF At
  <2>2. pos \notin BitsOf(m)
    BY <1>4, <2>1
  <2> QED BY <1>2, <1>3, <1>6, <2>2 DEF i, r
<1> QED BY <1>5, <1>6

LEMMA BitsInRange ==
  ASSUME IInv, PaddingClear, NEW m \in Maps
  PROVE  BitsOf(m) \subseteq 0 .. size[m] - 1 /\ size[m] \in Nat
<1>1. size[m] \in Nat
  BY DEF IInv, Typed
<1>2. ASSUME NEW i \in Indices(size[m]), NEW b \in words[m][i]
      PROVE  i * WordBits + b \in 0 .. size[m] - 1
  <2>1. i \in Nat /\ b \in Nat
    BY <1>1, IndexIsNat DEF IInv, WordsTyped, Word
  <2>2. i * WordBits + b < size[m]
    BY DEF PaddingClear
  <2>3. PICK k \in Nat : k = i * WordBits
    BY <2>1, WidthType
  <2> QED BY <1>1, <2>1, <2>2, <2>3
<1> QED BY <1>1, <1>2 DEF BitsOf

\* count() counts the positions that are set.
LEMMA CountIs ==
  ASSUME IInv, NEW m \in Maps
  PROVE  CountOf(m) = Cardinality(BitsOf(m))
<1> DEFINE B == UNION {{i} \X words[m][i] : i \in Indices(size[m])}
           f == [x \in B |-> Place(x[1], x[2])]
<1>1. size[m] \in Nat /\ \A j \in Indices(size[m]) : words[m][j] \in SUBSET Word
  BY DEF IInv, Typed, WordsTyped
<1>2. \A j \in Indices(size[m]) : j \in Nat
  BY <1>1, IndexIsNat
<1>3. \A x \in B : /\ x = <<x[1], x[2]>> /\ x[1] \in Indices(size[m])
                   /\ x[2] \in words[m][x[1]] /\ x[2] \in Word
  BY <1>1
<1>4. IsFiniteSet(B)
  <2>1. PICK q \in Nat : Indices(size[m]) = 0 .. q
    <3>1. PICK q : size[m] \div WordBits = q
      OBVIOUS
    <3> QED BY <1>1, <3>1, IndicesAre
  <2>2. IsFiniteSet(0 .. q) /\ IsFiniteSet(Word)
    BY <2>1, WidthType, FS_Interval DEF Word
  <2>3. IsFiniteSet((0 .. q) \X Word)
    BY <2>2, FS_Product
  <2>4. B \in SUBSET ((0 .. q) \X Word)
    BY <1>3, <2>1
  <2> HIDE DEF B
  <2> QED BY <2>3, <2>4, FS_Subset
<1>5. \A x \in B : f[x] \in BitsOf(m)
  BY <1>3 DEF BitsOf, Place
<1>6. ASSUME NEW x \in B, NEW y \in B, f[x] = f[y] PROVE x = y
  <2>1. Place(x[1], x[2]) = Place(y[1], y[2])
    BY <1>6
  <2>2. /\ x = <<x[1], x[2]>> /\ y = <<y[1], y[2]>>
        /\ x[1] \in Nat /\ y[1] \in Nat /\ x[2] \in Word /\ y[2] \in Word
    BY <1>2, <1>3
  <2>3. x[1] = y[1] /\ x[2] = y[2]
    <3> HIDE DEF B, f
    <3> QED BY <2>1, <2>2, PlaceIsUnique
  <2> QED BY <2>2, <2>3
<1>7. ASSUME NEW p \in BitsOf(m) PROVE \E x \in B : f[x] = p
  <2>1. PICK i \in Indices(size[m]) : \E b \in words[m][i] : p = i * WordBits + b
    BY DEF BitsOf
  <2>2. PICK b \in words[m][i] : p = i * WordBits + b
    BY <2>1
  <2>3. <<i, b>> \in B
    OBVIOUS
  <2> QED BY <2>2, <2>3 DEF Place
<1>8. f \in [B -> BitsOf(m)]
  BY <1>5
<1>9. f \in Bijection(B, BitsOf(m))
  <2> HIDE DEF B, f
  <2> QED BY <1>6, <1>7, <1>8, Fun_IsBij
<1>10. ExistsBijection(B, BitsOf(m))
  <2> HIDE DEF B, f
  <2> QED BY <1>9 DEF ExistsBijection
<1>11. Cardinality(B) = Cardinality(BitsOf(m))
  <2> HIDE DEF B, f
  <2> QED BY <1>4, <1>10, FS_Bijection
<1> QED BY <1>11 DEF CountOf

------------------------------------------------------------------------------
(* Steps that take effect at once *)

Busy == [t \in Threads |->
           IF at[t] = Idle THEN Idle
           ELSE [op |-> at[t].op, map |-> at[t].map, from |-> at[t].from, todo |-> Todo(t)]]

LEMMA BusyKept == UNCHANGED <<size, at>> => Busy' = Busy
BY DEF Busy, Todo, CommonSize

LEMMA SimpleMaps ==
  ASSUME NEW m \in Maps, Abstract!Simple(m), UNCHANGED <<size, at>>
  PROVE  Abstract!Next
BY BusyKept DEF Abstract!Next, Busy

LEMMA BitMaps ==
  ASSUME Fit, IInv, PaddingClear, NEW m \in Maps, NEW pos \in Positions,
         SetBit(m, pos) \/ ClearBit(m, pos)
  PROVE  Abstract!Next
<1>1. pos \in Nat /\ size[m] \in Nat
  BY PositionsAssumption DEF IInv, Typed
<1>2. UNCHANGED <<size, at>> /\ answer' = Silent
  BY DEF SetBit, ClearBit, Atomic
<1>3. Sets[m] = BitsOf(m)
  BY DEF Sets
<1>4. CASE ~IsValidPos(m, pos)
  <2>1. words' = words /\ ~(pos < size[m])
    BY <1>4 DEF SetBit, ClearBit, IsValidPos
  <2>2. \A o \in Maps : BitsOf(o)' = BitsOf(o)
    BY <1>2, <2>1 DEF BitsOf
  <2>3. pos \notin 0 .. size[m] - 1 /\ pos \notin BitsOf(m)
    BY <1>1, <2>1, BitsInRange
  <2>4. Sets' = [Sets EXCEPT ![m] = BitsOf(m)]
    BY <2>2, SetsChange
  <2>5. Abstract!Set(m, pos)
    BY <1>2, <1>3, <2>3, <2>4
    DEF Abstract!Set, Abstract!Change, Abstract!All, Abstract!Silent, Silent, Sets
  <2> QED BY <1>2, <2>5, SimpleMaps DEF Abstract!Simple
<1>5. CASE IsValidPos(m, pos)
  <2> DEFINE i == WordIdx(pos)
             r == PosInWord(pos)
  <2>1. pos < size[m] /\ pos <= size[m]
    BY <1>1, <1>5 DEF IsValidPos
  <2>2. i \in Indices(size[m]) /\ r \in Word /\ At(i, {r}) = {pos}
    BY <1>1, <2>1, PositionBit
  <2>3. IntBit(r) = {r}
    BY <2>2, IntBitType DEF Fit, PosInWord
  <2>4. CASE SetBit(m, pos)
    <3>1. Put(m, i, words[m][i] \cup {r})
      BY <1>5, <2>3, <2>4 DEF SetBit
    <3>2. BitsOf(m)' = BitsOf(m) \cup {pos} /\ \A o \in Maps : o # m => BitsOf(o)' = BitsOf(o)
      <4> HIDE DEF i, r
      <4> QED BY <1>2, <2>2, <3>1, PutBits
    <3>3. Sets' = [Sets EXCEPT ![m] = BitsOf(m) \cup {pos}]
      BY <3>2, SetsChange
    <3>4. pos \in 0 .. size[m] - 1
      BY <1>1, <2>1
    <3>5. Abstract!Set(m, pos)
      BY <1>2, <1>3, <3>3, <3>4
      DEF Abstract!Set, Abstract!Change, Abstract!All, Abstract!Silent, Silent, Sets
    <3> QED BY <1>2, <3>5, SimpleMaps DEF Abstract!Simple
  <2>5. CASE ClearBit(m, pos)
    <3>1. Put(m, i, words[m][i] \ {r})
      BY <1>5, <2>3, <2>5 DEF ClearBit
    <3>2. BitsOf(m)' = BitsOf(m) \ {pos} /\ \A o \in Maps : o # m => BitsOf(o)' = BitsOf(o)
      <4> HIDE DEF i, r
      <4> QED BY <1>2, <2>2, <3>1, PutBits
    <3>3. Sets' = [Sets EXCEPT ![m] = BitsOf(m) \ {pos}]
      BY <3>2, SetsChange
    <3>4. Abstract!Clear(m, pos)
      BY <1>1, <1>2, <1>3, <2>1, <3>3
      DEF Abstract!Clear, Abstract!Change, Abstract!Silent, Silent, Sets
    <3> QED BY <1>2, <3>4, SimpleMaps DEF Abstract!Simple
  <2> QED BY <2>4, <2>5
<1> QED BY <1>4, <1>5

LEMMA ClearAllMaps == ASSUME IInv, NEW m \in Maps, ClearAll(m) PROVE Abstract!Next
<1>1. /\ UNCHANGED <<size, at>> /\ answer' = Silent
      /\ words' = [words EXCEPT ![m] = [i \in Indices(size[m]) |-> {}]]
  BY DEF ClearAll, Atomic
<1>2. /\ words'[m] = [i \in Indices(size[m]) |-> {}]
      /\ \A o \in Maps : o # m => words'[o] = words[o]
  BY <1>1 DEF IInv, Typed
<1>3. BitsOf(m)' = {} /\ \A o \in Maps : o # m => BitsOf(o)' = BitsOf(o)
  BY <1>1, <1>2 DEF BitsOf
<1>4. Sets' = [Sets EXCEPT ![m] = {}]
  BY <1>3, SetsChange
<1>5. Abstract!ClearAll(m)
  BY <1>1, <1>4 DEF Abstract!ClearAll, Abstract!Change, Abstract!Silent, Silent, Sets
<1> QED BY <1>1, <1>5, SimpleMaps DEF Abstract!Simple

LEMMA CardinalityIs == \A S : Abstract!Cardinality(S) = Cardinality(S)
BY DEF Abstract!Cardinality, Cardinality

\* Questions have the answers that sets give.
LEMMA AskMaps ==
  ASSUME Fit, IInv, PaddingClear, NEW m \in Maps,
         \/ Count(m) \/ IsZero(m) \/ IsFull(m)
         \/ \E pos \in Positions : IsSet(m, pos) \/ IsClear(m, pos)
  PROVE  Abstract!Next
<1>1. UNCHANGED <<size, at, words>>
  BY DEF Count, IsZero, IsFull, IsSet, IsClear, Ask, Atomic
<1>2. Sets' = Sets /\ Sets[m] = BitsOf(m)
  BY <1>1 DEF Sets, BitsOf
<1>3. \A r : answer' = r => Abstract!Reply(r)
  BY <1>1, <1>2 DEF Abstract!Reply, Sets
<1>4. /\ BitsOf(m) \subseteq 0 .. size[m] - 1 /\ size[m] \in Nat
      /\ CountOf(m) = Cardinality(BitsOf(m))
  BY BitsInRange, CountIs
<1>5. CASE Count(m)
  <2>1. answer' = [fn |-> "count", map |-> m, is |-> Cardinality(Sets[m])]
    BY <1>2, <1>4, <1>5 DEF Count, Ask
  <2>2. answer' = [fn |-> "count", map |-> m, is |-> Abstract!Cardinality(Sets[m])]
    BY <2>1, CardinalityIs
  <2>3. Abstract!Simple(m)
    BY <1>3, <2>2 DEF Abstract!Simple, Sets
  <2> QED BY <1>1, <2>3, SimpleMaps
<1>6. CASE IsZero(m)
  <2>1. (\A i \in Indices(size[m]) : words[m][i] = {}) <=> BitsOf(m) = {}
    <3>1. ASSUME NEW i \in Indices(size[m]), NEW b \in words[m][i] PROVE BitsOf(m) # {}
      <4>1. Place(i, b) \in At(i, words[m][i])
        BY DEF At
      <4> QED BY <4>1, BitsOfIs
    <3>2. ASSUME NEW p \in BitsOf(m)
          PROVE  \E i \in Indices(size[m]) : words[m][i] # {}
      <4>1. PICK i \in Indices(size[m]) : p \in At(i, words[m][i])
        BY BitsOfIs
      <4> QED BY <4>1 DEF At
    <3> QED BY <3>1, <3>2
  <2>2. answer' = [fn |-> "isZero", map |-> m, holds |-> Sets[m] = {}]
    BY <1>2, <1>6, <2>1 DEF IsZero, Ask
  <2>3. Abstract!Simple(m)
    BY <1>3, <2>2 DEF Abstract!Simple, Sets
  <2> QED BY <1>1, <2>3, SimpleMaps
<1>7. CASE IsFull(m)
  <2>1. IsFiniteSet(0 .. size[m] - 1) /\ Cardinality(0 .. size[m] - 1) = size[m]
    <3>1. PICK n \in Nat : n = size[m]
      BY <1>4
    <3>2. PICK k \in Int : k = n - 1
      BY <3>1
    <3>3. IsFiniteSet(0 .. k) /\ Cardinality(0 .. k) = IF 0 > k THEN 0 ELSE k - 0 + 1
      BY FS_Interval
    <3> QED BY <3>1, <3>2, <3>3
  <2>2. CountOf(m) = size[m] <=> BitsOf(m) = 0 .. size[m] - 1
    BY <1>4, <2>1, FS_Subset
  <2>3. answer' = [fn |-> "isFull", map |-> m, holds |-> Sets[m] = 0 .. size[m] - 1]
    BY <1>2, <1>7, <2>2 DEF IsFull, Ask
  <2>4. Abstract!Simple(m)
    BY <1>3, <2>3 DEF Abstract!Simple, Abstract!All, Sets
  <2> QED BY <1>1, <2>4, SimpleMaps
<1>8. ASSUME NEW pos \in Positions, IsSet(m, pos) \/ IsClear(m, pos) PROVE Abstract!Next
  <2>1. pos \in Nat
    BY PositionsAssumption
  <2>2. BitIsSet(m, pos) <=> pos \in BitsOf(m)
    <3>1. CASE pos <= size[m]
      <4>1. /\ PosInWord(pos) \in Word
            /\ pos \in BitsOf(m) <=> PosInWord(pos) \in words[m][WordIdx(pos)]
        BY <2>1, <3>1, PositionBit
      <4>2. IntBit(PosInWord(pos)) = {PosInWord(pos)}
        BY <4>1, IntBitType DEF Fit, PosInWord
      <4>3. words[m][WordIdx(pos)] \cap IntBit(PosInWord(pos)) # {} <=> pos \in BitsOf(m)
        BY <4>1, <4>2
      <4> QED BY <3>1, <4>3 DEF BitIsSet
    <3>2. CASE ~(pos <= size[m])
      <4>1. pos \notin BitsOf(m)
        BY <1>4, <2>1, <3>2
      <4> QED BY <3>2, <4>1 DEF BitIsSet
    <3> QED BY <3>1, <3>2
  <2>3. \/ answer' = [fn |-> "isSet", map |-> m, pos |-> pos, holds |-> pos \in Sets[m]]
        \/ answer' = [fn |-> "isClear", map |-> m, pos |-> pos, holds |-> pos \notin Sets[m]]
    <3>1. CASE IsSet(m, pos)
      <4>1. BitIsSet(m, pos) \in BOOLEAN
        BY DEF BitIsSet
      <4>2. BitIsSet(m, pos) <=> pos \in Sets[m]
        BY <1>2, <2>2
      <4> QED BY <3>1, <4>1, <4>2 DEF IsSet, Ask
    <3>2. CASE IsClear(m, pos)
      BY <1>2, <2>2, <3>2 DEF IsClear, Ask
    <3> QED BY <1>8, <3>1, <3>2
  <2>4. Abstract!Simple(m)
    BY <1>3, <2>3 DEF Abstract!Simple, Sets
  <2> QED BY <1>1, <2>4, SimpleMaps
<1> QED BY <1>5, <1>6, <1>7, <1>8

------------------------------------------------------------------------------
(* Operations on whole bitmaps, word by word *)

LEMMA BeginMaps ==
  ASSUME IInv, NEW t \in Threads, NEW op \in {"all", "set", "clear"},
         NEW m \in Maps, NEW o \in Maps, op = "all" => o = m, at[t] = Idle,
         at' = [at EXCEPT ![t] = [op |-> op, map |-> m, from |-> o, i |-> 0]],
         UNCHANGED <<size, words>>, answer' = Silent
  PROVE  Abstract!Next
<1> DEFINE b == [op |-> op, map |-> m, from |-> o, todo |-> Abstract!Common(m, o)]
<1>1. size[m] \in Nat /\ size[o] \in Nat /\ DOMAIN at = Threads
  BY DEF IInv, Typed
<1>2. Sets' = Sets
  BY DEF Sets, BitsOf
<1>3. Busy[t] = Idle
  BY DEF Busy
<1>4. at'[t] = [op |-> op, map |-> m, from |-> o, i |-> 0] /\ at'[t] # Idle
  BY <1>1 DEF Idle
<1>5. Todo(t)' = Abstract!Common(m, o)
  <2>1. Todo(t)' = {p \in 0 .. CommonSize(m, o) - 1 : p >= 0 * WordBits}
    BY <1>4 DEF Todo, CommonSize
  <2>2. 0 * WordBits = 0
    BY WidthType
  <2> QED BY <1>1, <2>1, <2>2 DEF CommonSize, Abstract!Common, Abstract!All
<1>6. Busy'[t] = b
  BY <1>4, <1>5 DEF Busy
<1>7. \A u \in Threads : u # t => Busy'[u] = Busy[u]
  BY <1>1 DEF Busy, Todo, CommonSize
<1>8. Busy' = [Busy EXCEPT ![t] = b]
  <2> HIDE DEF b
  <2> QED BY <1>6, <1>7 DEF Busy
<1>9. Abstract!Begin(t, op, m, o)
  BY <1>2, <1>3, <1>8 DEF Abstract!Begin, Abstract!Idle, Abstract!Silent, Idle, Silent, Sets, Busy
<1> QED BY <1>9 DEF Abstract!Next

\* What the part of an operation does to the bitmap, for an operation of each kind.
AppliedTo(t, part) ==
  CASE at[t].op = "all" -> BitsOf(at[t].map) \cup part
    [] at[t].op = "set" -> BitsOf(at[t].map) \cup (BitsOf(at[t].from) \cap part)
    [] at[t].op = "clear" -> BitsOf(at[t].map) \ (BitsOf(at[t].from) \cap part)

\* A step that handles part of what is left, and either goes on or is done with it.
LEMMA PortionMaps ==
  ASSUME IInv, NEW t \in Threads, at[t].op # "none", NEW part \in SUBSET Todo(t),
         NEW m, m = at[t].map, BitsOf(m)' = AppliedTo(t, part),
         \A o \in Maps : o # m => BitsOf(o)' = BitsOf(o),
         size' = size, answer' = Silent,
         \/ part = Todo(t) /\ at' = [at EXCEPT ![t] = Idle]
         \/ /\ at' = [at EXCEPT ![t] = [@ EXCEPT !.i = at[t].i + 1]]
            /\ Todo(t)' = Todo(t) \ part
  PROVE  Abstract!Next
<1> DEFINE R == [op : {"all", "set", "clear"}, map : Maps, from : Maps, todo : SUBSET Int]
           b == [op |-> at[t].op, map |-> at[t].map, from |-> at[t].from, todo |-> Todo(t)]
<1>1. /\ at[t] # Idle /\ at[t].op \in {"all", "set", "clear"}
      /\ at[t].map \in Maps /\ at[t].from \in Maps
      /\ at[t] \in [op : {"all", "set", "clear"}, map : Maps, from : Maps, i : Nat]
      /\ DOMAIN at = Threads
  BY PlaceFacts DEF IInv, Typed, Places, Idle
<1>2. Busy[t] = b /\ b \in R
  <2>1. Todo(t) \in SUBSET Int
    BY DEF Todo
  <2> QED BY <1>1, <2>1 DEF Busy
<1>3. Busy[t] # Idle /\ Busy[t].todo = Todo(t) /\ Busy[t].map = at[t].map
      /\ Busy[t].op = at[t].op /\ Busy[t].from = at[t].from
  BY <1>1, <1>2 DEF Idle
<1>4. Sets' = [Sets EXCEPT ![m] = AppliedTo(t, part)]
  BY <1>1, SetsChange
<1>5. Abstract!Applied(Busy[t], part) = AppliedTo(t, part)
  BY <1>1, <1>3 DEF Abstract!Applied, AppliedTo, Sets
<1>6. Abstract!Change(Busy[t].map, Abstract!Applied(Busy[t], part))
  BY <1>3, <1>4, <1>5 DEF Abstract!Change, Abstract!Silent, Silent, Sets
<1>7. \A u \in Threads : u # t => Busy'[u] = Busy[u]
  BY <1>1 DEF Busy, Todo, CommonSize
<1>8. CASE part = Todo(t) /\ at' = [at EXCEPT ![t] = Idle]
  <2>1. Busy'[t] = Idle
    BY <1>1, <1>8 DEF Busy
  <2>2. Busy' = [Busy EXCEPT ![t] = Idle]
    BY <1>7, <2>1 DEF Busy
  <2>3. Abstract!Portion(t)
    BY <1>3, <1>6, <1>8, <2>2 DEF Abstract!Portion, Abstract!Idle, Idle, Busy
  <2> QED BY <2>3 DEF Abstract!Next
<1>9. CASE /\ at' = [at EXCEPT ![t] = [@ EXCEPT !.i = at[t].i + 1]]
           /\ Todo(t)' = Todo(t) \ part
  <2> DEFINE c == [Busy[t] EXCEPT !.todo = Busy[t].todo \ part]
             d == [op |-> at[t].op, map |-> at[t].map, from |-> at[t].from,
                   todo |-> Todo(t) \ part]
  <2>1. at'[t].op = at[t].op /\ at'[t].map = at[t].map /\ at'[t].from = at[t].from
        /\ at'[t].op # "none"
    BY <1>1, <1>9
  <2>2. at'[t] # Idle
    BY <2>1 DEF Idle
  <2>3. Busy'[t] = d
    BY <1>9, <2>1, <2>2 DEF Busy
  <2>4. c = d
    <3>1. Todo(t) \ part \in SUBSET Int
      BY DEF Todo
    <3>2. c \in R /\ d \in R
      BY <1>1, <1>2, <1>3, <3>1
    <3>3. c.op = d.op /\ c.map = d.map /\ c.from = d.from /\ c.todo = d.todo
      BY <1>2, <1>3
    <3> HIDE DEF c, d
    <3> QED BY <3>2, <3>3
  <2>5. Busy' = [Busy EXCEPT ![t] = c]
    <3> HIDE DEF c, d
    <3> QED BY <1>7, <2>3, <2>4 DEF Busy
  <2>6. Abstract!Portion(t)
    BY <1>3, <1>6, <2>5 DEF Abstract!Portion, Abstract!Idle, Idle, Busy
  <2> QED BY <2>6 DEF Abstract!Next
<1> QED BY <1>8, <1>9

\* The words before the last one are whole, and what is left after one of them.
LEMMA WholeWordIsDone ==
  ASSUME IInv, NEW t \in Threads, at[t].op # "none", ~IsLast(at[t].i, Reach(at[t])),
         at' = [at EXCEPT ![t] = [@ EXCEPT !.i = at[t].i + 1]], size' = size
  PROVE  /\ At(at[t].i, Word) \subseteq Todo(t)
         /\ Todo(t)' = Todo(t) \ At(at[t].i, Word)
         /\ at[t].op = "all" => AllSetMask(size[at[t].map], at[t].i) = Word
<1> PICK i \in Nat : i = at[t].i
  BY PlaceFacts
<1>1. /\ at[t].map \in Maps /\ at[t].from \in Maps
      /\ at[t] \in [op : {"all", "set", "clear"}, map : Maps, from : Maps, i : Nat]
      /\ Reach(at[t]) \in Nat /\ i \in Indices(Reach(at[t]))
      /\ Reach(at[t]) = CommonSize(at[t].map, at[t].from)
      /\ at[t].op = "all" => at[t].from = at[t].map
  BY PlaceFacts DEF IInv, Typed, Places, Idle
<1> PICK n \in Nat : n = Reach(at[t])
  BY <1>1
<1>2. PICK q \in Nat, r \in 0 .. WordBits - 1, l \in Nat :
        n \div WordBits = q /\ n % WordBits = r /\ q * WordBits = l /\ n = l + r
  BY Euclid, Zenon
<1>3. i + 1 <= q
  <2>1. Indices(n) = 0 .. q /\ NWords(n) = q + 1
    BY <1>2, IndicesAre
  <2> QED BY <1>1, <1>2, <2>1 DEF IsLast
<1>4. PICK w \in Nat : w = WordBits /\ w > 0
  BY WidthType
<1>5. PICK k \in Nat : k = i * WordBits
  BY <1>4
<1>6. (i + 1) * WordBits = k + w
  BY <1>4, <1>5
<1>7. k + w <= l
  <2>1. PICK j \in Nat : j = i + 1 /\ j <= q
    BY <1>3
  <2>2. j * WordBits <= q * WordBits
    BY <1>2, <2>1, WidthType, TimesMono
  <2> QED BY <1>2, <1>6, <2>1, <2>2
<1>8. At(i, Word) = {p \in Nat : k <= p /\ p < k + w}
  <2>1. At(i, Word) = {k + b : b \in 0 .. w - 1}
    BY <1>4, <1>5 DEF At, Place, Word
  <2>2. ASSUME NEW p \in Nat, k <= p, p < k + w PROVE p \in {k + b : b \in 0 .. w - 1}
    <3>1. p - k \in 0 .. w - 1 /\ p = k + (p - k)
      BY <1>4, <2>2
    <3> QED BY <3>1
  <2>3. ASSUME NEW b \in 0 .. w - 1 PROVE k + b \in {p \in Nat : k <= p /\ p < k + w}
    BY <1>4
  <2> QED BY <2>1, <2>2, <2>3
<1>9. Todo(t) = {p \in 0 .. n - 1 : p >= k}
  BY <1>1, <1>5 DEF Todo
<1>10. Todo(t)' = {p \in 0 .. n - 1 : p >= k + w}
  <2>1. at'[t].map = at[t].map /\ at'[t].from = at[t].from /\ at'[t].i = i + 1
    BY <1>1 DEF IInv, Typed
  <2>2. CommonSize(at[t].map, at[t].from)' = n
    BY <1>1, <2>1 DEF CommonSize
  <2> QED BY <1>6, <2>1, <2>2 DEF Todo
<1>11. ASSUME at[t].op = "all" PROVE AllSetMask(size[at[t].map], i) = Word
  <2>1. n = size[at[t].map]
    BY <1>1, <1>11 DEF CommonSize, IInv, Typed
  <2>2. ~(n - k < w)
    BY <1>2, <1>4, <1>7
  <2> QED BY <1>4, <1>5, <2>1, <2>2 DEF AllSetMask
<1>12. k + w <= n
  BY <1>2, <1>7
<1>13. At(i, Word) \subseteq Todo(t)
  BY <1>4, <1>8, <1>9, <1>12
<1>14. \A p : p \in Todo(t)' <=> p \in Todo(t) \ At(i, Word)
  BY <1>4, <1>8, <1>9, <1>10
<1> QED BY <1>11, <1>13, <1>14

\* What set() fills in the last word is all that is left.
LEMMA LastWordIsRest ==
  ASSUME IInv, NEW t \in Threads, at[t].op = "all", IsLast(at[t].i, size[at[t].map])
  PROVE  At(at[t].i, AllSetMask(size[at[t].map], at[t].i)) = Todo(t)
<1> PICK i \in Nat : i = at[t].i
  BY PlaceFacts
<1>1. at[t].map \in Maps /\ at[t].from = at[t].map /\ size[at[t].map] \in Nat
  BY PlaceFacts DEF IInv, Typed, Places, Idle
<1> PICK n \in Nat : n = size[at[t].map]
  BY <1>1
<1>2. PICK q \in Nat, r \in 0 .. WordBits - 1, k \in Nat :
        n \div WordBits = q /\ n % WordBits = r /\ q * WordBits = k /\ n = k + r
  BY Euclid, Zenon
<1>3. i = q
  <2>1. Indices(n) = 0 .. q /\ NWords(n) = q + 1
    BY <1>2, IndicesAre
  <2> QED BY <1>2, <2>1 DEF IsLast
<1>4. AllSetMask(n, i) = 0 .. r - 1
  <2>1. n - i * WordBits = r /\ r < WordBits
    BY <1>2, <1>3, WidthType
  <2> QED BY <2>1 DEF AllSetMask, NBitMask
<1>5. At(i, AllSetMask(n, i)) = {k + b : b \in 0 .. r - 1}
  BY <1>2, <1>3, <1>4 DEF At, Place
<1>6. Todo(t) = {p \in 0 .. n - 1 : p >= k}
  BY <1>1, <1>2, <1>3 DEF Todo, CommonSize
<1>7. ASSUME NEW p \in Todo(t) PROVE p \in {k + b : b \in 0 .. r - 1}
  <2>1. p - k \in 0 .. r - 1 /\ p = k + (p - k)
    BY <1>2, <1>6
  <2> QED BY <2>1
<1>8. ASSUME NEW b \in 0 .. r - 1 PROVE k + b \in Todo(t)
  BY <1>2, <1>6
<1> QED BY <1>5, <1>7, <1>8

LEMMA SetWordMaps == ASSUME IInv, NEW t \in Threads, SetWord(t) PROVE Abstract!Next
<1>1. PICK m : m = at[t].map
  OBVIOUS
<1>2. PICK i : i = at[t].i
  OBVIOUS
<1>3. PICK mask : mask = AllSetMask(size[m], i)
  OBVIOUS
<1>4. /\ at[t].op = "all" /\ Put(m, i, words[m][i] \cup mask)
      /\ at' = [at EXCEPT ![t] = IF IsLast(i, size[m]) THEN Idle ELSE [@ EXCEPT !.i = i + 1]]
      /\ answer' = Silent /\ size' = size
  BY <1>1, <1>2, <1>3 DEF SetWord
<1>5. /\ m \in Maps /\ i \in Indices(size[m]) /\ size[m] \in Nat
      /\ Reach(at[t]) = size[m]
  BY <1>1, <1>2, <1>4, PlaceFacts DEF IInv, Typed, Places, Idle, CommonSize
<1>6. mask \in SUBSET Word
  BY <1>3, <1>5, AllSetMaskFits
<1>7. /\ BitsOf(m)' = BitsOf(m) \cup At(i, mask)
      /\ \A o \in Maps : o # m => BitsOf(o)' = BitsOf(o)
  BY <1>4, <1>5, <1>6, PutBits
<1>8. BitsOf(m)' = AppliedTo(t, At(i, mask))
  BY <1>1, <1>4, <1>7 DEF AppliedTo
<1>9. CASE IsLast(i, size[m])
  <2>1. At(i, mask) = Todo(t)
    BY <1>1, <1>2, <1>3, <1>4, <1>9, LastWordIsRest
  <2>2. at' = [at EXCEPT ![t] = Idle]
    BY <1>4, <1>9
  <2> QED BY <1>1, <1>4, <1>7, <1>8, <2>1, <2>2, PortionMaps
<1>10. CASE ~IsLast(i, size[m])
  <2>1. at' = [at EXCEPT ![t] = [@ EXCEPT !.i = at[t].i + 1]]
    BY <1>2, <1>4, <1>10
  <2>2. /\ At(i, mask) \subseteq Todo(t) /\ Todo(t)' = Todo(t) \ At(i, mask)
    BY <1>1, <1>2, <1>3, <1>4, <1>5, <1>10, <2>1, WholeWordIsDone
  <2> QED BY <1>1, <1>4, <1>7, <1>8, <2>1, <2>2, PortionMaps
<1> QED BY <1>9, <1>10

LEMMA MergeWordMaps == ASSUME IInv, NEW t \in Threads, MergeWord(t) PROVE Abstract!Next
<1>1. PICK m : m = at[t].map
  OBVIOUS
<1>2. PICK i : i = at[t].i
  OBVIOUS
<1>3. PICK o : o = at[t].from
  OBVIOUS
<1>4. /\ at[t].op \in {"set", "clear"} /\ ~IsLast(i, CommonSize(m, o))
      /\ Put(m, i, Op(at[t].op, words[m][i], words[o][i]))
      /\ at' = [at EXCEPT ![t] = [@ EXCEPT !.i = at[t].i + 1]]
      /\ answer' = Silent /\ size' = size
  BY <1>1, <1>2, <1>3 DEF MergeWord, Merging
<1>5. /\ m \in Maps /\ o \in Maps /\ i \in Indices(size[m]) /\ i \in Indices(size[o])
      /\ Reach(at[t]) = CommonSize(m, o)
  BY <1>1, <1>2, <1>3, <1>4, PlaceFacts
<1>6. words[o][i] \in SUBSET Word
  BY <1>5 DEF IInv, WordsTyped
<1>7. At(i, words[o][i]) = BitsOf(o) \cap At(i, Word)
  <2>1. words[o][i] \cap Word = words[o][i]
    BY <1>6
  <2> QED BY <1>5, <2>1, BitsAt
<1>8. /\ \A p \in Maps : p # m => BitsOf(p)' = BitsOf(p)
      /\ at[t].op = "set" => BitsOf(m)' = BitsOf(m) \cup At(i, words[o][i])
      /\ at[t].op = "clear" => BitsOf(m)' = BitsOf(m) \ At(i, words[o][i])
  BY <1>4, <1>5, <1>6, PutBits DEF Op
<1>9. BitsOf(m)' = AppliedTo(t, At(i, Word))
  BY <1>1, <1>3, <1>4, <1>7, <1>8 DEF AppliedTo
<1>10. At(i, Word) \subseteq Todo(t) /\ Todo(t)' = Todo(t) \ At(i, Word)
  BY <1>2, <1>4, <1>5, WholeWordIsDone
<1> QED BY <1>1, <1>4, <1>8, <1>9, <1>10, PortionMaps

\* The last word of a merge is the first of the bitmaps, or there is nothing left.
LEMMA MergeLastMaps ==
  ASSUME WholeMerges, IInv, MergesAllowed, NEW t \in Threads, MergeLast(t)
  PROVE  Abstract!Next
<1>1. PICK m : m = at[t].map
  OBVIOUS
<1>2. PICK o : o = at[t].from
  OBVIOUS
<1>3. PICK sz : sz = CommonSize(m, o)
  OBVIOUS
<1>4. PICK rest : rest = sz - at[t].i * WordBits
  OBVIOUS
<1>5. PICK bits : bits = NBitMask(PosInWord(rest)) \cap words[o][WordIdx(rest)]
  OBVIOUS
<1>6. /\ at[t].op \in {"set", "clear"} /\ Merging(t) /\ IsLast(at[t].i, sz)
      /\ Put(m, WordIdx(rest), Op(at[t].op, words[m][WordIdx(rest)], bits))
      /\ at' = [at EXCEPT ![t] = Idle]
      /\ answer' = Silent /\ size' = size
  BY <1>1, <1>2, <1>3, <1>4, <1>5 DEF MergeLast, Merging
<1>7. /\ m \in Maps /\ o \in Maps /\ size[m] \in Nat /\ size[o] \in Nat
      /\ sz \in Nat /\ at[t].i \in Indices(sz) /\ at[t].i \in Nat
  BY <1>1, <1>2, <1>3, <1>6, PlaceFacts DEF IInv, Typed
<1>8. /\ rest \in Nat /\ rest <= sz /\ rest < WordBits
      /\ WordIdx(rest) = 0 /\ PosInWord(rest) = rest
  BY <1>4, <1>6, <1>7, RestIsInFirstWord
<1>9. 0 \in Indices(size[m]) /\ 0 \in Indices(size[o])
  <2>1. \A n \in Nat : 0 \in Indices(n)
    <3>1. ASSUME NEW n \in Nat PROVE 0 \in Indices(n)
      <4>1. PICK q : n \div WordBits = q
        OBVIOUS
      <4> QED BY <4>1, IndicesAre
    <3> QED BY <3>1
  <2> QED BY <1>7, <2>1
<1>10. NBitMask(rest) \in SUBSET Word /\ bits \in SUBSET Word
  <2>1. NBitMask(rest) \in SUBSET Word
    BY <1>8, WidthType DEF NBitMask, Word
  <2> QED BY <1>5, <1>8, <2>1
<1>11. At(0, bits) = BitsOf(o) \cap At(0, NBitMask(rest))
  <2>1. bits = words[o][0] \cap NBitMask(rest)
    BY <1>5, <1>8
  <2> QED BY <1>7, <1>9, <1>10, <2>1, BitsAt
<1>12. /\ \A p \in Maps : p # m => BitsOf(p)' = BitsOf(p)
       /\ at[t].op = "set" => BitsOf(m)' = BitsOf(m) \cup At(0, bits)
       /\ at[t].op = "clear" => BitsOf(m)' = BitsOf(m) \ At(0, bits)
  BY <1>6, <1>7, <1>8, <1>9, <1>10, PutBits DEF Op
<1>13. At(0, NBitMask(rest)) = 0 .. rest - 1
  <2>1. 0 * WordBits = 0
    BY WidthType
  <2>2. At(0, NBitMask(rest)) = {0 + b : b \in 0 .. rest - 1}
    BY <2>1 DEF At, Place, NBitMask
  <2>3. \A b \in 0 .. rest - 1 : 0 + b = b
    BY <1>8
  <2> QED BY <2>2, <2>3
<1>14. Todo(t) = 0 .. rest - 1
  <2>1. Todo(t) = {p \in 0 .. sz - 1 : p >= at[t].i * WordBits}
    BY <1>1, <1>2, <1>3 DEF Todo
  <2>2. <<size[m], size[o]>> \in Merges
    BY <1>1, <1>2, <1>6 DEF MergesAllowed
  <2>3. sz < WordBits \/ sz % WordBits = 0
    BY <1>3, <1>7, <2>2 DEF WholeMerges, CommonSize
  <2>4. PICK q \in Nat, r \in 0 .. WordBits - 1, k \in Nat :
          sz \div WordBits = q /\ sz % WordBits = r /\ q * WordBits = k /\ sz = k + r
    BY <1>7, Euclid, Zenon
  <2>5. at[t].i = q
    <3>1. Indices(sz) = 0 .. q /\ NWords(sz) = q + 1
      BY <1>7, <2>4, IndicesAre
    <3> QED BY <1>6, <1>7, <2>4, <3>1 DEF IsLast
  <2>6. k = 0 \/ r = 0
    <3>1. CASE sz < WordBits
      <4>1. q = 0 \/ q >= 1
        BY <2>4
      <4>2. q >= 1 => 1 * WordBits <= k /\ 1 * WordBits = WordBits
        BY <2>4, WidthType, TimesMono
      <4>3. q = 0 => k = 0
        BY <2>4, WidthType
      <4> QED BY <2>4, <3>1, <4>1, <4>2, <4>3, WidthType
    <3>2. CASE sz % WordBits = 0
      BY <2>4, <3>2
    <3> QED BY <2>3, <3>1, <3>2
  <2>7. rest = r /\ Todo(t) = {p \in 0 .. sz - 1 : p >= k}
    BY <1>4, <2>1, <2>4, <2>5, WidthType
  <2> QED BY <2>4, <2>6, <2>7, WidthType
<1>15. BitsOf(m)' = AppliedTo(t, Todo(t))
  BY <1>1, <1>2, <1>6, <1>11, <1>12, <1>13, <1>14 DEF AppliedTo
<1> QED BY <1>1, <1>6, <1>12, <1>15, PortionMaps

LEMMA MergesAllowedNext ==
  ASSUME IInv, MergesAllowed, [Next]_vars
  PROVE  MergesAllowed'
<1>1. size' = size
  BY SetWordStep, MergeWordStep, MergeLastStep
  DEF Next, vars, ClearAll, Count, IsZero, IsFull, SetBit, ClearBit, IsSet, IsClear, Ask,
      Atomic, BeginSetAll, Union, BeginMerge
<1>2. SUFFICES ASSUME NEW t \in Threads, Merging(t)'
               PROVE  <<size[at'[t].map], size[at'[t].from]>> \in Merges
  BY <1>1 DEF MergesAllowed
<1>3. ASSUME at'[t] = at[t] PROVE <<size[at'[t].map], size[at'[t].from]>> \in Merges
  BY <1>2, <1>3 DEF MergesAllowed, Merging
<1>4. ASSUME NEW m \in Maps, NEW o \in Maps, NEW op \in {"set", "clear"}, NEW u \in Threads,
             BeginMerge(u, op, m, o)
      PROVE  <<size[at'[t].map], size[at'[t].from]>> \in Merges
  <2>1. CASE u = t
    BY <1>4, <2>1 DEF BeginMerge, IInv, Typed
  <2>2. CASE u # t
    BY <1>3, <1>4, <2>2 DEF BeginMerge, IInv, Typed
  <2> QED BY <2>1, <2>2
<1>5. ASSUME NEW u \in Threads, at' = [at EXCEPT ![u] = Idle]
      PROVE  <<size[at'[t].map], size[at'[t].from]>> \in Merges
  BY <1>2, <1>3, <1>5 DEF IInv, Typed, Merging, Idle
<1>6. ASSUME NEW u \in Threads, at[u].op # "none",
             at' = [at EXCEPT ![u] = [@ EXCEPT !.i = at[u].i + 1]]
      PROVE  <<size[at'[t].map], size[at'[t].from]>> \in Merges
  <2>1. CASE u = t
    <3>1. at[t] \in [op : {"all", "set", "clear"}, map : Maps, from : Maps, i : Nat]
      BY <1>6, <2>1 DEF IInv, Typed, Places, Idle
    <3>2. at'[t].op = at[t].op /\ at'[t].map = at[t].map /\ at'[t].from = at[t].from
      BY <1>6, <2>1, <3>1 DEF IInv, Typed
    <3> QED BY <1>2, <3>2 DEF MergesAllowed, Merging
  <2>2. CASE u # t
    BY <1>3, <1>6, <2>2 DEF IInv, Typed
  <2> QED BY <2>1, <2>2
<1>7. ASSUME NEW u \in Threads, NEW m \in Maps, BeginSetAll(u, m)
      PROVE  <<size[at'[t].map], size[at'[t].from]>> \in Merges
  BY <1>2, <1>3, <1>7 DEF BeginSetAll, IInv, Typed, Merging
<1>8. ASSUME NEW u \in Threads, SetWord(u) \/ MergeWord(u) \/ MergeLast(u)
      PROVE  <<size[at'[t].map], size[at'[t].from]>> \in Merges
  <2>1. \/ at' = [at EXCEPT ![u] = Idle]
        \/ at[u].op # "none" /\ at' = [at EXCEPT ![u] = [@ EXCEPT !.i = at[u].i + 1]]
    BY <1>8 DEF SetWord, MergeWord, MergeLast, Merging
  <2> QED BY <1>5, <1>6, <2>1
<1>9. CASE UNCHANGED at
  BY <1>3, <1>9
<1> QED BY <1>4, <1>7, <1>8, <1>9
    DEF Next, vars, ClearAll, Count, IsZero, IsFull, SetBit, ClearBit, IsSet, IsClear, Ask,
        Atomic, Union

LEMMA NextMaps ==
  ASSUME Fit, WholeMerges, IInv, PaddingClear, MergesAllowed, [Next]_vars
  PROVE  [Abstract!Next]_(Abstract!vars)
<1>1. ASSUME NEW m \in Maps,
             \/ ClearAll(m) \/ Count(m) \/ IsZero(m) \/ IsFull(m)
             \/ \E pos \in Positions :
                  SetBit(m, pos) \/ ClearBit(m, pos) \/ IsSet(m, pos) \/ IsClear(m, pos)
      PROVE  Abstract!Next
  BY <1>1, ClearAllMaps, AskMaps, BitMaps
<1>2. ASSUME NEW t \in Threads, NEW m \in Maps, BeginSetAll(t, m) PROVE Abstract!Next
  BY <1>2, BeginMaps DEF BeginSetAll
<1>3. ASSUME NEW t \in Threads, NEW m \in Maps, NEW o \in Maps, NEW op \in {"set", "clear"},
             BeginMerge(t, op, m, o)
      PROVE  Abstract!Next
  BY <1>3, BeginMaps DEF BeginMerge
<1>4. ASSUME NEW t \in Threads, SetWord(t) \/ MergeWord(t) \/ MergeLast(t)
      PROVE  Abstract!Next
  BY <1>4, SetWordMaps, MergeWordMaps, MergeLastMaps
<1>5. ASSUME UNCHANGED vars PROVE UNCHANGED Abstract!vars
  BY <1>5 DEF vars, Abstract!vars, BitsOf, Todo, CommonSize
<1> QED BY <1>1, <1>2, <1>3, <1>4, <1>5 DEF Next, Union

LEMMA InitMaps == Init => Abstract!Init
<1> SUFFICES ASSUME Init PROVE Abstract!Init
  OBVIOUS
<1>1. \A m \in Maps : BitsOf(m) = {}
  BY DEF Init, BitsOf
<1>2. \A t \in Threads : at[t] = Idle
  BY DEF Init
<1> QED BY <1>1, <1>2 DEF Init, Abstract!Init, Abstract!Idle, Abstract!Silent, Idle, Silent

\* Every bitmap behaves as a set of positions, for any widths, sizes and number of
\* threads, each step of an operation on a whole bitmap handling a portion of it: if
\* programs pass only positions for which 1 << pos is a single bit, and merge only
\* bitmaps whose smaller size is less than a word or a number of whole words.
THEOREM ImplementsBitSetHolds ==
  ASSUME Fit, WholeMerges
  PROVE  Spec => ImplementsBitSet
<1>1. Init => MergesAllowed
  BY DEF Init, MergesAllowed, Merging, Idle
<1>2. IInv /\ MergesAllowed /\ [Next]_vars => MergesAllowed'
  BY MergesAllowedNext
<1>3. IInv /\ PaddingClear /\ [Next]_vars => PaddingClear'
  BY PaddingNext
<1>4. IInv /\ PaddingClear /\ MergesAllowed /\ [Next]_vars => [Abstract!Next]_(Abstract!vars)
  BY NextMaps
<1> QED BY <1>1, <1>2, <1>3, <1>4, InitHolds, InitMaps, NextKeeps, PaddingInit, PTL
        DEF Spec, ImplementsBitSet, Abstract!Spec
===============================================================================
