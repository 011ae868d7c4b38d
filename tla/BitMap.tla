-------------------------------- MODULE BitMap --------------------------------
(***************************************************************************)
(* BitMap.cc: a bitmap is a vector of words, here sets of bit numbers, and *)
(* a mutex.  Threads share the bitmaps.  A word has WordBits bits, an int  *)
(* IntBits: single bits are addressed by "1 << pos", which is an int.      *)
(***************************************************************************)
EXTENDS Integers, FiniteSets

CONSTANTS Threads, NoThread, Maps,
          WordBits, IntBits,   \* 64 and 32
          Sizes,               \* the sizes of the bitmaps, [Maps -> Nat], to consider
          Positions,           \* the positions that programs pass
          Merges               \* the pairs of sizes of which they merge bitmaps
ASSUME WidthsAssumption == /\ IntBits \in Nat \ {0} /\ WordBits \in Nat
                           /\ IntBits <= WordBits
ASSUME ThreadsAssumption == NoThread \notin Threads
ASSUME SizesAssumption == Sizes \subseteq [Maps -> Nat]
ASSUME PositionsAssumption == Positions \subseteq Nat

VARIABLES size,     \* m_size
          words,    \* m_bit_words
          lock,     \* m_lock: the thread that holds it between two steps
          at,       \* how far a thread is in an operation on a whole bitmap
          answer    \* what the last step told its caller, if anything
vars == <<size, words, lock, at, answer>>

Idle == [op |-> "none"]
Silent == [fn |-> "none"]

Word == 0 .. WordBits - 1
NWords(n) == n \div WordBits + 1
Indices(n) == 0 .. NWords(n) - 1
WordIdx(pos) == pos \div WordBits
PosInWord(pos) == pos % WordBits
NBitMask(n) == 0 .. n - 1
IsValidPos(m, pos) == pos < size[m]

\* 1 << pos, extended to a word.  The processor takes the shift modulo the width of an
\* int (the language leaves it undefined), and the top bit of an int is its sign.
IntBit(pos) == LET p == pos % IntBits
               IN  IF p = IntBits - 1 THEN p .. WordBits - 1 ELSE {p}

Init ==
  /\ size \in Sizes
  /\ words = [m \in Maps |-> [i \in Indices(size[m]) |-> {}]]
  /\ lock = [m \in Maps |-> NoThread]
  /\ at = [t \in Threads |-> Idle]
  /\ answer = Silent

Free(m) == lock[m] = NoThread
Put(m, i, bits) == words' = [words EXCEPT ![m][i] = bits]

(***************************************************************************)
(* Operations that take effect under one acquisition of the mutex.         *)
(***************************************************************************)
Atomic(m) == /\ \E t \in Threads : at[t] = Idle
             /\ Free(m) /\ UNCHANGED <<size, lock, at>>

SetBit(m, pos) ==
  /\ Atomic(m)
  /\ IF IsValidPos(m, pos)
     THEN Put(m, WordIdx(pos), words[m][WordIdx(pos)] \cup IntBit(PosInWord(pos)))
     ELSE UNCHANGED words
  /\ answer' = Silent

\* ~(1 << pos) has its sign bit clear when 1 << pos has it set.
ClearBit(m, pos) ==
  /\ Atomic(m)
  /\ IF IsValidPos(m, pos)
     THEN Put(m, WordIdx(pos), words[m][WordIdx(pos)] \ IntBit(PosInWord(pos)))
     ELSE UNCHANGED words
  /\ answer' = Silent

ClearAll(m) ==
  /\ Atomic(m)
  /\ words' = [words EXCEPT ![m] = [i \in Indices(size[m]) |-> {}]]
  /\ answer' = Silent

Ask(m, reply) == Atomic(m) /\ answer' = reply /\ UNCHANGED words

CountOf(m) == LET Bits == UNION {{i} \X words[m][i] : i \in Indices(size[m])}
              IN  Cardinality(Bits)
Count(m) == Ask(m, [fn |-> "count", map |-> m, is |-> CountOf(m)])
IsZero(m) ==
  Ask(m, [fn |-> "isZero", map |-> m,
             holds |-> \A i \in Indices(size[m]) : words[m][i] = {}])
IsFull(m) == Ask(m, [fn |-> "isFull", map |-> m, holds |-> CountOf(m) = size[m]])

\* The position may be the size itself.
BitIsSet(m, pos) ==
  /\ pos <= size[m]
  /\ words[m][WordIdx(pos)] \cap IntBit(PosInWord(pos)) # {}
IsSet(m, pos) ==
  Ask(m, [fn |-> "isSet", map |-> m, pos |-> pos, holds |-> BitIsSet(m, pos)])
IsClear(m, pos) ==
  Ask(m, [fn |-> "isClear", map |-> m, pos |-> pos, holds |-> ~BitIsSet(m, pos)])

(***************************************************************************)
(* set(), with the mutex for each word, and set(other), clear(other) and   *)
(* operator|, with the mutex of the bitmap that changes throughout, but    *)
(* not that of the other one.                                              *)
(***************************************************************************)
Op(op, word, mask) == IF op = "clear" THEN word \ mask ELSE word \cup mask

\* Mutant: one word more.
IsLastButOne(i, n) == i = NWords(n)
IsLast(i, n) == i + 1 = NWords(n)

BeginSetAll(t, m) ==
  /\ at[t] = Idle
  /\ at' = [at EXCEPT ![t] = [op |-> "all", map |-> m, from |-> m, i |-> 0]]
  /\ answer' = Silent
  /\ UNCHANGED <<size, words, lock>>

\* Mutant: the last word is filled as well.
WholeWord(n, i) == Word
AllSetMask(n, i) == LET remaining == n - i * WordBits
                    IN  IF remaining < WordBits THEN NBitMask(remaining) ELSE Word
SetWord(t) ==
  LET m == at[t].map
      i == at[t].i
  IN  /\ at[t].op = "all" /\ Free(m)
      /\ Put(m, i, words[m][i] \cup AllSetMask(size[m], i))
      /\ at' = [at EXCEPT ![t] = IF IsLast(i, size[m]) THEN Idle ELSE [@ EXCEPT !.i = i + 1]]
      /\ answer' = Silent
      /\ UNCHANGED <<size, lock>>

\* Mutant: the other one's size.
SizeOfOther(m, o) == size[o]
CommonSize(m, o) == IF size[m] < size[o] THEN size[m] ELSE size[o]

BeginMerge(t, op, m, o) ==
  /\ <<size[m], size[o]>> \in Merges
  /\ at[t] = Idle /\ Free(m)
  /\ at' = [at EXCEPT ![t] = [op |-> op, map |-> m, from |-> o, i |-> 0]]
  /\ lock' = [lock EXCEPT ![m] = t]
  /\ answer' = Silent
  /\ UNCHANGED <<size, words>>
Union(t, m, o) == BeginMerge(t, "clear", m, o)

Merging(t) == at[t].op \in {"set", "clear"}
MergeWord(t) ==
  LET m == at[t].map
      i == at[t].i
  IN  /\ Merging(t) /\ ~IsLast(i, CommonSize(m, at[t].from))
      /\ Put(m, i, Op(at[t].op, words[m][i], words[at[t].from][i]))
      /\ at' = [at EXCEPT ![t].i = i + 1]
      /\ answer' = Silent
      /\ UNCHANGED <<size, lock>>

\* The last word is looked up by the number of bits that remain: it is the first one.
MergeLast(t) ==
  LET m == at[t].map
      sz == CommonSize(m, at[t].from)
      rest == sz - at[t].i * WordBits
      idx == WordIdx(rest)
  IN  /\ Merging(t) /\ IsLast(at[t].i, sz)
      /\ Put(m, idx, Op(at[t].op, words[m][idx],
                        NBitMask(PosInWord(rest)) \cap words[at[t].from][idx]))
      /\ at' = [at EXCEPT ![t] = Idle]
      /\ lock' = [lock EXCEPT ![m] = NoThread]
      /\ answer' = Silent
      /\ UNCHANGED size

Next ==
  \/ \E m \in Maps :
       \/ ClearAll(m) \/ Count(m) \/ IsZero(m) \/ IsFull(m)
       \/ \E pos \in Positions : SetBit(m, pos) \/ ClearBit(m, pos) \/ IsSet(m, pos) \/ IsClear(m, pos)
  \/ \E t \in Threads :
       \/ \E m \in Maps :
            \/ BeginSetAll(t, m)
            \/ \E o \in Maps : Union(t, m, o) \/ \E op \in {"set", "clear"} : BeginMerge(t, op, m, o)
       \/ SetWord(t) \/ MergeWord(t) \/ MergeLast(t)
Spec == Init /\ [][Next]_vars

(***************************************************************************)
(* Properties.                                                             *)
(***************************************************************************)
\* Words hold bits of a word, a thread that goes through the words stays among them, and
\* the mutex of a bitmap is held between two steps by the thread that merges into it.
TypeOK ==
  /\ size \in Sizes
  /\ \A m \in Maps : words[m] \in [Indices(size[m]) -> SUBSET Word]
  /\ \A m \in Maps : lock[m] \in Threads \cup {NoThread}
  /\ \A t \in Threads :
       at[t] # Idle =>
         /\ at[t].map \in Maps /\ at[t].from \in Maps
         /\ at[t].i \in Indices(size[at[t].map])
         /\ Merging(t) <=> lock[at[t].map] = t
  /\ \A m \in Maps : lock[m] # NoThread => at[lock[m]] # Idle /\ at[lock[m]].map = m

\* No bit is ever set beyond the size, which is what count() and isFull() assume
\* (BitMap.cc:102-104): neither by a single bit, nor by set(), nor by a merge with a
\* larger bitmap.
PaddingClear ==
  \A m \in Maps : \A i \in Indices(size[m]) : \A b \in words[m][i] :
    i * WordBits + b < size[m]

\* A bitmap behaves as the set of the positions that were set (BitMap.hh), for several
\* threads at once: every answer is right for some order of what they do, and an
\* operation on the whole bitmap reaches every position once.
BitsOf(m) == UNION {{i * WordBits + b : b \in words[m][i]} : i \in Indices(size[m])}
Todo(t) == {p \in 0 .. CommonSize(at[t].map, at[t].from) - 1 : p >= at[t].i * WordBits}
Abstract == INSTANCE BitSet WITH
  bits <- [m \in Maps |-> BitsOf(m)],
  busy <- [t \in Threads |->
             IF at[t] = Idle THEN Idle
             ELSE [op |-> at[t].op, map |-> at[t].map, from |-> at[t].from, todo |-> Todo(t)]]
ImplementsBitSet == Abstract!Spec
===============================================================================
