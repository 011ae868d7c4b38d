----------------------------- MODULE CpuTopology -----------------------------
(***************************************************************************)
(* CpuTopology (Linux/CpuTopology.hh and Windows/CpuTopology.hh): the     *)
(* maps that the constructor reads, once, from /sys/devices/system/cpu or *)
(* from GetLogicalProcessorInformationEx().  A mask of logical processors *)
(* is a list of words: the set of bits that are set, and the word's       *)
(* position in the line of the file or the number of its processor group. *)
(***************************************************************************)
EXTENDS Integers, Sequences, FiniteSets, FiniteSetsExt, Functions

CONSTANTS
  W,                              \* bits of a word: 32 in the kernel's files, 64 in a
                                  \* group's mask
  Machines                        \* what the system may report

\* The logical processors are 0 .. n - 1: the constructor's vectors have one entry
\* for each processor that is online and are indexed by processor number.  `cores'
\* are the sets of thread siblings, `caches' those that share an L3 cache, of which
\* a machine may have none.  `groups' are the sizes of the processor groups of
\* Windows, which divide no core; Linux has none.
IsPartition(P, S) ==
  UNION P = S /\ {} \notin P /\ \A X, Y \in P : X = Y \/ X \cap Y = {}
\* The sum of the numbers of a sequence's first k elements.
SumOf(size, k) == Cardinality(UNION {{i} \X (1 .. size[i]) : i \in 1 .. k})
ASSUME TopologyAssumption ==
  /\ W \in Nat \ {0}
  /\ \A m \in Machines :
       /\ m.n \in Nat \ {0}
       /\ IsPartition(m.cores, 0 .. m.n - 1)
       /\ m.caches = {} \/ IsPartition(m.caches, 0 .. m.n - 1)
       /\ m.groups \in Seq(1 .. W)
       /\ m.groups # <<>> => SumOf(m.groups, Len(m.groups)) = m.n

VARIABLES machine, active_processors, processorMap, cacheMap, groupMap
topology == <<machine, active_processors, processorMap, cacheMap, groupMap>>

\* The elements of S in the order that the pairs of R say.
InOrderOf(S, R) ==
  [i \in 1 .. Cardinality(S) |->
     CHOOSE x \in S : Cardinality({y \in S : <<y, x>> \in R}) = i - 1]
Ascending(S) == InOrderOf(S, {p \in S \X S : p[1] < p[2]})

Linux == machine.groups = <<>>

\* The word that has the bit of a processor, and the first processor of a word.
First(word) == IF Linux THEN word * W ELSE SumOf(machine.groups, word)
WordOf(c) == IF Linux THEN c \div W
             ELSE Max({k \in 0 .. Len(machine.groups) - 1 : First(k) <= c})

\* parseLine(): the words with a bit set, the lowest first.
Words(cpus) ==
  LET used == Ascending({WordOf(c) : c \in cpus})
      bits(k) == {c - First(k) : c \in {x \in cpus : WordOf(x) = k}}
  IN  [i \in DOMAIN used |-> [bits |-> bits(used[i]), word |-> used[i]]]

\* The number with the bits A is less than that with the bits B: the highest bit in
\* which they differ is one of B.
IsLess(A, B) == \E b \in B \ A : \A a \in A \ B : a < b

\* compareVectors(): by the first word's position, then by its value.
CompareVectors(v, w) ==
  \/ Head(v).word < Head(w).word
  \/ Head(v).word = Head(w).word /\ IsLess(Head(v).bits, Head(w).bits)

\* Mutant: eliminateDuplicates() is left out.
MapOfEach(sets) ==
  IF sets = {} THEN <<<<>>>>
  ELSE LET c(i) == CHOOSE S \in sets : i \in S
       IN  [i \in 1 .. Cardinality(UNION sets) |-> Words(c(i - 1))]

\* One entry for each core or cache, in ascending order.
Sorted(sets) ==
  LET masks == {Words(S) : S \in sets}
  IN  InOrderOf(masks, {p \in masks \X masks : CompareVectors(p[1], p[2])})

\* Without an L3 cache the files are missing, every entry stays empty, and one of
\* them is left.
MapOf(sets) == IF sets = {} THEN <<<<>>>> ELSE Sorted(sets)

\* The mask of each word and the number of its bits, up to the last that has any.
Groups(map) ==
  LET chunks == UNION {Range(words) : words \in Range(map)}
      last == Max({c.word : c \in chunks})
      bits(k) == UNION {c.bits : c \in {d \in chunks : d.word = k}}
  IN  [k \in 0 .. last |-> [bits |-> bits(k), count |-> Cardinality(bits(k))]]

FromSys ==
  /\ processorMap = MapOf(machine.cores)
  /\ cacheMap = MapOf(machine.caches)
  /\ groupMap = Groups(processorMap)

\* The records of cores, of L3 caches and of groups come in ascending order.
FromLogicalProcessorInformation ==
  /\ processorMap = Sorted(machine.cores)
  /\ cacheMap = Sorted(machine.caches)
  /\ groupMap = [k \in 0 .. Len(machine.groups) - 1 |->
                   LET count == machine.groups[k + 1]
                   IN  [bits |-> 0 .. count - 1, count |-> count]]

Construct ==
  /\ machine \in Machines
  /\ active_processors = machine.n
  /\ IF Linux THEN FromSys ELSE FromLogicalProcessorInformation

\* Mutant: the processors of the group itself count, too.
OffsetThrough(group) == SumOf([i \in 1 .. group + 1 |-> groupMap[i - 1].count], group + 1)

\* calculateOffset(): the processors of the groups below.
CalculateOffset(group) == SumOf([i \in 1 .. group |-> groupMap[i - 1].count], group)
=============================================================================
