------------------------------- MODULE Affinity -------------------------------
(***************************************************************************)
(* AffinityVector (ThreadPinning.hh) and the pinThreads() functions: one  *)
(* call that pins a number of threads by a strategy, or to processors     *)
(* that the caller names.  Threads are numbered from 1, processors from 0. *)
(***************************************************************************)
EXTENDS CpuTopology, Halving

CONSTANTS MaxThreads,             \* bound: threads of a call
          CustomVectors           \* affinity vectors a caller may pass

ASSUME BoundAssumption == MaxThreads \in Nat

VARIABLES
  pc,                             \* idle, core (the loop of that strategy), set, done
  strategy, threads,              \* what the caller asks for
  procVect,                       \* thread -> processor
  pMap, maskIndex, coreId,        \* the core strategy: what is left of the current
                                  \* word of each core, its next word, the next core
  pinned                          \* affinity of the threads handled so far
coreVars == <<pMap, maskIndex, coreId>>
vars == <<topology, pc, strategy, threads, procVect, coreVars, pinned>>

Init ==
  /\ Construct
  /\ pc = "idle" /\ strategy = "none" /\ threads = 0
  /\ procVect = <<>> /\ pMap = <<>> /\ maskIndex = <<>> /\ coreId = 0
  /\ pinned = <<>>

Processors == 0 .. active_processors - 1
-----------------------------------------------------------------------------
(* The vector of each strategy.                                            *)

\* Mutant: the highest bit, a core's last sibling, is taken first.
HighestCoreNum(bits) == Max(bits)
CalculateCoreNum(bits) == Min(bits)

\* coreMapToCoreList(): the processors of a mask, word by word, from the lowest bit.
CoreList(words) ==
  LET places == UNION {{i} \X words[i].bits : i \in DOMAIN words}
      before(p, q) == p[1] < q[1] \/ (p[1] = q[1] /\ p[2] < q[2])
      place == InOrderOf(places, {x \in places \X places : before(x[1], x[2])})
  IN  [j \in DOMAIN place |-> place[j][2] + CalculateOffset(words[place[j][1]].word)]

\* getCacheAffinityMap(): the threads of each cache, numbered from 0.
CacheAffinityMap(n) ==
  LET cache == Distribution(n, Len(cacheMap))
  IN  [k \in Range(cache) |-> {t \in DOMAIN cache : cache[t] = k}]

\* Each cache's threads over the cache's processors.  The vector keeps its zeros where
\* a cache has no processor in its map, or no cache is known.
SpreadVector(n) ==
  LET map == CacheAffinityMap(n)
      coreList(k) == IF Len(cacheMap) = 0 THEN <<>> ELSE CoreList(cacheMap[k + 1])
      place(k, t) ==
        LET index == Cardinality({s \in map[k] : s < t})
        IN  IF Len(coreList(k)) = 0 THEN 0
            ELSE coreList(k)[Slot[<<Cardinality(map[k]), Len(coreList(k)), index>>] + 1]
  IN  [t \in 1 .. n |-> place(CHOOSE k \in DOMAIN map : t - 1 \in map[k], t - 1)]

GetSpread(n) ==
  /\ procVect' = SpreadVector(n)
  /\ pc' = "set"
  /\ UNCHANGED coreVars

GetLogical(n) ==
  /\ procVect' = [t \in 1 .. n |-> (t - 1) % active_processors]
  /\ pc' = "set"
  /\ UNCHANGED coreVars

\* The core strategy starts with the first word of each core.
GetCore(n) ==
  /\ procVect' = <<>>
  /\ pMap' = [c \in DOMAIN processorMap |-> processorMap[c][1]]
  /\ maskIndex' = [c \in DOMAIN processorMap |-> 1]
  /\ coreId' = 1
  /\ pc' = "core"

\* The next round over the cores follows the last core.  isReset() looks at a copy
\* of processorMap that nothing clears, so its branch never has an effect.
NextCore == coreId' = (coreId % Len(processorMap)) + 1

Exhausted == pMap[coreId].bits = {} /\ maskIndex[coreId] = Len(processorMap[coreId])

\* Mutant: the core does not start again with its first word.
SkipStuck ==
  /\ pc = "core" /\ Exhausted
  /\ NextCore
  /\ UNCHANGED <<topology, pc, strategy, threads, procVect, pMap, maskIndex, pinned>>

\* skipMask() returns true: a core without processors left is passed over once, and
\* starts again with its first word in the round after.
Skip ==
  /\ pc = "core" /\ Exhausted
  /\ maskIndex' = [maskIndex EXCEPT ![coreId] = 0]
  /\ NextCore
  /\ UNCHANGED <<topology, pc, strategy, threads, procVect, pMap, pinned>>

\* skipMask() returns false: the next thread gets the lowest processor left in the
\* core's current word, or in the next one.
TakeFrom(mask, left) ==
  /\ procVect' = Append(procVect, CalculateCoreNum(mask.bits) + CalculateOffset(mask.word))
  /\ pMap' = [pMap EXCEPT ![coreId] = [mask EXCEPT !.bits = left]]
  /\ maskIndex' = [maskIndex EXCEPT ![coreId] = @ + IF pMap[coreId].bits = {} THEN 1 ELSE 0]
  /\ pc' = IF Len(procVect) + 1 = threads THEN "set" ELSE "core"
  /\ UNCHANGED <<topology, strategy, threads, pinned>>
Current == IF pMap[coreId].bits = {} THEN processorMap[coreId][maskIndex[coreId] + 1]
           ELSE pMap[coreId]

\* Mutant: a core is used up before the next.
TakeSameCore ==
  /\ pc = "core" /\ ~Exhausted
  /\ TakeFrom(Current, Current.bits \ {CalculateCoreNum(Current.bits)})
  /\ coreId' = coreId

Take ==
  /\ pc = "core" /\ ~Exhausted
  /\ TakeFrom(Current, Current.bits \ {CalculateCoreNum(Current.bits)})
  /\ NextCore

\* An index that is no strategy leaves the zeros the vector was made with.
GetUnknown(n) ==
  /\ procVect' = [t \in 1 .. n |-> 0]
  /\ pc' = "set"
  /\ UNCHANGED coreVars

SPREAD == 0
CORE == 1
LOGICAL == 2
GetAffinityVector(n, index) ==
  \/ index = SPREAD /\ GetSpread(n)
  \/ index = CORE /\ GetCore(n)
  \/ index = LOGICAL /\ GetLogical(n)
  \/ index \notin {SPREAD, CORE, LOGICAL} /\ GetUnknown(n)

Ask(name, n) ==
  /\ pc = "idle"
  /\ strategy' = name /\ threads' = n
  /\ UNCHANGED <<topology, pinned>>

Return == pc' = "done" /\ UNCHANGED <<procVect, coreVars>>

\* pinThreads() with a strategy returns at once when there is no thread.
PinByIndex(n, index) ==
  \/ n = 0 /\ Return
  \/ n > 0 /\ GetAffinityVector(n, index)

\* pinThreads() with the caller's vector returns at once when the sizes differ, too.
PinByVector(n, v) ==
  \/ (n = 0 \/ Len(v) # n) /\ Return
  \/ /\ n > 0 /\ Len(v) = n
     /\ procVect' = v
     /\ pc' = "set"
     /\ UNCHANGED coreVars

\* The functions of C, and an index that a caller of the C++ class may pass.
AuPinThreadsSpread(n) == Ask("spread", n) /\ PinByIndex(n, 0)
AuPinThreadsCore(n) == Ask("core", n) /\ PinByIndex(n, 1)
AuPinThreadsLogical(n) == Ask("logical", n) /\ PinByIndex(n, 2)
AuPinThreadsCustom(n, v) == Ask("custom", n) /\ PinByVector(n, v)
PinUnknown(n) == Ask("unknown", n) /\ PinByIndex(n, 3)
-----------------------------------------------------------------------------
\* On Windows the processor's number is turned back into its group and its bit there:
\* group by group while the processor is not one of the group's.
GroupOf(p) ==
  Cardinality({g \in DOMAIN groupMap :
                 \A k \in 0 .. g : p >= CalculateOffset(k) + groupMap[k].count})
InGroup(p) ==
  LET group == GroupOf(p)
  IN  {c \in Processors : /\ WordOf(c) = group
                          /\ c - First(group) = p - CalculateOffset(group)}

\* setAffinity(), thread by thread.  Whether the system accepts the processor does
\* not matter: one that does not exist leaves the thread where it was.
SetAffinity ==
  /\ pc = "set"
  /\ LET p == procVect[Len(pinned) + 1]
         mask == IF Linux THEN Processors \cap {p} ELSE InGroup(p)
     IN  pinned' = Append(pinned, IF mask = {} THEN Processors ELSE mask)
  /\ pc' = IF Len(pinned) + 1 = threads THEN "done" ELSE "set"
  /\ UNCHANGED <<topology, strategy, threads, procVect, coreVars>>

PinThreads == \E n \in 0 .. MaxThreads :
  \/ AuPinThreadsSpread(n) \/ AuPinThreadsCore(n) \/ AuPinThreadsLogical(n)
  \/ PinUnknown(n)
  \/ \E v \in CustomVectors : AuPinThreadsCustom(n, v)

Next == PinThreads \/ Skip \/ Take \/ SetAffinity
Done == pc = "done"
Halted == Done /\ UNCHANGED vars

Spec == Init /\ [][Next \/ Halted]_vars
FairSpec == Spec /\ WF_vars(Next)
-----------------------------------------------------------------------------
Pinned == Done /\ strategy \in {"spread", "core", "logical"}

\* Every strategy ends with each thread on exactly one processor that is there.
EachOnOneProcessor ==
  Pinned => Len(pinned) = threads /\ \A t \in 1 .. threads : Cardinality(pinned[t]) = 1

\* The caches have equally many processors, and their number is a power of two: it has
\* no odd divisor but 1.
IsPowerOfTwo(m) == m > 0 /\ \A d \in 2 .. m : m % d = 0 => d % 2 = 0
RegularCaches ==
  /\ \A X, Y \in machine.caches : Cardinality(X) = Cardinality(Y)
  /\ IsPowerOfTwo(Cardinality(machine.caches))

\* The processors that a strategy has to share out: all of them, but for core those that
\* are not the SMT sibling of one before them, the physical cores of threadpinning.h:47.
Physical == {Min(X) : X \in machine.cores}
Offered == IF strategy = "core" THEN Physical ELSE Processors

\* While there are enough of them, each thread has one to itself; as soon as there are
\* enough threads, none is without a thread.  What the core strategy does with the threads
\* for which the physical cores are too few is left open: the documentation (the table
\* of threadpinning.h:54-63) has them share the physical cores, and the code puts them
\* on SMT siblings.
ProcessorsAreShared ==
  Pinned /\ (strategy = "spread" => RegularCaches) =>
    /\ threads <= Cardinality(Offered) =>
         /\ UNION Range(pinned) \subseteq Offered
         /\ \A s, t \in 1 .. threads : s # t => pinned[s] \cap pinned[t] = {}
    /\ Cardinality(Offered) <= threads => Offered \subseteq UNION Range(pinned)

\* The same of caches: spread takes another cache for each thread while there is
\* one, for any caches.
CachesAreShared ==
  Pinned /\ strategy = "spread" /\ machine.caches # {} =>
    LET load(C) == Cardinality({t \in 1 .. threads : pinned[t] \subseteq C})
    IN  /\ threads <= Cardinality(machine.caches) => \A C \in machine.caches : load(C) <= 1
        /\ Cardinality(machine.caches) <= threads => \A C \in machine.caches : load(C) >= 1

\* No core gets a second thread before every core has one.
CoresBeforeSiblings ==
  strategy = "core" =>
    LET load(C) == Cardinality({t \in DOMAIN procVect : procVect[t] \in C})
    IN  \A C, D \in machine.cores : load(C) >= 2 => load(D) >= 1

\* Each call ends.
Terminates == <>Done
=============================================================================
