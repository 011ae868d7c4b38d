----------------------------- MODULE CreateVector -----------------------------
(***************************************************************************)
(* AffinityVector::createVector (ThreadPinning.hh): nt threads are        *)
(* distributed over np processors by halving both ranges until one of them *)
(* has a single element.  The recursion is a stack of pending calls, the   *)
(* innermost first, with one step for each activation.                    *)
(***************************************************************************)
EXTENDS Integers, Sequences, FiniteSets, Halving

CONSTANT Sizes                    \* pairs of thread and processor counts

ASSUME SizesAssumption == Sizes \subseteq Nat \X Nat

VARIABLES
  nt, np,                         \* the counts of this call, which never change
  calls,                          \* activations still to run
  procVect                        \* thread -> processor
vars == <<nt, np, calls, procVect>>

\* tListStart, tListEnd, pListStart, pListEnd
Call(t0, t1, p0, p1) == [t0 |-> t0, t1 |-> t1, p0 |-> p0, p1 |-> p1]

\* The caller passes a vector of zeros and the whole ranges, whose ends are -1
\* when there is nothing to distribute, or nothing to distribute it over.
Init ==
  /\ \E size \in Sizes : nt = size[1] /\ np = size[2]
  /\ calls = <<Call(0, nt - 1, 0, np - 1)>>
  /\ procVect = [t \in 0 .. nt - 1 |-> 0]

Top == Head(calls)
Nonempty == Top.t0 <= Top.t1 /\ Top.p0 <= Top.p1

\* No elements left in one of the ranges.
Empty ==
  /\ calls # <<>> /\ ~Nonempty
  /\ calls' = Tail(calls)
  /\ UNCHANGED <<nt, np, procVect>>

\* Mutant: the last processor of the range instead of the first.
PinLast ==
  /\ calls # <<>> /\ Nonempty /\ Top.t0 = Top.t1
  /\ procVect' = [procVect EXCEPT ![Top.t0] = Top.p1]
  /\ calls' = Tail(calls)
  /\ UNCHANGED <<nt, np>>

\* One thread: it goes to the first processor.
Pin ==
  /\ calls # <<>> /\ Nonempty /\ Top.t0 = Top.t1
  /\ procVect' = [procVect EXCEPT ![Top.t0] = Top.p0]
  /\ calls' = Tail(calls)
  /\ UNCHANGED <<nt, np>>

\* Mutant: one thread too many.
FillBeyond ==
  /\ calls # <<>> /\ Nonempty /\ Top.t0 < Top.t1 /\ Top.p0 = Top.p1
  /\ procVect' = [t \in DOMAIN procVect \cup Top.t0 .. Top.t1 + 1 |->
                    IF t \in Top.t0 .. Top.t1 + 1 THEN Top.p0 ELSE procVect[t]]
  /\ calls' = Tail(calls)
  /\ UNCHANGED <<nt, np>>

\* One processor: all threads go there.
Fill ==
  /\ calls # <<>> /\ Nonempty /\ Top.t0 < Top.t1 /\ Top.p0 = Top.p1
  /\ procVect' = [t \in DOMAIN procVect |->
                    IF t \in Top.t0 .. Top.t1 THEN Top.p0 ELSE procVect[t]]
  /\ calls' = Tail(calls)
  /\ UNCHANGED <<nt, np>>

Middle(first, last) == (last - first) \div 2 + first

\* The two recursive calls that replace an activation.
SplitInto(left, right) ==
  /\ calls # <<>> /\ Nonempty /\ Top.t0 < Top.t1 /\ Top.p0 < Top.p1
  /\ calls' = <<left, right>> \o Tail(calls)
  /\ UNCHANGED <<nt, np, procVect>>
SplitAt(tm, pm) ==
  SplitInto(Call(Top.t0, tm, Top.p0, pm), Call(tm + 1, Top.t1, pm + 1, Top.p1))

\* Mutants: the halves of the processors are swapped; they share their middle; the
\* middle is rounded up; both right halves begin at the middle.
SplitSwapped ==
  LET tm == Middle(Top.t0, Top.t1)  pm == Middle(Top.p0, Top.p1)
  IN  SplitInto(Call(Top.t0, tm, pm + 1, Top.p1), Call(tm + 1, Top.t1, Top.p0, pm))
SplitShared ==
  LET tm == Middle(Top.t0, Top.t1)  pm == Middle(Top.p0, Top.p1)
  IN  SplitInto(Call(Top.t0, tm, Top.p0, pm), Call(tm + 1, Top.t1, pm, Top.p1))
SplitOverlapping ==
  LET tm == Middle(Top.t0, Top.t1)  pm == Middle(Top.p0, Top.p1)
  IN  SplitInto(Call(Top.t0, tm, Top.p0, pm), Call(tm, Top.t1, pm, Top.p1))
SplitRoundedUp == SplitAt(Middle(Top.t0, Top.t1), Middle(Top.p0, Top.p1 + 1))

Split == SplitAt(Middle(Top.t0, Top.t1), Middle(Top.p0, Top.p1))

Next == Empty \/ Pin \/ Fill \/ Split

Finished == calls = <<>>
Halted == Finished /\ UNCHANGED vars

Spec == Init /\ [][Next \/ Halted]_vars
FairSpec == Spec /\ WF_vars(Next)
-----------------------------------------------------------------------------
\* Threads and processors stay within their ranges.
TypeOK ==
  /\ nt \in Nat /\ np \in Nat
  /\ calls \in Seq([t0 : Nat, t1 : Int, p0 : Nat, p1 : Int])
  /\ procVect \in [0 .. nt - 1 -> Nat]
  /\ np > 0 => \A t \in 0 .. nt - 1 : procVect[t] < np

\* The distribution follows the order of the threads.
InOrder ==
  Finished => \A s, t \in 0 .. nt - 1 : s <= t => procVect[s] <= procVect[t]

\* No two threads share a processor while there are enough processors.
NoNeedlessSharing ==
  Finished /\ nt <= np =>
    \A s, t \in 0 .. nt - 1 : s # t => procVect[s] # procVect[t]

\* No processor is idle while there are enough threads.
NoIdleProcessor ==
  Finished /\ np <= nt =>
    \A p \in 0 .. np - 1 : \E t \in 0 .. nt - 1 : procVect[t] = p

\* The vector is the one its callers count on.
ComputesDistribution == Finished => procVect = Distribution(nt, np)

\* The recursion ends.
Terminates == <>Finished
=============================================================================
