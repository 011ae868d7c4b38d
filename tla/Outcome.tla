------------------------------- MODULE Outcome -------------------------------
(* What Status and StatusOr promise to a computation of nested calls: each     *)
(* call comes to the first failure among its own steps and the calls it made,  *)
(* whatever happens after that, and hands it to its caller.                    *)
EXTENDS Sequences, Naturals

CONSTANTS Failures,  \* what may go wrong
          Fine       \* the outcome of a call in which nothing did: no failure

VARIABLE outcomes  \* of the calls in progress, outermost first
vars == <<outcomes>>

Top == Len(outcomes)
\* A call keeps the first failure it hears of.
Hears(k, o) == IF outcomes[k] = Fine THEN o ELSE outcomes[k]

Init == \E o \in Failures \cup {Fine} : outcomes = <<o>>

\* A call may start as a failure: one that has no result yet.
Begin == \E o \in Failures \cup {Fine} : outcomes' = Append(outcomes, o)
Report == \E f \in Failures : outcomes' = [outcomes EXCEPT ![Top] = Hears(Top, f)]
Return == /\ Top > 1
          /\ outcomes' = [SubSeq(outcomes, 1, Top - 1) EXCEPT
                            ![Top - 1] = Hears(Top - 1, outcomes[Top])]

Next == Begin \/ Report \/ Return
Spec == Init /\ [][Next]_vars
===============================================================================
