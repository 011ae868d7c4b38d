----------------------------- MODULE Halving -------------------------------
(* What AffinityVector::createVector (ThreadPinning.hh) computes, as a      *)
(* function of the counts; CreateVector shows that the recursion does so.   *)
EXTENDS Naturals

\* The processor of thread t of n over m processors: both are halved, the left half
\* rounded up, until one thread or one processor is left.
Slot[x \in Nat \X Nat \X Nat] ==
  LET n == x[1]
      m == x[2]
      t == x[3]
      nl == (n + 1) \div 2
      ml == (m + 1) \div 2
  IN  IF n <= 1 \/ m <= 1 THEN 0
      ELSE IF t < nl THEN Slot[<<nl, ml, t>>] ELSE ml + Slot[<<n - nl, m - ml, t - nl>>]

\* What createVector leaves in its vector, for its callers.
Distribution(n, m) == [t \in 0 .. n - 1 |-> Slot[<<n, m, t>>]]
=============================================================================
