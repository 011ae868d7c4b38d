------------------------------ MODULE MCAffinity ------------------------------
(* Machines of up to MaxProcessors logical processors: all pairings of them   *)
(* into cores, and all groupings into caches; with up to MaxGrouped of them,  *)
(* also all their processor groups.                                           *)
EXTENDS Affinity, SequencesExt

CONSTANTS MaxProcessors, MaxGrouped

\* Each partition of S, from the functions that send an element to the smallest
\* one of its part.
Partitions(S) ==
  LET heads == {f \in [S -> S] : \A x \in S : f[x] <= x /\ f[f[x]] = f[x]}
  IN  {{{y \in S : f[y] = x} : x \in {f[z] : z \in S}} : f \in heads}

Singletons(n) == {{p} : p \in 0 .. n - 1}
Whole(n) == {0 .. n - 1}

\* The systems of n processors without groups, and with all groupings of them.
Cored(n) == {P \in Partitions(0 .. n - 1) : \A X \in P : Cardinality(X) <= 2}
Topologies(n) == {[cores |-> C, caches |-> Whole(n)] : C \in Cored(n)}
                 \cup {[cores |-> Singletons(n), caches |-> C] :
                         C \in Partitions(0 .. n - 1) \cup {{}}}
Groupings(n) == {s \in BoundedSeq(1 .. W, n) : FoldSeq(LAMBDA a, b : a + b, 0, s) = n}
Divides(s, X) == \E k \in 1 .. Len(s) :
  LET first == FoldSeq(LAMBDA a, b : a + b, 0, SubSeq(s, 1, k))
  IN  \E x, y \in X : x < first /\ first <= y

MCMachines ==
  LET system(n, t, s) == [n |-> n, cores |-> t.cores, caches |-> t.caches, groups |-> s]
  IN  UNION {{system(n, t, <<>>) : t \in Topologies(n)} : n \in 1 .. MaxProcessors}
      \cup UNION {UNION {{system(n, t, s) :
                            t \in {u \in Topologies(n) : \A X \in u.cores : ~Divides(s, X)}} :
                           s \in Groupings(n)} :
                    n \in 1 .. MaxGrouped}

\* One vector that may fit, one that names a processor too many, one that is empty.
MCCustomVectors == {<<0, 0>>, <<0, MaxProcessors>>, <<>>}
=============================================================================
