-------------------------------- MODULE MCRng --------------------------------
(* Two threads; lengths of up to four bytes and of none.                      *)
EXTENDS Rng

CONSTANTS t1, t2

System == [device : {"system"}, length : {0, 1, 3, 4}, aligned : {TRUE}]
Hardware == [device : {"hardware"}, length : 0 .. 4, aligned : BOOLEAN]

\* All but an odd number of bytes at an odd address.
FitRequests == System \cup {r \in Hardware : r.aligned \/ r.length % 2 = 0}
===============================================================================
