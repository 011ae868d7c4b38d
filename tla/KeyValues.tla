------------------------------ MODULE KeyValues ------------------------------
(* What a list of key-value pairs makes of a map.                             *)
EXTENDS Naturals, Sequences, FiniteSetsExt

\* The last pair for a key counts; a key of no pair keeps its value.
Apply(map, list) ==
  [k \in DOMAIN map |->
     LET places == {i \in DOMAIN list : list[i][1] = k}
     IN  IF places = {} THEN map[k] ELSE list[Max(places)][2]]
===============================================================================
