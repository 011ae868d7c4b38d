------------------------------ MODULE MCEnviron ------------------------------
(* Two threads and two keys, of which the process has one.                    *)
EXTENDS Environ

CONSTANTS t1, t2, k1, k2, a, b

Nothing == <<>>
Round(first, second) == [t \in Threads |-> IF t = t1 THEN first ELSE second]

Readers == {[op |-> o, k |-> x] : o \in {"get", "enabled"}, x \in Keys}
Setters == {[op |-> "set", k |-> x, v |-> y] : x \in Keys, y \in {a, b}}
Unsetters == {[op |-> "unset", k |-> x] : x \in Keys}
MCLists == {Nothing, << <<k2, a>> >>, << <<k1, b>>, <<k2, a>>, <<k1, Empty>> >>}
Inits == {[op |-> "init", list |-> l] : l \in MCLists}
Putenvs == {[op |-> "putenv", k |-> x, v |-> b] : x \in Keys}
All == Readers \cup Setters \cup Unsetters \cup Inits \cup Putenvs
Ours == All \ Putenvs

Get(x) == <<[op |-> "get", k |-> x]>>

\* One thread makes any three calls, then two look at the result.
Solo == {<<Round(<<c, d, e>>, Nothing), Round(Get(k1), Get(k2))>> :
           c \in All, d \in All, e \in All}

\* Any call, then two threads that set, then two that get; or the other way round,
\* with any call in between.
Shared ==
  {<<Round(<<c>>, Nothing), Round(<<d>>, <<e>>), Round(<<f>>, <<g>>)>> :
     c \in All, d \in Setters, e \in Setters, f \in Readers, g \in Readers}
  \cup
  {<<Round(<<d>>, <<e>>), Round(<<c>>, Nothing), Round(<<f>>, <<g>>)>> :
     c \in All, d \in Readers, e \in Readers, f \in Readers, g \in Readers}

\* Two threads with no order between them; nobody else touches the environment.
Racing == {<<Round(<<c>>, <<d, e>>)>> : c \in Ours, d \in Ours, e \in Ours}

MCPrograms == Solo \cup Shared \cup Racing
MCEnvirons == {[k \in Keys |-> IF k = k1 THEN a ELSE NoValue]}
===============================================================================
