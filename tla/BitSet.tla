-------------------------------- MODULE BitSet --------------------------------
(***************************************************************************)
(* What BitMap.hh promises: bitmaps that are sets of positions, changed by *)
(* several threads.  An operation on a whole bitmap takes effect position  *)
(* by position, in any portions and any order; every other operation, and  *)
(* every question, takes effect at once.                                   *)
(***************************************************************************)
EXTENDS Integers, FiniteSets

CONSTANTS Threads, Maps, Sizes, Positions
VARIABLES size,     \* of each bitmap, from its constructor
          bits,     \* the positions that are set
          busy,     \* the operation on a whole bitmap that a thread is in
          answer    \* what the last step told its caller, if anything
vars == <<size, bits, busy, answer>>

Idle == [op |-> "none"]
Silent == [fn |-> "none"]
All(m) == 0 .. size[m] - 1
Common(m, o) == All(m) \cap All(o)

Init == /\ size \in Sizes
        /\ bits = [m \in Maps |-> {}]
        /\ busy = [t \in Threads |-> Idle]
        /\ answer = Silent

Change(m, set) == /\ bits' = [bits EXCEPT ![m] = set]
                  /\ answer' = Silent /\ UNCHANGED size

Set(m, p) == Change(m, IF p \in All(m) THEN bits[m] \cup {p} ELSE bits[m])
Clear(m, p) == Change(m, bits[m] \ {p})
ClearAll(m) == Change(m, {})

Reply(r) == answer' = r /\ UNCHANGED <<size, bits>>
Simple(m) ==
  \/ ClearAll(m)
  \/ Reply([fn |-> "count", map |-> m, is |-> Cardinality(bits[m])])
  \/ Reply([fn |-> "isZero", map |-> m, holds |-> bits[m] = {}])
  \/ Reply([fn |-> "isFull", map |-> m, holds |-> bits[m] = All(m)])
  \/ \E p \in Positions :
       \/ Set(m, p) \/ Clear(m, p)
       \/ Reply([fn |-> "isSet", map |-> m, pos |-> p, holds |-> p \in bits[m]])
       \/ Reply([fn |-> "isClear", map |-> m, pos |-> p, holds |-> p \notin bits[m]])

Begin(t, op, m, o) ==
  /\ busy[t] = Idle
  /\ busy' = [busy EXCEPT ![t] = [op |-> op, map |-> m, from |-> o, todo |-> Common(m, o)]]
  /\ answer' = Silent /\ UNCHANGED <<size, bits>>

Applied(b, part) ==
  CASE b.op = "all" -> bits[b.map] \cup part
    [] b.op = "set" -> bits[b.map] \cup (bits[b.from] \cap part)
    [] b.op = "clear" -> bits[b.map] \ (bits[b.from] \cap part)
Portion(t) ==
  /\ busy[t] # Idle
  /\ \E part \in SUBSET busy[t].todo :
       /\ Change(busy[t].map, Applied(busy[t], part))
       /\ \/ busy' = [busy EXCEPT ![t].todo = @ \ part]
          \/ part = busy[t].todo /\ busy' = [busy EXCEPT ![t] = Idle]

Next ==
  \/ \E m \in Maps : Simple(m) /\ UNCHANGED busy
  \/ \E t \in Threads, m \in Maps :
       Begin(t, "all", m, m) \/ \E o \in Maps, op \in {"set", "clear"} : Begin(t, op, m, o)
  \/ \E t \in Threads : Portion(t)
Spec == Init /\ [][Next]_vars
===============================================================================
