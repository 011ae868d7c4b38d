----------------------------- MODULE LogChannel -----------------------------
(***************************************************************************)
(* What the asynchronous logger promises of every LogWriter object,       *)
(* without threads, locks or reference counts: a writer accepts messages  *)
(* only while a holder can still reach it, hands them to its logger one   *)
(* at a time, in the order it accepted them and each at most once, and    *)
(* does nothing any more once it is destroyed.  It does not promise that  *)
(* an accepted message is delivered: a writer may be destroyed with       *)
(* messages left.                                                          *)
(***************************************************************************)
EXTENDS Naturals, Sequences

CONSTANTS Writers,   \* the LogWriter objects that can ever be allocated
          Msgs       \* the messages

VARIABLES life,      \* "free", "live" (reachable), "dying" (destructor), "dead"
          accepted,  \* what was put into each writer's queue, in order
          written    \* what each writer handed to its logger, in order

vars == <<life, accepted, written>>

Init == /\ life = [w \in Writers |-> "free"]
        /\ accepted = [w \in Writers |-> <<>>]
        /\ written = [w \in Writers |-> <<>>]

Open(w) == /\ life[w] = "free"
           /\ life' = [life EXCEPT ![w] = "live"]
           /\ UNCHANGED <<accepted, written>>

Accept(w) == /\ life[w] = "live"
             /\ \E m \in Msgs : accepted' = [accepted EXCEPT ![w] = Append(@, m)]
             /\ UNCHANGED <<life, written>>

Deliver(w) == /\ life[w] \in {"live", "dying"}
              /\ Len(written[w]) < Len(accepted[w])
              /\ written' = [written EXCEPT ![w] =
                               Append(@, accepted[w][Len(written[w]) + 1])]
              /\ UNCHANGED <<life, accepted>>

Retire(w) == /\ \/ life[w] = "live" /\ life' = [life EXCEPT ![w] = "dying"]
                \/ life[w] = "dying" /\ life' = [life EXCEPT ![w] = "dead"]
             /\ UNCHANGED <<accepted, written>>

Next == \E w \in Writers : Open(w) \/ Accept(w) \/ Deliver(w) \/ Retire(w)

Spec == Init /\ [][Next]_vars
=============================================================================
