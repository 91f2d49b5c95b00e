------------------------------ MODULE LossyFeed ------------------------------
(***************************************************************************)
(* What the fan-out promises its consumers, stated without queues or       *)
(* tasks.  A source offers frames with growing numbers.  Each consumer     *)
(* sees some of them: never the same one twice, never an older one after a *)
(* newer one, and never one that was not offered.  Consumers are           *)
(* independent: one that lags neither stops the source nor the others, it  *)
(* only misses frames.                                                     *)
(***************************************************************************)
EXTENDS Naturals

CONSTANT Workers

VARIABLES
    offered,    \* number of the newest frame the source has offered
    delivered   \* number of the newest frame each consumer has seen

feedVars == <<offered, delivered>>

Init ==
    /\ offered = 0
    /\ delivered = [w \in Workers |-> 0]

Offer ==
    /\ offered' \in Nat
    /\ offered' > offered
    /\ UNCHANGED delivered

\* Any set of consumers advances, each to a frame it has not seen yet.
Deliver ==
    /\ delivered' \in [Workers -> Nat]
    /\ \A w \in Workers : delivered'[w] >= delivered[w] /\ delivered'[w] <= offered
    /\ UNCHANGED offered

Next == Offer \/ Deliver

Spec == Init /\ [][Next]_feedVars
=============================================================================
