--------------------------- MODULE MCOutboundSender ---------------------------
(* Instances of OutboundSender for TLC. *)
EXTENDS OutboundSender

CONSTANTS w1, n1, n2

OneWorker  == {w1}
AllNames   == {n1, n2}
SingleName == [w \in OneWorker |-> n1]
=============================================================================
