---------------------------- MODULE MCInboundTurn ----------------------------
(* Instances of InboundTurn for TLC. *)
EXTENDS InboundTurn

CONSTANTS w1, n1, n2, a1

OneWorker  == {w1}
AllNames   == {n1, n2}
SingleName == [w \in OneWorker |-> n1]
OneAgent   == {a1}
SecondOne  == {2}
=============================================================================
