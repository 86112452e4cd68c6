-------------------------- MODULE MCStreamConsumer --------------------------
(* Instances of StreamConsumer for TLC. *)
EXTENDS StreamConsumer

CONSTANTS w1, w2, n1, n2

TwoWorkers  == {w1, w2}
TwoNames    == {n1, n2}

OwnNames    == [w \in TwoWorkers |-> IF w = w1 THEN n1 ELSE n2]
=============================================================================
