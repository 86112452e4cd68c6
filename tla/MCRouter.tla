------------------------------- MODULE MCRouter -------------------------------
(* Instances of Router for TLC: a task with a failover, and one without. *)
EXTENDS Router

CONSTANTS c1, c2, p1, p2, composition, grading

TwoCalls     == {c1, c2}
TwoProviders == {p1, p2}
TwoTasks     == {composition, grading}
FirstChoice  == [t \in TwoTasks |-> p1]
SecondChoice == [t \in TwoTasks |-> IF t = composition THEN p2 ELSE Nobody]
=============================================================================
