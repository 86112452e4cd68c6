------------------------------ MODULE MCIntake ------------------------------
(* Instances of Intake for TLC: a Meta batch of two messages, beside a       *)
(* delivery that is refused or ignored (an autoresponder).                  *)
EXTENDS Intake

CONSTANTS m1, m2, i1, i2, batch, junk, r1, r2

AllMessages   == {m1, m2}
AllDeliveries == {batch, junk}
CarriesAll    == [d \in AllDeliveries |->
                     CASE d = batch -> {m1, m2} [] OTHER -> {m2}]
VerdictAll    == [d \in AllDeliveries |->
                     IF d = batch THEN {"accepted"} ELSE {"ignored", "refused"}]

AllIds        == {i1, i2}
OwnIds        == [m \in AllMessages |-> IF m = m1 THEN i1 ELSE i2]

TwoRequests   == {r1, r2}
=============================================================================
