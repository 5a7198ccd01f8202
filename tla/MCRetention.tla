---------------------------- MODULE MCRetention ----------------------------
(* Retention with two directories and days that stand for weeks.           *)
EXTENDS Retention

CONSTANT s1, s2

Days == [c \in Categories |-> IF c = "released" THEN 1 ELSE 2]
Kinds == {"released", "closed", "idle", "unattributed", "active"}
=============================================================================
