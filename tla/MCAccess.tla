------------------------------ MODULE MCAccess ------------------------------
(* Access with two people, an auditor, and two requests at once.           *)
EXTENDS Access, TLC

CONSTANTS p1, p2

Alike == Permutations(Requests) \cup Permutations({p1, p2})
=============================================================================
