---------------------------- MODULE MCReviewGate ----------------------------
(* ReviewGate on a small instance: three drafts of the record, one of which   *)
(* the validators refuse, and two READMEs, in every course of events.        *)
EXTENDS ReviewGate, TLC

CONSTANTS c1, c2, c3, r1, r2

\* No action and no property tells the READMEs apart.
Symmetry == Permutations(Readmes)
=============================================================================
