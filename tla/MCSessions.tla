----------------------------- MODULE MCSessions -----------------------------
(* Sessions with two requests at once, for one person or two.              *)
EXTENDS Sessions, TLC

Alike == Permutations(Requests) \cup Permutations(Ids) \cup Permutations(People)
=============================================================================
