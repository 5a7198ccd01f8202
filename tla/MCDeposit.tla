----------------------------- MODULE MCDeposit -----------------------------
(* Two files in two directories: with different names, and with the same. *)
EXTENDS Deposit, TLC

CONSTANTS pa, pb, na, nb

Two == <<pa, pb>>
Apart == pa :> na @@ pb :> nb
Alike == pa :> na @@ pb :> na
=============================================================================
