----------------------------- MODULE MCUpgrade -----------------------------
(* Two versions, the second with a newer format.                           *)
EXTENDS Upgrade, TLC

Formats == <<1, 2>>
Symmetry == Permutations(Helper)
=============================================================================
