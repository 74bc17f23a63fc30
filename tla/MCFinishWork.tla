---------------------------- MODULE MCFinishWork ----------------------------
(* Two shells and the downloads beside them.                               *)
EXTENDS FinishWork, TLC

CONSTANTS a, b

Symmetry == Permutations(Panes)
=============================================================================
