------------------------------- MODULE MCHold -------------------------------
(* The held shell with one or two connections and a handful of outputs.    *)
EXTENDS Hold, TLC

CONSTANTS c1, c2

TwoConns == {c1, c2}
LastAsk == {2}
NoAsks == {}
ConnSymmetry == Permutations(TwoConns)
=============================================================================
