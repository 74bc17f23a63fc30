------------------------- MODULE MCLanguageServers -------------------------
(* Two buffers, of one server or of two.                                   *)
EXTENDS LanguageServers

CONSTANTS a, b, x, y

OneServer == [c \in {a, b} |-> x]
EachItsOwn == [c \in {a, b} |-> IF c = a THEN x ELSE y]

(* Released, of one of two buffers that are alike: they begin and fare the *)
(* same, and so does the other.                                            *)
ReleasedA == Leaves(a)
=============================================================================
