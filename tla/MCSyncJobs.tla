----------------------------- MODULE MCSyncJobs -----------------------------
(* Two devices; one has the key, or the first one made, and rotates it,    *)
(* the other wants it.                                                     *)
EXTENDS SyncJobs

CONSTANTS a, b

Two == {a, b}
OneOffers == [d \in Two |-> IF d = a THEN {"offer", "rotate"} ELSE {"receive"}]
=============================================================================
