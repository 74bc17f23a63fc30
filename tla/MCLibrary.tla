----------------------------- MODULE MCLibrary -----------------------------
(* Two sources over one record, or over two: a record's id is 1 or 2.      *)
EXTENDS Library
=============================================================================
