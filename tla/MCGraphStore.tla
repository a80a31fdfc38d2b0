---------------------------- MODULE MCGraphStore ----------------------------
(* Constants for model-checking GraphStore. *)
EXTENDS GraphStore

CONSTANTS e1, e2, a1, g1, r1
=============================================================================
