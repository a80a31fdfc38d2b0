--------------------------- MODULE MCVersionStore ---------------------------
(***************************************************************************)
(* Instances of VersionStore for TLC: requests are interchangeable.        *)
(***************************************************************************)
EXTENDS VersionStore, TLC

Symmetry == Permutations(Handlers)
=============================================================================
