---------------------------- MODULE MCMembership ----------------------------
(***************************************************************************)
(* Instances of Membership for TLC: requests are interchangeable, and so   *)
(* are the users other than the creator.                                   *)
(***************************************************************************)
EXTENDS Membership, TLC

Symmetry == Permutations(Handlers) \cup Permutations(Users \ {Creator})
=============================================================================
