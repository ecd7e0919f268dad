-------------------------- MODULE MCControllerLease --------------------------
(* ControllerLease for model checking: operation ids are interchangeable.   *)
EXTENDS ControllerLease, TLC

Symmetry == Permutations(OpIDs)
=============================================================================
