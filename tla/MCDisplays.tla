------------------------------ MODULE MCDisplays ------------------------------
(* The displays of a composer, for TLC. *)
EXTENDS SDMCompDisplays, TLC

Symmetry == Permutations(Client)
=============================================================================
