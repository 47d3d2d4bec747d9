------------------------------ MODULE MCExcept ------------------------------
(* An instance of Except for TLC. *)
EXTENDS Except, TLC
Symmetry == Permutations(Files)
=============================================================================
