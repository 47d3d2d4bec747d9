---------------------------- MODULE MCDynArray -----------------------------
(* An instance of DynArray: size_t of 6 bits, elements of 3 bytes, so that   *)
(* the tables of 8 and 10 elements fit in an object and 16 elements do not.  *)
EXTENDS DynArray

MCReserves == {0, 2, 5, 10, 22, 43, 63}
MCLengths == {0, 1, 3, 9, 22}
=============================================================================
