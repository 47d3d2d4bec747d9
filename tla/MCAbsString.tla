---------------------------- MODULE MCAbsString ----------------------------
(* An instance of AbsString; size_t has 7 bits. *)
EXTENDS AbsString

MCLens == {0, 1, 7, 16, 33, 63}
MCReserves == {0, 3, 16, 20, 62, 63, 126}
=============================================================================
