----------------------------- MODULE MCHashMap -----------------------------
(* An instance of HashMapRefines for TLC: a table of 2 slots that grows.    *)
EXTENDS HashMapRefines, TLC

CONSTANTS k1, k2, k3

\* k1 and k2 collide in every table, and their run of slots wraps around the
\* end of the table into the slot k3 hashes to.
MCHash == (k1 :> 7) @@ (k2 :> 15) @@ (k3 :> 0)
MCHome(k, c) == MCHash[k] % c
=============================================================================
