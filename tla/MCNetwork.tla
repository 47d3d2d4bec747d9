----------------------------- MODULE MCNetwork -----------------------------
(* An instance of Network with bytes of three bits: texts of length 0 and 1  *)
(* have the one-byte length, 2 to 7 the short one, 8 and 9 the long one; a   *)
(* binary message holds a NUL; one path continues another.                   *)
EXTENDS Network, Bitwise

Bytes(n) == [i \in 1..n |-> ((2 * i + n) % 7) + 1]
MCMessages == {<<>>, Bytes(1), Bytes(8), Bytes(9), <<5, 0, 3>>}
MCXor == [a \in 0..7 |-> [b \in 0..7 |-> a ^^ b]]
MCMasks == {<<3, 6>>}
MCKeys == {<<"k1", "k2">>, <<"k1", "k2", "k3">>}
MCPaths == {<<"/a">>, <<"/a", "/b">>}
=============================================================================
