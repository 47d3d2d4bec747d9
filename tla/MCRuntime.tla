----------------------------- MODULE MCRuntime -----------------------------
(* An instance of Runtime: two events whose names share a bucket, an int     *)
(* and a text with the same cache key, a function that answers None, NULL or *)
(* a value, a range whose last step leaves the width of a long.              *)
EXTENDS Runtime

CONSTANTS click, close, five, ptr, h1, h2, a, b

MCKeys == {click, close, five, ptr}
MCEvents == {click, close}
MCHash == [k \in MCKeys |-> IF k \in MCEvents THEN 0 ELSE 1]
MCHandlers == {h1, h2}
MCArgs == {"int 5", "text 5", "list", "dict"}
MCKeyOf == [x \in MCArgs |-> CASE x = "list" -> ptr [] x = "dict" -> click [] OTHER -> five]
MCF == [x \in MCArgs |-> CASE x = "int 5" -> 1 [] x = "text 5" -> Error [] x = "list" -> None [] OTHER -> Null]
MCSources == {a, b}
MCRanges == {<<0, 5, 2>>, <<3, -3, -2>>, <<5, 7, 3>>}
=============================================================================
