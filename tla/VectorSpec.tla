---------------------------- MODULE VectorSpec -----------------------------
(***************************************************************************)
(* What abs_dynarray promises: a sequence of elements numbered from 0.     *)
(* An operation that needs memory may fail; it then changes nothing.       *)
(***************************************************************************)
EXTENDS Integers

CONSTANTS
    Elems,        \* what an element may hold
    ZERO,         \* an element of zero bytes
    Sizes         \* lengths a sequence can be resized to

VARIABLES items, size    \* items[0], ..., items[size - 1]

vars == <<items, size>>

Init == size = 0 /\ items = [x \in 0 .. -1 |-> ZERO]

Push(e) ==
    /\ size' = size + 1
    /\ items' = [x \in 0 .. size |-> IF x < size THEN items[x] ELSE e]

Pop ==
    /\ size > 0
    /\ size' = size - 1
    /\ items' = [x \in 0 .. size - 2 |-> items[x]]

\* New elements are zero, also where an element was popped before.
Resize(k) ==
    /\ size' = k
    /\ items' = [x \in 0 .. k - 1 |-> IF x < size THEN items[x] ELSE ZERO]

Set(x, e) ==
    /\ x \in 0 .. size - 1
    /\ size' = size
    /\ items' = [items EXCEPT ![x] = e]

Next ==
    \/ \E e \in Elems : Push(e) \/ (\E x \in 0 .. size - 1 : Set(x, e))
    \/ Pop
    \/ \E k \in Sizes : Resize(k)

Spec == Init /\ [][Next]_vars
=============================================================================
