------------------------------ MODULE DynArray ------------------------------
(***************************************************************************)
(* abs_dynarray.c: a growable array of elements of elem_size bytes.        *)
(*                                                                         *)
(* buf is the memory at data, one cell per element that the capacity       *)
(* promises: an element, ZERO after memset, or JUNK where nothing was      *)
(* written since the bytes were allocated.  size_t has the values          *)
(* 0 .. SizeMax and its products wrap; no object is larger than            *)
(* SizeMax \div 2 bytes.  The operations do not loop: each is one step.    *)
(*                                                                         *)
(* Operators whose name ends in _bug are the wrong versions against which  *)
(* the properties below were tried; the specification uses none of them.   *)
(***************************************************************************)
EXTENDS Integers

CONSTANTS
    SizeMax,      \* SIZE_MAX
    ElemSize,     \* elem_size given to abs_dynarray_init
    Elems,        \* what the caller stores in an element
    ZERO, JUNK,   \* an element of zero bytes; bytes nobody wrote
    Reserves,     \* capacities the callers reserve
    Lengths       \* lengths the callers resize to

MaxObject == SizeMax \div 2

ASSUME ArrayAssumption ==
    /\ SizeMax \in Nat /\ SizeMax % 2 = 1 /\ ElemSize \in Nat \ {0}
    /\ ZERO \in Elems /\ JUNK \notin Elems
    /\ Reserves \subseteq 0 .. SizeMax /\ Lengths \subseteq 0 .. SizeMax

VARIABLES
    alloc,        \* bytes allocated at data; 0 when data is NULL
    buf,          \* the cells 0 .. cap - 1
    len, cap,     \* struct abs_dynarray
    ret           \* result of the last call

vars == <<alloc, buf, len, cap, ret>>

Wrap(x) == x % (SizeMax + 1)

Init ==
    /\ alloc = 0 /\ buf = [x \in 0 .. -1 |-> JUNK]
    /\ len = 0 /\ cap = 0 /\ ret = "ok"

\* Bug: one cell more than the capacity.
Extended_bug(c) == [x \in 0 .. c |-> IF x < cap THEN buf[x] ELSE JUNK]

\* realloc keeps the old cells; the cells behind them are not written.
Extended(c) == [x \in 0 .. c - 1 |-> IF x < cap THEN buf[x] ELSE JUNK]

\* Bug: the product with elem_size is not tested for overflow.
CanReserve_bug(c) == Wrap(c * ElemSize) <= MaxObject

\* abs_dynarray_reserve: c elements need a size that does not wrap around.
CanReserve(c) ==
    /\ c <= SizeMax \div ElemSize
    /\ Wrap(c * ElemSize) <= MaxObject

Reserved(c) == alloc' = Wrap(c * ElemSize) /\ cap' = c

Reserve(c) ==
    /\ c > cap
    /\ CanReserve(c) /\ Reserved(c)
    /\ buf' = Extended(c)
    /\ ret' = "ok" /\ UNCHANGED len

\* The overflow test, or realloc, turns the request down.
Fails == ret' = "fail" /\ UNCHANGED <<alloc, buf, len, cap>>

ReserveFails(c) == c > cap /\ Fails

\* The capacity push asks for when the array is full.
PushCap ==
    IF cap > SizeMax \div 2 THEN cap + 1
    ELSE IF cap > 0 THEN cap * 2 ELSE 8

Push(e) ==
    /\ IF len < cap
       THEN buf' = [buf EXCEPT ![len] = e] /\ UNCHANGED <<alloc, cap>>
       ELSE /\ CanReserve(PushCap) /\ Reserved(PushCap)
            /\ buf' = [Extended(PushCap) EXCEPT ![len] = e]
    /\ len' = len + 1 /\ ret' = "ok"

PushFails == len = cap /\ Fails

Pop == len > 0 /\ len' = len - 1 /\ UNCHANGED <<alloc, buf, cap, ret>>

\* Bug: the first new element is not zeroed.
Zeroed_bug(b, k) == [x \in DOMAIN b |-> IF len < x /\ x < k THEN ZERO ELSE b[x]]

\* Bug: only memory that was never written is zeroed.
ZeroedFresh_bug(b, k) == [x \in DOMAIN b |-> IF b[x] = JUNK /\ x < k THEN ZERO ELSE b[x]]

\* memset over the elements that are added.
Zeroed(b, k) == [x \in DOMAIN b |-> IF len <= x /\ x < k THEN ZERO ELSE b[x]]

Resize(k) ==
    /\ IF k <= cap
       THEN buf' = Zeroed(buf, k) /\ UNCHANGED <<alloc, cap>>
       ELSE CanReserve(k) /\ Reserved(k) /\ buf' = Zeroed(Extended(k), k)
    /\ len' = k /\ ret' = "ok"

ResizeFails(k) == k > cap /\ Fails

\* The caller writes through the pointer abs_dynarray_at returns.
WriteAt(x, e) ==
    /\ x < len
    /\ buf' = [buf EXCEPT ![x] = e]
    /\ UNCHANGED <<alloc, len, cap, ret>>

Clear == len' = 0 /\ UNCHANGED <<alloc, buf, cap, ret>>

Destroy ==
    /\ alloc' = 0 /\ buf' = [x \in 0 .. -1 |-> JUNK]
    /\ len' = 0 /\ cap' = 0 /\ UNCHANGED ret

Next ==
    \/ \E c \in Reserves : Reserve(c) \/ ReserveFails(c)
    \/ \E e \in Elems : Push(e) \/ (\E x \in 0 .. len - 1 : WriteAt(x, e))
    \/ PushFails
    \/ Pop
    \/ \E k \in Lengths : Resize(k) \/ ResizeFails(k)
    \/ Clear
    \/ Destroy

Spec == Init /\ [][Next]_vars

-----------------------------------------------------------------------------
\* The sorts of the variables.
TypeOK ==
    /\ cap \in 0 .. SizeMax /\ len \in 0 .. SizeMax /\ alloc \in 0 .. SizeMax
    /\ buf \in [0 .. cap - 1 -> Elems \cup {JUNK}]
    /\ ret \in {"ok", "fail"}

\* Every element the capacity promises is really allocated, at its full size:
\* no product with elem_size wrapped on the way to realloc, through any
\* sequence of reserve, push and resize.
CapacityIsAllocated == len <= cap /\ cap * ElemSize <= alloc

\* An element below len is one the caller stored or resize zeroed, never what
\* malloc returned or what nobody initialised.
NoJunkInside == \A x \in 0 .. len - 1 : buf[x] \in Elems

\* The buffer of abs_dynarray.c is sound in every state.
BufferOK == TypeOK /\ CapacityIsAllocated /\ NoJunkInside

\* The sequence the array stands for.
Contents == [x \in 0 .. len - 1 |-> buf[x]]

Vector == INSTANCE VectorSpec WITH items <- Contents, size <- len, Sizes <- 0 .. SizeMax

\* The array implements the sequence: pop followed by resize brings back zeros
\* and not the popped element, and a failed call changes no element.
ImplementsVector == Vector!Spec
=============================================================================
