-------------------------- MODULE DynArrayProofs ---------------------------
(***************************************************************************)
(* DynArray for every width of size_t, every element size and every set of *)
(* requests: the capacity is backed by memory, no junk is ever exposed,    *)
(* and the array implements the sequence of VectorSpec.                    *)
(***************************************************************************)
EXTENDS DynArray, TLAPS

Sorts ==
    /\ cap \in 0 .. SizeMax /\ len \in 0 .. cap /\ alloc \in 0 .. SizeMax
    /\ buf \in [0 .. cap - 1 -> Elems \cup {JUNK}]
    /\ ret \in {"ok", "fail"}

IInv == Sorts /\ alloc = cap * ElemSize /\ NoJunkInside

\* A capacity that passes the test of abs_dynarray_reserve does not wrap.
LEMMA CapacityFits ==
    ASSUME NEW c \in Nat, CanReserve(c)
    PROVE Wrap(c * ElemSize) = c * ElemSize /\ c * ElemSize \in 0 .. SizeMax
          /\ c \in 0 .. SizeMax
<1> DEFINE q == SizeMax \div ElemSize
<1>0. SizeMax \in Nat /\ ElemSize \in Nat /\ ElemSize >= 1
    BY ArrayAssumption, SMT
<1>1. q \in Nat /\ q * ElemSize <= SizeMax
    BY <1>0, SMT
<1>2. c <= q
    BY DEF CanReserve
<1> HIDE DEF q
<1>3. c * ElemSize <= q * ElemSize /\ c * ElemSize \in Nat /\ c <= c * ElemSize
    BY <1>0, <1>1, <1>2, SMT
<1>4. c * ElemSize \in 0 .. SizeMax /\ c \in 0 .. SizeMax
    <2>1. q * ElemSize \in Nat
        BY <1>0, <1>1, SMT
    <2> QED BY <1>0, <1>1, <1>3, <2>1, SMT
<1>5. \A x \in 0 .. SizeMax : x % (SizeMax + 1) = x
    BY <1>0, SMT
<1> QED BY <1>4, <1>5 DEF Wrap

\* The cells after realloc: the old ones, then junk.
LEMMA ExtendedCells ==
    ASSUME Sorts, NEW c \in Nat, c >= cap
    PROVE /\ Extended(c) \in [0 .. c - 1 -> Elems \cup {JUNK}]
          /\ \A x \in 0 .. cap - 1 : Extended(c)[x] = buf[x]
BY ArrayAssumption, SMT DEF Extended, Sorts

\* The cells after memset.
LEMMA ZeroedCells ==
    ASSUME Sorts, NEW k \in Nat, NEW c \in Nat, k <= c,
           NEW b \in [0 .. c - 1 -> Elems \cup {JUNK}]
    PROVE /\ Zeroed(b, k) \in [0 .. c - 1 -> Elems \cup {JUNK}]
          /\ \A x \in 0 .. k - 1 :
                Zeroed(b, k)[x] = IF x < len THEN b[x] ELSE ZERO
BY ArrayAssumption, SMT DEF Zeroed, Sorts

\* A full array has a larger capacity to ask for.
LEMMA PushCapGrows ==
    ASSUME Sorts PROVE PushCap \in Nat /\ PushCap > cap
BY ArrayAssumption, SMT DEF PushCap, Sorts

\* The indices of a shorter array are indices of the longer one.
LEMMA FewerIndices ==
    ASSUME NEW m \in Int, NEW n \in Int, m <= n
    PROVE \A x \in 0 .. m - 1 : x \in 0 .. n - 1
BY SMT

\* An array without memory satisfies the invariant.
LEMMA InitInv == Init => IInv
<1> SUFFICES ASSUME Init PROVE IInv
    OBVIOUS
<1>1. SizeMax \in Nat /\ ElemSize \in Nat
    BY ArrayAssumption
<1>2. Sorts
    BY <1>1, SMT DEF Init, Sorts
<1> QED BY <1>1, <1>2, SMT DEF Init, IInv, NoJunkInside

-----------------------------------------------------------------------------
\* What each operation does to the array, said element by element.

\* A push stores its element behind the others.
LEMMA PushStep ==
    ASSUME Sorts, alloc = cap * ElemSize, NEW e \in Elems, Push(e)
    PROVE /\ Sorts' /\ alloc' = cap' * ElemSize
          /\ len' = len + 1 /\ buf'[len] = e
          /\ \A x \in 0 .. len - 1 : buf'[x] = buf[x]
<1>1. CASE len < cap
    BY <1>1, ArrayAssumption, SMT DEF Push, Sorts
<1>2. CASE ~(len < cap)
    <2> DEFINE c == PushCap
    <2>1. c \in Nat /\ c > cap
        BY PushCapGrows
    <2>2. CanReserve(c) /\ alloc' = Wrap(c * ElemSize) /\ cap' = c
          /\ buf' = [Extended(c) EXCEPT ![len] = e]
          /\ len' = len + 1 /\ ret' = "ok"
        BY <1>2 DEF Push, Reserved
    <2> HIDE DEF c
    <2>3. alloc' = c * ElemSize /\ alloc' \in 0 .. SizeMax /\ c \in 0 .. SizeMax
        BY <2>1, <2>2, CapacityFits
    <2>4. /\ Extended(c) \in [0 .. c - 1 -> Elems \cup {JUNK}]
          /\ \A x \in 0 .. cap - 1 : Extended(c)[x] = buf[x]
        BY <2>1, ExtendedCells, SMT DEF Sorts
    <2>5. len \in 0 .. c - 1 /\ len = cap
        BY <1>2, <2>1, SMT DEF Sorts
    <2> HIDE DEF c
    <2>6. /\ buf' \in [0 .. c - 1 -> Elems \cup {JUNK}]
          /\ buf'[len] = e
          /\ \A x \in 0 .. len - 1 : buf'[x] = buf[x]
        BY <2>2, <2>4, <2>5, SMT DEF Sorts
    <2> QED BY <2>1, <2>2, <2>3, <2>5, <2>6, SMT DEF Sorts
<1> QED BY <1>1, <1>2

\* A reserve keeps every element.
LEMMA ReserveStep ==
    ASSUME Sorts, alloc = cap * ElemSize, NEW c \in Reserves, Reserve(c)
    PROVE /\ Sorts' /\ alloc' = cap' * ElemSize
          /\ len' = len
          /\ \A x \in 0 .. len - 1 : buf'[x] = buf[x]
<1>1. c \in Nat /\ c > cap
    BY ArrayAssumption, SMT DEF Reserve
<1>2. alloc' = c * ElemSize /\ alloc' \in 0 .. SizeMax /\ c \in 0 .. SizeMax
    BY <1>1, CapacityFits DEF Reserve, Reserved
<1>3. /\ Extended(c) \in [0 .. c - 1 -> Elems \cup {JUNK}]
      /\ \A x \in 0 .. cap - 1 : Extended(c)[x] = buf[x]
    BY <1>1, ExtendedCells, SMT DEF Sorts
<1> QED BY <1>1, <1>2, <1>3, SMT DEF Reserve, Reserved, Sorts

\* A resize keeps the elements it can and zeroes the new ones.
LEMMA ResizeStep ==
    ASSUME Sorts, alloc = cap * ElemSize, NEW k \in Lengths, Resize(k)
    PROVE /\ Sorts' /\ alloc' = cap' * ElemSize
          /\ len' = k
          /\ \A x \in 0 .. k - 1 : buf'[x] = IF x < len THEN buf[x] ELSE ZERO
<1>0. k \in Nat
    BY ArrayAssumption
<1>1. CASE k <= cap
    <2>1. buf' = Zeroed(buf, k) /\ alloc' = alloc /\ cap' = cap /\ len' = k
          /\ ret' = "ok"
        BY <1>1 DEF Resize
    <2>2. cap \in Nat /\ buf \in [0 .. cap - 1 -> Elems \cup {JUNK}]
        BY SMT DEF Sorts
    <2>3. /\ buf' \in [0 .. cap - 1 -> Elems \cup {JUNK}]
          /\ \A x \in 0 .. k - 1 : buf'[x] = IF x < len THEN buf[x] ELSE ZERO
        BY <1>0, <1>1, <2>1, <2>2, ZeroedCells
    <2> QED BY <1>0, <1>1, <2>1, <2>3, SMT DEF Sorts
<1>2. CASE ~(k <= cap)
    <2>1. buf' = Zeroed(Extended(k), k) /\ cap' = k /\ len' = k /\ ret' = "ok"
        BY <1>2 DEF Resize, Reserved
    <2>2. alloc' = k * ElemSize /\ alloc' \in 0 .. SizeMax /\ k \in 0 .. SizeMax
        BY <1>0, <1>2, CapacityFits DEF Resize, Reserved
    <2>3. k >= cap
        BY <1>0, <1>2, SMT DEF Sorts
    <2>4. /\ Extended(k) \in [0 .. k - 1 -> Elems \cup {JUNK}]
          /\ \A x \in 0 .. cap - 1 : Extended(k)[x] = buf[x]
        BY <1>0, <2>3, ExtendedCells
    <2>5. k <= k
        BY <1>0, SMT
    <2>6. /\ buf' \in [0 .. k - 1 -> Elems \cup {JUNK}]
          /\ \A x \in 0 .. k - 1 :
                buf'[x] = IF x < len THEN Extended(k)[x] ELSE ZERO
        BY <1>0, <2>1, <2>4, <2>5, ZeroedCells
    <2>7. \A x \in 0 .. k - 1 : x < len => x \in 0 .. cap - 1
        BY SMT DEF Sorts
    <2>8. \A x \in 0 .. k - 1 : buf'[x] = IF x < len THEN buf[x] ELSE ZERO
        BY <2>4, <2>6, <2>7
    <2> QED BY <1>0, <2>1, <2>2, <2>6, <2>8, SMT DEF Sorts
<1> QED BY <1>1, <1>2

\* A write through the pointer of at() changes one element.
LEMMA WriteStep ==
    ASSUME Sorts, alloc = cap * ElemSize, NEW e \in Elems,
           NEW x \in 0 .. len - 1, WriteAt(x, e)
    PROVE /\ Sorts' /\ alloc' = cap' * ElemSize
          /\ len' = len /\ buf'[x] = e
          /\ \A y \in 0 .. len - 1 : y # x => buf'[y] = buf[y]
BY SMT DEF WriteAt, Sorts

\* The steps that leave the elements alone, or drop them.
LEMMA ShorterStep ==
    ASSUME Sorts, alloc = cap * ElemSize, Pop \/ Clear \/ Fails \/ UNCHANGED vars
    PROVE /\ Sorts' /\ alloc' = cap' * ElemSize /\ buf' = buf /\ len' <= len
BY SMT DEF Pop, Clear, Fails, vars, Sorts

\* A destroyed array holds nothing.
LEMMA DestroyStep ==
    ASSUME Sorts, Destroy
    PROVE Sorts' /\ alloc' = cap' * ElemSize /\ len' = 0
<1>1. SizeMax \in Nat /\ ElemSize \in Nat
    BY ArrayAssumption
<1> QED BY <1>1, SMT DEF Destroy, Sorts

-----------------------------------------------------------------------------
\* Every step preserves the invariant.
LEMMA NextInv == IInv /\ [Next]_vars => IInv'
<1> SUFFICES ASSUME IInv, [Next]_vars PROVE IInv'
    OBVIOUS
<1> USE DEF IInv
<1>1. ASSUME NEW c \in Reserves, Reserve(c) PROVE IInv'
    BY <1>1, ReserveStep DEF NoJunkInside
<1>2. ASSUME NEW e \in Elems, Push(e) PROVE IInv'
    <2>1. /\ Sorts' /\ alloc' = cap' * ElemSize
          /\ len' = len + 1 /\ buf'[len] = e
          /\ \A x \in 0 .. len - 1 : buf'[x] = buf[x]
        BY <1>2, PushStep
    <2>2. len' - 1 = len /\ \A x \in 0 .. len : x = len \/ x \in 0 .. len - 1
        BY <2>1, SMT DEF Sorts
    <2>3. \A x \in 0 .. len : buf'[x] \in Elems
        BY <2>1, <2>2 DEF NoJunkInside
    <2> QED BY <2>1, <2>2, <2>3 DEF NoJunkInside
<1>3. ASSUME NEW e \in Elems, NEW x \in 0 .. len - 1, WriteAt(x, e) PROVE IInv'
    <2>1. /\ Sorts' /\ alloc' = cap' * ElemSize
          /\ len' = len /\ buf'[x] = e
          /\ \A y \in 0 .. len - 1 : y # x => buf'[y] = buf[y]
        BY <1>3, WriteStep
    <2>2. \A y \in 0 .. len - 1 : buf'[y] \in Elems
        BY <2>1 DEF NoJunkInside
    <2> QED BY <2>1, <2>2 DEF NoJunkInside
<1>4. ASSUME NEW k \in Lengths, Resize(k) PROVE IInv'
    <2>1. \A x \in 0 .. k - 1 : x < len => x \in 0 .. len - 1
        BY SMT DEF Sorts
    <2> QED BY <1>4, <2>1, ResizeStep, ArrayAssumption DEF NoJunkInside
<1>5. CASE Pop \/ Clear \/ Fails \/ UNCHANGED vars
    <2>1. Sorts' /\ alloc' = cap' * ElemSize /\ buf' = buf /\ len' <= len
        BY <1>5, ShorterStep
    <2>2. len \in Int /\ len' \in Int /\ len' <= len
        BY <2>1, SMT DEF Sorts
    <2>3. \A x \in 0 .. len' - 1 : x \in 0 .. len - 1
        BY <2>2, FewerIndices
    <2> QED BY <2>1, <2>3 DEF NoJunkInside
<1>6. CASE Destroy
    <2>1. Sorts' /\ alloc' = cap' * ElemSize /\ len' = 0
        BY <1>6, DestroyStep
    <2> QED BY <2>1, SMT DEF NoJunkInside
<1>7. ASSUME NEW c, ReserveFails(c) PROVE IInv'
    BY <1>7, <1>5 DEF ReserveFails
<1>8. ASSUME NEW c, ResizeFails(c) PROVE IInv'
    BY <1>8, <1>5 DEF ResizeFails
<1>9. CASE PushFails
    BY <1>9, <1>5 DEF PushFails
<1> QED BY <1>1, <1>2, <1>3, <1>4, <1>5, <1>6, <1>7, <1>8, <1>9 DEF Next

\* The inductive invariant holds in every state.
THEOREM Inductive == Spec => []IInv
<1> QED BY InitInv, NextInv, PTL DEF Spec

\* The variables keep their sorts.
THEOREM TypeCorrect == Spec => []TypeOK
<1>1. IInv => TypeOK
    BY ArrayAssumption, SMT DEF IInv, Sorts, TypeOK
<1> QED BY <1>1, Inductive, PTL

\* The capacity is backed by memory: no size computation ever wraps.
THEOREM MemoryBacksCapacity == Spec => []CapacityIsAllocated
<1>1. IInv => CapacityIsAllocated
    <2> SUFFICES ASSUME IInv PROVE CapacityIsAllocated
        OBVIOUS
    <2>1. alloc \in Int /\ cap * ElemSize = alloc /\ len <= cap
        BY SMT DEF IInv, Sorts
    <2> QED BY <2>1, SMT DEF CapacityIsAllocated
<1> QED BY <1>1, Inductive, PTL

\* No element below len is uninitialised memory.
THEOREM JunkStaysOutside == Spec => []NoJunkInside
<1>1. IInv => NoJunkInside
    BY DEF IInv
<1> QED BY <1>1, Inductive, PTL
-----------------------------------------------------------------------------
\* The refinement: each step of the array is a step of the sequence.

\* A write through at() changes one element of the sequence.
LEMMA ExceptCells ==
    ASSUME NEW D, NEW s, NEW x \in D, NEW e
    PROVE [[y \in D |-> s[y]] EXCEPT ![x] = e]
            = [y \in D |-> IF y = x THEN e ELSE s[y]]
OBVIOUS

\* push is Push.
LEMMA PushMaps ==
    ASSUME IInv, NEW e \in Elems, Push(e) PROVE Vector!Push(e)
<1>1. len \in Nat /\ len' = len + 1 /\ buf'[len] = e
      /\ \A x \in 0 .. len - 1 : buf'[x] = buf[x]
    BY PushStep, SMT DEF IInv, Sorts
<1>2. len' - 1 = len
    BY <1>1, SMT
<1>3. Contents' = [x \in 0 .. len |-> buf'[x]]
    BY <1>2 DEF Contents
<1>4. \A x \in 0 .. len :
        buf'[x] = IF x < len THEN Contents[x] ELSE e
    BY <1>1, SMT DEF Contents
<1>5. Contents' = [x \in 0 .. len |-> IF x < len THEN Contents[x] ELSE e]
    BY <1>3, <1>4
<1> QED BY <1>1, <1>5 DEF Vector!Push

\* resize is Resize.
LEMMA ResizeMaps ==
    ASSUME IInv, NEW k \in Lengths, Resize(k) PROVE Vector!Resize(k)
<1>1. len \in Nat /\ len' = k
      /\ \A x \in 0 .. k - 1 : buf'[x] = IF x < len THEN buf[x] ELSE ZERO
    BY ResizeStep, SMT DEF IInv, Sorts
<1>2. \A x \in 0 .. k - 1 :
        buf'[x] = IF x < len THEN Contents[x] ELSE ZERO
    BY <1>1, ArrayAssumption, SMT DEF Contents
<1>3. Contents' = [x \in 0 .. k - 1 |-> IF x < len THEN Contents[x] ELSE ZERO]
    BY <1>1, <1>2 DEF Contents
<1> QED BY <1>1, <1>3 DEF Vector!Resize

\* A write through at() is Set.
LEMMA WriteMaps ==
    ASSUME IInv, NEW e \in Elems, NEW x \in 0 .. len - 1, WriteAt(x, e)
    PROVE Vector!Set(x, e)
<1>1. len' = len /\ buf'[x] = e
      /\ \A y \in 0 .. len - 1 : y # x => buf'[y] = buf[y]
    BY WriteStep DEF IInv
<1>2. Contents' = [y \in 0 .. len - 1 |-> buf'[y]]
    BY <1>1 DEF Contents
<1>3. [Contents EXCEPT ![x] = e]
        = [y \in 0 .. len - 1 |-> IF y = x THEN e ELSE buf[y]]
    BY ExceptCells DEF Contents
<1>4. Contents' = [Contents EXCEPT ![x] = e]
    BY <1>1, <1>2, <1>3
<1> QED BY <1>1, <1>4 DEF Vector!Set

\* pop is Pop.
LEMMA PopMaps ==
    ASSUME IInv, Pop PROVE Vector!Pop
<1>1. len \in Nat /\ len > 0 /\ len' = len - 1 /\ buf' = buf
    BY SMT DEF Pop, IInv, Sorts
<1>2. len' - 1 = len - 2 /\ \A x \in 0 .. len - 2 : x \in 0 .. len - 1
    BY <1>1, SMT
<1>3. Contents' = [x \in 0 .. len - 2 |-> Contents[x]]
    BY <1>1, <1>2 DEF Contents
<1> QED BY <1>1, <1>3 DEF Vector!Pop

\* clear and destroy resize the sequence to nothing.
LEMMA EmptyMaps ==
    ASSUME IInv, len' = 0 PROVE Vector!Resize(0)
<1>1. Contents' = [x \in 0 .. 0 - 1 |-> IF x < len THEN Contents[x] ELSE ZERO]
    <2>1. 0 .. 0 - 1 = {}
        BY SMT
    <2>2. Contents' = [x \in 0 .. 0 - 1 |-> buf'[x]]
        BY DEF Contents
    <2> QED BY <2>1, <2>2
<1> QED BY <1>1 DEF Vector!Resize

\* A step that keeps the elements is a stuttering step.
LEMMA SameMaps ==
    ASSUME IInv, len' = len, \A x \in 0 .. len - 1 : buf'[x] = buf[x]
    PROVE UNCHANGED Vector!vars
BY DEF Contents, Vector!vars

\* Every step is a step of the sequence or leaves it alone.
LEMMA StepMaps ==
    IInv /\ [Next]_vars => [Vector!Next]_(Vector!vars)
<1> SUFFICES ASSUME IInv, [Next]_vars PROVE [Vector!Next]_(Vector!vars)
    OBVIOUS
<1>0. len \in 0 .. SizeMax /\ 0 \in 0 .. SizeMax
      /\ \A k \in Lengths : k \in 0 .. SizeMax
    BY ArrayAssumption, SMT DEF IInv, Sorts
<1>1. ASSUME NEW c \in Reserves, Reserve(c) PROVE UNCHANGED Vector!vars
    BY <1>1, ReserveStep, SameMaps DEF IInv
<1>2. ASSUME NEW e \in Elems, Push(e) PROVE Vector!Next
    BY <1>2, PushMaps DEF Vector!Next
<1>3. ASSUME NEW e \in Elems, NEW x \in 0 .. len - 1, WriteAt(x, e)
      PROVE Vector!Next
    BY <1>3, WriteMaps DEF Vector!Next
<1>4. ASSUME NEW k \in Lengths, Resize(k) PROVE Vector!Next
    BY <1>0, <1>4, ResizeMaps DEF Vector!Next
<1>5. CASE Pop
    BY <1>5, PopMaps DEF Vector!Next
<1>6. CASE Clear \/ Destroy
    BY <1>0, <1>6, EmptyMaps DEF Clear, Destroy, Vector!Next
<1>7. CASE Fails \/ UNCHANGED vars
    BY <1>7, SameMaps DEF Fails, vars
<1> QED BY <1>1, <1>2, <1>3, <1>4, <1>5, <1>6, <1>7
        DEF Next, ReserveFails, ResizeFails, PushFails

\* The array implements the sequence of elements it promises.
THEOREM ArrayImplementsVector == Spec => ImplementsVector
<1>1. Init => Vector!Init
    <2> SUFFICES ASSUME Init PROVE Vector!Init
        OBVIOUS
    <2>1. len = 0 /\ 0 - 1 = -1 /\ 0 .. -1 = {}
        BY SMT DEF Init
    <2>2. Contents = [x \in 0 .. -1 |-> ZERO]
        BY <2>1, SMT DEF Contents
    <2> QED BY <2>1, <2>2 DEF Vector!Init
<1>2. IInv /\ [Next]_vars => [Vector!Next]_(Vector!vars)
    BY StepMaps
<1> QED BY <1>1, <1>2, Inductive, PTL DEF Spec, ImplementsVector, Vector!Spec

\* The buffer is sound in every state, for every width of size_t, every element
\* size and every sequence of calls.
THEOREM BufferAlwaysOK == Spec => []BufferOK
<1>1. TypeOK /\ CapacityIsAllocated /\ NoJunkInside => BufferOK
    BY DEF BufferOK
<1> QED BY <1>1, TypeCorrect, MemoryBacksCapacity, JunkStaysOutside, PTL
=============================================================================
