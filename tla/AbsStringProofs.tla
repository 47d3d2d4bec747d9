-------------------------- MODULE AbsStringProofs --------------------------
(***************************************************************************)
(* AbsString for every width of size_t and every set of lengths: as long   *)
(* as nobody reserves SIZE_MAX bytes, every write stays inside the buffer, *)
(* the text stays terminated and no realloc loses the old block.           *)
(***************************************************************************)
EXTENDS AbsString, TLAPS

\* size_t values, and the sorts the other variables have.
Sorts ==
    /\ data \in {"null", "live"} /\ alloc \in 0 .. MaxObject
    /\ len \in 0 .. SizeMax /\ cap \in 0 .. SizeMax
    /\ n \in 0 .. MaxObject /\ newCap \in 0 .. SizeMax
    /\ nul \in BOOLEAN /\ pc \in {"ready", "grow", "write", "crashed"}
    /\ op \in {"none", "append", "fmt", "set"} /\ ret \in {"ok", "fail"}

\* A string without a buffer is empty; a buffer has room for cap bytes and NUL.
Room ==
    /\ data = "null" => len = 0 /\ cap = 0
    /\ data = "live" => len <= cap /\ cap < alloc

\* Where a running append has got to: grow never tries a capacity whose size
\* wraps to 0, and the write is inside the capacity.
Progress ==
    /\ pc = "grow" => newCap < SizeMax
    /\ pc = "write" => len + n <= cap

IInv == Sorts /\ Room /\ Progress /\ TextIsTerminated

\* MaxObject is half of SizeMax, rounded down.
LEMMA Half ==
    MaxObject \in Nat /\ 2 * MaxObject + 1 = SizeMax
BY StringAssumption, SMT DEF MaxObject

\* A size_t that is in range does not wrap.
LEMMA NoWrap ==
    ASSUME NEW x \in 0 .. SizeMax PROVE Wrap(x) = x
BY StringAssumption, SMT DEF Wrap

\* A string without a buffer satisfies the invariant.
LEMMA InitInv == Init => IInv
<1> SUFFICES ASSUME Init PROVE IInv
    OBVIOUS
<1>1. nul \in BOOLEAN
    BY DEF Init
<1>2. Sorts
    BY <1>1, Half, SMT DEF Init, Sorts
<1> QED BY <1>2, SMT DEF Init, IInv, Room, Progress, TextIsTerminated

\* len + n is computed without wrapping around.
LEMMA NeedIsSum ==
    ASSUME Sorts, Room PROVE Need = len + n /\ Need \in 0 .. SizeMax - 1
<1>1. len + n \in 0 .. SizeMax - 1
    BY Half, SMT DEF Sorts, Room
<1> QED BY <1>1, NoWrap, Half, SMT DEF Need

\* One step per action, under the assumption on the callers of reserve.
LEMMA NextInv ==
    ASSUME SizeMax \notin Reserves PROVE IInv /\ [Next]_vars => IInv'
<1> SUFFICES ASSUME IInv, [Next]_vars PROVE IInv'
    OBVIOUS
<1> USE DEF IInv
<1>h. MaxObject \in Nat /\ 2 * MaxObject + 1 = SizeMax
    BY Half
<1>a. SizeMax \in Nat /\ FirstCap \in Nat /\ 0 < FirstCap /\ FirstCap <= MaxObject
    BY StringAssumption, <1>h, SMT
<1>1. ASSUME NEW k \in Lens, CallAppend(k) PROVE IInv'
    <2>1. k \in 0 .. MaxObject
        BY StringAssumption
    <2> QED BY <1>1, <1>h, <1>a, <2>1, SMT
        DEF CallAppend, StartGrow, Idle, text, call, Sorts, Room, Progress,
            TextIsTerminated
<1>2. ASSUME NEW k \in Lens, CallSet(k) PROVE IInv'
    <2>1. k \in 0 .. MaxObject
        BY StringAssumption
    <2>2. nul' \in BOOLEAN
        BY <1>2 DEF CallSet
    <2> QED BY <1>2, <1>h, <1>a, <2>1, <2>2, SMT
        DEF CallSet, StartGrow, Idle, call, Sorts, Room, Progress,
            TextIsTerminated
<1>3. ASSUME NEW k \in FmtLens, CallAppendFmt(k) PROVE IInv'
    <2>1. k \in 0 .. MaxObject
        BY StringAssumption
    <2> QED BY <1>3, <1>h, <1>a, <2>1, SMT
        DEF CallAppendFmt, StartGrow, Idle, text, call, Sorts, Room, Progress,
            TextIsTerminated
<1>4. CASE Double
    <2>1. newCap' \in 0 .. SizeMax - 1
        BY <1>4, <1>h, <1>a, NeedIsSum, SMT DEF Double, MaxObject, Sorts
    <2> QED BY <1>4, <1>h, <2>1, SMT
        DEF Double, text, Sorts, Room, Progress, TextIsTerminated
<1>5. CASE Grow
    <2>1. Wrap(newCap + 1) = newCap + 1
        BY <1>5, <1>h, NoWrap, SMT DEF Grow, Sorts, Progress
    <2>2. nul' \in BOOLEAN /\ (len > 0 => nul')
        BY <1>5 DEF Grow, Resized, Sorts, TextIsTerminated
    <2>3. Need = len + n
        BY NeedIsSum
    <2> QED BY <1>5, <1>h, <2>1, <2>2, <2>3, SMT
        DEF Grow, Resized, Sorts, Room, Progress, TextIsTerminated
<1>6. CASE GrowFails
    <2>1. Wrap(newCap + 1) = newCap + 1
        BY <1>6, <1>h, NoWrap, SMT DEF GrowFails, Sorts, Progress
    <2> QED BY <1>6, <1>h, <2>1, SMT
        DEF GrowFails, NotResized, Return, Sorts, Room, Progress, TextIsTerminated
<1>7. CASE HasRoom
    BY <1>7, <1>h, NeedIsSum, SMT
    DEF HasRoom, text, Sorts, Room, Progress, TextIsTerminated
<1>8. CASE Write
    <2>1. Wrap(len + n) = len + n
        BY NeedIsSum DEF Need
    <2> QED BY <1>8, <1>h, <2>1, SMT
        DEF Write, Return, Sorts, Room, Progress, TextIsTerminated
<1>9. CASE WriteToNull
    BY <1>9, SMT DEF WriteToNull, text, Sorts, Room, Progress, TextIsTerminated
<1>10. ASSUME NEW c \in Reserves, Reserve(c) PROVE IInv'
    <2>1. c \in 0 .. SizeMax - 1
        BY StringAssumption, <1>a, SMT
    <2>2. Wrap(c + 1) = c + 1
        BY <2>1, <1>h, NoWrap, SMT
    <2>3. nul' \in BOOLEAN /\ (len > 0 => nul')
        BY <1>10 DEF Reserve, Resized, Sorts, TextIsTerminated
    <2> QED BY <1>10, <1>h, <2>1, <2>2, <2>3, SMT
        DEF Reserve, Resized, Idle, call, Sorts, Room, Progress, TextIsTerminated
<1>11. ASSUME NEW c \in Reserves, ReserveFails(c) PROVE IInv'
    <2>1. c \in 0 .. SizeMax - 1
        BY StringAssumption, <1>a, SMT
    <2>2. Wrap(c + 1) = c + 1
        BY <2>1, <1>h, NoWrap, SMT
    <2> QED BY <1>11, <1>h, <2>1, <2>2, SMT
        DEF ReserveFails, NotResized, call, Sorts, Room, Progress, TextIsTerminated
<1>12. CASE ShrinkToFit
    <2>1. Wrap(len + 1) = len + 1
        BY <1>12, <1>h, NoWrap, SMT DEF ShrinkToFit, Sorts, Room
    <2>2. nul' \in BOOLEAN /\ (len > 0 => nul')
        BY <1>12 DEF ShrinkToFit, Resized, NotResized, Sorts, TextIsTerminated
    <2> QED BY <1>12, <1>h, <2>1, <2>2, SMT
        DEF ShrinkToFit, Resized, NotResized, Idle, call, Sorts, Room, Progress,
            TextIsTerminated
<1>13. CASE Clear
    <2>1. nul' \in BOOLEAN
        BY <1>13 DEF Clear
    <2> QED BY <1>13, <1>h, <2>1, SMT
        DEF Clear, Idle, call, Sorts, Room, Progress, TextIsTerminated
<1>14. CASE Destroy
    <2>1. nul' \in BOOLEAN
        BY <1>14 DEF Destroy, Empty
    <2>2. Sorts'
        BY <1>14, <1>h, <2>1, SMT DEF Destroy, Empty, call, Sorts
    <2> QED BY <1>14, <2>2, SMT
        DEF Destroy, Empty, Idle, call, Sorts, Room, Progress, TextIsTerminated
<1>15. CASE UNCHANGED vars
    BY <1>15, SMT DEF vars, text, call, Sorts, Room, Progress, TextIsTerminated
<1> QED BY <1>1, <1>2, <1>3, <1>4, <1>5, <1>6, <1>7, <1>8, <1>9, <1>10, <1>11,
           <1>12, <1>13, <1>14, <1>15 DEF Next

\* The inductive invariant holds in every state.
THEOREM Inductive ==
    ASSUME SizeMax \notin Reserves PROVE Spec => []IInv
<1>1. IInv /\ [Next]_vars => IInv'
    BY NextInv
<1> QED BY <1>1, InitInv, PTL DEF Spec

\* Every write of abs_string.c, and the NUL behind it, is inside the buffer.
THEOREM WritesStayInside ==
    ASSUME SizeMax \notin Reserves PROVE Spec => [](BufferHolds /\ WriteFits)
<1>1. IInv => BufferHolds /\ WriteFits
    BY Half, SMT DEF IInv, Sorts, Room, Progress, BufferHolds, WriteFits
<1> QED BY <1>1, Inductive, PTL

\* A string with text is NUL-terminated in every state.
THEOREM TextEndsInNul ==
    ASSUME SizeMax \notin Reserves PROVE Spec => []TextIsTerminated
<1>1. IInv => TextIsTerminated
    BY DEF IInv
<1> QED BY <1>1, Inductive, PTL

\* No realloc frees the buffer behind the string's back.
THEOREM BufferNeverDangles ==
    ASSUME SizeMax \notin Reserves PROVE Spec => []NeverDangles
<1>1. IInv => NeverDangles
    BY DEF IInv, Sorts, NeverDangles
<1> QED BY <1>1, Inductive, PTL

\* The variables keep their sorts.
THEOREM TypeCorrect ==
    ASSUME SizeMax \notin Reserves PROVE Spec => []TypeOK
<1>1. IInv => TypeOK
    BY Half, SMT DEF IInv, Sorts, TypeOK
<1> QED BY <1>1, Inductive, PTL

\* The buffer is sound in every state, for every width of size_t.
THEOREM BufferAlwaysOK ==
    ASSUME SizeMax \notin Reserves PROVE Spec => []BufferOK
<1>1. TypeOK /\ (BufferHolds /\ WriteFits) /\ NeverDangles /\ TextIsTerminated => BufferOK
    BY DEF BufferOK
<1> QED BY <1>1, TypeCorrect, WritesStayInside, BufferNeverDangles, TextEndsInNul, PTL
=============================================================================
