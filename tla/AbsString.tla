----------------------------- MODULE AbsString -----------------------------
(***************************************************************************)
(* abs_string.c: a growable byte buffer with room for a terminating NUL.   *)
(*                                                                         *)
(* The text is abstracted to its length and to whether data[len] is NUL.   *)
(* size_t has the values 0 .. SizeMax, sums wrap at SizeMax + 1, and no    *)
(* object is larger than SizeMax \div 2 bytes (PTRDIFF_MAX).  An append is *)
(* a call, one step per iteration of the doubling loop, then the write;    *)
(* every other operation is one step.                                      *)
(*                                                                         *)
(* Operators whose name ends in _bug are the wrong versions against which  *)
(* the properties below were tried; the specification uses none of them.   *)
(***************************************************************************)
EXTENDS Integers

CONSTANTS
    SizeMax,      \* SIZE_MAX
    FirstCap,     \* capacity of the first allocation made by grow (16)
    Lens,         \* lengths of the texts the callers append
    FmtLens,      \* lengths vsnprintf reports for the formatted text
    Reserves      \* capacities the callers reserve

MaxObject == SizeMax \div 2

ASSUME StringAssumption ==
    /\ SizeMax \in Nat /\ SizeMax % 2 = 1      \* a power of two, minus one
    /\ FirstCap \in Nat /\ 0 < FirstCap /\ 2 * FirstCap < SizeMax
    /\ Lens \subseteq 0 .. MaxObject /\ FmtLens \subseteq 0 .. MaxObject
    /\ Reserves \subseteq 0 .. SizeMax

VARIABLES
    data,         \* "null", "live", or "freed": a pointer to freed memory
    alloc,        \* bytes allocated at data
    len, cap,     \* struct abs_string
    nul,          \* is data[len] '\0'?
    pc, op, n, newCap,   \* the running append: its length, abs_string_grow's new_cap
    ret           \* result of the last call

text == <<data, alloc, len, cap, nul>>
call == <<pc, op, n, newCap>>
vars == <<text, call, ret>>

Wrap(x) == x % (SizeMax + 1)
Need == Wrap(len + n)                   \* need_len of abs_string_grow

Empty == /\ data' = "null" /\ alloc' = 0 /\ len' = 0 /\ cap' = 0 /\ nul' = FALSE

Init ==
    /\ data = "null" /\ alloc = 0 /\ len = 0 /\ cap = 0 /\ nul = FALSE
    /\ pc = "ready" /\ op = "none" /\ n = 0 /\ newCap = 0 /\ ret = "ok"

Idle == pc = "ready" /\ data # "freed"

Return(r) == /\ pc' = "ready" /\ op' = "none" /\ n' = 0 /\ newCap' = 0 /\ ret' = r

\* realloc(data, size) succeeds: new bytes hold anything, old ones are kept.
Resized(size, c) ==
    /\ size <= MaxObject
    /\ size = 0 => data = "null"
    /\ data' = "live" /\ alloc' = size /\ cap' = c
    /\ IF data = "null" THEN nul' \in BOOLEAN ELSE nul' = nul

\* realloc(data, size) returns NULL.  With size 0 the old block is gone as well.
NotResized(size) ==
    /\ data' = IF size = 0 /\ data = "live" THEN "freed" ELSE data
    /\ UNCHANGED <<alloc, cap, nul>>

-----------------------------------------------------------------------------
\* abs_string_append_n, _append_cstr, _append_char; abs_string_append_fmt

\* Bug: doubling starts at the capacity, also when it is 0.
StartGrow_bug(o, k) == op' = o /\ n' = k /\ newCap' = cap

StartGrow(o, k) ==
    /\ op' = o /\ n' = k
    /\ newCap' = IF cap > 0 THEN cap ELSE FirstCap

CallAppend(k) ==
    /\ Idle
    /\ IF k = 0 THEN ret' = "ok" /\ UNCHANGED call
                ELSE pc' = "grow" /\ StartGrow("append", k) /\ UNCHANGED ret
    /\ UNCHANGED text

\* Only the other appends return early when there is nothing to add.
CallAppendFmt(k) ==
    /\ Idle
    /\ pc' = "grow" /\ StartGrow("fmt", k)
    /\ UNCHANGED <<text, ret>>

\* abs_string_set_cstr: clear, then append.
CallSet(k) ==
    /\ Idle
    /\ len' = 0 /\ nul' = (data # "null")
    /\ IF k = 0 THEN ret' = "ok" /\ UNCHANGED call
                ELSE pc' = "grow" /\ StartGrow("set", k) /\ UNCHANGED ret
    /\ UNCHANGED <<data, alloc, cap>>

\* Bug: the capacity is doubled past SIZE_MAX / 2.
Double_bug ==
    /\ pc = "grow" /\ Need > cap
    /\ newCap < Need
    /\ newCap' = newCap * 2
    /\ UNCHANGED <<text, pc, op, n, ret>>

Double ==
    /\ pc = "grow" /\ Need > cap
    /\ newCap < Need
    /\ newCap' = IF newCap > SizeMax \div 2 THEN Need ELSE newCap * 2
    /\ UNCHANGED <<text, pc, op, n, ret>>

Grow ==
    /\ pc = "grow" /\ Need > cap
    /\ newCap >= Need
    /\ Resized(Wrap(newCap + 1), newCap)
    /\ pc' = "write"
    /\ UNCHANGED <<len, op, n, newCap, ret>>

GrowFails ==
    /\ pc = "grow" /\ Need > cap
    /\ newCap >= Need
    /\ NotResized(Wrap(newCap + 1))
    /\ Return("fail") /\ UNCHANGED len

\* Bug: the byte of the NUL is taken for room.
HasRoom_bug ==
    /\ pc = "grow" /\ Need <= cap + 1
    /\ pc' = "write"
    /\ UNCHANGED <<text, op, n, newCap, ret>>

HasRoom ==
    /\ pc = "grow" /\ Need <= cap
    /\ pc' = "write"
    /\ UNCHANGED <<text, op, n, newCap, ret>>

\* Bug: the bytes are copied without the NUL.
Write_bug ==
    /\ pc = "write" /\ data = "live"
    /\ len' = Wrap(len + n) /\ nul' \in BOOLEAN
    /\ Return("ok") /\ UNCHANGED <<data, alloc, cap>>

\* memcpy and the NUL, or vsnprintf, which writes its own NUL.
Write ==
    /\ pc = "write" /\ data = "live"
    /\ len' = Wrap(len + n) /\ nul' = TRUE
    /\ Return("ok") /\ UNCHANGED <<data, alloc, cap>>

\* vsnprintf is handed data + len = NULL with a size of 1: the process dies.
WriteToNull ==
    /\ pc = "write" /\ data = "null"
    /\ pc' = "crashed"
    /\ UNCHANGED <<text, op, n, newCap, ret>>

-----------------------------------------------------------------------------
Reserve(c) ==
    /\ Idle /\ c > cap
    /\ Resized(Wrap(c + 1), c) /\ ret' = "ok"
    /\ UNCHANGED <<len, call>>

ReserveFails(c) ==
    /\ Idle /\ c > cap
    /\ NotResized(Wrap(c + 1)) /\ ret' = "fail"
    /\ UNCHANGED <<len, call>>

\* Bug: the buffer shrinks to the text, without the NUL.
ShrinkToFit_bug ==
    /\ Idle /\ data = "live" /\ len < cap
    /\ \/ Resized(len, len) /\ ret' = "ok"
       \/ NotResized(len) /\ ret' = "fail"
    /\ UNCHANGED <<len, call>>

ShrinkToFit ==
    /\ Idle /\ data = "live" /\ len < cap
    /\ \/ Resized(Wrap(len + 1), len) /\ ret' = "ok"
       \/ NotResized(Wrap(len + 1)) /\ ret' = "fail"
    /\ UNCHANGED <<len, call>>

Clear ==
    /\ Idle
    /\ len' = 0 /\ nul' = (data = "live")
    /\ UNCHANGED <<data, alloc, cap, call, ret>>

\* abs_string_destroy frees the buffer, abs_string_take gives it to the caller.
Destroy == Idle /\ Empty /\ UNCHANGED <<call, ret>>

Next ==
    \/ \E k \in Lens : CallAppend(k) \/ CallSet(k)
    \/ \E k \in FmtLens : CallAppendFmt(k)
    \/ Double \/ Grow \/ GrowFails \/ HasRoom \/ Write \/ WriteToNull
    \/ \E c \in Reserves : Reserve(c) \/ ReserveFails(c)
    \/ ShrinkToFit \/ Clear \/ Destroy

Spec == Init /\ [][Next]_vars

\* The thread that made the call keeps running.
FairSpec == Spec /\ WF_vars(Double \/ Grow \/ GrowFails \/ HasRoom \/ Write \/ WriteToNull)

-----------------------------------------------------------------------------
\* The sorts of the variables; a size_t never leaves 0 .. SizeMax.
TypeOK ==
    /\ data \in {"null", "live", "freed"}
    /\ {alloc, len, cap, n, newCap} \subseteq 0 .. SizeMax
    /\ nul \in BOOLEAN
    /\ pc \in {"ready", "grow", "write", "crashed"}
    /\ op \in {"none", "append", "fmt", "set"}
    /\ ret \in {"ok", "fail"}

\* The capacity a string reports, and the NUL behind it, are really allocated,
\* and the text and its NUL are inside: what every write to data relies on,
\* across the doubling loop, reserve, shrink_to_fit and failed reallocs.
BufferHolds == data = "live" => len <= cap /\ cap < alloc

\* A write that is about to happen ends inside the buffer: the len + n that was
\* tested against the capacity is the len + n that is written.
WriteFits == pc = "write" /\ data = "live" => len + n < alloc

\* A string with text is terminated at all times, so abs_string_c_str returns a
\* C string of abs_string_len bytes.
TextIsTerminated == len > 0 => data = "live" /\ nul

\* data never points to freed memory: a realloc that returns NULL has kept the
\* old block, which holds as long as no size passed to it is 0.
NeverDangles == data # "freed"

\* The buffer of abs_string.c is sound in every state, between two steps of an
\* append too, whichever realloc failed on the way.
BufferOK == TypeOK /\ BufferHolds /\ NeverDangles /\ TextIsTerminated

\* The doubling loop ends: an append always returns, or takes the process down.
AppendReturns == pc \in {"grow", "write"} ~> pc \in {"ready", "crashed"}

\* docs/strings.md: "The buffer is always NUL-terminated: data[len] is '\0'";
\* broken by reserve on a string without a buffer, which writes no NUL.
AlwaysTerminated == pc = "ready" /\ data = "live" => nul
=============================================================================
