---------------------------- MODULE Collections ----------------------------
(***************************************************************************)
(* Lists and sets of the runtime (abs.c) as operators on sequences: slices *)
(* and ranges, set algebra, equality, truth, aggregates, comprehensions.   *)
(* A value has a type and a value: a number, the rank of a string under    *)
(* strcmp (0 for the empty one), the sequence of the elements of a list or *)
(* a set.                                                                  *)
(***************************************************************************)
EXTENDS Sorting

IntObj(n) == [type |-> "int", value |-> n]
FloatObj(n) == [type |-> "float", value |-> n]
Error == [type |-> "error", value |-> 0]
None == [type |-> "none", value |-> 0]

IsNum(x) == x.type \in {"int", "float"}

\* eq: sets, dictionaries and all else are never equal, not even to themselves.
RECURSIVE Eq(_, _)
Eq(x, y) ==
    \/ IsNum(x) /\ IsNum(y) /\ x.value = y.value
    \/ x.type = y.type /\ x.type \in {"bool", "str", "none"} /\ x.value = y.value
    \/ /\ x.type = "list" /\ y.type = "list" /\ Len(x.value) = Len(y.value)
       /\ \A i \in DOMAIN x.value : Eq(x.value[i], y.value[i])

IsTrue(x) ==
    CASE x.type \in {"none", "error"} -> FALSE
      [] x.type \in {"int", "float", "str"} -> x.value # 0 [] x.type = "bool" -> x.value
      [] x.type \in {"list", "set"} -> x.value # <<>>
      [] OTHER -> TRUE

----------------------------------------------------------------------------
(* Indices: 0 is the first one here, as for the callers                    *)

Get(s, index) ==
    LET i == IF index < 0 THEN index + Len(s) ELSE index
    IN IF i \in 0..Len(s) - 1 THEN s[i + 1] ELSE Error

\* Bug: a negative start is not counted from the end.
From_bug(n, start) == IF start < 0 THEN 0 ELSE start
From(n, start) == LET a == IF start < 0 THEN start + n ELSE start IN IF a < 0 THEN 0 ELSE a
To(n, stop) == LET b == IF stop < 0 THEN stop + n ELSE stop IN IF b > n THEN n ELSE b
Slice(s, start, stop) == [i \in DOMAIN Upto(From(Len(s), start), To(Len(s), stop) - 1) |-> s[From(Len(s), start) + i]]

\* range_step: i is an int; a range over its end wraps and ends in Error here.
Endless == <<Error>>
RECURSIVE RangeStep(_, _, _)
RangeStep(start, stop, step) ==
    IF step = 0 \/ (IF step > 0 THEN start >= stop ELSE start <= stop) THEN <<>>
    ELSE <<IntObj(start)>> \o (IF ToInt(start + step) = start + step THEN RangeStep(start + step, stop, step) ELSE Endless)

----------------------------------------------------------------------------
(* Sets: set_contains, set_add, set_union, set_diff                        *)

\* The items of an int and a float are told apart by their type.
\* Bug: only numbers are compared.
SameItem_bug(x, y) == x.type = y.type /\ IsNum(x) /\ x.value = y.value
SameItem(x, y) == x.type = y.type /\ Eq(x, y)
SetContains(s, x) == \E i \in DOMAIN s : SameItem(s[i], x)
SetAdd(s, x) == IF SetContains(s, x) THEN s ELSE Append(s, x)
SetUnion(a, b) == FoldLeft(SetAdd, FoldLeft(SetAdd, <<>>, a), b)
SetDiff(a, b) == FoldLeft(LAMBDA r, x : IF SetContains(b, x) THEN r ELSE SetAdd(r, x), <<>>, a)

----------------------------------------------------------------------------
(* Aggregates and comprehensions                                           *)

Best(s, sign) == FoldLeft(LAMBDA b, x : IF sign * CompareObjs(x, b) > 0 THEN x ELSE b, Head(s), Tail(s))
MinVal(s) == IF s = <<>> THEN None ELSE Best(s, -1)
MaxVal(s) == IF s = <<>> THEN None ELSE Best(s, 1)
SumVal(s) ==
    LET total == FoldLeft(LAMBDA n, x : IF IsNum(x) THEN n + x.value ELSE n, 0, s)
    IN IF \E i \in DOMAIN s : s[i].type = "float" THEN FloatObj(total) ELSE IntObj(total)
AnyTrue(s) == \E i \in DOMAIN s : IsTrue(s[i])
AllTrue(s) == \A i \in DOMAIN s : IsTrue(s[i])
CountItem(s, x) == Cardinality({i \in DOMAIN s : CompareObjs(s[i], x) = 0})
ReversedSeq(s) == [i \in DOMAIN s |-> s[Len(s) + 1 - i]]
ZipLists(a, b) == [i \in 1..(IF Len(a) < Len(b) THEN Len(a) ELSE Len(b)) |-> <<a[i], b[i]>>]
\* The C functions they are given are functions on the items here.
ListComp(s, map, keep) == LET kept == SelectSeq(s, LAMBDA x : keep[x]) IN [i \in DOMAIN kept |-> map[kept[i]]]
MapFunc(s, f) == [i \in DOMAIN s |-> f[s[i]]]
FilterFunc(s, f) == SelectSeq(s, LAMBDA x : IsTrue(f[x]))
=============================================================================
