------------------------------ MODULE Sorting ------------------------------
(***************************************************************************)
(* The sorting suite (abs_sort.c), sorted() and the random selections of   *)
(* abs.c, as operators on sequences.  A list item has a type, a value and  *)
(* an identity, so that a lost, doubled or overtaken item shows.  Indices  *)
(* count from 1.                                                           *)
(***************************************************************************)
EXTENDS Integers, SequencesExt

CONSTANTS
    Radix,        \* 10: count_sort_exp sorts by decimal digits
    IntWidth      \* bits of an int, for randint

Upto(a, b) == [i \in 1..(IF b < a THEN 0 ELSE b - a + 1) |-> a + i - 1]
Downto(a, b) == Reverse(Upto(b, a))

\* Ints and floats compare by value, strings by strcmp; all else is equal.
Kind(x) == IF x.type \in {"int", "float"} THEN "num" ELSE x.type
CompareObjs(x, y) ==
    IF Kind(x) # Kind(y) \/ Kind(x) \notin {"num", "str"} THEN 0
    ELSE IF x.value < y.value THEN -1 ELSE IF x.value > y.value THEN 1 ELSE 0

SwapItems(s, i, j) == [s EXCEPT ![i] = s[j], ![j] = s[i]]
OrderPair(s, j, sign) == IF sign * CompareObjs(s[j], s[j + 1]) > 0 THEN SwapItems(s, j, j + 1) ELSE s

\* sort_bubble, its visual twin and sorted(): sign is -1 for the reverse order.
\* sorted() copies item by item into a list of capacity 4; an append that gets
\* no memory to double that loses its item, and without a list the answer is
\* None, which holds none.  fails names the failing ones, 0 stands for the list.
BubblePass(s, n, sign) == FoldLeft(LAMBDA t, j : OrderPair(t, j, sign), s, Upto(1, n - 1))
Bubble(s, sign) == FoldLeft(LAMBDA t, n : BubblePass(t, n, sign), s, Downto(Len(s), 2))
SortBubble(s) == Bubble(s, 1)
Copied(s, fails) ==
    LET Full(n) == n \in {4 * 2^k : k \in 0..n}
        Add(t, i) == IF Full(Len(t)) /\ i \in fails THEN t ELSE Append(t, s[i])
    IN IF 0 \in fails THEN <<>> ELSE FoldLeft(Add, <<>>, Upto(1, Len(s)))
Sorted(s, reverse, fails) == Bubble(Copied(s, fails), IF reverse THEN -1 ELSE 1)

SortSelection(s) ==
    LET MinFrom(t, i) == FoldLeft(LAMBDA m, j : IF CompareObjs(t[j], t[m]) < 0 THEN j ELSE m, i, Upto(i + 1, Len(t)))
    IN FoldLeft(LAMBDA t, i : SwapItems(t, MinFrom(t, i), i), s, Upto(1, Len(s) - 1))

\* The item at i moves down by gap while the one there is greater.
RECURSIVE Insert(_, _, _)
Insert(s, i, gap) ==
    IF i > gap /\ CompareObjs(s[i - gap], s[i]) > 0 THEN Insert(SwapItems(s, i - gap, i), i - gap, gap) ELSE s
GapPass(s, gap) == FoldLeft(LAMBDA t, i : Insert(t, i, gap), s, Upto(gap + 1, Len(s)))
SortInsertion(s) == GapPass(s, 1)

RECURSIVE Shell(_, _)
Shell(s, gap) == IF gap = 0 THEN s ELSE Shell(GapPass(s, gap), gap \div 2)
SortShell(s) == Shell(s, Len(s) \div 2)

RECURSIVE Heapify(_, _, _)
Heapify(s, n, i) ==
    LET Larger(m, j) == IF j <= n /\ CompareObjs(s[j], s[m]) > 0 THEN j ELSE m
        largest == Larger(Larger(i, 2 * i), 2 * i + 1)
    IN IF largest = i THEN s ELSE Heapify(SwapItems(s, i, largest), n, largest)
SortHeap(s) ==
    LET heap == FoldLeft(LAMBDA t, i : Heapify(t, Len(s), i), s, Downto(Len(s) \div 2, 1))
    IN FoldLeft(LAMBDA t, i : Heapify(SwapItems(t, 1, i), i - 1, 1), heap, Downto(Len(s), 2))

\* merge: equal items come from the left.
\* Bug: equal items come from the right.
Fewer_bug(x, y) == CompareObjs(x, y) < 0
Fewer(x, y) == CompareObjs(x, y) <= 0
RECURSIVE Merged(_, _)
Merged(a, b) ==
    IF a = <<>> THEN b ELSE IF b = <<>> THEN a
    ELSE IF Fewer(Head(a), Head(b)) THEN <<Head(a)>> \o Merged(Tail(a), b)
    ELSE <<Head(b)>> \o Merged(a, Tail(b))

\* merge returns with the range as it is when it gets no memory; fails is the
\* set of the ranges for which that happens.
RECURSIVE MergeSort(_, _, _, _)
MergeSort(s, l, r, fails) ==
    IF l >= r THEN s
    ELSE LET m == l + (r - l) \div 2
             t == MergeSort(MergeSort(s, l, m, fails), m + 1, r, fails)
             run == Merged(SubSeq(t, l, m), SubSeq(t, m + 1, r))
         IN IF <<l, r>> \in fails THEN t ELSE [i \in DOMAIN t |-> IF i \in l..r THEN run[i - l + 1] ELSE t[i]]
SortMerge(s, fails) == MergeSort(s, 1, Len(s), fails)

\* partition: <<the list, the pivot's place>>.
\* Bug: the pivot stays where it was.
PutPivot_bug(t, i, high) == t
PutPivot(t, i, high) == SwapItems(t, i, high)
Partition(s, low, high) ==
    LET Small(acc, j) == IF CompareObjs(acc[1][j], s[high]) < 0
                         THEN <<SwapItems(acc[1], acc[2], j), acc[2] + 1>> ELSE acc
        end == FoldLeft(Small, <<s, low>>, Upto(low, high - 1))
    IN <<PutPivot(end[1], end[2], high), end[2]>>
RECURSIVE QuickSort(_, _, _)
QuickSort(s, low, high) ==
    IF low >= high THEN s
    ELSE LET p == Partition(s, low, high)
         IN QuickSort(QuickSort(p[1], low, p[2] - 1), p[2] + 1, high)
SortQuick(s) == QuickSort(s, 1, Len(s))

\* The counting pass of sort_counting and count_sort_exp: from the right, each
\* item goes to the place its count says.  Corrupt, a list that has lost its
\* items, stands for a count[] index outside the array.
Corrupt == <<>>
\* Bug: the list is walked from the left.
Walk_bug(n) == Upto(1, n)
Walk(n) == Downto(n, 1)
ByCount(s, index, size) ==
    LET At(i) == index[s[i].value]
        upto == [d \in 0..size - 1 |-> Cardinality({i \in DOMAIN s : At(i) <= d})]
        Put(acc, i) == [out |-> [acc.out EXCEPT ![acc.count[At(i)]] = s[i]], count |-> [acc.count EXCEPT ![At(i)] = @ - 1]]
    IN IF \E i \in DOMAIN s : At(i) \notin 0..size - 1 THEN Corrupt
       ELSE FoldLeft(Put, [out |-> s, count |-> upto], Walk(Len(s))).out

SortCounting(s, mem) ==
    LET values == {s[i].value : i \in DOMAIN s}
        min == CHOOSE v \in values : \A w \in values : v <= w
        max == CHOOSE v \in values : \A w \in values : v >= w
    IN IF s = <<>> \/ ~mem THEN s ELSE ByCount(s, [v \in Int |-> v - min], max - min + 1)

\* C divides towards zero.
Abs(n) == IF n < 0 THEN -n ELSE n
Quot(n, d) == IF (n < 0) = (d < 0) THEN Abs(n) \div Abs(d) ELSE -(Abs(n) \div Abs(d))
Rem(n, d) == n - d * Quot(n, d)
\* fails is the set of the digits whose pass gets no memory and does nothing.
RECURSIVE RadixFrom(_, _, _, _)
RadixFrom(s, max, exp, fails) ==
    IF s = Corrupt \/ max \div exp = 0 THEN s
    ELSE RadixFrom(IF exp \in fails THEN s ELSE ByCount(s, [v \in Int |-> Rem(Quot(v, exp), Radix)], Radix),
                   max, exp * Radix, fails)
SortRadix(s, fails) == RadixFrom(s, FoldLeft(LAMBDA m, x : IF x.value > m THEN x.value ELSE m, 0, s), 1, fails)

InOrder(s) == \A i \in 2..Len(s) : CompareObjs(s[i - 1], s[i]) <= 0

\* Place of an item equal to x, 0 for the code's -1.
\* Bug: one place too many is left out.
Below_bug(m) == m - 2
Below(m) == m - 1
RECURSIVE SearchIn(_, _, _, _)
SearchIn(s, x, l, r) == LET m == l + (r - l) \div 2  c == CompareObjs(s[m], x)
    IN IF l > r THEN 0 ELSE IF c = 0 THEN m
       ELSE IF c < 0 THEN SearchIn(s, x, m + 1, r) ELSE SearchIn(s, x, l, Below(m))
BinarySearch(s, x) == SearchIn(s, x, 1, Len(s))

----------------------------------------------------------------------------
(* Random choices.  picks[i] is what the i-th rand() is reduced to.        *)

\* Bug: an item is exchanged with any other of the list.
ShufflePicks_bug(n) == [2..n -> 1..n]
ShufflePicks(n) == {p \in [2..n -> 1..n] : \A i \in 2..n : p[i] <= i}
Shuffle(s, picks) == FoldLeft(LAMBDA t, i : SwapItems(t, i, picks[i]), s, Downto(Len(s), 2))

\* sort_bogo ends with some shuffle that is sorted.
SortBogo(s) == IF InOrder(s) THEN {s} ELSE {t \in {Shuffle(s, p) : p \in ShufflePicks(Len(s))} : InOrder(t)}

RECURSIVE Riffles(_, _)
Riffles(a, b) ==
    IF a = <<>> \/ b = <<>> THEN {a \o b}
    ELSE {<<Head(a)>> \o t : t \in Riffles(Tail(a), b)} \cup {<<Head(b)>> \o t : t \in Riffles(a, Tail(b))}
RiffleShuffle(s) == LET mid == Len(s) \div 2 IN Riffles(SubSeq(s, 1, mid), SubSeq(s, mid + 1, Len(s)))

\* sample: k swaps of the index table, each with a later place.
SamplePicks(n, k) == {p \in [1..k -> 1..n] : \A i \in 1..k : p[i] >= i}
Sample(s, k, picks) ==
    LET indices == FoldLeft(LAMBDA t, i : SwapItems(t, i, picks[i]), Upto(1, Len(s)), Upto(1, k))
    IN [i \in 1..k |-> s[indices[i]]]

\* randint: the range is cut to an int before it divides rand().
\* Trap, a number that no int is, stands for the division by zero.
Trap == {2^IntWidth}
ToInt(n) == ((n + 2^(IntWidth - 1)) % 2^IntWidth) - 2^(IntWidth - 1)
\* Bug: the upper end is left out.
Span_bug(lo, hi) == hi - lo
Span(lo, hi) == hi - lo + 1
Randint(a, b) ==
    LET lo == IF b < a THEN b ELSE a  hi == IF b < a THEN a ELSE b
        d == ToInt(Span(lo, hi))
    IN IF d = 0 THEN Trap ELSE {Rem(r, d) + lo : r \in 0..2^(IntWidth - 1) - 1}
=============================================================================
