------------------------------- MODULE Numbers -------------------------------
(***************************************************************************)
(* Statistics, combinatorics and number theory (abs_stats.c).  A long has  *)
(* LongWidth bits; a product or a sum that does not fit is Overflow, for   *)
(* the signed overflow that C leaves undefined.  Lists are sequences of    *)
(* integers; quotients are given as <<numerator, denominator>>.            *)
(***************************************************************************)
EXTENDS Integers, SequencesExt

CONSTANT LongWidth

Overflow == -(2^(LongWidth - 1)) - 1
Long(n) == IF n \in -(2^(LongWidth - 1))..2^(LongWidth - 1) - 1 THEN n ELSE Overflow
Times(a, b) == IF a = Overflow \/ b = Overflow THEN Overflow ELSE Long(a * b)
Plus(a, b) == IF a = Overflow \/ b = Overflow THEN Overflow ELSE Long(a + b)

Magnitude(n) == IF n >= 0 THEN n ELSE -n
RECURSIVE GcdOf(_, _)
GcdOf(a, b) == IF b = 0 THEN a ELSE GcdOf(b, a % b)
Gcd(a, b) == GcdOf(Magnitude(a), Magnitude(b))
\* Bug: the sign of b stays.
Unsigned_bug(n) == n
Unsigned(n) == IF n = Overflow THEN Overflow ELSE Magnitude(n)
Lcm(a, b) ==
    LET g == Gcd(a, b)  q == IF a >= 0 THEN a \div g ELSE -((-a) \div g)
    IN IF g = 0 THEN 0 ELSE Unsigned(Times(q, b))

RECURSIVE FactRec(_)
FactRec(n) == IF n <= 1 THEN 1 ELSE Times(n, FactRec(n - 1))
Factorial(n) == IF n < 0 THEN 0 ELSE FoldLeft(Times, 1, [i \in 1..n |-> i])

\* The nCr and nPr on objects divide factorials, -1 is their error.
Over(a, b) == IF a = Overflow \/ b = Overflow THEN Overflow ELSE a \div b
NCr(n, r) == IF n < 0 \/ r < 0 \/ r > n THEN -1 ELSE Over(FactRec(n), Times(FactRec(r), FactRec(n - r)))
NPr(n, r) == IF n < 0 \/ r < 0 \/ r > n THEN -1 ELSE Over(FactRec(n), FactRec(n - r))

AbsNPr(n, r) == IF r < 0 \/ r > n THEN 0 ELSE FoldLeft(Times, 1, [i \in 1..r |-> n - i + 1])
\* Bug: the quotient is taken before the product.
Choose_bug(acc, n, i) == Times(Over(acc, i), n - i + 1)
Choose(acc, n, i) == Over(Times(acc, n - i + 1), i)
AbsNCr(n, r) ==
    LET k == IF r > n \div 2 THEN n - r ELSE r
    IN IF r < 0 \/ r > n THEN 0 ELSE FoldLeft(LAMBDA acc, i : Choose(acc, n, i), 1, [i \in 1..k |-> i])

\* Trial divisors 5, 7, 11, 13, ...: i and i + 2 in steps of 6.
IsPrime(n) ==
    IF n <= 3 THEN n > 1
    ELSE n % 2 # 0 /\ n % 3 # 0 /\ \A i \in {6 * k - 1 : k \in 1..n} : i * i <= n => n % i # 0 /\ n % (i + 2) # 0

Fibonacci(n) ==
    IF n <= 0 THEN 0
    ELSE FoldLeft(LAMBDA ab, i : <<ab[2], Plus(ab[1], ab[2])>>, <<0, 1>>, [i \in 2..n |-> i])[2]

Clamp(x, min, max) == IF x < min THEN min ELSE IF x > max THEN max ELSE x

----------------------------------------------------------------------------
(* Statistics of a list or an array of numbers                             *)

Total(s) == FoldLeft(LAMBDA a, x : a + x, 0, s)
Mean(s) == <<Total(s), Len(s)>>
\* Bug: the upper one of two middle places is taken.
Middle_bug(n) == {n \div 2 + 1}
Middle(n) == IF n % 2 = 1 THEN {n \div 2 + 1} ELSE {n \div 2, n \div 2 + 1}
\* Without memory for the sorted copy it is 0.
Median(s, mem) ==
    LET t == SortSeq(s, <)  m == SetToSeq(Middle(Len(s)))
    IN IF mem THEN <<Total([i \in DOMAIN m |-> t[m[i]]]), Len(m)>> ELSE <<0, 1>>
Occurrences(s, x) == Cardinality({i \in DOMAIN s : s[i] = x})
Mode(s) == FoldLeft(LAMBDA b, x : IF Occurrences(s, x) > Occurrences(s, b) THEN x ELSE b, s[1], s)
\* The mean square of what is left after the mean is taken off, over n * n * n.
Variance(s) ==
    IF Len(s) < 2 THEN <<0, 0>>
    ELSE <<Total([i \in DOMAIN s |-> (Len(s) * s[i] - Total(s)) * (Len(s) * s[i] - Total(s))]), Len(s) * Len(s) * Len(s)>>
=============================================================================
