------------------------------- MODULE Regex -------------------------------
(***************************************************************************)
(* The regular expressions of abs_regex.c: literals, . (any), c* and the   *)
(* anchors ^ and $.  Patterns and texts are sequences of characters; where *)
(* the C recursion moves its two pointers, a recursive function has the    *)
(* positions p in the pattern and i in the text, and the NUL of either is  *)
(* the position after its last character.                                  *)
(***************************************************************************)
EXTENDS Caller, Integers, SequencesExt

CONSTANTS Patterns, ReTexts

\* The texts never hold the mark that the caller puts in place of a match.
Mark == "#"
ASSUME RegexAssumption ==
    /\ \A re \in Patterns : re \in Seq(STRING)
    /\ \A t \in ReTexts : t \in Seq(STRING) /\ \A i \in 1..Len(t) : t[i] # Mark

Hits(c, d) == c = d \/ c = "."
Starred(re, p) == p < Len(re) /\ re[p + 1] = "*"
AtEnd(re, p) == p = Len(re) /\ re[p] = "$"
Anchored(re) == re # <<>> /\ re[1] = "^"
First(re) == IF Anchored(re) THEN 2 ELSE 1

\* Bug: the closure never gives up taking characters.
StarStops_bug(rest, i) == FALSE
StarStops(rest, i) == rest[i]
MatchStar(c, text, rest) ==
    LET From[i \in 1..Len(text) + 1] ==
            StarStops(rest, i) \/ (i <= Len(text) /\ Hits(c, text[i]) /\ From[i + 1])
    IN From
MatchHere(re, text) ==
    LET Ends == 1..Len(text) + 1
        From[p \in 1..Len(re) + 1] ==
            IF p > Len(re) THEN [i \in Ends |-> TRUE]
            ELSE IF Starred(re, p) THEN MatchStar(re[p], text, From[p + 2])
            ELSE IF AtEnd(re, p) THEN [i \in Ends |-> i > Len(text)]
            ELSE [i \in Ends |-> i <= Len(text) /\ Hits(re[p], text[i]) /\ From[p + 1][i + 1]]
    IN From
ReMatch(re, text) ==
    \E i \in (IF Anchored(re) THEN {1} ELSE 1..Len(text) + 1) : MatchHere(re, text)[First(re)][i]

\* The length of the match at a position, -1 for none; the closure takes the
\* longest over all.
\* Bug: the closure takes the shortest.
Better_bug(a, b) == IF a >= 0 THEN a ELSE b
Better(a, b) == IF a >= b THEN a ELSE b
Longer(n) == IF n < 0 THEN -1 ELSE n + 1
StarLen(c, text, rest) ==
    LET From[i \in 1..Len(text) + 1] ==
            IF i > Len(text) \/ ~Hits(c, text[i]) THEN rest[i] ELSE Better(rest[i], Longer(From[i + 1]))
    IN From
MatchLen(re, text) ==
    LET Ends == 1..Len(text) + 1
        From[p \in 1..Len(re) + 1] ==
            IF p > Len(re) THEN [i \in Ends |-> 0]
            ELSE IF Starred(re, p) THEN StarLen(re[p], text, From[p + 2])
            ELSE IF AtEnd(re, p) THEN [i \in Ends |-> IF i > Len(text) THEN 0 ELSE -1]
            ELSE [i \in Ends |-> IF i <= Len(text) /\ Hits(re[p], text[i]) THEN Longer(From[p + 1][i + 1]) ELSE -1]
    IN From

\* ^ is skipped wherever the search has got to.
MatchAt(re, text) == MatchLen(re, text)[First(re)]

Stride(n) == IF n > 0 THEN n ELSE 1
Findall(re, text) ==
    LET len == MatchAt(re, text)
        From[i \in 1..Len(text) + 1] ==
            IF i > Len(text) THEN <<>>
            ELSE (IF len[i] >= 0 THEN <<SubSeq(text, i, i + len[i] - 1)>> ELSE <<>>) \o From[i + Stride(len[i])]
    IN From[1]
ReSub(re, repl, text) ==
    LET len == MatchAt(re, text)
        From[i \in 1..Len(text) + 1] ==
            IF i > Len(text) THEN <<>>
            ELSE (IF len[i] >= 0 THEN repl ELSE <<>>) \o (IF len[i] > 0 THEN <<>> ELSE <<text[i]>>) \o From[i + Stride(len[i])]
    IN From[1]

CallRegex == Idle /\ \E re \in Patterns :
    Called([fn |-> "regex", re |-> re, out |-> [t \in ReTexts |->
            [found |-> ReMatch(re, t), len |-> MatchAt(re, t)[1], all |-> Findall(re, t), sub |-> ReSub(re, <<Mark>>, t)]]])

\* The calls of these functions among those of any others.
RegexSpec == NoneCalled /\ [][CallRegex \/ ~Is("regex")']_call

----------------------------------------------------------------------------
(* What a pattern denotes from p on: the texts over chars, up to max long, *)
(* that it matches as a whole; $ can only stand at the end.                *)
OneOf(c, chars) == IF c = "." THEN chars ELSE chars \cap {c}
Concat(A, B) == {a \o b : a \in A, b \in B}
Language(re, chars, max) ==
    LET All == BoundedSeq(chars, max)
        From[p \in 1..Len(re) + 1] ==
            IF p > Len(re) \/ AtEnd(re, p) THEN {<<>>}
            ELSE IF Starred(re, p) THEN All \cap Concat(BoundedSeq(OneOf(re[p], chars), max), From[p + 2])
            ELSE All \cap Concat({<<c>> : c \in OneOf(re[p], chars)}, From[p + 1])
    IN From
EndsText(re) == re # <<>> /\ re[Len(re)] = "$"

\* The lengths of the texts of the language that stand at i.
LensAt(re, words, t, i) ==
    {n \in 0..Len(t) - i + 1 : SubSeq(t, i, i + n - 1) \in words /\ (EndsText(re) => i + n = Len(t) + 1)}

(* re_match is true of a text that matches as a whole, and false when no   *)
(* text of the pattern's language stands anywhere, with ^ at the start     *)
(* (what it says of a text that matches in part is not claimed: docs/      *)
(* regex.md:25 wants the whole).  A match is the longest one at its place. *)
(* For a pattern without ^, findall takes the leftmost matches that do not *)
(* overlap and leaves none out; sub puts the replacement once for each of  *)
(* them and keeps the rest of the text (abs_regex.c).  With ^ the code     *)
(* takes them at every place, against docs/regex.md:19, and only the match *)
(* at the start is claimed.                                                *)
AllMatches(longest, t, all) == \E at \in [1..Len(all) -> 1..Len(t)] :
    /\ \A k \in 1..Len(all) : longest[at[k]] >= 0 /\ all[k] = SubSeq(t, at[k], at[k] + longest[at[k]] - 1)
    /\ \A k, l \in 1..Len(all) : k < l => at[k] + Stride(longest[at[k]]) <= at[l]
    /\ \A i \in 1..Len(t) : longest[i] >= 0 => \E k \in 1..Len(all) : at[k] <= i /\ i < at[k] + Stride(longest[at[k]])
Letters(all) ==
    LET From[k \in 1..Len(all) + 1] == IF k > Len(all) THEN 0 ELSE Len(all[k]) + From[k + 1] IN From[1]
RegexMatchesLanguage == Is("regex") => \A t \in ReTexts :
    LET re == call.re
        words == Language(re, Range(t), Len(t))[First(re)]
        longest == [i \in 1..Len(t) + 1 |-> LET lens == LensAt(re, words, t, i) IN IF lens = {} THEN -1 ELSE Max(lens)]
        r == call.out[t]
    IN /\ longest[1] = Len(t) => r.found
       /\ r.found => \E i \in (IF Anchored(re) THEN {1} ELSE 1..Len(t) + 1) : longest[i] >= 0
       /\ r.len = longest[1]
       /\ ~Anchored(re) =>
            /\ AllMatches(longest, t, r.all)
            /\ Cardinality({j \in 1..Len(r.sub) : r.sub[j] = Mark}) = Len(r.all)
            /\ Len(r.sub) - Len(r.all) + Letters(r.all) = Len(t)
=============================================================================
