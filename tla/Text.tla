-------------------------------- MODULE Text --------------------------------
(***************************************************************************)
(* The text functions of the runtime: split, join, strip, count and fmt    *)
(* (abs.c), CSV files (abs_csv.c), base64 (abs_encode.c, abs_ws.c) and the *)
(* padding of the two SHA implementations (abs_ws.c, abs_crypto.c).  A     *)
(* text is a sequence of characters; isspace is true of " " only.          *)
(***************************************************************************)
EXTENDS Integers, SequencesExt

CONSTANT LineCap      \* size of csv_read's line buffer, its NUL included

Onward(s, i) == SubSeq(s, i, Len(s))

\* strstr: the first place where p stands in s, 0 for none.
StandsAt(p, s, i) == SubSeq(s, i, i + Len(p) - 1) = p
Strstr(s, p) ==
    LET at == {i \in 1..Len(s) - Len(p) + 1 : StandsAt(p, s, i)}
    IN IF at = {} THEN 0 ELSE CHOOSE i \in at : \A j \in at : i <= j

\* Bug: the search goes on one character after the delimiter's first.
After_bug(s, at, d) == Onward(s, at + 1)
After(s, at, d) == Onward(s, at + Len(d))
RECURSIVE SplitBy(_, _)
SplitBy(s, d) ==
    LET at == Strstr(s, d)
    IN IF at = 0 THEN <<s>> ELSE <<SubSeq(s, 1, at - 1)>> \o SplitBy(After(s, at, d), d)
Split(s, d) == IF d # <<>> THEN SplitBy(s, d) ELSE IF s = <<>> THEN <<s>> ELSE [i \in DOMAIN s |-> <<s[i]>>]

Join(d, parts) == FlattenSeq([i \in DOMAIN parts |-> parts[i] \o (IF i < Len(parts) THEN d ELSE <<>>)])

RECURSIVE CountText(_, _)
CountText(s, p) == IF p = <<>> \/ Strstr(s, p) = 0 THEN 0 ELSE 1 + CountText(After(s, Strstr(s, p), p), p)

RECURSIVE LStrip(_)
LStrip(s) == IF s # <<>> /\ Head(s) = " " THEN LStrip(Tail(s)) ELSE s
Strip(s) == Reverse(LStrip(Reverse(LStrip(s))))

StartsWith(s, p) == Len(p) <= Len(s) /\ SubSeq(s, 1, Len(p)) = p
EndsWith(s, p) == Len(p) <= Len(s) /\ Onward(s, Len(s) - Len(p) + 1) = p

\* fmt ends its arguments with a NULL, which prints nothing; what a further {}
\* would read is undefined.
Undefined == <<"undefined">>
RECURSIVE Fmt(_, _)
Fmt(f, args) ==
    IF f = <<>> THEN <<>>
    ELSE IF ~StartsWith(f, <<"{", "}">>) THEN <<Head(f)>> \o Fmt(Tail(f), args)
    ELSE IF args = <<>> THEN (IF Strstr(Onward(f, 3), <<"{", "}">>) = 0 THEN Onward(f, 3) ELSE Undefined)
    ELSE Head(args) \o Fmt(Onward(f, 3), Tail(args))

----------------------------------------------------------------------------
(* CSV files.  Digits and a "." make a number.                             *)

Field(type, text) == [type |-> type, text |-> text]
Digits == {"0", "1"}
IsInt(f) == f # <<>> /\ \A i \in DOMAIN f : f[i] \in Digits
IsFloat(f) == \E i \in DOMAIN f : f[i] = "." /\ IsInt(SubSeq(f, 1, i - 1) \o Onward(f, i + 1))
Typed(f) == Field(IF IsInt(f) THEN "int" ELSE IF IsFloat(f) THEN "float" ELSE "str", f)

\* %g drops the "." of a float that has no fraction.
Printed(v) ==
    CASE v.type = "float" -> IF Last(v.text) = "." THEN Front(v.text) ELSE v.text
      [] v.type \in {"int", "str"} -> v.text
      [] OTHER -> <<>>
CsvWrite(rows) ==
    FlattenSeq([i \in DOMAIN rows |->
        Join(<<",">>, [j \in DOMAIN rows[i] |-> Printed(rows[i][j])]) \o <<"\n">>])

\* fgets: up to a newline, or as much as the buffer holds.
LineEnd(s) ==
    LET nl == Strstr(s, <<"\n">>) IN IF nl \in 1..LineCap - 1 THEN nl ELSE IF Len(s) < LineCap THEN Len(s) ELSE LineCap - 1
RECURSIVE CsvRead(_)
CsvRead(s) ==
    IF s = <<>> THEN <<>>
    ELSE LET fields == SplitBy(SelectSeq(SubSeq(s, 1, LineEnd(s)), LAMBDA c : c # "\n"), <<",">>)
         IN <<[j \in DOMAIN fields |-> Typed(fields[j])]>> \o CsvRead(Onward(s, LineEnd(s) + 1))

----------------------------------------------------------------------------
(* base64: bytes are numbers, a character is its index in the table        *)

Equals == 64
\* Bug: the second = is left out.
Third_bug(v, more) == (v \div 64) % 64
Third(v, more) == IF more THEN (v \div 64) % 64 ELSE Equals
Group(b, i) ==
    LET Byte(k) == IF i + k <= Len(b) THEN b[i + k] ELSE 0
        v == 65536 * Byte(0) + 256 * Byte(1) + Byte(2)
    IN <<(v \div 262144) % 64, (v \div 4096) % 64, Third(v, i + 1 <= Len(b)), IF i + 2 <= Len(b) THEN v % 64 ELSE Equals>>
Base64(b) == FlattenSeq([g \in 1..((Len(b) + 2) \div 3) |-> Group(b, 3 * g - 2)])

----------------------------------------------------------------------------
(* sha1_bytes and sha256_bytes: the blocks that are hashed                 *)

Zeros(n) == [i \in 1..n |-> 0]
BitLength(n) == [k \in 1..8 |-> IF k < 5 THEN 0 ELSE ((8 * n) \div 256^(8 - k)) % 256]
\* Bug: a rest of 56 bytes still gets the length into its block.
Spills_bug(rem) == rem > 57
Spills(rem) == rem > 56
ShaBlocks(msg) ==
    LET whole == Len(msg) \div 64
        tail == Onward(msg, 64 * whole + 1) \o <<128>>
        first == IF Spills(Len(tail)) THEN <<tail \o Zeros(64 - Len(tail))>> ELSE <<>>
        rest == IF Spills(Len(tail)) THEN <<>> ELSE tail
    IN [i \in 1..whole |-> SubSeq(msg, 64 * i - 63, 64 * i)]
       \o first \o <<rest \o Zeros(56 - Len(rest)) \o BitLength(Len(msg))>>
=============================================================================
