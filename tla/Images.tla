------------------------------- MODULE Images -------------------------------
(***************************************************************************)
(* Images (abs_img.c): reading and writing PPM files, byte for byte, and   *)
(* the zero-padded convolution.  The rgb buffer is a sequence, three bytes *)
(* for a pixel, one row after the other.                                   *)
(***************************************************************************)
EXTENDS Integers, SequencesExt

NoImage == [width |-> 0, height |-> 0, rgb |-> <<>>]
ClampU8(v) == IF v < 0 THEN 0 ELSE IF v > 255 THEN 255 ELSE v
Space == 32
NewLine == 10
Hash == 35
Blank == {9, 10, 13, 32}
IsDigit(c) == c \in 48..57

RECURSIVE Decimal(_)
Decimal(n) == IF n < 10 THEN <<48 + n>> ELSE Append(Decimal(n \div 10), 48 + (n % 10))
\* atoi: the digits at the start.
RECURSIVE AtoiFrom(_, _)
AtoiFrom(t, n) == IF t = <<>> \/ ~IsDigit(t[1]) THEN n ELSE AtoiFrom(Tail(t), 10 * n + t[1] - 48)
Atoi(t) == IF t # <<>> /\ t[1] = 45 THEN -AtoiFrom(Tail(t), 0) ELSE AtoiFrom(t, 0)

\* abs_ppm_next_token: the token and the bytes after the one that ended it, a
\* comment's # excepted.  No token is <<>>.
RECURSIVE SkipComment(_)
SkipComment(f) == IF f = <<>> THEN <<>> ELSE IF f[1] = NewLine THEN Tail(f) ELSE SkipComment(Tail(f))
RECURSIVE SkipBlank(_)
SkipBlank(f) ==
    IF f = <<>> THEN <<>>
    ELSE IF f[1] = Hash THEN SkipBlank(SkipComment(f))
    ELSE IF f[1] \in Blank THEN SkipBlank(Tail(f)) ELSE f
\* Bug: the # that ends a token is lost.
AfterToken_bug(f, n) == SubSeq(f, n + 2, Len(f))
AfterToken(f, n) == SubSeq(f, IF n < Len(f) /\ f[n + 1] = Hash THEN n + 1 ELSE n + 2, Len(f))
NextToken(file) ==
    LET f == SkipBlank(file)
        ends == {n \in 1..Len(f) : n = Len(f) \/ f[n + 1] \in Blank \cup {Hash}}
        n == IF f = <<>> THEN 0 ELSE CHOOSE i \in ends : \A j \in ends : i <= j
    IN [text |-> SubSeq(f, 1, n), rest |-> AfterToken(f, n)]

\* P3: the values, scaled from maxval to 255.
Scaled(v, max) == ClampU8(IF max # 255 THEN (v * 255 + max \div 2) \div max ELSE v)
RECURSIVE ReadText(_, _, _, _)
ReadText(f, n, max, rgb) ==
    IF n = 0 THEN rgb
    ELSE LET t == NextToken(f) IN IF t.text = <<>> THEN <<>> ELSE ReadText(t.rest, n - 1, max, Append(rgb, Scaled(Atoi(t.text), max)))

\* P6: blanks before the first byte are skipped; with a maxval above 255 the
\* first byte of each two counts.
RECURSIVE SkipWhite(_)
SkipWhite(f) == IF f # <<>> /\ f[1] \in Blank THEN SkipWhite(Tail(f)) ELSE f
ReadRaw(file, n, max) ==
    LET f == SkipWhite(file)  step == IF max > 255 THEN 2 ELSE 1
    IN IF f = <<>> \/ Len(f) < step * (n - 1) + 1 THEN <<>> ELSE [i \in 1..n |-> f[step * (i - 1) + 1]]

\* fscanf skips blanks and reads the magic up to the next one.
HasMagic(f) ==
    /\ Len(f) >= 2 /\ SubSeq(f, 1, 2) \in {<<80, 51>>, <<80, 54>>}
    /\ Len(f) > 2 => f[3] \in Blank
LoadPpm(file) ==
    LET f == SkipWhite(file)
        w == NextToken(SubSeq(f, 3, Len(f)))  h == NextToken(w.rest)  m == NextToken(h.rest)
        width == Atoi(w.text)  height == Atoi(h.text)  max == Atoi(m.text)  n == width * height * 3
        rgb == IF f[2] = 51 THEN ReadText(m.rest, n, max, <<>>) ELSE ReadRaw(m.rest, n, max)
    IN IF ~HasMagic(f) \/ <<>> \in {w.text, h.text, m.text} THEN NoImage
       ELSE IF width <= 0 \/ height <= 0 \/ max \notin 1..65535 \/ rgb = <<>> THEN NoImage
       ELSE [width |-> width, height |-> height, rgb |-> rgb]

SavePpm(img) ==
    LET After(i) == IF i % 3 = 0 \/ i % 15 = 0 THEN <<NewLine>> ELSE <<Space>>
    IN <<80, 51, NewLine>> \o Decimal(img.width) \o <<Space>> \o Decimal(img.height) \o <<NewLine, 50, 53, 53, NewLine>>
       \o FlattenSeq([i \in DOMAIN img.rgb |-> Decimal(img.rgb[i]) \o After(i)])

----------------------------------------------------------------------------
(* abs_img_conv2d.  x, y and the places in the kernel count from 0.        *)

\* Bug: the last column of the image is taken for padding.
Inside_bug(img, x, y) == x \in 0..img.width - 2 /\ y \in 0..img.height - 1
Inside(img, x, y) == x \in 0..img.width - 1 /\ y \in 0..img.height - 1
Channel(img, x, y, c) == img.rgb[(y * img.width + x) * 3 + c]
Conv2d(img, size, kernel) ==
    LET pad == size \div 2
        Term(x, y, c, k) ==
            LET sx == x + ((k - 1) % size) - pad  sy == y + ((k - 1) \div size) - pad
            IN IF Inside(img, sx, sy) THEN kernel[k] * Channel(img, sx, sy, c) ELSE 0
        Acc(x, y, c) == FoldLeft(LAMBDA n, k : n + Term(x, y, c, k), 0, [k \in 1..size * size |-> k])
    IN IF size <= 0 \/ size % 2 = 0 THEN NoImage
       ELSE [img EXCEPT !.rgb = [i \in DOMAIN img.rgb |->
                LET p == (i - 1) \div 3 IN ClampU8(Acc(p % img.width, p \div img.width, ((i - 1) % 3) + 1))]]
=============================================================================
