--------------------------- MODULE NetworkProofs ---------------------------
(***************************************************************************)
(* Proofs about Network: the frames of the web socket are kept, and the    *)
(* web server serves one connection after the other.                       *)
(*                                                                         *)
(* 1. A number written in k bytes is read back (Division ... BigEndianIs). *)
(* 2. A frame that was encoded decodes to its message, whatever follows    *)
(*    it, and no part of it does (FieldIs ... DecodesWhole).               *)
(* 3. Kept: what ws_recv has read and what is on its way consist of one    *)
(*    frame for each message that is not answered yet.                     *)
(* 4. HttpInv: who waits has got nothing, and from recv() to the last      *)
(*    send() the answer is that of the connection being served.            *)
(***************************************************************************)
EXTENDS Network, WellFoundedInduction, SequenceTheorems, TLAPS

----------------------------------------------------------------------------
(* Numbers                                                                 *)

LEMMA LessIsWellFounded == IsWellFoundedOn({p \in Nat \X Nat : p[1] < p[2]}, Nat)
BY NatLessThanWellFounded, Zenon DEF OpToRel

LEMMA LeastNat ==
    ASSUME NEW S \in SUBSET Nat, S # {}
    PROVE  \E x \in S : \A y \in S : x <= y
<1> DEFINE Less == {p \in Nat \X Nat : p[1] < p[2]}
<1>1. IsWellFoundedOn(Less, Nat)
    BY LessIsWellFounded
<1>2. PICK x \in S : \A y \in S : ~(<<y, x>> \in Less)
    <2> HIDE DEF Less
    <2> QED
        BY <1>1, WFMin
<1>3. \A y \in S : ~(y < x)
    <2>1. TAKE y \in S
    <2>2. <<y, x>> \in Nat \X Nat /\ <<y, x>> \notin Less
        BY <1>2
    <2> QED
        BY <2>2
<1> QED
    BY <1>3

LEMMA Division ==
    ASSUME NEW n \in Nat, NEW m \in Nat \ {0}, NEW d, d = n \div m, NEW r, r = n % m
    PROVE  n = m * d + r
OBVIOUS

\* n \div m and n % m are a quotient and a rest, and there is only one such pair.
LEMMA QuotientAndRest ==
    ASSUME NEW n \in Nat, NEW m \in Nat \ {0}
    PROVE  \E d \in Nat, r \in 0..(m - 1) : d = n \div m /\ r = n % m /\ n = m * d + r
<1>1. n % m \in 0..(m - 1) /\ n \div m \in Nat
    OBVIOUS
<1>2. \A d, r : d = n \div m /\ r = n % m => n = m * d + r
    BY Division
<1> QED
    BY <1>1, <1>2, Zenon

LEMMA QuotientIs ==
    ASSUME NEW m \in Nat \ {0}, NEW q \in Nat, NEW r \in 0..(m - 1), NEW n, n = m * q + r
    PROVE  n \div m = q /\ n % m = r
<1>1. n \in Nat
    OBVIOUS
<1>2. PICK p \in Nat, s \in 0..(m - 1) : p = n \div m /\ s = n % m /\ n = m * p + s
    BY <1>1, QuotientAndRest
<1>3. m * q + r = m * p + s
    BY <1>2
<1>4. \A d \in Nat \ {0} : m * d >= m
    OBVIOUS
<1>5. m * (q - p) = s - r /\ m * (p - q) = r - s
    BY <1>2, <1>3
<1>6. CASE q > p
    <2>1. q - p \in Nat \ {0}
        BY <1>2, <1>6
    <2>2. m * (q - p) >= m
        BY <1>4, <2>1
    <2> QED
        BY <1>2, <1>5, <2>2
<1>7. CASE p > q
    <2>1. p - q \in Nat \ {0}
        BY <1>2, <1>7
    <2>2. m * (p - q) >= m
        BY <1>4, <2>1
    <2> QED
        BY <1>2, <1>5, <2>2
<1>8. CASE p = q
    BY <1>2, <1>3, <1>8
<1> QED
    BY <1>2, <1>6, <1>7, <1>8

LEMMA DivideTwice ==
    ASSUME NEW n \in Nat, NEW p \in Nat \ {0}, NEW b \in Nat \ {0}
    PROVE  n \div (b * p) = (n \div p) \div b
<1>1. PICK q \in Nat, r \in 0..(p - 1) : q = n \div p /\ n = p * q + r
    BY QuotientAndRest
<1>2. PICK t \in Nat, s \in 0..(b - 1) : t = q \div b /\ q = b * t + s
    BY QuotientAndRest
<1>3. n = (b * p) * t + (p * s + r)
    <2>1. p * q = p * (b * t) + p * s
        BY <1>2
    <2>2. p * (b * t) = (b * p) * t
        OBVIOUS
    <2> QED
        BY <1>1, <2>1, <2>2
<1>4. p * s + r \in 0..((b * p) - 1)
    <2>1. p * s \in Nat
        OBVIOUS
    <2>2. p * s <= p * (b - 1)
        OBVIOUS
    <2>3. p * (b - 1) = (b * p) - p
        OBVIOUS
    <2> QED
        BY <2>1, <2>2, <2>3
<1>5. b * p \in Nat \ {0}
    OBVIOUS
<1>6. n \div (b * p) = t
    BY <1>3, <1>4, <1>5, QuotientIs
<1> QED
    BY <1>1, <1>2, <1>6

----------------------------------------------------------------------------
(* Bytes, and numbers written with them                                    *)

LEMMA Sizes ==
    /\ TopBit \in Nat /\ TopBit > 3 /\ Ws!B = 2 * TopBit /\ Ws!B \in Nat \ {0}
    /\ Ws!Inline = TopBit - 3 /\ Ws!Text = TopBit + 1
    /\ Ws!Byte = 0..(Ws!B - 1)
    /\ Short \in Nat /\ Long \in Nat /\ 0 < Short /\ Short < Long
    /\ MaskLen \in Nat \ {0} /\ MaxFrame \in Nat /\ KeyMax \in Nat /\ MaxSent \in Nat
<1>1. /\ TopBit \in Nat /\ TopBit > 3
      /\ Short \in Nat /\ Long \in Nat /\ 0 < Short /\ Short < Long
      /\ MaskLen \in Nat \ {0} /\ MaxFrame \in Nat /\ KeyMax \in Nat /\ MaxSent \in Nat
    BY NetworkAssumption, Zenon
<1> QED
    BY <1>1 DEF Ws!B, Ws!Inline, Ws!Text, Ws!Byte

\* The recursion of Power has a solution on every interval, so Power is one.
LEMMA PowerExists ==
    ASSUME NEW n \in Nat
    PROVE  \E f \in [0..n -> Nat \ {0}] : f[0] = 1 /\ \A i \in 1..n : f[i] = Ws!B * f[i - 1]
<1> DEFINE Solves(f, m) == f \in [0..m -> Nat \ {0}] /\ f[0] = 1 /\ \A i \in 1..m : f[i] = Ws!B * f[i - 1]
           S == {m \in Nat : ~\E f : Solves(f, m)}
<1>1. SUFFICES ASSUME S # {} PROVE FALSE
    OBVIOUS
<1>2. PICK m \in S : \A y \in S : m <= y
    <2> HIDE DEF S
    <2>1. S \in SUBSET Nat
        BY DEF S
    <2> QED
        BY <1>1, <2>1, LeastNat
<1>3. m # 0
    <2>1. Solves([i \in 0..0 |-> 1], 0)
        OBVIOUS
    <2> QED
        BY <2>1, <1>2
<1>4. m \in Nat /\ m - 1 \in Nat /\ m - 1 \notin S
    <2>1. m \in Nat
        BY <1>2
    <2>2. m - 1 \in Nat /\ ~(m <= m - 1)
        BY <2>1, <1>3
    <2> HIDE DEF S
    <2> QED
        BY <2>1, <2>2, <1>2
<1>5. PICK f : Solves(f, m - 1)
    <2> HIDE DEF Solves
    <2> QED
        BY <1>4
<1> DEFINE g == [i \in 0..m |-> IF i = m THEN Ws!B * f[m - 1] ELSE f[i]]
<1>6. f[m - 1] \in Nat \ {0} /\ Ws!B * f[m - 1] \in Nat \ {0}
    BY <1>4, <1>5, Sizes
<1>7. g \in [0..m -> Nat \ {0}]
    <2>1. \A i \in 0..m : i = m \/ i \in 0..(m - 1)
        BY <1>4
    <2> QED
        BY <1>5, <1>6, <2>1
<1>8. g[0] = 1
    BY <1>2, <1>3, <1>5
<1>9. \A i \in 1..m : g[i] = Ws!B * g[i - 1]
    <2>1. TAKE i \in 1..m
    <2>2. i - 1 \in 0..m /\ i - 1 # m
        BY <1>2
    <2>3. CASE i = m
        BY <2>2, <2>3
    <2>4. CASE i # m
        <3>1. i \in 1..(m - 1) /\ i \in 0..m
            BY <2>4, <1>2
        <3> QED
            BY <3>1, <2>2, <2>4, <1>5
    <2> QED
        BY <2>3, <2>4
<1>10. Solves(g, m)
    <2> HIDE DEF g
    <2> QED
        BY <1>7, <1>8, <1>9
<1> QED
    BY <1>2, <1>10

LEMMA PowerFacts ==
    /\ Ws!Power \in [0..Long -> Nat \ {0}] /\ Ws!Power[0] = 1
    /\ \A i \in 1..Long : Ws!Power[i] = Ws!B * Ws!Power[i - 1]
<1> DEFINE Rec(f) == f = [k \in 0..Long |-> IF k = 0 THEN 1 ELSE Ws!B * f[k - 1]]
<1>1. PICK g \in [0..Long -> Nat \ {0}] : g[0] = 1 /\ \A i \in 1..Long : g[i] = Ws!B * g[i - 1]
    BY PowerExists, Sizes
<1>2. Rec(g)
    <2>1. \A k \in 0..Long : k # 0 => k \in 1..Long
        BY Sizes
    <2> QED
        BY <1>1, <2>1
<1>3. Ws!Power = CHOOSE f : Rec(f)
    BY DEF Ws!Power
<1>4. Rec(Ws!Power)
    <2> HIDE DEF Rec
    <2> QED
        BY <1>2, <1>3
<1> DEFINE P == Ws!Power
<1>5. Rec(P)
    BY <1>4
<1> HIDE DEF P
<1>6. DOMAIN P = 0..Long /\ P[0] = 1 /\ \A i \in 1..Long : P[i] = Ws!B * P[i - 1]
    <2>1. 0 \in 0..Long /\ \A i \in 1..Long : i \in 0..Long /\ i # 0
        BY Sizes
    <2> QED
        BY <1>5, <2>1
<1>7. \A i \in 0..Long : P[i] = g[i]
    <2> DEFINE S == {i \in 0..Long : P[i] # g[i]}
    <2>1. SUFFICES ASSUME S # {} PROVE FALSE
        OBVIOUS
    <2>2. PICK m \in S : \A y \in S : m <= y
        <3>1. S \in SUBSET Nat
            OBVIOUS
        <3> HIDE DEF S
        <3> QED
            BY <2>1, <3>1, LeastNat
    <2>3. m # 0
        BY <2>2, <1>1, <1>6
    <2>4. m - 1 \in 0..Long /\ m - 1 \notin S /\ m \in 1..Long
        BY <2>2, <2>3, Sizes
    <2>5. P[m - 1] = g[m - 1]
        BY <2>4
    <2> QED
        BY <2>2, <2>4, <2>5, <1>1, <1>6
<1>8. P = [i \in 0..Long |-> P[i]]
    BY <1>5
<1>9. P \in [0..Long -> Nat \ {0}]
    BY <1>1, <1>7, <1>8
<1> QED
    BY <1>6, <1>9 DEF P

\* A sequence of digits whose prefixes are g[0], g[1], ... is g's last.
LEMMA NumberIs ==
    ASSUME NEW bytes, NEW k \in Nat, Len(bytes) = k,
           NEW g \in [0..k -> Nat], g[0] = 0, \A i \in 1..k : g[i] = g[i - 1] * Ws!B + bytes[i]
    PROVE  Ws!Number(bytes) = g[k]
<1> DEFINE Rec(f) == f = [i \in 0..k |-> IF i = 0 THEN 0 ELSE f[i - 1] * Ws!B + bytes[i]]
           v == Ws!Values(bytes)
<1>1. v = CHOOSE f : Rec(f)
    BY DEF Ws!Values
<1>2. Rec(g)
    OBVIOUS
<1>3. Rec(v)
    <2> HIDE DEF Rec, v
    <2> QED
        BY <1>1, <1>2
<1> HIDE DEF v
<1>4. v[0] = 0 /\ \A i \in 1..k : v[i] = v[i - 1] * Ws!B + bytes[i]
    <2>1. 0 \in 0..k /\ \A i \in 1..k : i \in 0..k /\ i # 0
        OBVIOUS
    <2> QED
        BY <1>3, <2>1
<1>5. \A i \in 0..k : v[i] = g[i]
    <2> DEFINE S == {i \in 0..k : v[i] # g[i]}
    <2>1. SUFFICES ASSUME S # {} PROVE FALSE
        OBVIOUS
    <2>2. PICK m \in S : \A y \in S : m <= y
        <3>1. S \in SUBSET Nat
            OBVIOUS
        <3> HIDE DEF S
        <3> QED
            BY <2>1, <3>1, LeastNat
    <2>3. m # 0
        BY <2>2, <1>4
    <2>4. m - 1 \in 0..k /\ m - 1 \notin S /\ m \in 1..k
        BY <2>2, <2>3
    <2>5. v[m - 1] = g[m - 1]
        BY <2>4
    <2> QED
        BY <2>2, <2>4, <2>5, <1>4
<1> QED
    BY <1>5 DEF v, Ws!Number

\* The length fields: what one side writes, the other reads.
LEMMA BigEndianIs ==
    ASSUME NEW n \in Nat, NEW k \in 0..Long, n < Ws!Power[k]
    PROVE  /\ Ws!BigEndian(n, k) \in Seq(Ws!Byte) /\ Len(Ws!BigEndian(n, k)) = k
           /\ Ws!Number(Ws!BigEndian(n, k)) = n
<1> DEFINE bytes == Ws!BigEndian(n, k)
           g == [i \in 0..k |-> n \div Ws!Power[k - i]]
<1>1. k \in Nat /\ \A i \in 0..k : k - i \in 0..Long
    BY Sizes
<1>2. \A i \in 0..k : g[i] \in Nat
    <2>1. TAKE i \in 0..k
    <2>2. Ws!Power[k - i] \in Nat \ {0}
        BY <1>1, PowerFacts
    <2> QED
        BY <2>2
<1>3. \A i \in 1..k : bytes[i] = g[i] % Ws!B /\ bytes[i] \in Ws!Byte
    <2>1. TAKE i \in 1..k
    <2>2. bytes[i] = g[i] % Ws!B
        BY DEF Ws!BigEndian
    <2>3. g[i] \in Nat
        BY <1>2
    <2> QED
        BY <2>2, <2>3, Sizes
<1>4. bytes \in Seq(Ws!Byte) /\ Len(bytes) = k
    <2>1. bytes = [i \in 1..k |-> bytes[i]]
        BY DEF Ws!BigEndian
    <2> HIDE DEF bytes
    <2>2. bytes \in [1..k -> Ws!Byte]
        BY <2>1, <1>3
    <2> QED
        BY <2>2, <1>1
<1>5. g \in [0..k -> Nat]
    BY <1>2
<1>6. g[0] = 0
    <2>1. Ws!Power[k] \in Nat \ {0}
        BY PowerFacts
    <2>2. n \div Ws!Power[k] = 0
        BY <2>1, QuotientIs
    <2> QED
        BY <1>1, <2>2
<1>7. \A i \in 1..k : g[i] = g[i - 1] * Ws!B + bytes[i]
    <2>1. TAKE i \in 1..k
    <2> DEFINE p == Ws!Power[k - i]
    <2>2. p \in Nat \ {0} /\ Ws!Power[k - (i - 1)] = Ws!B * p
        <3>1. k - i \in 0..Long /\ k - (i - 1) \in 1..Long /\ (k - (i - 1)) - 1 = k - i
            BY <1>1, Sizes
        <3> QED
            BY <3>1, PowerFacts
    <2>3. g[i - 1] = n \div (Ws!B * p) /\ g[i] = n \div p
        BY <2>2, <1>1
    <2> HIDE DEF p
    <2> HIDE DEF g, bytes
    <2>4. g[i - 1] = g[i] \div Ws!B
        <3>1. n \div (Ws!B * p) = (n \div p) \div Ws!B
            BY <2>2, DivideTwice, Sizes
        <3> QED
            BY <2>3, <3>1
    <2>5. g[i] \in Nat /\ bytes[i] = g[i] % Ws!B
        <3>1. i \in 0..k
            BY <1>1
        <3> QED
            BY <3>1, <1>2, <1>3
    <2>6. PICK d \in Nat, r \in 0..(Ws!B - 1) : d = g[i] \div Ws!B /\ r = g[i] % Ws!B /\ g[i] = Ws!B * d + r
        BY <2>5, QuotientAndRest, Sizes
    <2> QED
        BY <2>4, <2>5, <2>6, Sizes
<1>8. g[k] = n
    <2>1. k \in 0..k /\ k - k = 0 /\ n = 1 * n + 0
        BY <1>1
    <2>2. n \div 1 = n
        BY <2>1, QuotientIs
    <2> QED
        BY <2>1, <2>2, PowerFacts
<1>9. Ws!Number(bytes) = g[k]
    <2> HIDE DEF g, bytes
    <2> QED
        BY <1>1, <1>4, <1>5, <1>6, <1>7, NumberIs
<1> QED
    BY <1>4, <1>8, <1>9

----------------------------------------------------------------------------
(* Frames                                                                  *)

\* The fields that say how long a text of n bytes is.
SaysLength(mark, ext, n) ==
    \/ mark = n /\ n <= Ws!Inline /\ ext = <<>>
    \/ mark = Ws!Inline + 1 /\ Len(ext) = Short /\ Ws!Number(ext) = n
    \/ mark = Ws!Inline + 2 /\ Len(ext) = Long /\ Ws!Number(ext) = n

\* f is two bytes, the second of them m, then ext, mask and data.
Laid(f, m, ext, mask, data) ==
    /\ f \in Seq(Ws!Byte) /\ Len(f) = 2 + Len(ext) + Len(mask) + Len(data)
    /\ f[2] = m
    /\ \A i \in 1..Len(ext) : f[2 + i] = ext[i]
    /\ \A i \in 1..Len(mask) : f[2 + Len(ext) + i] = mask[i]
    /\ \A i \in 1..Len(data) : f[2 + Len(ext) + Len(mask) + i] = data[i]

\* ws_decode_frame and ws_recv read msg in f.
Decodes(f, msg) ==
    /\ f \in Seq(Ws!Byte) /\ Len(f) = Ws!HeaderLen(f) + Len(msg)
    /\ Ws!PayloadLen(f) = Len(msg)
    /\ Ws!Payload(f) = msg

\* p and f are the same as far as both go.
Agree(p, f) == \A i \in 1..Len(f) : i <= Len(p) => p[i] = f[i]

Frames(msg) == {Ws!EncodeFrame(Len(msg) + Ws!HeaderSize(Len(msg)), msg)}
    \cup {Ws!PeerFrame(msg, mask) : mask \in Masks}

LEMMA Elements ==
    ASSUME NEW S, NEW s \in Seq(S)
    PROVE  Len(s) \in Nat /\ DOMAIN s = 1..Len(s) /\ \A i \in 1..Len(s) : s[i] \in S
OBVIOUS

Joined(c, s, t) ==
    /\ Len(c) = Len(s) + Len(t) /\ Len(s) \in Nat /\ Len(t) \in Nat
    /\ \A i \in 1..Len(s) : c[i] = s[i]
    /\ \A i \in 1..Len(t) : c[Len(s) + i] = t[i]

LEMMA JoinedFrom ==
    ASSUME NEW S, NEW s \in Seq(S), NEW t \in Seq(S)
    PROVE  s \o t \in Seq(S) /\ Joined(s \o t, s, t)
<1> DEFINE c == s \o t
<1>1. /\ c \in Seq(S) /\ Len(c) = Len(s) + Len(t)
      /\ \A i \in 1..(Len(s) + Len(t)) : c[i] = IF i <= Len(s) THEN s[i] ELSE t[i - Len(s)]
    BY ConcatProperties
<1>2. Len(s) \in Nat /\ Len(t) \in Nat
    OBVIOUS
<1> HIDE DEF c
<1>3. \A i \in 1..Len(t) : Len(s) + i \in 1..(Len(s) + Len(t)) /\ ~(Len(s) + i <= Len(s)) /\ (Len(s) + i) - Len(s) = i
    BY <1>2
<1>4. \A i \in 1..Len(s) : i \in 1..(Len(s) + Len(t)) /\ i <= Len(s)
    BY <1>2
<1>5. /\ \A i \in 1..Len(s) : c[i] = s[i]
      /\ \A i \in 1..Len(t) : c[Len(s) + i] = t[i]
    BY <1>1, <1>3, <1>4
<1> QED
    BY <1>1, <1>2, <1>5 DEF c, Joined

LEMMA FieldIs ==
    ASSUME NEW n \in Nat, n < Ws!Power[Long]
    PROVE  \E mark \in 0..(TopBit - 1), ext \in Seq(Ws!Byte) :
              /\ Ws!LengthField(n) = <<mark>> \o ext /\ Ws!HeaderSize(n) = 2 + Len(ext)
              /\ SaysLength(mark, ext, n)
<1> DEFINE Goal(mark, ext) == /\ Ws!LengthField(n) = <<mark>> \o ext /\ Ws!HeaderSize(n) = 2 + Len(ext)
                              /\ SaysLength(mark, ext, n)
<1>1. Ws!Power[Short] \in Nat
    BY PowerFacts, Sizes
<1>2. CASE n <= Ws!Inline
    <2>1. n \in 0..(TopBit - 1) /\ <<>> \in Seq(Ws!Byte) /\ Len(<<>>) = 0
        BY <1>2, Sizes
    <2>2. <<n>> \o <<>> = <<n>>
        OBVIOUS
    <2>3. Goal(n, <<>>)
        BY <1>2, <2>1, <2>2 DEF Ws!LengthField, Ws!HeaderSize, SaysLength
    <2> QED
        BY <2>1, <2>3
<1>3. CASE ~(n <= Ws!Inline) /\ n <= Ws!Power[Short] - 1
    <2> DEFINE ext == Ws!BigEndian(n, Short)
    <2>1. ext \in Seq(Ws!Byte) /\ Len(ext) = Short /\ Ws!Number(ext) = n
        BY <1>1, <1>3, BigEndianIs, Sizes
    <2>2. Ws!Inline + 1 \in 0..(TopBit - 1)
        BY Sizes
    <2>3. Goal(Ws!Inline + 1, ext)
        BY <1>3, <2>1 DEF Ws!LengthField, Ws!HeaderSize, SaysLength
    <2> QED
        BY <2>1, <2>2, <2>3
<1>4. CASE ~(n <= Ws!Inline) /\ ~(n <= Ws!Power[Short] - 1)
    <2> DEFINE ext == Ws!BigEndian(n, Long)
    <2>1. ext \in Seq(Ws!Byte) /\ Len(ext) = Long /\ Ws!Number(ext) = n
        BY BigEndianIs, Sizes
    <2>2. Ws!Inline + 2 \in 0..(TopBit - 1)
        BY Sizes
    <2>3. Goal(Ws!Inline + 2, ext)
        BY <1>4, <2>1 DEF Ws!LengthField, Ws!HeaderSize, SaysLength
    <2> QED
        BY <2>1, <2>2, <2>3
<1> QED
    BY <1>2, <1>3, <1>4

LEMMA SliceIs ==
    ASSUME NEW S, NEW f \in Seq(S), NEW t \in Seq(S), NEW k \in Nat, k + Len(t) <= Len(f),
           \A i \in 1..Len(t) : f[k + i] = t[i]
    PROVE  SubSeq(f, k + 1, k + Len(t)) = t
<1> DEFINE m == k + 1
           n == k + Len(t)
           u == SubSeq(f, m, n)
<1>1. Len(t) \in Nat /\ Len(f) \in Nat /\ m \in Int /\ n \in Int
    OBVIOUS
<1>2. \A i \in m..n : f[i] \in S
    BY <1>1, Elements
<1> HIDE DEF u
<1>3. u \in Seq(S) /\ Len(u) = (IF m <= n THEN n - m + 1 ELSE 0) /\ \A i \in 1..(n - m + 1) : u[i] = f[m + i - 1]
    <2> HIDE DEF m, n
    <2> QED
        BY <1>1, <1>2, SubSeqProperties DEF u
<1>4. Len(u) = Len(t) /\ \A i \in 1..Len(t) : m + i - 1 = k + i /\ i \in 1..(n - m + 1)
    BY <1>1, <1>3
<1>5. u = t
    BY <1>3, <1>4, SeqEqual
<1> QED
    BY <1>5 DEF u

LEMMA LowBits ==
    ASSUME NEW t \in Nat \ {0}, NEW m \in 0..(t - 1), NEW flag \in {0, t}, NEW n, n = m + flag
    PROVE  n % t = m
<1>1. CASE flag = 0
    <2>1. n = t * 0 + m
        BY <1>1
    <2> QED
        BY <2>1, QuotientIs
<1>2. CASE flag = t
    <2>1. n = t * 1 + m
        BY <1>2
    <2> QED
        BY <2>1, QuotientIs
<1> QED
    BY <1>1, <1>2

LEMMA HeaderReads ==
    ASSUME NEW p \in Seq(Ws!Byte), NEW mark \in 0..(TopBit - 1), NEW flag \in {0, TopBit},
           NEW ext \in Seq(Ws!Byte), NEW n \in Nat, SaysLength(mark, ext, n),
           Len(p) >= 2 + Len(ext), p[2] = mark + flag, \A i \in 1..Len(ext) : p[2 + i] = ext[i]
    PROVE  /\ Ws!ExtraLen(p) = Len(ext) /\ Ws!PayloadLen(p) = n
           /\ Ws!MaskAt(p) = IF flag = 0 THEN 0 ELSE MaskLen
           /\ Ws!HeaderLen(p) = 2 + Len(ext) + IF flag = 0 THEN 0 ELSE MaskLen
<1>1. Len(ext) \in Nat /\ Len(p) \in Nat
    OBVIOUS
<1>2. Ws!Marker(p) = mark
    <2> DEFINE byte == mark + flag
    <2>1. TopBit \in Nat \ {0} /\ byte = mark + flag
        BY Sizes
    <2> HIDE DEF byte
    <2>2. byte % TopBit = mark
        BY <2>1, LowBits
    <2> QED
        BY <2>2 DEF Ws!Marker, byte
<1>3. Ws!ExtraLen(p) = Len(ext)
    <2>1. CASE mark = n /\ n <= Ws!Inline /\ ext = <<>>
        <3>1. mark # Ws!Inline + 1 /\ mark # Ws!Inline + 2 /\ Len(ext) = 0
            BY <2>1, Sizes
        <3> QED
            BY <1>2, <3>1 DEF Ws!ExtraLen
    <2>2. CASE mark = Ws!Inline + 1 /\ Len(ext) = Short
        <3>1. Ws!Marker(p) = Ws!Inline + 1
            BY <1>2, <2>2
        <3>2. Ws!Inline + 1 # Ws!Inline + 2
            BY Sizes
        <3> QED
            BY <2>2, <3>1, <3>2 DEF Ws!ExtraLen
    <2>3. CASE mark = Ws!Inline + 2 /\ Len(ext) = Long
        <3>1. mark # Ws!Inline + 1
            BY <2>3, Sizes
        <3> QED
            BY <1>2, <2>3, <3>1 DEF Ws!ExtraLen
    <2> QED
        BY <2>1, <2>2, <2>3 DEF SaysLength
<1>4. SubSeq(p, 3, 2 + Len(ext)) = ext
    <2>1. 2 + 1 = 3 /\ 2 \in Nat
        OBVIOUS
    <2>2. SubSeq(p, 2 + 1, 2 + Len(ext)) = ext
        BY <1>1, SliceIs
    <2> QED
        BY <2>1, <2>2
<1>5. Ws!PayloadLen(p) = n
    <2>1. CASE mark = n /\ ext = <<>>
        BY <1>2, <1>3, <2>1 DEF Ws!PayloadLen
    <2>2. CASE Len(ext) # 0 /\ Ws!Number(ext) = n
        BY <1>3, <1>4, <2>2 DEF Ws!PayloadLen
    <2> QED
        BY <2>1, <2>2, Sizes DEF SaysLength
<1>6. Ws!MaskAt(p) = IF flag = 0 THEN 0 ELSE MaskLen
    BY Sizes DEF Ws!MaskAt
<1> QED
    BY <1>3, <1>5, <1>6 DEF Ws!HeaderLen

LEMMA EncodedIsLaid ==
    ASSUME NEW msg \in Seq(Ws!Byte), NEW mark \in Ws!Byte, NEW ext \in Seq(Ws!Byte),
           Ws!LengthField(Len(msg)) = <<mark>> \o ext
    PROVE  Laid(Ws!EncodeFrame(Len(msg) + Ws!HeaderSize(Len(msg)), msg), mark, ext, <<>>, msg)
<1> DEFINE a == <<Ws!Text>>
           b == <<mark>> \o ext
           f == (a \o b) \o msg
<1>1. Ws!EncodeFrame(Len(msg) + Ws!HeaderSize(Len(msg)), msg) = f
    <2>1. Ws!HeaderSize(Len(msg)) \in Nat
        BY Sizes DEF Ws!HeaderSize
    <2>2. ~(Len(msg) + Ws!HeaderSize(Len(msg)) < Ws!HeaderSize(Len(msg)) + Len(msg))
        BY <2>1
    <2> QED
        BY <2>2 DEF Ws!EncodeFrame
<1>2. a \in Seq(Ws!Byte) /\ Len(a) = 1
    BY Sizes
<1>3. b \in Seq(Ws!Byte) /\ Len(b) = 1 + Len(ext) /\ b[1] = mark /\ \A i \in 1..Len(ext) : b[1 + i] = ext[i]
    OBVIOUS
<1> HIDE DEF a, b
<1> DEFINE c == a \o b
<1>4. c \in Seq(Ws!Byte) /\ Len(c) = 2 + Len(ext) /\ c[2] = mark /\ \A i \in 1..Len(ext) : c[2 + i] = ext[i]
    <2>1. c \in Seq(Ws!Byte) /\ Joined(c, a, b)
        BY <1>2, <1>3, JoinedFrom
    <2> HIDE DEF c
    <2>2. \A i \in 1..Len(b) : c[1 + i] = b[i]
        BY <2>1, <1>2 DEF Joined
    <2>3. \A i \in 1..Len(ext) : 1 + i \in 1..Len(b) /\ 1 + (1 + i) = 2 + i
        BY <1>3
    <2>4. \A i \in 1..Len(ext) : c[2 + i] = ext[i]
        BY <2>2, <2>3, <1>3
    <2>5. c[1 + 1] = b[1]
        BY <2>2, <1>3
    <2> QED
        BY <2>1, <2>4, <2>5, <1>2, <1>3 DEF Joined
<1> HIDE DEF c
<1>5. c \o msg \in Seq(Ws!Byte) /\ Joined(c \o msg, c, msg)
    BY <1>4, JoinedFrom
<1> DEFINE g == c \o msg
<1>6. f = g
    BY DEF c
<1>7. Laid(g, mark, ext, <<>>, msg)
    <2>1. /\ g \in Seq(Ws!Byte) /\ Len(g) = 2 + Len(ext) + 0 + Len(msg)
          /\ \A i \in 1..(2 + Len(ext)) : g[i] = c[i]
          /\ \A i \in 1..Len(msg) : g[2 + Len(ext) + 0 + i] = msg[i]
        <3>1. g \in Seq(Ws!Byte) /\ Joined(g, c, msg)
            BY <1>5
        <3> HIDE DEF g
        <3> QED
            BY <1>4, <3>1 DEF Joined
    <2> HIDE DEF g
    <2>2. g[2] = mark /\ \A i \in 1..Len(ext) : g[2 + i] = ext[i]
        BY <1>4, <2>1
    <2>3. Len(<<>>) = 0
        OBVIOUS
    <2> QED
        BY <2>1, <2>2, <2>3 DEF Laid
<1> QED
    BY <1>1, <1>6, <1>7

LEMMA MessagesAre ==
    ASSUME NEW msg \in Messages
    PROVE  msg \in Seq(Ws!Byte) /\ Len(msg) < Ws!Power[Long] /\ Len(msg) \in Nat
<1>1. msg \in Seq(Ws!Byte) /\ Len(msg) < Ws!Power[Long]
    BY NetworkAssumption, Zenon
<1> QED
    BY <1>1

LEMMA MasksAre == \A mask \in Masks : mask \in [1..MaskLen -> Ws!Byte]
<1>1. Masks \subseteq [1..MaskLen -> Ws!Byte]
    BY NetworkAssumption, Zenon
<1> QED
    BY <1>1

LEMMA XoredIs == \A x, y \in Ws!Byte : Xored[x][y] \in Ws!Byte /\ Xored[Xored[x][y]][y] = x
<1>1. Xored \in [Ws!Byte -> [Ws!Byte -> Ws!Byte]]
    BY NetworkAssumption, Zenon
<1>2. \A x, y \in Ws!Byte : Xored[Xored[x][y]][y] = x
    BY NetworkAssumption, Zenon
<1> QED
    BY <1>1, <1>2

LEMMA HeadAndTail ==
    ASSUME NEW S, NEW x, NEW t \in Seq(S)
    PROVE  (<<x>> \o t)[1] = x /\ Tail(<<x>> \o t) = t
<1> DEFINE T == S \cup {x}
           s == <<x>> \o t
<1>1. <<x>> \in Seq(T) /\ Len(<<x>>) = 1 /\ <<x>>[1] = x /\ t \in Seq(T)
    OBVIOUS
<1>2. s \in Seq(T) /\ Joined(s, <<x>>, t)
    BY <1>1, JoinedFrom
<1> HIDE DEF s
<1>3. s[1] = x /\ Len(s) = 1 + Len(t) /\ \A i \in 1..Len(t) : s[1 + i] = t[i]
    BY <1>1, <1>2 DEF Joined
<1>4. s # <<>>
    BY <1>2, <1>3
<1>5. Tail(s) \in Seq(T) /\ Len(Tail(s)) = Len(s) - 1 /\ \A i \in 1..Len(Tail(s)) : Tail(s)[i] = s[i + 1]
    BY <1>2, <1>4, HeadTailProperties
<1>6. Len(Tail(s)) = Len(t) /\ \A i \in 1..Len(t) : Tail(s)[i] = t[i]
    BY <1>3, <1>5
<1>7. Tail(s) = t
    BY <1>1, <1>5, <1>6, SeqEqual
<1> QED
    BY <1>3, <1>7 DEF s

LEMMA PeerIsLaid ==
    ASSUME NEW msg \in Seq(Ws!Byte), NEW mark \in 0..(TopBit - 1), NEW ext \in Seq(Ws!Byte),
           NEW mask \in Seq(Ws!Byte), NEW data \in Seq(Ws!Byte),
           Ws!LengthField(Len(msg)) = <<mark>> \o ext,
           data = [i \in DOMAIN msg |-> Xored[msg[i]][mask[((i - 1) % MaskLen) + 1]]]
    PROVE  Laid(Ws!PeerFrame(msg, mask), mark + TopBit, ext, mask, data)
<1> DEFINE a == <<0, mark + TopBit>>
           b == a \o ext
           c == b \o mask
           f == c \o data
           field == Ws!LengthField(Len(msg))
<1>1. Ws!PeerFrame(msg, mask) = f
    <2>1. field[1] = mark /\ Tail(field) = ext
        BY HeadAndTail
    <2> QED
        BY <2>1 DEF Ws!PeerFrame
<1>2. a \in Seq(Ws!Byte) /\ Len(a) = 2 /\ a[2] = mark + TopBit
    BY Sizes
<1> HIDE DEF a
<1>3. b \in Seq(Ws!Byte) /\ Joined(b, a, ext)
    BY <1>2, JoinedFrom
<1> HIDE DEF b
<1>4. c \in Seq(Ws!Byte) /\ Joined(c, b, mask)
    BY <1>3, JoinedFrom
<1> HIDE DEF c
<1>5. f \in Seq(Ws!Byte) /\ Joined(f, c, data)
    BY <1>4, JoinedFrom
<1> HIDE DEF f
<1>6. Len(b) = 2 + Len(ext) /\ Len(c) = 2 + Len(ext) + Len(mask) /\ Len(f) = 2 + Len(ext) + Len(mask) + Len(data)
      /\ Len(ext) \in Nat /\ Len(mask) \in Nat /\ Len(data) \in Nat
    BY <1>2, <1>3, <1>4, <1>5 DEF Joined
<1>7. \A i \in 1..Len(c) : f[i] = c[i]
    BY <1>5 DEF Joined
<1>8. \A i \in 1..Len(b) : i \in 1..Len(c) /\ f[i] = b[i]
    BY <1>4, <1>6, <1>7 DEF Joined
<1>9. f[2] = mark + TopBit
    <2>1. 2 \in 1..Len(a) /\ 2 \in 1..Len(b)
        BY <1>2, <1>6
    <2> QED
        BY <2>1, <1>2, <1>3, <1>8 DEF Joined
<1>10. \A i \in 1..Len(ext) : f[2 + i] = ext[i]
    <2>1. \A i \in 1..Len(ext) : 2 + i \in 1..Len(b) /\ b[2 + i] = ext[i]
        BY <1>2, <1>3, <1>6 DEF Joined
    <2> QED
        BY <2>1, <1>8
<1>11. \A i \in 1..Len(mask) : f[2 + Len(ext) + i] = mask[i]
    <2>1. \A i \in 1..Len(mask) : 2 + Len(ext) + i \in 1..Len(c) /\ c[2 + Len(ext) + i] = mask[i]
        BY <1>4, <1>6 DEF Joined
    <2> QED
        BY <2>1, <1>7
<1>12. \A i \in 1..Len(data) : f[2 + Len(ext) + Len(mask) + i] = data[i]
    BY <1>5, <1>6 DEF Joined
<1> QED
    BY <1>1, <1>5, <1>6, <1>9, <1>10, <1>11, <1>12 DEF Laid

\* A frame without mask is read as it was written.
LEMMA EncodedDecodes ==
    ASSUME NEW msg \in Messages
    PROVE  Decodes(Ws!EncodeFrame(Len(msg) + Ws!HeaderSize(Len(msg)), msg), msg)
<1> DEFINE f == Ws!EncodeFrame(Len(msg) + Ws!HeaderSize(Len(msg)), msg)
<1>1. msg \in Seq(Ws!Byte) /\ Len(msg) < Ws!Power[Long] /\ Len(msg) \in Nat
    BY MessagesAre
<1>2. PICK mark \in 0..(TopBit - 1), ext \in Seq(Ws!Byte) :
          /\ Ws!LengthField(Len(msg)) = <<mark>> \o ext
          /\ SaysLength(mark, ext, Len(msg))
    BY <1>1, FieldIs
<1>3. mark \in Ws!Byte /\ mark + 0 = mark /\ Len(ext) \in Nat
    BY Sizes
<1>4. Laid(f, mark, ext, <<>>, msg)
    BY <1>1, <1>2, <1>3, EncodedIsLaid
<1> HIDE DEF f
<1>5. /\ f \in Seq(Ws!Byte) /\ Len(f) = 2 + Len(ext) + Len(msg) /\ f[2] = mark + 0
      /\ \A i \in 1..Len(ext) : f[2 + i] = ext[i]
      /\ \A i \in 1..Len(msg) : f[2 + Len(ext) + i] = msg[i]
    <2>1. Len(<<>>) = 0 /\ 2 + Len(ext) + 0 = 2 + Len(ext)
        BY <1>3
    <2> QED
        BY <1>3, <1>4, <2>1 DEF Laid
<1>6. /\ Ws!PayloadLen(f) = Len(msg) /\ Ws!MaskAt(f) = 0 /\ Ws!HeaderLen(f) = 2 + Len(ext)
    <2>1. Len(f) >= 2 + Len(ext)
        BY <1>1, <1>3, <1>5
    <2>2. PICK flag \in {0, TopBit} : flag = 0
        OBVIOUS
    <2>3. f[2] = mark + flag
        BY <1>5, <2>2
    <2>4. /\ Ws!PayloadLen(f) = Len(msg) /\ Ws!MaskAt(f) = (IF flag = 0 THEN 0 ELSE MaskLen)
          /\ Ws!HeaderLen(f) = 2 + Len(ext) + IF flag = 0 THEN 0 ELSE MaskLen
        BY <1>1, <1>2, <1>5, <2>1, <2>3, HeaderReads
    <2> QED
        BY <1>3, <2>2, <2>4
<1>7. SubSeq(f, (2 + Len(ext)) + 1, (2 + Len(ext)) + Len(msg)) = msg
    <2>1. PICK k \in Nat : k = 2 + Len(ext)
        BY <1>3
    <2>2. k + Len(msg) <= Len(f) /\ \A i \in 1..Len(msg) : f[k + i] = msg[i]
        BY <1>1, <1>5, <2>1
    <2>3. SubSeq(f, k + 1, k + Len(msg)) = msg
        BY <1>1, <1>5, <2>2, SliceIs
    <2> QED
        BY <2>1, <2>3
<1>8. Ws!Payload(f) = msg
    BY <1>6, <1>7 DEF Ws!Payload
<1> QED
    BY <1>5, <1>6, <1>8 DEF Decodes, f

\* Unmasking the masked text gives the text.
LEMMA PeerDecodes ==
    ASSUME NEW msg \in Messages, NEW mask \in Masks
    PROVE  Decodes(Ws!PeerFrame(msg, mask), msg)
<1> DEFINE f == Ws!PeerFrame(msg, mask)
           At(i) == mask[((i - 1) % MaskLen) + 1]
           data == [i \in DOMAIN msg |-> Xored[msg[i]][At(i)]]
<1>1. msg \in Seq(Ws!Byte) /\ Len(msg) < Ws!Power[Long] /\ Len(msg) \in Nat
    BY MessagesAre
<1>2. PICK mark \in 0..(TopBit - 1), ext \in Seq(Ws!Byte) :
          /\ Ws!LengthField(Len(msg)) = <<mark>> \o ext
          /\ SaysLength(mark, ext, Len(msg))
    BY <1>1, FieldIs
<1>3. mask \in [1..MaskLen -> Ws!Byte] /\ MaskLen \in Nat \ {0}
    BY MasksAre, Sizes
<1>4. mask \in Seq(Ws!Byte) /\ Len(mask) = MaskLen
    BY <1>3
<1>5. \A i \in 1..Len(msg) : At(i) \in Ws!Byte /\ msg[i] \in Ws!Byte
    <2>1. TAKE i \in 1..Len(msg)
    <2>2. ((i - 1) % MaskLen) + 1 \in 1..MaskLen
        BY <1>1, <1>3
    <2> QED
        BY <2>2, <1>1, <1>3
<1>6. \A x, y \in Ws!Byte : Xored[x][y] \in Ws!Byte /\ Xored[Xored[x][y]][y] = x
    BY XoredIs
<1>7. DOMAIN msg = 1..Len(msg)
    BY <1>1
<1>8. data \in Seq(Ws!Byte) /\ Len(data) = Len(msg)
    <2>1. data \in [1..Len(msg) -> Ws!Byte]
        BY <1>5, <1>6, <1>7
    <2> QED
        BY <2>1, <1>1
<1>9. Laid(f, mark + TopBit, ext, mask, data)
    BY <1>1, <1>2, <1>4, <1>8, PeerIsLaid
<1> HIDE DEF f
<1>10. \A i \in 1..Len(msg) : data[i] = Xored[msg[i]][At(i)]
    BY <1>7
<1> HIDE DEF data
<1>11. Len(ext) \in Nat
    OBVIOUS
<1>12. /\ f \in Seq(Ws!Byte) /\ Len(f) = 2 + Len(ext) + MaskLen + Len(msg) /\ f[2] = mark + TopBit
       /\ \A i \in 1..Len(ext) : f[2 + i] = ext[i]
       /\ \A i \in 1..MaskLen : f[2 + Len(ext) + i] = mask[i]
       /\ \A i \in 1..Len(msg) : f[2 + Len(ext) + MaskLen + i] = data[i]
    BY <1>4, <1>8, <1>9 DEF Laid
<1>13. /\ Ws!PayloadLen(f) = Len(msg) /\ Ws!MaskAt(f) = MaskLen /\ Ws!HeaderLen(f) = 2 + Len(ext) + MaskLen
       /\ Ws!ExtraLen(f) = Len(ext)
    <2>1. Len(f) >= 2 + Len(ext) /\ TopBit # 0
        BY <1>1, <1>3, <1>11, <1>12, Sizes
    <2> QED
        BY <1>1, <1>2, <1>12, <2>1, HeaderReads
<1>14. SubSeq(f, (2 + Len(ext)) + 1, (2 + Len(ext)) + Len(mask)) = mask
    <2>1. 2 + Len(ext) \in Nat /\ (2 + Len(ext)) + Len(mask) <= Len(f)
        BY <1>1, <1>3, <1>4, <1>11, <1>12
    <2> QED
        BY <1>4, <1>12, <2>1, SliceIs
<1>15. SubSeq(f, (2 + Len(ext) + MaskLen) + 1, (2 + Len(ext) + MaskLen) + Len(data)) = data
    <2>1. 2 + Len(ext) + MaskLen \in Nat /\ 2 + Len(ext) + MaskLen + Len(data) <= Len(f)
          /\ \A i \in 1..Len(data) : f[2 + Len(ext) + MaskLen + i] = data[i]
        BY <1>1, <1>3, <1>8, <1>11, <1>12
    <2> QED
        BY <1>8, <1>12, <2>1, SliceIs
<1>16. Ws!Unmask(data, mask) = msg
    <2>1. DOMAIN data = 1..Len(msg)
        BY <1>8
    <2>2. \A i \in 1..Len(msg) : Xored[data[i]][At(i)] = msg[i]
        BY <1>5, <1>6, <1>10
    <2>3. msg = [i \in 1..Len(msg) |-> msg[i]]
        BY <1>1
    <2>4. Ws!Unmask(data, mask) = [i \in 1..Len(msg) |-> Xored[data[i]][At(i)]]
        BY <2>1 DEF Ws!Unmask
    <2> QED
        BY <2>2, <2>3, <2>4
<1>17. Ws!Payload(f) = msg
    <2>1. 3 + Len(ext) = (2 + Len(ext)) + 1 /\ MaskLen # 0
        BY <1>3, <1>11
    <2> QED
        BY <2>1, <1>3, <1>4, <1>8, <1>13, <1>14, <1>15, <1>16 DEF Ws!Payload
<1> QED
    BY <1>3, <1>11, <1>12, <1>13, <1>17 DEF Decodes, f

LEMMA HeaderSizes ==
    ASSUME NEW p
    PROVE  /\ Ws!ExtraLen(p) \in Nat /\ Ws!MaskAt(p) \in Nat
           /\ Ws!HeaderLen(p) \in Nat /\ Ws!HeaderLen(p) >= 2 + Ws!ExtraLen(p)
<1>1. Ws!ExtraLen(p) \in Nat
    <2>1. CASE Ws!Marker(p) = Ws!Inline + 1
        BY <2>1, Sizes DEF Ws!ExtraLen
    <2>2. CASE Ws!Marker(p) # Ws!Inline + 1 /\ Ws!Marker(p) = Ws!Inline + 2
        BY <2>2, Sizes DEF Ws!ExtraLen
    <2>3. CASE Ws!Marker(p) # Ws!Inline + 1 /\ Ws!Marker(p) # Ws!Inline + 2
        BY <2>3, Sizes DEF Ws!ExtraLen
    <2> QED
        BY <2>1, <2>2, <2>3
<1>2. Ws!MaskAt(p) \in Nat
    BY Sizes DEF Ws!MaskAt
<1> QED
    BY <1>1, <1>2 DEF Ws!HeaderLen

LEMMA FramesDecode ==
    ASSUME NEW msg \in Messages, NEW f \in Frames(msg)
    PROVE  Decodes(f, msg) /\ Len(msg) \in Nat /\ Len(f) >= 2
<1>1. Decodes(f, msg)
    BY EncodedDecodes, PeerDecodes DEF Frames
<1>2. Len(msg) \in Nat
    BY MessagesAre
<1>3. Ws!HeaderLen(f) \in Nat /\ Ws!HeaderLen(f) >= 2
    BY HeaderSizes
<1> QED
    BY <1>1, <1>2, <1>3 DEF Decodes

LEMMA SameSlice ==
    ASSUME NEW S, NEW p \in Seq(S), NEW f \in Seq(S), NEW m \in Nat \ {0}, NEW n \in Int,
           n <= Len(p), n <= Len(f), \A i \in m..n : p[i] = f[i]
    PROVE  SubSeq(p, m, n) = SubSeq(f, m, n)
<1> DEFINE u == SubSeq(p, m, n)
           v == SubSeq(f, m, n)
<1>1. \A i \in m..n : p[i] \in S /\ f[i] \in S
    BY Elements
<1>2. u \in Seq(S) /\ Len(u) = (IF m <= n THEN n - m + 1 ELSE 0) /\ \A i \in 1..(n - m + 1) : u[i] = p[m + i - 1]
    BY <1>1, SubSeqProperties
<1>3. v \in Seq(S) /\ Len(v) = (IF m <= n THEN n - m + 1 ELSE 0) /\ \A i \in 1..(n - m + 1) : v[i] = f[m + i - 1]
    BY <1>1, SubSeqProperties
<1> HIDE DEF u, v
<1>4. Len(u) = Len(v) /\ \A i \in 1..Len(u) : u[i] = v[i]
    <2>1. \A i \in 1..Len(u) : i \in 1..(n - m + 1) /\ m + i - 1 \in m..n
        BY <1>2
    <2> QED
        BY <2>1, <1>2, <1>3
<1>5. u = v
    BY <1>2, <1>3, <1>4, SeqEqual
<1> QED
    BY <1>5 DEF u, v

\* As much of a frame as has been read says the same as the whole frame.
LEMMA SameHeader ==
    ASSUME NEW msg, Len(msg) \in Nat, NEW f, Decodes(f, msg),
           NEW p \in Seq(Ws!Byte), Agree(p, f)
    PROVE  /\ Len(p) >= 2 => Ws!ExtraLen(p) = Ws!ExtraLen(f) /\ Ws!HeaderLen(p) = Ws!HeaderLen(f)
           /\ Len(p) >= 2 /\ Len(p) >= 2 + Ws!ExtraLen(f) => Ws!PayloadLen(p) = Len(msg)
           /\ Len(p) >= Len(f) => Ws!Payload(p) = msg
<1>1. /\ f \in Seq(Ws!Byte) /\ Len(f) \in Nat /\ Len(p) \in Nat
      /\ Len(f) = Ws!HeaderLen(f) + Len(msg) /\ Ws!PayloadLen(f) = Len(msg) /\ Ws!Payload(f) = msg
    BY DEF Decodes
<1>2. /\ Ws!ExtraLen(f) \in Nat /\ Ws!MaskAt(f) \in Nat /\ Ws!HeaderLen(f) \in Nat
      /\ Ws!HeaderLen(f) = 2 + Ws!ExtraLen(f) + Ws!MaskAt(f)
    BY HeaderSizes DEF Ws!HeaderLen
<1>3. ASSUME Len(p) >= 2
      PROVE  /\ Ws!Marker(p) = Ws!Marker(f) /\ Ws!ExtraLen(p) = Ws!ExtraLen(f)
             /\ Ws!MaskAt(p) = Ws!MaskAt(f) /\ Ws!HeaderLen(p) = Ws!HeaderLen(f)
    <2>1. p[2] = f[2]
        BY <1>1, <1>2, <1>3 DEF Agree
    <2>2. Ws!Marker(p) = Ws!Marker(f) /\ Ws!MaskAt(p) = Ws!MaskAt(f)
        BY <2>1 DEF Ws!Marker, Ws!MaskAt
    <2>3. Ws!ExtraLen(p) = Ws!ExtraLen(f)
        BY <2>2, Zenon DEF Ws!ExtraLen
    <2> QED
        BY <2>2, <2>3 DEF Ws!HeaderLen
<1>4. ASSUME Len(p) >= 2, Len(p) >= 2 + Ws!ExtraLen(f)
      PROVE  Ws!PayloadLen(p) = Len(msg)
    <2>1. SubSeq(p, 3, 2 + Ws!ExtraLen(f)) = SubSeq(f, 3, 2 + Ws!ExtraLen(f))
        <3>1. \A i \in 3..(2 + Ws!ExtraLen(f)) : p[i] = f[i]
            BY <1>1, <1>2, <1>4 DEF Agree
        <3>2. 2 + Ws!ExtraLen(f) \in Int /\ 2 + Ws!ExtraLen(f) <= Len(p) /\ 2 + Ws!ExtraLen(f) <= Len(f)
            BY <1>1, <1>2, <1>4
        <3> QED
            BY <1>1, <3>1, <3>2, SameSlice
    <2> QED
        BY <2>1, <1>1, <1>3, <1>4 DEF Ws!PayloadLen
<1>5. ASSUME Len(p) >= Len(f)
      PROVE  Ws!Payload(p) = msg
    <2>1. Len(p) >= 2 /\ Len(p) >= 2 + Ws!ExtraLen(f) /\ Ws!HeaderLen(f) <= Len(f) /\ Ws!HeaderLen(f) <= Len(p)
        BY <1>1, <1>2, <1>5
    <2>2. \A i \in 1..Len(f) : p[i] = f[i]
        BY <1>1, <1>5 DEF Agree
    <2>3. SubSeq(p, Ws!HeaderLen(f) + 1, Ws!HeaderLen(f) + Len(msg)) = SubSeq(f, Ws!HeaderLen(f) + 1, Ws!HeaderLen(f) + Len(msg))
        <3> DEFINE m == Ws!HeaderLen(f) + 1
                   n == Ws!HeaderLen(f) + Len(msg)
        <3>1. m \in Nat \ {0} /\ n \in Int /\ n <= Len(p) /\ n <= Len(f)
            BY <1>1, <1>2, <1>5
        <3>3. \A i \in m..n : i \in 1..Len(f)
            BY <1>1, <3>1
        <3>4. \A i \in m..n : p[i] = f[i]
            BY <2>2, <3>3
        <3> HIDE DEF m, n
        <3>2. SubSeq(p, m, n) = SubSeq(f, m, n)
            BY <1>1, <3>1, <3>4, SameSlice
        <3> QED
            BY <3>2 DEF m, n
    <2>4. SubSeq(p, 3 + Ws!ExtraLen(f), Ws!HeaderLen(f)) = SubSeq(f, 3 + Ws!ExtraLen(f), Ws!HeaderLen(f))
        <3> DEFINE m == 3 + Ws!ExtraLen(f)
                   n == Ws!HeaderLen(f)
        <3>1. m \in Nat \ {0} /\ n \in Int /\ n <= Len(p) /\ n <= Len(f) /\ \A i \in m..n : p[i] = f[i]
            BY <1>1, <1>2, <2>1, <2>2
        <3> HIDE DEF m, n
        <3>2. SubSeq(p, m, n) = SubSeq(f, m, n)
            BY <1>1, <3>1, SameSlice
        <3> QED
            BY <3>2 DEF m, n
    <2>5. Ws!Payload(p) = Ws!Payload(f)
        BY <1>1, <1>3, <1>4, <2>1, <2>3, <2>4 DEF Ws!Payload
    <2> QED
        BY <2>5, <1>1
<1> QED
    BY <1>3, <1>4, <1>5

\* ws_decode_frame reads a frame once it is whole.
LEMMA DecodesWhole ==
    ASSUME NEW msg \in Messages, NEW f, Decodes(f, msg), Len(msg) <= MaxFrame,
           NEW p \in Seq(Ws!Byte), Agree(p, f)
    PROVE  /\ Len(p) < Len(f) => Ws!DecodeFrame(p, MaxFrame) = Ws!Refused
           /\ Len(p) >= Len(f) => Ws!DecodeFrame(p, MaxFrame) = msg
<1>1. /\ f \in Seq(Ws!Byte) /\ Len(f) \in Nat /\ Len(p) \in Nat /\ Len(msg) \in Nat
      /\ Len(f) = Ws!HeaderLen(f) + Len(msg) /\ Ws!PayloadLen(f) = Len(msg) /\ Ws!Payload(f) = msg
    BY MessagesAre DEF Decodes
<1>2. Ws!ExtraLen(f) \in Nat /\ Ws!HeaderLen(f) \in Nat /\ Ws!HeaderLen(f) >= 2 + Ws!ExtraLen(f)
    BY HeaderSizes
<1>3. /\ Len(p) >= 2 => Ws!ExtraLen(p) = Ws!ExtraLen(f) /\ Ws!HeaderLen(p) = Ws!HeaderLen(f)
      /\ Len(p) >= 2 /\ Len(p) >= 2 + Ws!ExtraLen(f) => Ws!PayloadLen(p) = Len(msg)
      /\ Len(p) >= Len(f) => Ws!Payload(p) = msg
    BY <1>1, SameHeader
<1>4. MaxFrame \in Nat
    BY Sizes
<1>5. ASSUME Len(p) < Len(f)
      PROVE  Ws!DecodeFrame(p, MaxFrame) = Ws!Refused
    <2>1. CASE Len(p) < 2
        BY <2>1 DEF Ws!DecodeFrame
    <2>2. CASE Len(p) >= 2 /\ Len(p) < 2 + Ws!ExtraLen(f)
        <3>1. Len(p) < 2 + Ws!ExtraLen(p)
            BY <1>3, <2>2
        <3> QED
            BY <3>1 DEF Ws!DecodeFrame
    <2>3. CASE Len(p) >= 2 /\ Len(p) >= 2 + Ws!ExtraLen(f)
        <3>1. Len(p) < Ws!HeaderLen(p) + Ws!PayloadLen(p)
            BY <1>1, <1>3, <1>5, <2>3
        <3> QED
            BY <3>1 DEF Ws!DecodeFrame
    <2> QED
        BY <1>1, <1>2, <2>1, <2>2, <2>3
<1>6. ASSUME Len(p) >= Len(f)
      PROVE  Ws!DecodeFrame(p, MaxFrame) = msg
    <2>1. Len(p) >= 2 /\ Len(p) >= 2 + Ws!ExtraLen(f)
        BY <1>1, <1>2, <1>6
    <2>2. /\ ~(Len(p) < 2) /\ ~(Len(p) < 2 + Ws!ExtraLen(p)) /\ ~(Len(p) < Ws!HeaderLen(p))
          /\ ~(Ws!PayloadLen(p) > MaxFrame) /\ ~(Len(p) < Ws!HeaderLen(p) + Ws!PayloadLen(p))
        BY <1>1, <1>2, <1>3, <1>4, <1>6, <2>1
    <2> QED
        BY <2>2, <1>3, <1>6 DEF Ws!DecodeFrame
<1> QED
    BY <1>5, <1>6

----------------------------------------------------------------------------
(* Streams                                                                 *)

\* pos are the places in s where the frames of the messages after the r-th end.
Boundaries(pos, s, msgs, r) ==
    /\ pos \in [r..Len(msgs) -> 0..Len(s)]
    /\ pos[r] = 0 /\ pos[Len(msgs)] = Len(s)
    /\ \A i \in r + 1..Len(msgs) :
          /\ pos[i - 1] + 2 <= pos[i]
          /\ Decodes(SubSeq(s, pos[i - 1] + 1, pos[i]), msgs[i])

\* s consists of one frame for each message after the r-th.
Aligned(s, msgs, r) == r <= Len(msgs) /\ \E pos : Boundaries(pos, s, msgs, r)

LEMMA NothingLeft ==
    ASSUME NEW M, NEW msgs \in Seq(M)
    PROVE  Aligned(<<>>, msgs, Len(msgs))
<1> DEFINE n == Len(msgs)
<1>1. Len(<<>>) = 0 /\ n \in Nat
    OBVIOUS
<1> HIDE DEF n
<1>2. Boundaries([i \in n..n |-> 0], <<>>, msgs, n)
    BY <1>1 DEF Boundaries, n
<1> QED
    BY <1>1, <1>2 DEF Aligned, n

LEMMA NothingSent == Aligned(<<>>, <<>>, 0)
<1>1. <<>> \in Seq(Nat) /\ Len(<<>>) = 0
    OBVIOUS
<1> QED
    BY <1>1, NothingLeft

LEMMA FrameWritten ==
    ASSUME NEW M, NEW msgs \in Seq(M), NEW msg \in M, NEW r \in Nat, NEW s \in Seq(Ws!Byte),
           NEW f \in Seq(Ws!Byte), Decodes(f, msg), Len(f) >= 2, Aligned(s, msgs, r)
    PROVE  Aligned(s \o f, Append(msgs, msg), r)
<1> DEFINE n == Len(msgs)
           t == s \o f
           more == Append(msgs, msg)
<1>1. PICK pos : Boundaries(pos, s, msgs, r)
    BY DEF Aligned
<1>2. n \in Nat /\ r <= n /\ Len(s) \in Nat /\ Len(f) \in Nat
    BY DEF Aligned
<1>3. Len(more) = n + 1 /\ more[n + 1] = msg /\ \A i \in 1..n : more[i] = msgs[i]
    OBVIOUS
<1>4. t \in Seq(Ws!Byte) /\ Joined(t, s, f)
    BY JoinedFrom
<1> HIDE DEF t, more
<1>5. Len(t) = Len(s) + Len(f) /\ (\A i \in 1..Len(s) : t[i] = s[i]) /\ (\A i \in 1..Len(f) : t[Len(s) + i] = f[i])
    BY <1>4 DEF Joined
<1>6. /\ pos \in [r..n -> 0..Len(s)] /\ pos[r] = 0 /\ pos[n] = Len(s)
      /\ \A i \in (r + 1)..n : pos[i - 1] + 2 <= pos[i] /\ Decodes(SubSeq(s, pos[i - 1] + 1, pos[i]), msgs[i])
    BY <1>1 DEF Boundaries
<1> HIDE DEF n
<1> DEFINE pos2 == [i \in r..(n + 1) |-> IF i = n + 1 THEN Len(t) ELSE pos[i]]
<1>7. pos2 \in [r..(n + 1) -> 0..Len(t)] /\ pos2[n + 1] = Len(t) /\ \A i \in r..n : pos2[i] = pos[i] /\ pos[i] \in 0..Len(s)
    <2>1. \A i \in r..(n + 1) : i = n + 1 \/ i \in r..n
        BY <1>2
    <2>2. \A i \in r..n : pos[i] \in 0..Len(s) /\ pos[i] \in 0..Len(t) /\ i \in r..(n + 1) /\ i # n + 1
        BY <1>2, <1>5, <1>6
    <2>3. n + 1 \in r..(n + 1) /\ Len(t) \in 0..Len(t)
        BY <1>2, <1>5
    <2> QED
        BY <2>1, <2>2, <2>3
<1> HIDE DEF pos2
<1>8. ASSUME NEW i \in (r + 1)..(n + 1)
      PROVE  pos2[i - 1] + 2 <= pos2[i] /\ Decodes(SubSeq(t, pos2[i - 1] + 1, pos2[i]), more[i])
    <2>1. CASE i = n + 1
        <3>1. i - 1 \in r..n /\ i - 1 = n
            BY <1>2, <2>1
        <3>2. pos2[i - 1] = Len(s) /\ pos2[i] = Len(s) + Len(f) /\ more[i] = msg
            BY <3>1, <2>1, <1>3, <1>5, <1>6, <1>7
        <3>3. SubSeq(t, Len(s) + 1, Len(s) + Len(f)) = f
            <4>1. Len(s) \in Nat /\ Len(s) + Len(f) <= Len(t)
                BY <1>2, <1>5
            <4>2. \A j \in 1..Len(f) : t[Len(s) + j] = f[j]
                BY <1>5
            <4> QED
                BY <1>4, <4>1, <4>2, SliceIs
        <3>4. pos2[i - 1] + 2 <= pos2[i]
            BY <3>2, <1>2
        <3>5. SubSeq(t, pos2[i - 1] + 1, pos2[i]) = f
            BY <3>2, <3>3
        <3> QED
            BY <3>2, <3>4, <3>5
    <2>2. CASE i # n + 1
        <3>1. i \in (r + 1)..n /\ i \in r..n /\ i - 1 \in r..n /\ i \in 1..n
            BY <1>2, <2>2
        <3>2. pos2[i - 1] = pos[i - 1] /\ pos2[i] = pos[i] /\ more[i] = msgs[i] /\ pos[i - 1] \in 0..Len(s) /\ pos[i] \in 0..Len(s)
            BY <3>1, <1>3, <1>7
        <3>3. SubSeq(t, pos[i - 1] + 1, pos[i]) = SubSeq(s, pos[i - 1] + 1, pos[i])
            <4> DEFINE a == pos[i - 1] + 1
                       b == pos[i]
            <4>1. a \in Nat \ {0} /\ b \in 0..Len(s)
                BY <1>2, <3>2
            <4> HIDE DEF a, b
            <4>2. b \in Int /\ b <= Len(t) /\ b <= Len(s) /\ \A j \in a..b : j \in 1..Len(s)
                BY <4>1, <1>2, <1>5
            <4>3. \A j \in a..b : t[j] = s[j]
                BY <4>2, <1>5
            <4>4. SubSeq(t, a, b) = SubSeq(s, a, b)
                BY <4>1, <4>2, <4>3, <1>4, SameSlice
            <4> QED
                BY <4>4 DEF a, b
        <3> QED
            BY <3>1, <3>2, <3>3, <1>6
    <2> QED
        BY <2>1, <2>2
<1>9. pos2[r] = 0
    BY <1>2, <1>6, <1>7
<1>10. Boundaries(pos2, t, more, r) /\ r <= Len(more)
    BY <1>2, <1>3, <1>7, <1>8, <1>9 DEF Boundaries
<1> QED
    BY <1>10 DEF Aligned, t, more

\* The ends of the frames are in order.
LEMMA EndsGrow ==
    ASSUME NEW s, NEW msgs, NEW r \in Nat, Len(msgs) \in Nat, NEW pos, Boundaries(pos, s, msgs, r),
           NEW j \in r..Len(msgs)
    PROVE  \A i \in j..Len(msgs) : pos[j] <= pos[i]
<1> DEFINE S == {i \in j..Len(msgs) : ~(pos[j] <= pos[i])}
<1>1. \A i \in r..Len(msgs) : pos[i] \in Int
    BY DEF Boundaries
<1>2. SUFFICES ASSUME S # {} PROVE FALSE
    OBVIOUS
<1>3. PICK m \in S : \A y \in S : m <= y
    <2>1. S \in SUBSET Nat
        OBVIOUS
    <2> HIDE DEF S
    <2> QED
        BY <1>2, <2>1, LeastNat
<1>4. m # j
    BY <1>1, <1>3
<1>5. m - 1 \in j..Len(msgs) /\ ~(m <= m - 1) /\ m \in (r + 1)..Len(msgs) /\ m - 1 \in r..Len(msgs) /\ m \in r..Len(msgs)
    BY <1>3, <1>4
<1>6. pos[j] <= pos[m - 1]
    BY <1>3, <1>5
<1>7. pos[m - 1] + 2 <= pos[m]
    BY <1>5 DEF Boundaries
<1>8. pos[j] <= pos[m]
    BY <1>1, <1>5, <1>6, <1>7
<1> QED
    BY <1>3, <1>8

\* A stream that is not empty begins with the frame of the next message.
LEMMA FrameRead ==
    ASSUME NEW M, NEW msgs \in Seq(M), NEW r \in Nat, NEW s \in Seq(Ws!Byte), Aligned(s, msgs, r),
           s # <<>> \/ r # Len(msgs)
    PROVE  \E q \in 2..Len(s) :
              /\ r + 1 \in 1..Len(msgs)
              /\ Decodes(SubSeq(s, 1, q), msgs[r + 1])
              /\ Aligned(SubSeq(s, q + 1, Len(s)), msgs, r + 1)
              /\ q = Len(s) <=> r + 1 = Len(msgs)
<1> DEFINE n == Len(msgs)
           k == Len(s)
<1>1. PICK pos : Boundaries(pos, s, msgs, r)
    BY DEF Aligned
<1>2. n \in Nat /\ r <= n /\ k \in Nat /\ (s # <<>> => k # 0)
    BY EmptySeq DEF Aligned
<1>3. /\ pos \in [r..n -> 0..k] /\ pos[r] = 0 /\ pos[n] = k
      /\ \A i \in (r + 1)..n : pos[i - 1] + 2 <= pos[i] /\ Decodes(SubSeq(s, pos[i - 1] + 1, pos[i]), msgs[i])
    BY <1>1 DEF Boundaries
<1>4. r + 1 \in 1..n /\ r + 1 \in (r + 1)..n /\ (r + 1) - 1 = r /\ r + 1 \in r..n
    BY <1>2, <1>3
<1>5. \A i \in (r + 1)..n : pos[r + 1] <= pos[i]
    <2>1. n \in Nat /\ r + 1 \in r..n
        BY <1>2, <1>4
    <2> QED
        BY <1>1, <2>1, EndsGrow
<1> HIDE DEF n
<1> DEFINE q == pos[r + 1]
<1>6. q \in 2..k /\ Decodes(SubSeq(s, 1, q), msgs[r + 1])
    <2>1. pos[(r + 1) - 1] + 2 <= q /\ Decodes(SubSeq(s, pos[(r + 1) - 1] + 1, q), msgs[r + 1]) /\ q \in 0..k
        BY <1>3, <1>4
    <2>2. pos[(r + 1) - 1] = 0 /\ 0 + 1 = 1
        BY <1>3, <1>4
    <2> QED
        BY <2>1, <2>2, <1>2
<1>7. q = k <=> r + 1 = n
    <2>1. ASSUME r + 1 # n
          PROVE  q # k
        <3>1. r + 2 \in (r + 1)..n /\ (r + 2) - 1 = r + 1 /\ r + 2 \in r..n
            BY <1>4, <2>1, <1>2
        <3>2. q + 2 <= pos[r + 2] /\ pos[r + 2] \in 0..k
            BY <1>3, <3>1
        <3> QED
            BY <3>2, <1>6, <1>2
    <2> QED
        BY <1>3, <2>1
<1> HIDE DEF q
<1> DEFINE t == SubSeq(s, q + 1, k)
<1>8. t \in Seq(Ws!Byte) /\ Len(t) = k - q /\ \A i \in 1..(k - q) : t[i] = s[q + i]
    <2>1. \A i \in (q + 1)..k : s[i] \in Ws!Byte
        BY <1>6
    <2>2. q + 1 \in Int /\ k \in Int
        BY <1>6, <1>2
    <2>3. /\ t \in Seq(Ws!Byte) /\ Len(t) = (IF q + 1 <= k THEN k - (q + 1) + 1 ELSE 0)
          /\ \A i \in 1..(k - (q + 1) + 1) : t[i] = s[(q + 1) + i - 1]
        BY <2>1, <2>2, SubSeqProperties
    <2> HIDE DEF t
    <2>4. Len(t) = k - q /\ k - (q + 1) + 1 = k - q /\ \A i \in 1..(k - q) : (q + 1) + i - 1 = q + i
        BY <2>3, <1>6, <1>2
    <2> QED
        BY <2>3, <2>4
<1> HIDE DEF t
<1> DEFINE pos2 == [i \in (r + 1)..n |-> pos[i] - q]
<1>9. \A i \in (r + 1)..n : pos2[i] = pos[i] - q /\ pos[i] \in q..k /\ pos2[i] \in 0..Len(t)
    <2>1. TAKE i \in (r + 1)..n
    <2>2. pos2[i] = pos[i] - q
        OBVIOUS
    <2>3. i \in r..n
        BY <1>2
    <2>4. pos[i] \in 0..k /\ q <= pos[i]
        BY <2>3, <1>3, <1>5 DEF q
    <2> QED
        BY <2>2, <2>4, <1>2, <1>6, <1>8
<1>10. pos2 \in [(r + 1)..n -> 0..Len(t)]
    BY <1>9
<1> HIDE DEF pos2
<1>11. pos2[r + 1] = 0 /\ pos2[n] = Len(t)
    <2>1. n \in (r + 1)..n
        BY <1>4, <1>2
    <2> QED
        BY <2>1, <1>3, <1>4, <1>6, <1>8, <1>9 DEF q
<1>12. ASSUME NEW i \in (r + 1) + 1..n
       PROVE  pos2[i - 1] + 2 <= pos2[i] /\ Decodes(SubSeq(t, pos2[i - 1] + 1, pos2[i]), msgs[i])
    <2>1. i \in (r + 1)..n /\ i - 1 \in (r + 1)..n
        BY <1>2
    <2>2. pos[i - 1] + 2 <= pos[i] /\ Decodes(SubSeq(s, pos[i - 1] + 1, pos[i]), msgs[i])
        BY <2>1, <1>3
    <2> DEFINE a == pos2[i - 1]
               b == pos2[i]
               u == SubSeq(s, pos[i - 1] + 1, pos[i])
    <2>3. a \in Nat /\ b \in Nat /\ a + q = pos[i - 1] /\ b + q = pos[i] /\ a + 2 <= b /\ b <= Len(t)
        <3>1. a = pos[i - 1] - q /\ pos[i - 1] \in q..k /\ a \in 0..Len(t)
            BY <2>1, <1>9
        <3>2. b = pos[i] - q /\ pos[i] \in q..k /\ b \in 0..Len(t)
            BY <2>1, <1>9
        <3>3. pos[i - 1] + 2 <= pos[i] /\ q \in Nat /\ k \in Nat
            BY <2>2, <1>2, <1>6
        <3> DEFINE x == pos[i - 1]
                   y == pos[i]
        <3>4. a = x - q /\ x \in q..k /\ a \in 0..Len(t) /\ b = y - q /\ y \in q..k /\ b \in 0..Len(t)
              /\ x + 2 <= y /\ q \in Nat /\ k \in Nat
            BY <3>1, <3>2, <3>3
        <3> HIDE DEF a, b, x, y
        <3>5. a \in Nat /\ b \in Nat /\ a + q = x /\ b + q = y /\ a + 2 <= b /\ b <= Len(t)
            BY <3>4, <1>8
        <3> QED
            BY <3>5 DEF x, y
    <2>4. u \in Seq(Ws!Byte) /\ Len(u) = b - a /\ \A j \in 1..(b - a) : u[j] = s[a + q + j]
        <3>1. \A j \in (a + q + 1)..(b + q) : s[j] \in Ws!Byte
            <4>1. \A j \in (a + q + 1)..(b + q) : j \in 1..Len(s)
                <5> HIDE DEF a, b
                <5> QED
                    BY <2>3, <1>2, <1>6, <1>8
            <4> QED
                BY <4>1, Elements
        <3>2. a + q + 1 \in Int /\ b + q \in Int
            BY <2>3, <1>6
        <3>3. u = SubSeq(s, a + q + 1, b + q)
            BY <2>3
        <3> HIDE DEF u, a, b
        <3>4. /\ u \in Seq(Ws!Byte) /\ Len(u) = (IF a + q + 1 <= b + q THEN (b + q) - (a + q + 1) + 1 ELSE 0)
              /\ \A j \in 1..((b + q) - (a + q + 1) + 1) : u[j] = s[(a + q + 1) + j - 1]
            BY <3>1, <3>2, <3>3, SubSeqProperties
        <3>5. Len(u) = b - a /\ (b + q) - (a + q + 1) + 1 = b - a /\ \A j \in 1..(b - a) : (a + q + 1) + j - 1 = a + q + j
            BY <3>4, <2>3, <1>6
        <3> QED
            BY <3>4, <3>5
    <2> HIDE DEF u, a, b
    <2>5. \A j \in 1..Len(u) : t[a + j] = u[j]
        <3>1. \A j \in 1..(b - a) : a + j \in 1..(k - q) /\ q + (a + j) = a + q + j
            BY <2>3, <1>2, <1>6, <1>8
        <3> QED
            BY <3>1, <2>4, <1>8
    <2>6. SubSeq(t, a + 1, a + Len(u)) = u
        BY <2>3, <2>4, <2>5, <1>8, SliceIs
    <2>7. a + Len(u) = b
        BY <2>3, <2>4
    <2>8. SubSeq(t, a + 1, b) = u
        BY <2>6, <2>7
    <2> QED
        BY <2>2, <2>3, <2>8 DEF a, b, u
<1>13. Boundaries(pos2, t, msgs, r + 1)
    BY <1>10, <1>11, <1>12 DEF Boundaries, n
<1>14. Aligned(t, msgs, r + 1)
    BY <1>13, <1>4 DEF Aligned, n
<1> QED
    BY <1>4, <1>6, <1>7, <1>14 DEF n, t

----------------------------------------------------------------------------
(* The web socket                                                          *)

LEMMA LeastIs ==
    ASSUME NEW S \in SUBSET Nat, NEW m \in S, \A y \in S : m <= y
    PROVE  m = CHOOSE x \in S : \A y \in S : x <= y
<1>1. \A x \in S : (\A y \in S : x <= y) => x = m
    OBVIOUS
<1> QED
    BY <1>1

\* The texts that requests are made of (the provers know no member of STRING).
Tokens == STRING \cup {"GET", "Key:", "CRLF", "HTTP"}

LEMMA Pairs ==
    ASSUME NEW S, NEW x \in S, NEW y \in S
    PROVE  <<x, y>> \in Seq(S) /\ Len(<<x, y>>) = 2 /\ <<x, y>>[1] = x /\ <<x, y>>[2] = y
OBVIOUS

LEMMA RequestIs ==
    ASSUME key \in Keys
    PROVE  /\ key \in Seq(Tokens) /\ Len(key) \in Nat /\ (\A i \in 1..Len(key) : key[i] # "CRLF")
           /\ Ws!Request \in Seq(Tokens) /\ Len(Ws!Request) = 3 + Len(key)
           /\ Ws!Request[1] = "GET" /\ Ws!Request[2] = "Key:"
           /\ (\A i \in 1..Len(key) : Ws!Request[2 + i] = key[i])
           /\ Ws!Request[2 + Len(key) + 1] = "CRLF"
<1> DEFINE a == <<"GET", "Key:">>
           c == a \o key
           z == <<"CRLF">>
           R == c \o z
<1>1. key \in Seq(Tokens) /\ \A i \in 1..Len(key) : key[i] # "CRLF"
    <2>1. key \in Seq(STRING) /\ \A i \in 1..Len(key) : key[i] # "CRLF"
        BY NetworkAssumption, Zenon
    <2>2. STRING \subseteq Tokens
        BY DEF Tokens
    <2> QED
        BY <2>1, <2>2, SeqMonotonic
<1>2. Len(key) \in Nat
    BY <1>1
<1>3. a \in Seq(Tokens) /\ Len(a) = 2 /\ a[1] = "GET" /\ a[2] = "Key:"
    BY Pairs DEF Tokens
<1>4. z \in Seq(Tokens) /\ Len(z) = 1 /\ z[1] = "CRLF"
    BY DEF Tokens
<1> HIDE DEF a, z
<1>5. c \in Seq(Tokens) /\ Joined(c, a, key)
    BY <1>1, <1>3, JoinedFrom
<1> HIDE DEF c
<1>6. R \in Seq(Tokens) /\ Joined(R, c, z)
    BY <1>4, <1>5, JoinedFrom
<1>7. Ws!Request = R
    BY DEF Ws!Request, a, c, z
<1> HIDE DEF R
<1>8. Len(c) = 2 + Len(key) /\ (\A i \in 1..2 : c[i] = a[i]) /\ \A i \in 1..Len(key) : c[2 + i] = key[i]
    BY <1>3, <1>5 DEF Joined
<1>9. Len(R) = 3 + Len(key) /\ (\A i \in 1..(2 + Len(key)) : R[i] = c[i]) /\ \A i \in 1..1 : R[2 + Len(key) + i] = z[i]
    BY <1>2, <1>4, <1>6, <1>8 DEF Joined
<1>10. R[1] = "GET" /\ R[2] = "Key:"
    <2>1. 1 \in 1..(2 + Len(key)) /\ 2 \in 1..(2 + Len(key)) /\ 1 \in 1..2 /\ 2 \in 1..2
        BY <1>2
    <2> QED
        BY <2>1, <1>3, <1>8, <1>9
<1>11. \A i \in 1..Len(key) : R[2 + i] = key[i]
    <2>1. \A i \in 1..Len(key) : 2 + i \in 1..(2 + Len(key))
        BY <1>2
    <2> QED
        BY <2>1, <1>8, <1>9
<1>12. R[2 + Len(key) + 1] = "CRLF"
    <2>1. 1 \in 1..1
        OBVIOUS
    <2> QED
        BY <2>1, <1>4, <1>9
<1> QED
    BY <1>1, <1>2, <1>6, <1>7, <1>9, <1>10, <1>11, <1>12

\* ws_accept finds the key in a request that has arrived whole.
LEMMA KeyRead ==
    ASSUME key \in Keys, Len(key) <= KeyMax
    PROVE  Ws!Contains(Ws!Request, "Key:") /\ Ws!KeyIn(Ws!Request) = key
<1> DEFINE R == Ws!Request
           n == Len(key)
           I == {i \in 1..Len(R) : R[i] = "Key:"}
           J == {i \in 3..Len(R) : R[i] = "CRLF"}
<1>1. /\ key \in Seq(Tokens) /\ n \in Nat /\ (\A i \in 1..n : key[i] # "CRLF")
      /\ R \in Seq(Tokens) /\ Len(R) = 3 + n /\ R[1] = "GET" /\ R[2] = "Key:"
      /\ (\A i \in 1..n : R[2 + i] = key[i]) /\ R[2 + n + 1] = "CRLF"
    BY RequestIs
<1> HIDE DEF R
<1>2. 2 \in 1..Len(R) /\ Ws!Contains(R, "Key:")
    BY <1>1 DEF Ws!Contains
<1>3. Ws!SelectInSeq(R, LAMBDA t : t = "Key:") = 2
    <2>1. I \in SUBSET Nat /\ 2 \in I /\ \A y \in I : 2 <= y
        BY <1>1, <1>2
    <2>2. Ws!SelectInSeq(R, LAMBDA t : t = "Key:") = IF I # {} THEN CHOOSE x \in I : \A y \in I : x <= y ELSE 0
        BY DEF Ws!SelectInSeq, Ws!Min
    <2> HIDE DEF I
    <2> QED
        BY <2>1, <2>2, LeastIs
<1>4. Ws!SelectInSubSeq(R, 3, Len(R), LAMBDA t : t = "CRLF") = 3 + n
    <2>1. 3 + n \in J
        BY <1>1
    <2>2. \A y \in J : 3 + n <= y
        <3>1. SUFFICES ASSUME NEW y \in 3..Len(R), R[y] = "CRLF", ~(3 + n <= y) PROVE FALSE
            OBVIOUS
        <3>2. y - 2 \in 1..n /\ 2 + (y - 2) = y
            BY <1>1, <3>1
        <3>3. R[2 + (y - 2)] = key[y - 2] /\ key[y - 2] # "CRLF"
            BY <1>1, <3>2
        <3> QED
            BY <3>1, <3>2, <3>3
    <2>3. J \in SUBSET Nat
        OBVIOUS
    <2>4. Ws!SelectInSubSeq(R, 3, Len(R), LAMBDA t : t = "CRLF") = IF J # {} THEN CHOOSE x \in J : \A y \in J : x <= y ELSE 0
        BY DEF Ws!SelectInSubSeq, Ws!Min
    <2> HIDE DEF J
    <2> QED
        BY <2>1, <2>2, <2>3, <2>4, LeastIs
<1>5. Ws!KeyIn(R) = SubSeq(R, 3, 2 + n)
    <2>1. 2 + 1 = 3 /\ 3 + n # 0 /\ (3 + n) - 1 = 2 + n /\ ~((2 + n) - 3 + 1 > KeyMax)
        BY <1>1, Sizes
    <2> QED
        BY <1>3, <1>4, <2>1 DEF Ws!KeyIn
<1>6. SubSeq(R, 2 + 1, 2 + n) = key
    <2>1. 2 \in Nat /\ 2 + n <= Len(R)
        BY <1>1
    <2> QED
        BY <1>1, <2>1, SliceIs
<1> QED
    BY <1>2, <1>5, <1>6 DEF R

Answers == {Ws!CString(Ws!Payload(p)) : p \in Seq(Ws!Byte)} \cup {Ws!Refused, Ws!Lost}

WsTypes ==
    /\ phase \in {"request", "open", "refused", "failed"} /\ key \in Keys
    /\ request \in Seq(Tokens) /\ Len(request) <= Len(Ws!Request)
    /\ wire \in Seq(Ws!Byte) /\ got \in Seq(Ws!Byte)
    /\ sent \in Seq(Messages) /\ Len(sent) <= MaxSent
    /\ received \in Seq(Answers) /\ whole \in 0..Len(sent)

\* The messages whose frames come before any damage.
Undamaged == SubSeq(sent, 1, whole)

\* s begins with the frames of those after the r-th; the rest is damage.
Begins(s, r) == \E head, rest \in Seq(Ws!Byte) :
    s = head \o rest /\ Aligned(head, Undamaged, r) /\ (~torn => rest = <<>>)

\* The answers to the undamaged messages are these messages or lost, and what
\* has been read of the next frame and what is still on its way begins with
\* the frames of the undamaged messages that remain.
Kept ==
    /\ ~torn => whole = Len(sent) /\ Len(received) <= whole
    /\ \A i \in 1..Len(received) : i <= whole => received[i] \in {Ws!CString(sent[i]), Ws!Lost}
    /\ Len(received) <= whole => Begins(got \o wire, Len(received))

\* Before the upgrade nothing was sent or read.
Fresh == phase = "request" => sent = <<>> /\ received = <<>> /\ got = <<>> /\ whole = 0

WsInv == WsTypes /\ Ws!RefusesOnlyCut /\ Fresh /\ Kept

LEMMA WsStarts == Ws!Init => WsInv
<1> SUFFICES ASSUME Ws!Init PROVE WsInv
    OBVIOUS
<1>1. WsTypes
    BY RequestIs, Sizes DEF Ws!Init, WsTypes
<1>2. <<>> \o <<>> = <<>> /\ Len(<<>>) = 0 /\ <<>> \in Seq(Ws!Byte)
    OBVIOUS
<1>3. Undamaged = <<>>
    BY DEF Ws!Init, Undamaged
<1>4. Begins(<<>>, 0)
    BY <1>2, <1>3, NothingSent DEF Begins
<1>5. Kept
    BY <1>2, <1>4 DEF Ws!Init, Kept
<1> QED
    BY <1>1, <1>5 DEF Ws!Init, WsInv, Ws!RefusesOnlyCut, Fresh

LEMMA PieceIs ==
    ASSUME NEW S, NEW s \in Seq(S), NEW n \in 0..Len(s)
    PROVE  SubSeq(s, 1, n) \in Seq(S) /\ Len(SubSeq(s, 1, n)) = n /\ \A i \in 1..n : SubSeq(s, 1, n)[i] = s[i]
<1>1. \A i \in 1..n : s[i] \in S
    BY Elements
<1>2. 1 \in Int /\ n \in Int
    OBVIOUS
<1> DEFINE t == SubSeq(s, 1, n)
<1>3. t \in Seq(S) /\ Len(t) = (IF 1 <= n THEN n - 1 + 1 ELSE 0) /\ \A i \in 1..(n - 1 + 1) : t[i] = s[1 + i - 1]
    BY <1>1, <1>2, SubSeqProperties
<1> HIDE DEF t
<1>4. t \in Seq(S) /\ Len(t) = n /\ \A i \in 1..n : t[i] = s[i]
    BY <1>3
<1> QED
    BY <1>4 DEF t

LEMMA RestIs ==
    ASSUME NEW S, NEW s \in Seq(S), NEW n \in 0..Len(s)
    PROVE  SubSeq(s, n + 1, Len(s)) \in Seq(S) /\ SubSeq(s, 1, n) \o SubSeq(s, n + 1, Len(s)) = s
<1> DEFINE k == Len(s)
<1>1. k \in Nat /\ \A i \in 1..k : s[i] \in S
    BY Elements
<1>2. SubSeq(s, n + 1, k) \in Seq(S)
    <2>1. (\A i \in (n + 1)..k : s[i] \in S) /\ n + 1 \in Int /\ k \in Int
        BY <1>1
    <2> QED
        BY <2>1, SubSeqProperties
<1>3. SubSeq(s, 1, n) \o SubSeq(s, n + 1, k) = SubSeq(s, 1, k)
    <2>1. 1 \in 1..(Len(s) + 1) /\ n \in (1 - 1)..Len(s) /\ k \in n..Len(s)
        BY <1>1
    <2> QED
        BY <2>1, ConcatAdjacentSubSeq
<1>4. SubSeq(s, 1, Len(s)) = s
    BY SubSeqFull
<1> QED
    BY <1>2, <1>3, <1>4

LEMMA Regroup ==
    ASSUME NEW S, NEW a \in Seq(S), NEW b \in Seq(S), NEW c \in Seq(S)
    PROVE  (a \o b) \o c = a \o (b \o c)
OBVIOUS

\* Equal sequences with beginnings of the same length have the same rest.
LEMMA Cancel ==
    ASSUME NEW S, NEW a \in Seq(S), NEW b \in Seq(S), NEW x \in Seq(S), NEW y \in Seq(S),
           a \o x = b \o y, Len(a) = Len(b)
    PROVE  x = y
<1> DEFINE c == a \o x
           d == b \o y
<1>1. Joined(c, a, x) /\ Joined(d, b, y) /\ c = d
    BY JoinedFrom
<1> HIDE DEF c, d
<1>2. Len(x) = Len(y) /\ \A i \in 1..Len(x) : x[i] = y[i]
    BY <1>1 DEF Joined
<1> QED
    BY <1>2, SeqEqual

LEMMA UndamagedIs ==
    ASSUME WsTypes
    PROVE  /\ whole \in Nat /\ Len(sent) \in Nat /\ whole <= Len(sent)
           /\ Undamaged \in Seq(Messages) /\ Len(Undamaged) = whole
           /\ \A i \in 1..whole : Undamaged[i] = sent[i]
BY PieceIs DEF WsTypes, Undamaged

LEMMA RegroupRead ==
    ASSUME got \in Seq(Ws!Byte), NEW f \in Seq(Ws!Byte), wire' \in Seq(Ws!Byte)
    PROVE  (got \o f) \o wire' = got \o (f \o wire')
BY Regroup

LEMMA ReadStream ==
    ASSUME got \in Seq(Ws!Byte), NEW f \in Seq(Ws!Byte), wire' \in Seq(Ws!Byte), got' = got \o f, f \o wire' = wire
    PROVE  got' \o wire' = got \o wire
<1> DEFINE rest == f \o wire'
           read == got \o f
<1>1. read \o wire' = got \o rest
    BY RegroupRead
<1>2. rest = wire /\ got' = read
    OBVIOUS
<1> HIDE DEF rest, read
<1> QED
    BY <1>1, <1>2

LEMMA ClientWritesKeeps ==
    ASSUME WsInv, Ws!ClientWrites
    PROVE  WsInv'
<1>1. PICK n \in Len(request) + 1..Len(Ws!Request) : request' = SubSeq(Ws!Request, 1, n)
    BY DEF Ws!ClientWrites
<1>2. Ws!Request' = Ws!Request
    BY DEF Ws!ClientWrites, Ws!Request
<1>3. Ws!Request \in Seq(Tokens)
    BY RequestIs DEF WsInv, WsTypes
<1>4. n \in 0..Len(Ws!Request)
    BY <1>1, <1>3 DEF WsInv, WsTypes
<1>5. request' \in Seq(Tokens) /\ Len(request') <= Len(Ws!Request)
    BY <1>1, <1>3, <1>4, PieceIs
<1>6. WsTypes'
    BY <1>2, <1>5 DEF WsInv, WsTypes, Ws!ClientWrites
<1>7. Kept'
    BY DEF WsInv, Kept, Begins, Undamaged, Ws!ClientWrites
<1> QED
    BY <1>6, <1>7 DEF WsInv, Ws!RefusesOnlyCut, Fresh, Ws!ClientWrites

LEMMA WsAcceptKeeps ==
    ASSUME WsInv, Ws!WsAccept
    PROVE  WsInv'
<1> DEFINE opens == Ws!Contains(request, "Key:") /\ Ws!KeyIn(request) = key
           lost == Len(Ws!Request) - Len(request)
<1>1. /\ phase' = (IF opens THEN "open" ELSE "refused") \/ phase' = "failed"
      /\ cut' = (request # Ws!Request) /\ phase = "request"
      /\ UNCHANGED <<request, key, got, closed, sent, received, whole>>
      /\ \/ \E byte \in {0, Ws!Text} : wire' = [i \in 1..lost |-> byte] /\ torn'
         \/ UNCHANGED <<wire, torn>>
    BY DEF Ws!WsAccept
<1>2. Ws!Request' = Ws!Request
    BY <1>1 DEF Ws!Request
<1>3. wire' \in Seq(Ws!Byte)
    <2>1. CASE UNCHANGED wire
        BY <2>1 DEF WsInv, WsTypes
    <2>2. ASSUME NEW byte \in {0, Ws!Text}, wire' = [i \in 1..lost |-> byte]
          PROVE  wire' \in Seq(Ws!Byte)
        <3>1. Len(Ws!Request) \in Nat /\ Len(request) \in Nat /\ Len(request) <= Len(Ws!Request)
            BY RequestIs DEF WsInv, WsTypes
        <3>2. lost \in Nat
            BY <3>1
        <3>3. byte \in Ws!Byte
            BY Sizes
        <3> HIDE DEF lost
        <3> QED
            BY <2>2, <3>2, <3>3
    <2> QED
        BY <1>1, <2>1, <2>2
<1>4. WsTypes'
    <2>1. phase' \in {"request", "open", "refused", "failed"}
        BY <1>1
    <2> QED
        BY <1>1, <1>2, <1>3, <2>1 DEF WsInv, WsTypes
<1>5. (Ws!RefusesOnlyCut)'
    <2>1. SUFFICES ASSUME phase' = "refused", ~cut', Len(key) <= KeyMax PROVE FALSE
        <3>1. Len(key) \in Nat /\ KeyMax \in Nat
            BY RequestIs, Sizes DEF WsInv, WsTypes
        <3>2. ~(Len(key) > KeyMax) => Len(key) <= KeyMax
            BY <3>1
        <3> QED
            BY <2>1, <1>1, <3>2 DEF Ws!RefusesOnlyCut
    <2>2. request = Ws!Request
        BY <1>1, <2>1
    <2>3. opens
        BY <2>1, <2>2, KeyRead DEF WsInv, WsTypes
    <2> QED
        BY <1>1, <2>1, <2>3
<1>6. Kept'
    <2>1. Undamaged' = Undamaged
        BY <1>1 DEF Undamaged
    <2>2. CASE UNCHANGED <<wire, torn>>
        BY <1>1, <2>1, <2>2 DEF WsInv, Kept, Begins
    <2>3. CASE torn'
        <3>1. Len(received') = 0 /\ whole' = 0 /\ got' = <<>> /\ Undamaged' = <<>>
            BY <1>1, <2>1 DEF WsInv, Fresh, Undamaged
        <3>2. got' \o wire' = <<>> \o wire' /\ <<>> \in Seq(Ws!Byte)
            BY <3>1
        <3>3. Begins(got \o wire, 0)'
            BY <1>3, <2>3, <3>1, <3>2, NothingSent DEF Begins
        <3> QED
            BY <2>3, <3>1, <3>3 DEF Kept
    <2> QED
        BY <1>1, <2>2, <2>3
<1>7. Fresh'
    BY <1>1 DEF Fresh
<1> QED
    BY <1>4, <1>5, <1>6, <1>7 DEF WsInv

LEMMA WriteKeeps ==
    ASSUME WsInv, NEW msg \in Messages, NEW frame \in Frames(msg), Ws!Write(frame, msg)
    PROVE  WsInv'
<1>1. PICK n \in {0, Len(frame) - 1, Len(frame)} :
          wire' = wire \o SubSeq(frame, 1, n) /\ torn' = (torn \/ n < Len(frame))
    BY DEF Ws!Write
<1>2. /\ Len(sent) < MaxSent /\ sent' = Append(sent, msg) /\ phase = "open"
      /\ whole' = IF torn' THEN whole ELSE whole + 1
      /\ UNCHANGED <<phase, request, key, cut, got, closed, received>>
    BY DEF Ws!Write, Ws!handshake
<1>3. Decodes(frame, msg) /\ frame \in Seq(Ws!Byte) /\ Len(frame) \in Nat /\ Len(frame) >= 2
    BY FramesDecode DEF Decodes
<1>4. n \in 0..Len(frame)
    BY <1>1, <1>3
<1> DEFINE piece == SubSeq(frame, 1, n)
<1>5. piece \in Seq(Ws!Byte)
    BY <1>3, <1>4, PieceIs
<1>6. wire \in Seq(Ws!Byte) /\ got \in Seq(Ws!Byte) /\ wire' \in Seq(Ws!Byte)
    BY <1>1, <1>5, ConcatProperties DEF WsInv, WsTypes
<1>7. sent \in Seq(Messages) /\ sent' \in Seq(Messages) /\ Len(sent') = Len(sent) + 1 /\ Len(sent) \in Nat
      /\ \A i \in 1..Len(sent) : sent'[i] = sent[i]
    BY <1>2 DEF WsInv, WsTypes
<1>8. Ws!Request' = Ws!Request
    BY <1>2 DEF Ws!Request
<1>9. /\ whole \in Nat /\ whole <= Len(sent) /\ Len(received) \in Nat
      /\ Undamaged \in Seq(Messages) /\ Len(Undamaged) = whole
      /\ \A i \in 1..whole : Undamaged[i] = sent[i]
    BY UndamagedIs DEF WsInv, WsTypes
<1>10. ~torn => whole = Len(sent) /\ Len(received) <= whole
    BY DEF WsInv, Kept
<1>11. ~torn' => ~torn /\ n = Len(frame)
    <2> SUFFICES ASSUME ~torn' PROVE ~torn /\ n = Len(frame)
        OBVIOUS
    <2>1. ~torn /\ ~(n < Len(frame))
        BY <1>1, Zenon
    <2> QED
        BY <2>1, <1>3, <1>4
<1>12. WsTypes'
    <2>1. Len(sent') <= MaxSent
        BY <1>2, <1>7, Sizes
    <2>2. whole' \in 0..Len(sent')
        BY <1>2, <1>7, <1>9
    <2> QED
        BY <1>2, <1>6, <1>7, <1>8, <2>1, <2>2 DEF WsInv, WsTypes
<1>13. (~torn => whole = Len(sent) /\ Len(received) <= whole)'
    BY <1>2, <1>7, <1>9, <1>10, <1>11
<1>14. ASSUME NEW i \in 1..Len(received'), i <= whole'
       PROVE  received'[i] \in {Ws!CString(sent'[i]), Ws!Lost}
    <2>1. i <= whole
        BY <1>2, <1>9, <1>10, <1>11, <1>14
    <2>2. i \in 1..Len(sent) /\ i \in 1..Len(received)
        BY <1>2, <1>9, <2>1
    <2>3. received[i] \in {Ws!CString(sent[i]), Ws!Lost}
        BY <2>1, <2>2 DEF WsInv, Kept
    <2> QED
        BY <1>2, <1>7, <2>2, <2>3
<1>15. ASSUME Len(received') <= whole'
       PROVE  Begins(got \o wire, Len(received))'
    <2>1. Len(received) <= whole /\ Len(received') = Len(received)
        BY <1>2, <1>9, <1>10, <1>11, <1>15
    <2>2. PICK head \in Seq(Ws!Byte), rest \in Seq(Ws!Byte) :
              got \o wire = head \o rest /\ Aligned(head, Undamaged, Len(received)) /\ (~torn => rest = <<>>)
        BY <2>1 DEF WsInv, Kept, Begins
    <2> HIDE DEF piece
    <2>3. got' \o wire' = (got \o wire) \o piece
        <3>1. (got \o wire) \o piece = got \o (wire \o piece)
            BY <1>5, <1>6, Regroup
        <3> QED
            BY <1>1, <1>2, <3>1 DEF piece
    <2>4. got' \o wire' = head \o (rest \o piece) /\ rest \o piece \in Seq(Ws!Byte)
        <3>1. (head \o rest) \o piece = head \o (rest \o piece)
            BY <1>5, <2>2, Regroup
        <3>2. rest \o piece \in Seq(Ws!Byte)
            BY <1>5, ConcatProperties
        <3> QED
            BY <2>2, <2>3, <3>1, <3>2
    <2>5. CASE torn'
        <3>1. Undamaged' = Undamaged
            <4>1. whole' = whole /\ 1 \in Nat \ {0} /\ whole \in Int /\ whole <= Len(sent') /\ whole <= Len(sent)
                BY <1>2, <1>7, <1>9, <2>5
            <4>2. \A i \in 1..whole : sent'[i] = sent[i]
                BY <1>7, <1>9
            <4>3. SubSeq(sent', 1, whole) = SubSeq(sent, 1, whole)
                BY <1>7, <4>1, <4>2, SameSlice
            <4> QED
                BY <4>1, <4>3 DEF Undamaged
        <3> QED
            BY <2>1, <2>2, <2>4, <2>5, <3>1 DEF Begins
    <2>6. CASE ~torn'
        <3>1. ~torn /\ piece = frame /\ rest = <<>>
            BY <1>3, <1>11, <2>2, <2>6, SubSeqFull DEF piece
        <3>2. Undamaged = sent /\ Undamaged' = Append(sent, msg)
            <4>1. whole = Len(sent) /\ whole' = Len(sent')
                BY <1>2, <1>7, <1>10, <2>6, <3>1
            <4>2. SubSeq(sent, 1, Len(sent)) = sent /\ SubSeq(sent', 1, Len(sent')) = sent'
                BY <1>7, SubSeqFull
            <4> QED
                BY <1>2, <4>1, <4>2 DEF Undamaged
        <3>3. got' \o wire' = head \o frame
            <4>1. rest \o piece = frame
                BY <1>3, <3>1, ConcatEmptySeq
            <4> QED
                BY <2>4, <4>1
        <3>4. Aligned(head \o frame, Append(sent, msg), Len(received))
            BY <1>3, <1>7, <1>9, <2>2, <3>2, FrameWritten
        <3>5. head \o frame \in Seq(Ws!Byte) /\ (head \o frame) \o <<>> = head \o frame /\ <<>> \in Seq(Ws!Byte)
            BY <1>3, ConcatProperties, ConcatEmptySeq
        <3> QED
            BY <2>1, <3>2, <3>3, <3>4, <3>5 DEF Begins
    <2> QED
        BY <2>5, <2>6
<1>16. Kept'
    BY <1>13, <1>14, <1>15 DEF Kept
<1> QED
    BY <1>2, <1>12, <1>16 DEF WsInv, Ws!RefusesOnlyCut, Fresh

LEMMA SendKeeps ==
    ASSUME WsInv, NEW msg \in Messages, Ws!WsSend(msg) \/ \E mask \in Masks : Ws!PeerSend(msg, mask)
    PROVE  WsInv'
<1>1. CASE Ws!WsSend(msg)
    <2> DEFINE frame == Ws!EncodeFrame(Len(msg) + Ws!HeaderSize(Len(msg)), msg)
    <2>1. Ws!Write(frame, msg) /\ frame \in Frames(msg)
        BY <1>1 DEF Ws!WsSend, Frames
    <2> HIDE DEF frame
    <2> QED
        BY <2>1, WriteKeeps
<1>2. ASSUME NEW mask \in Masks, Ws!PeerSend(msg, mask)
      PROVE  WsInv'
    <2> DEFINE frame == Ws!PeerFrame(msg, mask)
    <2>1. Ws!Write(frame, msg) /\ frame \in Frames(msg)
        BY <1>2 DEF Ws!PeerSend, Frames
    <2> HIDE DEF frame
    <2> QED
        BY <2>1, WriteKeeps
<1> QED
    BY <1>1, <1>2

LEMMA ReadKeeps ==
    ASSUME WsInv, Ws!Read
    PROVE  WsInv'
<1>1. PICK n \in 1..Len(wire) : got' = got \o SubSeq(wire, 1, n) /\ wire' = SubSeq(wire, n + 1, Len(wire))
    BY DEF Ws!Read
<1>2. phase = "open" /\ UNCHANGED <<phase, request, key, cut, closed, sent, received, torn, whole>>
    BY DEF Ws!Read, Ws!handshake
<1>3. wire \in Seq(Ws!Byte) /\ got \in Seq(Ws!Byte)
    BY DEF WsInv, WsTypes
<1>4. n \in 0..Len(wire)
    BY <1>3
<1>5. SubSeq(wire, 1, n) \in Seq(Ws!Byte)
    BY <1>3, <1>4, PieceIs
<1>6. wire' \in Seq(Ws!Byte) /\ SubSeq(wire, 1, n) \o wire' = wire
    BY <1>1, <1>3, <1>4, RestIs
<1>7. got' \in Seq(Ws!Byte)
    BY <1>1, <1>3, <1>5, ConcatProperties
<1>8. got' \o wire' = got \o wire
    <2> DEFINE read == SubSeq(wire, 1, n)
    <2>1. read \in Seq(Ws!Byte) /\ read \o wire' = wire
        BY <1>5, <1>6
    <2>2. got' = got \o read
        BY <1>1
    <2> HIDE DEF read
    <2> QED
        BY <1>3, <1>6, <2>1, <2>2, ReadStream
<1>9. Ws!Request' = Ws!Request
    BY <1>2 DEF Ws!Request
<1>10. WsTypes'
    BY <1>2, <1>6, <1>7, <1>9 DEF WsInv, WsTypes
<1>11. Kept'
    BY <1>2, <1>8 DEF WsInv, Kept, Begins, Undamaged
<1> QED
    BY <1>2, <1>10, <1>11 DEF WsInv, Ws!RefusesOnlyCut, Fresh

\* What ws_recv has read is part of the frame of the next undamaged message.
LEMMA ReadingFrame ==
    ASSUME WsInv, Len(received) < whole \/ (~torn /\ got # <<>>)
    PROVE  \E f \in Seq(Ws!Byte) :
              /\ Len(received) + 1 \in 1..whole /\ Len(received) + 1 \in 1..Len(sent)
              /\ Decodes(f, sent[Len(received) + 1])
              /\ Agree(got, f)
              /\ Len(f) <= Len(got) + Len(wire)
              /\ Len(f) = Len(got) => Begins(wire, Len(received) + 1)
<1> DEFINE s == got \o wire
           r == Len(received)
<1>1. /\ wire \in Seq(Ws!Byte) /\ got \in Seq(Ws!Byte) /\ r \in Nat
      /\ whole \in Nat /\ whole <= Len(sent) /\ Len(sent) \in Nat
      /\ Undamaged \in Seq(Messages) /\ Len(Undamaged) = whole
      /\ \A i \in 1..whole : Undamaged[i] = sent[i]
    BY UndamagedIs DEF WsInv, WsTypes
<1>2. s \in Seq(Ws!Byte) /\ Joined(s, got, wire)
    BY <1>1, JoinedFrom
<1>3. r <= whole
    BY <1>1 DEF WsInv, Kept
<1>4. PICK head \in Seq(Ws!Byte), rest \in Seq(Ws!Byte) :
          s = head \o rest /\ Aligned(head, Undamaged, r) /\ (~torn => rest = <<>>)
    BY <1>3 DEF WsInv, Kept, Begins
<1>5. Joined(s, head, rest)
    BY <1>4, JoinedFrom
<1> HIDE DEF s, r
<1>6. /\ Len(s) = Len(got) + Len(wire) /\ Len(got) \in Nat /\ Len(wire) \in Nat
      /\ (\A i \in 1..Len(got) : s[i] = got[i])
    BY <1>2 DEF Joined
<1>7. /\ Len(s) = Len(head) + Len(rest) /\ Len(head) \in Nat /\ Len(rest) \in Nat
      /\ (\A i \in 1..Len(head) : s[i] = head[i])
    BY <1>5 DEF Joined
<1>8. head # <<>> \/ r # Len(Undamaged)
    <2>1. CASE r < whole
        BY <1>1, <2>1
    <2>2. CASE ~torn /\ got # <<>>
        <3>1. Len(got) # 0 /\ Len(rest) = 0
            BY <1>1, <1>4, <2>2, EmptySeq
        <3>2. Len(head) # 0
            BY <1>6, <1>7, <3>1
        <3> QED
            BY <3>2
    <2> QED
        BY <2>1, <2>2 DEF r
<1>9. PICK q \in 2..Len(head) :
          /\ r + 1 \in 1..Len(Undamaged)
          /\ Decodes(SubSeq(head, 1, q), Undamaged[r + 1])
          /\ Aligned(SubSeq(head, q + 1, Len(head)), Undamaged, r + 1)
    BY <1>1, <1>4, <1>8, FrameRead
<1> DEFINE f == SubSeq(head, 1, q)
           t == SubSeq(head, q + 1, Len(head))
<1>10. f \in Seq(Ws!Byte) /\ Len(f) = q /\ (\A i \in 1..q : f[i] = head[i]) /\ t \in Seq(Ws!Byte) /\ f \o t = head
    <2>1. q \in 0..Len(head)
        BY <1>7
    <2> QED
        BY <1>7, <2>1, PieceIs, RestIs
<1>11. Decodes(f, sent[r + 1]) /\ Aligned(t, Undamaged, r + 1)
    BY <1>1, <1>9
<1> HIDE DEF f, t
<1>12. Agree(got, f)
    <2>1. \A i \in 1..Len(f) : i <= Len(got) => i \in 1..Len(got) /\ i \in 1..q /\ i \in 1..Len(head)
        BY <1>6, <1>7, <1>10
    <2> QED
        BY <2>1, <1>6, <1>7, <1>10 DEF Agree
<1>13. Len(f) <= Len(got) + Len(wire)
    BY <1>6, <1>7, <1>10
<1>14. ASSUME Len(f) = Len(got)
       PROVE  Begins(wire, r + 1)
    <2>1. (f \o t) \o rest = f \o (t \o rest)
        <3>1. f \in Seq(Ws!Byte) /\ t \in Seq(Ws!Byte) /\ rest \in Seq(Ws!Byte)
            BY <1>10, <1>4
        <3> QED
            BY <3>1, Regroup
    <2>2. t \o rest \in Seq(Ws!Byte)
        BY <1>10, <1>4, ConcatProperties
    <2> DEFINE u == t \o rest
    <2>3. f \o u = got \o wire /\ u \in Seq(Ws!Byte)
        BY <1>4, <1>10, <2>1, <2>2 DEF s
    <2> HIDE DEF u
    <2>4. u = wire
        BY <1>1, <1>10, <1>14, <2>3, Cancel
    <2>5. wire = t \o rest
        BY <2>4 DEF u
    <2> QED
        BY <1>4, <1>10, <1>11, <2>5 DEF Begins
<1> QED
    BY <1>1, <1>9, <1>10, <1>11, <1>12, <1>13, <1>14 DEF r

LEMMA CloseKeeps ==
    ASSUME WsInv, Ws!Close
    PROVE  WsInv'
<1>1. UNCHANGED <<phase, request, key, cut, wire, got, sent, received, torn, whole>>
    BY DEF Ws!Close, Ws!handshake
<1>2. Ws!Request' = Ws!Request
    BY <1>1 DEF Ws!Request
<1>3. WsTypes' /\ Kept'
    BY <1>1, <1>2 DEF WsInv, WsTypes, Kept, Begins, Undamaged
<1> QED
    BY <1>1, <1>3 DEF WsInv, Ws!RefusesOnlyCut, Fresh

LEMMA DeliverKeeps ==
    ASSUME WsInv, Ws!Deliver
    PROVE  WsInv'
<1>1. PICK text \in {Ws!CString(Ws!Payload(got)), Ws!Lost} :
          /\ Ws!HeaderRead /\ Len(got) = Ws!HeaderLen(got) + Ws!PayloadLen(got)
          /\ received' = Append(received, text) /\ got' = <<>>
          /\ UNCHANGED <<phase, request, key, cut, wire, closed, sent, torn, whole>>
    BY DEF Ws!Deliver, Ws!handshake
<1>2. /\ got \in Seq(Ws!Byte) /\ wire \in Seq(Ws!Byte) /\ received \in Seq(Answers)
      /\ Len(received) \in Nat /\ Len(got) \in Nat /\ sent \in Seq(Messages)
      /\ whole \in Nat /\ whole <= Len(sent) /\ Len(sent) \in Nat
    BY UndamagedIs DEF WsInv, WsTypes
<1>3. text \in Answers
    BY <1>1, <1>2 DEF Answers
<1>4. /\ received' \in Seq(Answers) /\ Len(received') = Len(received) + 1 /\ received'[Len(received) + 1] = text
      /\ \A i \in 1..Len(received) : received'[i] = received[i]
    BY <1>1, <1>2, <1>3, AppendProperties
<1>5. Ws!Request' = Ws!Request
    BY <1>1 DEF Ws!Request
<1>6. WsTypes'
    <2>1. got' \in Seq(Ws!Byte)
        BY <1>1
    <2> QED
        BY <1>1, <1>4, <1>5, <2>1 DEF WsInv, WsTypes
<1>7. ASSUME ~torn \/ Len(received') <= whole
      PROVE  /\ Len(received') <= whole
             /\ received'[Len(received')] \in {Ws!CString(sent[Len(received')]), Ws!Lost}
             /\ Begins(got' \o wire, Len(received'))
    <2>1. Len(got) >= 2 /\ Len(got) >= 2 + Ws!ExtraLen(got)
        BY <1>1 DEF Ws!HeaderRead
    <2>2. got # <<>>
        BY <1>2, <2>1, EmptySeq
    <2>3. PICK f \in Seq(Ws!Byte) :
              /\ Len(received) + 1 \in 1..whole /\ Len(received) + 1 \in 1..Len(sent)
              /\ Decodes(f, sent[Len(received) + 1])
              /\ Agree(got, f)
              /\ Len(f) = Len(got) => Begins(wire, Len(received) + 1)
        <3>1. Len(received) < whole \/ (~torn /\ got # <<>>)
            BY <1>2, <1>4, <1>7, <2>2
        <3> QED
            BY <3>1, ReadingFrame
    <2>4. PICK msg \in Messages : msg = sent[Len(received) + 1]
        BY <1>2, <2>3
    <2>5. Decodes(f, msg) /\ Len(msg) \in Nat /\ Len(f) = Ws!HeaderLen(f) + Len(msg)
        BY <2>3, <2>4, MessagesAre DEF Decodes
    <2>6. /\ Len(got) >= 2 => Ws!ExtraLen(got) = Ws!ExtraLen(f) /\ Ws!HeaderLen(got) = Ws!HeaderLen(f)
          /\ Len(got) >= 2 /\ Len(got) >= 2 + Ws!ExtraLen(f) => Ws!PayloadLen(got) = Len(msg)
          /\ Len(got) >= Len(f) => Ws!Payload(got) = msg
        BY <1>2, <2>3, <2>5, SameHeader
    <2>7. Ws!ExtraLen(got) = Ws!ExtraLen(f) /\ Ws!HeaderLen(got) = Ws!HeaderLen(f)
        BY <2>1, <2>6
    <2>8. Ws!PayloadLen(got) = Len(msg)
        BY <2>1, <2>6, <2>7
    <2>9. Len(f) = Len(got)
        BY <1>1, <2>5, <2>7, <2>8
    <2>10. text \in {Ws!CString(sent[Len(received) + 1]), Ws!Lost}
        <3>1. Ws!Payload(got) = msg
            BY <1>2, <2>6, <2>9
        <3> QED
            BY <1>1, <2>4, <3>1
    <2>11. got' \o wire = wire
        BY <1>1, <1>2, ConcatEmptySeq
    <2> QED
        BY <1>2, <1>4, <2>3, <2>9, <2>10, <2>11
<1>8. Kept'
    <2>1. (~torn => whole = Len(sent) /\ Len(received) <= whole)'
        BY <1>1, <1>7 DEF WsInv, Kept
    <2>2. ASSUME NEW i \in 1..Len(received'), i <= whole
          PROVE  received'[i] \in {Ws!CString(sent[i]), Ws!Lost}
        <3>1. CASE i = Len(received')
            BY <1>7, <2>2, <3>1
        <3>2. CASE i # Len(received')
            <4>1. i \in 1..Len(received)
                BY <1>2, <1>4, <3>2
            <4> QED
                BY <1>4, <2>2, <4>1 DEF WsInv, Kept
        <3> QED
            BY <3>1, <3>2
    <2>3. Len(received') <= whole => Begins(got \o wire, Len(received))'
        <3>1. ASSUME Len(received') <= whole PROVE Begins(got \o wire, Len(received))'
            <4>1. Begins(got' \o wire, Len(received'))
                BY <1>7, <3>1
            <4> QED
                BY <1>1, <4>1 DEF Begins, Undamaged
        <3> QED
            BY <3>1
    <2> QED
        BY <1>1, <2>1, <2>2, <2>3 DEF Kept
<1>9. Fresh'
    <2>1. Len(got) >= 2
        BY <1>1 DEF Ws!HeaderRead
    <2>2. got # <<>>
        BY <2>1
    <2> QED
        BY <1>1, <2>2 DEF WsInv, Fresh
<1> QED
    BY <1>1, <1>6, <1>8, <1>9 DEF WsInv, Ws!RefusesOnlyCut

LEMMA DropFrameKeeps ==
    ASSUME WsInv, Ws!DropFrame
    PROVE  WsInv'
<1>1. /\ received' = Append(received, Ws!Refused) /\ got' = <<>> /\ torn' = TRUE /\ Ws!HeaderRead
      /\ whole' = IF Len(received) < whole THEN Len(received) ELSE whole
      /\ UNCHANGED <<phase, request, key, cut, wire, closed, sent>>
    BY DEF Ws!DropFrame, Ws!handshake
<1>2. received' \in Seq(Answers)
    <2>1. Ws!Refused \in Answers
        BY DEF Answers
    <2> QED
        BY <1>1, <2>1, AppendProperties DEF WsInv, WsTypes
<1>3. Ws!Request' = Ws!Request
    BY <1>1 DEF Ws!Request
<1>4. whole \in Nat /\ whole <= Len(sent) /\ Len(sent) \in Nat /\ Len(received) \in Nat
    BY UndamagedIs DEF WsInv, WsTypes
<1>5. WsTypes'
    <2>1. got' \in Seq(Ws!Byte)
        BY <1>1
    <2>2. whole' \in 0..Len(sent)
        BY <1>1, <1>4
    <2> QED
        BY <1>1, <1>2, <1>3, <2>1, <2>2 DEF WsInv, WsTypes
<1>6. Len(received') = Len(received) + 1 /\ \A i \in 1..Len(received) : received'[i] = received[i]
    BY <1>1, AppendProperties DEF WsInv, WsTypes
<1>7. ASSUME NEW i \in 1..Len(received'), i <= whole'
      PROVE  received'[i] \in {Ws!CString(sent[i]), Ws!Lost}
    <2>1. i \in 1..Len(received) /\ i <= whole
        BY <1>1, <1>4, <1>6, <1>7
    <2> QED
        BY <1>6, <2>1 DEF WsInv, Kept
<1>8. ~(Len(received') <= whole')
    BY <1>1, <1>4, <1>6
<1>9. Kept'
    BY <1>1, <1>7, <1>8 DEF Kept
<1>10. Fresh'
    <2>1. Len(got) >= 2
        BY <1>1 DEF Ws!HeaderRead
    <2>2. got # <<>>
        BY <2>1
    <2> QED
        BY <1>1, <2>2 DEF WsInv, Fresh
<1> QED
    BY <1>1, <1>5, <1>9, <1>10 DEF WsInv, Ws!RefusesOnlyCut

\* The stream does not end within the frame of an undamaged message.
LEMMA EndOfStreamKeeps ==
    ASSUME WsInv, Ws!EndOfStream
    PROVE  WsInv'
<1>1. /\ got' = <<>> /\ wire = <<>> /\ got # <<>> /\ Len(got) < Ws!Goal(got)
      /\ phase = "open" /\ UNCHANGED <<phase, request, key, cut, wire, closed, sent, received, torn, whole>>
    BY DEF Ws!EndOfStream, Ws!handshake
<1>2. Ws!Request' = Ws!Request
    BY <1>1 DEF Ws!Request
<1>3. WsTypes'
    <2>1. got' \in Seq(Ws!Byte)
        BY <1>1
    <2> QED
        BY <1>1, <1>2, <2>1 DEF WsInv, WsTypes
<1>4. torn /\ ~(Len(received) < whole)
    <2> SUFFICES ASSUME ~torn \/ Len(received) < whole PROVE FALSE
        OBVIOUS
    <2>1. got \in Seq(Ws!Byte) /\ sent \in Seq(Messages) /\ Len(got) \in Nat /\ Len(wire) = 0
        BY <1>1 DEF WsInv, WsTypes
    <2>2. PICK f \in Seq(Ws!Byte) :
              /\ Len(received) + 1 \in 1..Len(sent)
              /\ Decodes(f, sent[Len(received) + 1])
              /\ Agree(got, f)
              /\ Len(f) <= Len(got) + Len(wire)
        BY <1>1, ReadingFrame
    <2>3. PICK msg \in Messages : msg = sent[Len(received) + 1]
        BY <2>1, <2>2
    <2>4. Decodes(f, msg) /\ Len(msg) \in Nat /\ Len(f) = Ws!HeaderLen(f) + Len(msg)
        BY <2>2, <2>3, MessagesAre DEF Decodes
    <2>5. /\ Len(got) >= 2 => Ws!ExtraLen(got) = Ws!ExtraLen(f) /\ Ws!HeaderLen(got) = Ws!HeaderLen(f)
          /\ Len(got) >= 2 /\ Len(got) >= 2 + Ws!ExtraLen(f) => Ws!PayloadLen(got) = Len(msg)
        BY <2>1, <2>2, <2>4, SameHeader
    <2>6. Ws!HeaderLen(f) \in Nat /\ Ws!ExtraLen(f) \in Nat /\ Ws!HeaderLen(f) >= 2 + Ws!ExtraLen(f)
        BY HeaderSizes
    <2>7. Len(got) >= Len(f) /\ Len(got) >= 2 /\ Len(got) >= 2 + Ws!ExtraLen(f) /\ Len(got) >= Ws!HeaderLen(f)
        BY <2>1, <2>2, <2>4, <2>6
    <2>8. Ws!ExtraLen(got) = Ws!ExtraLen(f) /\ Ws!HeaderLen(got) = Ws!HeaderLen(f) /\ Ws!PayloadLen(got) = Len(msg)
        BY <2>5, <2>7
    <2>9. ~(Len(got) < 2) /\ ~(Len(got) < 2 + Ws!ExtraLen(got)) /\ ~(Len(got) < Ws!HeaderLen(got))
        BY <2>1, <2>6, <2>7, <2>8
    <2>10. Ws!Goal(got) = Len(f)
        BY <2>4, <2>8, <2>9 DEF Ws!Goal
    <2> QED
        BY <1>1, <2>1, <2>4, <2>6, <2>7, <2>10
<1>5. ASSUME Len(received) <= whole
      PROVE  Begins(<<>>, Len(received))
    <2>1. whole \in Nat /\ Len(received) \in Nat /\ Undamaged \in Seq(Messages) /\ Len(Undamaged) = whole
        BY UndamagedIs DEF WsInv, WsTypes
    <2>2. Len(received) = Len(Undamaged)
        BY <1>4, <1>5, <2>1
    <2>3. Aligned(<<>>, Undamaged, Len(received))
        BY <2>1, <2>2, NothingLeft
    <2>4. <<>> \o <<>> = <<>> /\ <<>> \in Seq(Ws!Byte)
        OBVIOUS
    <2> QED
        BY <1>4, <2>3, <2>4 DEF Begins
<1>6. <<>> \o <<>> = <<>> /\ Begins(<<>>, Len(received))' = Begins(<<>>, Len(received))
    BY <1>1 DEF Begins, Undamaged
<1>7. Kept'
    BY <1>1, <1>4, <1>5, <1>6 DEF WsInv, Kept
<1> QED
    BY <1>1, <1>3, <1>7 DEF WsInv, Ws!RefusesOnlyCut, Fresh

\* No step of the web socket breaks the invariant.
LEMMA WsStep ==
    ASSUME WsInv, Ws!Next
    PROVE  WsInv'
<1>1. CASE Ws!ClientWrites
    BY <1>1, ClientWritesKeeps
<1>2. CASE Ws!WsAccept
    BY <1>2, WsAcceptKeeps
<1>3. CASE Ws!Close
    BY <1>3, CloseKeeps
<1>4. CASE \E msg \in Messages : Ws!WsSend(msg) \/ \E mask \in Masks : Ws!PeerSend(msg, mask)
    BY <1>4, SendKeeps
<1>5. CASE Ws!Read
    BY <1>5, ReadKeeps
<1>6. CASE Ws!Deliver
    BY <1>6, DeliverKeeps
<1>7. CASE Ws!EndOfStream
    BY <1>7, EndOfStreamKeeps
<1>8. CASE Ws!DropFrame
    BY <1>8, DropFrameKeeps
<1> QED
    BY <1>1, <1>2, <1>3, <1>4, <1>5, <1>6, <1>7, <1>8 DEF Ws!Next, Ws!Receive

LEMMA WsOrder ==
    ASSUME WsInv
    PROVE  Ws!ReceivedInOrder
<1>1. DOMAIN received = 1..Len(received) /\ whole <= Len(sent)
    BY UndamagedIs DEF WsInv, WsTypes
<1>2. whole \in Nat /\ Len(sent) \in Nat /\ Len(received) \in Nat
    BY UndamagedIs DEF WsInv, WsTypes
<1> QED
    BY <1>1, <1>2 DEF WsInv, Kept, Ws!ReceivedInOrder

LEMMA WsAlignment ==
    ASSUME WsInv
    PROVE  Ws!StreamIsAligned
<1> DEFINE msg == sent[Len(received) + 1]
           Whole(size) == /\ \A n \in 0..size - 1 : Ws!DecodeFrame(SubSeq(wire, 1, n), MaxFrame) = Ws!Refused
                          /\ \A n \in size..Len(wire) : Ws!DecodeFrame(SubSeq(wire, 1, n), MaxFrame) = msg
                          /\ ~torn => (Len(wire) = size <=> Len(sent) = Len(received) + 1)
<1> SUFFICES ASSUME got = <<>>, Len(received) < whole, Len(msg) <= MaxFrame
             PROVE  \E size \in 1..Len(wire) : Whole(size)
    BY Zenon DEF Ws!StreamIsAligned
<1>1. /\ wire \in Seq(Ws!Byte) /\ sent \in Seq(Messages) /\ Len(received) \in Nat /\ Len(wire) \in Nat
      /\ whole \in Nat /\ whole <= Len(sent) /\ Len(sent) \in Nat
      /\ Undamaged \in Seq(Messages) /\ Len(Undamaged) = whole
      /\ \A i \in 1..whole : Undamaged[i] = sent[i]
    BY UndamagedIs DEF WsInv, WsTypes
<1>2. PICK head \in Seq(Ws!Byte), rest \in Seq(Ws!Byte) :
          wire = head \o rest /\ Aligned(head, Undamaged, Len(received)) /\ (~torn => rest = <<>>)
    <2>1. got \o wire = wire
        BY <1>1, ConcatEmptySeq
    <2>2. Begins(got \o wire, Len(received))
        BY <1>1 DEF WsInv, Kept
    <2> QED
        BY <2>1, <2>2 DEF Begins
<1>3. PICK q \in 2..Len(head) :
          /\ Len(received) + 1 \in 1..whole
          /\ Decodes(SubSeq(head, 1, q), msg)
          /\ q = Len(head) <=> Len(received) + 1 = whole
    <2>1. PICK q \in 2..Len(head) :
              /\ Len(received) + 1 \in 1..Len(Undamaged)
              /\ Decodes(SubSeq(head, 1, q), Undamaged[Len(received) + 1])
              /\ q = Len(head) <=> Len(received) + 1 = Len(Undamaged)
        <3> HIDE DEF msg, Whole
        <3>1. Aligned(head, Undamaged, Len(received)) /\ Len(received) # Len(Undamaged)
            BY <1>1, <1>2
        <3>2. \E q \in 2..Len(head) :
                  /\ Len(received) + 1 \in 1..Len(Undamaged)
                  /\ Decodes(SubSeq(head, 1, q), Undamaged[Len(received) + 1])
                  /\ Aligned(SubSeq(head, q + 1, Len(head)), Undamaged, Len(received) + 1)
                  /\ q = Len(head) <=> Len(received) + 1 = Len(Undamaged)
            BY <1>1, <3>1, FrameRead, Zenon
        <3> QED
            BY <3>2, Zenon
    <2> QED
        BY <1>1, <2>1
<1>9. /\ Len(head) \in Nat /\ Len(head) <= Len(wire) /\ \A i \in 1..Len(head) : wire[i] = head[i]
      /\ ~torn => Len(head) = Len(wire)
    <2>1. Joined(wire, head, rest)
        BY <1>2, JoinedFrom
    <2> QED
        BY <1>2, <2>1 DEF Joined
<1> DEFINE f == SubSeq(head, 1, q)
<1>4. f \in Seq(Ws!Byte) /\ Len(f) = q /\ \A i \in 1..q : f[i] = wire[i]
    <2>1. q \in 0..Len(head) /\ \A i \in 1..q : i \in 1..Len(head)
        BY <1>9
    <2>2. f \in Seq(Ws!Byte) /\ Len(f) = q /\ \A i \in 1..q : f[i] = head[i]
        BY <1>2, <2>1, PieceIs
    <2> QED
        BY <1>9, <2>1, <2>2
<1>5. Decodes(f, msg) /\ msg \in Messages
    BY <1>1, <1>3
<1> HIDE DEF f
<1>6. ASSUME NEW n \in 0..Len(wire)
      PROVE  /\ n < q => Ws!DecodeFrame(SubSeq(wire, 1, n), MaxFrame) = Ws!Refused
             /\ n >= q => Ws!DecodeFrame(SubSeq(wire, 1, n), MaxFrame) = msg
    <2> DEFINE p == SubSeq(wire, 1, n)
    <2>1. p \in Seq(Ws!Byte) /\ Len(p) = n /\ \A i \in 1..n : p[i] = wire[i]
        BY <1>1, PieceIs
    <2> HIDE DEF p
    <2>2. Agree(p, f)
        <3>1. \A i \in 1..Len(f) : i <= Len(p) => i \in 1..n /\ i \in 1..q
            BY <1>4, <2>1
        <3> QED
            BY <3>1, <1>4, <2>1 DEF Agree
    <2> HIDE DEF msg
    <2>3. /\ Len(p) < Len(f) => Ws!DecodeFrame(p, MaxFrame) = Ws!Refused
          /\ Len(p) >= Len(f) => Ws!DecodeFrame(p, MaxFrame) = msg
        BY <1>5, <2>1, <2>2, DecodesWhole
    <2> QED
        BY <1>4, <2>1, <2>3 DEF p
<1>7. Whole(q)
    <2>1. \A n \in 0..q - 1 : n \in 0..Len(wire) /\ n < q
        BY <1>1, <1>9
    <2>2. \A n \in q..Len(wire) : n \in 0..Len(wire) /\ n >= q
        BY <1>1, <1>9
    <2>3. ~torn => (Len(wire) = q <=> Len(sent) = Len(received) + 1)
        BY <1>3, <1>9 DEF WsInv, Kept
    <2> QED
        BY <1>6, <2>1, <2>2, <2>3
<1>8. q \in 1..Len(wire)
    BY <1>1, <1>9
<1> QED
    BY <1>7, <1>8

LEMMA WsInvGives ==
    ASSUME WsInv
    PROVE  Ws!TypeOK /\ Ws!RefusesOnlyCut /\ Ws!ReceivedInOrder /\ Ws!StreamIsAligned
<1>1. Ws!TypeOK
    BY DEF WsInv, WsTypes, Ws!TypeOK
<1> QED
    BY <1>1, WsOrder, WsAlignment DEF WsInv

\* The idle program leaves the web socket as it is.
LEMMA WsStutter ==
    ASSUME WsInv, UNCHANGED wsVars
    PROVE  WsInv'
<1>1. UNCHANGED <<phase, request, key, cut, wire, got, closed, sent, received, torn, whole>>
    BY DEF wsVars
<1>2. Ws!Request' = Ws!Request
    BY <1>1 DEF Ws!Request
<1>3. WsTypes' /\ Kept'
    BY <1>1, <1>2 DEF WsInv, WsTypes, Kept, Begins, Undamaged
<1> QED
    BY <1>1, <1>3 DEF WsInv, Ws!RefusesOnlyCut, Fresh

WsOnly == program \in {"http", "ws"} /\ WsInv

\* The frames are kept (abs_ws.c): ws_accept refuses only what was cut or does
\* not fit key[], ws_recv answers the messages in order, and between two of
\* them it stands at the start of a frame, for texts, masks and lengths of any
\* size and whatever pieces the stream comes in.
THEOREM FramesAlwaysKept == Spec => []FramesAreKept
<1>1. Init => WsOnly
    BY WsStarts DEF Init, WsOnly
<1>2. WsOnly /\ [Next]_vars => WsOnly'
    <2> SUFFICES ASSUME WsOnly, [Next]_vars PROVE WsOnly'
        OBVIOUS
    <2>1. CASE WsNext
        BY <2>1, WsStep DEF WsOnly, WsNext
    <2>2. CASE HttpNext
        BY <2>2, WsStutter DEF WsOnly, HttpNext
    <2>3. CASE UNCHANGED vars
        BY <2>3, WsStutter DEF WsOnly, vars
    <2> QED
        BY <2>1, <2>2, <2>3 DEF Next
<1>3. WsOnly => FramesAreKept
    BY WsInvGives DEF WsOnly, FramesAreKept
<1> QED
    BY <1>1, <1>2, <1>3, PTL DEF Spec

----------------------------------------------------------------------------
(* The web server                                                          *)

Stages == {"setup", "accept", "recv", "header", "content", "close", "dead"}
Said == {"404", "200", "NotFound", "", None} \cup Handlers
Visit == [path : Paths, written : Nat, seen : Nat, closed : BOOLEAN, got : Seq(Said)]

HttpTypes ==
    /\ routes \in [Paths -> Handlers \cup {None, Null, "error", "trap"}] /\ answer \in Handlers \cup {None, ""}
    /\ pc \in Stages /\ queue \in Seq(Clients) /\ conn \in [Clients -> Visit] /\ oom \in BOOLEAN

\* recv() has seen the whole request line, and sscanf takes its whole path.
Asked(c) == conn[c].seen = Len(Http!Request(c)) /\ Len(conn[c].path) <= PathMax
Expected(c) == {Http!Wanted(routes[conn[c].path])} \cup (IF oom THEN {"", None} ELSE {})
Says(c, said) == \E result \in Expected(c) : Http!IsPrefix(said, Http!Pieces(result))

\* Who waits in the backlog has got nothing, waits once and is not served.
Waiting == \A i \in 1..Len(queue) :
    /\ conn[queue[i]].got = <<>> /\ queue[i] # cur
    /\ \A j \in 1..Len(queue) : queue[j] = queue[i] => j = i

Serving ==
    /\ pc \in {"setup", "accept"} => cur = None
    /\ pc \in {"recv", "header", "content", "close"} => cur \in Clients
    /\ open = IF cur = None THEN {} ELSE {cur}
    /\ cur \in Clients \cup {None}
    /\ pc = "setup" => \A c \in Clients : conn[c].got = <<>>
    /\ pc \in {"recv", "header"} => conn[cur].got = <<>>
    /\ pc = "content" => conn[cur].got = <<Http!Pieces(answer)[1]>> \/ conn[cur].closed
    /\ pc \in {"header", "content"} => (Asked(cur) => answer \in Expected(cur))

\* A path whose node has no handler has had no memory.
Failures == \A p \in Paths : routes[p] \in {Null, "error", "trap"} => oom

HttpInv == HttpTypes /\ Waiting /\ Serving /\ Failures /\ Http!AnswersItsRequest /\ Http!EndsForAReason

LEMMA PathsAre == \A p \in Paths : p \in Seq(STRING) /\ \A i \in 1..Len(p) : p[i] # "HTTP"
    BY NetworkAssumption, Zenon

LEMMA NoneIsNoClient == None \notin Clients /\ PathMax \in Nat
<1>1. None \notin Clients
    BY NetworkAssumption, Zenon
<1>2. PathMax \in Nat
    BY NetworkAssumption, Zenon
<1> QED
    BY <1>1, <1>2

LEMMA NoHandler == {Null, "error", "trap"} \cap (Handlers \cup {None}) = {}
BY NetworkAssumption, Zenon

LEMMA LineIs ==
    ASSUME NEW c, conn[c].path \in Paths
    PROVE  /\ conn[c].path \in Seq(Tokens) /\ Len(conn[c].path) \in Nat
           /\ Http!Request(c) \in Seq(Tokens) /\ Len(Http!Request(c)) = 2 + Len(conn[c].path)
           /\ Http!Request(c)[1] = "GET"
           /\ (\A i \in 1..Len(conn[c].path) : Http!Request(c)[1 + i] = conn[c].path[i])
           /\ Http!Request(c)[2 + Len(conn[c].path)] = "HTTP"
<1>1. PICK p \in Paths : p = conn[c].path
    OBVIOUS
<1> DEFINE a == <<"GET">>
           b == a \o p
           z == <<"HTTP">>
           R == b \o z
<1>2. p \in Seq(Tokens) /\ Len(p) \in Nat
    <2>1. p \in Seq(STRING)
        BY PathsAre
    <2>2. STRING \subseteq Tokens
        BY DEF Tokens
    <2>3. p \in Seq(Tokens)
        BY <2>1, <2>2, SeqMonotonic
    <2> QED
        BY <2>3
<1>3. a \in Seq(Tokens) /\ Len(a) = 1 /\ a[1] = "GET"
    BY DEF Tokens
<1>4. z \in Seq(Tokens) /\ Len(z) = 1 /\ z[1] = "HTTP"
    BY DEF Tokens
<1> HIDE DEF a, z
<1>5. b \in Seq(Tokens) /\ Joined(b, a, p)
    BY <1>2, <1>3, JoinedFrom
<1> HIDE DEF b
<1>6. R \in Seq(Tokens) /\ Joined(R, b, z)
    BY <1>4, <1>5, JoinedFrom
<1>7. Http!Request(c) = R
    BY <1>1 DEF Http!Request, a, b, z
<1> HIDE DEF R
<1>8. Len(b) = 1 + Len(p) /\ (\A i \in 1..1 : b[i] = a[i]) /\ \A i \in 1..Len(p) : b[1 + i] = p[i]
    BY <1>3, <1>5 DEF Joined
<1>9. Len(R) = 2 + Len(p) /\ (\A i \in 1..(1 + Len(p)) : R[i] = b[i]) /\ \A i \in 1..1 : R[1 + Len(p) + i] = z[i]
    <2>1. Len(R) = Len(b) + 1 /\ (\A i \in 1..Len(b) : R[i] = b[i]) /\ \A i \in 1..1 : R[Len(b) + i] = z[i]
        BY <1>4, <1>6 DEF Joined
    <2>2. Len(b) + 1 = 2 + Len(p)
        BY <1>2, <1>8
    <2> QED
        BY <2>1, <2>2, <1>8
<1>10. R[1] = "GET"
    <2>1. 1 \in 1..(1 + Len(p)) /\ 1 \in 1..1
        BY <1>2
    <2> QED
        BY <2>1, <1>3, <1>8, <1>9
<1>11. \A i \in 1..Len(p) : R[1 + i] = p[i]
    <2>1. \A i \in 1..Len(p) : 1 + i \in 1..(1 + Len(p))
        BY <1>2
    <2> QED
        BY <2>1, <1>8, <1>9
<1>12. R[2 + Len(p)] = "HTTP"
    <2>1. 1 \in 1..1 /\ 1 + Len(p) + 1 = 2 + Len(p)
        BY <1>2
    <2> QED
        BY <2>1, <1>4, <1>9
<1> QED
    BY <1>1, <1>2, <1>6, <1>7, <1>9, <1>10, <1>11, <1>12

LEMMA PathFound ==
    ASSUME NEW p \in Seq(Tokens), NEW R \in Seq(Tokens), NEW n \in Nat, n = Len(p), n <= PathMax,
           \A i \in 1..n : p[i] # "HTTP", Len(R) = 2 + n, R[1] = "GET",
           \A i \in 1..n : R[1 + i] = p[i], R[2 + n] = "HTTP"
    PROVE  Http!PathOf(R) = p
<1> DEFINE I == {i \in 1..Len(R) : R[i] = "HTTP"}
<1>1. Http!SelectInSeq(R, LAMBDA t : t = "HTTP") = 2 + n
    <2>1. 2 + n \in I
        OBVIOUS
    <2>2. \A y \in I : 2 + n <= y
        <3>1. SUFFICES ASSUME NEW y \in 1..Len(R), R[y] = "HTTP", ~(2 + n <= y) PROVE FALSE
            OBVIOUS
        <3>2. y # 1
            BY <3>1
        <3>3. y - 1 \in 1..n /\ 1 + (y - 1) = y
            BY <3>1, <3>2
        <3>4. R[1 + (y - 1)] = p[y - 1] /\ p[y - 1] # "HTTP"
            BY <3>3
        <3> QED
            BY <3>1, <3>3, <3>4
    <2>3. I \in SUBSET Nat
        OBVIOUS
    <2>4. Http!SelectInSeq(R, LAMBDA t : t = "HTTP") = IF I # {} THEN CHOOSE x \in I : \A y \in I : x <= y ELSE 0
        BY DEF Http!SelectInSeq, Http!Min
    <2> HIDE DEF I
    <2> QED
        BY <2>1, <2>2, <2>3, <2>4, LeastIs
<1>2. Http!PathOf(R) = SubSeq(R, 2, 1 + n)
    <2>1. 2 + n # 0 /\ (2 + n) - 1 = 1 + n /\ ~(1 + n > PathMax + 1)
        BY NoneIsNoClient
    <2> QED
        BY <1>1, <2>1 DEF Http!PathOf
<1>3. SubSeq(R, 1 + 1, 1 + Len(p)) = p
    <2>1. 1 \in Nat /\ 1 + Len(p) <= Len(R)
        OBVIOUS
    <2> QED
        BY <2>1, SliceIs
<1> QED
    BY <1>2, <1>3

\* sscanf finds the path in a request line that has arrived whole.
LEMMA PathRead ==
    ASSUME NEW c, conn[c].path \in Paths, Len(conn[c].path) <= PathMax
    PROVE  Http!PathOf(Http!Request(c)) = conn[c].path
<1> DEFINE R == Http!Request(c)
           p == conn[c].path
<1>1. /\ p \in Seq(Tokens) /\ Len(p) \in Nat /\ (\A i \in 1..Len(p) : p[i] # "HTTP")
      /\ R \in Seq(Tokens) /\ Len(R) = 2 + Len(p) /\ R[1] = "GET"
      /\ (\A i \in 1..Len(p) : R[1 + i] = p[i]) /\ R[2 + Len(p)] = "HTTP"
    BY LineIs, PathsAre
<1> HIDE DEF R
<1> QED
    BY <1>1, PathFound DEF R

\* The beginnings of an answer of two pieces.
LEMMA Beginnings ==
    ASSUME NEW x, NEW y
    PROVE  Http!IsPrefix(<<>>, <<x, y>>) /\ Http!IsPrefix(<<x>>, <<x, y>>) /\ Http!IsPrefix(<<x, y>>, <<x, y>>)
BY DEF Http!IsPrefix

LEMMA PiecesAre ==
    ASSUME NEW result
    PROVE  Http!Pieces(result) = <<Http!Pieces(result)[1], Http!Pieces(result)[2]>>
BY DEF Http!Pieces

\* Who has got nothing has got the beginning of an answer.
LEMMA SilenceIsFine ==
    ASSUME NEW c
    PROVE  Says(c, <<>>)
<1>1. Http!Wanted(routes[conn[c].path]) \in Expected(c)
    BY DEF Expected
<1>2. \A result : Http!IsPrefix(<<>>, Http!Pieces(result))
    BY PiecesAre, Beginnings
<1> QED
    BY <1>1, <1>2 DEF Says

LEMMA SilenceStaysFine ==
    ASSUME NEW c
    PROVE  Says(c, <<>>)'
<1>1. Http!Wanted(routes[conn[c].path])' \in Expected(c)'
    BY DEF Expected
<1>2. \A result : Http!IsPrefix(<<>>, Http!Pieces(result)')
    <2>1. \A result : Http!Pieces(result)' = Http!Pieces(result)
        BY DEF Http!Pieces
    <2> QED
        BY <2>1, PiecesAre, Beginnings
<1> QED
    BY <1>1, <1>2 DEF Says

LEMMA AnswersAre == Http!AnswersItsRequest <=> \A c \in Clients : Asked(c) => Says(c, conn[c].got)
BY DEF Http!AnswersItsRequest, Asked, Says, Expected

\* A step that keeps what was asked, and forgets no lack of memory, keeps the
\* beginnings of the answers.
LEMMA SameAnswers ==
    ASSUME HttpInv, UNCHANGED routes, oom => oom', oom' \in BOOLEAN, NEW c \in Clients,
           conn'[c].path = conn[c].path, conn'[c].seen = conn[c].seen
    PROVE  /\ Http!Request(c)' = Http!Request(c) /\ Asked(c)' = Asked(c)
           /\ Expected(c) \subseteq Expected(c)'
           /\ conn'[c].got = conn[c].got => (Asked(c)' => Says(c, conn[c].got)')
<1>1. Http!Request(c)' = Http!Request(c) /\ Asked(c)' = Asked(c)
    BY DEF Http!Request, Asked
<1>2. Expected(c) \subseteq Expected(c)'
    BY DEF Expected, Http!Wanted
<1>3. ASSUME conn'[c].got = conn[c].got, Asked(c)'
      PROVE  Says(c, conn[c].got)'
    <2>1. Says(c, conn[c].got)
        BY <1>1, <1>3, AnswersAre DEF HttpInv
    <2>2. PICK result \in Expected(c) : Http!IsPrefix(conn[c].got, Http!Pieces(result))
        BY <2>1 DEF Says
    <2> QED
        BY <1>2, <1>3, <2>2 DEF Says, Http!Pieces
<1> QED
    BY <1>1, <1>2, <1>3

LEMMA VisitIs ==
    ASSUME HttpTypes, NEW c \in Clients
    PROVE  /\ conn[c].path \in Paths /\ conn[c].written \in Nat /\ conn[c].seen \in Nat
           /\ conn[c].closed \in BOOLEAN /\ conn[c].got \in Seq(Said)
           /\ Len(Http!Request(c)) \in Nat
<1>1. conn[c] \in Visit
    BY DEF HttpTypes
<1>2. conn[c].path \in Paths
    BY <1>1 DEF Visit
<1>3. Len(Http!Request(c)) \in Nat
    BY <1>2, LineIs
<1> QED
    BY <1>1, <1>3 DEF Visit

LEMMA QueueIs ==
    ASSUME HttpInv
    PROVE  /\ queue \in Seq(Clients) /\ Len(queue) \in Nat /\ DOMAIN queue = 1..Len(queue)
           /\ \A i \in 1..Len(queue) : queue[i] \in Clients
<1>1. queue \in Seq(Clients)
    BY DEF HttpInv, HttpTypes
<1> QED
    BY <1>1

LEMMA OomIs ==
    ASSUME HttpInv
    PROVE  oom \in BOOLEAN
BY Zenon DEF HttpInv, HttpTypes

\* A step that only lets clients write or go keeps the invariant.
LEMMA ClientsKeep ==
    ASSUME HttpInv, UNCHANGED <<routes, up, pc, cur, answer, queue, open, oom>>,
           conn' \in [Clients -> Visit],
           \A c \in Clients : /\ conn'[c].path = conn[c].path /\ conn'[c].seen = conn[c].seen
                              /\ conn'[c].got = conn[c].got /\ (conn[c].closed => conn'[c].closed)
    PROVE  HttpInv'
<1>1. HttpTypes'
    BY DEF HttpInv, HttpTypes
<1>2. Waiting'
    <2>1. Waiting
        BY DEF HttpInv
    <2> QED
        BY <2>1, QueueIs DEF Waiting
<1>3. \A c \in Clients : Asked(c)' = Asked(c) /\ Expected(c) \subseteq Expected(c)' /\ (Asked(c)' => Says(c, conn[c].got)')
    BY SameAnswers, OomIs
<1>4. Serving'
    <2>1. Http!Pieces(answer)' = Http!Pieces(answer)
        BY DEF Http!Pieces
    <2>2. CASE pc \notin {"recv", "header", "content"}
        BY <2>2 DEF HttpInv, Serving
    <2>3. CASE pc \in {"recv", "header", "content"}
        <3>1. cur \in Clients
            BY <2>3 DEF HttpInv, Serving
        <3> QED
            BY <1>3, <2>1, <2>3, <3>1 DEF HttpInv, Serving
    <2> QED
        BY <2>2, <2>3
<1>5. (Http!AnswersItsRequest)'
    BY <1>3 DEF Http!AnswersItsRequest, Asked, Says, Expected
<1>6. Failures' /\ (Http!EndsForAReason)'
    BY DEF HttpInv, Failures, Serving, Http!EndsForAReason
<1> QED
    BY <1>1, <1>2, <1>4, <1>5, <1>6 DEF HttpInv

LEMMA ClientWriteKeeps ==
    ASSUME HttpInv, NEW d \in Clients, Http!Write(d)
    PROVE  HttpInv'
<1>1. PICK n \in conn[d].written + 1..Len(Http!Request(d)) : conn' = [conn EXCEPT ![d].written = n]
    BY DEF Http!Write
<1>2. n \in Nat
    BY VisitIs DEF HttpInv
<1>3. conn \in [Clients -> Visit]
    BY DEF HttpInv, HttpTypes
<1>4. conn' \in [Clients -> Visit]
    BY <1>1, <1>2, <1>3 DEF Visit
<1>5. \A c \in Clients : /\ conn'[c].path = conn[c].path /\ conn'[c].seen = conn[c].seen
                         /\ conn'[c].got = conn[c].got /\ (conn[c].closed => conn'[c].closed)
    BY <1>1, <1>3 DEF Visit
<1> QED
    BY <1>4, <1>5, ClientsKeep DEF Http!Write

LEMMA HangupKeeps ==
    ASSUME HttpInv, NEW d \in Clients, Http!Hangup(d)
    PROVE  HttpInv'
<1>1. conn' = [conn EXCEPT ![d].closed = TRUE]
    BY DEF Http!Hangup
<1>2. conn \in [Clients -> Visit]
    BY DEF HttpInv, HttpTypes
<1>3. conn' \in [Clients -> Visit]
    BY <1>1, <1>2 DEF Visit
<1>4. \A c \in Clients : /\ conn'[c].path = conn[c].path /\ conn'[c].seen = conn[c].seen
                         /\ conn'[c].got = conn[c].got /\ (conn[c].closed => conn'[c].closed)
    BY <1>1, <1>2 DEF Visit
<1> QED
    BY <1>3, <1>4, ClientsKeep DEF Http!Hangup

LEMMA ConnectKeeps ==
    ASSUME HttpInv, NEW d \in Clients, Http!Connect(d)
    PROVE  HttpInv'
<1>1. /\ conn[d].got = <<>> /\ d \notin Http!Range(queue) \cup open /\ queue' = Append(queue, d)
      /\ UNCHANGED <<routes, up, pc, cur, answer, conn, open, oom>>
    BY DEF Http!Connect
<1>2. queue \in Seq(Clients) /\ Len(queue) \in Nat /\ DOMAIN queue = 1..Len(queue)
    BY QueueIs
<1>3. /\ queue' \in Seq(Clients) /\ Len(queue') = Len(queue) + 1 /\ queue'[Len(queue) + 1] = d
      /\ \A i \in 1..Len(queue) : queue'[i] = queue[i]
    BY <1>1, <1>2, AppendProperties
<1>4. \A i \in 1..Len(queue) : queue[i] # d
    BY <1>1, <1>2 DEF Http!Range
<1>5. d # cur
    BY <1>1, NoneIsNoClient DEF HttpInv, Serving
<1>6. HttpTypes'
    BY <1>1, <1>3 DEF HttpInv, HttpTypes
<1>7. Waiting'
    <2>1. ASSUME NEW i \in 1..Len(queue')
          PROVE  /\ conn[queue'[i]].got = <<>> /\ queue'[i] # cur
                 /\ \A j \in 1..Len(queue') : queue'[j] = queue'[i] => j = i
        <3>1. \A j \in 1..Len(queue') : j = Len(queue) + 1 \/ j \in 1..Len(queue)
            BY <1>2, <1>3
        <3>2. CASE i = Len(queue) + 1
            BY <1>1, <1>3, <1>4, <1>5, <3>1, <3>2
        <3>3. CASE i \in 1..Len(queue)
            BY <1>3, <1>4, <3>1, <3>3 DEF HttpInv, Waiting
        <3> QED
            BY <3>1, <3>2, <3>3
    <2> QED
        BY <1>1, <2>1 DEF Waiting
<1>8. \A c \in Clients : Asked(c)' = Asked(c) /\ Expected(c) \subseteq Expected(c)' /\ (Asked(c)' => Says(c, conn[c].got)')
    BY <1>1, SameAnswers, OomIs
<1>9. Serving'
    BY <1>1, <1>8 DEF HttpInv, Serving, Http!Pieces
<1>10. (Http!AnswersItsRequest)'
    BY <1>8 DEF Http!AnswersItsRequest, Asked, Says, Expected
<1>11. Failures' /\ (Http!EndsForAReason)'
    BY <1>1 DEF HttpInv, Failures, Http!EndsForAReason
<1> QED
    BY <1>6, <1>7, <1>9, <1>10, <1>11 DEF HttpInv

LEMMA RouteKeeps ==
    ASSUME HttpInv, NEW path \in Paths, NEW h \in Handlers, Http!Route(path, h)
    PROVE  HttpInv'
<1>1. pc = "setup" /\ UNCHANGED <<up, cur, answer, queue, conn, open>>
    BY DEF Http!Route
<1>2. \/ /\ UNCHANGED pc /\ (oom => oom') /\ oom' \in BOOLEAN
         /\ routes' \in [Paths -> Handlers \cup {None, Null, "error", "trap"}]
         /\ \A p \in Paths : routes'[p] \in {Null, "error", "trap"} => oom'
      \/ routes[path] = "trap" /\ pc' = "dead" /\ UNCHANGED <<routes, oom>>
    <2>1. ASSUME NEW func \in {h, "error", Null}, routes' = [routes EXCEPT ![path] = func],
                 oom' = (oom \/ func # h), UNCHANGED pc
          PROVE  /\ (oom => oom') /\ oom' \in BOOLEAN
                 /\ routes' \in [Paths -> Handlers \cup {None, Null, "error", "trap"}]
                 /\ \A p \in Paths : routes'[p] \in {Null, "error", "trap"} => oom'
        <3>1. h \notin {Null, "error", "trap"}
            BY NoHandler
        <3> QED
            BY <2>1, <3>1 DEF HttpInv, HttpTypes, Failures
    <2>2. ASSUME NEW bucket \in SUBSET Paths, oom' = TRUE, UNCHANGED pc,
                 routes' \in {routes, [p \in Paths |-> IF p \in bucket THEN "trap" ELSE routes[p]]}
          PROVE  routes' \in [Paths -> Handlers \cup {None, Null, "error", "trap"}]
        BY <2>2 DEF HttpInv, HttpTypes
    <2> QED
        BY <2>1, <2>2 DEF Http!Route
<1>3. Waiting'
    BY <1>1 DEF HttpInv, Waiting
<1>4. (Http!AnswersItsRequest)'
    <2>1. \A c \in Clients : Says(c, <<>>)' /\ conn'[c].got = <<>>
        BY <1>1, SilenceStaysFine DEF HttpInv, Serving
    <2> QED
        BY <2>1 DEF Http!AnswersItsRequest, Says, Expected
<1>5. CASE UNCHANGED pc /\ oom' \in BOOLEAN /\ routes' \in [Paths -> Handlers \cup {None, Null, "error", "trap"}]
           /\ \A p \in Paths : routes'[p] \in {Null, "error", "trap"} => oom'
    <2>1. HttpTypes' /\ Serving'
        BY <1>1, <1>5 DEF HttpInv, HttpTypes, Serving
    <2>2. Failures' /\ (Http!EndsForAReason)'
        BY <1>1, <1>5 DEF Failures, Http!EndsForAReason
    <2> QED
        BY <1>3, <1>4, <2>1, <2>2 DEF HttpInv
<1>6. CASE routes[path] = "trap" /\ pc' = "dead" /\ UNCHANGED <<routes, oom>>
    <2>1. HttpTypes' /\ Serving'
        BY <1>1, <1>6 DEF HttpInv, HttpTypes, Serving, Stages
    <2>2. Failures' /\ (Http!EndsForAReason)'
        BY <1>6 DEF HttpInv, Failures, Http!EndsForAReason
    <2> QED
        BY <1>3, <1>4, <2>1, <2>2 DEF HttpInv
<1> QED
    BY <1>2, <1>5, <1>6

LEMMA RunKeeps ==
    ASSUME HttpInv, Http!Run
    PROVE  HttpInv'
<1>1. pc = "setup" /\ pc' = "accept" /\ UNCHANGED <<routes, up, cur, answer, queue, conn, open, oom>>
    BY DEF Http!Run
<1>2. HttpTypes'
    BY <1>1 DEF HttpInv, HttpTypes, Stages
<1>3. Waiting'
    BY <1>1 DEF HttpInv, Waiting
<1>4. Serving'
    BY <1>1 DEF HttpInv, Serving
<1>5. (Http!AnswersItsRequest)'
    <2>1. \A c \in Clients : Asked(c)' => Says(c, conn[c].got)'
        BY <1>1, SameAnswers, OomIs
    <2> QED
        BY <2>1 DEF Http!AnswersItsRequest, Asked, Says, Expected
<1>6. Failures' /\ (Http!EndsForAReason)'
    BY <1>1 DEF HttpInv, Failures, Http!EndsForAReason
<1> QED
    BY <1>2, <1>3, <1>4, <1>5, <1>6 DEF HttpInv

LEMMA AcceptKeeps ==
    ASSUME HttpInv, Http!Accept
    PROVE  HttpInv'
<1>1. /\ pc = "accept" /\ queue # <<>> /\ cur' = Head(queue) /\ queue' = Tail(queue)
      /\ open' = open \cup {Head(queue)} /\ pc' = "recv"
      /\ UNCHANGED <<routes, up, answer, conn, oom>>
    BY DEF Http!Accept
<1>2. queue \in Seq(Clients) /\ Len(queue) \in Nat /\ Len(queue) >= 1
    BY <1>1, QueueIs, EmptySeq
<1>3. /\ queue' \in Seq(Clients) /\ Len(queue') = Len(queue) - 1
      /\ \A i \in 1..Len(queue') : queue'[i] = queue[i + 1]
    BY <1>1, <1>2, HeadTailProperties
<1>4. cur' = queue[1] /\ cur' \in Clients
    BY <1>1, <1>2
<1>5. HttpTypes'
    BY <1>1, <1>3 DEF HttpInv, HttpTypes, Stages
<1>6. Waiting'
    <2>1. ASSUME NEW i \in 1..Len(queue')
          PROVE  /\ conn[queue'[i]].got = <<>> /\ queue'[i] # cur'
                 /\ \A j \in 1..Len(queue') : queue'[j] = queue'[i] => j = i
        <3>1. \A j \in 1..Len(queue') : j + 1 \in 1..Len(queue) /\ j + 1 # 1
            BY <1>2, <1>3
        <3>2. /\ conn[queue[i + 1]].got = <<>>
              /\ \A j \in 1..Len(queue) : queue[j] = queue[i + 1] => j = i + 1
            BY <3>1 DEF HttpInv, Waiting
        <3>3. queue[1] # queue[i + 1]
            <4>1. 1 \in 1..Len(queue) /\ 1 # i + 1
                BY <1>2, <3>1
            <4> QED
                BY <3>2, <4>1
        <3>4. ASSUME NEW j \in 1..Len(queue'), queue'[j] = queue'[i]
              PROVE  j = i
            <4>1. j + 1 = i + 1
                BY <1>3, <3>1, <3>2, <3>4
            <4> QED
                BY <4>1
        <3> QED
            BY <1>3, <1>4, <3>2, <3>3, <3>4
    <2> QED
        BY <1>1, <2>1 DEF Waiting
<1>7. conn[cur'].got = <<>>
    <2>1. 1 \in 1..Len(queue)
        BY <1>2
    <2> QED
        BY <1>4, <2>1 DEF HttpInv, Waiting
<1>8. Serving'
    <2>1. open' = {cur'}
        BY <1>1 DEF HttpInv, Serving
    <2>2. cur' # None
        BY <1>4, NoneIsNoClient
    <2> QED
        BY <1>1, <1>4, <1>7, <2>1, <2>2 DEF Serving
<1>9. (Http!AnswersItsRequest)'
    <2>1. \A c \in Clients : Asked(c)' => Says(c, conn[c].got)'
        BY <1>1, SameAnswers, OomIs
    <2> QED
        BY <2>1 DEF Http!AnswersItsRequest, Asked, Says, Expected
<1>10. Failures' /\ (Http!EndsForAReason)'
    BY <1>1 DEF HttpInv, Failures, Http!EndsForAReason
<1> QED
    BY <1>5, <1>6, <1>8, <1>9, <1>10 DEF HttpInv

\* What recv() returned is answered, and no one has got anything of it yet.
LEMMA RecvKeeps ==
    ASSUME HttpInv, Http!Recv
    PROVE  HttpInv'
<1> DEFINE handler == Http!Handler(Http!PathOf(Http!Arrived(cur)))
<1>1. /\ pc = "recv" /\ conn' = [conn EXCEPT ![cur].seen = conn[cur].written]
      /\ UNCHANGED <<routes, up, cur, queue, open>>
    BY DEF Http!Recv
<1>2. PICK result \in Http!Handle(handler) :
          /\ oom' = (oom \/ result # Http!Wanted(handler))
          /\ \/ result # Null /\ answer' = result /\ pc' = "header"
             \/ result = Null /\ pc' = "dead" /\ UNCHANGED answer
    BY Zenon DEF Http!Recv, Http!Stage
<1> HIDE DEF handler
<1>3. cur \in Clients /\ open = {cur} /\ conn[cur].got = <<>>
    BY <1>1, NoneIsNoClient DEF HttpInv, Serving
<1>4. conn \in [Clients -> Visit] /\ queue \in Seq(Clients) /\ oom' \in BOOLEAN /\ (oom => oom')
    BY <1>2 DEF HttpInv, HttpTypes
<1>5. conn' \in [Clients -> Visit]
    BY <1>1, <1>3, <1>4 DEF Visit
<1>6. \A c \in Clients : conn'[c].path = conn[c].path /\ conn'[c].got = conn[c].got
    BY <1>1, <1>3, <1>4 DEF Visit
<1>7. /\ conn'[cur].seen = conn[cur].written
      /\ \A c \in Clients : c # cur => conn'[c].seen = conn[c].seen
    BY <1>1, <1>3, <1>4 DEF Visit
<1>8. result \in {Http!Wanted(handler), "", None, Null} /\ Http!Wanted(handler) \in Handlers \cup {None}
    BY DEF Http!Handle, Http!Wanted
<1>9. HttpTypes'
    BY <1>1, <1>2, <1>5, <1>8 DEF HttpInv, HttpTypes, Stages
<1>10. Waiting'
    BY <1>1, <1>4, <1>6 DEF HttpInv, Waiting
<1>11. Http!Request(cur)' = Http!Request(cur)
    BY <1>1, <1>3, <1>6 DEF Http!Request
<1>12. ASSUME Asked(cur)', result # Null
       PROVE  answer' \in Expected(cur)'
    <2>1. conn[cur].written = Len(Http!Request(cur)) /\ Len(conn[cur].path) <= PathMax
        BY <1>1, <1>3, <1>6, <1>7, <1>11, <1>12 DEF Asked
    <2>2. conn[cur].path \in Paths
        BY <1>3, VisitIs DEF HttpInv
    <2>3. Http!Arrived(cur) = Http!Request(cur)
        <3>1. Http!Request(cur) \in Seq(Tokens)
            BY <2>2, LineIs
        <3> QED
            BY <2>1, <3>1, SubSeqFull DEF Http!Arrived
    <2>4. Http!PathOf(Http!Arrived(cur)) = conn[cur].path
        BY <2>1, <2>2, <2>3, PathRead
    <2>5. handler = routes[conn[cur].path]
        BY <2>2, <2>4 DEF handler, Http!Handler
    <2>6. Http!Wanted(routes[conn[cur].path])' = Http!Wanted(handler)
        BY <1>1, <1>3, <1>6, <2>5 DEF Http!Wanted
    <2>7. answer' = result /\ (result = Http!Wanted(handler) \/ (oom' /\ result \in {"", None}))
        BY <1>2, <1>8, <1>12
    <2> QED
        BY <2>6, <2>7 DEF Expected
<1>13. Serving'
    BY <1>1, <1>2, <1>3, <1>6, <1>12 DEF HttpInv, Serving
<1>14. (Http!AnswersItsRequest)'
    <2>1. ASSUME NEW c \in Clients, Asked(c)'
          PROVE  Says(c, conn[c].got)'
        <3>1. CASE c = cur
            <4>1. Says(c, <<>>)' /\ conn'[c].got = <<>>
                BY <1>3, <1>6, <3>1, SilenceStaysFine
            <4> QED
                BY <4>1 DEF Says, Expected
        <3>2. CASE c # cur
            BY <1>1, <1>4, <1>6, <1>7, <2>1, <3>2, SameAnswers
        <3> QED
            BY <3>1, <3>2
    <2> QED
        BY <2>1 DEF Http!AnswersItsRequest, Asked, Says, Expected
<1>15. Failures' /\ (Http!EndsForAReason)'
    <2>1. Failures'
        BY <1>1, <1>4 DEF HttpInv, Failures
    <2>2. result = Null => oom'
        BY <1>2, <1>8, NoHandler
    <2> QED
        BY <1>2, <2>1, <2>2 DEF Http!EndsForAReason
<1> QED
    BY <1>9, <1>10, <1>13, <1>14, <1>15 DEF HttpInv

\* One piece of the answer more, or nothing more, for the client being served.
LEMMA SaysMore ==
    ASSUME HttpInv, cur \in Clients, NEW g \in Seq(Said), conn' = [conn EXCEPT ![cur].got = g],
           UNCHANGED <<routes, cur, answer, queue, oom>>, Asked(cur) => Says(cur, g)
    PROVE  /\ conn' \in [Clients -> Visit] /\ Waiting' /\ (Http!AnswersItsRequest)' /\ Failures'
           /\ conn'[cur].got = g /\ (Asked(cur)' => Asked(cur)) /\ Expected(cur) \subseteq Expected(cur)'
<1>1. conn \in [Clients -> Visit] /\ queue \in Seq(Clients) /\ oom' \in BOOLEAN
    BY DEF HttpInv, HttpTypes
<1>2. conn' \in [Clients -> Visit]
    BY <1>1 DEF Visit
<1>3. \A c \in Clients : /\ conn'[c].path = conn[c].path /\ conn'[c].seen = conn[c].seen
                         /\ conn'[c].got = IF c = cur THEN g ELSE conn[c].got
    BY <1>1 DEF Visit
<1>4. \A c \in Clients : /\ Asked(c)' = Asked(c) /\ Expected(c) \subseteq Expected(c)'
                         /\ c # cur => (Asked(c)' => Says(c, conn[c].got)')
    BY <1>1, <1>3, SameAnswers
<1>5. Waiting'
    BY <1>1, <1>3 DEF HttpInv, Waiting
<1>6. (Http!AnswersItsRequest)'
    <2>1. Asked(cur)' => Says(cur, conn[cur].got)'
        BY <1>3, <1>4 DEF Says, Http!Pieces
    <2> QED
        BY <1>4, <2>1 DEF Http!AnswersItsRequest, Asked, Says, Expected
<1>7. Failures'
    BY DEF HttpInv, Failures
<1> QED
    BY <1>2, <1>3, <1>4, <1>5, <1>6, <1>7

LEMMA SaysNothing ==
    ASSUME HttpInv, cur \in Clients, UNCHANGED <<routes, cur, answer, queue, conn, oom>>
    PROVE  /\ conn' \in [Clients -> Visit] /\ Waiting' /\ (Http!AnswersItsRequest)' /\ Failures'
           /\ (Asked(cur)' => Asked(cur)) /\ Expected(cur) \subseteq Expected(cur)'
<1>1. conn \in [Clients -> Visit] /\ conn[cur].got \in Seq(Said)
    BY VisitIs DEF HttpInv, HttpTypes
<1>2. conn' = [conn EXCEPT ![cur].got = conn[cur].got]
    BY <1>1 DEF Visit
<1>3. Asked(cur) => Says(cur, conn[cur].got)
    BY AnswersAre DEF HttpInv
<1> QED
    BY <1>1, <1>2, <1>3, SaysMore

\* What goes out is an answer that may be given to who is served.
LEMMA AnswerIs ==
    ASSUME HttpInv, pc \in {"header", "content"}, Asked(cur)
    PROVE  Says(cur, <<Http!Pieces(answer)[1]>>) /\ Says(cur, <<Http!Pieces(answer)[1], Http!Pieces(answer)[2]>>)
<1>1. answer \in Expected(cur)
    BY DEF HttpInv, Serving
<1>2. /\ Http!IsPrefix(<<Http!Pieces(answer)[1]>>, Http!Pieces(answer))
      /\ Http!IsPrefix(<<Http!Pieces(answer)[1], Http!Pieces(answer)[2]>>, Http!Pieces(answer))
    BY PiecesAre, Beginnings
<1> QED
    BY <1>1, <1>2 DEF Says

LEMMA Appended ==
    ASSUME NEW S, NEW s \in Seq(S), NEW y \in S
    PROVE  /\ Append(s, y) \in Seq(S) /\ Len(Append(s, y)) = Len(s) + 1 /\ Append(s, y)[Len(s) + 1] = y
           /\ \A i \in 1..Len(s) : Append(s, y)[i] = s[i]
BY AppendProperties

LEMMA TwoPieces ==
    ASSUME NEW x, NEW y
    PROVE  Append(<<x>>, y) = <<x, y>>
<1> DEFINE S == {x, y}
           s == <<x>>
           t == <<x, y>>
           a == Append(s, y)
<1>1. s \in Seq(S) /\ Len(s) = 1 /\ s[1] = x /\ y \in S
    OBVIOUS
<1>2. t \in Seq(S) /\ Len(t) = 2 /\ t[1] = x /\ t[2] = y
    OBVIOUS
<1> HIDE DEF S, s, t
<1>3. /\ a \in Seq(S) /\ Len(a) = Len(s) + 1 /\ a[Len(s) + 1] = y
      /\ \A i \in 1..Len(s) : a[i] = s[i]
    BY <1>1, Appended, Zenon
<1> HIDE DEF a
<1>4. Len(a) = 2 /\ a[1] = x /\ a[2] = y
    BY <1>1, <1>3
<1>5. \A i \in 1..2 : a[i] = t[i]
    BY <1>2, <1>4
<1>6. a = t
    BY <1>2, <1>3, <1>4, <1>5, SeqEqual
<1> QED
    BY <1>6 DEF s, t, a

LEMMA PiecesSaid == HttpTypes => Http!Pieces(answer)[1] \in Said /\ Http!Pieces(answer)[2] \in Said
<1>1. CASE answer = None
    BY <1>1 DEF Http!Pieces, Said
<1>2. CASE answer # None
    BY <1>2 DEF HttpTypes, Http!Pieces, Said
<1> QED
    BY <1>1, <1>2

LEMMA SendHeaderKeeps ==
    ASSUME HttpInv, Http!SendHeader
    PROVE  HttpInv'
<1> DEFINE said == <<Http!Pieces(answer)[1]>>
<1>1. pc = "header" /\ UNCHANGED <<routes, up, cur, answer, queue, open, oom>>
    BY DEF Http!SendHeader, Http!Send
<1>2. cur \in Clients /\ conn[cur].got = <<>>
    BY <1>1 DEF HttpInv, Serving
<1>3. \/ ~conn[cur].closed /\ pc' = "content" /\ conn' = [conn EXCEPT ![cur].got = said]
      \/ conn[cur].closed /\ pc' \in {"content", "dead"} /\ UNCHANGED conn
    <2>1. Append(conn[cur].got, Http!Pieces(answer)[1]) = said
        BY <1>2
    <2> QED
        BY <1>1, <2>1 DEF Http!SendHeader, Http!Send
<1>4. Http!Pieces(answer)' = Http!Pieces(answer)
    BY <1>1 DEF Http!Pieces
<1>5. CASE ~conn[cur].closed /\ pc' = "content" /\ conn' = [conn EXCEPT ![cur].got = said]
    <2>1. said \in Seq(Said)
        BY PiecesSaid DEF HttpInv
    <2>2. Asked(cur) => Says(cur, said)
        BY <1>1, AnswerIs
    <2>3. /\ conn' \in [Clients -> Visit] /\ Waiting' /\ (Http!AnswersItsRequest)' /\ Failures'
          /\ conn'[cur].got = said /\ (Asked(cur)' => Asked(cur)) /\ Expected(cur) \subseteq Expected(cur)'
        BY <1>1, <1>2, <1>5, <2>1, <2>2, SaysMore
    <2>4. HttpTypes'
        BY <1>1, <1>5, <2>3 DEF HttpInv, HttpTypes, Stages
    <2>5. Serving'
        BY <1>1, <1>2, <1>4, <1>5, <2>3 DEF HttpInv, Serving
    <2> QED
        BY <1>5, <2>3, <2>4, <2>5 DEF HttpInv, Http!EndsForAReason
<1>6. CASE conn[cur].closed /\ pc' \in {"content", "dead"} /\ UNCHANGED conn
    <2>1. /\ conn' \in [Clients -> Visit] /\ Waiting' /\ (Http!AnswersItsRequest)' /\ Failures'
          /\ (Asked(cur)' => Asked(cur)) /\ Expected(cur) \subseteq Expected(cur)'
        BY <1>1, <1>2, <1>6, SaysNothing
    <2>2. HttpTypes'
        BY <1>1, <1>6, <2>1 DEF HttpInv, HttpTypes, Stages
    <2>3. Serving'
        BY <1>1, <1>2, <1>6, <2>1 DEF HttpInv, Serving
    <2>4. (Http!EndsForAReason)'
        BY <1>1, <1>2, <1>6, NoneIsNoClient DEF Http!EndsForAReason
    <2> QED
        BY <2>1, <2>2, <2>3, <2>4 DEF HttpInv
<1> QED
    BY <1>3, <1>5, <1>6

LEMMA SendContentKeeps ==
    ASSUME HttpInv, Http!SendContent
    PROVE  HttpInv'
<1> DEFINE x == Http!Pieces(answer)[1]
           y == Http!Pieces(answer)[2]
<1>1. pc = "content" /\ UNCHANGED <<routes, up, cur, answer, queue, open, oom>>
    BY DEF Http!SendContent, Http!Send
<1>2. cur \in Clients /\ (conn[cur].got = <<x>> \/ conn[cur].closed)
    BY <1>1 DEF HttpInv, Serving
<1>3. \/ ~conn[cur].closed /\ pc' = "close" /\ conn' = [conn EXCEPT ![cur].got = <<x, y>>]
      \/ conn[cur].closed /\ pc' \in {"close", "dead"} /\ UNCHANGED conn
    <2>1. CASE conn[cur].closed
        BY <1>1, <2>1 DEF Http!SendContent, Http!Send
    <2>2. CASE ~conn[cur].closed
        <3>1. Append(conn[cur].got, y) = <<x, y>>
            BY <1>2, <2>2, TwoPieces
        <3> QED
            BY <1>1, <2>2, <3>1 DEF Http!SendContent, Http!Send
    <2> QED
        BY <2>1, <2>2
<1>4. CASE ~conn[cur].closed /\ pc' = "close" /\ conn' = [conn EXCEPT ![cur].got = <<x, y>>]
    <2>1. <<x, y>> \in Seq(Said)
        BY PiecesSaid DEF HttpInv
    <2>2. Asked(cur) => Says(cur, <<x, y>>)
        BY <1>1, AnswerIs
    <2> HIDE DEF x, y
    <2>3. conn' \in [Clients -> Visit] /\ Waiting' /\ (Http!AnswersItsRequest)' /\ Failures'
        BY <1>1, <1>2, <1>4, <2>1, <2>2, SaysMore
    <2>4. HttpTypes'
        BY <1>1, <1>4, <2>3 DEF HttpInv, HttpTypes, Stages
    <2>5. Serving'
        BY <1>1, <1>2, <1>4 DEF HttpInv, Serving
    <2> QED
        BY <1>4, <2>3, <2>4, <2>5 DEF HttpInv, Http!EndsForAReason
<1>5. CASE conn[cur].closed /\ pc' \in {"close", "dead"} /\ UNCHANGED conn
    <2>1. conn' \in [Clients -> Visit] /\ Waiting' /\ (Http!AnswersItsRequest)' /\ Failures'
        BY <1>1, <1>2, <1>5, SaysNothing
    <2>2. HttpTypes'
        BY <1>1, <1>5, <2>1 DEF HttpInv, HttpTypes, Stages
    <2>3. Serving'
        BY <1>1, <1>2, <1>5 DEF HttpInv, Serving
    <2>4. (Http!EndsForAReason)'
        BY <1>1, <1>2, <1>5, NoneIsNoClient DEF Http!EndsForAReason
    <2> QED
        BY <2>1, <2>2, <2>3, <2>4 DEF HttpInv
<1> QED
    BY <1>3, <1>4, <1>5

LEMMA CloseClientKeeps ==
    ASSUME HttpInv, Http!CloseClient
    PROVE  HttpInv'
<1>1. /\ pc = "close" /\ pc' = "accept" /\ cur' = None /\ answer' = None /\ open' = open \ {cur}
      /\ UNCHANGED <<routes, up, queue, conn, oom>>
    BY DEF Http!CloseClient, Http!Closed
<1>2. cur \in Clients /\ open = {cur}
    BY <1>1, NoneIsNoClient DEF HttpInv, Serving
<1>3. HttpTypes'
    BY <1>1 DEF HttpInv, HttpTypes, Stages
<1>4. Waiting'
    <2>1. \A i \in 1..Len(queue) : queue[i] \in Clients /\ queue[i] # None
        BY NoneIsNoClient, QueueIs
    <2> QED
        BY <1>1, <2>1 DEF HttpInv, Waiting
<1>5. Serving'
    BY <1>1, <1>2 DEF Serving
<1>6. (Http!AnswersItsRequest)'
    <2>1. \A c \in Clients : Asked(c)' => Says(c, conn[c].got)'
        BY <1>1, SameAnswers, OomIs
    <2> QED
        BY <2>1 DEF Http!AnswersItsRequest, Asked, Says, Expected
<1>7. Failures' /\ (Http!EndsForAReason)'
    BY <1>1 DEF HttpInv, Failures, Http!EndsForAReason
<1> QED
    BY <1>3, <1>4, <1>5, <1>6, <1>7 DEF HttpInv

\* No step of the web server breaks the invariant.
LEMMA HttpStep ==
    ASSUME HttpInv, Http!Next
    PROVE  HttpInv'
<1>1. CASE \E p \in Paths, h \in Handlers : Http!Route(p, h)
    BY <1>1, RouteKeeps
<1>2. CASE Http!Run
    BY <1>2, RunKeeps
<1>3. CASE Http!Accept
    BY <1>3, AcceptKeeps
<1>4. CASE Http!Recv
    BY <1>4, RecvKeeps
<1>5. CASE Http!SendHeader
    BY <1>5, SendHeaderKeeps
<1>6. CASE Http!SendContent
    BY <1>6, SendContentKeeps
<1>7. CASE Http!CloseClient
    BY <1>7, CloseClientKeeps
<1>8. CASE \E c \in Clients : Http!Connect(c) \/ Http!Write(c) \/ Http!Hangup(c)
    BY <1>8, ConnectKeeps, ClientWriteKeeps, HangupKeeps
<1> QED
    BY <1>1, <1>2, <1>3, <1>4, <1>5, <1>6, <1>7, <1>8 DEF Http!Next, Http!ServerStep

LEMMA HttpStarts == Http!Init => HttpInv
<1> SUFFICES ASSUME Http!Init PROVE HttpInv
    OBVIOUS
<1>1. /\ routes = [p \in Paths |-> None] /\ pc = "setup" /\ cur = None /\ answer = None
      /\ queue = <<>> /\ open = {} /\ conn \in Http!Visits /\ oom = FALSE
    BY DEF Http!Init
<1>2. conn \in [Clients -> Visit] /\ \A c \in Clients : conn[c].got = <<>>
    <2>1. <<>> \in Seq(Said)
        OBVIOUS
    <2>2. ASSUME NEW c \in Clients
          PROVE  conn[c] \in Visit /\ conn[c].got = <<>>
        <3>1. PICK p \in Paths : conn[c] = [path |-> p, written |-> 0, seen |-> 0, closed |-> FALSE, got |-> <<>>]
            BY <1>1 DEF Http!Visits
        <3> QED
            BY <2>1, <3>1 DEF Visit
    <2>3. conn = [c \in Clients |-> conn[c]]
        BY <1>1 DEF Http!Visits
    <2> QED
        BY <2>2, <2>3
<1>3. HttpTypes
    <2>1. queue \in Seq(Clients)
        BY <1>1
    <2> QED
        BY <1>1, <1>2, <2>1 DEF HttpTypes, Stages
<1>4. Waiting
    BY <1>1 DEF Waiting
<1>5. Serving
    BY <1>1, <1>2 DEF Serving
<1>6. Http!AnswersItsRequest
    BY <1>2, SilenceIsFine, AnswersAre
<1>7. Failures /\ Http!EndsForAReason
    BY <1>1, NoHandler DEF Failures, Http!EndsForAReason
<1> QED
    BY <1>3, <1>4, <1>5, <1>6, <1>7 DEF HttpInv

\* The idle program leaves the web server as it is.
LEMMA HttpStutter ==
    ASSUME HttpInv, UNCHANGED httpVars
    PROVE  HttpInv'
<1>1. UNCHANGED <<routes, up, pc, cur, answer, queue, conn, open, oom>>
    BY DEF httpVars
<1>2. HttpTypes' /\ Waiting'
    BY <1>1 DEF HttpInv, HttpTypes, Waiting
<1>3. Serving'
    <2>1. Expected(cur)' = Expected(cur) /\ Asked(cur)' = Asked(cur) /\ Http!Pieces(answer)' = Http!Pieces(answer)
        BY <1>1 DEF Expected, Asked, Http!Request, Http!Pieces, Http!Wanted
    <2> QED
        BY <1>1, <2>1 DEF HttpInv, Serving
<1>4. (Http!AnswersItsRequest)'
    <2>1. \A c \in Clients : Asked(c)' => Says(c, conn[c].got)'
        BY <1>1, SameAnswers, OomIs
    <2> QED
        BY <2>1 DEF Http!AnswersItsRequest, Asked, Says, Expected
<1>5. Failures' /\ (Http!EndsForAReason)'
    BY <1>1 DEF HttpInv, Failures, Http!EndsForAReason
<1> QED
    BY <1>2, <1>3, <1>4, <1>5 DEF HttpInv

\* The web server serves one connection after the other (abs_server.c): it
\* holds one connection at a time, and a client whose request line had arrived
\* gets the beginning of its own path's answer, or of one without memory; the
\* process ends only for want of memory or with a client that hangs up while
\* it is served: for any number of clients, whatever they write and whenever
\* they hang up.
THEOREM ServesOneByOneAlways == Spec => []ServesOneByOne
<1>1. Init => HttpInv
    BY HttpStarts DEF Init
<1>2. HttpInv /\ [Next]_vars => HttpInv'
    <2> SUFFICES ASSUME HttpInv, [Next]_vars PROVE HttpInv'
        OBVIOUS
    <2>1. CASE WsNext
        BY <2>1, HttpStutter DEF WsNext
    <2>2. CASE HttpNext
        BY <2>2, HttpStep DEF HttpNext
    <2>3. CASE UNCHANGED vars
        BY <2>3, HttpStutter DEF vars
    <2> QED
        BY <2>1, <2>2, <2>3 DEF Next
<1>3. HttpInv => ServesOneByOne
    <2> SUFFICES ASSUME HttpInv PROVE Http!OneConnection
        BY DEF HttpInv, ServesOneByOne
    <2> QED
        BY NoneIsNoClient DEF HttpInv, Serving, Http!OneConnection
<1> QED
    BY <1>1, <1>2, <1>3, PTL DEF Spec
=============================================================================
