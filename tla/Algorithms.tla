----------------------------- MODULE Algorithms -----------------------------
(***************************************************************************)
(* A program that calls the library's pure functions one at a time.  call  *)
(* is the last call: its arguments, and the results that were returned.    *)
(* Each property relates results to what they have to be by a definition   *)
(* that does not compute them, or to the results of other functions.       *)
(***************************************************************************)
EXTENDS Collections, Json, Regex, Matrices, Numbers, Images, Resources

CONSTANTS
    Items, SortLists, SmallLists,      \* list items and lists of them
    Texts, Delimiters, Formats,        \* texts
    CsvTables, ByteLists, Messages, JsonTexts, JsonValues, MatrixArgs, Vectors, Quats, Ratios,
    Longs,                             \* numbers to compute with
    Pictures, Kernels, MaxVals,        \* images, the maxvals of their files
    Columns, FileTexts, Series,        \* columns, texts of files, points
    Urls, Answers                      \* of http_get

Init == NoneCalled

\* Files of a picture, with a comment in the header: P6 with its bytes or with
\* two bytes a value, P3 with the bytes brought below another maxval.
Header(img, format, max) ==
    <<80, format, NewLine>> \o Decimal(img.width) \o <<Hash, 99, NewLine>> \o Decimal(img.height) \o <<Space>> \o Decimal(max) \o <<NewLine>>
RawFile(img) == Header(img, 54, 255) \o img.rgb
LowByte(v) == (v * 37) % 256
WideFile(img) == Header(img, 54, 65535) \o FlattenSeq([i \in DOMAIN img.rgb |-> <<img.rgb[i], LowByte(img.rgb[i])>>])
TextFile(img, max) == Header(img, 51, max) \o FlattenSeq([i \in DOMAIN img.rgb |-> Decimal(img.rgb[i] % (max + 1)) \o <<Space>>])

Tagged(s) == [i \in DOMAIN s |-> [type |-> s[i].type, value |-> s[i].value, id |-> i]]
Kinds(s) == {Kind(s[i]) : i \in DOMAIN s}
Comparable(s) == Kinds(s) = {} \/ Kinds(s) \in {{"num"}, {"str"}}
AllInt(s) == \A i \in DOMAIN s : s[i].type = "int"
NonNegative(s) == AllInt(s) /\ \A i \in DOMAIN s : s[i].value >= 0

AnySorts == {"bubble", "selection", "insertion", "shell", "heap", "merge", "quick", "sorted", "reversed"}
SortsFor(s) ==
    AnySorts \cup (IF AllInt(s) THEN {"counting"} ELSE {})
             \cup (IF NonNegative(s) THEN {"radix"} ELSE {})
\* oom tells what gets no memory: a merge of a range, all of sort_counting, a
\* pass of sort_radix, the copy of sorted() or its growth at an item.
SortBy(name, s, oom) == CASE name = "bubble" -> SortBubble(s)
      [] name = "selection" -> SortSelection(s) [] name = "insertion" -> SortInsertion(s)
      [] name = "shell" -> SortShell(s) [] name = "heap" -> SortHeap(s)
      [] name = "merge" -> SortMerge(s, oom) [] name = "quick" -> SortQuick(s)
      [] name = "counting" -> SortCounting(s, oom = {}) [] name = "radix" -> SortRadix(s, oom)
      [] name = "sorted" -> Sorted(s, FALSE, oom) [] name = "reversed" -> Sorted(s, TRUE, oom)
Failures(name, s) ==
    {{}} \cup CASE name \in {"merge", "counting"} -> {{<<1, Len(s)>>}, {<<1, 2>>}}
               [] name = "radix" -> {{1}, {Radix}}
               [] name \in {"sorted", "reversed"} -> {{0}, {5}, {5, 6}} [] OTHER -> {}

CallSort ==
    Idle /\ \E s \in {Tagged(l) : l \in SortLists} : \E name \in SortsFor(s) : \E oom \in Failures(name, s) :
        Called([fn |-> "sort", name |-> name, in |-> s, oom |-> oom, out |-> SortBy(name, s, oom)])
CallBogo ==
    Idle /\ \E s \in {Tagged(l) : l \in SmallLists} : \E t \in SortBogo(s) :
        Called([fn |-> "sort", name |-> "bogo", in |-> s, oom |-> {}, out |-> t])
CallSearch ==
    Idle /\ \E s \in SortLists : \E x \in Items \cup Range(s) :
        Comparable(Append(s, x)) /\ InOrder(s) /\ Called([fn |-> "search", in |-> s, x |-> x, out |-> BinarySearch(s, x)])

CallShuffle == Idle /\ \E n \in 0..4 :
    Called([fn |-> "shuffle", n |-> n, out |-> [p \in ShufflePicks(n) |-> Shuffle(Upto(1, n), p)]])
CallRiffle == Idle /\ \E n \in 0..5 : Called([fn |-> "riffle", n |-> n, out |-> RiffleShuffle(Upto(1, n))])
CallSample == Idle /\ \E n \in 0..4 : \E k \in 0..n :
    Called([fn |-> "sample", n |-> n, k |-> k, out |-> [p \in SamplePicks(n, k) |-> Sample(Upto(1, n), k, p)]])
IntRange == -(2^(IntWidth - 1))..2^(IntWidth - 1) - 1
CallRandint == Idle /\ \E a, b \in IntRange : Called([fn |-> "randint", a |-> a, b |-> b, out |-> Randint(a, b)])

CallSlice == Idle /\ \E n \in 0..3 : \E start, stop \in -n - 2..n + 2 :
    LET s == [i \in 1..n |-> IntObj(i)] IN
    Called([fn |-> "slice", n |-> n, in |-> s, start |-> start, stop |-> stop, out |-> Slice(s, start, stop), item |-> Get(s, start)])
CallRange == Idle /\ \E start, stop \in IntRange, step \in -3..3 :
    Called([fn |-> "range", start |-> start, stop |-> stop, step |-> step, out |-> RangeStep(start, stop, step)])
CallSets == Idle /\ \E a, b \in SmallLists :
    LET s == SetUnion(a, <<>>) IN
    Called([fn |-> "sets", a |-> a, b |-> b, set |-> s, union |-> SetUnion(a, b), diff |-> SetDiff(s, b)])
CallLists == Idle /\ \E a, b \in SmallLists :
    Called([fn |-> "lists", a |-> a, b |-> b, min |-> MinVal(a), max |-> MaxVal(a), sum |-> SumVal(a), sums |-> SumVal(a \o b),
            any |-> AnyTrue(a), filtered |-> FilterFunc(a, [x \in Range(a) |-> x]), all |-> AllTrue(a), eq |-> Eq([type |-> "list", value |-> a], [type |-> "list", value |-> b]),
            comp |-> ListComp(a, [x \in Range(a) |-> <<x>>], [x \in Range(a) |-> IsNum(x)]), zip |-> ZipLists(a, b), reversed |-> ReversedSeq(a)])

CallText == Idle /\ \E s \in Texts, d \in Delimiters :
    Called([fn |-> "text", in |-> s, by |-> d, parts |-> Split(s, d), joined |-> Join(d, Split(s, d)), count |-> CountText(s, d),
            strip |-> Strip(s), starts |-> StartsWith(s, d), ends |-> EndsWith(s, d)])
CallFmt == Idle /\ \E f \in Formats, n \in 0..2 :
    Called([fn |-> "fmt", in |-> f, n |-> n, out |-> Fmt(f, [i \in 1..n |-> <<"arg", "{", "}">>])])
CallCsv == Idle /\ \E rows \in CsvTables : Called([fn |-> "csv", in |-> rows, file |-> CsvWrite(rows), out |-> CsvRead(CsvWrite(rows))])
CallBase64 == Idle /\ \E b \in ByteLists : Called([fn |-> "base64", in |-> b, out |-> Base64(b)])
CallSha == Idle /\ \E n \in Messages :
    LET msg == [i \in 1..n |-> (i % 100) + 1] IN Called([fn |-> "sha", in |-> msg, out |-> ShaBlocks(msg)])

CallParse == Idle /\ \E text \in JsonTexts : Called([fn |-> "parse", in |-> text, out |-> JsonParse(text)])
CallDump == Idle /\ \E v \in JsonValues : Called([fn |-> "dump", in |-> v, text |-> JsonDump(v), out |-> JsonParse(JsonDump(v))])

CallMatrix == Idle /\ \E a, b \in MatrixArgs, oom \in {{}, {<<>>}} :
    Called([fn |-> "matrix", a |-> a, b |-> b, oom |-> oom, mul |-> MatrixMul(a, b), add |-> MatrixAdd(a, b), vstack |-> Vstack(a, b),
            hstack |-> Hstack(a, b), det |-> IF a.rows = a.cols THEN DetRec(a, <<>>, oom) ELSE 0, file |-> MatrixReadCsv(<<<<>>>> \o MatrixWriteCsv(a))])
CallReshape == Idle /\ \E a \in MatrixArgs, rows, cols \in 0..4 :
    Called([fn |-> "reshape", a |-> a, rows |-> rows, cols |-> cols, out |-> Reshape(a, rows, cols)])
CallSplit == Idle /\ \E n, m \in 1..5, r \in Ratios :
    LET x == Matrix(n, 2, LAMBDA k : k)  y == Matrix(m, 1, LAMBDA k : 100 + k)
    IN Called([fn |-> "train", x |-> x, y |-> y, ratio |-> r, out |-> TrainTestSplit(x, y, r[1], r[2])])
CallOneHot == Idle /\ \E n \in 1..3, classes \in 0..3 : \E l \in [1..n -> -1..2] :
    LET labels == Matrix(1, n, LAMBDA k : l[k])
    IN Called([fn |-> "onehot", labels |-> labels, classes |-> classes, out |-> OneHot(labels, classes)])
CallGeometry == Idle /\ \E v, w \in Vectors, p, q \in Quats :
    Called([fn |-> "geometry", v |-> v, w |-> w, p |-> p, q |-> q, cross |-> V3Cross(v, w), dot |-> V3Dot(v, w),
            mul |-> QuatMul(p, q), rotated |-> QuatRotate(q, v), placed |-> Mat4Mul(Mat4Translate(w), Mat4Scale(v))])

CallNumbers == Idle /\ \E a, b \in Longs :
    Called([fn |-> "numbers", a |-> a, b |-> b, gcd |-> Gcd(a, b), lcm |-> Lcm(a, b), ncr |-> AbsNCr(a, b), npr |-> AbsNPr(a, b),
            objncr |-> NCr(a, b), objnpr |-> NPr(a, b), prime |-> IsPrime(a), fib |-> Fibonacci(a), fact |-> Factorial(a)])
CallStats == Idle /\ \E s \in SeqOf({-1, 0, 2, 5}, 4) \ {<<>>}, mem \in BOOLEAN :
    Called([fn |-> "stats", in |-> s, mem |-> mem, mean |-> Mean(s), median |-> Median(s, mem), mode |-> Mode(s), variance |-> Variance(s)])

CallImage == Idle /\ \E img \in Pictures, max \in MaxVals :
    Called([fn |-> "image", in |-> img, file |-> SavePpm(img), out |-> LoadPpm(SavePpm(img)),
            raw |-> LoadPpm(RawFile(img)), cut |-> LoadPpm(Front(RawFile(img))), wide |-> LoadPpm(WideFile(img)),
            max |-> max, text |-> LoadPpm(TextFile(img, max))])
CallConv == Idle /\ \E img \in Pictures, k \in Kernels :
    Called([fn |-> "conv", in |-> img, kernel |-> k, out |-> Conv2d(img, k.size, k.data)])

CallFrame == Idle /\ \E rows \in 0..2, room \in BOOLEAN, steps \in SeqOf(Columns, 2) \ {<<>>} :
    LET Cells(col) == SubSeq(col.cells, 1, rows)
        df == FoldLeft(LAMBDA d, col : DfAddCol(d, col.name, col.type, Cells(col), col.failing, col.lost), DfCreate(rows), steps)
    IN Called([fn |-> "frame", rows |-> rows, steps |-> steps, df |-> df, left |-> DfFree(df), room |-> room, lines |-> DfPrint(df, room)])
CallFile == Idle /\ \E sized, held \in FileTexts, failing \in SUBSET {"open", "seek", "tell", "alloc", "read", "write", "close", "object"} :
    Cardinality(failing) <= 1 /\ \E written \in 0..Len(held) :
    Called([fn |-> "file", sized |-> sized, held |-> held, failing |-> failing, read |-> FsReadFile(sized, held, failing),
            opened |-> FopenSafe(failing), line |-> ReadFile(sized, held, failing), written |-> FsWriteFile(sized, held, failing, written)])
CallUrl == Idle /\ \E url \in Urls : Called([fn |-> "url", in |-> url, out |-> HttpTarget(url)])
CallHttp == Idle /\ \E url \in {u \in Urls : Len(u) < 2}, text \in Answers, failing \in SUBSET {"socket", "lookup", "connect"}, lost \in {{}, {2}} :
    \E i, j \in 0..Len(text) : i <= j /\
    LET pieces == <<SubSeq(text, 1, i), SubSeq(text, i + 1, j), Onward(text, j + 1)>>
    IN Called([fn |-> "http", url |-> url, in |-> text, failing |-> failing, lost |-> lost,
               out |-> HttpGet(url, failing, pieces, lost)])
CallPlot == Idle /\ \E y \in Series, height \in -1..5 : Called([fn |-> "plot", in |-> y, height |-> height, out |-> PlotRows(y, height)])

Next ==
    \/ CallSort \/ CallBogo \/ CallSearch \/ CallShuffle \/ CallRiffle \/ CallSample \/ CallRandint
    \/ CallSlice \/ CallRange \/ CallSets \/ CallLists \/ CallText \/ CallFmt \/ CallCsv \/ CallBase64 \/ CallSha
    \/ CallParse \/ CallDump \/ CallRegex \/ CallMatrix \/ CallReshape \/ CallSplit \/ CallOneHot \/ CallGeometry
    \/ CallNumbers \/ CallStats \/ CallImage \/ CallConv \/ CallFrame \/ CallFile \/ CallUrl \/ CallHttp \/ CallPlot
    \/ Forget
Spec == Init /\ [][Next]_call

----------------------------------------------------------------------------
(* Properties                                                              *)

Perms(n) == {p \in [1..n -> 1..n] : \A i, j \in 1..n : p[i] = p[j] => i = j}
Distinct(f) == \A i, j \in DOMAIN f : f[i] = f[j] => i = j

(* Whatever the items are, and even when merge, counting or radix sort run *)
(* out of memory, a sort neither loses nor doubles an item; sorted() loses *)
(* items only then, and doubles none.  On items that compare, a sort that  *)
(* got its memory, and sorted() always, leaves them in order, and all but  *)
(* the in-place quick, heap, shell and selection sorts and bogo keep equal *)
(* items in the order they came in.  A binary search finds an item         *)
(* whenever the sorted list has one (abs_sort.c, abs.c, sorted).           *)
Stable == {"bubble", "insertion", "merge", "counting", "radix", "sorted", "reversed"}
SortsAreCorrect ==
    /\ Is("sort") =>
        LET s == call.in  t == call.out  sign == IF call.name = "reversed" THEN -1 ELSE 1
            copies == call.name \in {"sorted", "reversed"}
        IN /\ Range(t) \subseteq Range(s) /\ Cardinality(Range(t)) = Len(t)
           /\ call.oom = {} \/ ~copies => Len(t) = Len(s)
           /\ Comparable(s) /\ (call.oom = {} \/ copies) => \A i, j \in DOMAIN t : i < j =>
                /\ sign * CompareObjs(t[i], t[j]) <= 0
                /\ call.name \in Stable /\ CompareObjs(t[i], t[j]) = 0 => t[i].id < t[j].id
    /\ Is("search") =>
        IF \E i \in DOMAIN call.in : CompareObjs(call.in[i], call.x) = 0
        THEN call.out \in DOMAIN call.in /\ CompareObjs(call.in[call.out], call.x) = 0 ELSE call.out = 0

(* Each outcome of the random numbers gives another permutation, and all   *)
(* of them are reached: a shuffle and a sample prefer nothing.  A riffle   *)
(* keeps the order of both halves.  randint reaches every number of the    *)
(* range, as long as that has at most half the numbers of an int, and no   *)
(* other (abs.c, randint to sample).                                       *)
ChoicesAreFair ==
    /\ Is("shuffle") => Distinct(call.out) /\ Range(call.out) = Perms(call.n)
    /\ Is("sample") => Distinct(call.out) /\ Range(call.out) = {SubSeq(p, 1, call.k) : p \in Perms(call.n)}
    /\ Is("riffle") =>
        LET half == call.n \div 2  Keeps(p, I) == SelectSeq(p, LAMBDA v : v \in I) = SetToSortSeq(I, <)
        IN call.out = {p \in Perms(call.n) : Keeps(p, 1..half) /\ Keeps(p, half + 1..call.n)}
    /\ Is("randint") =>
        LET lo == IF call.a < call.b THEN call.a ELSE call.b  hi == IF call.a < call.b THEN call.b ELSE call.a
        IN /\ call.out = Trap => hi - lo + 1 = 2^IntWidth
           /\ call.out # Trap => call.out \subseteq lo..hi
           /\ hi - lo < 2^(IntWidth - 1) => call.out = lo..hi

(* A slice within the list holds the indices from start up to stop,        *)
(* negative ones counted from the end, an index outside it is an error,    *)
(* and a range holds the multiples of its step; a union and a difference   *)
(* hold, up to eq, what they should, once each, as long as no int equals a *)
(* float among the items (docs/sets.md:43 lets these match, set_contains   *)
(* does not); minimum, maximum, sum, any, all and equality of two lists    *)
(* agree with sorting, filtering, concatenation and pairing them (abs.c,   *)
(* get to slice, min_val to range_step, set_contains to set_diff).         *)
Unmixed(S) == \A x, y \in S : Eq(x, y) => x.type = y.type
CollectionsAgree ==
    /\ Is("slice") =>
        LET At(i) == IF i < 0 THEN i + call.n ELSE i
        IN /\ At(call.start) \in 0..call.n - 1 /\ At(call.stop) \in 0..call.n =>
                call.out = SelectSeq(call.in, LAMBDA x : At(call.start) < x.value /\ x.value <= At(call.stop))
           /\ call.item = IF At(call.start) \in 0..call.n - 1 THEN call.in[At(call.start) + 1] ELSE Error
    /\ Is("range") =>
        LET Before(v) == IF call.step > 0 THEN call.start <= v /\ v < call.stop ELSE call.stop < v /\ v <= call.start
            values == {v \in IntRange : call.step # 0 /\ Before(v) /\ Rem(v - call.start, call.step) = 0}
        IN /\ {x.value : x \in Range(call.out) \ {Error}} = values
           /\ Error \in Range(call.out) <=> \E v \in values : v + call.step \notin IntRange
    /\ Is("sets") =>
        LET all == Range(call.a) \cup Range(call.b)
            Holds(s, x) == \E i \in DOMAIN s : Eq(s[i], x)
        IN /\ Unmixed(all) => \A s \in {call.set, call.union, call.diff} : \A i, j \in DOMAIN s : i # j => ~Eq(s[i], s[j])
           /\ \A x \in {y \in Items : Unmixed(all \cup {y})} :
                /\ Holds(call.union, x) <=> Holds(call.a, x) \/ Holds(call.b, x)
                /\ Holds(call.diff, x) <=> Holds(call.a, x) /\ ~Holds(call.b, x)
    /\ Is("lists") =>
        LET a == call.a  b == call.b
        IN /\ a # <<>> /\ Comparable(a) => call.min = Sorted(a, FALSE, {})[1] /\ call.max = Sorted(a, TRUE, {})[1]
           /\ call.sums.value = call.sum.value + SumVal(b).value
           /\ call.any <=> call.filtered # <<>>
           /\ call.all <=> Len(call.filtered) = Len(a)
           /\ call.eq <=> Len(a) = Len(b) /\ \A p \in Range(call.zip) : Eq(p[1], p[2])
           /\ ReversedSeq(call.reversed) = a /\ (a # <<>> => call.reversed[1] = Get(a, -1))
           /\ call.comp = MapFunc(SelectSeq(a, IsNum), [x \in Range(a) |-> <<x>>]) /\ Len(call.zip) <= Len(call.reversed)
           /\ Comparable(a) => \A x \in Range(a) : CountItem(a, x) = Cardinality({i \in DOMAIN a : Eq(a[i], x)})

(* Splitting and joining by the same delimiter gives the text back; no     *)
(* piece holds the delimiter, and count tells how many there were.  fmt    *)
(* fills the braces from left to right and reads no argument twice nor     *)
(* again.  A table of plain fields and short lines comes back from a file  *)
(* with its types (abs.c, fmt, split, join, strip, count; abs_csv.c).      *)
Plain(v) == v.type \in {"int", "float"} \/ (v.type = "str" /\ Typed(v.text).type = "str" /\ Range(v.text) \cap {",", "\n"} = {})
ReadBack(v) == IF v.type = "float" THEN Typed(Printed(v)) ELSE v
TextIsKept ==
    /\ Is("text") =>
        LET s == call.in  d == call.by  bare == Strip(s)
        IN /\ call.joined = s
           /\ d # <<>> => \A i \in DOMAIN call.parts : Strstr(call.parts[i], d) = 0
           /\ d # <<>> => call.count = Len(call.parts) - 1
           /\ d # <<>> => (call.starts <=> Len(call.parts) > 1 /\ call.parts[1] = <<>>)
           /\ call.ends <=> \E i \in 0..Len(s) : Onward(s, i + 1) = d
           /\ Strstr(s, call.strip) # 0 \/ call.strip = <<>>
           /\ call.strip # <<>> => call.strip[1] # " " /\ Last(call.strip) # " "
           /\ SelectSeq(call.strip, LAMBDA c : c # " ") = SelectSeq(s, LAMBDA c : c # " ")
    /\ Is("fmt") =>
        LET pieces == Split(call.in, <<"{", "}">>)
            Filled(i) == pieces[i] \o (IF i <= call.n /\ i < Len(pieces) THEN <<"arg", "{", "}">> ELSE <<>>)
        IN IF Len(pieces) > call.n + 2 THEN Last(call.out) = Undefined[1]
           ELSE call.out = FlattenSeq([i \in DOMAIN pieces |-> Filled(i)])
    /\ Is("csv") =>
        LET rows == call.in
        IN (\A i \in DOMAIN rows : rows[i] # <<>> /\ Len(CsvWrite(<<rows[i]>>)) < LineCap /\ \A j \in DOMAIN rows[i] : Plain(rows[i][j]))
           => call.out = [i \in DOMAIN rows |-> [j \in DOMAIN rows[i] |-> ReadBack(rows[i][j])]]

(* Decoding a base64 text gives the bytes, with = for each of the last     *)
(* three that is missing.  What SHA-1 and SHA-256 hash is the message, a   *)
(* one bit, as few zeros as fill a block, and the length (abs_encode.c,    *)
(* abs_ws.c, abs_crypto.c).                                                *)
EncodingsAreExact ==
    /\ Is("base64") =>
        LET n == Len(call.in)  pad == SelectSeq(call.out, LAMBDA c : c = Equals)
            Bit(k) == (call.out[k \div 6 + 1] \div 2^(5 - (k % 6))) % 2
        IN /\ Len(call.out) % 4 = 0 /\ 3 * Len(call.out) = 4 * (n + Len(pad)) /\ Len(pad) < 3
           /\ \A i \in 1..Len(call.out) : call.out[i] = Equals <=> i > Len(call.out) - Len(pad)
           /\ \A i \in 1..n : call.in[i] = Total([j \in 1..8 |-> Bit(8 * (i - 1) + j - 1) * 2^(8 - j)])
    /\ Is("sha") =>
        LET n == Len(call.in)  bits == 64 * Len(call.out)
            Byte(i) == IF i <= n THEN call.in[i] ELSE IF i = n + 1 THEN 128
                       ELSE IF i <= bits - 8 THEN 0 ELSE ((8 * n) \div (IF i < bits - 3 THEN 2^30 ELSE 256^(bits - i))) % 256
        IN /\ n + 9 <= bits /\ bits < n + 9 + 64
           /\ FlattenSeq(call.out) = [i \in 1..bits |-> Byte(i)] /\ \A i \in DOMAIN call.out : Len(call.out[i]) = 64

(* A dumped value is JSON for what it stands for, and comes back as that,  *)
(* unless it needed a \u escape, which the parser does not know.  A JSON   *)
(* text is parsed to the value it stands for, the last of equal keys       *)
(* counting, and any other text is an error, unless it is one of those the *)
(* parser is lenient with (docs/json.md:45; abs.c, json_parse, json_dump). *)
JsonIsExact ==
    /\ Is("dump") =>
        /\ Means(call.text) = {Normal(call.in)}
        /\ "u0001" \notin Range(call.text) => call.out = Normal(call.in)
    /\ Is("parse") =>
        LET values == Means(call.in)
        IN IF values # {} THEN values = {call.out} ELSE Lenient(call.in) \/ call.out.type = "error"

(* Products transpose in the opposite order and keep determinants; stacked *)
(* matrices come apart again, a file gives the matrix back; a split takes  *)
(* all samples, features and labels alike, and its test set is the number  *)
(* of samples times the ratio, rounded, as abs_ml.c:141 says, when that    *)
(* leaves a sample on either side; a label is hot once or, outside the     *)
(* classes, never.  A cross product is perpendicular to its factors,       *)
(* quaternions multiply their norms and, when of norm 1, compose as        *)
(* rotations; matrices act on vectors in the order of the product          *)
(* (abs_matrix.c, abs_ml.c, abs_geom.c, abs_complex.c).                    *)
Norm(q) == q.w * q.w + q.x * q.x + q.y * q.y + q.z * q.z
MatrixLaws(a, b) ==
    /\ IsMatrix(call.mul) <=> a.cols = b.rows
    /\ IsMatrix(call.mul) =>
        /\ call.mul.rows = a.rows /\ call.mul.cols = b.cols
        /\ Transpose(call.mul) = MatrixMul(Transpose(b), Transpose(a))
        /\ MatrixMul(a, Eye(a.cols)) = a /\ Scale(call.mul, 3) = MatrixMul(a, Scale(b, 3))
        /\ a.rows = a.cols /\ b.rows = b.cols /\ call.oom = {} => Det(call.mul) = call.det * Det(b)
    /\ a.rows = a.cols /\ call.oom = {} => Det(Transpose(a)) = call.det
    /\ IsMatrix(call.add) <=> SameShape(a, b)
    /\ SameShape(a, b) =>
        /\ MatrixSub(call.add, b) = a /\ MulElement(call.add, b) = MatrixAdd(MulElement(a, b), MatrixMap(b, [x \in Int |-> x * x]))
        /\ SquaredError(a, b) = MatrixSum(MulElement(MatrixSub(a, b), MatrixSub(a, b)))
        /\ Correct(a, b) = Cardinality({r \in 1..a.rows : MatrixMul(OneHot(Matrix(1, 1, LAMBDA k : Argmax(MatrixRow(a, r)) - 1), a.cols),
                              Transpose(OneHot(Matrix(1, 1, LAMBDA k : Argmax(MatrixRow(b, r)) - 1), a.cols))) = Ones(1, 1)})
    /\ a.cols = b.cols => MatrixSlice(call.vstack, 1, a.rows, 1, a.cols) = a /\ MatrixSlice(call.vstack, a.rows + 1, a.rows + b.rows, 1, a.cols) = b
    /\ a.rows = b.rows => Transpose(call.hstack) = Vstack(Transpose(a), Transpose(b))
    /\ a.cols = b.cols /\ b.rows = 1 => AddRowVector(a, b) = MatrixAdd(a, MatrixMul(Ones(a.rows, 1), b))
    /\ call.file = a
    /\ MatrixMin(a) = -MatrixMax(Scale(a, -1)) /\ a.data[Argmax(a.data)] = MatrixMax(a)
    /\ MatrixMax(AddScalar(a, 5)) = MatrixMax(a) + 5
    /\ \A r \in 0..a.rows + 1, c \in 0..a.cols + 1 : MatrixGet(MatrixSet(a, r, c, 7), r, c) = (IF r \in 1..a.rows /\ c \in 1..a.cols THEN 7 ELSE 0)
    /\ LET pos == MatrixFilter(a, [x \in Int |-> x > 0])  neg == MatrixFilter(a, [x \in Int |-> x <= 0])
       IN MatrixSum(pos) + MatrixSum(neg) = MatrixSum(a) /\ pos.cols + neg.cols = a.rows * a.cols
ReshapeLaws(a, rows, cols) ==
    /\ IsMatrix(call.out) <=> rows * cols = a.rows * a.cols
    /\ IsMatrix(call.out) => Flatten(call.out) = Flatten(a) /\ Reshape(call.out, a.rows, a.cols) = a
    /\ Arange(0, cols, 1).data = [k \in 1..cols |-> k - 1] /\ Arange(cols, 0, -2).cols = (cols + 1) \div 2
SplitLaws(x, y, p, q, out) ==
    /\ x.rows # y.rows \/ x.rows < 2 => out = <<>>
    /\ x.rows = y.rows => \A k \in 1..x.rows - 1 :
        \* k is the product with p/q, rounded.
        2 * k * q <= 2 * x.rows * p + q /\ 2 * x.rows * p + q < 2 * (k + 1) * q =>
            /\ out # <<>> /\ \A i \in 1..4 : IsMatrix(out[i])
            /\ Vstack(out[1], out[2]) = x /\ Vstack(out[3], out[4]) = y
            /\ out[2].rows = k /\ out[4].rows = k
OneHotLaws(labels, n) ==
    n > 0 => /\ call.out.rows = Len(labels)
             /\ \A r \in DOMAIN labels :
                  LET row == MatrixRow(call.out, r)
                  IN IF labels[r] \in 0..n - 1 THEN Argmax(row) = labels[r] + 1 /\ Total(row) = 1 ELSE Total(row) = 0
GeometryLaws(v, w, p, q) ==
    /\ V3Dot(call.cross, v) = 0 /\ V3Dot(call.cross, w) = 0
    /\ V3Dot(call.cross, call.cross) = V3Dot(v, v) * V3Dot(w, w) - call.dot * call.dot
    /\ Norm(call.mul) = Norm(p) * Norm(q)
    /\ Norm(p) = 1 /\ Norm(q) = 1 =>
        /\ V3Dot(call.rotated, call.rotated) = V3Dot(v, v)
        /\ QuatRotate(p, call.rotated) = QuatRotate(call.mul, v)
        /\ QuatRotate(q, call.cross) = V3Cross(call.rotated, QuatRotate(q, w))
    /\ V3Dot(w, w) = 1 => V3Reflect(V3Reflect(v, w), w) = v /\ V3Dot(V3Reflect(v, w), w) = -call.dot
    /\ Mat4MulVec4(call.placed, <<1, 2, 3, 1>>) = <<v.x + w.x, 2 * v.y + w.y, 3 * v.z + w.z, 1>>
    /\ Mat4Mul(Mat4Identity, call.placed) = call.placed
    /\ LET a == [re |-> p.w, im |-> p.x]  b == [re |-> q.w, im |-> q.x]
       IN CMul(a, CAdd(b, CConj(a))).re = CMul(a, b).re + a.re * a.re + a.im * a.im /\ CMul(a, CConj(a)).im = 0
AlgebraHolds ==
    /\ Is("matrix") => MatrixLaws(call.a, call.b)
    /\ Is("reshape") => ReshapeLaws(call.a, call.rows, call.cols)
    /\ Is("train") => SplitLaws(call.x, call.y, call.ratio[1], call.ratio[2], call.out)
    /\ Is("onehot") => OneHotLaws(call.labels.data, call.classes)
    /\ Is("geometry") => GeometryLaws(call.v, call.w, call.p, call.q)

(* gcd and lcm are the greatest and the least; nCr, nPr, the factorial and *)
(* the Fibonacci numbers satisfy their recurrences until they leave a      *)
(* long, and a prime has no divisor.  A median that got its memory has as  *)
(* many numbers below as above, also in the list of the opposite numbers,  *)
(* a mode is the first of the most frequent, and the variance is that of   *)
(* the differences (abs_stats.c).                                          *)
Divides(d, n) == IF d = 0 THEN n = 0 ELSE n % Magnitude(d) = 0
NumberLaws(a, b) ==
    /\ Divides(call.gcd, a) /\ Divides(call.gcd, b)
    /\ \A d \in 1..Magnitude(a) + Magnitude(b) : Divides(d, a) /\ Divides(d, b) => Divides(d, call.gcd)
    /\ call.lcm # Overflow => call.lcm >= 0 /\ call.lcm * call.gcd = Magnitude(a * b)
    /\ b \in 0..a => \/ Overflow \in {call.ncr, AbsNCr(a - 1, b), AbsNCr(a - 1, b - 1)}
                    \/ call.ncr = IF a = 0 THEN 1 ELSE AbsNCr(a - 1, b) + AbsNCr(a - 1, b - 1)
    /\ b \in 0..a => \/ Overflow \in {call.objncr, call.ncr} \/ call.objncr = call.ncr
    /\ b \in 0..a => \/ Overflow \in {call.objnpr, call.npr, call.ncr} \/ (call.objnpr = call.npr /\ call.npr = call.ncr * Factorial(b))
    /\ a >= 0 /\ b \notin 0..a => call.ncr = 0 /\ call.npr = 0 /\ call.objncr = -1 /\ call.objnpr = -1
    /\ a > 0 => call.fact \in {Overflow, Times(a, Factorial(a - 1))}
    /\ call.prime <=> a > 1 /\ \A d \in 2..a - 1 : a % d # 0
    /\ a > 2 => call.fib = Plus(Fibonacci(a - 1), Fibonacci(a - 2))
    /\ Clamp(a, b, b + 3) \in b..b + 3 /\ (a \in b..b + 3 => Clamp(a, b, b + 3) = a)
StatLaws(s, median) ==
    LET n == Len(s)
        differences == Total([k \in 1..n * n |-> LET d == s[((k - 1) % n) + 1] - s[((k - 1) \div n) + 1] IN d * d])
    IN /\ call.mem =>
            /\ 2 * Cardinality({i \in 1..n : s[i] * median[2] < median[1]}) <= n
            /\ 2 * Cardinality({i \in 1..n : s[i] * median[2] > median[1]}) <= n
            /\ Median([i \in 1..n |-> -s[i]], TRUE) = <<-median[1], median[2]>>
       /\ \A i \in 1..n : Occurrences(s, s[i]) <= Occurrences(s, call.mode)
       /\ \A i \in 1..n : Occurrences(s, s[i]) = Occurrences(s, call.mode) => \E j \in 1..i : s[j] = call.mode
       /\ Total([i \in 1..n |-> call.mean[2] * s[i] - call.mean[1]]) = 0
       /\ n > 1 => 2 * n * n * call.variance[1] = call.variance[2] * differences
NumbersAreExact ==
    /\ Is("numbers") => NumberLaws(call.a, call.b)
    /\ Is("stats") => StatLaws(call.in, call.median)

(* A saved picture loads as it was, comments in a header change nothing, a *)
(* raw file that is too short is refused.  A raw file that does not start  *)
(* with a byte the loader skips as a blank loads as it was (docs/          *)
(* ultimate.md:73 promises it of all), and with two bytes a value, to less *)
(* than one level of 255; a text file gives the nearest level whatever its *)
(* maxval is.  A convolution of the mirrored picture by the mirrored       *)
(* kernel is the mirrored result (abs_img.c).                              *)
Mirror(img) == [img EXCEPT !.rgb = [i \in DOMAIN img.rgb |->
    LET p == (i - 1) \div 3 IN Channel(img, img.width - 1 - (p % img.width), p \div img.width, ((i - 1) % 3) + 1)]]
MirrorKernel(k) == [i \in 1..k.size * k.size |-> k.data[(((i - 1) \div k.size) + 1) * k.size - ((i - 1) % k.size)]]
ImagesAreKept ==
    /\ Is("image") =>
        LET img == call.in
            Off(v, max, level) == Magnitude(255 * v - max * level)
            Shaped(out) == out.width = img.width /\ out.height = img.height /\ DOMAIN out.rgb = DOMAIN img.rgb
        IN /\ call.out = img /\ call.cut = NoImage
           /\ Shaped(call.text)
           /\ \A i \in DOMAIN img.rgb : 2 * Off(img.rgb[i] % (call.max + 1), call.max, call.text.rgb[i]) <= call.max
           /\ img.rgb[1] \notin Blank =>
                /\ call.raw = img /\ Shaped(call.wide)
                /\ \A i \in DOMAIN img.rgb : Off(256 * img.rgb[i] + LowByte(img.rgb[i]), 65535, call.wide.rgb[i]) < 65535
    /\ Is("conv") =>
        LET k == call.kernel
        IN IF k.size % 2 = 0 THEN call.out = NoImage
           ELSE /\ Conv2d(Mirror(call.in), k.size, MirrorKernel(k)) = Mirror(call.out)
                /\ MatrixSum(Matrix(k.size, k.size, LAMBDA i : k.data[i])) = 1 /\ k.data[((k.size * k.size) \div 2) + 1] = 1 => call.out = call.in

(* Freeing a data frame gives back every block, apart from a column that   *)
(* the column list had no room for; its columns hold what was given, and   *)
(* each printed line ends a column where the others do.  A failed call     *)
(* holds no block and no file, a whole read is what the file held if       *)
(* nobody wrote meanwhile, and a reported write is complete.  The body of  *)
(* an http answer is the same however recv cuts it, as long as there is no *)
(* NUL in it.  A plotted point is in the grid, above every smaller one     *)
(* unless their rows round to the same (abs_df.c, abs_fs.c, abs_plot.c,    *)
(* fopen_safe, read_file and http_get of abs.c).                           *)
Ends(line) == {i \in DOMAIN line : line[i] \in {"|", "+"}}
FrameLaws(df, steps) ==
    LET kept == SelectSeq(steps, LAMBDA col : col.failing \cap {"column", "array", "list"} = {})
    IN /\ call.left = df.leaked
       /\ (\A k \in DOMAIN steps : "list" \notin steps[k].failing) => df.leaked = 0
       /\ Len(df.cols) = Len(kept)
       /\ \A k \in DOMAIN kept : \A r \in (1..call.rows) \ kept[k].lost : df.cols[k].cells[r] = kept[k].cells[r]
       /\ call.lines = Crash <=> call.room /\ \E k \in DOMAIN kept : "name" \in kept[k].failing
       /\ call.lines # Crash => \A i, j \in DOMAIN call.lines : Ends(call.lines[i]) = Ends(call.lines[j])
FileLaws(sized, held, failing) ==
    /\ call.read.rc = 0 => Len(call.read.data) = Len(sized) /\ IsPrefix(call.read.data, held)
    /\ call.read.rc = -1 => \/ failing # {} \/ Len(held) < Len(sized)
    /\ call.read.handles = 0 /\ call.read.blocks = call.read.rc + 1
    /\ call.opened.handles = call.opened.rc + 1
    /\ call.line.handles = 1 /\ call.line.blocks = 0
    /\ sized = held /\ "nul" \notin Range(held) /\ call.line.rc = 0 => call.line.data = held
    /\ call.written.rc = 0 => call.written.file = held
\* Where the text q stands in s.
Places(s, q) == {i \in 1..Len(s) - Len(q) + 1 : StandsAt(q, s, i)}
HttpLaws(url, text, failing) ==
    /\ call.out.handles = 0 /\ call.out.blocks = 0
    /\ call.out.rc = -1 <=> failing # {} \/ HttpTarget(url).host = <<>>
    /\ call.out.rc = 0 /\ call.lost = {} /\ "nul" \notin Range(text) =>
        call.out.data = IF Places(text, BlankLine) = {} THEN text ELSE Onward(text, Min(Places(text, BlankLine)) + 4)
\* A url that starts with its "://" names its host and its path.
UrlLaws(url, target) ==
    /\ "/" \notin Range(target.host) /\ Head(target.path) = "/"
    /\ IsPrefix(<<":", "/", "/">>, url) => \A n \in 0..Len(url) - 3 :
        LET host == SubSeq(url, 4, 3 + n)  path == Onward(url, 4 + n)
        IN /\ "/" \notin Range(host) /\ n <= HostMax /\ Len(path) <= PathMax
           /\ (path # <<>> => Head(path) = "/")
           => target = [host |-> host, path |-> IF path = <<>> THEN <<"/">> ELSE path]
PlotLaws(y, rows) ==
    LET height == IF call.height <= 0 THEN 10 ELSE call.height
    IN /\ Range(rows) \subseteq 0..height - 1
       /\ \A i, j \in DOMAIN y : y[i] <= y[j] => rows[i] <= rows[j]
       /\ Cardinality(Range(y)) > 1 => {0, height - 1} \subseteq Range(rows)
ResourcesAreReturned ==
    /\ Is("frame") => FrameLaws(call.df, call.steps)
    /\ Is("file") => FileLaws(call.sized, call.held, call.failing)
    /\ Is("http") => HttpLaws(call.url, call.in, call.failing)
    /\ Is("url") => UrlLaws(call.in, call.out)
    /\ Is("plot") => PlotLaws(call.in, call.out)
=============================================================================
