---------------------------- MODULE MCAlgorithms ----------------------------
(* An instance of Algorithms: inputs that reach the boundaries of each       *)
(* function, ints of 4 bits, longs of 12, a line buffer of 8 characters.     *)
EXTENDS Algorithms

Str(rank) == [type |-> "str", value |-> rank]
ListOf(s) == [type |-> "list", value |-> s]

MCItems == {IntObj(0), IntObj(2), FloatObj(2), Str(0), Str(1), ListOf(<<IntObj(2)>>), None}
MCSmallLists == SeqOf({IntObj(0), FloatObj(2), Str(1), ListOf(<<>>)}, 2) \cup {<<x>> : x \in MCItems}
                \cup {<<IntObj(2), FloatObj(2), IntObj(2)>>, <<Str(1), Str(0), Str(1)>>, <<FloatObj(2), IntObj(0), IntObj(2)>>}
MCSortLists == SeqOf({IntObj(-1), IntObj(3), FloatObj(3), IntObj(12)}, 3) \cup SeqOf({IntObj(3), IntObj(12), IntObj(21)}, 4)
               \cup SeqOf({Str(0), Str(1), IntObj(3)}, 3)
               \cup {[i \in 1..6 |-> IntObj((5 * i * k) % 7)] : k \in 1..6} \cup {[i \in 1..8 |-> IntObj(((i * i * k) % 13) + 90)] : k \in 1..12}

MCTexts == SeqOf({"a", "b", " "}, 4)
MCDelimiters == {<<>>, <<"a">>, <<" ">>, <<"a", "a">>, <<"a", "b", "a">>}
MCFormats == SeqOf({"{", "}", "x"}, 6)
Fields == {Field("int", <<"1">>), Field("float", <<"1", ".">>), Field("float", <<".", "1">>), Field("str", <<"a">>),
           Field("str", <<"1">>), Field("str", <<",">>), Field("str", <<"a", "a", "a", "a">>), Field("none", <<>>), Field("str", <<>>)}
MCCsvTables == LET rows == SeqOf(Fields, 2) IN {<<r>> : r \in rows} \cup {<<r, <<Field("str", <<"a">>)>>>> : r \in rows}
MCByteLists == SeqOf({0, 77, 255}, 4) \cup {<<1, 2, 3, 4, 250, 6>>}

MCJsonTexts == SeqOf({"[", "]", ",", "1", " "}, 5) \cup SeqOf({"quote", "backslash", "a", " "}, 5)
    \cup {<<"{">> \o t : t \in SeqOf({"}", ":", ",", "1"}, 3)}
    \cup {<<"{", "quote", "a", "quote">> \o t : t \in SeqOf({"}", ":", "null", ",", " "}, 4)}
    \cup {<<"{", "quote", "quote", ":", "true", ",">> \o t \o <<"quote", ":", "-", "1", "}">> : t \in SeqOf({"quote", "a", " "}, 3)}
    \cup SeqOf({"-", ".", "1", "false"}, 4) \cup SeqOf({"-", ".", "0", "1"}, 3)
    \cup {<<"{", "quote", "quote", ":">> \o t \o <<"quote", "quote", ":", "1", "}">> : t \in SeqOf({"1", "null", ","}, 2)}
Leaves == {Value("int", <<"-", "1">>), Value("float", <<"1", ".", "1">>), Value("float", <<"1">>), Value("bool", FALSE), Value("none", <<>>),
           Value("function", <<>>)} \cup {Value("str", t) : t \in SeqOf({"quote", "backslash", "newline", "ctl", "n"}, 2)}
Nested == {Value("list", s) : s \in SeqOf(Leaves, 2)} \cup {Value("set", <<Value("int", <<"1">>)>>), Value("dict", <<>>)}
MCJsonValues == Leaves \cup Nested
    \cup {Value("dict", [k \in {<<"quote">>, <<>>} |-> IF k = <<>> THEN v ELSE w]) :
             v \in Leaves, w \in {Value("list", <<>>), Value("dict", <<"n">> :> Value("bool", TRUE)), Value("list", <<Value("list", <<>>)>>)}}

MCPatterns == SeqOf({"a", "b", ".", "*"}, 4) \cup SeqOf({"a", ".", "*", "$", "^"}, 4)
              \cup {<<"^">> \o t : t \in SeqOf({"a", ".", "*", "$"}, 4)} \cup {<<"a", "*", "b", "*", "a", "$">>, <<".", "*", "a", ".", "*", "b">>}
MCReTexts == SeqOf({"a", "b"}, 3) \cup {<<"a", "a", "b", "a">>}

MCMatrixArgs == {Matrix(r, c, LAMBDA k : ((k * k + 2 * r * k + c) % 5) - 2) : r \in 1..3, c \in 1..3}
                \cup {Matrix(2, 2, LAMBDA k : (k * j) % 3) : j \in 1..3} \cup {Eye(2)}
MCVectors == {V3(1, 0, 0), V3(1, 2, 3), V3(0, -1, 2), V3(0, 0, -1)}
MCQuats == LET Q(w, x, y, z) == [w |-> w, x |-> x, y |-> y, z |-> z]
           IN {Q(1, 0, 0, 0), Q(0, 1, 0, 0), Q(0, 0, -1, 0), Q(0, 0, 0, 1), Q(1, 2, 0, -1), Q(2, 1, 1, 3)}
MCRatios == {<<1, 4>>, <<1, 2>>, <<9, 10>>, <<1, 20>>}
MCLongs == -4..14 \cup {25, 49}

Picture(w, h, first) == [width |-> w, height |-> h, rgb |-> [i \in 1..3 * w * h |-> IF i = 1 THEN first ELSE (i * 37) % 256]]
MCPictures == {Picture(w, h, first) : w \in 1..3, h \in 1..2, first \in {0, 10, 32, 35, 255}}
MCKernels == {[size |-> 1, data |-> <<1>>], [size |-> 2, data |-> <<1, 0, 0, 0>>], [size |-> 3, data |-> <<0, 0, 0, 0, 1, 0, 0, 0, 0>>],
              [size |-> 3, data |-> <<1, 2, 0, -1, 1, 0, 3, 0, 0>>], [size |-> 3, data |-> <<0, -1, 0, -1, 5, -1, 0, -1, 0>>]}

Column(name, type, cells, failing, lost) == [name |-> name, type |-> type, cells |-> cells, failing |-> failing, lost |-> lost]
MCColumns == {Column(<<"n">>, "string", <<<<"a", "b", "c", "d">>, <<>>>>, f, lost) :
                f \in {{}, {"name"}, {"array"}, {"column"}, {"list"}}, lost \in {{}, {1}}}
             \cup {Column(<<"l", "o", "n", "g">>, "double", <<<<"1">>, <<"-", "1", "0", "0", "0", ".", "5", "0">>>>, f, {}) :
                f \in {{}, {"name"}, {"list"}}}
MCFileTexts == SeqOf({"a", "b", "nul"}, 3)
MCUrls == SeqOf({":", "/", "a"}, 4) \cup {<<":", "/", "/">> \o t : t \in SeqOf({"/", "a"}, 5)} \cup {<<"a", ":", "/", "/", "a", "/", "a", ":", "/", "/", "a">>}
MCAnswers == {<<"cr", "lf", "cr", "lf", "x">>, <<"x", "cr", "lf", "cr", "cr", "lf", "cr", "lf", "cr", "lf", "cr", "lf">>, <<"x", "cr", "lf">>, <<"x", "nul", "x", "cr", "lf", "cr", "lf", "x">>}
MCSeries == SeqOf({-2, 0, 1, 7}, 3) \ {<<>>}
=============================================================================
