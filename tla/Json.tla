-------------------------------- MODULE Json --------------------------------
(***************************************************************************)
(* json_parse and json_dump (abs.c).  A text is a sequence of tokens: the  *)
(* punctuation, the keywords, the characters of numbers and of strings.    *)
(* What the parser does with the rest of the text is its control; a parse  *)
(* returns the value and the rest.                                         *)
(***************************************************************************)
EXTENDS Text

Value(type, value) == [type |-> type, value |-> value]
JsonError == Value("error", <<>>)
Parsed(v, rest) == [v |-> v, rest |-> rest]
Failed(p) == p.v.type = "error"
Fails == Parsed(JsonError, <<>>)
Starts(s, c) == s # <<>> /\ s[1] = c

----------------------------------------------------------------------------
(* Strings: "ctl" is a control character without a short escape            *)

Escaped(c) ==
    CASE c \in {"quote", "backslash"} -> <<"backslash", c>>
      [] c = "newline" -> <<"backslash", "n">> [] c = "ctl" -> <<"backslash", "u0001">>
      [] OTHER -> <<c>>
Unescaped(c) ==
    CASE c \in {"quote", "backslash", "/"} -> <<c>> [] c = "n" -> <<"newline">>
      [] OTHER -> <<"backslash", c>>

RECURSIVE StringBody(_, _)
StringBody(s, done) ==
    IF s = <<>> THEN Parsed(Value("str", done), <<>>)
    ELSE IF s[1] = "quote" THEN Parsed(Value("str", done), Tail(s))
    ELSE IF s[1] # "backslash" THEN StringBody(Tail(s), Append(done, s[1]))
    ELSE IF Len(s) = 1 THEN Parsed(Value("str", done), <<>>)
    ELSE StringBody(Onward(s, 3), done \o Unescaped(s[2]))
ParseString(s) == IF Starts(s, "quote") THEN StringBody(Tail(s), <<>>) ELSE Fails

----------------------------------------------------------------------------
(* Numbers: atol and atof read the longest prefix that is a number         *)

NumberChars == Digits \cup {"-", "."}
IsNumber(t) == \E u \in {t} \cup (IF Starts(t, "-") THEN {Tail(t)} ELSE {}) : IsInt(u) \/ IsFloat(u)
NumberIn(t) ==
    LET ends == {i \in 1..Len(t) : IsNumber(SubSeq(t, 1, i))}
    IN IF ends = {} THEN <<"0">> ELSE SubSeq(t, 1, CHOOSE i \in ends : \A j \in ends : j <= i)
Whole(t) == IF Last(t) = "." THEN Front(t) ELSE t
ParseNumber(s) ==
    LET ends == {i \in 0..Len(s) : \A j \in 1..i : s[j] \in NumberChars}
        text == SubSeq(s, 1, CHOOSE i \in ends : \A j \in ends : j <= i)
        type == IF "." \in Range(text) THEN "float" ELSE "int"
    IN Parsed(Value(type, Whole(NumberIn(text))), Onward(s, Len(text) + 1))

----------------------------------------------------------------------------
(* Values                                                                  *)

Keyword(s) ==
    CASE Starts(s, "true") -> Parsed(Value("bool", TRUE), Tail(s))
      [] Starts(s, "false") -> Parsed(Value("bool", FALSE), Tail(s))
      [] Starts(s, "null") -> Parsed(Value("none", <<>>), Tail(s)) [] OTHER -> Fails

\* Bug: a comma may be followed by the end of the list.
ListItem_bug(item, s) == IF Starts(s, "]") THEN Parsed(Value("none", <<>>), s) ELSE item
ListItem(item, s) == item

RECURSIVE ParseValue(_), ParseItems(_, _), ParseMembers(_, _)
ParseItems(s, items) ==
    LET item == ListItem(ParseValue(s), s)  rest == LStrip(item.rest)  all == Append(items, item.v)
    IN IF Failed(item) THEN Fails
       ELSE IF Starts(rest, "]") THEN Parsed(Value("list", all), Tail(rest))
       ELSE IF Starts(rest, ",") THEN ParseItems(LStrip(Tail(rest)), all)
       ELSE Fails
ParseMembers(s, members) ==
    LET key == ParseString(LStrip(s))  colon == LStrip(key.rest)
        val == ParseValue(Tail(colon)) rest == LStrip(val.rest)
        all == (key.v.value :> val.v) @@ members
    IN IF Failed(key) \/ ~Starts(colon, ":") THEN Fails
       ELSE IF Failed(val) THEN Fails
       ELSE IF Starts(rest, "}") THEN Parsed(Value("dict", all), Tail(rest))
       ELSE IF Starts(rest, ",") THEN ParseMembers(LStrip(Tail(rest)), all)
       ELSE Fails
ParseList(s) ==
    IF Starts(LStrip(s), "]") THEN Parsed(Value("list", <<>>), Tail(LStrip(s))) ELSE ParseItems(LStrip(s), <<>>)
ParseDict(s) ==
    IF Starts(LStrip(s), "}") THEN Parsed(Value("dict", <<>>), Tail(LStrip(s))) ELSE ParseMembers(s, <<>>)
ParseValue(text) ==
    LET s == LStrip(text)
    IN CASE s = <<>> -> Fails
         [] Starts(s, "quote") -> ParseString(s) [] Starts(s, "[") -> ParseList(Tail(s))
         [] Starts(s, "{") -> ParseDict(Tail(s)) [] s # <<>> /\ s[1] \in Digits \cup {"-"} -> ParseNumber(s)
         [] OTHER -> Keyword(s)
JsonParse(text) == LET p == ParseValue(text) IN IF LStrip(p.rest) # <<>> THEN JsonError ELSE p.v

Quoted(text) == <<"quote">> \o FlattenSeq([i \in DOMAIN text |-> Escaped(text[i])]) \o <<"quote">>
Comma == <<",", " ">>
RECURSIVE JsonDump(_)
JsonDump(v) ==
    LET keys == SetToSeq(DOMAIN v.value)
        Member(k) == Quoted(k) \o <<":", " ">> \o JsonDump(v.value[k])
    IN CASE v.type \in {"int", "float"} -> v.value
         [] v.type = "str" -> Quoted(v.value) [] v.type = "bool" -> IF v.value THEN <<"true">> ELSE <<"false">>
         [] v.type \in {"list", "set"} -> <<"[">> \o Join(Comma, [i \in DOMAIN v.value |-> JsonDump(v.value[i])]) \o <<"]">>
         [] v.type = "dict" -> <<"{">> \o Join(Comma, [i \in DOMAIN keys |-> Member(keys[i])]) \o <<"}">>
         [] OTHER -> <<"null">>

----------------------------------------------------------------------------
(* What comes back: a set as a list, a float without fraction as an int,   *)
(* and None for all that has no JSON form.                                 *)
RECURSIVE Normal(_)
Normal(v) ==
    CASE v.type = "float" -> Value(IF "." \in Range(v.value) THEN "float" ELSE "int", v.value)
      [] v.type \in {"int", "bool", "str"} -> v
      [] v.type \in {"list", "set"} -> Value("list", [i \in DOMAIN v.value |-> Normal(v.value[i])])
      [] v.type = "dict" -> Value("dict", [k \in DOMAIN v.value |-> Normal(v.value[k])])
      [] OTHER -> Value("none", <<>>)

(* JSON itself: the values that a text stands for, none if it is no JSON,  *)
(* read off it by cutting it where the separators stand, without parsing.  *)
IsNatural(s) == IsInt(s) /\ (s[1] = "0" => Len(s) = 1)
IsJsonNumber(s) ==
    LET u == IF Starts(s, "-") THEN Tail(s) ELSE s
    IN IsNatural(u) \/ \E i \in DOMAIN u : u[i] = "." /\ IsNatural(SubSeq(u, 1, i - 1)) /\ IsInt(Onward(u, i + 1))

\* The ways to write a character in a string, and the texts a string writes.
Spellings(c) ==
    CASE c \in {"quote", "backslash"} -> {<<"backslash", c>>} [] c = "/" -> {<<c>>, <<"backslash", c>>}
      [] c = "newline" -> {<<"backslash", "n">>} [] c = "ctl" -> {<<"backslash", "u0001">>} [] OTHER -> {<<c>>}
RECURSIVE Spelled(_)
Spelled(s) ==
    LET Begun(c) == {q \in Spellings(c) : IsPrefix(q, s)}
    IN IF s = <<>> THEN {<<>>}
       ELSE UNION {{<<c>> \o t : t \in UNION {Spelled(Onward(s, Len(q) + 1)) : q \in Begun(c)}} : c \in Range(s) \cup {"newline", "ctl"}}

RECURSIVE Means(_), ItemsMean(_), MembersMean(_)
Means(text) ==
    LET s == Strip(text)  inner == SubSeq(s, 2, Len(s) - 1)  Within(a, b) == Len(s) > 1 /\ s[1] = a /\ Last(s) = b
        Values(type, values) == {Value(type, v) : v \in values}
    IN CASE IsJsonNumber(s) -> {Value(IF "." \in Range(s) THEN "float" ELSE "int", s)}
         [] s = <<"null">> -> {Value("none", <<>>)} [] s \in {<<"true">>, <<"false">>} -> {Value("bool", s = <<"true">>)}
         [] Within("quote", "quote") -> Values("str", Spelled(inner))
         [] Within("[", "]") -> Values("list", IF Strip(inner) = <<>> THEN {<<>>} ELSE ItemsMean(inner))
         [] Within("{", "}") -> Values("dict", IF Strip(inner) = <<>> THEN {<<>>} ELSE MembersMean(inner))
         [] OTHER -> {}
Cuts(s, c) == {i \in DOMAIN s : s[i] = c}
ItemsMean(s) ==
    {<<v>> : v \in Means(s)}
    \cup UNION {{<<v>> \o l : v \in Means(SubSeq(s, 1, i - 1)), l \in ItemsMean(Onward(s, i + 1))} : i \in Cuts(s, ",")}
MemberMeans(s) ==
    UNION {{k.value :> v : k \in {k \in Means(SubSeq(s, 1, i - 1)) : k.type = "str"}, v \in Means(Onward(s, i + 1))} : i \in Cuts(s, ":")}
MembersMean(s) ==
    MemberMeans(s) \cup UNION {{later @@ m : m \in MemberMeans(SubSeq(s, 1, i - 1)), later \in MembersMean(Onward(s, i + 1))} : i \in Cuts(s, ",")}

(* Where the parser takes more than JSON, which the documents do not say:  *)
(* a string that the end of the text cuts off, an escape or a control      *)
(* character it copies, a number of which atol and atof read a part.       *)
QuoteAt(s, i) ==
    s[i] = "quote" /\ \E n \in 0..i - 1 : n % 2 = 0 /\ (\A j \in i - n..i - 1 : s[j] = "backslash") /\ (i - n > 1 => s[i - n - 1] # "backslash")
LooseNumber(s) == \E i, j \in DOMAIN s :
    /\ i <= j /\ s[i] \in Digits \cup {"-"} /\ \A k \in i..j : s[k] \in NumberChars
    /\ i = 1 \/ s[i - 1] \notin NumberChars
    /\ j = Len(s) \/ s[j + 1] \notin NumberChars
    /\ ~IsJsonNumber(SubSeq(s, i, j))
Lenient(s) ==
    \/ Cardinality({i \in DOMAIN s : QuoteAt(s, i)}) % 2 = 1
    \/ \E i \in DOMAIN s : s[i] = "backslash" /\ i < Len(s) /\ s[i + 1] \notin {"quote", "backslash", "/", "n"}
    \/ Range(s) \cap {"newline", "ctl"} # {}
    \/ LooseNumber(s)
=============================================================================
