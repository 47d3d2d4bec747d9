--------------------------- MODULE RuntimeProofs ---------------------------
(***************************************************************************)
(* The callback side of the runtime is right for any number of events,     *)
(* handlers, memoised arguments and lists, for any nesting of callbacks    *)
(* and wherever an allocation fails: the bus keeps what was registered,    *)
(* emit calls all of it, a result is computed once and is the function's,  *)
(* iterators yield their sources, and NULL is dereferenced only after an   *)
(* allocation failed or the function answered NULL.                        *)
(*                                                                         *)
(* Nodes(d, k) is what a lookup of k may see of dictionary d.  The proofs  *)
(* reason about dset and dget through it: which nodes dset adds, which it  *)
(* keeps, which node dget answers from.                                    *)
(*                                                                         *)
(* The last part of the module is about the regular expressions, which     *)
(* share no state with the callbacks.                                      *)
(***************************************************************************)
EXTENDS Runtime, Regex, WellFoundedInduction, SequenceTheorems, FunctionTheorems, FiniteSetTheorems, TLAPS

Results == {F[a] : a \in Args}
Chains(V) == [Range(Hash) -> Seq([key : Keys \cup {Null}, value : V])]
Nodes(d, k) == {d[Hash[k]][i] : i \in 1..Len(d[Hash[k]])}
List(S) == [items : Seq(S), cap : Nat \ {0}]

\* What on() puts into a list.
Funcs == Handlers \cup {Error, Null}

\* The user's lists hold items, the events' lists functions.
ListsOK ==
    /\ Sources \subseteq DOMAIN lists /\ DOMAIN lists \subseteq Sources \cup Events
    /\ \A l \in Sources : lists[l] \in List(Items)
    /\ \A l \in DOMAIN lists \cap Events : lists[l] \in List(Funcs)
    /\ \A l \in DOMAIN lists : Len(lists[l].items) <= lists[l].cap

\* A node of the bus leads to its event's list or, after a failure, nowhere;
\* the lists of the events are those the bus leads to.
BusOK ==
    /\ bus \in Chains(Events \cup {Null})
    /\ \A e \in Events : \A n \in Nodes(bus, e) : n.key # Null => n.value \in {n.key, Null}
    /\ \A e \in Events : e \in DOMAIN lists <=> \E n \in Nodes(bus, e) : n.key = e /\ n.value = e

\* As long as memory was there, nothing is lost.
NothingLost ==
    /\ registered \in [Events -> Seq(Handlers)]
    /\ ~oom => \A e \in Events :
          /\ \A n \in Nodes(bus, e) : n.key # Null /\ n.value # Null
          /\ registered[e] = IF e \in DOMAIN lists THEN lists[e].items ELSE <<>>
          
\* What the cache holds under a key has been answered for it.
CacheOK ==
    /\ cache \in Chains(Results)
    /\ answers \subseteq Args \X Results
    /\ \A k \in Keys : \A n \in Nodes(cache, k) :
          /\ n.key = Null => oom
          /\ n.key # Null => \E a \in Args : KeyOf[a] = n.key /\ F[a] = n.value /\ <<a, n.value>> \in answers
    /\ MemoAnswers

EmitFrame == [kind : {"emit"}, list : Events, i : Nat, size : Nat, seen : Seq(Nat \X Funcs)]
Frame == EmitFrame \cup [kind : {"handler"}, func : Funcs] \cup [kind : {"body"}, arg : Args] \cup [kind : {"wrapper"}]

\* seen are the calls of the functions among the first n items.
CalledUpTo(seen, items, n) ==
    /\ \A j, k \in DOMAIN seen : j < k => seen[j][1] < seen[k][1]
    /\ {seen[j][1] : j \in DOMAIN seen} = {p \in 1..n : items[p] # Error}
    /\ \A j \in DOMAIN seen : seen[j][2] = items[seen[j][1]]

FrameFits(frame, ls) ==
    /\ frame.list \in DOMAIN ls
    /\ frame.i <= Len(ls[frame.list].items)
    /\ CalledUpTo(frame.seen, ls[frame.list].items, frame.i)

StackFits(frames, ls) ==
    /\ frames \in Seq(Frame)
    /\ \A j \in DOMAIN frames : frames[j].kind = "emit" => FrameFits(frames[j], ls)

StackOK == StackFits(stack, lists)

\* A key whose function has run is stored, or its function runs still, unless
\* one of the excuses of ComputedOnce holds.
Excused(k) == oom \/ k \in overlaps \/ \E a \in Args : KeyOf[a] = k /\ F[a] = None
Active(frames, k) == \E j \in DOMAIN frames : frames[j].kind = "body" /\ KeyOf[frames[j].arg] = k
Stored(k) == \E n \in Nodes(cache, k) : n.key = k
RunsOK ==
    /\ runs \in [Keys -> Nat]
    /\ \A k \in Keys : runs[k] > 0 => Excused(k) \/ Active(stack, k) \/ Stored(k)
    /\ ComputedOnce

Fits(n) == Wrap(n) = n
NthOf(n, s) == s[((n - 1) % Len(s)) + 1]
IterModes == {"none", "chain", "cycle", "repeat", "gen"}

Lost == {None, Null}
Yields == Items \cup Int \cup Lost
IterTypes == [mode : IterModes, asked : IterModes, a : Sources \cup Items \cup {None}, b : Sources \cup {None},
              index : Int, limit : Int, step : Int, out : Seq(Yields), start : Long, late : BOOLEAN]

\* How the index of each kind of iterator follows from what it has yielded.
ChainOK ==
    /\ iter.a \in Sources
    /\ iter.index = Len(iter.out) /\ iter.index <= Len(Elems(iter.a)) + Len(Elems(iter.b))
    /\ ~iter.late => \A j \in DOMAIN iter.out : iter.out[j] = (Elems(iter.a) \o Elems(iter.b))[j]

CycleOK ==
    /\ iter.a \in Sources /\ iter.index \in 0..Len(Elems(iter.a))
    /\ iter.out = <<>> => iter.index = 0
    /\ iter.out # <<>> /\ ~iter.late =>
          /\ Elems(iter.a) # <<>> /\ iter.index = ((Len(iter.out) - 1) % Len(Elems(iter.a))) + 1
          /\ \A j \in DOMAIN iter.out : iter.out[j] = NthOf(j, Elems(iter.a))

RepeatOK ==
    /\ iter.a \in Items /\ iter.index = Len(iter.out) /\ iter.index <= iter.limit
    /\ \A j \in DOMAIN iter.out : iter.out[j] = iter.a

NthNumber(j) == iter.start + (j - 1) * iter.step
InRange(v) == IF iter.step > 0 THEN v < iter.limit ELSE v > iter.limit
GenOK ==
    /\ Fits(NthNumber(Len(iter.out) + 1)) => iter.index = NthNumber(Len(iter.out) + 1)
    /\ \A j \in DOMAIN iter.out : Fits(NthNumber(j)) =>
          (iter.out[j] = NthNumber(j) \/ (oom /\ iter.out[j] \in Lost)) /\ InRange(NthNumber(j))

IterOK ==
    /\ iter \in IterTypes
    /\ iter.mode # iter.asked => oom
    /\ iter.mode = "chain" => ChainOK
    /\ iter.mode = "cycle" => CycleOK
    /\ iter.mode = "repeat" => RepeatOK
    /\ iter.mode = "gen" => GenOK

ShapeOK == crashed \in BOOLEAN /\ oom \in BOOLEAN /\ ops \in 0..MaxOps

IInv == ShapeOK /\ ListsOK /\ BusOK /\ NothingLost /\ CacheOK /\ StackOK /\ RunsOK /\ IterOK /\ CrashNeedsNull

----------------------------------------------------------------------------
(* Least elements: what SelectInSeq needs                                  *)

LEMMA LessIsWellFounded == IsWellFoundedOn({p \in Nat \X Nat : p[1] < p[2]}, Nat)
BY NatLessThanWellFounded, Zenon DEF OpToRel

LEMMA LeastNat ==
    ASSUME NEW S \in SUBSET Nat, S # {}
    PROVE  \E x \in S : \A y \in S : x <= y
<1> DEFINE Less == {p \in Nat \X Nat : p[1] < p[2]}
<1>1. IsWellFoundedOn(Less, Nat)
    BY LessIsWellFounded
<1>2. PICK x \in S : \A y \in S : ~(<<y, x>> \in Less)
    <2> HIDE DEF Less
    <2> QED
        BY <1>1, WFMin
<1>3. \A y \in S : ~(y < x)
    <2>1. TAKE y \in S
    <2>2. <<y, x>> \in Nat \X Nat /\ <<y, x>> \notin Less
        BY <1>2
    <2> QED
        BY <2>2
<1> QED
    BY <1>3

LEMMA Elements ==
    ASSUME NEW S, NEW s \in Seq(S)
    PROVE  Len(s) \in Nat /\ DOMAIN s = 1..Len(s) /\ \A i \in 1..Len(s) : s[i] \in S
OBVIOUS

LEMMA ChainOf ==
    ASSUME NEW V, NEW d \in Chains(V), NEW k \in Keys
    PROVE  /\ Hash[k] \in Range(Hash)
           /\ d[Hash[k]] \in Seq([key : Keys \cup {Null}, value : V])
           /\ Len(d[Hash[k]]) \in Nat
           /\ Nodes(d, k) \subseteq [key : Keys \cup {Null}, value : V]
           /\ \A i \in 1..Len(d[Hash[k]]) : d[Hash[k]][i] \in Nodes(d, k)
<1>1. Hash[k] \in Range(Hash)
    BY RuntimeAssumption DEF Range
<1>2. d[Hash[k]] \in Seq([key : Keys \cup {Null}, value : V])
    BY <1>1 DEF Chains
<1>3. /\ Len(d[Hash[k]]) \in Nat
      /\ \A i \in 1..Len(d[Hash[k]]) : d[Hash[k]][i] \in [key : Keys \cup {Null}, value : V]
    BY <1>2, Elements
<1> QED
    BY <1>1, <1>2, <1>3 DEF Nodes

LEMMA PosFinds ==
    ASSUME NEW V, NEW d \in Chains(V), NEW k \in Keys
    PROVE  \/ Pos(d, k) = 0 /\ \A n \in Nodes(d, k) : n.key # k
           \/ Pos(d, k) \in 1..Len(d[Hash[k]]) /\ d[Hash[k]][Pos(d, k)].key = k
<1> DEFINE S == {i \in 1..Len(d[Hash[k]]) : d[Hash[k]][i].key = k}
<1>1. Len(d[Hash[k]]) \in Nat
    BY ChainOf
<1>2. Pos(d, k) = IF S # {} THEN CHOOSE x \in S : \A y \in S : x <= y ELSE 0
    BY DEF Pos, SelectInSeq, Min
<1>3. CASE S = {}
    BY <1>2, <1>3 DEF Nodes
<1>4. CASE S # {}
    <2>1. S \in SUBSET Nat
        BY <1>1
    <2>2. \E x \in S : \A y \in S : x <= y
        BY <1>4, <2>1, LeastNat
    <2>3. Pos(d, k) \in S
        <3> HIDE DEF S
        <3> QED
            BY <1>2, <1>4, <2>2
    <2> QED
        BY <2>3
<1> QED
    BY <1>3, <1>4

LEMMA LookupAnswers ==
    ASSUME NEW V, NEW d \in Chains(V), NEW k \in Keys
    PROVE  \/ Lookup(d, k) = None /\ Pos(d, k) = 0 /\ \A n \in Nodes(d, k) : n.key # k
           \/ Pos(d, k) > 0 /\ \E n \in Nodes(d, k) : n.key = k /\ n.value = Lookup(d, k)
<1>1. CASE Pos(d, k) = 0
    BY <1>1, PosFinds DEF Lookup
<1>2. CASE Pos(d, k) # 0
    <2>1. Pos(d, k) \in 1..Len(d[Hash[k]]) /\ d[Hash[k]][Pos(d, k)].key = k
        BY <1>2, PosFinds
    <2>2. d[Hash[k]][Pos(d, k)] \in Nodes(d, k)
        BY <2>1, ChainOf
    <2>3. Lookup(d, k) = d[Hash[k]][Pos(d, k)].value
        BY <1>2 DEF Lookup
    <2>4. Pos(d, k) > 0
        BY <2>1, ChainOf
    <2> QED
        BY <2>1, <2>2, <2>3, <2>4
<1> QED
    BY <1>1, <1>2

\* dget answers what it finds, or NULL for the None of a miss.
LEMMA DgetIsLookup ==
    ASSUME NEW d, NEW k, NEW x \in Dget(d, k)
    PROVE  (Missing(d, k, x) /\ x = Null) \/ (~Missing(d, k, x) /\ x = Lookup(d, k))
BY DEF Dget, Lookup, Missing

LEMMA TripsOnNull ==
    ASSUME NEW V, NEW d \in Chains(V), NEW k \in Keys, Trips(d, k)
    PROVE  \E n \in Nodes(d, k) : n.key = Null
<1> DEFINE last == IF Pos(d, k) = 0 THEN Len(d[Hash[k]]) ELSE Pos(d, k)
<1>1. Len(d[Hash[k]]) \in Nat /\ last \in 0..Len(d[Hash[k]])
    BY PosFinds, ChainOf
<1>2. PICK i \in 1..last : d[Hash[k]][i].key = Null
    BY DEF Trips
<1>3. i \in 1..Len(d[Hash[k]])
    BY <1>1
<1> QED
    BY <1>2, <1>3, ChainOf

----------------------------------------------------------------------------
(* What dset does to the nodes a lookup may see                            *)

Node(key, v) == [key |-> key, value |-> v]

LEMMA LinkedNodes ==
    ASSUME NEW V, NEW d \in Chains(V), NEW k \in Keys, NEW v \in V, NEW key \in Keys \cup {Null}
    PROVE  /\ Linked(d, k, key, v) \in Chains(V)
           /\ \A l \in Keys : Nodes(Linked(d, k, key, v), l) =
                 Nodes(d, l) \cup (IF Hash[l] = Hash[k] THEN {Node(key, v)} ELSE {})
<1> DEFINE d1 == Linked(d, k, key, v)
           N == [key : Keys \cup {Null}, value : V]
           c == d[Hash[k]]
<1>1. Hash[k] \in Range(Hash) /\ c \in Seq(N)
    BY ChainOf
<1>2. Node(key, v) \in N
    BY DEF Node
<1>3. d1 = [d EXCEPT ![Hash[k]] = <<Node(key, v)>> \o c]
    BY DEF Linked, Node
<1>4. <<Node(key, v)>> \o c \in Seq(N)
    <2> HIDE DEF N, c
    <2> QED
        BY <1>1, <1>2
<1>5. d1 \in Chains(V)
    BY <1>3, <1>4 DEF Chains
<1>6. ASSUME NEW l \in Keys
      PROVE  Nodes(d1, l) = Nodes(d, l) \cup (IF Hash[l] = Hash[k] THEN {Node(key, v)} ELSE {})
    <2>1. Hash[l] \in Range(Hash)
        BY ChainOf
    <2>2. CASE Hash[l] # Hash[k]
        <3>1. d1[Hash[l]] = d[Hash[l]]
            BY <1>1, <1>3, <2>1, <2>2 DEF Chains
        <3> QED
            BY <2>2, <3>1 DEF Nodes
    <2>3. CASE Hash[l] = Hash[k]
        <3>1. d1[Hash[l]] = <<Node(key, v)>> \o c
            BY <1>1, <1>3, <2>3 DEF Chains
        <3> DEFINE m == Node(key, v)
                   c1 == <<m>> \o c
        <3>2. /\ Len(c) \in Nat /\ Len(c1) = Len(c) + 1 /\ c1[1] = m
              /\ \A i \in 1..Len(c) : c1[i + 1] = c[i]
            <4> HIDE DEF m, N, c
            <4> QED
                BY <1>1
        <3>3. {c1[i] : i \in 1..Len(c1)} = {c[i] : i \in 1..Len(c)} \cup {m}
            <4> HIDE DEF m, N, c, c1
            <4>1. \A i \in 1..Len(c1) : i = 1 \/ (i - 1 \in 1..Len(c) /\ c1[i] = c[i - 1])
                BY <3>2
            <4>2. \A i \in 1..Len(c) : i + 1 \in 1..Len(c1) /\ c1[i + 1] = c[i]
                BY <3>2
            <4>3. 1 \in 1..Len(c1) /\ c1[1] = m
                BY <3>2
            <4>4. \A x \in {c1[i] : i \in 1..Len(c1)} : x \in {c[i] : i \in 1..Len(c)} \cup {m}
                BY <4>1, <4>3
            <4>5. \A x \in {c[i] : i \in 1..Len(c)} \cup {m} : x \in {c1[i] : i \in 1..Len(c1)}
                BY <4>2, <4>3
            <4> QED
                BY <4>4, <4>5
        <3> QED
            BY <2>3, <3>1, <3>3 DEF Nodes
    <2> QED
        BY <2>2, <2>3
<1> QED
    BY <1>5, <1>6

Replaced(d, k, v) == [d EXCEPT ![Hash[k]][Pos(d, k)].value = v]

LEMMA ReplacedNodes ==
    ASSUME NEW V, NEW d \in Chains(V), NEW k \in Keys, NEW v \in V, Pos(d, k) > 0,
           NEW d1, d1 = Replaced(d, k, v)
    PROVE  /\ d1 \in Chains(V)
           /\ \A l \in Keys : Nodes(d1, l) \subseteq Nodes(d, l) \cup {Node(k, v)}
           /\ \A l \in Keys : \A n \in Nodes(d, l) : n.key # k => n \in Nodes(d1, l)
           /\ Node(k, v) \in Nodes(d1, k)
<1> DEFINE N == [key : Keys \cup {Null}, value : V]
           c == d[Hash[k]]
           p == Pos(d, k)
           c1 == [c EXCEPT ![p] = Node(k, v)]
<1>1. Hash[k] \in Range(Hash) /\ c \in Seq(N)
    BY ChainOf
<1>2. p \in 1..Len(c) /\ c[p].key = k
    BY PosFinds
<1>3. c[p] \in N /\ Node(k, v) \in N
    BY <1>1, <1>2, Elements DEF Node
<1>4. [c[p] EXCEPT !.value = v] = Node(k, v)
    BY <1>2, <1>3 DEF Node
<1>5. d1 = [d EXCEPT ![Hash[k]] = c1]
    BY <1>4 DEF Replaced
<1>6. /\ c1 \in Seq(N) /\ Len(c1) = Len(c) /\ c1[p] = Node(k, v)
      /\ \A i \in 1..Len(c) : i # p => c1[i] = c[i]
    <2> HIDE DEF N, c, p
    <2> QED
        BY <1>1, <1>2, <1>3
<1>7. d1 \in Chains(V)
    BY <1>5, <1>6 DEF Chains
<1>8. ASSUME NEW l \in Keys
      PROVE  /\ Nodes(d1, l) \subseteq Nodes(d, l) \cup {Node(k, v)}
             /\ \A n \in Nodes(d, l) : n.key # k => n \in Nodes(d1, l)
    <2>1. Hash[l] \in Range(Hash)
        BY ChainOf
    <2>2. CASE Hash[l] # Hash[k]
        <3>1. d1[Hash[l]] = d[Hash[l]]
            BY <1>1, <1>5, <2>1, <2>2 DEF Chains
        <3> QED
            BY <3>1 DEF Nodes
    <2>3. CASE Hash[l] = Hash[k]
        <3>1. d1[Hash[l]] = c1 /\ d[Hash[l]] = c
            BY <1>1, <1>5, <2>3 DEF Chains
        <3>2. Nodes(d1, l) = {c1[i] : i \in 1..Len(c1)} /\ Nodes(d, l) = {c[i] : i \in 1..Len(c)}
            BY <3>1 DEF Nodes
        <3> HIDE DEF c, p, c1, N
        <3> QED
            BY <1>2, <1>6, <3>2
    <2> QED
        BY <2>2, <2>3
<1>9. Node(k, v) \in Nodes(d1, k)
    <2>1. d1[Hash[k]] = c1
        BY <1>1, <1>5 DEF Chains
    <2> QED
        BY <1>2, <1>6, <2>1 DEF Nodes
<1> QED
    BY <1>7, <1>8, <1>9

\* Whatever dset leaves: at most a node for k or a node that lost its key is
\* new, no other key's node is gone; and without a failure k's node is there.
LEMMA DsetEffects ==
    ASSUME NEW V, NEW d \in Chains(V), NEW k \in Keys, NEW v \in V, NEW d1 \in Dset(d, k, v)
    PROVE  /\ d1 \in Chains(V)
           /\ \A l \in Keys : Nodes(d1, l) \subseteq Nodes(d, l) \cup {Node(k, v), Node(Null, v)}
           /\ \A l \in Keys : \A n \in Nodes(d, l) : n.key # k => n \in Nodes(d1, l)
           /\ Lossless(d, k, v, d1) =>
                 /\ Node(k, v) \in Nodes(d1, k)
                 /\ \A l \in Keys : Nodes(d1, l) \subseteq Nodes(d, l) \cup {Node(k, v)}
<1>1. CASE Pos(d, k) > 0
    <2>1. d1 = Replaced(d, k, v)
        BY <1>1 DEF Dset, Replaced
    <2>2. /\ d1 \in Chains(V)
          /\ \A l \in Keys : Nodes(d1, l) \subseteq Nodes(d, l) \cup {Node(k, v)}
          /\ \A l \in Keys : \A n \in Nodes(d, l) : n.key # k => n \in Nodes(d1, l)
          /\ Node(k, v) \in Nodes(d1, k)
        BY <1>1, <2>1, ReplacedNodes
    <2> QED
        BY <2>2
<1>2. CASE ~(Pos(d, k) > 0)
    <2>1. d1 \in {Linked(d, k, k, v), Linked(d, k, Null, v), d}
        BY <1>2 DEF Dset
    <2>2. CASE d1 = Linked(d, k, k, v)
        BY <2>2, LinkedNodes
    <2>3. CASE d1 = Linked(d, k, Null, v) /\ d1 # Linked(d, k, k, v)
        BY <1>2, <2>3, LinkedNodes DEF Lossless
    <2>4. CASE d1 = d /\ d1 # Linked(d, k, k, v)
        BY <1>2, <2>4 DEF Lossless
    <2> QED
        BY <2>1, <2>2, <2>3, <2>4
<1> QED
    BY <1>1, <1>2

----------------------------------------------------------------------------
(* Lists and the bus                                                       *)

Extends(s, t) == Len(s) <= Len(t) /\ \A i \in 1..Len(s) : t[i] = s[i]

\* append keeps what a list holds, and adds the item unless it changes nothing.
LEMMA AppendedKeeps ==
    ASSUME NEW S, NEW l \in List(S), Len(l.items) <= l.cap, NEW x \in S, NEW l1 \in Appended(l, x)
    PROVE  /\ l1 \in List(S) /\ Len(l1.items) <= l1.cap
           /\ l1 = l \/ l1.items = Append(l.items, x)
           /\ Extends(l.items, l1.items)
<1> DEFINE s == l.items
           t == Append(s, x)
<1>1. s \in Seq(S) /\ l.cap \in Nat \ {0} /\ l = [items |-> s, cap |-> l.cap]
    BY DEF List
<1>2. /\ Len(s) \in Nat /\ t \in Seq(S) /\ Len(t) = Len(s) + 1
      /\ \A i \in 1..Len(s) : t[i] = s[i]
    <2> HIDE DEF s
    <2> QED
        BY <1>1
<1>3. \/ l1 = l
      \/ l1 = [items |-> t, cap |-> l.cap] /\ Len(s) < l.cap
      \/ l1 = [items |-> t, cap |-> 2 * l.cap] /\ Len(s) >= l.cap
    <2>1. CASE Len(s) < l.cap
        <3>1. l1 = [l EXCEPT !.items = t]
            BY <2>1 DEF Appended
        <3> QED
            BY <1>1, <2>1, <3>1
    <2>2. CASE ~(Len(s) < l.cap)
        BY <1>1, <1>2, <2>2 DEF Appended
    <2> QED
        BY <2>1, <2>2
<1> HIDE DEF s, t
<1>4. CASE l1 = l
    BY <1>2, <1>4 DEF Extends, s
<1>5. CASE l1 = [items |-> t, cap |-> l.cap] /\ Len(s) < l.cap
    <2>1. l1.items = t /\ l1.cap = l.cap
        BY <1>5
    <2> QED
        BY <1>1, <1>2, <1>5, <2>1 DEF Extends, List, s, t
<1>6. CASE l1 = [items |-> t, cap |-> 2 * l.cap] /\ Len(s) >= l.cap
    <2>1. l1.items = t /\ l1.cap = 2 * l.cap
        BY <1>6
    <2>2. 2 * l.cap \in Nat \ {0} /\ Len(s) <= l.cap
        BY <1>1 DEF s
    <2> QED
        BY <1>1, <1>2, <1>6, <2>1, <2>2 DEF Extends, List, s, t
<1> QED
    BY <1>3, <1>4, <1>5, <1>6

LEMMA BusLookup ==
    ASSUME BusOK, NEW e \in Events
    PROVE  \/ /\ Lookup(bus, e) = None /\ e \notin DOMAIN lists
              /\ Pos(bus, e) = 0 /\ \A n \in Nodes(bus, e) : n.key # e
           \/ Lookup(bus, e) = Null /\ \E n \in Nodes(bus, e) : n.value = Null
           \/ Lookup(bus, e) = e /\ e \in DOMAIN lists
<1>1. e \in Keys /\ e # Null /\ bus \in Chains(Events \cup {Null})
    BY RuntimeAssumption DEF BusOK
<1>2. \/ Lookup(bus, e) = None /\ Pos(bus, e) = 0 /\ \A n \in Nodes(bus, e) : n.key # e
      \/ \E n \in Nodes(bus, e) : n.key = e /\ n.value = Lookup(bus, e)
    BY <1>1, LookupAnswers
<1>3. ASSUME NEW n \in Nodes(bus, e), n.key = e
      PROVE  n.value \in {e, Null} /\ (n.value = e => e \in DOMAIN lists)
    BY <1>1, <1>3 DEF BusOK
<1>4. e \in DOMAIN lists => \E n \in Nodes(bus, e) : n.key = e
    BY DEF BusOK
<1> QED
    BY <1>2, <1>3, <1>4

LEMMA BusTrips ==
    ASSUME BusOK, NEW e \in Events, Trips(bus, e)
    PROVE  \E n \in Nodes(bus, e) : n.key = Null
<1>1. e \in Keys /\ bus \in Chains(Events \cup {Null})
    BY RuntimeAssumption DEF BusOK
<1> QED
    BY <1>1, TripsOnNull

\* What on() does: it trips over NULL, it appends to the event's list, or it
\* enters a list for the event, unless the memory is out.
OnAppends(e, h) == \E func \in MakeFunc(h) : \E l \in Appended(lists[e], func) :
    /\ lists' = [lists EXCEPT ![e] = l]
    /\ oom' = (oom \/ func # h \/ l = lists[e])
    /\ bus' = bus

OnEnters(e, h) == \E func \in MakeFunc(h) : \E new \in {e, Null} : \E d \in Dset(bus, e, new) :
    /\ bus' = d
    /\ oom' = (oom \/ func # h \/ new = Null \/ ~Lossless(bus, e, new, d))
    /\ lists' = IF new = Null \/ Pos(d, e) = 0 THEN lists
                ELSE Entered(e, [NewList EXCEPT !.items = <<func>>])

Registers(e, h) == registered' = [registered EXCEPT ![e] = Append(@, h)]

\* A step that reads the type of a None which is NULL.
NoneIsNull ==
    /\ crashed' = TRUE /\ oom' = TRUE
    /\ UNCHANGED <<bus, cache, lists, iter, stack, registered, runs, overlaps, answers>>

LEMMA CrashNoneIsNull == Crash(TRUE) => NoneIsNull
BY DEF Crash, NoneIsNull, history

LEMMA CrashOnNode == Crash(FALSE) =>
    crashed' = TRUE /\ UNCHANGED <<bus, cache, lists, iter, stack, oom, registered, runs, overlaps, answers>>
BY DEF Crash, history

OnFinds(e, h, list) == \E func \in MakeFunc(h) :
    /\ \/ /\ list # None
          /\ \E l \in Appended(lists[list], func) :
                /\ lists' = [lists EXCEPT ![list] = l]
                /\ oom' = (oom \/ func # h \/ l = lists[list])
          /\ UNCHANGED bus
       \/ /\ list = None
          /\ \E new \in {e, Null} : \E d \in Dset(bus, e, new) :
                /\ bus' = d
                /\ oom' = (oom \/ func # h \/ new = Null \/ ~Lossless(bus, e, new, d))
                /\ lists' = IF new = Null \/ Pos(d, e) = 0 THEN lists
                            ELSE Entered(e, [NewList EXCEPT !.items = <<func>>])
    /\ Registers(e, h)
    /\ UNCHANGED <<cache, iter, stack, crashed, runs, overlaps, answers>>

LEMMA OnSteps ==
    ASSUME NEW e, NEW h, On(e, h)
    PROVE  \/ NoneIsNull
           \/ (Trips(bus, e) \/ Lookup(bus, e) = Null) /\ Crash(FALSE)
           \/ ~(Trips(bus, e) \/ Lookup(bus, e) = Null) /\ OnFinds(e, h, Lookup(bus, e))
<1>1. PICK list \in Dget(bus, e) :
         IF Trips(bus, e) \/ list = Null THEN Crash(Missing(bus, e, list)) ELSE OnFinds(e, h, list)
    BY DEF On, OnFinds, Registers
<1>2. CASE Missing(bus, e, list) /\ list = Null
    <2>1. Missing(bus, e, list) = TRUE
        BY <1>2 DEF Missing
    <2> QED
        BY <1>1, <1>2, <2>1, CrashNoneIsNull
<1>3. CASE ~Missing(bus, e, list) /\ list = Lookup(bus, e)
    <2>1. Missing(bus, e, list) = FALSE
        BY <1>3 DEF Missing
    <2> QED
        BY <1>1, <1>3, <2>1
<1> QED
    BY <1>1, <1>2, <1>3, DgetIsLookup

LEMMA OnCases ==
    ASSUME BusOK, NEW e \in Events, NEW h \in Handlers, On(e, h)
    PROVE  \/ NoneIsNull
           \/ /\ UNCHANGED <<bus, lists, registered, oom>>
              /\ \E n \in Nodes(bus, e) : n.key = Null \/ n.value = Null
           \/ e \in DOMAIN lists /\ OnAppends(e, h) /\ Registers(e, h) /\ UNCHANGED crashed
           \/ /\ e \notin DOMAIN lists /\ (\A n \in Nodes(bus, e) : n.key # e)
              /\ OnEnters(e, h) /\ Registers(e, h) /\ UNCHANGED crashed
<1>0. e # Null /\ e # None /\ None # Null
    BY RuntimeAssumption
<1>1. CASE (Trips(bus, e) \/ Lookup(bus, e) = Null) /\ Crash(FALSE)
    BY <1>0, <1>1, BusLookup, BusTrips, CrashOnNode
<1>2. CASE ~(Trips(bus, e) \/ Lookup(bus, e) = Null) /\ OnFinds(e, h, Lookup(bus, e))
    <2>1. PICK func \in MakeFunc(h) :
            /\ \/ /\ Lookup(bus, e) # None
                  /\ \E l \in Appended(lists[Lookup(bus, e)], func) :
                        /\ lists' = [lists EXCEPT ![Lookup(bus, e)] = l]
                        /\ oom' = (oom \/ func # h \/ l = lists[Lookup(bus, e)])
                  /\ UNCHANGED bus
               \/ /\ Lookup(bus, e) = None
                  /\ \E new \in {e, Null} : \E d \in Dset(bus, e, new) :
                        /\ bus' = d
                        /\ oom' = (oom \/ func # h \/ new = Null \/ ~Lossless(bus, e, new, d))
                        /\ lists' = IF new = Null \/ Pos(d, e) = 0 THEN lists
                                    ELSE Entered(e, [NewList EXCEPT !.items = <<func>>])
            /\ Registers(e, h)
            /\ UNCHANGED crashed
        BY <1>2 DEF OnFinds
    <2>2. CASE Lookup(bus, e) # None
        <3>1. Lookup(bus, e) = e /\ e \in DOMAIN lists
            BY <1>2, <2>2, BusLookup
        <3>2. OnAppends(e, h)
            BY <2>1, <2>2, <3>1 DEF OnAppends
        <3> QED
            BY <2>1, <3>1, <3>2
    <2>3. CASE Lookup(bus, e) = None
        <3>1. e \notin DOMAIN lists /\ \A n \in Nodes(bus, e) : n.key # e
            BY <1>0, <2>3, BusLookup
        <3>2. OnEnters(e, h)
            BY <2>1, <2>3 DEF OnEnters
        <3> QED
            BY <2>1, <3>1, <3>2
    <2> QED
        BY <2>2, <2>3
<1> QED
    BY <1>1, <1>2, OnSteps

ListsGrow == \A l \in DOMAIN lists : l \in DOMAIN lists' /\ Extends(lists[l].items, lists'[l].items)

LEMMA SameExtends ==
    ASSUME NEW S, NEW s \in Seq(S)
    PROVE  Extends(s, s)
BY DEF Extends

LEMMA ListItems ==
    ASSUME ListsOK, NEW l \in DOMAIN lists
    PROVE  \E S : lists[l] \in List(S) /\ lists[l].items \in Seq(S)
BY DEF ListsOK, List

LEMMA SameListsGrow ==
    ASSUME ListsOK, UNCHANGED lists
    PROVE  ListsGrow
<1> SUFFICES ASSUME NEW l \in DOMAIN lists
             PROVE  Extends(lists[l].items, lists[l].items)
    BY DEF ListsGrow
<1>1. \E S : lists[l].items \in Seq(S)
    BY ListItems
<1> QED
    BY <1>1, SameExtends

\* One list has been appended to.
Replaces(l, l1) == lists' = [lists EXCEPT ![l] = l1]

LEMMA ReplacesKeepsLists ==
    ASSUME ListsOK, NEW l \in DOMAIN lists, NEW l1, Replaces(l, l1), Len(l1.items) <= l1.cap,
           l \in Sources => l1 \in List(Items), l \in Events => l1 \in List(Funcs),
           Extends(lists[l].items, l1.items)
    PROVE  ListsOK' /\ ListsGrow /\ DOMAIN lists' = DOMAIN lists
<1>1. /\ DOMAIN lists' = DOMAIN lists /\ lists'[l] = l1
      /\ \A m \in DOMAIN lists : m # l => lists'[m] = lists[m]
    BY DEF Replaces
<1>2. Sources \subseteq DOMAIN lists' /\ DOMAIN lists' \subseteq Sources \cup Events
    BY <1>1 DEF ListsOK
<1>3. \A m \in Sources : lists'[m] \in List(Items)
    BY <1>1 DEF ListsOK
<1>4. \A m \in DOMAIN lists' \cap Events : lists'[m] \in List(Funcs)
    BY <1>1 DEF ListsOK
<1>5. \A m \in DOMAIN lists' : Len(lists'[m].items) <= lists'[m].cap
    BY <1>1 DEF ListsOK
<1>6. ListsGrow
    <2> SUFFICES ASSUME NEW m \in DOMAIN lists
                 PROVE  Extends(lists[m].items, lists'[m].items)
        BY <1>1 DEF ListsGrow
    <2>1. \E S : lists[m].items \in Seq(S)
        BY ListItems
    <2>2. Extends(lists[m].items, lists[m].items)
        BY <2>1, SameExtends
    <2> QED
        BY <1>1, <2>2
<1> QED
    BY <1>1, <1>2, <1>3, <1>4, <1>5, <1>6 DEF ListsOK

LEMMA AppendsKeepsBus ==
    ASSUME ListsOK, BusOK, NothingLost, NEW e \in Events, NEW h \in Handlers,
           e \in DOMAIN lists, OnAppends(e, h), Registers(e, h)
    PROVE  ListsOK' /\ BusOK' /\ NothingLost' /\ ListsGrow /\ (oom => oom')
<1>0. PICK func \in MakeFunc(h) : \E l \in Appended(lists[e], func) :
         /\ Replaces(e, l) /\ bus' = bus
         /\ oom' = (oom \/ func # h \/ l = lists[e])
    BY DEF OnAppends, Replaces
<1>1. PICK l \in Appended(lists[e], func) :
         /\ Replaces(e, l) /\ bus' = bus
         /\ oom' = (oom \/ func # h \/ l = lists[e])
    BY <1>0
<1>2. lists[e] \in List(Funcs) /\ Len(lists[e].items) <= lists[e].cap /\ func \in Funcs
    BY DEF ListsOK, MakeFunc, Funcs
<1>3. /\ l \in List(Funcs) /\ Len(l.items) <= l.cap
      /\ l = lists[e] \/ l.items = Append(lists[e].items, func)
      /\ Extends(lists[e].items, l.items)
    BY <1>2, AppendedKeeps
<1>4. ListsOK' /\ ListsGrow /\ DOMAIN lists' = DOMAIN lists
    <2>1. e \notin Sources
        BY RuntimeAssumption
    <2> QED
        BY <1>1, <1>3, <2>1, ReplacesKeepsLists
<1>5. BusOK'
    BY <1>1, <1>4 DEF BusOK
<1>6. oom => oom'
    BY <1>1
<1>7. registered' \in [Events -> Seq(Handlers)]
    BY DEF Registers, NothingLost
<1>8. ASSUME ~oom', NEW e1 \in Events
      PROVE  /\ \A n \in Nodes(bus', e1) : n.key # Null /\ n.value # Null
             /\ registered'[e1] = IF e1 \in DOMAIN lists' THEN lists'[e1].items ELSE <<>>
    <2>1. ~oom /\ func = h /\ l # lists[e]
        BY <1>1, <1>8
    <2>2. /\ \A n \in Nodes(bus, e1) : n.key # Null /\ n.value # Null
          /\ registered[e1] = IF e1 \in DOMAIN lists THEN lists[e1].items ELSE <<>>
          /\ registered[e] = lists[e].items
        BY <2>1 DEF NothingLost
    <2>3. l.items = Append(lists[e].items, h)
        BY <1>3, <2>1
    <2>4. registered'[e] = Append(registered[e], h) /\ (e1 # e => registered'[e1] = registered[e1])
        BY DEF Registers, NothingLost
    <2>5. lists'[e] = l /\ (e1 # e /\ e1 \in DOMAIN lists => lists'[e1] = lists[e1])
        BY <1>1 DEF Replaces
    <2> QED
        BY <1>1, <1>4, <2>2, <2>3, <2>4, <2>5
<1> QED
    BY <1>4, <1>5, <1>6, <1>7, <1>8 DEF NothingLost

LEMMA EntersKeepsBus ==
    ASSUME ListsOK, BusOK, NothingLost, NEW e \in Events, NEW h \in Handlers,
           e \notin DOMAIN lists, \A n \in Nodes(bus, e) : n.key # e,
           OnEnters(e, h), Registers(e, h)
    PROVE  ListsOK' /\ BusOK' /\ NothingLost' /\ ListsGrow /\ (oom => oom')
<1>1. PICK func \in MakeFunc(h), new \in {e, Null} :
         /\ bus' \in Dset(bus, e, new)
         /\ oom' = (oom \/ func # h \/ new = Null \/ ~Lossless(bus, e, new, bus'))
         /\ lists' = IF new = Null \/ Pos(bus', e) = 0 THEN lists
                     ELSE Entered(e, [NewList EXCEPT !.items = <<func>>])
    BY DEF OnEnters
<1> DEFINE V == Events \cup {Null}
           fresh == [items |-> <<func>>, cap |-> InitCap]
<1>0. e \in Keys /\ e # Null /\ e \notin Sources /\ func \in Funcs /\ new \in V /\ Events \subseteq Keys /\ Null \notin Events
    BY RuntimeAssumption DEF MakeFunc, Funcs
<1>2. /\ bus' \in Chains(V)
      /\ \A l \in Keys : Nodes(bus', l) \subseteq Nodes(bus, l) \cup {Node(e, new), Node(Null, new)}
      /\ \A l \in Keys : \A n \in Nodes(bus, l) : n.key # e => n \in Nodes(bus', l)
      /\ Lossless(bus, e, new, bus') =>
            /\ Node(e, new) \in Nodes(bus', e)
            /\ \A l \in Keys : Nodes(bus', l) \subseteq Nodes(bus, l) \cup {Node(e, new)}
    BY <1>0, <1>1, DsetEffects DEF BusOK
<1>3. \/ Pos(bus', e) = 0 /\ \A n \in Nodes(bus', e) : n.key # e
      \/ Pos(bus', e) # 0 /\ \E n \in Nodes(bus', e) : n.key = e
    <2>1. Pos(bus', e) \in 1..Len(bus'[Hash[e]]) => bus'[Hash[e]][Pos(bus', e)] \in Nodes(bus', e)
        BY DEF Nodes
    <2>2. \/ Pos(bus', e) = 0 /\ \A n \in Nodes(bus', e) : n.key # e
          \/ Pos(bus', e) \in 1..Len(bus'[Hash[e]]) /\ bus'[Hash[e]][Pos(bus', e)].key = e
        BY <1>0, <1>2, PosFinds
    <2>3. Len(bus'[Hash[e]]) \in Nat
        BY <1>0, <1>2, ChainOf
    <2> QED
        BY <2>1, <2>2, <2>3
<1>4. \A key, v : Node(key, v).key = key /\ Node(key, v).value = v
    BY DEF Node
<1>5. \A e1 \in Events : \A n \in Nodes(bus', e1) : n.key # Null => n.value \in {n.key, Null}
    <2> SUFFICES ASSUME NEW e1 \in Events, NEW n \in Nodes(bus', e1), n.key # Null
                 PROVE  n.value \in {n.key, Null}
        OBVIOUS
    <2>1. n \in Nodes(bus, e1) \/ n = Node(e, new) \/ n = Node(Null, new)
        BY <1>0, <1>2
    <2>2. n \in Nodes(bus, e1) => n.value \in {n.key, Null}
        BY DEF BusOK
    <2> QED
        BY <1>1, <1>4, <2>1, <2>2
<1>6. CASE new = Null \/ Pos(bus', e) = 0
    <2>1. lists' = lists
        BY <1>1, <1>6
    <2>2. ListsOK' /\ ListsGrow
        BY <2>1, SameListsGrow DEF ListsOK
    <2>3. ASSUME NEW e1 \in Events
          PROVE  e1 \in DOMAIN lists <=> \E n \in Nodes(bus', e1) : n.key = e1 /\ n.value = e1
        <3>1. e1 \in DOMAIN lists <=> \E n \in Nodes(bus, e1) : n.key = e1 /\ n.value = e1
            BY DEF BusOK
        <3>2. CASE e1 = e
            BY <1>0, <1>2, <1>3, <1>4, <1>6, <3>2
        <3>3. CASE e1 # e
            BY <1>0, <1>2, <1>4, <3>1, <3>3
        <3> QED
            BY <3>2, <3>3
    <2>4. BusOK'
        BY <1>2, <1>5, <2>1, <2>3 DEF BusOK
    <2>5. oom'
        BY <1>1, <1>2, <1>3, <1>4, <1>6
    <2>6. registered' \in [Events -> Seq(Handlers)]
        BY DEF Registers, NothingLost
    <2> QED
        BY <2>2, <2>4, <2>5, <2>6 DEF NothingLost
<1>7. CASE ~(new = Null \/ Pos(bus', e) = 0)
    <2>0. new = e
        BY <1>1, <1>7
    <2>1. lists' = Entered(e, fresh)
        BY <1>1, <1>7 DEF NewList
    <2>2. /\ DOMAIN lists' = DOMAIN lists \cup {e} /\ lists'[e] = fresh
          /\ \A l \in DOMAIN lists : lists'[l] = lists[l]
        <3> HIDE DEF fresh
        <3> QED
            BY <2>1 DEF Entered
    <2>3. fresh \in List(Funcs) /\ Len(fresh.items) <= fresh.cap /\ fresh.items = <<func>>
        BY <1>0, RuntimeAssumption DEF List
    <2> HIDE DEF fresh
    <2>4. ListsOK'
        <3>1. Sources \subseteq DOMAIN lists' /\ DOMAIN lists' \subseteq Sources \cup Events
            BY <2>2 DEF ListsOK
        <3>2. \A m \in Sources : lists'[m] \in List(Items)
            BY <2>2 DEF ListsOK
        <3>3. \A m \in DOMAIN lists' \cap Events : lists'[m] \in List(Funcs)
            BY <2>2, <2>3 DEF ListsOK
        <3>4. \A m \in DOMAIN lists' : Len(lists'[m].items) <= lists'[m].cap
            BY <2>2, <2>3 DEF ListsOK
        <3> QED
            BY <3>1, <3>2, <3>3, <3>4 DEF ListsOK
    <2>5. ListsGrow
        <3> SUFFICES ASSUME NEW m \in DOMAIN lists
                     PROVE  Extends(lists[m].items, lists'[m].items)
            BY <2>2 DEF ListsGrow
        <3>1. \E S : lists[m].items \in Seq(S)
            BY ListItems
        <3> QED
            BY <2>2, <3>1, SameExtends
    <2>6. ASSUME NEW e1 \in Events
          PROVE  e1 \in DOMAIN lists' <=> \E n \in Nodes(bus', e1) : n.key = e1 /\ n.value = e1
        <3>1. e1 \in DOMAIN lists <=> \E n \in Nodes(bus, e1) : n.key = e1 /\ n.value = e1
            BY DEF BusOK
        <3>2. CASE e1 = e
            <4>1. PICK n \in Nodes(bus', e) : n.key = e
                BY <1>3, <1>7
            <4>2. n = Node(e, new)
                BY <1>0, <1>2, <1>4, <4>1
            <4> QED
                BY <1>4, <2>0, <2>2, <3>2, <4>1, <4>2
        <3>3. CASE e1 # e
            BY <1>0, <1>2, <1>4, <2>2, <3>1, <3>3
        <3> QED
            BY <3>2, <3>3
    <2>7. BusOK'
        BY <1>2, <1>5, <2>6 DEF BusOK
    <2>8. registered' \in [Events -> Seq(Handlers)]
        BY DEF Registers, NothingLost
    <2>9. ASSUME ~oom', NEW e1 \in Events
          PROVE  /\ \A n \in Nodes(bus', e1) : n.key # Null /\ n.value # Null
                 /\ registered'[e1] = IF e1 \in DOMAIN lists' THEN lists'[e1].items ELSE <<>>
        <3>1. ~oom /\ func = h /\ Lossless(bus, e, new, bus')
            BY <1>1, <2>9
        <3>2. /\ \A n \in Nodes(bus, e1) : n.key # Null /\ n.value # Null
              /\ registered[e1] = IF e1 \in DOMAIN lists THEN lists[e1].items ELSE <<>>
              /\ registered[e] = <<>>
            BY <3>1 DEF NothingLost
        <3>3. Nodes(bus', e1) \subseteq Nodes(bus, e1) \cup {Node(e, e)}
            BY <1>0, <1>2, <2>0, <3>1
        <3>4. registered'[e] = <<h>> /\ (e1 # e => registered'[e1] = registered[e1])
            BY <3>2 DEF Registers, NothingLost
        <3>5. registered'[e1] = IF e1 \in DOMAIN lists' THEN lists'[e1].items ELSE <<>>
            BY <2>2, <2>3, <3>1, <3>2, <3>4
        <3>6. \A n \in Nodes(bus', e1) : n.key # Null /\ n.value # Null
            BY <1>0, <1>4, <3>2, <3>3
        <3> QED
            BY <3>5, <3>6
    <2>10. oom => oom'
        BY <1>1
    <2> QED
        BY <2>4, <2>5, <2>7, <2>8, <2>9, <2>10 DEF NothingLost
<1> QED
    BY <1>6, <1>7

----------------------------------------------------------------------------
(* The stack of calls                                                      *)

LEMMA FrameStays ==
    ASSUME NEW frame \in EmitFrame, NEW ls, NEW ls1, FrameFits(frame, ls),
           \A l \in DOMAIN ls : \E S : ls[l].items \in Seq(S),
           \A l \in DOMAIN ls : l \in DOMAIN ls1 /\ Extends(ls[l].items, ls1[l].items),
           \A l \in DOMAIN ls1 : \E S : ls1[l].items \in Seq(S)
    PROVE  FrameFits(frame, ls1)
<1> DEFINE s == ls[frame.list].items
           t == ls1[frame.list].items
           n == frame.i
           seen == frame.seen
<1>1. n \in Nat /\ seen \in Seq(Nat \X Funcs)
    BY DEF EmitFrame
<1>2. frame.list \in DOMAIN ls /\ n <= Len(s) /\ CalledUpTo(seen, s, n)
    BY DEF FrameFits
<1>3. /\ frame.list \in DOMAIN ls1 /\ Extends(s, t)
      /\ (\E S : s \in Seq(S)) /\ (\E S : t \in Seq(S))
    BY <1>2
<1>4. Len(s) \in Nat /\ Len(t) \in Nat
    BY <1>3
<1> HIDE DEF s, t, n, seen
<1>5. n <= Len(t) /\ \A p \in 1..n : t[p] = s[p]
    BY <1>1, <1>2, <1>3, <1>4 DEF Extends
<1>6. CalledUpTo(seen, t, n)
    <2>1. {p \in 1..n : t[p] # Error} = {p \in 1..n : s[p] # Error}
        BY <1>5
    <2>2. \A j \in DOMAIN seen : seen[j][1] \in 1..n
        BY <1>2 DEF CalledUpTo
    <2> QED
        BY <1>2, <1>5, <2>1, <2>2 DEF CalledUpTo
<1> QED
    BY <1>3, <1>5, <1>6 DEF FrameFits, s, t, n, seen

LEMMA CalledNext ==
    ASSUME NEW seen \in Seq(Nat \X Funcs), NEW items \in Seq(Funcs), NEW n \in Nat,
           n < Len(items), CalledUpTo(seen, items, n)
    PROVE  /\ items[n + 1] = Error => CalledUpTo(seen, items, n + 1)
           /\ items[n + 1] # Error => CalledUpTo(Append(seen, <<n + 1, items[n + 1]>>), items, n + 1)
<1> DEFINE f == items[n + 1]
           m == Len(seen)
           last == <<n + 1, f>>
           seen1 == Append(seen, last)
<1>1. m \in Nat /\ DOMAIN seen = 1..m
    BY Elements
<1>2. \A j \in 1..m : seen[j][1] \in 1..n
    BY <1>1 DEF CalledUpTo
<1>3. CASE f = Error
    <2>1. {p \in 1..(n + 1) : items[p] # Error} = {p \in 1..n : items[p] # Error}
        BY <1>3
    <2> QED
        BY <1>3, <2>1 DEF CalledUpTo
<1>4. CASE f # Error
    <2>0. last[1] = n + 1 /\ last[2] = f /\ last \in Nat \X Funcs
        BY Elements
    <2>1. /\ DOMAIN seen1 = 1..(m + 1) /\ seen1[m + 1] = last
          /\ \A j \in 1..m : seen1[j] = seen[j]
        <3> HIDE DEF last
        <3> QED
            BY <1>1, <2>0
    <2> HIDE DEF seen1, last, m, f
    <2>2. \A j, k \in 1..(m + 1) : j < k => seen1[j][1] < seen1[k][1]
        <3> SUFFICES ASSUME NEW j \in 1..(m + 1), NEW k \in 1..(m + 1), j < k
                     PROVE  seen1[j][1] < seen1[k][1]
            OBVIOUS
        <3>1. j \in 1..m /\ seen1[j][1] = seen[j][1] /\ seen[j][1] \in 1..n
            BY <1>1, <1>2, <2>1
        <3>2. CASE k = m + 1
            BY <2>0, <2>1, <3>1, <3>2
        <3>3. CASE k # m + 1
            <4>1. k \in 1..m /\ seen1[k] = seen[k]
                BY <1>1, <2>1, <3>3
            <4> QED
                BY <1>1, <3>1, <4>1 DEF CalledUpTo
        <3> QED
            BY <3>2, <3>3
    <2>3. {seen1[j][1] : j \in 1..(m + 1)} = {seen[j][1] : j \in 1..m} \cup {n + 1}
        <3>1. \A x \in {seen1[j][1] : j \in 1..(m + 1)} : x \in {seen[j][1] : j \in 1..m} \cup {n + 1}
            <4>1. \A j \in 1..(m + 1) : j = m + 1 \/ j \in 1..m
                BY <1>1
            <4> QED
                BY <2>0, <2>1, <4>1
        <3>2. \A x \in {seen[j][1] : j \in 1..m} : x \in {seen1[j][1] : j \in 1..(m + 1)}
            <4>1. \A j \in 1..m : j \in 1..(m + 1)
                BY <1>1
            <4> QED
                BY <2>1, <4>1
        <3>3. n + 1 \in {seen1[j][1] : j \in 1..(m + 1)}
            <4>1. m + 1 \in 1..(m + 1)
                BY <1>1
            <4> QED
                BY <2>0, <2>1, <4>1
        <3> QED
            BY <3>1, <3>2, <3>3
    <2>4. {p \in 1..(n + 1) : items[p] # Error} = {p \in 1..n : items[p] # Error} \cup {n + 1}
        BY <1>4 DEF f
    <2>5. {seen1[j][1] : j \in DOMAIN seen1} = {p \in 1..(n + 1) : items[p] # Error}
        BY <1>1, <2>1, <2>3, <2>4 DEF CalledUpTo
    <2>6. \A j \in 1..(m + 1) : seen1[j][2] = items[seen1[j][1]]
        <3> SUFFICES ASSUME NEW j \in 1..(m + 1)
                     PROVE  seen1[j][2] = items[seen1[j][1]]
            OBVIOUS
        <3>1. CASE j = m + 1
            BY <2>0, <2>1, <3>1 DEF f
        <3>2. CASE j # m + 1
            <4>1. j \in 1..m /\ seen1[j] = seen[j]
                BY <1>1, <2>1, <3>2
            <4> QED
                BY <1>1, <4>1 DEF CalledUpTo
        <3> QED
            BY <3>1, <3>2
    <2>7. CalledUpTo(seen1, items, n + 1)
        BY <2>1, <2>2, <2>5, <2>6 DEF CalledUpTo
    <2> QED
        BY <1>4, <2>7 DEF seen1, last, f
<1> QED
    BY <1>3, <1>4

LEMMA PushFits ==
    ASSUME NEW frames, NEW ls, StackFits(frames, ls), NEW frame \in Frame,
           frame.kind = "emit" => FrameFits(frame, ls)
    PROVE  /\ StackFits(Append(frames, frame), ls)
           /\ \A k : Active(frames, k) => Active(Append(frames, frame), k)
           /\ \A k : frame.kind = "body" /\ KeyOf[frame.arg] = k => Active(Append(frames, frame), k)
<1> DEFINE n == Len(frames)
           more == Append(frames, frame)
<1>1. frames \in Seq(Frame) /\ n \in Nat /\ DOMAIN frames = 1..n
    BY Elements DEF StackFits
<1>2. /\ more \in Seq(Frame) /\ DOMAIN more = 1..(n + 1) /\ more[n + 1] = frame
      /\ \A j \in 1..n : more[j] = frames[j]
    BY <1>1
<1> HIDE DEF more, n
<1>3. \A j \in 1..(n + 1) : j = n + 1 \/ j \in 1..n
    BY <1>1
<1>4. n + 1 \in 1..(n + 1) /\ \A j \in 1..n : j \in 1..(n + 1)
    BY <1>1
<1>5. StackFits(more, ls)
    BY <1>1, <1>2, <1>3 DEF StackFits
<1>6. \A k : Active(frames, k) => Active(more, k)
    BY <1>1, <1>2, <1>4 DEF Active
<1>7. \A k : frame.kind = "body" /\ KeyOf[frame.arg] = k => Active(more, k)
    BY <1>2, <1>4 DEF Active
<1> QED
    BY <1>5, <1>6, <1>7 DEF more

LEMMA PopFits ==
    ASSUME NEW frames, NEW ls, StackFits(frames, ls), frames # <<>>
    PROVE  /\ StackFits(Front(frames), ls)
           /\ \A k : Active(frames, k) /\ ~(/\ frames[Len(frames)].kind = "body"
                                           /\ KeyOf[frames[Len(frames)].arg] = k)
                        => Active(Front(frames), k)
<1> DEFINE n == Len(frames)
           less == Front(frames)
<1>1. frames \in Seq(Frame) /\ n \in Nat \ {0} /\ DOMAIN frames = 1..n
    BY DEF StackFits
<1>2. /\ less \in Seq(Frame) /\ DOMAIN less = 1..(n - 1)
      /\ \A j \in 1..(n - 1) : less[j] = frames[j]
    BY <1>1 DEF Front
<1>3. \A j \in 1..(n - 1) : j \in 1..n
    BY <1>1
<1> HIDE DEF less, n
<1>4. \A j \in 1..n : j = n \/ j \in 1..(n - 1)
    BY <1>1
<1>5. StackFits(less, ls)
    BY <1>1, <1>2, <1>3 DEF StackFits
<1>6. ASSUME NEW k, Active(frames, k), ~(frames[n].kind = "body" /\ KeyOf[frames[n].arg] = k)
      PROVE  Active(less, k)
    BY <1>1, <1>2, <1>4, <1>6 DEF Active
<1> QED
    BY <1>5, <1>6 DEF less, n

LEMMA TopFits ==
    ASSUME NEW frames, NEW ls, StackFits(frames, ls), frames # <<>>,
           frames[Len(frames)].kind # "body", NEW frame \in Frame,
           frame.kind = "emit" => FrameFits(frame, ls)
    PROVE  /\ StackFits([frames EXCEPT ![Len(frames)] = frame], ls)
           /\ \A k : Active(frames, k) => Active([frames EXCEPT ![Len(frames)] = frame], k)
<1> DEFINE n == Len(frames)
           new == [frames EXCEPT ![n] = frame]
<1>1. frames \in Seq(Frame) /\ n \in Nat \ {0} /\ DOMAIN frames = 1..n
    BY DEF StackFits
<1>2. /\ new \in Seq(Frame) /\ DOMAIN new = 1..n /\ new[n] = frame
      /\ \A j \in 1..n : j # n => new[j] = frames[j]
    <2> HIDE DEF n
    <2> QED
        BY <1>1, ExceptSeq
<1> HIDE DEF new, n
<1>3. StackFits(new, ls)
    BY <1>1, <1>2 DEF StackFits
<1>4. frames[n].kind # "body"
    BY DEF n
<1>5. \A k : Active(frames, k) => Active(new, k)
    BY <1>1, <1>2, <1>4 DEF Active
<1> QED
    BY <1>3, <1>5 DEF new, n

----------------------------------------------------------------------------
(* Every step keeps the lists and the bus                                  *)

LEMMA AppendItemKeepsBus ==
    ASSUME ListsOK, BusOK, NothingLost, NEW l \in Sources, NEW x \in Items, AppendItem(l, x)
    PROVE  ListsOK' /\ BusOK' /\ NothingLost' /\ ListsGrow /\ (oom => oom')
<1>1. PICK l1 \in Appended(lists[l], x) : Replaces(l, l1) /\ oom' = (oom \/ l1 = lists[l])
    BY DEF AppendItem, Replaces
<1>2. UNCHANGED <<bus, registered>>
    BY DEF AppendItem, history
<1>3. l \in DOMAIN lists /\ l \notin Events /\ lists[l] \in List(Items) /\ Len(lists[l].items) <= lists[l].cap
    BY RuntimeAssumption DEF ListsOK
<1>4. l1 \in List(Items) /\ Len(l1.items) <= l1.cap /\ Extends(lists[l].items, l1.items)
    BY <1>3, AppendedKeeps
<1>5. ListsOK' /\ ListsGrow /\ DOMAIN lists' = DOMAIN lists
    BY <1>1, <1>3, <1>4, ReplacesKeepsLists
<1>6. BusOK'
    BY <1>2, <1>5 DEF BusOK
<1>7. \A e \in Events : e \in DOMAIN lists => lists'[e] = lists[e]
    BY <1>1, <1>3 DEF Replaces
<1>8. registered' \in [Events -> Seq(Handlers)]
    BY <1>2 DEF NothingLost
<1>9. ASSUME ~oom', NEW e \in Events
      PROVE  /\ \A n \in Nodes(bus', e) : n.key # Null /\ n.value # Null
             /\ registered'[e] = IF e \in DOMAIN lists' THEN lists'[e].items ELSE <<>>
    <2>1. ~oom
        BY <1>1, <1>9
    <2>2. /\ \A n \in Nodes(bus, e) : n.key # Null /\ n.value # Null
          /\ registered[e] = IF e \in DOMAIN lists THEN lists[e].items ELSE <<>>
        BY <2>1 DEF NothingLost
    <2> QED
        BY <1>2, <1>5, <1>7, <2>2
<1> QED
    BY <1>1, <1>5, <1>6, <1>8, <1>9 DEF NothingLost

IterSteps == \/ \E a \in Sources : Cycle(a) \/ \E b \in Sources \cup {None} : Chain(a, b)
             \/ \E v \in Items, n \in {-1, 2} : Repeat(v, n)
             \/ \E r \in Ranges : RangeGen(r)
             \/ IterNext

LEMMA StepCases ==
    ASSUME [Next]_vars
    PROVE  \/ \E e \in Events, h \in Handlers : On(e, h)
           \/ \E l \in Sources, x \in Items : AppendItem(l, x)
           \/ \E e \in Events : Emit(e)
           \/ EmitNext \/ EmitReturns \/ HandlerReturns
           \/ \E arg \in Args : CallMemoized(arg)
           \/ BodyReturns \/ CallDecorated \/ WrapperReturns
           \/ IterSteps
           \/ UNCHANGED vars
BY DEF Next, UserCalls, IterSteps

LEMMA IterStepsFrame ==
    ASSUME IterSteps
    PROVE  /\ UNCHANGED <<bus, cache, lists, stack, crashed, registered, runs, overlaps, answers>>
           /\ oom => oom'
<1>1. CASE IterNext
    <2>1. UNCHANGED <<bus, cache, lists, stack, crashed, registered, runs, overlaps, answers>>
        BY <1>1 DEF IterNext, history
    <2>2. oom => oom'
        BY <1>1 DEF IterNext
    <2> QED
        BY <2>1, <2>2
<1>2. CASE ~IterNext
    BY <1>2 DEF IterSteps, Cycle, Chain, Repeat, RangeGen, Start, history
<1> QED
    BY <1>1, <1>2

LEMMA BodyReturnsFrame ==
    ASSUME BodyReturns
    PROVE  UNCHANGED <<bus, lists, registered, runs, overlaps>> /\ (oom => oom')
BY DEF BodyReturns, Crash, history

LEMMA BusStep ==
    ASSUME ListsOK, BusOK, NothingLost, [Next]_vars
    PROVE  ListsOK' /\ BusOK' /\ NothingLost' /\ ListsGrow /\ (oom => oom')
<1>1. ASSUME UNCHANGED <<bus, lists, registered>>, oom => oom'
      PROVE  ListsOK' /\ BusOK' /\ NothingLost' /\ ListsGrow
    <2>1. ListsOK' /\ ListsGrow
        BY <1>1, SameListsGrow DEF ListsOK
    <2>2. BusOK'
        BY <1>1 DEF BusOK
    <2>3. NothingLost'
        BY <1>1 DEF NothingLost
    <2> QED
        BY <2>1, <2>2, <2>3
<1>2. ASSUME NEW e \in Events, NEW h \in Handlers, On(e, h)
      PROVE  ListsOK' /\ BusOK' /\ NothingLost' /\ ListsGrow /\ (oom => oom')
    <2>1. CASE NoneIsNull
        BY <1>1, <2>1 DEF NoneIsNull
    <2> QED
        BY <1>1, <1>2, <2>1, OnCases, AppendsKeepsBus, EntersKeepsBus
<1>3. ASSUME NEW l \in Sources, NEW x \in Items, AppendItem(l, x)
      PROVE  ListsOK' /\ BusOK' /\ NothingLost' /\ ListsGrow /\ (oom => oom')
    BY <1>3, AppendItemKeepsBus
<1>4. ASSUME NEW e \in Events, Emit(e)
      PROVE  UNCHANGED <<bus, lists, registered>> /\ (oom => oom')
    BY <1>4 DEF Emit, Crash, history
<1>5. CASE EmitNext
    <2>1. UNCHANGED <<bus, lists, registered, oom>>
        BY <1>5 DEF EmitNext, Crash, history
    <2> QED
        BY <1>1, <2>1
<1>6. ASSUME NEW arg \in Args, CallMemoized(arg)
      PROVE  UNCHANGED <<bus, lists, registered>> /\ (oom => oom')
    BY <1>6 DEF CallMemoized, Crash, history
<1>7. CASE BodyReturns
    BY <1>1, <1>7, BodyReturnsFrame
<1>8. CASE EmitReturns \/ HandlerReturns \/ CallDecorated \/ WrapperReturns \/ UNCHANGED vars
    <2>1. UNCHANGED <<bus, lists, registered, oom>>
        BY <1>8 DEF EmitReturns, HandlerReturns, CallDecorated, WrapperReturns, vars, history
    <2> QED
        BY <1>1, <2>1
<1>9. CASE IterSteps
    BY <1>1, <1>9, IterStepsFrame
<1> QED
    BY <1>1, <1>2, <1>3, <1>4, <1>5, <1>6, <1>7, <1>8, <1>9, StepCases

----------------------------------------------------------------------------
(* Every step keeps the stack                                              *)

LEMMA StackGrown ==
    ASSUME ListsOK, ListsOK', StackOK, ListsGrow, UNCHANGED stack
    PROVE  StackOK'
<1>1. \A l \in DOMAIN lists : \E S : lists[l].items \in Seq(S)
    BY ListItems
<1>2. \A l \in DOMAIN lists' : \E S : lists'[l].items \in Seq(S)
    BY DEF ListsOK, List
<1>3. stack' \in Seq(Frame)
    BY DEF StackOK, StackFits
<1>4. ASSUME NEW j \in DOMAIN stack, stack[j].kind = "emit"
      PROVE  FrameFits(stack[j], lists')
    <2>1. stack[j] \in Frame
        BY Elements DEF StackOK, StackFits
    <2>2. stack[j] \in EmitFrame /\ FrameFits(stack[j], lists)
        BY <1>4, <2>1 DEF Frame, StackOK, StackFits
    <2> QED
        BY <1>1, <1>2, <2>2, FrameStays DEF ListsGrow
<1> QED
    BY <1>3, <1>4 DEF StackOK, StackFits

\* A step that leaves the lists alone and ends no run of the function.
StackStep == StackFits(stack', lists) /\ \A k : Active(stack, k) => Active(stack', k)

LEMMA PushStep ==
    ASSUME StackOK, NEW frame \in Frame, frame.kind = "emit" => FrameFits(frame, lists), Push(frame)
    PROVE  StackStep /\ \A k : frame.kind = "body" /\ KeyOf[frame.arg] = k => Active(stack', k)
BY PushFits DEF StackOK, Push, StackStep

LEMMA ReturnStep ==
    ASSUME StackOK, NEW kind, Running(kind), Return
    PROVE  /\ StackFits(stack', lists)
           /\ \A k : Active(stack, k) /\ ~(kind = "body" /\ KeyOf[Top.arg] = k) => Active(stack', k)
BY PopFits DEF StackOK, Return, Running, Top

LEMMA TopFrame ==
    ASSUME StackOK, ListsOK, Running("emit")
    PROVE  /\ stack # <<>> /\ stack \in Seq(Frame) /\ Len(stack) \in DOMAIN stack
           /\ Top \in EmitFrame /\ FrameFits(Top, lists)
           /\ Top.i \in Nat /\ Top.list \in Events /\ Top.seen \in Seq(Nat \X Funcs)
           /\ lists[Top.list].items \in Seq(Funcs)
<1>1. stack # <<>> /\ stack \in Seq(Frame) /\ Top.kind = "emit"
    BY DEF Running, StackOK, StackFits
<1>2. Len(stack) \in DOMAIN stack /\ Top \in Frame
    BY <1>1 DEF Top
<1>3. Top \in EmitFrame
    BY <1>1, <1>2 DEF Frame
<1>4. FrameFits(Top, lists)
    BY <1>1, <1>2 DEF StackOK, StackFits, Top
<1>5. Top.list \in DOMAIN lists \cap Events
    BY <1>3, <1>4 DEF EmitFrame, FrameFits
<1>6. lists[Top.list].items \in Seq(Funcs)
    BY <1>5 DEF ListsOK, List
<1> QED
    BY <1>1, <1>2, <1>3, <1>4, <1>5, <1>6 DEF EmitFrame

LEMMA ExceptTwice ==
    ASSUME NEW s, NEW n \in DOMAIN s, NEW a, NEW b
    PROVE  [[s EXCEPT ![n] = a] EXCEPT ![n].seen = b] = [s EXCEPT ![n] = [a EXCEPT !.seen = b]]
<1>1. [s EXCEPT ![n] = a][n] = a
    OBVIOUS
<1> QED
    BY <1>1

LEMMA EmitNextStep ==
    ASSUME StackOK, ListsOK, EmitNext
    PROVE  StackStep \/ (UNCHANGED stack /\ lists[Top.list].items[Top.i + 1] = Null /\ crashed' = TRUE)
<1> DEFINE n == Len(stack)
           items == lists[Top.list].items
           f == items[Top.i + 1]
           further == [stack EXCEPT ![n].i = @ + 1]
           passed == [Top EXCEPT !.i = Top.i + 1]
           called == [passed EXCEPT !.seen = Append(Top.seen, <<Top.i + 1, f>>)]
           handler == [kind |-> "handler", func |-> f]
<1>1. Running("emit") /\ Top.i < Len(items)
    BY DEF EmitNext, Size
<1>2. /\ stack # <<>> /\ stack \in Seq(Frame) /\ n \in DOMAIN stack
      /\ Top \in EmitFrame /\ FrameFits(Top, lists)
      /\ Top.i \in Nat /\ Top.list \in Events /\ Top.seen \in Seq(Nat \X Funcs)
      /\ items \in Seq(Funcs) /\ Top.kind = "emit"
    BY <1>1, TopFrame DEF Running
<1>3. f \in Funcs /\ Top.i + 1 \in Nat /\ Top.i + 1 <= Len(items)
    BY <1>1, <1>2
<1>4. further = [stack EXCEPT ![n] = passed]
    BY <1>2 DEF Top
<1>5. passed \in EmitFrame /\ passed.i = Top.i + 1 /\ passed.list = Top.list /\ passed.seen = Top.seen
    BY <1>2, <1>3 DEF EmitFrame
<1>6. /\ called \in EmitFrame /\ called.i = Top.i + 1 /\ called.list = Top.list
      /\ called.seen = Append(Top.seen, <<Top.i + 1, f>>)
    <2>1. Append(Top.seen, <<Top.i + 1, f>>) \in Seq(Nat \X Funcs)
        BY <1>2, <1>3
    <2> QED
        BY <1>5, <2>1 DEF EmitFrame
<1>7. [further EXCEPT ![n].seen = Append(@, <<Top.i + 1, f>>)] = [stack EXCEPT ![n] = called]
    <2> DEFINE seen == Append(Top.seen, <<Top.i + 1, f>>)
    <2>1. further[n].seen = Top.seen
        BY <1>2, <1>4, <1>5
    <2>2. [further EXCEPT ![n].seen = Append(@, <<Top.i + 1, f>>)] = [further EXCEPT ![n].seen = seen]
        BY <2>1
    <2> HIDE DEF passed, further, seen
    <2>3. [further EXCEPT ![n].seen = seen] = [stack EXCEPT ![n] = [passed EXCEPT !.seen = seen]]
        BY <1>2, <1>4, ExceptTwice
    <2> QED
        BY <2>2, <2>3 DEF seen
<1>8. handler \in Frame /\ handler.kind = "handler"
    BY <1>3 DEF Frame
<1>9. CalledUpTo(Top.seen, items, Top.i)
    BY <1>2 DEF FrameFits
<1>10. /\ f = Error => CalledUpTo(Top.seen, items, Top.i + 1)
       /\ f # Error => CalledUpTo(Append(Top.seen, <<Top.i + 1, f>>), items, Top.i + 1)
    BY <1>1, <1>2, <1>9, CalledNext
<1> DEFINE OneCall == stack' = Append([further EXCEPT ![n].seen = Append(@, <<Top.i + 1, f>>)], handler)
<1>11. \/ f = Null /\ UNCHANGED stack /\ crashed' = TRUE
       \/ f = Error /\ stack' = further
       \/ f # Error /\ OneCall
    BY DEF EmitNext, Crash
<1>12. StackFits(stack, lists) /\ stack[n].kind # "body"
    BY <1>2 DEF StackOK, Top
<1>13. CASE f = Error /\ stack' = further
    <2>1. FrameFits(passed, lists)
        BY <1>2, <1>3, <1>5, <1>10, <1>13 DEF FrameFits
    <2>2. passed \in Frame
        BY <1>5 DEF Frame
    <2> HIDE DEF passed, further
    <2> QED
        BY <1>2, <1>4, <1>12, <1>13, <2>1, <2>2, TopFits DEF StackStep
<1>14. CASE f # Error /\ OneCall
    <2>1. FrameFits(called, lists)
        BY <1>2, <1>3, <1>6, <1>10, <1>14 DEF FrameFits
    <2>2. called \in Frame
        BY <1>6 DEF Frame
    <2> DEFINE base == [stack EXCEPT ![n] = called]
    <2>3. stack' = Append(base, handler)
        BY <1>7, <1>14
    <2> HIDE DEF called, handler
    <2>4. StackFits(base, lists) /\ \A k : Active(stack, k) => Active(base, k)
        BY <1>2, <1>12, <2>1, <2>2, TopFits
    <2> HIDE DEF base
    <2>5. StackFits(stack', lists) /\ \A k : Active(base, k) => Active(stack', k)
        BY <1>8, <2>3, <2>4, PushFits
    <2> QED
        BY <2>4, <2>5 DEF StackStep
<1> QED
    BY <1>11, <1>13, <1>14

LEMMA EmitStep ==
    ASSUME StackOK, ListsOK, BusOK, NEW e \in Events, Emit(e)
    PROVE  \/ StackStep /\ UNCHANGED crashed
           \/ NoneIsNull
           \/ UNCHANGED stack /\ \E n \in Nodes(bus, e) : n.key = Null \/ n.value = Null
<1> DEFINE frame == [kind |-> "emit", list |-> e, i |-> 0, size |-> Len(lists[e].items), seen |-> <<>>]
           Walks(list) ==
              /\ IF list = None THEN UNCHANGED stack
                 ELSE Push([kind |-> "emit", list |-> list, i |-> 0, size |-> Len(lists[list].items), seen |-> <<>>])
              /\ UNCHANGED crashed
<1>1. PICK list \in Dget(bus, e) :
         IF Trips(bus, e) \/ list = Null THEN Crash(Missing(bus, e, list)) ELSE Walks(list)
    BY DEF Emit
<1>2. CASE Missing(bus, e, list) /\ list = Null
    <2>1. Missing(bus, e, list) = TRUE
        BY <1>2 DEF Missing
    <2> QED
        BY <1>1, <1>2, <2>1, CrashNoneIsNull
<1>3. CASE ~Missing(bus, e, list) /\ list = Lookup(bus, e)
    <2>0. Missing(bus, e, list) = FALSE /\ e # Null /\ None # Null
        BY <1>3, RuntimeAssumption DEF Missing
    <2>1. CASE Trips(bus, e) \/ list = Null
        <3>1. UNCHANGED stack
            BY <1>1, <2>0, <2>1, CrashOnNode
        <3> QED
            BY <1>3, <2>0, <2>1, <3>1, BusLookup, BusTrips
    <2>2. CASE ~(Trips(bus, e) \/ list = Null) /\ list = None
        <3>1. UNCHANGED <<stack, crashed>>
            BY <1>1, <2>2
        <3> QED
            BY <3>1 DEF StackStep, StackOK
    <2>3. CASE ~(Trips(bus, e) \/ list = Null) /\ list # None
        <3>1. list = e /\ e \in DOMAIN lists
            BY <1>3, <2>3, BusLookup
        <3>2. Push(frame) /\ UNCHANGED crashed
            BY <1>1, <2>3, <3>1
        <3>3. lists[e].items \in Seq(Funcs)
            BY <3>1 DEF ListsOK, List
        <3>4. CalledUpTo(<<>>, lists[e].items, 0)
            BY DEF CalledUpTo
        <3>5. frame \in EmitFrame /\ FrameFits(frame, lists)
            BY <3>1, <3>3, <3>4 DEF EmitFrame, FrameFits
        <3>6. frame \in Frame
            BY <3>5 DEF Frame
        <3> HIDE DEF frame
        <3> QED
            BY <3>2, <3>5, <3>6, PushStep
    <2> QED
        BY <2>1, <2>2, <2>3
<1> QED
    BY <1>2, <1>3, DgetIsLookup

----------------------------------------------------------------------------
(* Memoised calls                                                          *)

LEMMA CacheLookup ==
    ASSUME CacheOK, NEW k \in Keys
    PROVE  \/ Lookup(cache, k) = None /\ ~Stored(k)
           \/ /\ Stored(k)
              /\ \E a \in Args : KeyOf[a] = k /\ F[a] = Lookup(cache, k) /\ <<a, Lookup(cache, k)>> \in answers
<1>1. k # Null /\ cache \in Chains(Results)
    BY RuntimeAssumption DEF CacheOK
<1>2. \/ Lookup(cache, k) = None /\ \A n \in Nodes(cache, k) : n.key # k
      \/ \E n \in Nodes(cache, k) : n.key = k /\ n.value = Lookup(cache, k)
    BY <1>1, LookupAnswers
<1>3. \A n \in Nodes(cache, k) : n.key = k =>
         \E a \in Args : KeyOf[a] = k /\ F[a] = n.value /\ <<a, n.value>> \in answers
    BY <1>1 DEF CacheOK
<1> QED
    BY <1>2, <1>3 DEF Stored

LEMMA CacheTrips ==
    ASSUME CacheOK, NEW k \in Keys, Trips(cache, k)
    PROVE  oom
<1>1. cache \in Chains(Results)
    BY DEF CacheOK
<1> QED
    BY <1>1, TripsOnNull DEF CacheOK

\* One more answer, true of its argument.
LEMMA AnswerAdded ==
    ASSUME CacheOK, NEW arg \in Args, NEW a \in Args, KeyOf[a] = KeyOf[arg],
           answers' = answers \cup {<<arg, F[a]>>}
    PROVE  answers' \subseteq Args \X Results /\ MemoAnswers'
<1>1. F[a] \in Results
    BY DEF Results
<1>2. answers' \subseteq Args \X Results
    BY <1>1 DEF CacheOK
<1>3. MemoAnswers'
    BY DEF CacheOK, MemoAnswers
<1> QED
    BY <1>2, <1>3

LEMMA CallMemoizedStep ==
    ASSUME CacheOK, RunsOK, StackOK, NEW arg \in Args, CallMemoized(arg)
    PROVE  /\ CacheOK' /\ RunsOK'
           /\ StackStep
           /\ crashed' => crashed \/ oom' \/ \E ans \in answers : ans[2] = Null
           /\ answers \subseteq answers'
<1> DEFINE k == KeyOf[arg]
           cached == Lookup(cache, k)
           Looks(c) ==
              /\ IF Known(c)
                 THEN /\ answers' = answers \cup {<<arg, c>>}
                      /\ UNCHANGED <<stack, runs, overlaps>>
                 ELSE /\ Push([kind |-> "body", arg |-> arg])
                      /\ runs' = [runs EXCEPT ![k] = @ + 1]
                      /\ overlaps' = overlaps \cup {KeyOf[stack[i].arg] :
                             i \in {j \in DOMAIN stack : stack[j].kind = "body" /\ KeyOf[stack[j].arg] = k}}
                      /\ UNCHANGED answers
              /\ UNCHANGED <<bus, cache, lists, iter, crashed, oom, registered>>
<1>10. PICK c \in Dget(cache, k) :
          IF Trips(cache, k) \/ c = Null THEN Crash(Missing(cache, k, c)) ELSE Looks(c)
    BY DEF CallMemoized
<1>11. CASE Missing(cache, k, c) /\ c = Null
    <2>1. Missing(cache, k, c) = TRUE
        BY <1>11 DEF Missing
    <2>2. NoneIsNull
        BY <1>10, <1>11, <2>1, CrashNoneIsNull
    <2>3. CacheOK' /\ RunsOK'
        BY <2>2 DEF NoneIsNull, CacheOK, RunsOK, MemoAnswers, Excused, Stored, ComputedOnce
    <2>4. StackStep
        BY <2>2 DEF NoneIsNull, StackStep, StackOK
    <2> QED
        BY <2>2, <2>3, <2>4 DEF NoneIsNull
<1>12. \/ (Trips(cache, k) \/ cached = Null) /\ Crash(FALSE)
       \/ ~(Trips(cache, k) \/ cached = Null) /\ Looks(cached)
       \/ Missing(cache, k, c) /\ c = Null
    <2>1. CASE ~Missing(cache, k, c) /\ c = cached
        <3>1. Missing(cache, k, c) = FALSE
            BY <2>1 DEF Missing
        <3> QED
            BY <1>10, <2>1, <3>1
    <2> QED
        BY <2>1, DgetIsLookup
<1>0. k \in Keys
    BY RuntimeAssumption
<1>1. CASE (Trips(cache, k) \/ cached = Null) /\ Crash(FALSE)
    <2>1. UNCHANGED <<cache, stack, oom, runs, overlaps, answers>>
        BY <1>1, CrashOnNode
    <2>2. CacheOK' /\ RunsOK'
        BY <2>1 DEF CacheOK, RunsOK, MemoAnswers, Excused, Stored, ComputedOnce
    <2>3. StackStep
        BY <2>1 DEF StackStep, StackOK
    <2>4. oom \/ \E ans \in answers : ans[2] = Null
        <3>1. None # Null
            BY RuntimeAssumption
        <3>2. CASE Trips(cache, k)
            BY <1>0, <3>2, CacheTrips
        <3>3. CASE cached = Null
            <4>1. \E a \in Args : <<a, Null>> \in answers
                BY <1>0, <3>1, <3>3, CacheLookup
            <4> QED
                BY <4>1
        <3> QED
            BY <1>1, <3>2, <3>3
    <2> QED
        BY <2>1, <2>2, <2>3, <2>4
<1>2. CASE ~(Trips(cache, k) \/ cached = Null) /\ Looks(cached) /\ Known(cached)
    <2>1. /\ UNCHANGED <<cache, stack, crashed, oom, runs, overlaps>>
          /\ answers' = answers \cup {<<arg, cached>>}
        BY <1>2
    <2>2. PICK a \in Args : KeyOf[a] = k /\ F[a] = cached
        BY <1>0, <1>2, CacheLookup DEF Known
    <2>3. answers' \subseteq Args \X Results /\ MemoAnswers'
        BY <2>1, <2>2, AnswerAdded
    <2>4. CacheOK'
        BY <2>1, <2>3 DEF CacheOK
    <2>5. RunsOK'
        BY <2>1 DEF RunsOK, Excused, Stored, ComputedOnce
    <2>6. StackStep
        BY <2>1 DEF StackStep, StackOK
    <2> QED
        BY <2>1, <2>4, <2>5, <2>6
<1>3. CASE ~(Trips(cache, k) \/ cached = Null) /\ Looks(cached) /\ ~Known(cached)
    <2> DEFINE frame == [kind |-> "body", arg |-> arg]
    <2>1. /\ UNCHANGED <<cache, crashed, oom, answers>>
          /\ Push(frame)
          /\ runs' = [runs EXCEPT ![k] = @ + 1]
          /\ overlaps' = overlaps \cup {KeyOf[stack[i].arg] :
                             i \in {j \in DOMAIN stack : stack[j].kind = "body" /\ KeyOf[stack[j].arg] = k}}
        BY <1>3
    <2>2. frame \in Frame /\ frame.kind = "body" /\ frame.arg = arg
        BY DEF Frame
    <2>3. StackStep /\ Active(stack', k)
        <3> HIDE DEF frame
        <3> QED
            BY <2>1, <2>2, PushStep
    <2>4. CacheOK'
        BY <2>1 DEF CacheOK, MemoAnswers
    <2>5. Active(stack, k) => k \in overlaps'
        BY <2>1 DEF Active
    <2>6. Stored(k) => \E a \in Args : KeyOf[a] = k /\ F[a] = None
        BY <1>0, <1>3, CacheLookup DEF Known
    <2>7. /\ runs' \in [Keys -> Nat] /\ runs'[k] = runs[k] + 1
          /\ \A l \in Keys : l # k => runs'[l] = runs[l]
        BY <1>0, <2>1 DEF RunsOK
    <2>8. \A l : Excused(l) => Excused(l)'
        BY <2>1 DEF Excused
    <2>9. \A l \in Keys : runs'[l] > 0 => Excused(l)' \/ Active(stack', l) \/ Stored(l)'
        <3> SUFFICES ASSUME NEW l \in Keys, runs'[l] > 0
                     PROVE  Excused(l)' \/ Active(stack', l) \/ Stored(l)'
            OBVIOUS
        <3>1. CASE l = k
            BY <2>3, <3>1
        <3>2. CASE l # k
            <4>1. Excused(l) \/ Active(stack, l) \/ Stored(l)
                BY <2>7, <3>2 DEF RunsOK
            <4>2. Stored(l) => Stored(l)'
                BY <2>1 DEF Stored
            <4> QED
                BY <2>3, <2>8, <4>1, <4>2 DEF StackStep
        <3> QED
            BY <3>1, <3>2
    <2>10. ComputedOnce'
        <3> SUFFICES ASSUME NEW l \in Keys, runs'[l] > 1
                     PROVE  Excused(l)'
            BY DEF ComputedOnce, Excused
        <3>1. CASE l = k
            <4>1. runs[k] > 0
                BY <1>0, <2>7, <3>1 DEF RunsOK
            <4>2. Excused(k) \/ Active(stack, k) \/ Stored(k)
                BY <1>0, <4>1 DEF RunsOK
            <4>3. Excused(k)'
                BY <2>5, <2>6, <2>8, <4>2 DEF Excused
            <4> QED
                BY <3>1, <4>3
        <3>2. CASE l # k
            <4>1. Excused(l)
                BY <2>7, <3>2 DEF RunsOK, ComputedOnce, Excused
            <4> QED
                BY <2>8, <4>1
        <3> QED
            BY <3>1, <3>2
    <2>11. RunsOK'
        BY <2>7, <2>9, <2>10 DEF RunsOK
    <2> QED
        BY <2>1, <2>3, <2>4, <2>11
<1> QED
    BY <1>1, <1>2, <1>3, <1>11, <1>12

LEMMA BodyReturnsStep ==
    ASSUME CacheOK, RunsOK, StackOK, BodyReturns
    PROVE  /\ CacheOK' /\ RunsOK'
           /\ StackFits(stack', lists)
           /\ crashed' => crashed \/ oom
           /\ answers \subseteq answers'
<1>1. Running("body")
    BY DEF BodyReturns
<1>2. PICK arg \in Args : arg = Top.arg
    <2>1. Top \in Frame /\ Top.kind = "body"
        BY <1>1 DEF Running, Top, StackOK, StackFits
    <2> QED
        BY <2>1 DEF Frame, EmitFrame
<1> DEFINE k == KeyOf[arg]
           v == F[arg]
<1>3. k \in Keys /\ v \in Results /\ cache \in Chains(Results) /\ k # Null
    BY <1>2, RuntimeAssumption DEF Results, CacheOK
<1>4. CASE Trips(cache, k)
    <2>1. UNCHANGED <<cache, stack, oom, runs, overlaps, answers>>
        BY <1>2, <1>4, CrashOnNode DEF BodyReturns
    <2>2. CacheOK' /\ RunsOK'
        BY <2>1 DEF CacheOK, RunsOK, MemoAnswers, Excused, Stored, ComputedOnce
    <2>3. oom
        BY <1>3, <1>4, CacheTrips
    <2> QED
        BY <2>1, <2>2, <2>3 DEF StackOK
<1>5. CASE ~Trips(cache, k)
    <2>1. /\ cache' \in Dset(cache, k, v) /\ oom' = (oom \/ ~Lossless(cache, k, v, cache'))
          /\ answers' = answers \cup {<<arg, v>>}
          /\ Return /\ UNCHANGED <<crashed, runs, overlaps>>
        BY <1>2, <1>5 DEF BodyReturns
    <2>2. /\ cache' \in Chains(Results)
          /\ \A l \in Keys : Nodes(cache', l) \subseteq Nodes(cache, l) \cup {Node(k, v), Node(Null, v)}
          /\ \A l \in Keys : \A n \in Nodes(cache, l) : n.key # k => n \in Nodes(cache', l)
          /\ Lossless(cache, k, v, cache') =>
                /\ Node(k, v) \in Nodes(cache', k)
                /\ \A l \in Keys : Nodes(cache', l) \subseteq Nodes(cache, l) \cup {Node(k, v)}
        BY <1>3, <2>1, DsetEffects
    <2>3. \A key : Node(key, v).key = key /\ Node(key, v).value = v
        BY DEF Node
    <2>4. answers' \subseteq Args \X Results /\ MemoAnswers'
        BY <1>2, <2>1, AnswerAdded
    <2>5. ASSUME NEW l \in Keys, NEW n \in Nodes(cache', l)
          PROVE  /\ n.key = Null => oom'
                 /\ n.key # Null => \E a \in Args : KeyOf[a] = n.key /\ F[a] = n.value /\ <<a, n.value>> \in answers'
        <3>1. /\ n \in Nodes(cache, l) \/ n = Node(k, v) \/ n = Node(Null, v)
              /\ ~oom' => n \in Nodes(cache, l) \/ n = Node(k, v)
            BY <2>1, <2>2
        <3>2. CASE n \in Nodes(cache, l)
            BY <2>1, <3>2 DEF CacheOK
        <3>3. CASE n = Node(k, v)
            BY <1>2, <1>3, <2>1, <2>3, <3>3
        <3>4. CASE n \notin Nodes(cache, l) /\ n # Node(k, v)
            BY <2>3, <3>1, <3>4
        <3> QED
            BY <3>2, <3>3, <3>4
    <2>6. CacheOK'
        BY <2>2, <2>4, <2>5 DEF CacheOK
    <2>7. /\ StackFits(stack', lists)
          /\ \A l : Active(stack, l) /\ l # k => Active(stack', l)
        BY <1>1, <1>2, <2>1, ReturnStep
    <2>8. \A l : Excused(l) => Excused(l)'
        BY <2>1 DEF Excused
    <2>9. \A l \in Keys : runs'[l] > 0 => Excused(l)' \/ Active(stack', l) \/ Stored(l)'
        <3> SUFFICES ASSUME NEW l \in Keys, runs[l] > 0
                     PROVE  Excused(l)' \/ Active(stack', l) \/ Stored(l)'
            BY <2>1
        <3>1. CASE l = k
            <4>1. oom' \/ Stored(k)'
                BY <2>1, <2>2, <2>3 DEF Stored
            <4> QED
                BY <3>1, <4>1 DEF Excused
        <3>2. CASE l # k
            <4>1. Excused(l) \/ Active(stack, l) \/ Stored(l)
                BY DEF RunsOK
            <4>2. Stored(l) => Stored(l)'
                BY <2>2, <3>2 DEF Stored
            <4> QED
                BY <2>7, <2>8, <3>2, <4>1, <4>2
        <3> QED
            BY <3>1, <3>2
    <2>10. RunsOK'
        <3>1. ComputedOnce'
            BY <2>1 DEF RunsOK, ComputedOnce
        <3> QED
            BY <2>1, <2>9, <3>1 DEF RunsOK
    <2> QED
        BY <2>1, <2>6, <2>7, <2>10
<1> QED
    BY <1>4, <1>5

----------------------------------------------------------------------------
(* Arithmetic of the iterators                                             *)

LEMMA Division ==
    ASSUME NEW n \in Nat, NEW m \in Nat \ {0}, NEW d, d = n \div m, NEW r, r = n % m
    PROVE  n = m * d + r
OBVIOUS

LEMMA ModRange ==
    ASSUME NEW n \in Nat, NEW m \in Nat \ {0}
    PROVE  \E d \in Nat, r \in 0..(m - 1) : r = n % m /\ n = m * d + r
<1>1. n % m \in 0..(m - 1) /\ n \div m \in Nat
    OBVIOUS
<1>2. \A d, r : d = n \div m /\ r = n % m => n = m * d + r
    BY Division
<1> QED
    BY <1>1, <1>2, Zenon

LEMMA ModUnique ==
    ASSUME NEW m \in Nat \ {0}, NEW q \in Nat, NEW r \in 0..(m - 1)
    PROVE  (m * q + r) % m = r
<1> DEFINE n == m * q + r
<1>1. n \in Nat
    OBVIOUS
<1>2. PICK p \in Nat, s \in 0..(m - 1) : s = n % m /\ n = m * p + s
    <2> HIDE DEF n
    <2> QED
        BY <1>1, ModRange
<1>3. m * q + r = m * p + s
    BY <1>2
<1>4. \A d \in Nat \ {0} : m * d >= m
    OBVIOUS
<1>5. m * (q - p) = s - r /\ m * (p - q) = r - s
    BY <1>2, <1>3
<1>6. CASE q > p
    <2>1. q - p \in Nat \ {0}
        BY <1>2, <1>6
    <2>2. m * (q - p) >= m
        BY <1>4, <2>1
    <2> QED
        BY <1>2, <1>5, <2>2
<1>7. CASE p > q
    <2>1. p - q \in Nat \ {0}
        BY <1>2, <1>7
    <2>2. m * (p - q) >= m
        BY <1>4, <2>1
    <2> QED
        BY <1>2, <1>5, <2>2
<1>8. CASE p = q
    BY <1>2, <1>3, <1>8
<1> QED
    BY <1>2, <1>6, <1>7, <1>8

LEMMA ModStep ==
    ASSUME NEW n \in Nat, NEW m \in Nat \ {0}
    PROVE  /\ n % m \in 0..(m - 1)
           /\ (n + 1) % m = IF (n % m) + 1 = m THEN 0 ELSE (n % m) + 1
<1>1. PICK q \in Nat, r \in 0..(m - 1) : r = n % m /\ n = m * q + r
    BY ModRange
<1>2. CASE r + 1 = m
    <2>1. n + 1 = m * (q + 1) + 0
        BY <1>1, <1>2
    <2>2. (m * (q + 1) + 0) % m = 0
        BY <1>1, ModUnique
    <2> QED
        BY <1>1, <1>2, <2>1, <2>2
<1>3. CASE r + 1 # m
    <2>1. n + 1 = m * q + (r + 1) /\ r + 1 \in 0..(m - 1)
        BY <1>1, <1>3
    <2>2. (m * q + (r + 1)) % m = r + 1
        BY <1>1, <2>1, ModUnique
    <2> QED
        BY <1>1, <1>3, <2>1, <2>2
<1> QED
    BY <1>2, <1>3

LEMMA ModSmall ==
    ASSUME NEW m \in Nat \ {0}, NEW n \in 0..(m - 1)
    PROVE  n % m = n
OBVIOUS

LEMMA WrapInLong ==
    ASSUME NEW n \in Int
    PROVE  Wrap(n) \in Long /\ (n \in Long => Wrap(n) = n)
<1> DEFINE m == 2 * LongMax + 2
           p == n + LongMax + 1
<1>1. m \in Nat \ {0} /\ p \in Int /\ LongMax \in Nat
    BY RuntimeAssumption
<1>2. p % m \in 0..(m - 1)
    <2> HIDE DEF m, p
    <2> QED
        BY <1>1
<1>3. n \in Long => p \in 0..(m - 1)
    BY <1>1 DEF Long
<1>4. p \in 0..(m - 1) => p % m = p
    <2> HIDE DEF m, p
    <2> QED
        BY <1>1, ModSmall
<1>5. Wrap(n) = (p % m) - LongMax - 1
    BY DEF Wrap
<1> QED
    BY <1>1, <1>2, <1>3, <1>4, <1>5 DEF Long

\* Between two numbers that fit a long lies no number that does not.
LEMMA FitsBetween ==
    ASSUME NEW start \in Long, NEW step \in Int, NEW n \in Nat, Fits(start + (n + 1) * step)
    PROVE  /\ Fits(start + n * step)
           /\ start + (n + 1) * step = start + n * step + step
<1> DEFINE a == n * step
           b == (n + 1) * step
<1>1. a \in Int /\ b \in Int /\ b = a + step
    OBVIOUS
<1>2. step >= 0 => 0 <= a /\ a <= b
    OBVIOUS
<1>3. step <= 0 => a <= 0 /\ b <= a
    OBVIOUS
<1> HIDE DEF a, b
<1>4. LongMax \in Nat /\ start \in Int /\ -LongMax - 1 <= start /\ start <= LongMax
    BY RuntimeAssumption DEF Long
<1>5. start + b \in Long
    <2>1. start + b \in Int /\ Wrap(start + b) = start + b
        BY <1>1, <1>4 DEF Fits, b
    <2> QED
        BY <2>1, WrapInLong
<1>6. start + a \in Long
    BY <1>1, <1>2, <1>3, <1>4, <1>5 DEF Long
<1>7. Wrap(start + a) = start + a
    BY <1>1, <1>4, <1>6, WrapInLong
<1>8. start + b = start + a + step
    BY <1>1, <1>4
<1> QED
    BY <1>7, <1>8 DEF Fits, a, b

----------------------------------------------------------------------------
(* Every step keeps the iterator                                           *)

LEMMA SourceItems ==
    ASSUME ListsOK, NEW x
    PROVE  Elems(x) \in Seq(Items) /\ Len(Elems(x)) \in Nat
<1>1. CASE x \in Sources
    BY <1>1 DEF Elems, ListsOK, List
<1>2. CASE x \notin Sources
    BY <1>2 DEF Elems
<1> QED
    BY <1>1, <1>2

LEMMA JoinedAt ==
    ASSUME NEW S, NEW s \in Seq(S), NEW t \in Seq(S)
    PROVE  /\ Len(s \o t) = Len(s) + Len(t) /\ s \o t \in Seq(S)
           /\ \A j \in 1..Len(s) : (s \o t)[j] = s[j]
           /\ \A j \in 1..Len(t) : (s \o t)[Len(s) + j] = t[j]
BY ConcatProperties

LEMMA Appended1 ==
    ASSUME NEW S, NEW s \in Seq(S), NEW x \in S
    PROVE  /\ Append(s, x) \in Seq(S) /\ Len(s) \in Nat /\ Len(Append(s, x)) = Len(s) + 1
           /\ DOMAIN Append(s, x) = 1..(Len(s) + 1) /\ DOMAIN s = 1..Len(s)
           /\ Append(s, x) # <<>>
           /\ Append(s, x)[Len(s) + 1] = x
           /\ \A j \in 1..Len(s) : Append(s, x)[j] = s[j]
           /\ \A j \in 1..(Len(s) + 1) : j = Len(s) + 1 \/ j \in 1..Len(s)
BY AppendProperties

LEMMA StartsOK ==
    ASSUME ListsOK, IterSteps, ~IterNext
    PROVE  IterOK'
<1>0. /\ NoIter \in IterTypes /\ NoIter.mode = "none" /\ NoIter.asked = "none"
      /\ NoIter.out = <<>> /\ NoIter.index = 0 /\ ~NoIter.late /\ NoIter.b = None
    BY RuntimeAssumption DEF NoIter, IterTypes, IterModes, Long
<1>1. ASSUME iter' = NoIter
      PROVE  IterOK'
    BY <1>0, <1>1 DEF IterOK
<1>2. ASSUME NEW a \in Sources, NEW b \in Sources \cup {None}, UNCHANGED lists,
             iter' = [NewIter("chain", "chain", a) EXCEPT !.b = b]
      PROVE  IterOK'
    <2>1. /\ iter' \in IterTypes /\ iter'.mode = "chain" /\ iter'.asked = "chain"
          /\ iter'.a = a /\ iter'.b = b /\ iter'.out = <<>> /\ iter'.index = 0
        BY <1>0, <1>2 DEF IterTypes, IterModes, NewIter
    <2>2. Len(Elems(a)) \in Nat /\ Len(Elems(b)) \in Nat
        BY SourceItems
    <2>3. Elems(iter.a)' = Elems(a) /\ Elems(iter.b)' = Elems(b)
        BY <1>2, <2>1 DEF Elems
    <2>4. ChainOK'
        BY <2>1, <2>2, <2>3 DEF ChainOK
    <2> QED
        BY <2>1, <2>4 DEF IterOK
<1>3. ASSUME NEW a \in Sources, NEW asked \in IterModes, UNCHANGED lists, asked # "cycle" => oom',
             iter' = NewIter("cycle", asked, a)
      PROVE  IterOK'
    <2>1. /\ iter' \in IterTypes /\ iter'.mode = "cycle" /\ iter'.asked = asked
          /\ iter'.a = a /\ iter'.out = <<>> /\ iter'.index = 0
        BY <1>0, <1>3 DEF IterTypes, IterModes, NewIter
    <2>2. Len(Elems(a)) \in Nat
        BY SourceItems
    <2>3. Elems(iter.a)' = Elems(a)
        BY <1>3, <2>1 DEF Elems
    <2>4. CycleOK'
        BY <2>1, <2>2, <2>3 DEF CycleOK
    <2> QED
        BY <1>3, <2>1, <2>4 DEF IterOK
<1>4. ASSUME NEW a \in Sources, NEW b \in Sources \cup {None}, Chain(a, b)
      PROVE  IterOK'
    <2>1. \/ iter' = NoIter
          \/ UNCHANGED lists /\ iter' = [NewIter("chain", "chain", a) EXCEPT !.b = b]
          \/ UNCHANGED lists /\ iter' = NewIter("cycle", "chain", a) /\ oom'
        BY <1>4 DEF Chain, Start
    <2> QED
        BY <1>1, <1>2, <1>3, <2>1 DEF IterModes
<1>5. ASSUME NEW a \in Sources, Cycle(a)
      PROVE  IterOK'
    <2>1. \/ iter' = NoIter
          \/ UNCHANGED lists /\ iter' = NewIter("cycle", "cycle", a)
        BY <1>5 DEF Cycle, Start
    <2> QED
        BY <1>1, <1>3, <2>1 DEF IterModes
<1>6. ASSUME NEW v \in Items, NEW n \in {-1, 2}, Repeat(v, n)
      PROVE  IterOK'
    <2> DEFINE limit == IF n > 0 THEN n ELSE 0
    <2>0. limit \in Int /\ limit >= 0
        OBVIOUS
    <2>1. iter' = NoIter \/ iter' = [NewIter("repeat", "repeat", v) EXCEPT !.limit = limit]
        BY <1>6 DEF Repeat, Start
    <2> HIDE DEF limit
    <2>2. CASE iter' = [NewIter("repeat", "repeat", v) EXCEPT !.limit = limit]
        <3>1. /\ iter' \in IterTypes /\ iter'.mode = "repeat" /\ iter'.asked = "repeat" /\ iter'.a = v
              /\ iter'.out = <<>> /\ iter'.index = 0 /\ iter'.limit >= 0
            BY <1>0, <2>0, <2>2 DEF IterTypes, IterModes, NewIter
        <3>2. RepeatOK'
            BY <3>1 DEF RepeatOK
        <3> QED
            BY <3>1, <3>2 DEF IterOK
    <2> QED
        BY <1>1, <2>1, <2>2
<1>7. ASSUME NEW r \in Ranges, RangeGen(r)
      PROVE  IterOK'
    <2>1. \/ iter' = NoIter
          \/ iter' = [NewIter("gen", "gen", None) EXCEPT !.index = r[1], !.start = r[1], !.limit = r[2], !.step = r[3]]
        BY <1>7 DEF RangeGen, Start
    <2>2. CASE iter' = [NewIter("gen", "gen", None) EXCEPT !.index = r[1], !.start = r[1], !.limit = r[2], !.step = r[3]]
        <3>1. r[1] \in Long /\ r[1] \in Int /\ r[2] \in Int /\ r[3] \in Int
            BY RuntimeAssumption DEF Long
        <3>2. /\ iter' \in IterTypes /\ iter'.mode = "gen" /\ iter'.asked = "gen"
              /\ iter'.start = r[1] /\ iter'.step = r[3]
              /\ iter'.out = <<>> /\ iter'.index = r[1]
            BY <1>0, <2>2, <3>1 DEF IterTypes, IterModes, NewIter
        <3>3. NthNumber(1)' = r[1]
            BY <3>1, <3>2 DEF NthNumber
        <3>4. GenOK'
            BY <3>2, <3>3 DEF GenOK
        <3> QED
            BY <3>2, <3>4 DEF IterOK
    <2> QED
        BY <1>1, <2>1, <2>2
<1> QED
    BY <1>4, <1>5, <1>6, <1>7 DEF IterSteps

LEMMA ChainNext ==
    ASSUME ListsOK, IterOK, iter.mode = "chain", IterNext
    PROVE  IterOK'
<1> DEFINE s == Elems(iter.a)
           t == Elems(iter.b)
           u == IF iter.index < Len(s) THEN s ELSE t
           i == ChainIndex(iter)
           n == Len(iter.out)
<1>1. /\ i < Len(u) /\ iter' = [iter EXCEPT !.out = Append(@, u[i + 1]), !.index = iter.index + 1]
      /\ UNCHANGED <<lists, oom>>
    BY DEF IterNext, Step
<1>2. iter \in IterTypes /\ ChainOK
    BY DEF IterOK
<1>3. s \in Seq(Items) /\ t \in Seq(Items) /\ Len(s) \in Nat /\ Len(t) \in Nat
    BY SourceItems
<1>4. /\ iter.out \in Seq(Yields) /\ n \in Nat /\ iter.index = n /\ n <= Len(s) + Len(t)
      /\ iter.a \in Sources /\ iter.late \in BOOLEAN
    BY <1>2 DEF IterTypes, ChainOK
<1>5. i = (IF n < Len(s) THEN n ELSE n - Len(s)) /\ u = (IF n < Len(s) THEN s ELSE t)
    BY <1>4 DEF ChainIndex
<1> DEFINE x == u[i + 1]
<1>6. x \in Items /\ n + 1 <= Len(s) + Len(t) /\ x = (s \o t)[n + 1]
    <2> HIDE DEF s, t, u, i, n
    <2>1. CASE n < Len(s)
        <3>1. n + 1 \in 1..Len(s) /\ i = n /\ u = s
            BY <1>3, <1>4, <1>5, <2>1
        <3>2. s[n + 1] \in Items /\ (s \o t)[n + 1] = s[n + 1]
            BY <1>3, <3>1, JoinedAt
        <3> QED
            BY <1>3, <1>4, <3>1, <3>2
    <2>2. CASE ~(n < Len(s))
        <3>1. i = n - Len(s) /\ u = t
            BY <1>3, <1>4, <1>5, <2>2
        <3>2. i + 1 \in 1..Len(t) /\ Len(s) + (i + 1) = n + 1
            BY <1>1, <1>3, <1>4, <2>2, <3>1
        <3>3. t[i + 1] \in Items /\ (s \o t)[Len(s) + (i + 1)] = t[i + 1]
            BY <1>3, <3>2, JoinedAt
        <3> QED
            BY <1>3, <1>4, <3>1, <3>2, <3>3
    <2> QED
        BY <2>1, <2>2
<1>7. /\ iter' \in IterTypes /\ iter'.mode = "chain" /\ iter'.asked = iter.asked /\ iter'.a = iter.a /\ iter'.b = iter.b
      /\ iter'.late = iter.late /\ iter'.index = n + 1 /\ iter'.out = Append(iter.out, x)
    <2>0. iter' = [iter EXCEPT !.out = Append(iter.out, x), !.index = n + 1]
        BY <1>1, <1>4
    <2> HIDE DEF x, n, s, t, u, i
    <2>1. Append(iter.out, x) \in Seq(Yields) /\ n + 1 \in Int
        BY <1>4, <1>6, Appended1 DEF Yields
    <2> QED
        BY <1>2, <1>4, <2>0, <2>1 DEF IterTypes
<1>8. /\ Len(iter'.out) = n + 1 /\ DOMAIN iter'.out = 1..(n + 1) /\ DOMAIN iter.out = 1..n
      /\ iter'.out[n + 1] = x /\ \A j \in 1..n : iter'.out[j] = iter.out[j]
      /\ \A j \in 1..(n + 1) : j = n + 1 \/ j \in 1..n
    <2>1. x \in Yields /\ iter.out \in Seq(Yields) /\ iter'.out = Append(iter.out, x)
        BY <1>4, <1>6, <1>7 DEF Yields
    <2> HIDE DEF x
    <2>2. /\ Len(Append(iter.out, x)) = Len(iter.out) + 1 /\ DOMAIN Append(iter.out, x) = 1..(Len(iter.out) + 1)
          /\ DOMAIN iter.out = 1..Len(iter.out) /\ Append(iter.out, x) # <<>>
          /\ Append(iter.out, x)[Len(iter.out) + 1] = x
          /\ \A j \in 1..Len(iter.out) : Append(iter.out, x)[j] = iter.out[j]
          /\ \A j \in 1..(Len(iter.out) + 1) : j = Len(iter.out) + 1 \/ j \in 1..Len(iter.out)
        BY <2>1, Appended1
    <2> QED
        BY <2>1, <2>2
<1>9. Elems(iter.a)' = s /\ Elems(iter.b)' = t
    BY <1>1, <1>7 DEF Elems
<1>10. ASSUME ~iter.late, NEW j \in 1..(n + 1)
       PROVE  iter'.out[j] = (s \o t)[j]
    <2>1. \A k \in 1..n : iter.out[k] = (s \o t)[k]
        BY <1>2, <1>8, <1>10 DEF ChainOK
    <2> HIDE DEF s, t, x
    <2> QED
        BY <1>6, <1>8, <2>1
<1> HIDE DEF s, t, x, n
<1>11. ChainOK'
    BY <1>4, <1>6, <1>7, <1>8, <1>9, <1>10 DEF ChainOK
<1> QED
    BY <1>1, <1>7, <1>11 DEF IterOK

LEMMA CycleNext ==
    ASSUME ListsOK, IterOK, iter.mode = "cycle", IterNext
    PROVE  IterOK'
<1> DEFINE s == Elems(iter.a)
           m == Len(s)
           i == CycleIndex(iter)
           x == s[i + 1]
           n == Len(iter.out)
<1>1. /\ s # <<>> /\ iter' = [iter EXCEPT !.out = Append(@, x), !.index = i + 1]
      /\ UNCHANGED <<lists, oom>>
    BY DEF IterNext, Step
<1>2. iter \in IterTypes /\ CycleOK
    BY DEF IterOK
<1>3. s \in Seq(Items) /\ m \in Nat \ {0}
    <2>1. s \in Seq(Items)
        BY SourceItems
    <2> HIDE DEF s
    <2> QED
        BY <1>1, <2>1
<1>4. /\ iter.out \in Seq(Yields) /\ n \in Nat /\ iter.index \in 0..m
      /\ iter.a \in Sources /\ iter.late \in BOOLEAN
    BY <1>2 DEF IterTypes, CycleOK
<1>5. i = (IF iter.index >= m THEN 0 ELSE iter.index)
    BY DEF CycleIndex
<1>6. i \in 0..(m - 1) /\ x \in Items
    <2>1. i \in 0..(m - 1)
        BY <1>3, <1>4, <1>5
    <2>2. i + 1 \in 1..m
        BY <1>3, <2>1
    <2> HIDE DEF s, i
    <2> QED
        BY <1>3, <2>1, <2>2
<1>7. /\ iter' \in IterTypes /\ iter'.mode = "cycle" /\ iter'.asked = iter.asked /\ iter'.a = iter.a
      /\ iter'.late = iter.late /\ iter'.index = i + 1 /\ iter'.out = Append(iter.out, x)
    <2> HIDE DEF x, i
    <2>1. Append(iter.out, x) \in Seq(Yields) /\ i + 1 \in Int
        BY <1>4, <1>6, Appended1 DEF Yields
    <2> QED
        BY <1>1, <1>2, <1>4, <2>1 DEF IterTypes
<1>8. /\ Len(iter'.out) = n + 1 /\ DOMAIN iter'.out = 1..(n + 1) /\ DOMAIN iter.out = 1..n
      /\ iter'.out # <<>>
      /\ iter'.out[n + 1] = x /\ \A j \in 1..n : iter'.out[j] = iter.out[j]
      /\ \A j \in 1..(n + 1) : j = n + 1 \/ j \in 1..n
    <2>1. x \in Yields /\ iter.out \in Seq(Yields) /\ iter'.out = Append(iter.out, x)
        BY <1>4, <1>6, <1>7 DEF Yields
    <2> HIDE DEF x
    <2>2. /\ Len(Append(iter.out, x)) = Len(iter.out) + 1 /\ DOMAIN Append(iter.out, x) = 1..(Len(iter.out) + 1)
          /\ DOMAIN iter.out = 1..Len(iter.out) /\ Append(iter.out, x) # <<>>
          /\ Append(iter.out, x)[Len(iter.out) + 1] = x
          /\ \A j \in 1..Len(iter.out) : Append(iter.out, x)[j] = iter.out[j]
          /\ \A j \in 1..(Len(iter.out) + 1) : j = Len(iter.out) + 1 \/ j \in 1..Len(iter.out)
        BY <2>1, Appended1
    <2> QED
        BY <2>1, <2>2
<1>9. Elems(iter.a)' = s
    BY <1>1, <1>7 DEF Elems
<1>10. ASSUME ~iter.late
       PROVE  i = n % m /\ \A j \in 1..(n + 1) : iter'.out[j] = NthOf(j, s)
    <2>1. CASE iter.out = <<>>
        <3>1. n = 0 /\ iter.index = 0 /\ 0 % m = 0
            BY <1>2, <1>3, <2>1, ModSmall DEF CycleOK
        <3>2. i = 0
            BY <1>3, <1>5, <3>1
        <3>3. NthOf(1, s) = s[1]
            BY <3>1 DEF NthOf
        <3> QED
            BY <1>8, <3>1, <3>2, <3>3
    <2>2. CASE iter.out # <<>>
        <3>1. n \in Nat \ {0} /\ n - 1 \in Nat
            <4> DEFINE o == iter.out
            <4> HIDE DEF o
            <4>1. o \in Seq(Yields) /\ o # <<>>
                BY <1>4, <2>2 DEF o
            <4>2. Len(o) \in Nat \ {0}
                BY <4>1
            <4> QED
                BY <4>2 DEF o
        <3>2. /\ iter.index = ((n - 1) % m) + 1
              /\ \A j \in 1..n : iter.out[j] = NthOf(j, s)
            BY <1>2, <1>8, <1>10, <2>2 DEF CycleOK
        <3> HIDE DEF s, m, n, i
        <3>3. /\ (n - 1) % m \in 0..(m - 1)
              /\ (n - 1 + 1) % m = IF ((n - 1) % m) + 1 = m THEN 0 ELSE ((n - 1) % m) + 1
            BY <1>3, <3>1, ModStep
        <3>4. i = n % m
            BY <1>3, <1>5, <3>1, <3>2, <3>3
        <3>5. NthOf(n + 1, s) = s[(n % m) + 1]
            BY <1>4 DEF NthOf, m
        <3>6. x = NthOf(n + 1, s)
            BY <3>4, <3>5
        <3> HIDE DEF x
        <3> QED
            BY <1>8, <3>2, <3>4, <3>6
    <2> QED
        BY <2>1, <2>2
<1> HIDE DEF s, x, n, i
<1>11. CycleOK'
    <2>1. i + 1 \in 0..m
        BY <1>3, <1>6
    <2>2. ~iter.late => iter'.index = (n % m) + 1
        BY <1>7, <1>10
    <2> HIDE DEF m
    <2>3. Elems(iter.a)' # <<>> /\ Len(Elems(iter.a)') = m
        BY <1>1, <1>9 DEF m
    <2>4. iter'.index \in 0..Len(Elems(iter.a)') /\ iter'.a \in Sources
        BY <1>4, <1>7, <2>1, <2>3
    <2>5. ~iter'.late => iter'.index = ((Len(iter'.out) - 1) % Len(Elems(iter.a)')) + 1
        <3>1. Len(iter'.out) - 1 = n
            BY <1>4, <1>8
        <3> QED
            BY <1>7, <2>2, <2>3, <3>1
    <2>6. ~iter'.late => \A j \in DOMAIN iter'.out : iter'.out[j] = NthOf(j, Elems(iter.a)')
        BY <1>7, <1>8, <1>9, <1>10
    <2> QED
        BY <1>8, <2>3, <2>4, <2>5, <2>6 DEF CycleOK
<1> QED
    BY <1>1, <1>2, <1>7, <1>11 DEF IterOK

LEMMA RepeatNext ==
    ASSUME IterOK, iter.mode = "repeat", IterNext
    PROVE  IterOK'
<1> DEFINE x == iter.a
           n == Len(iter.out)
<1>1. /\ iter.index < iter.limit /\ UNCHANGED oom
      /\ iter' = [iter EXCEPT !.out = Append(@, x), !.index = iter.index + 1]
    BY DEF IterNext, Step
<1>2. iter \in IterTypes /\ RepeatOK
    BY DEF IterOK
<1>3. /\ iter.out \in Seq(Yields) /\ n \in Nat /\ iter.index = n /\ iter.limit \in Int
      /\ x \in Items /\ x \in Yields
    BY <1>2 DEF IterTypes, RepeatOK, Yields
<1>4. /\ iter' \in IterTypes /\ iter'.mode = "repeat" /\ iter'.asked = iter.asked /\ iter'.a = x /\ iter'.limit = iter.limit
      /\ iter'.index = n + 1 /\ iter'.out = Append(iter.out, x)
    <2>0. iter' = [iter EXCEPT !.out = Append(iter.out, x), !.index = n + 1]
        BY <1>1, <1>3
    <2>1. Append(iter.out, x) \in Seq(Yields) /\ n + 1 \in Int
        BY <1>3, Appended1
    <2> HIDE DEF n
    <2> QED
        BY <1>2, <2>0, <2>1 DEF IterTypes
<1>5. /\ Len(iter'.out) = n + 1 /\ DOMAIN iter'.out = 1..(n + 1) /\ DOMAIN iter.out = 1..n
      /\ iter'.out[n + 1] = x /\ \A j \in 1..n : iter'.out[j] = iter.out[j]
      /\ \A j \in 1..(n + 1) : j = n + 1 \/ j \in 1..n
    <2>1. x \in Yields /\ iter.out \in Seq(Yields) /\ iter'.out = Append(iter.out, x)
        BY <1>3, <1>4
    <2> HIDE DEF x
    <2>2. /\ Len(Append(iter.out, x)) = Len(iter.out) + 1 /\ DOMAIN Append(iter.out, x) = 1..(Len(iter.out) + 1)
          /\ DOMAIN iter.out = 1..Len(iter.out) /\ Append(iter.out, x) # <<>>
          /\ Append(iter.out, x)[Len(iter.out) + 1] = x
          /\ \A j \in 1..Len(iter.out) : Append(iter.out, x)[j] = iter.out[j]
          /\ \A j \in 1..(Len(iter.out) + 1) : j = Len(iter.out) + 1 \/ j \in 1..Len(iter.out)
        BY <2>1, Appended1
    <2> QED
        BY <2>1, <2>2
<1>6. \A j \in 1..(n + 1) : iter'.out[j] = x
    BY <1>2, <1>5 DEF RepeatOK
<1>7. n + 1 <= iter.limit
    BY <1>1, <1>3
<1> HIDE DEF x, n
<1>8. RepeatOK'
    BY <1>3, <1>4, <1>5, <1>6, <1>7 DEF RepeatOK
<1> QED
    BY <1>1, <1>4, <1>8 DEF IterOK

LEMMA GenNext ==
    ASSUME IterOK, iter.mode = "gen", IterNext
    PROVE  IterOK'
<1> DEFINE x == iter.index
           n == Len(iter.out)
           nth(j) == iter.start + (j - 1) * iter.step
<1>1. PICK y \in {x, None, Null} :
         /\ InRange(x) /\ iter' = [iter EXCEPT !.out = Append(@, y), !.index = Wrap(x + iter.step)]
         /\ oom' = (oom \/ y # x)
    BY DEF IterNext, Step, InRange, GenIndex
<1>2. iter \in IterTypes /\ GenOK
    BY DEF IterOK
<1>3. /\ iter.out \in Seq(Yields) /\ n \in Nat /\ iter.limit \in Int /\ iter.step \in Int
      /\ x \in Int /\ y \in Yields /\ iter.start \in Long
    BY <1>1, <1>2 DEF IterTypes, Yields, Lost
<1>4. Wrap(x + iter.step) \in Int
    <2>1. x + iter.step \in Int
        BY <1>3
    <2> QED
        BY <2>1, WrapInLong DEF Long
<1>5. /\ iter' \in IterTypes /\ iter'.mode = "gen" /\ iter'.asked = iter.asked /\ iter'.limit = iter.limit /\ iter'.step = iter.step
      /\ iter'.start = iter.start /\ iter'.index = Wrap(x + iter.step) /\ iter'.out = Append(iter.out, y)
    <2>1. Append(iter.out, y) \in Seq(Yields)
        BY <1>3, Appended1
    <2> DEFINE next == Wrap(x + iter.step)
    <2>2. next \in Int /\ iter' = [iter EXCEPT !.out = Append(iter.out, y), !.index = next]
        BY <1>1, <1>4
    <2> HIDE DEF next
    <2>3. /\ iter' \in IterTypes /\ iter'.mode = "gen" /\ iter'.asked = iter.asked /\ iter'.limit = iter.limit /\ iter'.step = iter.step
          /\ iter'.start = iter.start /\ iter'.index = next /\ iter'.out = Append(iter.out, y)
        BY <1>2, <2>1, <2>2 DEF IterTypes
    <2> QED
        BY <2>3 DEF next
<1>6. /\ Len(iter'.out) = n + 1 /\ DOMAIN iter'.out = 1..(n + 1) /\ DOMAIN iter.out = 1..n
      /\ iter'.out[n + 1] = y /\ \A j \in 1..n : iter'.out[j] = iter.out[j]
      /\ \A j \in 1..(n + 1) : j = n + 1 \/ j \in 1..n
    BY <1>3, <1>5, Appended1
<1>7. \A j : NthNumber(j) = nth(j) /\ NthNumber(j)' = nth(j)
    BY <1>5 DEF NthNumber
<1>8. \A v : InRange(v)' <=> InRange(v)
    BY <1>5 DEF InRange
<1>9. Fits(nth(n + 1)) => x = nth(n + 1)
    BY <1>2, <1>7 DEF GenOK
<1> DEFINE Kept(v, w, out) == v = w \/ (out /\ v \in Lost)
<1>10. \A j \in 1..(n + 1) : Fits(nth(j)) => Kept(iter'.out[j], nth(j), oom') /\ InRange(nth(j))
    <2> SUFFICES ASSUME NEW j \in 1..(n + 1), Fits(nth(j))
                 PROVE  Kept(iter'.out[j], nth(j), oom') /\ InRange(nth(j))
        OBVIOUS
    <2>1. CASE j = n + 1
        BY <1>1, <1>6, <1>9, <2>1 DEF Lost
    <2>2. CASE j # n + 1
        <3>1. j \in 1..n
            BY <1>6, <2>2
        <3>2. Kept(iter.out[j], nth(j), oom) /\ InRange(nth(j))
            BY <1>2, <1>6, <1>7, <3>1 DEF GenOK
        <3>3. oom => oom'
            BY <1>1
        <3> QED
            BY <1>6, <3>1, <3>2, <3>3
    <2> QED
        BY <2>1, <2>2
<1>11. Fits(nth(n + 2)) => Wrap(x + iter.step) = nth(n + 2)
    <2> SUFFICES ASSUME Fits(nth(n + 2))
                 PROVE  Wrap(x + iter.step) = nth(n + 2)
        OBVIOUS
    <2>1. nth(n + 2) = iter.start + (n + 1) * iter.step /\ nth(n + 1) = iter.start + n * iter.step
        <3>1. n + 2 - 1 = n + 1 /\ n + 1 - 1 = n
            BY <1>3
        <3> QED
            BY <3>1
    <2>2. /\ Fits(iter.start + n * iter.step)
          /\ iter.start + (n + 1) * iter.step = iter.start + n * iter.step + iter.step
        BY <1>3, <2>1, FitsBetween
    <2> HIDE DEF nth
    <2>3. x = nth(n + 1) /\ nth(n + 2) = x + iter.step
        BY <1>9, <2>1, <2>2
    <2> QED
        BY <2>3 DEF Fits
<1>12. n + 1 + 1 = n + 2
    BY <1>3
<1> HIDE DEF x, n, nth
<1>13. GenOK'
    <2>1. Fits(NthNumber(Len(iter.out) + 1))' => iter'.index = NthNumber(Len(iter.out) + 1)'
        <3>1. NthNumber(Len(iter.out) + 1)' = nth(n + 2)
            BY <1>6, <1>7, <1>12
        <3> QED
            BY <1>5, <1>11, <3>1 DEF Fits
    <2>2. \A j \in DOMAIN iter'.out :
             Fits(NthNumber(j))' => Kept(iter'.out[j], NthNumber(j)', oom') /\ InRange(NthNumber(j))'
        BY <1>6, <1>7, <1>8, <1>10 DEF Fits
    <2> QED
        BY <2>1, <2>2 DEF GenOK
<1>14. iter'.mode # iter'.asked => oom'
    BY <1>1, <1>5 DEF IterOK
<1> QED
    BY <1>1, <1>2, <1>5, <1>13, <1>14 DEF IterOK

\* Two pairs of lists agree in their first n items.
Agree(s, t, s1, t1, n) == \A j \in 1..n : (s1 \o t1)[j] = (s \o t)[j]

LEMMA JoinedStays ==
    ASSUME NEW s \in Seq(Items), NEW t \in Seq(Items),
           NEW s1 \in Seq(Items), NEW t1 \in Seq(Items),
           NEW n \in Nat, n <= Len(s) + Len(t),
           s1 = s \/ (n <= Len(s) /\ Extends(s, s1)), Extends(t, t1)
    PROVE  Agree(s, t, s1, t1, n)
<1> SUFFICES ASSUME NEW j \in 1..n
             PROVE  (s1 \o t1)[j] = (s \o t)[j]
    BY DEF Agree
<1>1. Len(s) \in Nat /\ Len(t) \in Nat /\ Len(s1) \in Nat /\ Len(t1) \in Nat
    OBVIOUS
<1>2. CASE j <= Len(s)
    <2>1. j \in 1..Len(s) /\ j \in 1..Len(s1) /\ s1[j] = s[j]
        BY <1>1, <1>2 DEF Extends
    <2>2. (s1 \o t1)[j] = s1[j] /\ (s \o t)[j] = s[j]
        BY <2>1, JoinedAt
    <2> QED
        BY <2>1, <2>2
<1>3. CASE ~(j <= Len(s))
    <2>1. s1 = s
        BY <1>1, <1>3
    <2>2. PICK k \in 1..Len(t) : j = Len(s) + k
        <3>1. j - Len(s) \in 1..Len(t) /\ j = Len(s) + (j - Len(s))
            BY <1>1, <1>3
        <3> QED
            BY <3>1
    <2>3. k \in 1..Len(t1) /\ t1[k] = t[k]
        BY <1>1 DEF Extends
    <2>4. (s \o t)[Len(s) + k] = t[k] /\ (s \o t1)[Len(s) + k] = t1[k]
        BY <2>3, JoinedAt
    <2> QED
        BY <2>1, <2>2, <2>3, <2>4
<1> QED
    BY <1>2, <1>3

\* The iterator stays right while lists grow, as long as late tells when it was
\* overtaken.
LEMMA IterStays ==
    ASSUME ListsOK, ListsOK', ListsGrow, IterOK, iter' \in IterTypes,
           iter'.mode = iter.mode, iter'.asked = iter.asked, oom => oom', iter'.a = iter.a, iter'.b = iter.b, iter'.index = iter.index,
           iter'.limit = iter.limit, iter'.step = iter.step, iter'.out = iter.out, iter'.start = iter.start,
           iter.late => iter'.late,
           iter.mode = "chain" /\ ~iter'.late =>
              Elems(iter.a)' = Elems(iter.a) \/ iter.index <= Len(Elems(iter.a)),
           iter.mode = "cycle" /\ ~iter'.late /\ iter.out # <<>> => Elems(iter.a)' = Elems(iter.a)
    PROVE  IterOK'
<1> DEFINE s == Elems(iter.a)
           t == Elems(iter.b)
           s1 == Elems(iter.a)'
           t1 == Elems(iter.b)'
           n == Len(iter.out)
<1>1. s \in Seq(Items) /\ t \in Seq(Items) /\ Len(s) \in Nat /\ Len(t) \in Nat
    BY SourceItems
<1>2. \A x \in Sources : /\ lists[x].items \in Seq(Items) /\ lists'[x].items \in Seq(Items)
                         /\ Extends(lists[x].items, lists'[x].items)
    BY DEF ListsOK, List, ListsGrow
<1>3. s1 \in Seq(Items) /\ Extends(s, s1)
    <2>1. CASE iter.a \in Sources
        BY <1>2, <2>1 DEF Elems
    <2>2. CASE iter.a \notin Sources
        <3>1. s = <<>> /\ s1 = <<>>
            BY <2>2 DEF Elems
        <3>2. <<>> \in Seq(Items) /\ Extends(<<>>, <<>>)
            BY DEF Extends
        <3> QED
            BY <3>1, <3>2
    <2> QED
        BY <2>1, <2>2
<1>4. t1 \in Seq(Items) /\ Extends(t, t1)
    <2>1. CASE iter.b \in Sources
        BY <1>2, <2>1 DEF Elems
    <2>2. CASE iter.b \notin Sources
        <3>1. t = <<>> /\ t1 = <<>>
            BY <2>2 DEF Elems
        <3>2. <<>> \in Seq(Items) /\ Extends(<<>>, <<>>)
            BY DEF Extends
        <3> QED
            BY <3>1, <3>2
    <2> QED
        BY <2>1, <2>2
<1>5. Len(s1) \in Nat /\ Len(t1) \in Nat /\ Len(s) <= Len(s1) /\ Len(t) <= Len(t1)
    <2> HIDE DEF s, t, s1, t1
    <2> QED
        BY <1>3, <1>4 DEF Extends
<1>6. n \in Nat /\ DOMAIN iter.out = 1..n /\ iter.late \in BOOLEAN /\ iter'.late \in BOOLEAN
    BY Elements DEF IterOK, IterTypes
<1>7. ASSUME iter.mode = "chain" PROVE ChainOK'
    <2>1. ChainOK
        BY <1>7 DEF IterOK
    <2>2. iter.a \in Sources /\ iter.index = n /\ n <= Len(s) + Len(t)
        BY <2>1 DEF ChainOK
    <2>3. n <= Len(s1) + Len(t1)
        BY <1>1, <1>5, <1>6, <2>2
    <2>4. ~iter'.late => s1 = s \/ (n <= Len(s) /\ Extends(s, s1))
        BY <1>3, <1>7, <2>2
    <2>5. ~iter'.late => \A j \in 1..n : iter.out[j] = (s \o t)[j]
        BY <1>6, <2>1 DEF ChainOK
    <2>6. ~iter'.late => \A j \in 1..n : (s1 \o t1)[j] = (s \o t)[j]
        <3> SUFFICES ASSUME ~iter'.late
                     PROVE  \A j \in 1..n : (s1 \o t1)[j] = (s \o t)[j]
            OBVIOUS
        <3>1. /\ s \in Seq(Items) /\ t \in Seq(Items) /\ s1 \in Seq(Items) /\ t1 \in Seq(Items)
              /\ n \in Nat /\ n <= Len(s) + Len(t) /\ Extends(t, t1)
              /\ s1 = s \/ (n <= Len(s) /\ Extends(s, s1))
            BY <1>1, <1>3, <1>4, <1>6, <2>2, <2>4
        <3>2. Agree(s, t, s1, t1, n)
            <4> HIDE DEF s, t, s1, t1, n
            <4> QED
                BY <3>1, JoinedStays
        <3> QED
            BY <3>2 DEF Agree
    <2>7. ~iter'.late => \A j \in 1..n : iter.out[j] = (s1 \o t1)[j]
        <3> HIDE DEF s, t, s1, t1
        <3> QED
            BY <2>5, <2>6
    <2> QED
        BY <1>6, <2>2, <2>3, <2>7 DEF ChainOK
<1>8. ASSUME iter.mode = "cycle" PROVE CycleOK'
    <2>1. CycleOK
        BY <1>8 DEF IterOK
    <2>2. iter.index \in 0..Len(s1)
        <3>1. iter.index \in 0..Len(s)
            BY <2>1 DEF CycleOK
        <3> HIDE DEF s, s1
        <3> QED
            BY <1>1, <1>5, <3>1
    <2>3. CASE iter.out = <<>> \/ iter'.late
        BY <1>6, <2>1, <2>2, <2>3 DEF CycleOK
    <2>4. CASE iter.out # <<>> /\ ~iter'.late
        <3>1. s1 = s
            BY <1>8, <2>4
        <3>2. /\ s # <<>> /\ iter.index = ((n - 1) % Len(s)) + 1
              /\ \A j \in DOMAIN iter.out : iter.out[j] = NthOf(j, s)
            BY <2>1, <2>4 DEF CycleOK
        <3> QED
            BY <2>1, <2>2, <2>4, <3>1, <3>2 DEF CycleOK
    <2> QED
        BY <2>3, <2>4
<1>9. ASSUME iter.mode = "repeat" PROVE RepeatOK'
    BY <1>9 DEF IterOK, RepeatOK
<1>10. ASSUME iter.mode = "gen" PROVE GenOK'
    <2>1. GenOK
        BY <1>10 DEF IterOK
    <2>2. \A j : NthNumber(j)' = NthNumber(j) /\ InRange(j)' = InRange(j) /\ Fits(j)' = Fits(j)
        BY DEF NthNumber, InRange, Fits
    <2>3. Fits(NthNumber(n + 1))' => iter'.index = NthNumber(n + 1)'
        BY <2>1, <2>2 DEF GenOK, Fits
    <2>4. \A j \in DOMAIN iter.out :
             Fits(NthNumber(j))' =>
                (iter.out[j] = NthNumber(j)' \/ (oom' /\ iter.out[j] \in Lost)) /\ InRange(NthNumber(j))'
        BY <2>1, <2>2 DEF GenOK, Fits
    <2> QED
        BY <2>3, <2>4 DEF GenOK
<1> QED
    BY <1>7, <1>8, <1>9, <1>10 DEF IterOK

LEMMA SourcesStay ==
    ASSUME ListsOK, BusOK, [Next]_vars, ~(\E l \in Sources, x \in Items : AppendItem(l, x))
    PROVE  /\ \A x \in Sources : lists'[x].items = lists[x].items
           /\ ~IterSteps => UNCHANGED iter
<1>1. ASSUME NEW e \in Events, NEW h \in Handlers, On(e, h)
      PROVE  UNCHANGED iter /\ \A x \in Sources : lists'[x] = lists[x]
    <2>1. UNCHANGED iter
        BY <1>1 DEF On, Crash
    <2>2. e \notin Sources /\ \A x \in Sources : x \in DOMAIN lists
        BY RuntimeAssumption DEF ListsOK
    <2>3. CASE UNCHANGED lists \/ NoneIsNull
        BY <2>1, <2>3 DEF NoneIsNull
    <2>4. CASE OnAppends(e, h)
        <3>1. \E l : lists' = [lists EXCEPT ![e] = l]
            BY <2>4 DEF OnAppends
        <3> QED
            BY <2>1, <2>2, <3>1
    <2>5. CASE OnEnters(e, h)
        <3>1. lists' = lists \/ \E l : lists' = Entered(e, l)
            BY <2>5 DEF OnEnters
        <3> QED
            BY <2>1, <2>2, <3>1 DEF Entered
    <2> QED
        BY <1>1, <2>3, <2>4, <2>5, OnCases
<1>2. ASSUME NEW e \in Events, Emit(e)
      PROVE  UNCHANGED <<iter, lists>>
    BY <1>2 DEF Emit, Crash
<1>3. ASSUME NEW arg \in Args, CallMemoized(arg)
      PROVE  UNCHANGED <<iter, lists>>
    BY <1>3 DEF CallMemoized, Crash
<1>4. EmitNext \/ BodyReturns => UNCHANGED <<iter, lists>>
    BY DEF EmitNext, BodyReturns, Crash
<1>5. EmitReturns \/ HandlerReturns \/ CallDecorated \/ WrapperReturns \/ UNCHANGED vars => UNCHANGED <<iter, lists>>
    BY DEF EmitReturns, HandlerReturns, CallDecorated, WrapperReturns, vars
<1> QED
    BY <1>1, <1>2, <1>3, <1>4, <1>5, StepCases, IterStepsFrame

LEMMA IterNextStep ==
    ASSUME ListsOK, IterOK, IterNext
    PROVE  IterOK'
<1>1. iter.mode \in {"chain", "cycle", "repeat", "gen"}
    BY DEF IterNext
<1> QED
    BY <1>1, ChainNext, CycleNext, RepeatNext, GenNext

LEMMA AppendItemIter ==
    ASSUME ListsOK, ListsOK', ListsGrow, IterOK, oom => oom', NEW l \in Sources, NEW x \in Items, AppendItem(l, x)
    PROVE  IterOK'
<1> DEFINE late1 == \/ iter.late
                    \/ iter.mode = "chain" /\ iter.a = l /\ iter.index > Len(Elems(l))
                    \/ iter.mode = "cycle" /\ iter.out # <<>>
<1>1. iter' = [iter EXCEPT !.late = late1]
    BY DEF AppendItem
<1>2. iter \in IterTypes /\ late1 \in BOOLEAN
    BY DEF IterOK, IterTypes
<1>3. /\ iter' \in IterTypes /\ iter'.late = late1
      /\ iter'.mode = iter.mode /\ iter'.asked = iter.asked /\ iter'.a = iter.a /\ iter'.b = iter.b /\ iter'.index = iter.index
      /\ iter'.limit = iter.limit /\ iter'.step = iter.step /\ iter'.out = iter.out /\ iter'.start = iter.start
    <2> HIDE DEF late1
    <2> QED
        BY <1>1, <1>2 DEF IterTypes
<1>4. \A y \in Sources : y # l => lists'[y] = lists[y]
    <2>1. \E l1 : lists' = [lists EXCEPT ![l] = l1]
        BY DEF AppendItem
    <2> QED
        BY <2>1 DEF ListsOK
<1>5. iter.a # l => Elems(iter.a)' = Elems(iter.a)
    BY <1>3, <1>4 DEF Elems
<1>6. Len(Elems(l)) \in Nat /\ iter.index \in Int
    BY <1>2, SourceItems DEF IterTypes
<1>7. iter.mode = "chain" /\ ~late1 =>
         Elems(iter.a)' = Elems(iter.a) \/ iter.index <= Len(Elems(iter.a))
    BY <1>5, <1>6
<1> QED
    BY <1>3, <1>7, IterStays

LEMMA IterStep ==
    ASSUME ListsOK, BusOK, ListsOK', ListsGrow, IterOK, oom => oom', [Next]_vars
    PROVE  IterOK'
<1>1. CASE \E l \in Sources, x \in Items : AppendItem(l, x)
    BY <1>1, AppendItemIter
<1>2. CASE IterSteps
    BY <1>2, StartsOK, IterNextStep
<1>3. CASE ~IterSteps /\ ~(\E l \in Sources, x \in Items : AppendItem(l, x))
    <2>1. UNCHANGED iter /\ \A x \in Sources : lists'[x].items = lists[x].items
        BY <1>3, SourcesStay
    <2>2. Elems(iter.a)' = Elems(iter.a)
        BY <2>1 DEF Elems
    <2>3. iter' \in IterTypes
        BY <2>1 DEF IterOK
    <2> QED
        BY <2>1, <2>2, <2>3, IterStays
<1> QED
    BY <1>1, <1>2, <1>3

----------------------------------------------------------------------------
(* The inductive invariant                                                 *)

\* A step that does not concern the memoised function.
LEMMA OthersKeepCache ==
    ASSUME CacheOK, RunsOK, UNCHANGED <<cache, answers, runs, overlaps>>, oom => oom',
           \A k : Active(stack, k) => Active(stack', k)
    PROVE  CacheOK' /\ RunsOK'
<1>1. CacheOK'
    BY DEF CacheOK, MemoAnswers
<1>2. ComputedOnce'
    BY DEF RunsOK, ComputedOnce
<1>3. ASSUME NEW k \in Keys, runs'[k] > 0
      PROVE  Excused(k)' \/ Active(stack', k) \/ Stored(k)'
    <2>1. Excused(k) \/ Active(stack, k) \/ Stored(k)
        BY <1>3 DEF RunsOK
    <2>2. (Excused(k) => Excused(k)') /\ (Stored(k) => Stored(k)')
        BY DEF Excused, Stored
    <2> QED
        BY <2>1, <2>2
<1>4. RunsOK'
    BY <1>2, <1>3 DEF RunsOK
<1> QED
    BY <1>1, <1>4

Quiet == UNCHANGED <<lists, cache, answers, runs, overlaps>>

LEMMA ReturnKeepsRuns ==
    ASSUME StackOK, NEW kind \in {"emit", "handler", "wrapper"}, Running(kind), Return
    PROVE  StackStep
BY ReturnStep DEF StackStep

LEMMA CallsAndReturns ==
    ASSUME StackOK, ListsOK, BusOK,
           \/ \E e \in Events : Emit(e)
           \/ EmitNext \/ EmitReturns \/ HandlerReturns \/ CallDecorated \/ WrapperReturns
           \/ IterSteps \/ UNCHANGED vars
    PROVE  Quiet /\ StackStep
<1>0. UNCHANGED stack => StackStep
    BY DEF StackStep, StackOK
<1>1. ASSUME NEW e \in Events, Emit(e)
      PROVE  Quiet /\ StackStep
    <2>1. Quiet
        BY <1>1 DEF Emit, Crash, history, Quiet
    <2> QED
        BY <1>0, <1>1, <2>1, EmitStep DEF NoneIsNull
<1>2. CASE EmitNext
    <2>1. Quiet
        BY <1>2 DEF EmitNext, Crash, history, Quiet
    <2> QED
        BY <1>0, <1>2, <2>1, EmitNextStep
<1>3. CASE EmitReturns \/ HandlerReturns \/ WrapperReturns
    <2>1. Quiet
        BY <1>3 DEF EmitReturns, HandlerReturns, WrapperReturns, history, Quiet
    <2>2. \E kind \in {"emit", "handler", "wrapper"} : Running(kind) /\ Return
        BY <1>3 DEF EmitReturns, HandlerReturns, WrapperReturns
    <2> QED
        BY <2>1, <2>2, ReturnKeepsRuns
<1>4. CASE CallDecorated
    <2> DEFINE frame == [kind |-> "wrapper"]
    <2>1. Quiet /\ Push(frame)
        BY <1>4 DEF CallDecorated, history, Quiet
    <2>2. frame \in Frame /\ frame.kind = "wrapper"
        BY DEF Frame
    <2> HIDE DEF frame
    <2> QED
        BY <2>1, <2>2, PushStep
<1>5. CASE IterSteps
    BY <1>0, <1>5, IterStepsFrame DEF Quiet
<1>6. CASE UNCHANGED vars
    BY <1>0, <1>6 DEF vars, Quiet
<1> QED
    BY <1>1, <1>2, <1>3, <1>4, <1>5, <1>6

LEMMA OnFrame ==
    ASSUME \/ \E e \in Events, h \in Handlers : On(e, h)
           \/ \E l \in Sources, x \in Items : AppendItem(l, x)
    PROVE  UNCHANGED <<cache, answers, runs, overlaps, stack>>
BY DEF On, AppendItem, Crash, history

LEMMA CacheStep ==
    ASSUME ListsOK, BusOK, CacheOK, RunsOK, StackOK, [Next]_vars,
           ListsOK', ListsGrow, oom => oom'
    PROVE  CacheOK' /\ RunsOK' /\ StackOK'
<1>1. CASE \/ \E e \in Events, h \in Handlers : On(e, h)
           \/ \E l \in Sources, x \in Items : AppendItem(l, x)
    BY <1>1, OnFrame, StackGrown, OthersKeepCache
<1>2. CASE \/ \E e \in Events : Emit(e)
           \/ EmitNext \/ EmitReturns \/ HandlerReturns \/ CallDecorated \/ WrapperReturns
           \/ IterSteps \/ UNCHANGED vars
    <2>1. Quiet /\ StackStep
        BY <1>2, CallsAndReturns
    <2>2. CacheOK' /\ RunsOK'
        BY <2>1, OthersKeepCache DEF Quiet, StackStep
    <2>3. StackOK'
        BY <2>1 DEF Quiet, StackStep, StackOK
    <2> QED
        BY <2>2, <2>3
<1>3. ASSUME NEW arg \in Args, CallMemoized(arg)
      PROVE  CacheOK' /\ RunsOK' /\ StackOK'
    <2>1. UNCHANGED lists
        BY <1>3 DEF CallMemoized, Crash
    <2> QED
        BY <1>3, <2>1, CallMemoizedStep DEF StackStep, StackOK
<1>4. CASE BodyReturns
    <2>1. UNCHANGED lists
        BY <1>4, BodyReturnsFrame
    <2> QED
        BY <1>4, <2>1, BodyReturnsStep DEF StackOK
<1> QED
    BY <1>1, <1>2, <1>3, <1>4, StepCases

LEMMA NullMeansFailure ==
    ASSUME NothingLost, ListsOK, BusOK
    PROVE  /\ \A e \in Events : (\E n \in Nodes(bus, e) : n.key = Null \/ n.value = Null) => oom
           /\ \A l \in DOMAIN lists \cap Events : \A i \in 1..Len(lists[l].items) : lists[l].items[i] = Null => oom
<1>1. \A e \in Events : (\E n \in Nodes(bus, e) : n.key = Null \/ n.value = Null) => oom
    BY DEF NothingLost
<1>2. ASSUME NEW l \in DOMAIN lists \cap Events, NEW i \in 1..Len(lists[l].items),
             lists[l].items[i] = Null, ~oom
      PROVE  FALSE
    <2>1. registered[l] = lists[l].items /\ registered[l] \in Seq(Handlers)
        BY <1>2 DEF NothingLost
    <2>2. Null \in Handlers
        BY <1>2, <2>1, Elements
    <2> QED
        BY <2>2, RuntimeAssumption
<1> QED
    BY <1>1, <1>2

LEMMA CrashStep ==
    ASSUME ListsOK, BusOK, NothingLost, CacheOK, RunsOK, StackOK, CrashNeedsNull, [Next]_vars, oom => oom'
    PROVE  CrashNeedsNull'
<1> DEFINE Reason == oom' \/ \E ans \in answers : ans[2] = Null
<1>0. crashed => Reason
    BY DEF CrashNeedsNull
<1>1. ASSUME NEW e \in Events, NEW h \in Handlers, On(e, h)
      PROVE  (crashed' => Reason) /\ answers \subseteq answers'
    <2>1. UNCHANGED answers
        BY <1>1, OnFrame
    <2> QED
        BY <1>0, <1>1, <2>1, OnCases, NullMeansFailure DEF NoneIsNull
<1>2. ASSUME NEW e \in Events, Emit(e)
      PROVE  (crashed' => Reason) /\ answers \subseteq answers'
    <2>1. UNCHANGED answers
        BY <1>2 DEF Emit, Crash, history
    <2> QED
        BY <1>0, <1>2, <2>1, EmitStep, NullMeansFailure DEF NoneIsNull
<1>3. ASSUME EmitNext
      PROVE  (crashed' => Reason) /\ answers \subseteq answers'
    <2>1. UNCHANGED answers
        BY <1>3 DEF EmitNext, Crash, history
    <2>2. Running("emit") /\ Top.i < Len(lists[Top.list].items)
        BY <1>3 DEF EmitNext, Size
    <2>3. Top.list \in DOMAIN lists \cap Events /\ Top.i + 1 \in 1..Len(lists[Top.list].items)
        <3>1. /\ Top \in EmitFrame /\ FrameFits(Top, lists) /\ Top.i \in Nat /\ Top.list \in Events
              /\ lists[Top.list].items \in Seq(Funcs)
            BY <2>2, TopFrame
        <3>2. Len(lists[Top.list].items) \in Nat
            BY <3>1
        <3> QED
            BY <2>2, <3>1, <3>2 DEF FrameFits
    <2>4. lists[Top.list].items[Top.i + 1] = Null => oom
        BY <2>3, NullMeansFailure
    <2>5. crashed' => crashed \/ lists[Top.list].items[Top.i + 1] = Null
        BY <1>3 DEF EmitNext
    <2> QED
        BY <1>0, <2>1, <2>4, <2>5
<1>4. ASSUME NEW arg \in Args, CallMemoized(arg)
      PROVE  (crashed' => Reason) /\ answers \subseteq answers'
    BY <1>0, <1>4, CallMemoizedStep
<1>5. ASSUME BodyReturns
      PROVE  (crashed' => Reason) /\ answers \subseteq answers'
    BY <1>0, <1>5, BodyReturnsStep
<1>6. ASSUME \/ \E l \in Sources, x \in Items : AppendItem(l, x)
             \/ EmitReturns \/ HandlerReturns \/ CallDecorated \/ WrapperReturns
             \/ IterSteps \/ UNCHANGED vars
      PROVE  (crashed' => Reason) /\ answers \subseteq answers'
    <2>1. UNCHANGED <<crashed, answers>>
        BY <1>6, IterStepsFrame DEF AppendItem, EmitReturns, HandlerReturns, CallDecorated, WrapperReturns, vars, history
    <2> QED
        BY <1>0, <2>1
<1>7. (crashed' => Reason) /\ answers \subseteq answers'
    BY <1>1, <1>2, <1>3, <1>4, <1>5, <1>6, StepCases
<1> QED
    BY <1>7 DEF CrashNeedsNull

LEMMA ShapeStep ==
    ASSUME ShapeOK, BusOK, [Next]_vars
    PROVE  ShapeOK'
<1> DEFINE Counted == ops' \in 0..MaxOps
           Flags == crashed' \in BOOLEAN /\ oom' \in BOOLEAN
<1>0. ops \in 0..MaxOps /\ crashed \in BOOLEAN /\ oom \in BOOLEAN /\ MaxOps \in Nat
    BY RuntimeAssumption DEF ShapeOK
<1>1. (Call => Counted) /\ (UNCHANGED ops => Counted)
    BY <1>0 DEF Call
<1>2. UNCHANGED <<crashed, oom>> \/ (crashed' = TRUE /\ (oom' = TRUE \/ UNCHANGED oom)) => Flags
    BY <1>0
<1> HIDE DEF Counted, Flags
<1>3. ASSUME NEW e \in Events, NEW h \in Handlers, On(e, h)
      PROVE  Counted /\ Flags
    <2>1. Counted
        BY <1>1, <1>3 DEF On
    <2>2. OnFinds(e, h, Lookup(bus, e)) => UNCHANGED crashed /\ oom' \in BOOLEAN
        BY <1>0 DEF OnFinds
    <2> QED
        BY <1>0, <1>2, <1>3, <2>1, <2>2, OnSteps, CrashOnNode DEF Flags, NoneIsNull
<1>4. ASSUME NEW l \in Sources, NEW x \in Items, AppendItem(l, x)
      PROVE  Counted /\ Flags
    <2>1. Counted
        BY <1>1, <1>4 DEF AppendItem
    <2>2. UNCHANGED crashed /\ oom' \in BOOLEAN
        BY <1>0, <1>4 DEF AppendItem
    <2> QED
        BY <1>0, <2>1, <2>2 DEF Flags
<1>5. ASSUME NEW e \in Events, Emit(e)
      PROVE  Counted /\ Flags
    BY <1>1, <1>2, <1>5 DEF Emit, Crash
<1>6. ASSUME NEW arg \in Args, CallMemoized(arg)
      PROVE  Counted /\ Flags
    BY <1>1, <1>2, <1>6 DEF CallMemoized, Crash
<1>7. ASSUME EmitNext
      PROVE  Counted /\ Flags
    BY <1>1, <1>2, <1>7 DEF EmitNext, Crash
<1>8. ASSUME BodyReturns
      PROVE  Counted /\ Flags
    <2>1. Counted
        BY <1>1, <1>8 DEF BodyReturns
    <2>2. \/ UNCHANGED oom /\ crashed' = TRUE
          \/ UNCHANGED crashed /\ oom' \in BOOLEAN
        BY <1>0, <1>8 DEF BodyReturns, Crash
    <2> QED
        BY <1>0, <1>2, <2>1, <2>2 DEF Flags
<1>9. ASSUME EmitReturns \/ HandlerReturns \/ CallDecorated \/ WrapperReturns \/ UNCHANGED vars
      PROVE  Counted /\ Flags
    BY <1>1, <1>2, <1>9 DEF EmitReturns, HandlerReturns, CallDecorated, WrapperReturns, vars
<1>10. ASSUME IterSteps
      PROVE  Counted /\ Flags
    <2>1. Call \/ UNCHANGED ops
        BY <1>10 DEF IterSteps, Cycle, Chain, Repeat, RangeGen, Start, IterNext
    <2>2. UNCHANGED crashed
        BY <1>10, IterStepsFrame
    <2>3. oom' \in BOOLEAN
        BY <1>0, <1>10 DEF IterSteps, Cycle, Chain, Repeat, RangeGen, Start, IterNext
    <2> QED
        BY <1>0, <1>1, <2>1, <2>2, <2>3 DEF Flags
<1>11. Counted /\ Flags
    BY <1>3, <1>4, <1>5, <1>6, <1>7, <1>8, <1>9, <1>10, StepCases
<1> QED
    BY <1>11 DEF ShapeOK, Counted, Flags

LEMMA InitInv == Init => IInv
<1> SUFFICES ASSUME Init PROVE IInv
    OBVIOUS
<1>1. ShapeOK
    <2>1. MaxOps \in Nat
        BY RuntimeAssumption
    <2>2. ops \in 0..MaxOps
        BY <2>1 DEF Init
    <2>3. crashed \in BOOLEAN /\ oom \in BOOLEAN
        BY Zenon DEF Init
    <2> QED
        BY <2>2, <2>3 DEF ShapeOK
<1>2. ListsOK
    BY RuntimeAssumption DEF Init, ListsOK, List, NewList
<1>3. \A k \in Keys : Nodes(NewDict, k) = {} /\ Hash[k] \in Range(Hash)
    <2> SUFFICES ASSUME NEW k \in Keys
                 PROVE  Nodes(NewDict, k) = {} /\ Hash[k] \in Range(Hash)
        OBVIOUS
    <2>1. Hash[k] \in Range(Hash)
        BY RuntimeAssumption DEF Range
    <2>2. NewDict[Hash[k]] = <<>>
        BY <2>1 DEF NewDict
    <2> QED
        BY <2>1, <2>2 DEF Nodes
<1>4. \A V : NewDict \in Chains(V)
    BY DEF NewDict, Chains
<1>5. \A e \in Events : e \in Keys /\ e \notin DOMAIN lists
    BY RuntimeAssumption DEF Init
<1>6. BusOK
    BY <1>3, <1>4, <1>5 DEF Init, BusOK
<1>7. NothingLost
    BY <1>3, <1>5 DEF Init, NothingLost
<1>8. CacheOK
    BY <1>3, <1>4 DEF Init, CacheOK, MemoAnswers
<1>9. StackOK
    BY DEF Init, StackOK, StackFits
<1>10. RunsOK
    <2>1. runs \in [Keys -> Nat] /\ \A k \in Keys : runs[k] = 0
        BY DEF Init
    <2> QED
        BY <2>1 DEF RunsOK, ComputedOnce
<1>11. IterOK
    <2>1. NoIter \in IterTypes /\ NoIter.mode = "none" /\ NoIter.asked = "none"
        BY RuntimeAssumption DEF NoIter, IterTypes, IterModes, Long
    <2> QED
        BY <2>1 DEF Init, IterOK
<1>12. CrashNeedsNull
    BY DEF Init, CrashNeedsNull
<1> QED
    BY <1>1, <1>2, <1>6, <1>7, <1>8, <1>9, <1>10, <1>11, <1>12 DEF IInv

LEMMA StepInv == IInv /\ [Next]_vars => IInv'
<1> SUFFICES ASSUME IInv, [Next]_vars PROVE IInv'
    OBVIOUS
<1>0. ShapeOK /\ ListsOK /\ BusOK /\ NothingLost /\ CacheOK /\ StackOK /\ RunsOK /\ IterOK /\ CrashNeedsNull
    BY DEF IInv
<1>1. ShapeOK'
    BY <1>0, ShapeStep
<1>2. ListsOK' /\ BusOK' /\ NothingLost' /\ ListsGrow /\ (oom => oom')
    BY <1>0, BusStep
<1>3. CacheOK' /\ RunsOK' /\ StackOK'
    BY <1>0, <1>2, CacheStep
<1>4. IterOK'
    BY <1>0, <1>2, IterStep
<1>5. CrashNeedsNull'
    BY <1>0, <1>2, CrashStep
<1> QED
    BY <1>1, <1>2, <1>3, <1>4, <1>5 DEF IInv

LEMMA Invariance == Spec => []IInv
BY InitInv, StepInv, PTL DEF Spec

----------------------------------------------------------------------------
(* What follows from it                                                    *)

\* on() and emit(): the list found under an event's name holds exactly the
\* handlers registered for it, in order, unless memory was out; and a list
\* never holds more than its capacity.
THEOREM ConsistentAlways == Spec => []Consistent
<1>1. IInv => Consistent
    <2> SUFFICES ASSUME IInv PROVE TypeOK /\ BusIsExact
        BY DEF Consistent
    <2>0. ShapeOK /\ ListsOK /\ BusOK /\ NothingLost /\ StackOK /\ IterOK
        BY DEF IInv
    <2>1. \A j \in DOMAIN stack : stack[j].kind \in {"emit", "handler", "body", "wrapper"}
        <3> SUFFICES ASSUME NEW j \in DOMAIN stack
                     PROVE  stack[j].kind \in {"emit", "handler", "body", "wrapper"}
            OBVIOUS
        <3>1. stack[j] \in Frame
            BY <2>0, Elements DEF StackOK, StackFits
        <3> QED
            BY <3>1 DEF Frame, EmitFrame
    <2>2. iter.mode = "chain" => iter.index <= Len(Elems(iter.a)) + Len(Elems(iter.b))
        BY <2>0 DEF IterOK, ChainOK
    <2>3. \A l \in DOMAIN lists : Len(lists[l].items) <= lists[l].cap
        BY <2>0 DEF ListsOK
    <2>4. TypeOK
        BY <2>0, <2>1, <2>2, <2>3 DEF TypeOK, ShapeOK
    <2>5. ASSUME ~oom, NEW e \in Events
          PROVE  registered[e] = IF Lookup(bus, e) = None THEN <<>> ELSE lists[Lookup(bus, e)].items
        <3>1. /\ \A n \in Nodes(bus, e) : n.key # Null /\ n.value # Null
              /\ registered[e] = IF e \in DOMAIN lists THEN lists[e].items ELSE <<>>
            BY <2>0, <2>5 DEF NothingLost
        <3>2. e # None
            BY RuntimeAssumption
        <3> QED
            BY <2>0, <3>1, <3>2, BusLookup
    <2>6. BusIsExact
        BY <2>5 DEF BusIsExact
    <2> QED
        BY <2>4, <2>6
<1> QED
    BY <1>1, Invariance, PTL

\* NULL is dereferenced by the callers of dget only after an allocation failed
\* or the memoised function itself has answered NULL.
THEOREM CrashesHaveAReason == Spec => []CrashNeedsNull
<1>1. IInv => CrashNeedsNull
    BY DEF IInv
<1> QED
    BY <1>1, Invariance, PTL

\* call_memoized runs the function once for a key, but for the excuses that
\* ComputedOnce names, and answers nothing but its value.
THEOREM MemoIsExactAlways == Spec => []MemoIsExact
<1>1. IInv => MemoIsExact
    BY DEF IInv, RunsOK, CacheOK, MemoIsExact
<1> QED
    BY <1>1, Invariance, PTL

\* iter_next and next yield what their source promises; where memory was out a
\* number of a range may be missing, but it never shifts the others.
THEOREM IteratorsAreExactAlways == Spec => []IteratorsAreExact
<1>1. IInv => IteratorsAreExact
    <2> SUFFICES ASSUME IInv PROVE IteratorsAreExact
        OBVIOUS
    <2>0. ListsOK /\ IterOK /\ iter.out \in Seq(Yields) /\ iter.mode \in IterModes /\ (iter.mode # iter.asked => oom)
        BY DEF IInv, IterOK, IterTypes
    <2>1. ASSUME iter.mode = "chain", ~iter.late
          PROVE  IsPrefix(iter.out, Elems(iter.a) \o Elems(iter.b))
        <3> DEFINE out == iter.out
                   u == Elems(iter.a) \o Elems(iter.b)
        <3>1. ChainOK
            BY <2>0, <2>1 DEF IterOK
        <3>2. u \in Seq(Items) /\ Len(u) = Len(Elems(iter.a)) + Len(Elems(iter.b)) /\ Len(u) \in Nat
            <4>1. Elems(iter.a) \in Seq(Items) /\ Elems(iter.b) \in Seq(Items)
                BY <2>0, SourceItems
            <4> QED
                BY <4>1, JoinedAt
        <3>3. out \in Seq(Yields) /\ Len(out) <= Len(u) /\ \A j \in 1..Len(out) : out[j] = u[j]
            BY <2>0, <2>1, <3>1, <3>2 DEF ChainOK
        <3> HIDE DEF out, u
        <3>4. SubSeq(out, 1, Len(out)) = SubSeq(u, 1, Len(out))
            BY <3>2, <3>3
        <3>5. IsPrefix(out, u)
            BY <3>3, <3>4 DEF IsPrefix
        <3> QED
            BY <3>5 DEF out, u
    <2>2. ASSUME iter.mode = "cycle", ~iter.late
          PROVE  \A i \in DOMAIN iter.out : iter.out[i] = Elems(iter.a)[((i - 1) % Len(Elems(iter.a))) + 1]
        <3>1. CycleOK
            BY <2>0, <2>2 DEF IterOK
        <3>2. CASE iter.out = <<>>
            BY <3>2
        <3>3. CASE iter.out # <<>>
            BY <2>2, <3>1, <3>3 DEF CycleOK, NthOf
        <3> QED
            BY <3>2, <3>3
    <2>3. ASSUME iter.mode = "repeat"
          PROVE  Len(iter.out) <= iter.limit /\ \A i \in DOMAIN iter.out : iter.out[i] = iter.a
        BY <2>0, <2>3 DEF IterOK, RepeatOK
    <2>4. ASSUME iter.mode = "gen"
          PROVE  \A i \in DOMAIN iter.out :
                    LET v == iter.start + (i - 1) * iter.step
                    IN Wrap(v) = v => /\ iter.out[i] = v \/ (oom /\ iter.out[i] \in {None, Null})
                                      /\ IF iter.step > 0 THEN v < iter.limit ELSE v > iter.limit
        BY <2>0, <2>4 DEF IterOK, GenOK, Fits, NthNumber, InRange, Lost
    <2> QED
        BY <2>0, <2>1, <2>2, <2>3, <2>4 DEF IteratorsAreExact, IterModes
<1> QED
    BY <1>1, Invariance, PTL

\* emit() returns only when it has called every function the list holds by
\* then, once and in order.
THEOREM EmitRunsAllAlways == Spec => EmitRunsAll
<1>1. IInv /\ EmitReturns => CalledInOrder(Top.seen, lists[Top.list].items)
    <2> SUFFICES ASSUME IInv, EmitReturns PROVE CalledInOrder(Top.seen, lists[Top.list].items)
        OBVIOUS
    <2>1. Running("emit") /\ Top.i >= Len(lists[Top.list].items)
        BY DEF EmitReturns, Size
    <2>2. FrameFits(Top, lists) /\ Top.i \in Nat /\ lists[Top.list].items \in Seq(Funcs)
        BY <2>1, TopFrame DEF IInv
    <2>3. Top.i = Len(lists[Top.list].items) /\ DOMAIN lists[Top.list].items = 1..Top.i
        <3>1. Len(lists[Top.list].items) \in Nat /\ DOMAIN lists[Top.list].items = 1..Len(lists[Top.list].items)
            BY <2>2, Elements
        <3> QED
            BY <2>1, <2>2, <3>1 DEF FrameFits
    <2> QED
        BY <2>2, <2>3 DEF FrameFits, CalledUpTo, CalledInOrder
<1>2. IInv /\ [Next]_vars => [EmitReturns => CalledInOrder(Top.seen, lists[Top.list].items)]_vars
    BY <1>1
<1> QED
    BY <1>2, Invariance, PTL DEF Spec, EmitRunsAll

-----------------------------------------------------------------------------
(***************************************************************************)
(* The regular expressions are right for every pattern and text.  The two  *)
(* matchers and the language go through the pattern from its end, findall  *)
(* and sub through the text from its end, so every fact is proved from     *)
(* what it says further on (Downwards), and a recursion that only looks    *)
(* further on has a solution (Recursion).  Good(re, t, p, i, j) is what a  *)
(* match of re from p on at i..j - 1 has to be; GoodStep gives it the form *)
(* of matchhere, LongestStep the longest one the form of re_matchhere_len. *)
(***************************************************************************)

\* Induction from the end of a pattern or a text.
LEMMA Downwards ==
    ASSUME NEW N \in Nat, NEW S, \A i \in 1..N : (\A k \in i + 1..N : k \in S) => i \in S
    PROVE  \A i \in 1..N : i \in S
<1> DEFINE Bad == {N - i : i \in {k \in 1..N : k \notin S}}
<1>1. SUFFICES ASSUME Bad # {} PROVE FALSE
    OBVIOUS
<1>2. Bad \in SUBSET Nat
    OBVIOUS
<1>3. PICK b \in Bad : \A y \in Bad : b <= y
    <2> HIDE DEF Bad
    <2> QED
        BY <1>1, <1>2, LeastNat
<1>4. PICK i \in 1..N : i \notin S /\ b = N - i
    BY <1>3
<1>5. ASSUME NEW k \in i + 1..N PROVE k \in S
    <2>1. SUFFICES ASSUME k \notin S PROVE FALSE
        OBVIOUS
    <2>2. k \in 1..N /\ N - k \in Bad
        BY <2>1
    <2>3. N - i <= N - k
        BY <1>3, <1>4, <2>2
    <2> QED
        BY <2>2, <2>3
<1> QED
    BY <1>4, <1>5

\* A recursion in which every position has one successor further on has a
\* solution, whatever set of values it goes through.
Onwards(N, next) == next \in [1..N -> Nat] /\ \A i \in 1..N : i < next[i] /\ next[i] <= N + 1
Recurs(N, V, base, next, put, f) ==
    f \in [1..N + 1 -> V] /\ f[N + 1] = base /\ \A i \in 1..N : f[i] = put[i][f[next[i]]]
LEMMA Recursion ==
    ASSUME NEW N \in Nat, NEW V, NEW base \in V, NEW next, Onwards(N, next), NEW put \in [1..N -> [V -> V]]
    PROVE  \E f : Recurs(N, V, base, next, put, f)
<1> USE DEF Onwards
<1> DEFINE Solves(k, h) == h[N + 1] = base /\ \A i \in k..N : h[i] = put[i][h[next[i]]]
           S == {k \in 1..N + 1 : \E f \in [k..N + 1 -> V] : Solves(k, f)}
<1>1. ASSUME NEW k \in 1..N + 1, \A l \in k + 1..N + 1 : l \in S PROVE k \in S
    <2>1. CASE k = N + 1
        <3> DEFINE f == [i \in k..N + 1 |-> base]
        <3>1. f \in [k..N + 1 -> V] /\ f[N + 1] = base
            BY <2>1
        <3>2. \A i \in k..N : FALSE
            BY <2>1
        <3> HIDE DEF f
        <3> QED
            BY <3>1, <3>2
    <2>2. CASE k # N + 1
        <3>1. k \in 1..N /\ k + 1 \in k + 1..N + 1
            BY <2>2
        <3>2. PICK f \in [k + 1..N + 1 -> V] : Solves(k + 1, f)
            <4>1. k + 1 \in S
                <5> HIDE DEF S
                <5> QED
                    BY <1>1, <3>1
            <4> HIDE DEF Solves
            <4> QED
                BY <4>1
        <3>3. next[k] \in k + 1..N + 1
            BY <3>1
        <3>4. put[k] \in [V -> V] /\ f[next[k]] \in V
            BY <3>1, <3>3
        <3>5. put[k][f[next[k]]] \in V
            BY <3>4
        <3> DEFINE g == [i \in k..N + 1 |-> IF i = k THEN put[k][f[next[k]]] ELSE f[i]]
        <3>6. g \in [k..N + 1 -> V]
            <4>1. \A i \in k..N + 1 : i # k => i \in k + 1..N + 1
                OBVIOUS
            <4> QED
                BY <3>5, <4>1
        <3>7. \A i \in k + 1..N + 1 : g[i] = f[i]
            OBVIOUS
        <3>8. g[k] = put[k][f[next[k]]]
            OBVIOUS
        <3> HIDE DEF g
        <3>9. g[N + 1] = base
            <4>1. N + 1 \in k + 1..N + 1
                BY <3>1
            <4> QED
                BY <3>2, <3>7, <4>1
        <3>10. ASSUME NEW i \in k..N PROVE g[i] = put[i][g[next[i]]]
            <4>1. CASE i = k
                BY <3>3, <3>7, <3>8, <4>1
            <4>2. CASE i # k
                <5>1. i \in k + 1..N /\ i \in k + 1..N + 1 /\ i \in 1..N
                    BY <3>1, <4>2
                <5>2. next[i] \in k + 1..N + 1
                    BY <5>1
                <5> QED
                    BY <3>2, <3>7, <5>1, <5>2
            <4> QED
                BY <4>1, <4>2
        <3> QED
            BY <3>6, <3>9, <3>10
    <2> QED
        BY <2>1, <2>2
<1>2. 1 \in S
    <2>1. N + 1 \in Nat /\ 1 \in 1..N + 1
        OBVIOUS
    <2>2. \A k \in 1..N + 1 : (\A l \in k + 1..N + 1 : l \in S) => k \in S
        BY <1>1
    <2> HIDE DEF S
    <2>3. \A k \in 1..N + 1 : k \in S
        BY <2>1, <2>2, Downwards
    <2> QED
        BY <2>1, <2>3
<1> QED
    BY <1>2 DEF Recurs

\* The recursion of Language: what each position of the pattern adds.
Starts(h, re, p, chars, max) ==
    IF p > Len(re) \/ AtEnd(re, p) THEN {<<>>}
    ELSE IF Starred(re, p) THEN BoundedSeq(chars, max) \cap Concat(BoundedSeq(OneOf(re[p], chars), max), h[p + 2])
    ELSE BoundedSeq(chars, max) \cap Concat({<<c>> : c \in OneOf(re[p], chars)}, h[p + 1])

LEMMA EmptyText == ASSUME NEW R, NEW max \in Nat PROVE <<>> \in BoundedSeq(R, max)
<1>1. <<>> \in [1..0 -> R] /\ 0 \in 0..max
    OBVIOUS
<1> QED
    BY <1>1 DEF BoundedSeq, SeqOf

LEMMA LanguageFacts ==
    ASSUME NEW C, NEW re \in Seq(C), NEW R, NEW max \in Nat, NEW p \in 1..Len(re) + 1
    PROVE  /\ Language(re, R, max)[p] = Starts(Language(re, R, max), re, p, R, max)
           /\ Language(re, R, max)[p] \subseteq BoundedSeq(R, max)
<1> DEFINE N == Len(re)
           All == BoundedSeq(R, max)
           Rec(h) == h = [q \in 1..N + 1 |-> Starts(h, re, q, R, max)]
           V == SUBSET All
           next == [q \in 1..N |-> IF Starred(re, q) THEN q + 2 ELSE q + 1]
           Put(q, v) == IF AtEnd(re, q) THEN {<<>>}
                        ELSE IF Starred(re, q) THEN All \cap Concat(BoundedSeq(OneOf(re[q], R), max), v)
                        ELSE All \cap Concat({<<c>> : c \in OneOf(re[q], R)}, v)
           put == [q \in 1..N |-> [v \in V |-> Put(q, v)]]
           L == Language(re, R, max)
<1>1. N \in Nat
    OBVIOUS
<1>2. {<<>>} \in V
    BY EmptyText
<1>3. Onwards(N, next)
    BY <1>1 DEF Starred, Onwards
<1>4. put \in [1..N -> [V -> V]]
    <2>1. ASSUME NEW q \in 1..N, NEW v \in V PROVE Put(q, v) \in V
        <3> HIDE DEF All
        <3> QED
            BY <1>2
    <2> HIDE DEF V, Put
    <2> QED
        BY <2>1
<1>5a. PICK f : Recurs(N, V, {<<>>}, next, put, f)
    <2> HIDE DEF N, V, next, put
    <2> QED
        BY <1>1, <1>2, <1>3, <1>4, Recursion
<1>5. f \in [1..N + 1 -> V] /\ f[N + 1] = {<<>>} /\ \A q \in 1..N : f[q] = put[q][f[next[q]]]
    <2> HIDE DEF N, V, next, put
    <2> QED
        BY <1>5a DEF Recurs
<1>6. Rec(f)
    <2>1. ASSUME NEW q \in 1..N + 1 PROVE f[q] = Starts(f, re, q, R, max)
        <3>1. CASE q = N + 1
            <4>1. q > Len(re)
                BY <1>1, <3>1
            <4> HIDE DEF N, V, next, put
            <4>2. f[q] = {<<>>}
                BY <1>5, <3>1, Zenon
            <4> QED
                BY <4>1, <4>2, Zenon DEF Starts
        <3>2. CASE q # N + 1
            <4>1. q \in 1..N /\ ~(q > Len(re))
                BY <3>2, <1>1
            <4>2. next[q] \in 1..N + 1 /\ f[next[q]] \in V
                BY <1>1, <1>3, <1>5, <4>1 DEF Onwards
            <4>3. f[q] = Put(q, f[next[q]])
                <5> HIDE DEF V, next, Put
                <5> QED
                    BY <1>5, <4>1, <4>2
            <4>4. next[q] = IF Starred(re, q) THEN q + 2 ELSE q + 1
                BY <4>1
            <4>5. Put(q, f[next[q]]) = Starts(f, re, q, R, max)
                <5> HIDE DEF V, next, N
                <5>1. CASE AtEnd(re, q)
                    BY <5>1, Zenon DEF Starts
                <5>2. CASE ~AtEnd(re, q) /\ Starred(re, q)
                    BY <4>1, <4>4, <5>2, Zenon DEF Starts
                <5>3. CASE ~AtEnd(re, q) /\ ~Starred(re, q)
                    BY <4>1, <4>4, <5>3, Zenon DEF Starts
                <5> QED
                    BY <5>1, <5>2, <5>3, Zenon
            <4> QED
                BY <4>3, <4>5, Zenon
        <3> QED
            BY <3>1, <3>2
    <2> HIDE DEF N, V
    <2>2. f = [q \in 1..N + 1 |-> f[q]]
        BY <1>5
    <2> QED
        BY <2>1, <2>2
<1>7. L = CHOOSE h : Rec(h)
    BY DEF Language, Starts, OneOf
<1>8. Rec(L)
    <2> HIDE DEF Rec, L
    <2> QED
        BY <1>6, <1>7
<1> HIDE DEF L
<1>9. \A q \in 1..N + 1 : L[q] = Starts(L, re, q, R, max)
    BY <1>8
<1>10. L[p] \subseteq All
    <2>1. Starts(L, re, p, R, max) \subseteq All
        BY <1>2 DEF Starts
    <2> QED
        BY <2>1, <1>9
<1> QED
    BY <1>9, <1>10 DEF L

\* A text that stands in t from i up to, not including, j.
LEMMA PieceFacts ==
    ASSUME NEW C, NEW t \in Seq(C), NEW i \in 1..Len(t) + 1, NEW j \in i..Len(t) + 1
    PROVE  /\ SubSeq(t, i, j - 1) \in Seq(Range(t)) /\ Len(SubSeq(t, i, j - 1)) = j - i
           /\ \A k \in 1..j - i : SubSeq(t, i, j - 1)[k] = t[i + k - 1] /\ t[i + k - 1] \in Range(t)
           /\ SubSeq(t, i, j - 1) \in BoundedSeq(Range(t), Len(t))
<1>1. Len(t) \in Nat /\ DOMAIN t = 1..Len(t)
    OBVIOUS
<1>2. i \in Int /\ j - 1 \in Int /\ j \in Int
    BY <1>1
<1>3. \A k \in i..j - 1 : k \in 1..Len(t)
    BY <1>1
<1>4. \A k \in i..j - 1 : t[k] \in Range(t)
    BY <1>1, <1>3 DEF Range
<1>5. /\ SubSeq(t, i, j - 1) \in Seq(Range(t))
      /\ Len(SubSeq(t, i, j - 1)) = IF i <= j - 1 THEN (j - 1) - i + 1 ELSE 0
      /\ \A k \in 1..(j - 1) - i + 1 : SubSeq(t, i, j - 1)[k] = t[i + k - 1]
    BY <1>2, <1>4, SubSeqProperties
<1>6. Len(SubSeq(t, i, j - 1)) = j - i
    BY <1>2, <1>5
<1>7. \A k \in 1..j - i : k \in 1..(j - 1) - i + 1 /\ i + k - 1 \in i..j - 1
    BY <1>2
<1>8. j - i \in 0..Len(t)
    BY <1>1
<1> DEFINE s == SubSeq(t, i, j - 1)
<1>9. s \in [1..j - i -> Range(t)]
    <2> HIDE DEF s
    <2>1. s \in Seq(Range(t)) /\ Len(s) = j - i
        BY <1>5, <1>6 DEF s
    <2> QED
        BY <2>1
<1>10. s \in BoundedSeq(Range(t), Len(t))
    <2> HIDE DEF s
    <2> QED
        BY <1>8, <1>9 DEF BoundedSeq, SeqOf
<1> QED
    BY <1>4, <1>5, <1>6, <1>7, <1>10

\* A concatenation that stands in t is cut at some place.
Splits(t, i, j, a, b) == SubSeq(t, i, j - 1) = a \o b
IsCut(t, i, j, a, b) == \E k \in i..j : a = SubSeq(t, i, k - 1) /\ b = SubSeq(t, k, j - 1)
LEMMA ConcatFacts ==
    ASSUME NEW A, NEW B, NEW s PROVE s \in Concat(A, B) <=> \E a \in A, b \in B : s = a \o b
BY DEF Concat

LEMMA CutAt ==
    ASSUME NEW C, NEW t \in Seq(C), NEW i \in 1..Len(t) + 1, NEW j \in i..Len(t) + 1,
           NEW D, NEW a \in Seq(D), NEW b \in Seq(D), Splits(t, i, j, a, b)
    PROVE  IsCut(t, i, j, a, b)
<1> DEFINE k == i + Len(a)
           E == D \cup Range(t)
<1>1. Len(t) \in Nat /\ i \in Nat /\ j \in Nat /\ Len(a) \in Nat /\ Len(b) \in Nat
    BY LenProperties
<1>2. a \in Seq(E) /\ b \in Seq(E)
    OBVIOUS
<1>0. SubSeq(t, i, j - 1) = a \o b
    BY DEF Splits
<1>3. /\ Len(a \o b) = Len(a) + Len(b)
      /\ \A l \in 1..Len(a) + Len(b) : (a \o b)[l] = IF l <= Len(a) THEN a[l] ELSE b[l - Len(a)]
    BY ConcatProperties
<1>4. j - i = Len(a) + Len(b)
    BY <1>0, <1>3, PieceFacts
<1>5. k \in i..j /\ k \in 1..Len(t) + 1 /\ j \in k..Len(t) + 1 /\ k \in i..Len(t) + 1
    BY <1>1, <1>4
<1>6. \A l \in 1..j - i : SubSeq(t, i, j - 1)[l] = t[i + l - 1]
    BY PieceFacts
<1> HIDE DEF k
<1>7. /\ SubSeq(t, i, k - 1) \in Seq(Range(t)) /\ Len(SubSeq(t, i, k - 1)) = k - i
      /\ \A l \in 1..k - i : SubSeq(t, i, k - 1)[l] = t[i + l - 1]
    BY <1>5, PieceFacts
<1>8. /\ SubSeq(t, k, j - 1) \in Seq(Range(t)) /\ Len(SubSeq(t, k, j - 1)) = j - k
      /\ \A l \in 1..j - k : SubSeq(t, k, j - 1)[l] = t[k + l - 1]
    BY <1>5, PieceFacts
<1>9. a = SubSeq(t, i, k - 1)
    <2> DEFINE s == SubSeq(t, i, k - 1)
    <2>1. s \in Seq(E)
        BY <1>7
    <2>2. Len(a) = Len(s)
        BY <1>1, <1>7 DEF k
    <2>3. \A l \in 1..Len(a) : a[l] = s[l]
        <3>1. TAKE l \in 1..Len(a)
        <3>2. l \in 1..j - i /\ l \in 1..k - i /\ l \in 1..Len(a) + Len(b) /\ l <= Len(a)
            BY <1>1, <1>4 DEF k
        <3>3. (a \o b)[l] = a[l]
            BY <1>3, <3>2
        <3> QED
            BY <1>0, <1>6, <1>7, <3>2, <3>3
    <2> HIDE DEF s, E
    <2>4. a = s
        BY <1>2, <2>1, <2>2, <2>3, SeqEqual
    <2> QED
        BY <2>4 DEF s
<1>10. b = SubSeq(t, k, j - 1)
    <2> DEFINE s == SubSeq(t, k, j - 1)
    <2>1. s \in Seq(E)
        BY <1>8
    <2>2. Len(b) = Len(s)
        BY <1>1, <1>4, <1>8 DEF k
    <2>3. \A l \in 1..Len(b) : b[l] = s[l]
        <3>1. TAKE l \in 1..Len(b)
        <3> DEFINE x == Len(a) + l
        <3>2. /\ x \in 1..j - i /\ l \in 1..j - k /\ x \in 1..Len(a) + Len(b) /\ ~(x <= Len(a)) /\ x - Len(a) = l
              /\ i + x - 1 = k + l - 1
            BY <1>1, <1>4 DEF k
        <3> HIDE DEF x
        <3>3. (a \o b)[x] = b[l]
            BY <1>3, <3>2
        <3>4. SubSeq(t, i, j - 1)[x] = t[k + l - 1]
            BY <1>6, <3>2
        <3> QED
            BY <1>0, <1>8, <3>2, <3>3, <3>4
    <2> HIDE DEF s, E
    <2>4. b = s
        BY <1>2, <2>1, <2>2, <2>3, SeqEqual
    <2> QED
        BY <2>4 DEF s
<1> QED
    BY <1>5, <1>9, <1>10 DEF IsCut

\* Two texts that stand side by side.
LEMMA PasteAt ==
    ASSUME NEW C, NEW t \in Seq(C), NEW i \in 1..Len(t) + 1, NEW j \in i..Len(t) + 1, NEW k \in i..j
    PROVE  SubSeq(t, i, k - 1) \o SubSeq(t, k, j - 1) = SubSeq(t, i, j - 1)
<1>1. Len(t) \in Nat /\ k - 1 \in i - 1..Len(t) /\ j - 1 \in k - 1..Len(t) /\ (k - 1) + 1 = k
    BY LenProperties
<1> DEFINE x == k - 1
           y == j - 1
<1>2. x \in i - 1..Len(t) /\ y \in x..Len(t) /\ x + 1 = k
    BY <1>1
<1> HIDE DEF x, y
<1>3. SubSeq(t, i, x) \o SubSeq(t, x + 1, y) = SubSeq(t, i, y)
    BY <1>2, ConcatAdjacentSubSeq
<1> QED
    BY <1>2, <1>3 DEF x, y

\* What a match of the pattern from p on has to be: a text of the language,
\* and it ends the text if the pattern says so.
Words(re, t) == Language(re, Range(t), Len(t))
Good(re, t, p, i, j) ==
    SubSeq(t, i, j - 1) \in Words(re, t)[p] /\ (EndsText(re) /\ p <= Len(re) => j = Len(t) + 1)

LEMMA Bounded ==
    ASSUME NEW R, NEW max \in Nat
    PROVE  /\ \A s \in BoundedSeq(R, max) : s \in Seq(R) /\ Len(s) <= max
           /\ \A s \in Seq(R) : Len(s) <= max => s \in BoundedSeq(R, max)
<1>1. ASSUME NEW s \in BoundedSeq(R, max) PROVE s \in Seq(R) /\ Len(s) <= max
    <2>1. PICK n \in 0..max : s \in [1..n -> R]
        BY DEF BoundedSeq, SeqOf
    <2>2. n \in Nat
        OBVIOUS
    <2> QED
        BY <2>1, <2>2
<1>2. ASSUME NEW s \in Seq(R), Len(s) <= max PROVE s \in BoundedSeq(R, max)
    <2>1. Len(s) \in 0..max /\ s \in [1..Len(s) -> R]
        BY <1>2, LenProperties
    <2> QED
        BY <2>1 DEF BoundedSeq, SeqOf
<1> QED
    BY <1>1, <1>2

LEMMA WordsFacts ==
    ASSUME NEW C, NEW re \in Seq(C), NEW t \in Seq(C), NEW p \in 1..Len(re) + 1
    PROVE  /\ Words(re, t)[p] = Starts(Words(re, t), re, p, Range(t), Len(t))
           /\ Words(re, t)[p] \subseteq BoundedSeq(Range(t), Len(t))
           /\ Words(re, t)[p] \subseteq Seq(Range(t))
<1>1. Len(t) \in Nat
    OBVIOUS
<1>2. /\ Words(re, t)[p] = Starts(Words(re, t), re, p, Range(t), Len(t))
      /\ Words(re, t)[p] \subseteq BoundedSeq(Range(t), Len(t))
    BY <1>1, LanguageFacts DEF Words
<1> QED
    BY <1>1, <1>2, Bounded

LEMMA OneOfFacts ==
    ASSUME NEW c, NEW R, NEW d \in R PROVE d \in OneOf(c, R) <=> Hits(c, d)
BY Zenon DEF OneOf, Hits

\* A closure stands where characters it hits lead to the rest.
Runs(re, t, p, i, j) == \E k \in i..j :
    (\A x \in i..k - 1 : Hits(re[p], t[x])) /\ SubSeq(t, k, j - 1) \in Words(re, t)[p + 2]

LEMMA StarStands ==
    ASSUME NEW C, NEW re \in Seq(C), NEW t \in Seq(C), NEW p \in 1..Len(re), Starred(re, p), ~AtEnd(re, p),
           NEW i \in 1..Len(t) + 1, NEW j \in i..Len(t) + 1
    PROVE  SubSeq(t, i, j - 1) \in Words(re, t)[p] <=> Runs(re, t, p, i, j)
<1> DEFINE R == Range(t)
           max == Len(t)
           A == BoundedSeq(OneOf(re[p], R), max)
           W == Words(re, t)
           q == p + 2
<1>1. max \in Nat /\ Len(re) \in Nat /\ p \in 1..Len(re) + 1 /\ q \in 1..Len(re) + 1 /\ ~(p > Len(re)) /\ i \in Nat /\ j \in Nat
    BY DEF Starred
<1>2. W[p] = BoundedSeq(R, max) \cap Concat(A, W[q])
    <2>1. W[p] = Starts(W, re, p, R, max)
        BY <1>1, WordsFacts
    <2> QED
        BY <1>1, <2>1, Zenon DEF Starts
<1>3. W[q] \subseteq Seq(R)
    <2> HIDE DEF q
    <2> QED
        BY <1>1, WordsFacts
<1>4. OneOf(re[p], R) \subseteq R
    BY DEF OneOf
<1>5. \A a \in A : a \in Seq(OneOf(re[p], R)) /\ a \in Seq(R)
    <2>1. \A a \in A : a \in Seq(OneOf(re[p], R))
        BY <1>1, Bounded
    <2> HIDE DEF R, A
    <2> QED
        BY <1>4, <2>1, SeqMonotonic
<1> DEFINE s == SubSeq(t, i, j - 1)
<1>6. ASSUME s \in W[p] PROVE Runs(re, t, p, i, j)
    <2>1. PICK a \in A, b \in W[q] : s = a \o b
        <3>1. s \in Concat(A, W[q])
            BY <1>2, <1>6
        <3>2. \E x \in A, b \in W[q] : s = x \o b
            <4> DEFINE B == W[q]
            <4>0. s \in Concat(A, B)
                BY <3>1
            <4> HIDE DEF s, A, B, W, q, R, max
            <4>1. \E x \in A, b \in B : s = x \o b
                BY <4>0, ConcatFacts
            <4> QED
                BY <4>1 DEF B
        <3> HIDE DEF s, A, W, q
        <3> QED
            BY <3>2
    <2>2. a \in Seq(R) /\ b \in Seq(R)
        BY <1>3, <1>5, <2>1
    <2>c. IsCut(t, i, j, a, b)
        <3>1. Splits(t, i, j, a, b)
            BY <2>1 DEF Splits
        <3> HIDE DEF R, A, W, q, s
        <3> QED
            BY <2>2, <3>1, CutAt
    <2>3. PICK k \in i..j : a = SubSeq(t, i, k - 1) /\ b = SubSeq(t, k, j - 1)
        BY <2>c DEF IsCut
    <2>4. k \in i..Len(t) + 1
        BY <1>1
    <2>5. Len(a) = k - i /\ \A l \in 1..k - i : a[l] = t[i + l - 1] /\ t[i + l - 1] \in R
        BY <2>3, <2>4, PieceFacts
    <2>6. ASSUME NEW x \in i..k - 1 PROVE Hits(re[p], t[x])
        <3> DEFINE l == x - i + 1
        <3>1. l \in 1..k - i /\ i + l - 1 = x
            BY <1>1
        <3>2. a \in Seq(OneOf(re[p], R))
            BY <1>5
        <3>3. a[l] \in OneOf(re[p], R)
            <4> HIDE DEF R, l, A
            <4> QED
                BY <2>5, <3>1, <3>2, ElementOfSeq
        <3>4. a[l] = t[x] /\ t[x] \in R
            BY <2>5, <3>1
        <3> QED
            BY <3>3, <3>4, OneOfFacts
    <2> QED
        BY <2>3, <2>6 DEF Runs
<1>7. ASSUME Runs(re, t, p, i, j) PROVE s \in W[p]
    <2>1. PICK k \in i..j : (\A x \in i..k - 1 : Hits(re[p], t[x])) /\ SubSeq(t, k, j - 1) \in W[q]
        BY <1>7 DEF Runs
    <2>2. k \in i..Len(t) + 1 /\ k \in Nat
        BY <1>1
    <2> DEFINE a == SubSeq(t, i, k - 1)
    <2>3. a \in Seq(R) /\ Len(a) = k - i /\ \A l \in 1..k - i : a[l] = t[i + l - 1] /\ t[i + l - 1] \in R
        BY <2>2, PieceFacts
    <2>4. \A l \in 1..k - i : a[l] \in OneOf(re[p], R)
        <3>1. TAKE l \in 1..k - i
        <3> DEFINE x == i + l - 1
        <3>2. x \in i..k - 1
            BY <1>1, <2>2
        <3>3. Hits(re[p], t[x])
            BY <2>1, <3>2
        <3> QED
            BY <2>3, <3>3, OneOfFacts
    <2>5. a \in A
        <3>1. k - i \in 0..max
            BY <1>1, <2>2
        <3> HIDE DEF a, R
        <3>2. a \in [1..k - i -> OneOf(re[p], R)]
            <4> DEFINE S == OneOf(re[p], R)
            <4>1. a \in Seq(R) /\ Len(a) = k - i /\ \A l \in 1..k - i : a[l] \in S
                BY <2>3, <2>4
            <4> HIDE DEF S
            <4>2. a \in [1..k - i -> S]
                BY <4>1
            <4> QED
                BY <4>2 DEF S
        <3> QED
            BY <3>1, <3>2 DEF BoundedSeq, SeqOf
    <2>6. s = a \o SubSeq(t, k, j - 1)
        BY PasteAt
    <2>7. s \in BoundedSeq(R, max)
        BY PieceFacts
    <2> HIDE DEF s, a, A, R, max, W, q
    <2>8. s \in Concat(A, W[q])
        <3>1. SubSeq(t, k, j - 1) \in W[q]
            BY <2>1
        <3> QED
            BY <2>5, <2>6, <3>1, ConcatFacts
    <2> QED
        BY <1>2, <2>7, <2>8
<1> QED
    BY <1>6, <1>7

LEMMA LiteralStands ==
    ASSUME NEW C, NEW re \in Seq(C), NEW t \in Seq(C), NEW p \in 1..Len(re), ~Starred(re, p), ~AtEnd(re, p),
           NEW i \in 1..Len(t) + 1, NEW j \in i..Len(t) + 1
    PROVE  SubSeq(t, i, j - 1) \in Words(re, t)[p] <=>
               i < j /\ Hits(re[p], t[i]) /\ SubSeq(t, i + 1, j - 1) \in Words(re, t)[p + 1]
<1> DEFINE R == Range(t)
           max == Len(t)
           A == {<<c>> : c \in OneOf(re[p], R)}
           W == Words(re, t)
           q == p + 1
           k == i + 1
           s == SubSeq(t, i, j - 1)
<1>1. max \in Nat /\ Len(re) \in Nat /\ p \in 1..Len(re) + 1 /\ q \in 1..Len(re) + 1 /\ ~(p > Len(re)) /\ i \in Nat /\ j \in Nat
    OBVIOUS
<1>2. W[p] = BoundedSeq(R, max) \cap Concat(A, W[q])
    <2>1. W[p] = Starts(W, re, p, R, max)
        BY <1>1, WordsFacts
    <2> QED
        BY <1>1, <2>1, Zenon DEF Starts
<1>3. W[q] \subseteq Seq(R)
    <2> HIDE DEF q
    <2> QED
        BY <1>1, WordsFacts
<1>4. OneOf(re[p], R) \subseteq R
    BY DEF OneOf
<1>5. ASSUME i < j PROVE SubSeq(t, i, k - 1) = <<t[i]>> /\ t[i] \in R
    <2>1. k \in i..Len(t) + 1 /\ k - i = 1
        BY <1>1, <1>5
    <2> HIDE DEF k
    <2>2. /\ SubSeq(t, i, k - 1) \in Seq(R) /\ Len(SubSeq(t, i, k - 1)) = 1
          /\ \A l \in 1..1 : SubSeq(t, i, k - 1)[l] = t[i + l - 1] /\ t[i + l - 1] \in R
        BY <2>1, PieceFacts
    <2>3. SubSeq(t, i, k - 1)[1] = t[i] /\ t[i] \in R
        BY <1>1, <2>2
    <2> HIDE DEF R
    <2>4. <<t[i]>> \in Seq(R) /\ Len(<<t[i]>>) = 1 /\ <<t[i]>>[1] = t[i]
        BY <2>3
    <2> DEFINE u == SubSeq(t, i, k - 1)
               v == <<t[i]>>
    <2>5. u \in Seq(R) /\ v \in Seq(R) /\ Len(u) = 1 /\ Len(v) = 1 /\ u[1] = v[1]
        BY <2>2, <2>3, <2>4
    <2> HIDE DEF u, v
    <2>6. Len(u) = Len(v) /\ \A l \in 1..Len(u) : u[l] = v[l]
        BY <2>5
    <2>7. u = v
        BY <2>5, <2>6, SeqEqual
    <2> QED
        BY <2>3, <2>7 DEF u, v
<1>6. ASSUME s \in W[p] PROVE i < j /\ Hits(re[p], t[i]) /\ SubSeq(t, k, j - 1) \in W[q]
    <2>0. PICK h \in A, b \in W[q] : s = h \o b
        <3>1. s \in Concat(A, W[q])
            BY <1>2, <1>6
        <3>2. \E x \in A, b \in W[q] : s = x \o b
            <4> HIDE DEF s, A, W, q
            <4>1. \E x \in A, b \in W[q] : s = x \o b
                BY <3>1, ConcatFacts
            <4> QED
                BY <4>1
        <3> HIDE DEF s, A, W, q
        <3> QED
            BY <3>2
    <2>1. PICK c \in OneOf(re[p], R) : h = <<c>>
        OBVIOUS
    <2>2. <<c>> \in Seq(R) /\ b \in Seq(R) /\ Len(<<c>>) = 1
        BY <1>3, <1>4, <2>1
    <2> DEFINE a == <<c>>
    <2>c. IsCut(t, i, j, a, b)
        <3>1. Splits(t, i, j, a, b)
            BY <2>0, <2>1 DEF Splits
        <3> HIDE DEF R, A, W, q, s, a
        <3>2. a \in Seq(R) /\ b \in Seq(R)
            BY <2>2 DEF a
        <3> QED
            BY <3>1, <3>2, CutAt
    <2>3. PICK l \in i..j : a = SubSeq(t, i, l - 1) /\ b = SubSeq(t, l, j - 1)
        BY <2>c DEF IsCut
    <2>4. l \in i..Len(t) + 1 /\ l \in Nat
        BY <1>1
    <2>5. Len(a) = l - i
        BY <2>3, <2>4, PieceFacts
    <2>6. l = k /\ i < j
        BY <1>1, <2>2, <2>4, <2>5
    <2>7. SubSeq(t, i, k - 1) = <<t[i]>> /\ t[i] \in R
        BY <1>5, <2>6
    <2>8. c = t[i]
        <3>1. <<c>> = <<t[i]>>
            BY <2>3, <2>6, <2>7
        <3> QED
            BY <3>1
    <2> QED
        BY <2>3, <2>6, <2>7, <2>8, OneOfFacts
<1>7. ASSUME i < j, Hits(re[p], t[i]), SubSeq(t, k, j - 1) \in W[q] PROVE s \in W[p]
    <2>1. k \in i..j
        BY <1>1, <1>7
    <2>2. SubSeq(t, i, k - 1) = <<t[i]>> /\ t[i] \in R
        BY <1>5, <1>7
    <2>3. <<t[i]>> \in A
        BY <1>7, <2>2, OneOfFacts
    <2>4. s = <<t[i]>> \o SubSeq(t, k, j - 1)
        <3> HIDE DEF k
        <3>1. SubSeq(t, i, k - 1) \o SubSeq(t, k, j - 1) = s
            BY <2>1, PasteAt
        <3> QED
            BY <2>2, <3>1
    <2>5. s \in BoundedSeq(R, max)
        BY PieceFacts
    <2> HIDE DEF s, A, R, max, W, q, k
    <2>6. s \in Concat(A, W[q])
        BY <1>7, <2>3, <2>4, ConcatFacts
    <2> QED
        BY <1>2, <2>5, <2>6
<1> QED
    BY <1>6, <1>7

\* How a match goes on from one position of the pattern to the next.
GoodSteps(re, t, p, i, j) ==
    /\ p > Len(re) => (Good(re, t, p, i, j) <=> i = j)
    /\ AtEnd(re, p) => (Good(re, t, p, i, j) <=> i = j /\ j = Len(t) + 1)
    /\ p <= Len(re) /\ Starred(re, p) =>
          (Good(re, t, p, i, j) <=> Good(re, t, p + 2, i, j) \/ (i < j /\ Hits(re[p], t[i]) /\ Good(re, t, p, i + 1, j)))
    /\ p <= Len(re) /\ ~AtEnd(re, p) /\ ~Starred(re, p) =>
          (Good(re, t, p, i, j) <=> i < j /\ Hits(re[p], t[i]) /\ Good(re, t, p + 1, i + 1, j))

LEMMA RunsStep ==
    ASSUME NEW C, NEW re \in Seq(C), NEW t \in Seq(C), NEW p \in 1..Len(re),
           NEW i \in 1..Len(t) + 1, NEW j \in i..Len(t) + 1
    PROVE  Runs(re, t, p, i, j) <=> \/ SubSeq(t, i, j - 1) \in Words(re, t)[p + 2]
                                    \/ i < j /\ Hits(re[p], t[i]) /\ Runs(re, t, p, i + 1, j)
<1> DEFINE H(x) == Hits(re[p], t[x])
           G(k) == SubSeq(t, k, j - 1) \in Words(re, t)[p + 2]
<1>1. i \in Nat /\ j \in Nat
    BY LenProperties
<1>2. \A l \in Nat : Runs(re, t, p, l, j) <=> \E k \in l..j : (\A x \in l..k - 1 : H(x)) /\ G(k)
    BY DEF Runs
<1> HIDE DEF H, G
<1>3. Runs(re, t, p, i, j) <=> \E k \in i..j : (\A x \in i..k - 1 : H(x)) /\ G(k)
    BY <1>1, <1>2
<1>4. Runs(re, t, p, i + 1, j) <=> \E k \in i + 1..j : (\A x \in i + 1..k - 1 : H(x)) /\ G(k)
    BY <1>1, <1>2
<1>5. ASSUME NEW k \in i..j, \A x \in i..k - 1 : H(x), G(k)
      PROVE  G(i) \/ (i < j /\ H(i) /\ \E l \in i + 1..j : (\A x \in i + 1..l - 1 : H(x)) /\ G(l))
    <2>1. CASE k = i
        BY <1>5, <2>1
    <2>2. CASE k # i
        <3>1. k \in i + 1..j /\ i \in i..k - 1 /\ \A x \in i + 1..k - 1 : x \in i..k - 1
            BY <1>1, <2>2
        <3> QED
            BY <1>1, <1>5, <3>1
    <2> QED
        BY <2>1, <2>2
<1>6. ASSUME G(i) PROVE \E k \in i..j : (\A x \in i..k - 1 : H(x)) /\ G(k)
    <2>1. i \in i..j /\ \A x \in i..i - 1 : FALSE
        BY <1>1
    <2> QED
        BY <1>6, <2>1
<1>7. ASSUME i < j, H(i), NEW l \in i + 1..j, \A x \in i + 1..l - 1 : H(x), G(l)
      PROVE  \E k \in i..j : (\A x \in i..k - 1 : H(x)) /\ G(k)
    <2>1. l \in i..j /\ \A x \in i..l - 1 : x = i \/ x \in i + 1..l - 1
        BY <1>1
    <2> QED
        BY <1>7, <2>1
<1>8. Runs(re, t, p, i, j) <=> G(i) \/ (i < j /\ H(i) /\ Runs(re, t, p, i + 1, j))
    BY <1>3, <1>4, <1>5, <1>6, <1>7
<1> QED
    BY <1>8 DEF H, G

LEMMA GoodStep ==
    ASSUME NEW C, NEW re \in Seq(C), NEW t \in Seq(C), NEW p \in 1..Len(re) + 1,
           NEW i \in 1..Len(t) + 1, NEW j \in i..Len(t) + 1
    PROVE  GoodSteps(re, t, p, i, j)
<1> DEFINE W == Words(re, t)
           E == EndsText(re)
           n == Len(t)
           S(q, k) == SubSeq(t, k, j - 1) \in W[q]
<1>1. Len(re) \in Nat /\ n \in Nat /\ p \in Nat /\ i \in Nat /\ j \in Nat
    BY LenProperties
<1>2. \A q, k : Good(re, t, q, k, j) <=> S(q, k) /\ (E /\ q <= Len(re) => j = n + 1)
    BY DEF Good
<1>3. W[p] = Starts(W, re, p, Range(t), n)
    BY WordsFacts
<1>4. ASSUME p > Len(re) \/ AtEnd(re, p) PROVE S(p, i) <=> i = j
    <2>1. W[p] = {<<>>}
        BY <1>3, <1>4, Zenon DEF Starts
    <2>2. SubSeq(t, i, j - 1) \in Seq(Range(t)) /\ Len(SubSeq(t, i, j - 1)) = j - i
        BY PieceFacts
    <2>3. SubSeq(t, i, j - 1) = <<>> <=> j - i = 0
        BY <2>2, EmptySeq
    <2> QED
        BY <1>1, <2>1, <2>3
<1>5. E <=> re # <<>> /\ re[Len(re)] = "$"
    BY DEF EndsText
<1>6. re # <<>> <=> Len(re) > 0
    BY EmptySeq, LenProperties
<1>7. ASSUME p <= Len(re), Starred(re, p)
      PROVE  /\ S(p, i) <=> S(p + 2, i) \/ (i < j /\ Hits(re[p], t[i]) /\ S(p, i + 1))
             /\ E => p + 2 <= Len(re)
    <2>1. p \in 1..Len(re) /\ ~AtEnd(re, p)
        BY <1>1, <1>7 DEF AtEnd, Starred
    <2>2. S(p, i) <=> Runs(re, t, p, i, j)
        BY <1>7, <2>1, StarStands
    <2>3. Runs(re, t, p, i, j) <=> S(p + 2, i) \/ (i < j /\ Hits(re[p], t[i]) /\ Runs(re, t, p, i + 1, j))
        BY <2>1, RunsStep
    <2>4. i < j => (S(p, i + 1) <=> Runs(re, t, p, i + 1, j))
        <3>1. HAVE i < j
        <3> DEFINE k == i + 1
        <3>2. k \in 1..Len(t) + 1 /\ j \in k..Len(t) + 1
            BY <1>1, <3>1
        <3> HIDE DEF k
        <3>3. SubSeq(t, k, j - 1) \in Words(re, t)[p] <=> Runs(re, t, p, k, j)
            BY <1>7, <2>1, <3>2, StarStands
        <3> QED
            BY <3>3 DEF k
    <2>5. E => p + 2 <= Len(re)
        BY <1>1, <1>5, <1>7 DEF Starred
    <2> HIDE DEF S
    <2> QED
        BY <2>2, <2>3, <2>4, <2>5
<1>8. ASSUME p <= Len(re), ~AtEnd(re, p), ~Starred(re, p)
      PROVE  /\ S(p, i) <=> i < j /\ Hits(re[p], t[i]) /\ S(p + 1, i + 1)
             /\ E => p + 1 <= Len(re)
    <2>1. p \in 1..Len(re)
        BY <1>1, <1>8
    <2>2. S(p, i) <=> i < j /\ Hits(re[p], t[i]) /\ S(p + 1, i + 1)
        BY <1>8, <2>1, LiteralStands
    <2>3. E => p + 1 <= Len(re)
        BY <1>1, <1>5, <1>8 DEF AtEnd
    <2> QED
        BY <2>2, <2>3
<1>9. AtEnd(re, p) => E /\ p = Len(re)
    BY <1>1, <1>5, <1>6 DEF AtEnd
<1> HIDE DEF S, E, W
<1>10. p > Len(re) => (Good(re, t, p, i, j) <=> i = j)
    BY <1>1, <1>2, <1>4
<1>11. AtEnd(re, p) => (Good(re, t, p, i, j) <=> i = j /\ j = n + 1)
    BY <1>1, <1>2, <1>4, <1>9
<1>12. ASSUME p <= Len(re), Starred(re, p)
       PROVE  Good(re, t, p, i, j) <=> Good(re, t, p + 2, i, j) \/ (i < j /\ Hits(re[p], t[i]) /\ Good(re, t, p, i + 1, j))
    BY <1>1, <1>2, <1>7, <1>12
<1>13. ASSUME p <= Len(re), ~AtEnd(re, p), ~Starred(re, p)
       PROVE  Good(re, t, p, i, j) <=> i < j /\ Hits(re[p], t[i]) /\ Good(re, t, p + 1, i + 1, j)
    BY <1>1, <1>2, <1>8, <1>13
<1> QED
    BY <1>10, <1>11, <1>12, <1>13 DEF GoodSteps

\* The longest match of the pattern from p on that stands at i, -1 for none.
Lens(re, t, p, i) == {l \in 0..Len(t) - i + 1 : Good(re, t, p, i, i + l)}
Longest(re, t, p, i) == IF Lens(re, t, p, i) = {} THEN -1 ELSE Max(Lens(re, t, p, i))
IsLongest(re, t, p, i, b) ==
    /\ b \in -1..Len(t) - i + 1 /\ (b >= 0 => Good(re, t, p, i, i + b))
    /\ \A j \in i..Len(t) + 1 : Good(re, t, p, i, j) => j - i <= b

LEMMA GreatestNat ==
    ASSUME NEW n \in Nat, NEW S \in SUBSET (0..n), S # {}
    PROVE  Max(S) \in S /\ \A y \in S : y <= Max(S)
<1> DEFINE D == {n - x : x \in S}
<1>1. D \in SUBSET Nat /\ D # {}
    <2>1. \A x \in S : x \in 0..n
        OBVIOUS
    <2>2. \A x \in S : n - x \in Nat
        BY <2>1
    <2>3. PICK x \in S : TRUE
        OBVIOUS
    <2>4. n - x \in D
        OBVIOUS
    <2> QED
        BY <2>2, <2>4
<1>2. PICK d \in D : \A y \in D : d <= y
    <2> HIDE DEF D
    <2> QED
        BY <1>1, LeastNat
<1>3. PICK x \in S : d = n - x
    OBVIOUS
<1>4. \A y \in S : x >= y
    <2>1. TAKE y \in S
    <2>2. n - y \in D
        OBVIOUS
    <2>3. n - x <= n - y
        BY <1>2, <1>3, <2>2
    <2>4. x \in 0..n /\ y \in 0..n
        OBVIOUS
    <2> QED
        BY <2>3, <2>4
<1>5. Max(S) \in S /\ \A y \in S : Max(S) >= y
    BY <1>4 DEF Max
<1> DEFINE m == Max(S)
<1>6. \A y \in S : y \in Int
    OBVIOUS
<1> HIDE DEF m
<1>7. m \in S /\ \A y \in S : m >= y
    BY <1>5 DEF m
<1>8. \A y \in S : y <= m
    BY <1>6, <1>7
<1> QED
    BY <1>7, <1>8 DEF m

LEMMA LongestIs ==
    ASSUME NEW C, NEW re, NEW t \in Seq(C), NEW p, NEW i \in 1..Len(t) + 1
    PROVE  /\ IsLongest(re, t, p, i, Longest(re, t, p, i))
           /\ \A b : IsLongest(re, t, p, i, b) => b = Longest(re, t, p, i)
<1> DEFINE n == Len(t)
           G(j) == Good(re, t, p, i, j)
           L == Lens(re, t, p, i)
           x == Longest(re, t, p, i)
<1>1. n \in Nat /\ i \in Nat /\ n - i + 1 \in Nat
    BY LenProperties
<1>2. L = {l \in 0..n - i + 1 : G(i + l)}
    BY DEF Lens
<1>3. x = IF L = {} THEN -1 ELSE Max(L)
    BY DEF Longest
<1>4. \A b : IsLongest(re, t, p, i, b) <=>
             b \in -1..n - i + 1 /\ (b >= 0 => G(i + b)) /\ \A j \in i..n + 1 : G(j) => j - i <= b
    BY DEF IsLongest
<1> HIDE DEF G, L, x
<1>5. \A j \in i..n + 1 : G(j) => j - i \in L
    BY <1>1, <1>2
<1>6. x \in -1..n - i + 1 /\ (x >= 0 => G(i + x)) /\ \A j \in i..n + 1 : G(j) => j - i <= x
    <2>1. CASE L = {}
        BY <1>1, <1>3, <1>5, <2>1
    <2>2. CASE L # {}
        <3> DEFINE k == n - i + 1
        <3>1. k \in Nat /\ L \in SUBSET (0..k)
            BY <1>1, <1>2
        <3> HIDE DEF k
        <3>2. x \in L /\ \A y \in L : y <= x
            BY <1>3, <2>2, <3>1, GreatestNat
        <3> QED
            BY <1>1, <1>2, <1>5, <3>2
    <2> QED
        BY <2>1, <2>2
<1>7. ASSUME NEW b, b \in -1..n - i + 1, b >= 0 => G(i + b), \A j \in i..n + 1 : G(j) => j - i <= b
      PROVE  b = x
    <2>1. b >= 0 => i + b \in i..n + 1 /\ (i + b) - i = b
        BY <1>1, <1>7
    <2>2. x >= 0 => i + x \in i..n + 1 /\ (i + x) - i = x
        BY <1>1, <1>6
    <2>3. b >= 0 => b <= x
        BY <1>6, <1>7, <2>1
    <2>4. x >= 0 => x <= b
        BY <1>6, <1>7, <2>2
    <2>5. b \in Int /\ x \in Int /\ b >= -1 /\ x >= -1
        BY <1>1, <1>6, <1>7
    <2> QED
        BY <2>3, <2>4, <2>5
<1>8. IsLongest(re, t, p, i, x)
    BY <1>4, <1>6
<1>9. \A b : IsLongest(re, t, p, i, b) => b = x
    BY <1>4, <1>7
<1> QED
    BY <1>8, <1>9 DEF x

\* How the longest match goes on.
LongestSteps(re, t, p, i) ==
    /\ p > Len(re) => Longest(re, t, p, i) = 0
    /\ AtEnd(re, p) => Longest(re, t, p, i) = IF i > Len(t) THEN 0 ELSE -1
    /\ p <= Len(re) /\ Starred(re, p) =>
          Longest(re, t, p, i) = IF i > Len(t) \/ ~Hits(re[p], t[i]) THEN Longest(re, t, p + 2, i)
                                 ELSE Better(Longest(re, t, p + 2, i), Longer(Longest(re, t, p, i + 1)))
    /\ p <= Len(re) /\ ~AtEnd(re, p) /\ ~Starred(re, p) =>
          Longest(re, t, p, i) = IF i <= Len(t) /\ Hits(re[p], t[i]) THEN Longer(Longest(re, t, p + 1, i + 1)) ELSE -1

LEMMA LongestStep ==
    ASSUME NEW C, NEW re \in Seq(C), NEW t \in Seq(C), NEW p \in 1..Len(re) + 1, NEW i \in 1..Len(t) + 1
    PROVE  LongestSteps(re, t, p, i)
<1> DEFINE n == Len(t)
           G(q, k, j) == Good(re, t, q, k, j)
           B(q, k) == Longest(re, t, q, k)
           Is_(q, k, b) == IsLongest(re, t, q, k, b)
           h == Hits(re[p], t[i])
<1>1. n \in Nat /\ i \in Nat /\ p \in Nat /\ Len(re) \in Nat
    BY LenProperties
<1>2. \A q, k, b : Is_(q, k, b) <=>
             b \in -1..n - k + 1 /\ (b >= 0 => G(q, k, k + b)) /\ \A j \in k..n + 1 : G(q, k, j) => j - k <= b
    BY DEF IsLongest
<1>3. \A j \in i..n + 1 : GoodSteps(re, t, p, i, j)
    BY GoodStep
<1>4. \A q : Is_(q, i, B(q, i)) /\ \A b : Is_(q, i, b) => b = B(q, i)
    BY LongestIs
<1>5. i <= n => \A q : Is_(q, i + 1, B(q, i + 1))
    <2> DEFINE k == i + 1
    <2>1. i <= n => k \in 1..Len(t) + 1
        BY <1>1
    <2> HIDE DEF k
    <2>2. i <= n => \A q : Is_(q, k, B(q, k))
        BY <2>1, LongestIs
    <2> QED
        BY <2>2 DEF k
<1>6. \A j \in i..n + 1 :
        /\ p > Len(re) => (G(p, i, j) <=> i = j)
        /\ AtEnd(re, p) => (G(p, i, j) <=> i = j /\ j = n + 1)
        /\ p <= Len(re) /\ Starred(re, p) => (G(p, i, j) <=> G(p + 2, i, j) \/ (i < j /\ h /\ G(p, i + 1, j)))
        /\ p <= Len(re) /\ ~AtEnd(re, p) /\ ~Starred(re, p) => (G(p, i, j) <=> i < j /\ h /\ G(p + 1, i + 1, j))
    BY <1>3 DEF GoodSteps
<1> HIDE DEF G, B, Is_, h
<1>7. ASSUME p > Len(re) PROVE B(p, i) = 0
    <2>1. Is_(p, i, 0)
        BY <1>1, <1>2, <1>6, <1>7
    <2> QED
        BY <1>4, <2>1
<1>8. ASSUME AtEnd(re, p) PROVE B(p, i) = IF i > n THEN 0 ELSE -1
    <2>1. CASE i > n
        <3>1. Is_(p, i, 0)
            BY <1>1, <1>2, <1>6, <1>8, <2>1
        <3> QED
            BY <1>4, <2>1, <3>1
    <2>2. CASE ~(i > n)
        <3>1. Is_(p, i, -1)
            BY <1>1, <1>2, <1>6, <1>8, <2>2
        <3> QED
            BY <1>4, <2>2, <3>1
    <2> QED
        BY <2>1, <2>2
<1>9. ASSUME i <= n, NEW q
      PROVE  /\ B(q, i + 1) \in -1..n - i /\ Longer(B(q, i + 1)) \in -1..n - i + 1
             /\ Longer(B(q, i + 1)) >= 0 => G(q, i + 1, i + Longer(B(q, i + 1))) /\ Longer(B(q, i + 1)) > 0
             /\ \A j \in i + 1..n + 1 : G(q, i + 1, j) => j - i <= Longer(B(q, i + 1))
    <2> DEFINE k == i + 1
               b == B(q, k)
    <2>1. Is_(q, k, b)
        BY <1>5, <1>9
    <2>2. b \in -1..n - k + 1 /\ (b >= 0 => G(q, k, k + b)) /\ \A j \in k..n + 1 : G(q, k, j) => j - k <= b
        BY <1>2, <2>1
    <2>3. n - k + 1 = n - i
        BY <1>1
    <2> HIDE DEF b
    <2>4. Longer(b) = IF b < 0 THEN -1 ELSE b + 1
        BY DEF Longer
    <2>5. b \in -1..n - i /\ Longer(b) \in -1..n - i + 1 /\ (Longer(b) >= 0 => Longer(b) > 0 /\ b >= 0 /\ k + b = i + Longer(b))
        BY <1>1, <2>2, <2>3, <2>4
    <2>6. \A j \in k..n + 1 : j - k <= b => j - i <= Longer(b)
        BY <1>1, <2>4, <2>5
    <2> QED
        BY <2>2, <2>5, <2>6 DEF b
<1>10. ASSUME p <= Len(re), Starred(re, p)
       PROVE  B(p, i) = IF i > n \/ ~h THEN B(p + 2, i) ELSE Better(B(p + 2, i), Longer(B(p, i + 1)))
    <2> DEFINE a == B(p + 2, i)
               q == p + 2
               c == Longer(B(p, i + 1))
    <2>1. a \in -1..n - i + 1 /\ (a >= 0 => G(q, i, i + a)) /\ \A j \in i..n + 1 : G(q, i, j) => j - i <= a
        BY <1>2, <1>4
    <2>2. \A j \in i..n + 1 : G(p, i, j) <=> G(q, i, j) \/ (i < j /\ h /\ G(p, i + 1, j))
        BY <1>6, <1>10
    <2>3. CASE i > n \/ ~h
        <3> HIDE DEF a, q
        <3>1. \A j \in i..n + 1 : G(p, i, j) <=> G(q, i, j)
            BY <1>1, <2>2, <2>3
        <3>2. a >= 0 => i + a \in i..n + 1
            BY <1>1, <2>1
        <3>3. Is_(p, i, a)
            BY <1>2, <2>1, <3>1, <3>2
        <3>4. B(p, i) = a
            BY <1>4, <3>3
        <3> QED
            BY <2>3, <3>4 DEF a
    <2>4. CASE ~(i > n \/ ~h)
        <3>1. /\ c \in -1..n - i + 1 /\ (c >= 0 => G(p, i + 1, i + c) /\ c > 0)
              /\ \A j \in i + 1..n + 1 : G(p, i + 1, j) => j - i <= c
            BY <1>1, <1>9, <2>4
        <3> DEFINE b == Better(a, c)
        <3> HIDE DEF a, c, q
        <3>2. b = a \/ b = c
            BY DEF Better
        <3>3. a <= b /\ c <= b /\ b \in -1..n - i + 1 /\ a \in Int /\ c \in Int
            BY <1>1, <2>1, <3>1 DEF Better
        <3> HIDE DEF b
        <3>4. b >= 0 => i + b \in i..n + 1
            BY <1>1, <3>3
        <3>5. b >= 0 => G(p, i, i + b)
            <4>1. CASE b = a
                BY <2>1, <2>2, <3>4, <4>1
            <4>2. CASE b = c
                BY <1>1, <2>2, <2>4, <3>1, <3>4, <4>2
            <4> QED
                BY <3>2, <4>1, <4>2
        <3>6. \A j \in i..n + 1 : G(p, i, j) => j - i <= b
            <4>1. TAKE j \in i..n + 1
            <4>2. G(q, i, j) => j - i <= b
                BY <1>1, <2>1, <3>3
            <4>3. i < j /\ G(p, i + 1, j) => j - i <= b
                <5>1. i < j => j \in i + 1..n + 1
                    BY <1>1
                <5> QED
                    BY <1>1, <3>1, <3>3, <5>1
            <4> QED
                BY <2>2, <4>2, <4>3
        <3>7. Is_(p, i, b)
            BY <1>2, <3>3, <3>5, <3>6
        <3>8. B(p, i) = b
            BY <1>4, <3>7
        <3> QED
            BY <2>4, <3>8 DEF a, b, c
    <2> QED
        BY <2>3, <2>4
<1>11. ASSUME p <= Len(re), ~AtEnd(re, p), ~Starred(re, p)
       PROVE  B(p, i) = IF i <= n /\ h THEN Longer(B(p + 1, i + 1)) ELSE -1
    <2> DEFINE q == p + 1
               c == Longer(B(q, i + 1))
    <2>1. \A j \in i..n + 1 : G(p, i, j) <=> i < j /\ h /\ G(q, i + 1, j)
        BY <1>6, <1>11
    <2>2. CASE i <= n /\ h
        <3>1. /\ c \in -1..n - i + 1 /\ (c >= 0 => G(q, i + 1, i + c) /\ c > 0)
              /\ \A j \in i + 1..n + 1 : G(q, i + 1, j) => j - i <= c
            BY <1>1, <1>9, <2>2
        <3> HIDE DEF c, q
        <3>2. c >= 0 => i + c \in i..n + 1 /\ i < i + c
            BY <1>1, <3>1
        <3>3. c >= 0 => G(p, i, i + c)
            BY <2>1, <2>2, <3>1, <3>2
        <3>4. \A j \in i..n + 1 : G(p, i, j) => j - i <= c
            <4>1. TAKE j \in i..n + 1
            <4>2. i < j => j \in i + 1..n + 1
                BY <1>1
            <4> QED
                BY <2>1, <3>1, <4>2
        <3>5. Is_(p, i, c)
            BY <1>2, <3>1, <3>3, <3>4
        <3>6. B(p, i) = c
            BY <1>4, <3>5
        <3> QED
            BY <2>2, <3>6 DEF c, q
    <2>3. CASE ~(i <= n /\ h)
        <3> HIDE DEF q
        <3>1. \A j \in i..n + 1 : ~G(p, i, j)
            BY <1>1, <2>1, <2>3
        <3>2. -1 \in -1..n - i + 1 /\ ~(-1 >= 0)
            BY <1>1
        <3>3. Is_(p, i, -1)
            BY <1>2, <3>1, <3>2
        <3>4. B(p, i) = -1
            BY <1>4, <3>3
        <3> QED
            BY <2>3, <3>4
    <2> QED
        BY <2>2, <2>3
<1> QED
    BY <1>7, <1>8, <1>10, <1>11 DEF LongestSteps, B, h

\* What matchstar computes for a position is what its recursion says.
StarRec(c, t, rest, h) ==
    h = [i \in 1..Len(t) + 1 |-> StarStops(rest, i) \/ (i <= Len(t) /\ Hits(c, t[i]) /\ h[i + 1])]
LEMMA MatchStarIs ==
    ASSUME NEW C, NEW t \in Seq(C), NEW c, NEW rest, NEW h, StarRec(c, t, rest, h)
    PROVE  MatchStar(c, t, rest) = h
<1> DEFINE N == Len(t) + 1
           L == MatchStar(c, t, rest)
           Rec(g) == StarRec(c, t, rest, g)
           S == {i \in 1..N : L[i] = h[i]}
           A(i) == StarStops(rest, i)
           B(i) == i <= Len(t) /\ Hits(c, t[i])
<1>1. N \in Nat /\ Len(t) \in Nat
    BY LenProperties
<1>2. L = CHOOSE g : Rec(g)
    BY DEF MatchStar, StarRec
<1>3. Rec(L)
    <2> HIDE DEF Rec, L
    <2>1. Rec(h)
        BY DEF Rec
    <2> QED
        BY <1>2, <2>1
<1>4. L = [i \in 1..N |-> A(i) \/ (B(i) /\ L[i + 1])] /\ h = [i \in 1..N |-> A(i) \/ (B(i) /\ h[i + 1])]
    <2>1. \A g : Rec(g) => g = [i \in 1..N |-> A(i) \/ (B(i) /\ g[i + 1])]
        BY Zenon DEF StarRec
    <2> HIDE DEF Rec, L, A, B
    <2>2. Rec(h)
        BY DEF Rec
    <2> QED
        BY <1>3, <2>1, <2>2
<1>5. \A i \in 1..N : B(i) => i + 1 \in i + 1..N
    BY <1>1
<1> HIDE DEF L, N, A, B, Rec
<1>6. ASSUME NEW i \in 1..N, \A k \in i + 1..N : k \in S PROVE i \in S
    <2>1. B(i) => L[i + 1] = h[i + 1]
        BY <1>5, <1>6
    <2>2. L[i] = (A(i) \/ (B(i) /\ L[i + 1])) /\ h[i] = (A(i) \/ (B(i) /\ h[i + 1]))
        BY <1>4, Zenon
    <2>3. L[i] = h[i]
        BY <2>1, <2>2, Zenon
    <2> QED
        BY <2>3
<1>7. \A i \in 1..N : i \in S
    <2> HIDE DEF S
    <2> QED
        BY <1>1, <1>6, Downwards
<1>8. L = [i \in 1..N |-> L[i]] /\ h = [i \in 1..N |-> h[i]]
    BY <1>4, Zenon
<1>9. \A i \in 1..N : L[i] = h[i]
    BY <1>7
<1>10. L = h
    BY <1>8, <1>9, Zenon
<1> QED
    BY <1>10 DEF L

\* The same of re_matchstar_len.
StarLenRec(c, t, rest, h) == h = [i \in 1..Len(t) + 1 |->
            IF i > Len(t) \/ ~Hits(c, t[i]) THEN rest[i] ELSE Better(rest[i], Longer(h[i + 1]))]
LEMMA StarLenIs ==
    ASSUME NEW C, NEW t \in Seq(C), NEW c, NEW rest, NEW h, StarLenRec(c, t, rest, h)
    PROVE  StarLen(c, t, rest) = h
<1> DEFINE N == Len(t) + 1
           L == StarLen(c, t, rest)
           Rec(g) == StarLenRec(c, t, rest, g)
           S == {i \in 1..N : L[i] = h[i]}
           B(i) == i > Len(t) \/ ~Hits(c, t[i])
           D(i, x) == IF B(i) THEN rest[i] ELSE Better(rest[i], Longer(x))
<1>1. N \in Nat /\ Len(t) \in Nat
    BY LenProperties
<1>2. L = CHOOSE g : Rec(g)
    BY DEF StarLen, StarLenRec
<1>3. Rec(L)
    <2> HIDE DEF Rec, L
    <2>1. Rec(h)
        BY DEF Rec
    <2> QED
        BY <1>2, <2>1
<1>4. L = [i \in 1..N |-> D(i, L[i + 1])] /\ h = [i \in 1..N |-> D(i, h[i + 1])]
    <2>1. \A g : Rec(g) => g = [i \in 1..N |-> D(i, g[i + 1])]
        BY Zenon DEF StarLenRec
    <2> HIDE DEF Rec, L, D
    <2>2. Rec(h)
        BY DEF Rec
    <2> QED
        BY <1>3, <2>1, <2>2
<1>5. \A i \in 1..N : ~B(i) => i + 1 \in i + 1..N
    BY <1>1
<1> HIDE DEF L, N, B, Rec
<1>6. ASSUME NEW i \in 1..N, \A k \in i + 1..N : k \in S PROVE i \in S
    <2>1. ~B(i) => L[i + 1] = h[i + 1]
        BY <1>5, <1>6
    <2>2. D(i, L[i + 1]) = D(i, h[i + 1])
        BY <2>1, Zenon
    <2> HIDE DEF D
    <2>3. L[i] = h[i]
        BY <1>4, <2>2, Zenon
    <2> QED
        BY <2>3
<1>7. \A i \in 1..N : i \in S
    <2> HIDE DEF S
    <2> QED
        BY <1>1, <1>6, Downwards
<1>8. L = [i \in 1..N |-> L[i]] /\ h = [i \in 1..N |-> h[i]]
    <2> HIDE DEF D
    <2> QED
        BY <1>4, Zenon
<1>9. \A i \in 1..N : L[i] = h[i]
    BY <1>7
<1>10. L = h
    BY <1>8, <1>9, Zenon
<1> QED
    BY <1>10 DEF L

\* What matchhere finds: the longest match of the pattern from p on is there.
Longests(re, t, p) == [i \in 1..Len(t) + 1 |-> Longest(re, t, p, i)]
Found(re, t, p) == [i \in 1..Len(t) + 1 |-> Longest(re, t, p, i) >= 0]
HereOf(re, t, h, p) ==
    IF p > Len(re) THEN [i \in 1..Len(t) + 1 |-> TRUE]
    ELSE IF Starred(re, p) THEN MatchStar(re[p], t, h[p + 2])
    ELSE IF AtEnd(re, p) THEN [i \in 1..Len(t) + 1 |-> i > Len(t)]
    ELSE [i \in 1..Len(t) + 1 |-> i <= Len(t) /\ Hits(re[p], t[i]) /\ h[p + 1][i + 1]]
LenOf(re, t, h, p) ==
    IF p > Len(re) THEN [i \in 1..Len(t) + 1 |-> 0]
    ELSE IF Starred(re, p) THEN StarLen(re[p], t, h[p + 2])
    ELSE IF AtEnd(re, p) THEN [i \in 1..Len(t) + 1 |-> IF i > Len(t) THEN 0 ELSE -1]
    ELSE [i \in 1..Len(t) + 1 |-> IF i <= Len(t) /\ Hits(re[p], t[i]) THEN Longer(h[p + 1][i + 1]) ELSE -1]

LEMMA LongestRange ==
    ASSUME NEW C, NEW re, NEW t \in Seq(C), NEW p, NEW i \in 1..Len(t) + 1
    PROVE  /\ Longest(re, t, p, i) \in Int /\ Longest(re, t, p, i) >= -1 /\ Longest(re, t, p, i) <= Len(t) - i + 1
           /\ i + Longest(re, t, p, i) <= Len(t) + 1
<1>1. IsLongest(re, t, p, i, Longest(re, t, p, i))
    BY LongestIs
<1>2. Len(t) \in Nat /\ Longest(re, t, p, i) \in -1..Len(t) - i + 1
    BY <1>1, LenProperties DEF IsLongest
<1> QED
    BY <1>2

LEMMA FoundStep ==
    ASSUME NEW C, NEW re \in Seq(C), NEW t \in Seq(C), NEW h, NEW p \in 1..Len(re) + 1,
           \A q \in p + 1..Len(re) + 1 : h[q] = Found(re, t, q)
    PROVE  HereOf(re, t, h, p) = Found(re, t, p)
<1> DEFINE N == Len(t) + 1
           L(q, i) == Longest(re, t, q, i)
<1>1. Len(t) \in Nat /\ Len(re) \in Nat /\ p \in Nat /\ N \in Nat
    BY LenProperties
<1>2. \A i \in 1..N : LongestSteps(re, t, p, i)
    BY LongestStep
<1>3. \A q : \A i \in 1..N : L(q, i) \in Int
    BY LongestRange
<1>4. Starred(re, p) => p < Len(re) /\ ~AtEnd(re, p) /\ p + 2 \in p + 1..Len(re) + 1
    BY <1>1 DEF Starred, AtEnd
<1>5. AtEnd(re, p) => p = Len(re)
    BY DEF AtEnd
<1>6. \A q : Found(re, t, q) = [i \in 1..N |-> L(q, i) >= 0]
    BY DEF Found
<1>7. CASE p > Len(re)
    <2>1. \A i \in 1..N : (L(p, i) >= 0) = TRUE
        BY <1>2, <1>7 DEF LongestSteps
    <2> HIDE DEF L, N
    <2>2. [i \in 1..N |-> L(p, i) >= 0] = [i \in 1..N |-> TRUE]
        BY <2>1, Zenon
    <2> QED
        BY <1>6, <1>7, <2>2, Zenon DEF HereOf, N
<1>8. CASE p <= Len(re) /\ Starred(re, p)
    <2>1. h[p + 2] = Found(re, t, p + 2)
        BY <1>4, <1>8
    <2> DEFINE J == Found(re, t, p)
               G == h[p + 2]
    <2>2. ASSUME NEW i \in 1..N
          PROVE  (L(p, i) >= 0) <=> StarStops(G, i) \/ (i <= Len(t) /\ Hits(re[p], t[i]) /\ J[i + 1])
        <3> DEFINE a == L(p + 2, i)
                   b == L(p, i + 1)
                   x == L(p, i)
        <3>1. x = IF i > Len(t) \/ ~Hits(re[p], t[i]) THEN a ELSE Better(a, Longer(b))
            BY <1>2, <1>8 DEF LongestSteps
        <3>2. StarStops(G, i) <=> a >= 0
            BY <2>1, <1>6, Zenon DEF StarStops
        <3>3. i <= Len(t) => i + 1 \in 1..N
            BY <1>1
        <3>4. i <= Len(t) => (J[i + 1] <=> b >= 0) /\ b \in Int
            BY <1>3, <1>6, <3>3, Zenon
        <3>5. a \in Int
            BY <1>3
        <3>6. i <= Len(t) => (Better(a, Longer(b)) >= 0 <=> a >= 0 \/ b >= 0)
            <4> HIDE DEF a, b
            <4> QED
                BY <3>4, <3>5 DEF Better, Longer
        <3>7. i > Len(t) <=> ~(i <= Len(t))
            BY <1>1
        <3> HIDE DEF a, b, x, J, G, L
        <3> QED
            BY <3>1, <3>2, <3>4, <3>6, <3>7 DEF x
    <2> HIDE DEF J, G, L
    <2>3. J = [i \in 1..N |-> StarStops(G, i) \/ (i <= Len(t) /\ Hits(re[p], t[i]) /\ J[i + 1])]
        <3> DEFINE D(i) == StarStops(G, i) \/ (i <= Len(t) /\ Hits(re[p], t[i]) /\ J[i + 1])
        <3>1. \A i \in 1..N : (L(p, i) >= 0) = D(i)
            BY <2>2
        <3>2. J = [i \in 1..N |-> L(p, i) >= 0]
            BY <1>6, Zenon DEF J
        <3> HIDE DEF N, D
        <3>3. J = [i \in 1..N |-> D(i)]
            BY <3>1, <3>2, Zenon
        <3> QED
            BY <3>3, Zenon DEF D
    <2>4. StarRec(re[p], t, G, J)
        BY <2>3, Zenon DEF StarRec
    <2>5. MatchStar(re[p], t, G) = J
        BY <2>4, MatchStarIs
    <2>6. ~(p > Len(re))
        BY <1>1, <1>8
    <2> QED
        BY <1>8, <2>5, <2>6, Zenon DEF HereOf, J, G
<1>9. CASE AtEnd(re, p)
    <2>1. \A i \in 1..N : (L(p, i) >= 0) <=> i > Len(t)
        BY <1>2, <1>9 DEF LongestSteps
    <2> DEFINE x(i) == L(p, i) >= 0
               y(i) == i > Len(t)
    <2>2. \A i \in 1..N : x(i) = y(i)
        BY <2>1
    <2>3. [i \in 1..N |-> x(i)] = [i \in 1..N |-> y(i)]
        <3> HIDE DEF x, y, N
        <3> QED
            BY <2>2, Zenon
    <2>4. ~(p > Len(re)) /\ ~Starred(re, p)
        BY <1>1, <1>4, <1>5, <1>9
    <2> QED
        BY <1>6, <1>9, <2>3, <2>4, Zenon DEF HereOf
<1>10. CASE p <= Len(re) /\ ~AtEnd(re, p) /\ ~Starred(re, p)
    <2>1. h[p + 1] = Found(re, t, p + 1)
        <3>1. p + 1 \in p + 1..Len(re) + 1
            BY <1>1, <1>10
        <3> QED
            BY <3>1
    <2> DEFINE x(i) == L(p, i) >= 0
               y(i) == i <= Len(t) /\ Hits(re[p], t[i]) /\ h[p + 1][i + 1]
    <2>2. ASSUME NEW i \in 1..N PROVE x(i) = y(i)
        <3> DEFINE b == L(p + 1, i + 1)
        <3>1. L(p, i) = IF i <= Len(t) /\ Hits(re[p], t[i]) THEN Longer(b) ELSE -1
            BY <1>2, <1>10 DEF LongestSteps
        <3>2. i <= Len(t) => i + 1 \in 1..N
            BY <1>1
        <3>3. i <= Len(t) => (h[p + 1][i + 1] <=> b >= 0) /\ b \in Int
            BY <1>3, <1>6, <2>1, <3>2, Zenon
        <3>4. b \in Int => (Longer(b) >= 0 <=> b >= 0)
            BY DEF Longer
        <3>5. ~(-1 >= 0)
            OBVIOUS
        <3> HIDE DEF b, L
        <3>6. x(i) <=> y(i)
            BY <3>1, <3>3, <3>4, <3>5
        <3> QED
            BY <3>6
    <2>3. [i \in 1..N |-> x(i)] = [i \in 1..N |-> y(i)]
        <3> HIDE DEF x, y, N
        <3> QED
            BY <2>2, Zenon
    <2>4. ~(p > Len(re))
        BY <1>1, <1>10
    <2> QED
        BY <1>6, <1>10, <2>3, <2>4, Zenon DEF HereOf
<1>11. p > Len(re) \/ p <= Len(re)
    BY <1>1
<1> QED
    BY <1>7, <1>8, <1>9, <1>10, <1>11

LEMMA MatchHereIs ==
    ASSUME NEW C, NEW re \in Seq(C), NEW t \in Seq(C), NEW p \in 1..Len(re) + 1
    PROVE  MatchHere(re, t)[p] = Found(re, t, p)
<1> DEFINE N == Len(re) + 1
           L == MatchHere(re, t)
           w == [q \in 1..N |-> Found(re, t, q)]
           Rec(h) == h = [q \in 1..N |-> HereOf(re, t, h, q)]
           S == {q \in 1..N : L[q] = Found(re, t, q)}
<1>1. N \in Nat /\ Len(re) \in Nat
    BY LenProperties
<1>2. L = CHOOSE h : Rec(h)
    BY DEF MatchHere, HereOf
<1>3. Rec(w)
    <2>1. \A q \in 1..N : w[q] = Found(re, t, q)
        OBVIOUS
    <2>2. \A q \in 1..N : \A k \in q + 1..N : k \in 1..N
        BY <1>1
    <2>3. ASSUME NEW q \in 1..N PROVE HereOf(re, t, w, q) = Found(re, t, q)
        <3>1. \A k \in q + 1..Len(re) + 1 : w[k] = Found(re, t, k)
            BY <2>1, <2>2
        <3> HIDE DEF w
        <3> QED
            BY <3>1, FoundStep
    <2> HIDE DEF N
    <2> QED
        BY <2>3, Zenon
<1>4. Rec(L)
    <2> HIDE DEF Rec, L, w
    <2> QED
        BY <1>2, <1>3
<1> HIDE DEF L
<1>5. ASSUME NEW q \in 1..N, \A k \in q + 1..N : k \in S PROVE q \in S
    <2>1. \A k \in q + 1..Len(re) + 1 : L[k] = Found(re, t, k)
        BY <1>5
    <2>2. HereOf(re, t, L, q) = Found(re, t, q)
        BY <2>1, FoundStep
    <2> HIDE DEF N
    <2>3. L[q] = HereOf(re, t, L, q)
        BY <1>4, Zenon
    <2> QED
        BY <2>2, <2>3
<1>6. \A q \in 1..N : q \in S
    <2> HIDE DEF S, N
    <2> QED
        BY <1>1, <1>5, Downwards
<1> QED
    BY <1>6 DEF L

\* What re_matchhere_len returns: the length of the longest match.
LEMMA LenStep ==
    ASSUME NEW C, NEW re \in Seq(C), NEW t \in Seq(C), NEW h, NEW p \in 1..Len(re) + 1,
           \A q \in p + 1..Len(re) + 1 : h[q] = Longests(re, t, q)
    PROVE  LenOf(re, t, h, p) = Longests(re, t, p)
<1> DEFINE N == Len(t) + 1
           L(q, i) == Longest(re, t, q, i)
<1>1. Len(t) \in Nat /\ Len(re) \in Nat /\ p \in Nat /\ N \in Nat
    BY LenProperties
<1>2. \A i \in 1..N : LongestSteps(re, t, p, i)
    BY LongestStep
<1>3. Starred(re, p) => p < Len(re) /\ ~AtEnd(re, p) /\ p + 2 \in p + 1..Len(re) + 1
    BY <1>1 DEF Starred, AtEnd
<1>4. AtEnd(re, p) => p = Len(re)
    BY DEF AtEnd
<1>5. \A q : Longests(re, t, q) = [i \in 1..N |-> L(q, i)]
    BY DEF Longests
<1>6. \A i \in 1..N : i <= Len(t) => i + 1 \in 1..N
    BY <1>1
<1>7. CASE p > Len(re)
    <2>1. \A i \in 1..N : L(p, i) = 0
        BY <1>2, <1>7 DEF LongestSteps
    <2> HIDE DEF L, N
    <2>2. [i \in 1..N |-> L(p, i)] = [i \in 1..N |-> 0]
        BY <2>1, Zenon
    <2> QED
        BY <1>5, <1>7, <2>2, Zenon DEF LenOf, N
<1>8. CASE p <= Len(re) /\ Starred(re, p)
    <2>1. h[p + 2] = Longests(re, t, p + 2)
        BY <1>3, <1>8
    <2> DEFINE J == Longests(re, t, p)
               G == h[p + 2]
               x(i) == L(p, i)
               y(i) == IF i > Len(t) \/ ~Hits(re[p], t[i]) THEN G[i] ELSE Better(G[i], Longer(J[i + 1]))
    <2>2. ASSUME NEW i \in 1..N PROVE x(i) = y(i)
        <3>1. x(i) = IF i > Len(t) \/ ~Hits(re[p], t[i]) THEN L(p + 2, i) ELSE Better(L(p + 2, i), Longer(L(p, i + 1)))
            <4>1. LongestSteps(re, t, p, i)
                BY <1>2
            <4> QED
                BY <4>1, <1>8, Zenon DEF LongestSteps
        <3>2. G[i] = L(p + 2, i)
            <4>1. G = [j \in 1..N |-> L(p + 2, j)]
                BY <1>5, <2>1
            <4> HIDE DEF L, N, G
            <4> QED
                BY <4>1
        <3>3. i <= Len(t) => J[i + 1] = L(p, i + 1)
            BY <1>5, <1>6, Zenon
        <3>4. i > Len(t) <=> ~(i <= Len(t))
            BY <1>1
        <3> HIDE DEF J, G, L
        <3> QED
            BY <3>1, <3>2, <3>3, <3>4, Zenon
    <2>3. J = [i \in 1..N |-> y(i)]
        <3> DEFINE X == [i \in 1..N |-> x(i)]
        <3>1. J = X
            BY <1>5, Zenon
        <3> HIDE DEF N, x, y, J
        <3> QED
            BY <2>2, <3>1, Zenon
    <2>4. StarLenRec(re[p], t, G, J)
        <3> HIDE DEF J, G
        <3> QED
            BY <2>3, Zenon DEF StarLenRec
    <2>5. StarLen(re[p], t, G) = J
        <3> HIDE DEF J, G
        <3> QED
            BY <2>4, StarLenIs
    <2>6. ~(p > Len(re))
        BY <1>1, <1>8
    <2> QED
        BY <1>8, <2>5, <2>6, Zenon DEF LenOf
<1>9. CASE AtEnd(re, p)
    <2> DEFINE x(i) == L(p, i)
               y(i) == IF i > Len(t) THEN 0 ELSE -1
    <2>1. \A i \in 1..N : x(i) = y(i)
        BY <1>2, <1>9 DEF LongestSteps
    <2>2. [i \in 1..N |-> x(i)] = [i \in 1..N |-> y(i)]
        <3> HIDE DEF x, y, N
        <3> QED
            BY <2>1, Zenon
    <2>3. ~(p > Len(re)) /\ ~Starred(re, p)
        BY <1>1, <1>3, <1>4, <1>9
    <2> QED
        BY <1>5, <1>9, <2>2, <2>3, Zenon DEF LenOf
<1>10. CASE p <= Len(re) /\ ~AtEnd(re, p) /\ ~Starred(re, p)
    <2>1. h[p + 1] = Longests(re, t, p + 1)
        <3>1. p + 1 \in p + 1..Len(re) + 1
            BY <1>1, <1>10
        <3> QED
            BY <3>1
    <2> DEFINE x(i) == L(p, i)
               y(i) == IF i <= Len(t) /\ Hits(re[p], t[i]) THEN Longer(h[p + 1][i + 1]) ELSE -1
    <2>2. ASSUME NEW i \in 1..N PROVE x(i) = y(i)
        <3>1. L(p, i) = IF i <= Len(t) /\ Hits(re[p], t[i]) THEN Longer(L(p + 1, i + 1)) ELSE -1
            <4>1. LongestSteps(re, t, p, i)
                BY <1>2
            <4> QED
                BY <4>1, <1>10, Zenon DEF LongestSteps
        <3>2. i <= Len(t) => h[p + 1][i + 1] = L(p + 1, i + 1)
            <4>1. h[p + 1] = [j \in 1..N |-> L(p + 1, j)]
                BY <1>5, <2>1
            <4> HIDE DEF L, N
            <4> QED
                BY <1>6, <4>1
        <3> HIDE DEF L
        <3> QED
            BY <3>1, <3>2, Zenon
    <2>3. [i \in 1..N |-> x(i)] = [i \in 1..N |-> y(i)]
        <3> HIDE DEF x, y, N
        <3> QED
            BY <2>2, Zenon
    <2>4. ~(p > Len(re))
        BY <1>1, <1>10
    <2> QED
        BY <1>5, <1>10, <2>3, <2>4, Zenon DEF LenOf
<1>11. p > Len(re) \/ p <= Len(re)
    BY <1>1
<1> QED
    BY <1>7, <1>8, <1>9, <1>10, <1>11

LEMMA MatchLenIs ==
    ASSUME NEW C, NEW re \in Seq(C), NEW t \in Seq(C), NEW p \in 1..Len(re) + 1
    PROVE  MatchLen(re, t)[p] = Longests(re, t, p)
<1> DEFINE N == Len(re) + 1
           L == MatchLen(re, t)
           w == [q \in 1..N |-> Longests(re, t, q)]
           Rec(h) == h = [q \in 1..N |-> LenOf(re, t, h, q)]
           S == {q \in 1..N : L[q] = Longests(re, t, q)}
<1>1. N \in Nat /\ Len(re) \in Nat
    BY LenProperties
<1>2. L = CHOOSE h : Rec(h)
    BY DEF MatchLen, LenOf
<1>3. Rec(w)
    <2>1. \A q \in 1..N : w[q] = Longests(re, t, q)
        OBVIOUS
    <2>2. \A q \in 1..N : \A k \in q + 1..N : k \in 1..N
        BY <1>1
    <2>3. ASSUME NEW q \in 1..N PROVE LenOf(re, t, w, q) = Longests(re, t, q)
        <3>1. \A k \in q + 1..Len(re) + 1 : w[k] = Longests(re, t, k)
            BY <2>1, <2>2
        <3> HIDE DEF w
        <3> QED
            BY <3>1, LenStep
    <2> HIDE DEF N
    <2> QED
        BY <2>3, Zenon
<1>4. Rec(L)
    <2> HIDE DEF Rec, L, w
    <2> QED
        BY <1>2, <1>3
<1> HIDE DEF L
<1>5. ASSUME NEW q \in 1..N, \A k \in q + 1..N : k \in S PROVE q \in S
    <2>1. \A k \in q + 1..Len(re) + 1 : L[k] = Longests(re, t, k)
        BY <1>5
    <2>2. LenOf(re, t, L, q) = Longests(re, t, q)
        BY <2>1, LenStep
    <2> HIDE DEF N
    <2>3. L[q] = LenOf(re, t, L, q)
        BY <1>4, Zenon
    <2> QED
        BY <2>2, <2>3
<1>6. \A q \in 1..N : q \in S
    <2> HIDE DEF S, N
    <2> QED
        BY <1>1, <1>5, Downwards
<1> QED
    BY <1>6 DEF L

\* The anchor is no part of the pattern's language, and the property's lengths
\* are those of the longest match.
LEMMA FirstFacts ==
    ASSUME NEW C, NEW re \in Seq(C)
    PROVE  First(re) \in 1..Len(re) + 1 /\ (EndsText(re) => First(re) <= Len(re))
<1>1. Len(re) \in Nat /\ (re # <<>> <=> Len(re) > 0)
    BY LenProperties, EmptySeq
<1>2. CASE Anchored(re)
    <2>1. re # <<>> /\ re[1] = "^" /\ First(re) = 2
        BY <1>2 DEF Anchored, First
    <2>2. EndsText(re) => Len(re) # 1
        BY <2>1 DEF EndsText
    <2>3. Len(re) > 0 /\ First(re) = 2
        BY <1>1, <2>1
    <2>4. Len(re) \in Nat
        BY <1>1
    <2> DEFINE n == Len(re)
               x == First(re)
    <2>5. n \in Nat /\ n > 0 /\ x = 2
        BY <2>3, <2>4
    <2> HIDE DEF n, x
    <2>6. x \in 1..n + 1 /\ (n # 1 => x <= n)
        BY <2>5
    <2> QED
        BY <2>2, <2>6 DEF n, x
<1>3. CASE ~Anchored(re)
    <2>1. First(re) = 1
        BY <1>3 DEF First
    <2>2. EndsText(re) => re # <<>>
        BY DEF EndsText
    <2> QED
        BY <1>1, <2>1, <2>2
<1> QED
    BY <1>2, <1>3

LEMMA LensAtIs ==
    ASSUME NEW C, NEW re \in Seq(C), NEW t \in Seq(C), NEW i \in 1..Len(t) + 1
    PROVE  LensAt(re, Words(re, t)[First(re)], t, i) = Lens(re, t, First(re), i)
<1> DEFINE p == First(re)
           W == Words(re, t)[p]
<1>1. Len(t) \in Nat /\ i \in Nat
    BY LenProperties
<1>2. EndsText(re) => p <= Len(re)
    BY FirstFacts
<1> HIDE DEF W
<1>3. \A l \in 0..Len(t) - i + 1 :
        Good(re, t, p, i, i + l) <=> SubSeq(t, i, i + l - 1) \in W /\ (EndsText(re) => i + l = Len(t) + 1)
    BY <1>2 DEF Good, W
<1> HIDE DEF p
<1>4. LensAt(re, W, t, i) = {l \in 0..Len(t) - i + 1 : SubSeq(t, i, i + l - 1) \in W /\ (EndsText(re) => i + l = Len(t) + 1)}
    BY DEF LensAt
<1>5. Lens(re, t, p, i) = {l \in 0..Len(t) - i + 1 : Good(re, t, p, i, i + l)}
    BY DEF Lens
<1> QED
    BY <1>3, <1>4, <1>5 DEF p, W

\* The longest matches by position, as the property counts them.
Best(re, t) == [i \in 1..Len(t) + 1 |->
        LET lens == LensAt(re, Language(re, Range(t), Len(t))[First(re)], t, i) IN IF lens = {} THEN -1 ELSE Max(lens)]
LEMMA BestIs ==
    ASSUME NEW C, NEW re \in Seq(C), NEW t \in Seq(C)
    PROVE  /\ Best(re, t) = Longests(re, t, First(re)) /\ MatchAt(re, t) = Longests(re, t, First(re))
           /\ MatchHere(re, t)[First(re)] = Found(re, t, First(re))
<1> DEFINE p == First(re)
           N == Len(t) + 1
           lens(i) == LensAt(re, Words(re, t)[p], t, i)
           x(i) == IF lens(i) = {} THEN -1 ELSE Max(lens(i))
           y(i) == Longest(re, t, p, i)
<1>1. p \in 1..Len(re) + 1
    BY FirstFacts
<1>2. ASSUME NEW i \in 1..N PROVE x(i) = y(i)
    <2>1. lens(i) = Lens(re, t, p, i)
        BY LensAtIs
    <2> HIDE DEF lens, p
    <2> QED
        BY <2>1, Zenon DEF Longest
<1>3. Best(re, t) = [i \in 1..N |-> x(i)]
    BY Zenon DEF Best, Words
<1>4. Longests(re, t, p) = [i \in 1..N |-> y(i)]
    BY Zenon DEF Longests
<1>5. Best(re, t) = Longests(re, t, p)
    <2> HIDE DEF N, x, y
    <2> QED
        BY <1>2, <1>3, <1>4, Zenon
<1> HIDE DEF p
<1>6. MatchLen(re, t)[p] = Longests(re, t, p)
    BY <1>1, MatchLenIs
<1>7. MatchHere(re, t)[p] = Found(re, t, p)
    BY <1>1, MatchHereIs
<1> QED
    BY <1>5, <1>6, <1>7, Zenon DEF MatchAt, p

\* findall and sub go from one position to the one behind its match.
Sizes(t, m) == m \in [1..Len(t) + 1 -> Int] /\ \A i \in 1..Len(t) + 1 : m[i] >= -1 /\ i + m[i] <= Len(t) + 1
Joins(t, m, put, J) == J = [i \in 1..Len(t) + 1 |-> IF i > Len(t) THEN <<>> ELSE put[i] \o J[i + Stride(m[i])]]
JoinSteps(t, m, put, D, J) ==
    /\ J \in [1..Len(t) + 1 -> Seq(D)] /\ J[Len(t) + 1] = <<>>
    /\ \A i \in 1..Len(t) : J[i] = put[i] \o J[i + Stride(m[i])]

LEMMA StrideOnwards ==
    ASSUME NEW C, NEW t \in Seq(C), NEW m, Sizes(t, m), NEW i \in 1..Len(t)
    PROVE  Stride(m[i]) \in Nat /\ i + Stride(m[i]) \in i + 1..Len(t) + 1
<1>1. Len(t) \in Nat /\ i \in 1..Len(t) + 1
    BY LenProperties
<1>2. m[i] \in Int /\ m[i] >= -1 /\ i + m[i] <= Len(t) + 1
    BY <1>1 DEF Sizes
<1> DEFINE x == m[i]
<1>3. x \in Int /\ i + x <= Len(t) + 1
    BY <1>2
<1> HIDE DEF x
<1> QED
    BY <1>1, <1>3 DEF Stride, x

LEMMA JoinExists ==
    ASSUME NEW C, NEW t \in Seq(C), NEW m, Sizes(t, m), NEW D, NEW put \in [1..Len(t) -> Seq(D)]
    PROVE  \E J : Joins(t, m, put, J)
<1> DEFINE n == Len(t)
           V == Seq(D)
           next == [i \in 1..n |-> i + Stride(m[i])]
           add == [i \in 1..n |-> [v \in V |-> put[i] \o v]]
<1>1. n \in Nat /\ <<>> \in V
    BY LenProperties
<1>2. Onwards(n, next)
    <2>1. \A i \in 1..n : i + Stride(m[i]) \in i + 1..n + 1
        BY StrideOnwards
    <2>2. \A i \in 1..n : i + Stride(m[i]) \in Nat /\ i < i + Stride(m[i]) /\ i + Stride(m[i]) <= n + 1
        BY <1>1, <2>1
    <2> HIDE DEF n
    <2>3. next \in [1..n -> Nat] /\ \A i \in 1..n : next[i] = i + Stride(m[i])
        BY <2>2
    <2> HIDE DEF next
    <2> QED
        BY <2>2, <2>3 DEF Onwards
<1>3. add \in [1..n -> [V -> V]]
    <2>1. \A i \in 1..n : \A v \in V : put[i] \o v \in V
        BY ConcatProperties
    <2> HIDE DEF n, V
    <2> QED
        BY <2>1
<1>4. PICK J : Recurs(n, V, <<>>, next, add, J)
    <2> HIDE DEF n, V, next, add
    <2> QED
        BY <1>1, <1>2, <1>3, Recursion
<1>5. J \in [1..n + 1 -> V] /\ J[n + 1] = <<>> /\ \A i \in 1..n : J[i] = add[i][J[next[i]]]
    <2> HIDE DEF n, V, next, add
    <2> QED
        BY <1>4 DEF Recurs
<1>6. ASSUME NEW i \in 1..n + 1 PROVE J[i] = IF i > n THEN <<>> ELSE put[i] \o J[i + Stride(m[i])]
    <2>1. CASE i = n + 1
        BY <1>1, <1>5, <2>1
    <2>2. CASE i # n + 1
        <3>1. i \in 1..n /\ ~(i > n)
            BY <1>1, <2>2
        <3>2. next[i] = i + Stride(m[i]) /\ i + Stride(m[i]) \in 1..n + 1
            BY <1>1, <3>1, StrideOnwards
        <3> DEFINE v == J[i + Stride(m[i])]
        <3>3. v \in V
            BY <1>5, <3>2
        <3>4. J[i] = add[i][v]
            BY <1>5, <3>1, <3>2
        <3> HIDE DEF v, V, n
        <3>5. add[i][v] = put[i] \o v
            BY <3>1, <3>3
        <3> QED
            BY <3>1, <3>4, <3>5 DEF v
    <2> QED
        BY <2>1, <2>2
<1>7. J = [i \in 1..n + 1 |-> IF i > n THEN <<>> ELSE put[i] \o J[i + Stride(m[i])]]
    <2> DEFINE x(i) == IF i > n THEN <<>> ELSE put[i] \o J[i + Stride(m[i])]
    <2>1. \A i \in 1..n + 1 : J[i] = x(i)
        BY <1>6
    <2>2. J = [i \in 1..n + 1 |-> J[i]]
        BY <1>5
    <2> HIDE DEF n, x
    <2>3. J = [i \in 1..n + 1 |-> x(i)]
        BY <2>1, <2>2, Zenon
    <2> QED
        BY <2>3, Zenon DEF x
<1> QED
    BY <1>7, Zenon DEF Joins

LEMMA JoinFacts ==
    ASSUME NEW C, NEW t \in Seq(C), NEW m, Sizes(t, m), NEW D, NEW put \in [1..Len(t) -> Seq(D)], NEW J, Joins(t, m, put, J)
    PROVE  JoinSteps(t, m, put, D, J)
<1> DEFINE n == Len(t)
           N == n + 1
           S == {i \in 1..N : J[i] \in Seq(D)}
<1>1. n \in Nat /\ N \in Nat /\ <<>> \in Seq(D) /\ N \in 1..N /\ N > n
    BY LenProperties
<1>2. J = [i \in 1..N |-> IF i > n THEN <<>> ELSE put[i] \o J[i + Stride(m[i])]]
    BY Zenon DEF Joins
<1>3. J[N] = <<>>
    <2> HIDE DEF n, N
    <2> QED
        BY <1>1, <1>2, Zenon
<1>4. ASSUME NEW i \in 1..n PROVE J[i] = put[i] \o J[i + Stride(m[i])]
    <2>1. i \in 1..N /\ ~(i > n)
        BY <1>1
    <2> HIDE DEF n, N
    <2> QED
        BY <1>2, <2>1, Zenon
<1>5. ASSUME NEW i \in 1..N, \A k \in i + 1..N : k \in S PROVE i \in S
    <2>1. CASE i = N
        BY <1>1, <1>3, <2>1
    <2>2. CASE i # N
        <3>1. i \in 1..n
            BY <1>1, <2>2
        <3>2. i + Stride(m[i]) \in i + 1..N
            BY <3>1, StrideOnwards
        <3>3. J[i + Stride(m[i])] \in Seq(D)
            BY <1>5, <3>2
        <3>4. put[i] \o J[i + Stride(m[i])] \in Seq(D)
            BY <3>1, <3>3, ConcatProperties
        <3> HIDE DEF n, N
        <3> QED
            BY <1>4, <3>1, <3>4
    <2> QED
        BY <2>1, <2>2
<1>6. \A i \in 1..N : i \in S
    <2> HIDE DEF S, N
    <2> QED
        BY <1>1, <1>5, Downwards
<1>7. J \in [1..N -> Seq(D)]
    <2> HIDE DEF N, n
    <2>1. J = [i \in 1..N |-> J[i]]
        BY <1>2
    <2>2. \A i \in 1..N : J[i] \in Seq(D)
        BY <1>6
    <2> QED
        BY <2>1, <2>2
<1> QED
    BY <1>3, <1>4, <1>7 DEF JoinSteps

\* The places of the matches that findall takes from i on.
Places(m, t, i, all, at) ==
    /\ at \in [1..Len(all) -> i..Len(t)]
    /\ \A k \in 1..Len(all) : m[at[k]] >= 0 /\ all[k] = SubSeq(t, at[k], at[k] + m[at[k]] - 1)
    /\ \A k, l \in 1..Len(all) : k < l => at[k] + Stride(m[at[k]]) <= at[l]
    /\ \A x \in i..Len(t) : m[x] >= 0 => \E k \in 1..Len(all) : at[k] <= x /\ x < at[k] + Stride(m[at[k]])
Taken(m, t, i, all) == \E at : Places(m, t, i, all, at)
Behind(m, i, j) == j = i + Stride(m[i])

LEMMA TakenNone ==
    ASSUME NEW C, NEW t \in Seq(C), NEW m PROVE Taken(m, t, Len(t) + 1, <<>>)
<1> DEFINE n == Len(t)
           at == [k \in 1..0 |-> k]
<1>1. n \in Nat /\ Len(<<>>) = 0
    BY LenProperties, EmptySeq
<1>2. \A x \in n + 1..n : FALSE
    BY <1>1
<1>3. \A k \in 1..0 : FALSE
    OBVIOUS
<1>4. at \in [1..0 -> n + 1..n]
    BY <1>3
<1> HIDE DEF at
<1>5. Places(m, t, n + 1, <<>>, at)
    BY <1>1, <1>2, <1>3, <1>4 DEF Places
<1> QED
    BY <1>5 DEF Taken

LEMMA TakenSkip ==
    ASSUME NEW C, NEW t \in Seq(C), NEW m, Sizes(t, m), NEW i \in 1..Len(t), NEW s, NEW j, Behind(m, i, j), m[i] < 0,
           Taken(m, t, j, s)
    PROVE  Taken(m, t, i, s)
<1> DEFINE n == Len(t)
<1>1. n \in Nat /\ j \in i + 1..n + 1 /\ i \in Nat
    BY LenProperties, StrideOnwards DEF Behind
<1>2. m[i] \in Int
    BY <1>1 DEF Sizes
<1>3. j = i + 1
    <2>1. Stride(m[i]) = 1
        BY <1>2 DEF Stride
    <2> QED
        BY <2>1 DEF Behind
<1>4. PICK at : Places(m, t, j, s, at)
    BY DEF Taken
<1>5. /\ at \in [1..Len(s) -> j..n]
      /\ \A k \in 1..Len(s) : m[at[k]] >= 0 /\ s[k] = SubSeq(t, at[k], at[k] + m[at[k]] - 1)
      /\ \A k, l \in 1..Len(s) : k < l => at[k] + Stride(m[at[k]]) <= at[l]
      /\ \A x \in j..n : m[x] >= 0 => \E k \in 1..Len(s) : at[k] <= x /\ x < at[k] + Stride(m[at[k]])
    BY <1>4 DEF Places
<1>6. at \in [1..Len(s) -> i..n]
    <2>1. j..n \subseteq i..n
        BY <1>1
    <2> DEFINE K == 1..Len(s)
               A == j..n
               B == i..n
    <2> HIDE DEF K, A, B
    <2>2. at \in [K -> A] /\ A \subseteq B
        BY <1>5, <2>1 DEF K, A, B
    <2>3. at \in [K -> B]
        BY <2>2
    <2> QED
        BY <2>3 DEF K, B
<1>7. \A x \in i..n : m[x] >= 0 => x \in j..n
    <2>1. \A x \in i..n : x = i \/ x \in j..n
        BY <1>1, <1>3
    <2>2. ~(m[i] >= 0)
        BY <1>2
    <2> QED
        BY <2>1, <2>2
<1>8. Places(m, t, i, s, at)
    BY <1>5, <1>6, <1>7 DEF Places
<1> QED
    BY <1>8 DEF Taken

LEMMA OneFacts == ASSUME NEW D, NEW w \in D PROVE <<w>> \in Seq(D) /\ Len(<<w>>) = 1 /\ <<w>>[1] = w
OBVIOUS

LEMMA PrependFacts ==
    ASSUME NEW D, NEW w \in D, NEW s \in Seq(D)
    PROVE  /\ <<w>> \o s \in Seq(D) /\ Len(<<w>> \o s) = Len(s) + 1 /\ (<<w>> \o s)[1] = w
           /\ \A k \in 1..Len(s) : (<<w>> \o s)[k + 1] = s[k]
<1> DEFINE a == <<w>>
           N == Len(s)
           all == a \o s
<1>1. a \in Seq(D) /\ Len(a) = 1 /\ a[1] = w /\ N \in Nat
    BY OneFacts, LenProperties
<1> HIDE DEF a
<1>2. /\ all \in Seq(D) /\ Len(all) = Len(a) + Len(s)
      /\ \A k \in 1..Len(a) + Len(s) : all[k] = IF k <= Len(a) THEN a[k] ELSE s[k - Len(a)]
    BY <1>1, ConcatProperties
<1> HIDE DEF all
<1>3. Len(all) = 1 + N /\ \A k \in 1..1 + N : all[k] = IF k <= 1 THEN a[k] ELSE s[k - 1]
    BY <1>1, <1>2
<1>4. all[1] = a[1]
    BY <1>1, <1>3
<1>5. ASSUME NEW k \in 1..N PROVE all[k + 1] = s[k]
    <2>1. k + 1 \in 1..1 + N /\ ~(k + 1 <= 1) /\ (k + 1) - 1 = k
        BY <1>1
    <2> QED
        BY <1>3, <2>1
<1> QED
    BY <1>1, <1>2, <1>3, <1>4, <1>5 DEF all, a

LEMMA TakenOne ==
    ASSUME NEW C, NEW t \in Seq(C), NEW m, Sizes(t, m), NEW i \in 1..Len(t), NEW D, NEW s \in Seq(D), NEW w \in D,
           NEW j, Behind(m, i, j), m[i] >= 0, w = SubSeq(t, i, i + m[i] - 1), Taken(m, t, j, s)
    PROVE  Taken(m, t, i, <<w>> \o s)
<1> DEFINE n == Len(t)
           all == <<w>> \o s
           N == Len(s)
           G(x) == m[x] >= 0
           T(x) == SubSeq(t, x, x + m[x] - 1)
           E(x) == x + Stride(m[x])
<1>1. n \in Nat /\ j \in i + 1..n + 1 /\ i \in Nat /\ N \in Nat
    BY LenProperties, StrideOnwards DEF Behind
<1>2. Len(all) = N + 1 /\ all[1] = w /\ \A k \in 1..N : all[k + 1] = s[k]
    <2>1. s \in Seq(D) /\ w \in D
        OBVIOUS
    <2> HIDE DEF T, E, G
    <2> QED
        BY ONLY <2>1, PrependFacts
<1>3. PICK at : Places(m, t, j, s, at)
    BY DEF Taken
<1>4. /\ at \in [1..N -> j..n]
      /\ \A k \in 1..N : G(at[k]) /\ s[k] = T(at[k])
      /\ \A k, l \in 1..N : k < l => E(at[k]) <= at[l]
      /\ \A x \in j..n : G(x) => \E k \in 1..N : at[k] <= x /\ x < E(at[k])
    BY <1>3 DEF Places
<1> DEFINE new == [k \in 1..N + 1 |-> IF k = 1 THEN i ELSE at[k - 1]]
<1>5. \A k \in 1..N : at[k] \in j..n /\ at[k] \in i..n
    BY <1>1, <1>4
<1>6. \A k \in 1..N + 1 : k # 1 => k - 1 \in 1..N /\ (k - 1) + 1 = k
    BY <1>1
<1>7. i \in i..n
    BY <1>1
<1>8. new \in [1..N + 1 -> i..n] /\ new[1] = i /\ \A k \in 1..N + 1 : k # 1 => new[k] = at[k - 1]
    <2>1. \A k \in 1..N + 1 : (IF k = 1 THEN i ELSE at[k - 1]) \in i..n
        BY <1>5, <1>6, <1>7
    <2> DEFINE B == i..n
               K == 1..N + 1
    <2>2. 1 \in K
        BY <1>1
    <2> HIDE DEF B, K
    <2>3. new \in [K -> B]
        BY <2>1 DEF B, K
    <2> QED
        BY <2>2, <2>3 DEF B, K
<1>9. E(i) = j
    BY DEF Behind
<1>10. G(i) /\ w = T(i)
    OBVIOUS
<1> HIDE DEF new, all, G, T, E
<1>11. ASSUME NEW k \in 1..N + 1 PROVE G(new[k]) /\ all[k] = T(new[k])
    <2>1. CASE k = 1
        BY <1>2, <1>8, <1>10, <2>1
    <2>2. CASE k # 1
        BY <1>2, <1>4, <1>6, <1>8, <2>2
    <2> QED
        BY <2>1, <2>2
<1>12. ASSUME NEW k \in 1..N + 1, NEW l \in 1..N + 1, k < l PROVE E(new[k]) <= new[l]
    <2>1. l # 1 /\ l - 1 \in 1..N /\ new[l] = at[l - 1]
        BY <1>1, <1>6, <1>8, <1>12
    <2>2. CASE k = 1
        <3>1. at[l - 1] \in j..n
            BY <1>5, <2>1
        <3> QED
            BY <1>1, <1>8, <1>9, <2>1, <2>2, <3>1
    <2>3. CASE k # 1
        <3>1. k - 1 \in 1..N /\ new[k] = at[k - 1] /\ k - 1 < l - 1
            BY <1>1, <1>6, <1>8, <1>12, <2>3
        <3> QED
            BY <1>4, <2>1, <3>1
    <2> QED
        BY <2>2, <2>3
<1>13. ASSUME NEW x \in i..n, G(x) PROVE \E k \in 1..N + 1 : new[k] <= x /\ x < E(new[k])
    <2>1. CASE x < j
        <3>1. 1 \in 1..N + 1 /\ i <= x
            BY <1>1
        <3> QED
            BY <1>8, <1>9, <2>1, <3>1
    <2>2. CASE ~(x < j)
        <3>1. x \in j..n
            BY <1>1, <2>2
        <3>2. PICK k \in 1..N : at[k] <= x /\ x < E(at[k])
            BY <1>4, <1>13, <3>1
        <3>3. k + 1 \in 1..N + 1 /\ k + 1 # 1 /\ (k + 1) - 1 = k
            BY <1>1
        <3>4. new[k + 1] = at[k]
            BY <1>8, <3>3
        <3> QED
            BY <3>2, <3>3, <3>4
    <2> QED
        BY <2>1, <2>2
<1>14. /\ new \in [1..Len(all) -> i..n]
       /\ \A k \in 1..Len(all) : G(new[k]) /\ all[k] = T(new[k])
       /\ \A k, l \in 1..Len(all) : k < l => E(new[k]) <= new[l]
       /\ \A x \in i..n : G(x) => \E k \in 1..Len(all) : new[k] <= x /\ x < E(new[k])
    <2>1. Len(all) = N + 1
        BY <1>2
    <2> HIDE DEF N
    <2> QED
        BY <1>8, <1>11, <1>12, <1>13, <2>1
<1>15. Places(m, t, i, all, new)
    BY <1>14 DEF Places, G, T, E
<1> QED
    BY <1>15 DEF Taken, all

\* The letters of a sequence of texts, one text at a time.
LettersRec(s, h) == h = [k \in 1..Len(s) + 1 |-> IF k > Len(s) THEN 0 ELSE Len(s[k]) + h[k + 1]]
LetterSums(s) == CHOOSE h : LettersRec(s, h)

LEMMA LetterSumsFacts ==
    ASSUME NEW C, NEW s \in Seq(Seq(C))
    PROVE  /\ Letters(s) = LetterSums(s)[1] /\ LetterSums(s) \in [1..Len(s) + 1 -> Nat] /\ LetterSums(s)[Len(s) + 1] = 0
           /\ \A k \in 1..Len(s) : LetterSums(s)[k] = Len(s[k]) + LetterSums(s)[k + 1]
<1> DEFINE n == Len(s)
           N == n + 1
           next == [k \in 1..n |-> k + 1]
           add == [k \in 1..n |-> [v \in Nat |-> Len(s[k]) + v]]
           L == LetterSums(s)
           S == {k \in 1..N : L[k] \in Nat}
<1>1. n \in Nat /\ N \in Nat /\ N > n /\ N \in 1..N
    BY LenProperties
<1>2. \A k \in 1..n : Len(s[k]) \in Nat
    <2>1. TAKE k \in 1..n
    <2>2. s[k] \in Seq(C)
        BY ElementOfSeq
    <2> QED
        BY <2>2, LenProperties
<1>3. Onwards(n, next)
    <2>1. \A k \in 1..n : k + 1 \in Nat /\ k < k + 1 /\ k + 1 <= n + 1
        BY <1>1
    <2> HIDE DEF n
    <2>2. next \in [1..n -> Nat] /\ \A k \in 1..n : next[k] = k + 1
        BY <2>1
    <2> HIDE DEF next
    <2> QED
        BY <2>1, <2>2 DEF Onwards
<1>4. add \in [1..n -> [Nat -> Nat]]
    <2>1. \A k \in 1..n : \A v \in Nat : Len(s[k]) + v \in Nat
        BY <1>2
    <2> HIDE DEF n
    <2> QED
        BY <2>1
<1>5. PICK h : Recurs(n, Nat, 0, next, add, h)
    <2>1. 0 \in Nat
        OBVIOUS
    <2> HIDE DEF n, next, add
    <2> QED
        BY <1>1, <1>3, <1>4, <2>1, Recursion
<1>6. h \in [1..n + 1 -> Nat] /\ h[n + 1] = 0 /\ \A k \in 1..n : h[k] = add[k][h[next[k]]]
    <2> HIDE DEF n, next, add
    <2> QED
        BY <1>5 DEF Recurs
<1>7. ASSUME NEW k \in 1..N PROVE h[k] = IF k > n THEN 0 ELSE Len(s[k]) + h[k + 1]
    <2>1. CASE k = N
        BY <1>1, <1>6, <2>1
    <2>2. CASE k # N
        <3>1. k \in 1..n /\ ~(k > n) /\ k + 1 \in 1..n + 1
            BY <1>1, <2>2
        <3>2. next[k] = k + 1
            BY <3>1
        <3> DEFINE v == h[k + 1]
        <3>3. v \in Nat
            BY <1>6, <3>1
        <3>4. h[k] = add[k][v]
            BY <1>6, <3>1, <3>2
        <3> HIDE DEF v, n
        <3>5. add[k][v] = Len(s[k]) + v
            BY <3>1, <3>3
        <3> QED
            BY <3>1, <3>4, <3>5 DEF v
    <2> QED
        BY <2>1, <2>2
<1>8. LettersRec(s, h)
    <2> DEFINE x(k) == IF k > n THEN 0 ELSE Len(s[k]) + h[k + 1]
    <2>1. \A k \in 1..N : h[k] = x(k)
        BY <1>7
    <2>2. h = [k \in 1..N |-> h[k]]
        BY <1>6
    <2> HIDE DEF N, n, x
    <2>3. h = [k \in 1..N |-> x(k)]
        BY <2>1, <2>2, Zenon
    <2> QED
        BY <2>3, Zenon DEF LettersRec, x, n, N
<1>9. LettersRec(s, L)
    BY <1>8 DEF LetterSums
<1>10. Letters(s) = L[1]
    BY DEF Letters, LetterSums, LettersRec
<1> HIDE DEF L
<1>11. L = [k \in 1..N |-> IF k > n THEN 0 ELSE Len(s[k]) + L[k + 1]]
    BY <1>9, Zenon DEF LettersRec
<1>12. L[N] = 0
    <2> HIDE DEF n, N
    <2> QED
        BY <1>1, <1>11, Zenon
<1>13. ASSUME NEW k \in 1..n PROVE L[k] = Len(s[k]) + L[k + 1]
    <2>1. k \in 1..N /\ ~(k > n)
        BY <1>1
    <2> HIDE DEF n, N
    <2> QED
        BY <1>11, <2>1, Zenon
<1>14. ASSUME NEW k \in 1..N, \A l \in k + 1..N : l \in S PROVE k \in S
    <2>1. CASE k = N
        BY <1>12, <2>1
    <2>2. CASE k # N
        <3>1. k \in 1..n /\ k + 1 \in k + 1..N
            BY <1>1, <2>2
        <3>2. L[k + 1] \in Nat
            BY <1>14, <3>1
        <3>3. Len(s[k]) \in Nat /\ L[k] = Len(s[k]) + L[k + 1]
            BY <1>2, <1>13, <3>1
        <3>4. L[k] \in Nat
            <4> DEFINE x == Len(s[k])
                       y == L[k + 1]
            <4>1. x \in Nat /\ y \in Nat /\ L[k] = x + y
                BY <3>2, <3>3
            <4> HIDE DEF x, y
            <4> QED
                BY <4>1
        <3> QED
            BY <3>4
    <2> QED
        BY <2>1, <2>2
<1>15. \A k \in 1..N : k \in S
    <2> HIDE DEF S, N
    <2> QED
        BY <1>1, <1>14, Downwards
<1>16. L \in [1..N -> Nat]
    <2> HIDE DEF N, n
    <2>1. L = [k \in 1..N |-> L[k]]
        BY <1>11
    <2> QED
        BY <1>15, <2>1
<1> QED
    BY <1>10, <1>12, <1>13, <1>16 DEF L

LEMMA LettersFacts ==
    ASSUME NEW C, NEW s \in Seq(Seq(C)), NEW w \in Seq(C)
    PROVE  Letters(s) \in Nat /\ Letters(<<w>> \o s) = Len(w) + Letters(s)
<1> DEFINE all == <<w>> \o s
           n == Len(s)
           N == n + 1
           L == LetterSums(all)
           h == LetterSums(s)
           S == {k \in 1..N : L[k + 1] = h[k]}
<1>1. n \in Nat /\ N \in Nat /\ 1 \in 1..N
    BY LenProperties
<1>2. all \in Seq(Seq(C)) /\ Len(all) = N /\ all[1] = w /\ \A k \in 1..n : all[k + 1] = s[k]
    BY PrependFacts
<1> HIDE DEF all
<1>3. /\ Letters(all) = L[1] /\ L \in [1..N + 1 -> Nat] /\ L[N + 1] = 0
      /\ \A k \in 1..N : L[k] = Len(all[k]) + L[k + 1]
    BY <1>2, LetterSumsFacts
<1>4. /\ Letters(s) = h[1] /\ h \in [1..N -> Nat] /\ h[N] = 0
      /\ \A k \in 1..n : h[k] = Len(s[k]) + h[k + 1]
    BY LetterSumsFacts
<1> HIDE DEF L, h
<1>5. ASSUME NEW k \in 1..N, \A l \in k + 1..N : l \in S PROVE k \in S
    <2>1. CASE k = N
        BY <1>3, <1>4, <2>1
    <2>2. CASE k # N
        <3>1. k \in 1..n /\ k + 1 \in k + 1..N /\ k + 1 \in 1..N
            BY <1>1, <2>2
        <3>2. L[(k + 1) + 1] = h[k + 1]
            BY <1>5, <3>1
        <3>3. L[k + 1] = Len(all[k + 1]) + L[(k + 1) + 1]
            <4> DEFINE l == k + 1
            <4>1. l \in 1..N
                BY <3>1
            <4> HIDE DEF l
            <4>2. L[l] = Len(all[l]) + L[l + 1]
                BY <1>3, <4>1
            <4> QED
                BY <4>2 DEF l
        <3>4. L[k + 1] = h[k]
            BY <1>2, <1>4, <3>1, <3>2, <3>3
        <3> QED
            BY <3>4
    <2> QED
        BY <2>1, <2>2
<1>6. \A k \in 1..N : k \in S
    <2> HIDE DEF S, N
    <2> QED
        BY <1>1, <1>5, Downwards
<1>7. L[1 + 1] = h[1]
    BY <1>1, <1>6
<1>8. L[1] = Len(all[1]) + L[1 + 1]
    BY <1>1, <1>3
<1>9. h[1] \in Nat
    BY <1>1, <1>4
<1> QED
    BY <1>2, <1>3, <1>4, <1>7, <1>8, <1>9 DEF all

\* The places where a text holds the mark.
Marks(s) == {j \in 1..Len(s) : s[j] = Mark}

LEMMA MarksFacts ==
    ASSUME NEW D, NEW s \in Seq(D), NEW w \in D
    PROVE  /\ IsFiniteSet(Marks(s)) /\ Cardinality(Marks(s)) \in Nat
           /\ Cardinality(Marks(<<w>> \o s)) = IF w = Mark THEN Cardinality(Marks(s)) + 1 ELSE Cardinality(Marks(s))
<1> DEFINE all == <<w>> \o s
           n == Len(s)
           A == Marks(s)
           B == Marks(all) \ {1}
           f == [j \in A |-> j + 1]
<1>1. n \in Nat
    BY LenProperties
<1>2. A \subseteq 1..n /\ \A j \in 1..n : j \in A <=> s[j] = Mark
    BY DEF Marks
<1>3. Len(all) = n + 1 /\ all[1] = w /\ \A j \in 1..n : all[j + 1] = s[j]
    BY PrependFacts
<1>4. IsFiniteSet(A)
    <2>1. IsFiniteSet(1..n)
        BY <1>1, FS_Interval
    <2> HIDE DEF A
    <2> QED
        BY <1>2, <2>1, FS_Subset
<1>5. Marks(all) \subseteq 1..n + 1 /\ \A j \in 1..n + 1 : j \in Marks(all) <=> all[j] = Mark
    BY <1>3 DEF Marks
<1> HIDE DEF A, all
<1>6. \A j \in A : j + 1 \in B
    <2>1. TAKE j \in A
    <2>2. j \in 1..n /\ s[j] = Mark
        BY <1>2
    <2>3. j + 1 \in 1..n + 1 /\ j + 1 # 1 /\ all[j + 1] = Mark
        BY <1>1, <1>3, <2>2
    <2> QED
        BY <1>5, <2>3
<1>7. \A x \in B : x - 1 \in A /\ x = (x - 1) + 1
    <2>1. TAKE x \in B
    <2>2. x \in 1..n + 1 /\ x # 1 /\ all[x] = Mark
        BY <1>5
    <2> DEFINE j == x - 1
    <2>3. j \in 1..n /\ x = j + 1
        BY <1>1, <2>2
    <2> HIDE DEF j
    <2>4. s[j] = Mark
        BY <1>3, <2>2, <2>3
    <2>5. j \in A
        BY <1>2, <2>3, <2>4
    <2> QED
        BY <2>3, <2>5 DEF j
<1>8. Cardinality(B) = Cardinality(A) /\ IsFiniteSet(B)
    <2>1. f \in [A -> B]
        BY <1>6
    <2>2. \A a, b \in A : f[a] = f[b] => a = b
        <3>1. \A a \in A : a \in Int
            BY <1>1, <1>2
        <3> QED
            BY <3>1
    <2>3. \A x \in B : \E a \in A : f[a] = x
        BY <1>7
    <2> HIDE DEF A, B, f
    <2>4. f \in Bijection(A, B)
        BY <2>1, <2>2, <2>3, Fun_IsBij
    <2>5. ExistsBijection(A, B)
        BY <2>4 DEF ExistsBijection
    <2> QED
        BY <1>4, <2>5, FS_Bijection
<1>9. Cardinality(A) \in Nat
    BY <1>4, FS_CardinalityType
<1>10. CASE w = Mark
    <2>1. Marks(all) = B \cup {1}
        <3>1. 1 \in 1..n + 1
            BY <1>1
        <3>2. 1 \in Marks(all)
            BY <1>3, <1>5, <1>10, <3>1
        <3> QED
            BY <3>2
    <2>2. 1 \notin B
        OBVIOUS
    <2> HIDE DEF B
    <2>3. Cardinality(B \cup {1}) = Cardinality(B) + 1
        BY <1>8, <2>2, FS_AddElement
    <2>4. Cardinality(Marks(all)) = Cardinality(A) + 1
        BY <1>8, <2>1, <2>3
    <2> QED
        BY <1>4, <1>9, <1>10, <2>4 DEF A, all
<1>11. CASE w # Mark
    <2>1. 1 \notin Marks(all)
        <3>1. 1 \in 1..n + 1
            BY <1>1
        <3> QED
            BY <1>3, <1>5, <1>11, <3>1
    <2>2. Marks(all) = B
        BY <2>1
    <2>3. Cardinality(Marks(all)) = Cardinality(A)
        BY <1>8, <2>2
    <2> QED
        BY <1>4, <1>9, <1>11, <2>3 DEF A, all
<1> QED
    BY <1>10, <1>11

\* What findall and sub put down at a position.
FindPut(m, t) == [i \in 1..Len(t) |-> IF m[i] >= 0 THEN <<SubSeq(t, i, i + m[i] - 1)>> ELSE <<>>]
SubPut(m, t) ==
    [i \in 1..Len(t) |-> (IF m[i] >= 0 THEN <<Mark>> ELSE <<>>) \o (IF m[i] > 0 THEN <<>> ELSE <<t[i]>>)]
FindRec(m, t, J) == J = [i \in 1..Len(t) + 1 |->
    IF i > Len(t) THEN <<>>
    ELSE (IF m[i] >= 0 THEN <<SubSeq(t, i, i + m[i] - 1)>> ELSE <<>>) \o J[i + Stride(m[i])]]
SubRec(m, t, J) == J = [i \in 1..Len(t) + 1 |->
    IF i > Len(t) THEN <<>>
    ELSE (IF m[i] >= 0 THEN <<Mark>> ELSE <<>>) \o (IF m[i] > 0 THEN <<>> ELSE <<t[i]>>) \o J[i + Stride(m[i])]]

LEMMA PutFacts ==
    ASSUME NEW C, NEW t \in Seq(C), NEW m, Sizes(t, m)
    PROVE  /\ FindPut(m, t) \in [1..Len(t) -> Seq(Seq(C))] /\ SubPut(m, t) \in [1..Len(t) -> Seq(C \cup {Mark})]
           /\ \A i \in 1..Len(t) : m[i] >= 0 => SubSeq(t, i, i + m[i] - 1) \in Seq(C) /\ Len(SubSeq(t, i, i + m[i] - 1)) = m[i]
<1> DEFINE n == Len(t)
           D == C \cup {Mark}
           w(i) == SubSeq(t, i, i + m[i] - 1)
           f(i) == IF m[i] >= 0 THEN <<w(i)>> ELSE <<>>
           a(i) == IF m[i] >= 0 THEN <<Mark>> ELSE <<>>
           b(i) == IF m[i] > 0 THEN <<>> ELSE <<t[i]>>
<1>1. n \in Nat
    BY LenProperties
<1>2. ASSUME NEW i \in 1..n, m[i] >= 0 PROVE w(i) \in Seq(C) /\ Len(w(i)) = m[i]
    <2> DEFINE j == i + m[i]
    <2>1. i \in 1..Len(t) + 1
        BY <1>1
    <2>2. m[i] \in Int /\ i + m[i] <= n + 1
        BY <2>1 DEF Sizes
    <2>3. j \in i..Len(t) + 1 /\ j - i = m[i]
        BY <1>1, <1>2, <2>2
    <2> HIDE DEF j
    <2>4. SubSeq(t, i, j - 1) \in Seq(Range(t)) /\ Len(SubSeq(t, i, j - 1)) = j - i
        BY <2>1, <2>3, PieceFacts
    <2>5. Range(t) \subseteq C
        BY DEF Range
    <2>6. SubSeq(t, i, j - 1) \in Seq(C)
        <3> DEFINE x == SubSeq(t, i, j - 1)
                   R == Range(t)
        <3> HIDE DEF x, R
        <3>1. x \in Seq(R) /\ R \subseteq C
            BY <2>4, <2>5 DEF x, R
        <3>2. x \in Seq(C)
            BY <3>1, SeqMonotonic
        <3> QED
            BY <3>2 DEF x
    <2>7. w(i) = SubSeq(t, i, j - 1)
        <3>1. i + m[i] - 1 = j - 1
            BY <1>1, <2>2 DEF j
        <3> QED
            BY <3>1, Zenon
    <2> HIDE DEF w
    <2> QED
        BY <2>3, <2>4, <2>6, <2>7
<1> HIDE DEF w
<1>3. \A i \in 1..n : f(i) \in Seq(Seq(C))
    <2>1. \A i \in 1..n : m[i] >= 0 => <<w(i)>> \in Seq(Seq(C))
        <3>1. \A i \in 1..n : m[i] >= 0 => w(i) \in Seq(C)
            BY <1>2
        <3> HIDE DEF n
        <3> QED
            BY <3>1, OneFacts
    <2>2. <<>> \in Seq(Seq(C))
        OBVIOUS
    <2> QED
        BY <2>1, <2>2
<1>4. \A i \in 1..n : a(i) \in Seq(D) /\ b(i) \in Seq(D)
    <2>1. <<>> \in Seq(D)
        OBVIOUS
    <2>2. \A i \in 1..n : t[i] \in D
        BY ElementOfSeq
    <2>3. Mark \in D
        OBVIOUS
    <2> HIDE DEF D, n
    <2>4. <<Mark>> \in Seq(D) /\ \A i \in 1..n : <<t[i]>> \in Seq(D)
        BY <2>2, <2>3, OneFacts
    <2> QED
        BY <2>1, <2>4
<1>5. \A i \in 1..n : a(i) \o b(i) \in Seq(D)
    <2> HIDE DEF a, b, n, D
    <2> QED
        BY <1>4, ConcatProperties
<1>6. FindPut(m, t) = [i \in 1..n |-> f(i)]
    BY Zenon DEF FindPut, w
<1>7. SubPut(m, t) = [i \in 1..n |-> a(i) \o b(i)]
    BY Zenon DEF SubPut
<1> DEFINE ab(i) == a(i) \o b(i)
<1>8. SubPut(m, t) = [i \in 1..n |-> ab(i)] /\ \A i \in 1..n : ab(i) \in Seq(D)
    BY <1>5, <1>7
<1> HIDE DEF f, ab, D, n
<1>9. FindPut(m, t) \in [1..n -> Seq(Seq(C))] /\ SubPut(m, t) \in [1..n -> Seq(D)]
    BY <1>3, <1>6, <1>8
<1> QED
    BY <1>2, <1>9 DEF n, D, w

LEMMA FindallIs ==
    ASSUME NEW C, NEW re, NEW t \in Seq(C), Sizes(t, MatchAt(re, t))
    PROVE  \E J : Joins(t, MatchAt(re, t), FindPut(MatchAt(re, t), t), J) /\ Findall(re, t) = J[1]
<1> DEFINE m == MatchAt(re, t)
           n == Len(t)
           put == FindPut(m, t)
           x(J, i) == IF i > n THEN <<>>
                      ELSE (IF m[i] >= 0 THEN <<SubSeq(t, i, i + m[i] - 1)>> ELSE <<>>) \o J[i + Stride(m[i])]
           y(J, i) == IF i > n THEN <<>> ELSE put[i] \o J[i + Stride(m[i])]
           Rec(J) == FindRec(m, t, J)
           L == CHOOSE J : Rec(J)
<1>1. n \in Nat
    BY LenProperties
<1>2. ASSUME NEW J, NEW i \in 1..n + 1 PROVE x(J, i) = y(J, i)
    <2>1. CASE i > n
        BY <2>1
    <2>2. CASE ~(i > n)
        <3>1. i \in 1..n
            BY <1>1, <2>2
        <3>2. put[i] = IF m[i] >= 0 THEN <<SubSeq(t, i, i + m[i] - 1)>> ELSE <<>>
            BY <3>1, Zenon DEF FindPut
        <3> HIDE DEF put, n
        <3> QED
            BY <2>2, <3>2, Zenon
    <2> QED
        BY <2>1, <2>2
<1>3. \A J : FindRec(m, t, J) <=> Joins(t, m, put, J)
    <2>1. TAKE J
    <2>2. FindRec(m, t, J) <=> J = [i \in 1..n + 1 |-> x(J, i)]
        BY Zenon DEF FindRec
    <2>3. Joins(t, m, put, J) <=> J = [i \in 1..n + 1 |-> y(J, i)]
        BY Zenon DEF Joins
    <2>4. [i \in 1..n + 1 |-> x(J, i)] = [i \in 1..n + 1 |-> y(J, i)]
        <3> HIDE DEF x, y, n
        <3> QED
            BY <1>2, Zenon
    <2> HIDE DEF x, y, n, m, put
    <2> QED
        BY <2>2, <2>3, <2>4, Zenon
<1>4. \E J : Joins(t, m, put, J)
    <2>1. put \in [1..Len(t) -> Seq(Seq(C))]
        BY PutFacts
    <2> HIDE DEF put, m
    <2>2. Sizes(t, m)
        BY DEF m
    <2> QED
        BY <2>1, <2>2, JoinExists
<1>5. Rec(L)
    <2>1. \E J : Rec(J)
        BY <1>3, <1>4
    <2> HIDE DEF Rec
    <2> QED
        BY <2>1
<1>6. Findall(re, t) = L[1]
    BY DEF Findall, FindRec
<1> HIDE DEF L
<1>7. Joins(t, m, put, L)
    BY <1>3, <1>5
<1> QED
    BY <1>6, <1>7

LEMMA ReSubIs ==
    ASSUME NEW C, NEW re, NEW t \in Seq(C), Sizes(t, MatchAt(re, t))
    PROVE  \E J : Joins(t, MatchAt(re, t), SubPut(MatchAt(re, t), t), J) /\ ReSub(re, <<Mark>>, t) = J[1]
<1> DEFINE m == MatchAt(re, t)
           n == Len(t)
           put == SubPut(m, t)
           x(J, i) == IF i > n THEN <<>>
                      ELSE (IF m[i] >= 0 THEN <<Mark>> ELSE <<>>) \o (IF m[i] > 0 THEN <<>> ELSE <<t[i]>>) \o J[i + Stride(m[i])]
           y(J, i) == IF i > n THEN <<>> ELSE put[i] \o J[i + Stride(m[i])]
           Rec(J) == SubRec(m, t, J)
           L == CHOOSE J : Rec(J)
<1>1. n \in Nat
    BY LenProperties
<1>2. ASSUME NEW J, NEW i \in 1..n + 1 PROVE x(J, i) = y(J, i)
    <2>1. CASE i > n
        BY <2>1
    <2>2. CASE ~(i > n)
        <3>1. i \in 1..n
            BY <1>1, <2>2
        <3>2. put[i] = (IF m[i] >= 0 THEN <<Mark>> ELSE <<>>) \o (IF m[i] > 0 THEN <<>> ELSE <<t[i]>>)
            BY <3>1, Zenon DEF SubPut
        <3> HIDE DEF put, n
        <3> QED
            BY <2>2, <3>2, Zenon
    <2> QED
        BY <2>1, <2>2
<1>3. \A J : SubRec(m, t, J) <=> Joins(t, m, put, J)
    <2>1. TAKE J
    <2>2. SubRec(m, t, J) <=> J = [i \in 1..n + 1 |-> x(J, i)]
        BY Zenon DEF SubRec
    <2>3. Joins(t, m, put, J) <=> J = [i \in 1..n + 1 |-> y(J, i)]
        BY Zenon DEF Joins
    <2>4. [i \in 1..n + 1 |-> x(J, i)] = [i \in 1..n + 1 |-> y(J, i)]
        <3> HIDE DEF x, y, n
        <3> QED
            BY <1>2, Zenon
    <2> HIDE DEF x, y, n, m, put
    <2> QED
        BY <2>2, <2>3, <2>4, Zenon
<1>4. \E J : Joins(t, m, put, J)
    <2> DEFINE D == C \cup {Mark}
    <2>1. put \in [1..Len(t) -> Seq(D)]
        BY PutFacts
    <2> HIDE DEF put, m, D
    <2>2. Sizes(t, m)
        BY DEF m
    <2> QED
        BY <2>1, <2>2, JoinExists
<1>5. Rec(L)
    <2>1. \E J : Rec(J)
        BY <1>3, <1>4
    <2> HIDE DEF Rec
    <2> QED
        BY <2>1
<1>6. ReSub(re, <<Mark>>, t) = L[1]
    BY DEF ReSub, SubRec
<1> HIDE DEF L
<1>7. Joins(t, m, put, L)
    BY <1>3, <1>5
<1> QED
    BY <1>6, <1>7

\* findall takes the leftmost matches and leaves none out.
LEMMA FindTaken ==
    ASSUME NEW C, NEW t \in Seq(C), NEW m, Sizes(t, m), NEW J, Joins(t, m, FindPut(m, t), J)
    PROVE  \A i \in 1..Len(t) + 1 : Taken(m, t, i, J[i])
<1> DEFINE n == Len(t)
           N == n + 1
           V == Seq(C)
           put == FindPut(m, t)
           S == {i \in 1..N : Taken(m, t, i, J[i])}
<1>1. n \in Nat /\ N \in Nat
    BY LenProperties
<1>2. put \in [1..Len(t) -> Seq(V)]
    BY PutFacts
<1>3. JoinSteps(t, m, put, V, J)
    <2> HIDE DEF put, V
    <2>1. Joins(t, m, put, J)
        BY DEF put
    <2> QED
        BY <1>2, <2>1, JoinFacts
<1>4. J \in [1..N -> Seq(V)] /\ J[N] = <<>> /\ \A i \in 1..n : J[i] = put[i] \o J[i + Stride(m[i])]
    BY <1>3 DEF JoinSteps
<1>5. ASSUME NEW i \in 1..N, \A k \in i + 1..N : k \in S PROVE i \in S
    <2>1. CASE i = N
        <3>1. Taken(m, t, N, <<>>)
            BY TakenNone
        <3>2. Taken(m, t, N, J[N])
            BY <1>4, <3>1, Zenon
        <3> HIDE DEF N
        <3> QED
            BY <2>1, <3>2
    <2>2. CASE i # N
        <3> DEFINE j == i + Stride(m[i])
                   s == J[j]
                   w == SubSeq(t, i, i + m[i] - 1)
        <3>1. i \in 1..n /\ Behind(m, i, j)
            BY <1>1, <2>2 DEF Behind
        <3>2. j \in i + 1..N /\ j \in 1..N
            BY <1>1, <3>1, StrideOnwards
        <3>3. J[i] = put[i] \o s
            BY <1>4, <3>1
        <3>4. put[i] = IF m[i] >= 0 THEN <<w>> ELSE <<>>
            BY <3>1, Zenon DEF FindPut
        <3> HIDE DEF j
        <3>5. Taken(m, t, j, s)
            BY <1>5, <3>2
        <3>6. s \in Seq(V)
            BY <1>4, <3>2
        <3>7. m[i] >= 0 => w \in V /\ w = SubSeq(t, i, i + m[i] - 1)
            BY <3>1, PutFacts
        <3>8. m[i] \in Int
            BY <3>1, <1>1 DEF Sizes
        <3> HIDE DEF s, w, put, V
        <3>9. CASE m[i] >= 0
            <4>1. Taken(m, t, i, <<w>> \o s)
                BY <3>1, <3>5, <3>6, <3>7, <3>9, TakenOne
            <4>2. Taken(m, t, i, J[i])
                BY <3>3, <3>4, <3>9, <4>1, Zenon
            <4> QED
                BY <4>2
        <3>10. CASE ~(m[i] >= 0)
            <4>1. m[i] < 0
                BY <3>8, <3>10
            <4>2. Taken(m, t, i, s)
                BY <3>1, <3>5, <4>1, TakenSkip
            <4>3. <<>> \o s = s
                BY <3>6, ConcatEmptySeq
            <4>4. Taken(m, t, i, J[i])
                BY <3>3, <3>4, <3>10, <4>2, <4>3, Zenon
            <4> QED
                BY <4>4
        <3> QED
            BY <3>9, <3>10
    <2> QED
        BY <2>1, <2>2
<1>6. \A i \in 1..N : i \in S
    <2> HIDE DEF S, N
    <2> QED
        BY <1>1, <1>5, Downwards
<1> QED
    BY <1>6

\* sub puts one mark for each match that findall takes, and the letters outside
\* the matches.
Counted(t, i, all, sub) ==
    Cardinality(Marks(sub)) = Len(all) /\ Len(sub) - Len(all) + Letters(all) = Len(t) - i + 1

LEMMA CountedNone ==
    ASSUME NEW C, NEW t \in Seq(C) PROVE Counted(t, Len(t) + 1, <<>>, <<>>)
<1>1. Len(t) \in Nat /\ Len(<<>>) = 0
    BY LenProperties, EmptySeq
<1>2. Letters(<<>>) = 0
    <2> DEFINE s == <<>>
    <2>1. s \in Seq(Seq(C)) /\ Len(s) = 0
        BY <1>1
    <2> HIDE DEF s
    <2>2. Letters(s) = LetterSums(s)[1] /\ LetterSums(s)[Len(s) + 1] = 0
        BY <2>1, LetterSumsFacts
    <2>3. Letters(s) = 0
        BY <2>1, <2>2
    <2> QED
        BY <2>3 DEF s
<1>3. Marks(<<>>) = {}
    BY <1>1 DEF Marks
<1>4. Cardinality(Marks(<<>>)) = 0
    BY <1>3, FS_EmptySet
<1> DEFINE n == Len(t)
           l == Letters(<<>>)
           c == Cardinality(Marks(<<>>))
           e == Len(<<>>)
<1>5. n \in Nat /\ l = 0 /\ c = 0 /\ e = 0
    BY <1>1, <1>2, <1>4
<1> HIDE DEF n, l, c, e
<1>6. c = e /\ e - e + l = n - (n + 1) + 1
    BY <1>5
<1> QED
    BY <1>6 DEF Counted, n, l, c, e

Clean(t) == \A i \in 1..Len(t) : t[i] # Mark
LEMMA CountedStep ==
    ASSUME NEW C, NEW t \in Seq(C), Clean(t), NEW m, Sizes(t, m), NEW i \in 1..Len(t), NEW j, Behind(m, i, j),
           NEW f \in Seq(Seq(C)), NEW g \in Seq(C \cup {Mark}), Counted(t, j, f, g)
    PROVE  Counted(t, i, FindPut(m, t)[i] \o f, SubPut(m, t)[i] \o g)
<1> DEFINE n == Len(t)
           D == C \cup {Mark}
           V == Seq(C)
           w == SubSeq(t, i, i + m[i] - 1)
           c == t[i]
           x == m[i]
           all == FindPut(m, t)[i] \o f
           sub == SubPut(m, t)[i] \o g
           K(s) == Cardinality(Marks(s))
           after == <<c>> \o g
           both == <<Mark>> \o g
           all3 == <<Mark>> \o after
           more == <<w>> \o f
<1>0. SUFFICES Counted(t, i, all, sub)
    OBVIOUS
<1>1. n \in Nat /\ i \in Nat /\ i \in 1..n + 1 /\ Len(f) \in Nat /\ Len(g) \in Nat
    BY LenProperties
<1>2. x \in Int /\ x >= -1 /\ j = i + Stride(x)
    BY <1>1 DEF Sizes, Behind
<1>3. x >= 0 => w \in V /\ Len(w) = x
    BY PutFacts
<1>4. c \in D /\ Mark \in D /\ c # Mark
    BY ElementOfSeq DEF Clean
<1>5. K(g) = Len(f) /\ Len(g) - Len(f) + Letters(f) = n - j + 1
    BY DEF Counted
<1>6. all = (IF x >= 0 THEN <<w>> ELSE <<>>) \o f
    BY Zenon DEF FindPut
<1>7. sub = (IF x >= 0 THEN <<Mark>> ELSE <<>>) \o (IF x > 0 THEN <<>> ELSE <<c>>) \o g
    BY Zenon DEF SubPut
<1>8. <<c>> \in Seq(D) /\ <<Mark>> \in Seq(D)
    BY <1>4, OneFacts
<1>9. Letters(f) \in Nat
    <2>1. <<>> \in Seq(C)
        OBVIOUS
    <2> QED
        BY <2>1, LettersFacts
<1> HIDE DEF w, c, x, all, sub, D, V, n
<1>10. after \in Seq(D) /\ Len(after) = Len(g) + 1 /\ K(after) = K(g)
    <2>1. g \in Seq(D)
        BY DEF D
    <2>2. after \in Seq(D) /\ Len(after) = Len(g) + 1
        BY <1>4, <2>1, PrependFacts
    <2>3. K(after) = K(g)
        BY <1>4, <2>1, MarksFacts
    <2> QED
        BY <2>2, <2>3
<1>11. both \in Seq(D) /\ Len(both) = Len(g) + 1 /\ K(both) = K(g) + 1
    <2>1. g \in Seq(D)
        BY DEF D
    <2> DEFINE z == Mark
    <2>0. z \in D /\ z = Mark
        BY <1>4
    <2> HIDE DEF z
    <2>2. <<z>> \o g \in Seq(D) /\ Len(<<z>> \o g) = Len(g) + 1
        BY <2>0, <2>1, PrependFacts
    <2>3. K(<<z>> \o g) = K(g) + 1
        BY <2>0, <2>1, MarksFacts
    <2> QED
        BY <2>0, <2>2, <2>3, Zenon
<1>12. Len(all3) = Len(g) + 2 /\ K(all3) = K(g) + 1
    <2> HIDE DEF after
    <2> DEFINE z == Mark
    <2>0. z \in D /\ z = Mark
        BY <1>4
    <2> HIDE DEF z
    <2>2. Len(<<z>> \o after) = Len(after) + 1
        BY <2>0, <1>10, PrependFacts
    <2>3. K(<<z>> \o after) = K(after) + 1
        BY <2>0, <1>10, MarksFacts
    <2>4. Len(<<z>> \o after) = Len(g) + 2 /\ K(<<z>> \o after) = K(g) + 1
        BY <1>1, <1>10, <2>2, <2>3
    <2> QED
        BY <2>0, <2>4, Zenon
<1>13. x >= 0 => Len(more) = Len(f) + 1 /\ Letters(more) = x + Letters(f)
    <2>1. f \in Seq(V)
        BY DEF V
    <2>2. w \in V => Len(more) = Len(f) + 1
        BY <2>1, PrependFacts
    <2>3. w \in V => Letters(more) = Len(w) + Letters(f)
        BY LettersFacts DEF V
    <2> QED
        BY <1>3, <2>2, <2>3
<1>14. <<>> \o f = f /\ <<>> \o g = g
    BY ConcatEmptySeq
<1>15. \A y \in Seq(D) : y \o <<>> = y /\ <<>> \o y = y
    BY ConcatEmptySeq
<1>16. g \in Seq(D)
    BY DEF D
<1>17. Counted(t, i, all, sub) <=> K(sub) = Len(all) /\ Len(sub) - Len(all) + Letters(all) = n - i + 1
    BY DEF Counted, n
<1>18. CASE x > 0
    <2>1. x >= 0 /\ Stride(x) = x
        BY <1>2, <1>18 DEF Stride
    <2>2. all = more
        BY <1>6, <2>1, Zenon
    <2>3. sub = both
        <3>1. sub = <<Mark>> \o <<>> \o g
            BY <1>7, <1>18, <2>1, Zenon
        <3>2. <<Mark>> \o <<>> = <<Mark>>
            BY <1>8, <1>15
        <3> QED
            BY <3>1, <3>2, Zenon
    <2> HIDE DEF more, both, K
    <2>4. K(sub) = K(g) + 1 /\ Len(sub) = Len(g) + 1 /\ Len(all) = Len(f) + 1 /\ Letters(all) = x + Letters(f)
        BY <1>11, <1>13, <2>1, <2>2, <2>3
    <2>5. j = i + x
        BY <1>2, <2>1
    <2>6. K(sub) = Len(all)
        BY <1>5, <2>4
    <2>7. Len(sub) - Len(all) + Letters(all) = n - i + 1
        <3> DEFINE lf == Len(f)
                   lg == Len(g)
                   ll == Letters(f)
        <3>1. n \in Nat /\ i \in Nat /\ lf \in Nat /\ lg \in Nat /\ ll \in Nat /\ lg - lf + ll = n - j + 1
            BY <1>1, <1>5, <1>9 DEF n
        <3>2. Len(sub) = lg + 1 /\ Len(all) = lf + 1 /\ Letters(all) = x + ll
            BY <2>4
        <3> DEFINE ls == Len(sub)
                   la == Len(all)
                   l == Letters(all)
        <3> HIDE DEF lf, lg, ll, ls, la, l
        <3>3. ls = lg + 1 /\ la = lf + 1 /\ l = x + ll
            BY <3>2 DEF ls, la, l
        <3>4. x \in Int /\ j = i + x
            BY <1>2, <2>5
        <3>5. ls - la + l = n - i + 1
            BY <3>1, <3>3, <3>4
        <3> QED
            BY <3>5 DEF ls, la, l
    <2> QED
        BY <1>17, <2>6, <2>7
<1>19. CASE x = 0
    <2>1. x >= 0 /\ ~(x > 0) /\ Stride(x) = 1
        BY <1>2, <1>19 DEF Stride
    <2>2. all = more
        BY <1>6, <2>1, Zenon
    <2>3. sub = all3
        <3>1. sub = <<Mark>> \o <<c>> \o g
            BY <1>7, <2>1, Zenon
        <3>2. <<Mark>> \o <<c>> \o g = <<Mark>> \o (<<c>> \o g)
            BY <1>8, <1>16, ConcatAssociative
        <3> QED
            BY <3>1, <3>2, Zenon
    <2> HIDE DEF more, all3, K
    <2>4. K(sub) = K(g) + 1 /\ Len(sub) = Len(g) + 2 /\ Len(all) = Len(f) + 1 /\ Letters(all) = x + Letters(f)
        BY <1>12, <1>13, <2>1, <2>2, <2>3
    <2>5. j = i + 1
        BY <1>2, <2>1
    <2>6. K(sub) = Len(all)
        BY <1>5, <2>4
    <2>7. Len(sub) - Len(all) + Letters(all) = n - i + 1
        <3> DEFINE lf == Len(f)
                   lg == Len(g)
                   ll == Letters(f)
        <3>1. n \in Nat /\ i \in Nat /\ lf \in Nat /\ lg \in Nat /\ ll \in Nat /\ lg - lf + ll = n - j + 1
            BY <1>1, <1>5, <1>9 DEF n
        <3>2. Len(sub) = lg + 2 /\ Len(all) = lf + 1 /\ Letters(all) = x + ll
            BY <2>4
        <3> DEFINE ls == Len(sub)
                   la == Len(all)
                   l == Letters(all)
        <3> HIDE DEF lf, lg, ll, ls, la, l
        <3>3. ls = lg + 2 /\ la = lf + 1 /\ l = x + ll
            BY <3>2 DEF ls, la, l
        <3>4. x \in Int /\ j = i + 1
            BY <1>2, <2>5
        <3>5. ls - la + l = n - i + 1
            BY <3>1, <3>3, <3>4, <1>19
        <3> QED
            BY <3>5 DEF ls, la, l
    <2> QED
        BY <1>17, <2>6, <2>7
<1>20. CASE x < 0
    <2>1. ~(x >= 0) /\ ~(x > 0) /\ Stride(x) = 1
        BY <1>2, <1>20 DEF Stride
    <2>2. all = f
        BY <1>6, <1>14, <2>1, Zenon
    <2>3. sub = after
        <3>1. sub = <<>> \o <<c>> \o g
            BY <1>7, <2>1, Zenon
        <3>2. <<>> \o <<c>> = <<c>>
            BY <1>8, <1>15
        <3> QED
            BY <3>1, <3>2, Zenon
    <2> HIDE DEF after, K
    <2>4. K(sub) = K(g) /\ Len(sub) = Len(g) + 1 /\ Len(all) = Len(f) /\ Letters(all) = Letters(f)
        BY <1>10, <2>2, <2>3
    <2>5. j = i + 1
        BY <1>2, <2>1
    <2>6. K(sub) = Len(all)
        BY <1>5, <2>4
    <2>7. Len(sub) - Len(all) + Letters(all) = n - i + 1
        <3> DEFINE lf == Len(f)
                   lg == Len(g)
                   ll == Letters(f)
        <3>1. n \in Nat /\ i \in Nat /\ lf \in Nat /\ lg \in Nat /\ ll \in Nat /\ lg - lf + ll = n - j + 1
            BY <1>1, <1>5, <1>9 DEF n
        <3>2. Len(sub) = lg + 1 /\ Len(all) = lf /\ Letters(all) = ll
            BY <2>4
        <3> DEFINE ls == Len(sub)
                   la == Len(all)
                   l == Letters(all)
        <3> HIDE DEF lf, lg, ll, ls, la, l
        <3>3. ls = lg + 1 /\ la = lf /\ l = ll
            BY <3>2 DEF ls, la, l
        <3>4. x \in Int /\ j = i + 1
            BY <1>2, <2>5
        <3>5. ls - la + l = n - i + 1
            BY <3>1, <3>3, <3>4
        <3> QED
            BY <3>5 DEF ls, la, l
    <2> QED
        BY <1>17, <2>6, <2>7
<1>21. x > 0 \/ x = 0 \/ x < 0
    BY <1>2
<1> QED
    BY <1>18, <1>19, <1>20, <1>21

LEMMA SubCounted ==
    ASSUME NEW C, NEW t \in Seq(C), Clean(t), NEW m, Sizes(t, m), NEW J, Joins(t, m, FindPut(m, t), J),
           NEW G, Joins(t, m, SubPut(m, t), G)
    PROVE  \A i \in 1..Len(t) + 1 : Counted(t, i, J[i], G[i])
<1> DEFINE n == Len(t)
           N == n + 1
           V == Seq(C)
           D == C \cup {Mark}
           a == FindPut(m, t)
           b == SubPut(m, t)
           S == {i \in 1..N : Counted(t, i, J[i], G[i])}
<1>1. n \in Nat /\ N \in Nat
    BY LenProperties
<1>2. a \in [1..Len(t) -> Seq(V)] /\ b \in [1..Len(t) -> Seq(D)]
    BY PutFacts
<1>3. Joins(t, m, a, J) /\ Joins(t, m, b, G)
    OBVIOUS
<1>4. JoinSteps(t, m, a, V, J)
    <2> HIDE DEF a, V
    <2> QED
        BY <1>2, <1>3, JoinFacts
<1>5. JoinSteps(t, m, b, D, G)
    <2> HIDE DEF b, D
    <2> QED
        BY <1>2, <1>3, JoinFacts
<1>6. J \in [1..N -> Seq(V)] /\ J[N] = <<>> /\ \A i \in 1..n : J[i] = a[i] \o J[i + Stride(m[i])]
    BY <1>4 DEF JoinSteps
<1>7. G \in [1..N -> Seq(D)] /\ G[N] = <<>> /\ \A i \in 1..n : G[i] = b[i] \o G[i + Stride(m[i])]
    BY <1>5 DEF JoinSteps
<1>8. ASSUME NEW i \in 1..N, \A k \in i + 1..N : k \in S PROVE i \in S
    <2>1. CASE i = N
        <3>1. Counted(t, N, <<>>, <<>>)
            BY CountedNone
        <3>2. Counted(t, N, J[N], G[N])
            BY <1>6, <1>7, <3>1, Zenon
        <3> HIDE DEF N
        <3> QED
            BY <2>1, <3>2
    <2>2. CASE i # N
        <3> DEFINE j == i + Stride(m[i])
                   f == J[j]
                   g == G[j]
        <3>1. i \in 1..n /\ Behind(m, i, j)
            BY <1>1, <2>2 DEF Behind
        <3>2. j \in i + 1..N /\ j \in 1..N
            BY <1>1, <3>1, StrideOnwards
        <3>3. J[i] = a[i] \o f /\ G[i] = b[i] \o g
            BY <1>6, <1>7, <3>1
        <3> HIDE DEF j
        <3>4. Counted(t, j, f, g)
            BY <1>8, <3>2
        <3>5. f \in Seq(V) /\ g \in Seq(D)
            BY <1>6, <1>7, <3>2
        <3> HIDE DEF f, g
        <3>6. Counted(t, i, FindPut(m, t)[i] \o f, SubPut(m, t)[i] \o g)
            BY <3>1, <3>4, <3>5, CountedStep
        <3>7. Counted(t, i, J[i], G[i])
            BY <3>3, <3>6, Zenon
        <3> QED
            BY <3>7
    <2> QED
        BY <2>1, <2>2
<1>9. \A i \in 1..N : i \in S
    <2> HIDE DEF S, N
    <2> QED
        BY <1>1, <1>8, Downwards
<1> QED
    BY <1>9

\* What the calls have to answer, and what they do.
Right(re, t, r) ==
    /\ r.found <=> \E i \in (IF Anchored(re) THEN {1} ELSE 1..Len(t) + 1) : Best(re, t)[i] >= 0
    /\ r.len = Best(re, t)[1]
    /\ AllMatches(Best(re, t), t, r.all)
    /\ Counted(t, 1, r.all, r.sub)
Answer(re, t) == [found |-> ReMatch(re, t), len |-> MatchAt(re, t)[1], all |-> Findall(re, t), sub |-> ReSub(re, <<Mark>>, t)]
RightCall(c) == \A t \in ReTexts : Right(c.re, t, c.out[t])

LEMMA AnswerIsRight ==
    ASSUME NEW C, NEW re \in Seq(C), NEW t \in Seq(C), Clean(t)
    PROVE  Right(re, t, Answer(re, t))
<1> DEFINE n == Len(t)
           p == First(re)
           m == MatchAt(re, t)
           r == Answer(re, t)
           L(i) == Longest(re, t, p, i)
           I == IF Anchored(re) THEN {1} ELSE 1..n + 1
<1>1. n \in Nat /\ 1 \in 1..n + 1
    BY LenProperties
<1>2. m = Longests(re, t, p) /\ Best(re, t) = m /\ MatchHere(re, t)[p] = Found(re, t, p)
    BY BestIs
<1>3. m = [i \in 1..n + 1 |-> L(i)]
    BY <1>2 DEF Longests
<1>4. \A i \in 1..n + 1 : L(i) \in Int /\ L(i) >= -1 /\ i + L(i) <= n + 1
    BY LongestRange
<1> HIDE DEF m, n, p, L
<1>5. Sizes(t, m)
    BY <1>3, <1>4 DEF Sizes, n
<1>6. PICK J : Joins(t, m, FindPut(m, t), J) /\ Findall(re, t) = J[1]
    BY <1>5, FindallIs DEF m
<1>7. PICK G : Joins(t, m, SubPut(m, t), G) /\ ReSub(re, <<Mark>>, t) = G[1]
    BY <1>5, ReSubIs DEF m
<1>8. Taken(m, t, 1, J[1])
    <2>1. \A i \in 1..Len(t) + 1 : Taken(m, t, i, J[i])
        BY <1>5, <1>6, FindTaken
    <2> QED
        BY <1>1, <2>1 DEF n
<1>9. Counted(t, 1, J[1], G[1])
    <2>1. \A i \in 1..Len(t) + 1 : Counted(t, i, J[i], G[i])
        BY <1>5, <1>6, <1>7, SubCounted
    <2> QED
        BY <1>1, <2>1 DEF n
<1>10. AllMatches(m, t, J[1])
    BY <1>8, Zenon DEF AllMatches, Taken, Places
<1>11. ReMatch(re, t) <=> \E i \in I : m[i] >= 0
    <2>1. ReMatch(re, t) <=> \E i \in I : MatchHere(re, t)[p][i]
        BY Zenon DEF ReMatch, p, n
    <2>2. \A i \in I : i \in 1..n + 1
        BY <1>1
    <2>3. Found(re, t, p) = [i \in 1..n + 1 |-> L(i) >= 0]
        BY Zenon DEF Found, n, L
    <2>4. \A i \in 1..n + 1 : MatchHere(re, t)[p][i] <=> m[i] >= 0
        BY <1>2, <1>3, <2>3
    <2> HIDE DEF I
    <2> QED
        BY <2>1, <2>2, <2>4
<1>12. r.found = ReMatch(re, t) /\ r.len = m[1] /\ r.all = J[1] /\ r.sub = G[1]
    BY <1>6, <1>7 DEF Answer, m
<1> HIDE DEF r
<1>13. r.found <=> \E i \in I : Best(re, t)[i] >= 0
    BY <1>2, <1>11, <1>12, Zenon
<1>14. r.len = Best(re, t)[1] /\ AllMatches(Best(re, t), t, r.all) /\ Counted(t, 1, r.all, r.sub)
    BY <1>2, <1>9, <1>10, <1>12, Zenon
<1> QED
    BY <1>13, <1>14, Zenon DEF Right, n, r

(* For every set of patterns and texts, re_match finds a text that matches  *)
(* as a whole and nothing where no text of the language stands; a match is  *)
(* the longest at its place; for a pattern without ^, findall takes the     *)
(* leftmost matches, no two of them overlapping, and leaves none out, and   *)
(* sub puts the replacement once for each and keeps every other letter      *)
(* (abs_regex.c).                                                           *)
THEOREM RegexCorrect == RegexSpec => []RegexMatchesLanguage
<1>1. (Is("regex") => RightCall(call)) => RegexMatchesLanguage
    <2> DEFINE Whole(re, t, r) == Best(re, t)[1] = Len(t) => r.found
               Some(re, t, r) == r.found => \E i \in (IF Anchored(re) THEN {1} ELSE 1..Len(t) + 1) : Best(re, t)[i] >= 0
               Substituted(t, r) == /\ Cardinality({j \in 1..Len(r.sub) : r.sub[j] = Mark}) = Len(r.all)
                                    /\ Len(r.sub) - Len(r.all) + Letters(r.all) = Len(t)
               Every(re, t, r) == ~Anchored(re) => AllMatches(Best(re, t), t, r.all) /\ Substituted(t, r)
    <2>1. ASSUME NEW t \in ReTexts, NEW r PROVE Counted(t, 1, r.all, r.sub) <=> Substituted(t, r)
        <3>1. Len(t) \in Nat
            BY RegexAssumption, LenProperties
        <3>2. Len(t) - 1 + 1 = Len(t)
            BY <3>1
        <3> QED
            BY <3>2, Zenon DEF Counted, Marks
    <2>2. ASSUME NEW t \in ReTexts, NEW re, NEW r, Right(re, t, r)
          PROVE  Whole(re, t, r) /\ Some(re, t, r) /\ r.len = Best(re, t)[1] /\ Every(re, t, r)
        <3> DEFINE I == IF Anchored(re) THEN {1} ELSE 1..Len(t) + 1
        <3>1. Len(t) \in Nat
            BY RegexAssumption, LenProperties
        <3>2. 1 \in I
            BY <3>1
        <3>3. Best(re, t)[1] = Len(t) => Best(re, t)[1] >= 0
            BY <3>1
        <3>4. r.found <=> \E i \in I : Best(re, t)[i] >= 0
            BY <2>2, Zenon DEF Right
        <3> HIDE DEF I
        <3>5. Whole(re, t, r)
            BY <3>2, <3>3, <3>4, Zenon
        <3>6. Some(re, t, r)
            BY <3>4, Zenon DEF I
        <3>7. r.len = Best(re, t)[1] /\ Every(re, t, r)
            BY <2>1, <2>2, Zenon DEF Right
        <3> QED
            BY <3>5, <3>6, <3>7, Zenon
    <2>3. (\A t \in ReTexts : LET re == call.re  r == call.out[t]
               IN Whole(re, t, r) /\ Some(re, t, r) /\ r.len = Best(re, t)[1] /\ Every(re, t, r))
          => RegexMatchesLanguage
        BY Zenon DEF RegexMatchesLanguage, Best
    <2> HIDE DEF Whole, Some, Every
    <2>4. ASSUME Is("regex"), RightCall(call) PROVE RegexMatchesLanguage
        BY <2>2, <2>3, <2>4, Zenon DEF RightCall
    <2>5. ~Is("regex") => RegexMatchesLanguage
        BY Zenon DEF RegexMatchesLanguage
    <2> QED
        BY <2>4, <2>5, Zenon
<1>2. NoneCalled => RegexMatchesLanguage
    BY DEF NoneCalled, NoCall, RegexMatchesLanguage, Is
<1>3. ASSUME CallRegex PROVE (Is("regex") => RightCall(call))'
    <2>1. PICK re \in Patterns : call' = [fn |-> "regex", re |-> re, out |-> [t \in ReTexts |-> Answer(re, t)]]
        BY <1>3 DEF CallRegex, Called, Answer
    <2>2. ASSUME NEW t \in ReTexts PROVE Right(re, t, Answer(re, t))
        <3>1. re \in Seq(STRING) /\ t \in Seq(STRING) /\ Clean(t)
            BY RegexAssumption DEF Clean
        <3> QED
            BY <3>1, AnswerIsRight
    <2>3. call'.re = re /\ \A t \in ReTexts : call'.out[t] = Answer(re, t)
        BY <2>1
    <2>4. RightCall(call')
        BY <2>2, <2>3, Zenon DEF RightCall
    <2> QED
        BY <2>4
<1>4. RegexMatchesLanguage /\ [CallRegex \/ ~Is("regex")']_call => RegexMatchesLanguage'
    <2> SUFFICES ASSUME RegexMatchesLanguage, [CallRegex \/ ~Is("regex")']_call PROVE RegexMatchesLanguage'
        OBVIOUS
    <2>1. CASE CallRegex
        <3>1. ((Is("regex") => RightCall(call)) => RegexMatchesLanguage)'
            BY <1>1, PTL
        <3> QED
            BY <1>3, <2>1, <3>1
    <2>2. CASE ~Is("regex")'
        BY <2>2 DEF RegexMatchesLanguage
    <2>3. CASE UNCHANGED call
        BY <2>3 DEF RegexMatchesLanguage, Is
    <2> QED
        BY <2>1, <2>2, <2>3
<1> QED
    BY <1>2, <1>4, PTL DEF RegexSpec
=============================================================================
