------------------------------ MODULE Runtime ------------------------------
(***************************************************************************)
(* The callback side of the runtime: chained dictionaries and lists of     *)
(* abs.c, and what is built on them in abs_events.c (an event bus is a     *)
(* dictionary of handler lists), abs_func.c (a memoised function is a C    *)
(* function and a dictionary of results), abs_itertools.c and abs_gen.c    *)
(* (lazy iterators over lists that may grow meanwhile).                    *)
(*                                                                         *)
(* stack holds the calls in progress, the innermost last: an emit() in its *)
(* loop, a handler it called, the C function under call_memoized().  The   *)
(* user's code runs at the bottom and inside handlers and functions, and   *)
(* there it may call every operation again.  An allocation may fail at any *)
(* time; oom remembers that one did.  crashed is a NULL dereference.       *)
(*                                                                         *)
(* Operators whose name ends in _bug are the wrong versions against which  *)
(* the properties were tried; the specification uses none of them.         *)
(***************************************************************************)
EXTENDS Integers, SequencesExt

CONSTANTS
    Keys, Hash,      \* dictionary keys; dict_hash(key) % capacity of each
    Events,          \* the keys used as event names
    Handlers,        \* the C functions given to on()
    Args, KeyOf, F,  \* arguments of the memoised function, their cache keys, its results
    Items,           \* what the user appends to its lists
    Sources,         \* the ids of the user's lists
    Ranges,          \* <<start, stop, step>> given to range_gen
    LongMax,         \* LONG_MAX; LONG_MIN is -LongMax - 1
    InitCap,         \* capacity of a new list (4 in the code)
    MaxOps,          \* bound: calls of the user
    MaxDepth,        \* bound: calls in progress
    MaxOut,          \* bound: values taken from one iterator
    Null, None, Error

Long == (-LongMax - 1)..LongMax

\* Objects are told apart: NULL is no key and no function, an error object is
\* no function, the lists of the events are not the user's.
ASSUME RuntimeAssumption ==
    /\ Events \subseteq Keys /\ DOMAIN Hash = Keys
    /\ KeyOf \in [Args -> Keys] /\ DOMAIN F = Args
    /\ InitCap \in Nat \ {0} /\ LongMax \in Nat /\ MaxOps \in Nat
    /\ Ranges \subseteq Long \X Long \X Long
    /\ Null \notin Keys /\ None \notin Keys /\ None # Null
    /\ {Null, Error} \cap Handlers = {} /\ Sources \cap Events = {}

VARIABLES
    bus, cache,   \* two dictionaries: bucket -> chain of nodes, newest first
    lists,        \* list objects: [items, cap]
    iter,         \* the iterator or generator in use
    stack, crashed,
    oom, ops, registered, runs, overlaps, answers   \* history

vars == <<bus, cache, lists, iter, stack, crashed, oom, ops, registered, runs, overlaps, answers>>
history == <<registered, runs, overlaps, answers>>

----------------------------------------------------------------------------
(* Dictionaries: dset and dget                                             *)

NewDict == [b \in Range(Hash) |-> <<>>]

\* Position of key k in its chain, 0 if it is not there.
\* Bug: the first node of the bucket is taken for the key's.
Pos_bug(d, k) == IF d[Hash[k]] = <<>> THEN 0 ELSE 1

Pos(d, k) == SelectInSeq(d[Hash[k]], LAMBDA node : node.key = k)

\* strcmp is handed the NULL key of a node whose key could not be copied.
Trips(d, k) ==
    LET last == IF Pos(d, k) = 0 THEN Len(d[Hash[k]]) ELSE Pos(d, k)
    IN \E i \in 1..last : d[Hash[k]][i].key = Null

Lookup(d, k) == IF Pos(d, k) = 0 THEN None ELSE d[Hash[k]][Pos(d, k)].value

\* The None of a miss is a new object: NULL when memory is out.
Dget(d, k) == IF Pos(d, k) = 0 THEN {None, Null} ELSE {Lookup(d, k)}
Missing(d, k, answer) == Pos(d, k) = 0 /\ answer = Null

\* Bug: the node is linked without its value.
Linked_bug(d, k, key, v) == [d EXCEPT ![Hash[k]] = <<[key |-> key, value |-> Null]>> \o @]

Linked(d, k, key, v) == [d EXCEPT ![Hash[k]] = <<[key |-> key, value |-> v]>> \o @]

\* What dset leaves: the value replaced, or a node linked, its key possibly
\* lost, or nothing at all.
Dset(d, k, v) == IF Pos(d, k) > 0 THEN {[d EXCEPT ![Hash[k]][Pos(d, k)].value = v]}
    ELSE {Linked(d, k, k, v), Linked(d, k, Null, v), d}
Lossless(d, k, v, d1) == Pos(d, k) > 0 \/ d1 = Linked(d, k, k, v)

----------------------------------------------------------------------------
(* Lists: abs_new_list, append, get; an event's list goes by its name        *)

NewList == [items |-> <<>>, cap |-> InitCap]

\* Bug: a growing list starts again.
Appended_bug(l, x) == IF Len(l.items) < l.cap THEN {[l EXCEPT !.items = Append(@, x)]}
    ELSE {[items |-> <<x>>, cap |-> 2 * l.cap], l}

\* Bug: the last free place is not taken as such.
AppendedLate_bug(l, x) == IF Len(l.items) <= l.cap THEN {[l EXCEPT !.items = Append(@, x)]}
    ELSE {[items |-> Append(l.items, x), cap |-> 2 * l.cap], l}

\* append drops the item when the list cannot grow.
Appended(l, x) == IF Len(l.items) < l.cap THEN {[l EXCEPT !.items = Append(@, x)]}
    ELSE {[items |-> Append(l.items, x), cap |-> 2 * l.cap], l}

----------------------------------------------------------------------------
Top == stack[Len(stack)]
Running(kind) == ~crashed /\ stack # <<>> /\ Top.kind = kind
UserRuns == ~crashed /\ (stack # <<>> => Top.kind \in {"handler", "body", "wrapper"})
Call == UserRuns /\ ops < MaxOps /\ ops' = ops + 1
Push(frame) == Len(stack) < MaxDepth /\ stack' = Append(stack, frame)
Return == stack' = Front(stack)

\* failed: it is a NULL that an allocation has just answered.
Crash(failed) ==
    /\ crashed' = TRUE /\ IF failed THEN oom' = TRUE ELSE UNCHANGED oom
    /\ UNCHANGED <<bus, cache, lists, iter, stack, history>>

\* asked is what the user called, mode how iter_next reads the object.
NoIter == [mode |-> "none", asked |-> "none", a |-> None, b |-> None, index |-> 0, limit |-> 0,
           step |-> 0, out |-> <<>>, start |-> 0, late |-> FALSE]

Init ==
    /\ bus = NewDict /\ cache = NewDict
    /\ lists = [i \in Sources |-> NewList]
    /\ iter = NoIter
    /\ stack = <<>> /\ crashed = FALSE
    /\ oom = FALSE /\ ops = 0
    /\ registered = [e \in Events |-> <<>>]
    /\ runs = [k \in Keys |-> 0] /\ overlaps = {} /\ answers = {}

----------------------------------------------------------------------------
(* The event bus                                                           *)

\* make_func answers an error object, or NULL, when memory is out.
MakeFunc(h) == {h, Error, Null}

Entered(e, list) == [l \in DOMAIN lists \cup {e} |-> IF l = e THEN list ELSE lists[l]]

On(e, h) ==
    /\ Call
    /\ \E list \in Dget(bus, e) :
          IF Trips(bus, e) \/ list = Null THEN Crash(Missing(bus, e, list))
          ELSE \E func \in MakeFunc(h) :
            /\ \/ /\ list # None
                  /\ \E l \in Appended(lists[list], func) :
                        /\ lists' = [lists EXCEPT ![list] = l]
                        /\ oom' = (oom \/ func # h \/ l = lists[list])
                  /\ UNCHANGED bus
               \/ /\ list = None
                  /\ \E new \in {e, Null} : \E d \in Dset(bus, e, new) :
                        /\ bus' = d
                        /\ oom' = (oom \/ func # h \/ new = Null \/ ~Lossless(bus, e, new, d))
                        /\ lists' = IF new = Null \/ Pos(d, e) = 0 THEN lists
                                    ELSE Entered(e, [NewList EXCEPT !.items = <<func>>])
            /\ registered' = [registered EXCEPT ![e] = Append(@, h)]
            /\ UNCHANGED <<cache, iter, stack, crashed, runs, overlaps, answers>>

Emit(e) ==
    /\ Call
    /\ \E list \in Dget(bus, e) :
          IF Trips(bus, e) \/ list = Null THEN Crash(Missing(bus, e, list))
          ELSE /\ IF list = None THEN UNCHANGED stack
                  ELSE Push([kind |-> "emit", list |-> list, i |-> 0, size |-> Len(lists[list].items), seen |-> <<>>])
               /\ UNCHANGED <<bus, cache, lists, iter, crashed, oom, history>>

\* The loop reads the size again before every handler.
\* Bug: the size is read once.
Size_bug(frame) == frame.size
Size(frame) == Len(lists[frame.list].items)

EmitNext ==
    /\ Running("emit") /\ Top.i < Size(Top)
    /\ LET f == lists[Top.list].items[Top.i + 1]
           further == [stack EXCEPT ![Len(stack)].i = @ + 1]
       IN IF f = Null THEN Crash(FALSE)
          ELSE /\ IF f = Error THEN stack' = further
                  ELSE /\ Len(stack) < MaxDepth
                       /\ stack' = Append([further EXCEPT ![Len(stack)].seen = Append(@, <<Top.i + 1, f>>)],
                                          [kind |-> "handler", func |-> f])
               /\ UNCHANGED <<bus, cache, lists, iter, crashed, oom, history>>
    /\ UNCHANGED ops

EmitReturns ==
    /\ Running("emit") /\ Top.i >= Size(Top)
    /\ Return
    /\ UNCHANGED <<bus, cache, lists, iter, crashed, oom, ops, history>>

HandlerReturns ==
    /\ Running("handler")
    /\ Return
    /\ UNCHANGED <<bus, cache, lists, iter, crashed, oom, ops, history>>

----------------------------------------------------------------------------
(* Memoised functions                                                      *)

\* Bug: an error is taken for a result that is not known yet.
Known_bug(v) == v \notin {None, Error}
Known(v) == v # None

CallMemoized(arg) ==
    /\ Call
    /\ LET k == KeyOf[arg]
       IN \E cached \in Dget(cache, k) :
          IF Trips(cache, k) \/ cached = Null THEN Crash(Missing(cache, k, cached))
          ELSE /\ IF Known(cached)
                  THEN /\ answers' = answers \cup {<<arg, cached>>}
                       /\ UNCHANGED <<stack, runs, overlaps>>
                  ELSE /\ Push([kind |-> "body", arg |-> arg])
                       /\ runs' = [runs EXCEPT ![k] = @ + 1]
                       /\ overlaps' = overlaps \cup {KeyOf[stack[i].arg] :
                             i \in {j \in DOMAIN stack : stack[j].kind = "body" /\ KeyOf[stack[j].arg] = k}}
                       /\ UNCHANGED answers
               /\ UNCHANGED <<bus, cache, lists, iter, crashed, oom, registered>>

\* func_ptr(arg) has returned F[arg].  The chain is walked again by dset.
BodyReturns ==
    /\ Running("body")
    /\ LET k == KeyOf[Top.arg]  v == F[Top.arg]
       IN IF Trips(cache, k) THEN Crash(FALSE)
          ELSE /\ \E d \in Dset(cache, k, v) :
                     cache' = d /\ oom' = (oom \/ ~Lossless(cache, k, v, d))
               /\ answers' = answers \cup {<<Top.arg, v>>}
               /\ Return
               /\ UNCHANGED <<bus, lists, iter, crashed, registered, runs, overlaps>>
    /\ UNCHANGED ops

\* call_func on what decorate_func made: the wrapper's own code runs, and may
\* call its target, the memoised function, any number of times.
CallDecorated ==
    /\ Call
    /\ Push([kind |-> "wrapper"])
    /\ UNCHANGED <<bus, cache, lists, iter, crashed, oom, history>>

WrapperReturns ==
    /\ Running("wrapper")
    /\ Return
    /\ UNCHANGED <<bus, cache, lists, iter, crashed, oom, ops, history>>

----------------------------------------------------------------------------
(* Iterators and generators over lists                                     *)

Elems(x) == IF x \in Sources THEN lists[x].items ELSE <<>>

\* The new object, or an error (None of range_gen) when memory is out.
Start(it, failed) ==
    /\ Call
    /\ \/ iter' = it /\ oom' = (oom \/ failed)
       \/ iter' = NoIter /\ oom' = TRUE
    /\ UNCHANGED <<bus, cache, lists, stack, crashed, history>>

NewIter(mode, asked, a) == [NoIter EXCEPT !.mode = mode, !.asked = asked, !.a = a]

\* A missing second list is a new None; when that is NULL, the mark of a
\* cycle, iter_next goes round the first list.
Chain(a, b) ==
    \/ Start([NewIter("chain", "chain", a) EXCEPT !.b = b], FALSE)
    \/ b = None /\ Start(NewIter("cycle", "chain", a), TRUE)
Cycle(a) == Start(NewIter("cycle", "cycle", a), FALSE)
Repeat(v, n) == Start([NewIter("repeat", "repeat", v) EXCEPT !.limit = IF n > 0 THEN n ELSE 0], FALSE)
RangeGen(r) ==
    /\ r[3] # 0
    /\ Start([NewIter("gen", "gen", None) EXCEPT !.index = r[1], !.start = r[1], !.limit = r[2], !.step = r[3]], FALSE)

Wrap(n) == ((n + LongMax + 1) % (2 * LongMax + 2)) - LongMax - 1

\* One value of the iterator, and its index afterwards.
\* Bug: the second list is read from where the first one ended.
ChainIndex_bug(it) == it.index
ChainIndex(it) == IF it.index < Len(Elems(it.a)) THEN it.index ELSE it.index - Len(Elems(it.a))

\* Bug: a spent cycle starts at its second element.
CycleIndex_bug(it) == IF it.index >= Len(Elems(it.a)) THEN 1 % Len(Elems(it.a)) ELSE it.index
CycleIndex(it) == IF it.index >= Len(Elems(it.a)) THEN 0 ELSE it.index

\* Bug: the value that could not be allocated is not counted.
GenIndex_bug(it, value) == IF value = it.index THEN Wrap(it.index + it.step) ELSE it.index
GenIndex(it, value) == Wrap(it.index + it.step)

Step(value, index) == iter' = [iter EXCEPT !.out = Append(@, value), !.index = index]

\* A number of the range is a new object: when memory is out next() answers
\* None, or NULL for that too, and the generator has moved on all the same.
IterNext ==
    /\ UserRuns /\ Len(iter.out) < MaxOut
    /\ \/ /\ \/ /\ iter.mode = "repeat" /\ iter.index < iter.limit
                /\ Step(iter.a, iter.index + 1)
             \/ /\ iter.mode = "chain"
                /\ LET s == IF iter.index < Len(Elems(iter.a)) THEN Elems(iter.a) ELSE Elems(iter.b)
                       i == ChainIndex(iter)
                   IN i < Len(s) /\ Step(s[i + 1], iter.index + 1)
             \/ /\ iter.mode = "cycle" /\ Elems(iter.a) # <<>>
                /\ Step(Elems(iter.a)[CycleIndex(iter) + 1], CycleIndex(iter) + 1)
          /\ UNCHANGED oom
       \/ /\ iter.mode = "gen"
          /\ IF iter.step > 0 THEN iter.index < iter.limit ELSE iter.index > iter.limit
          /\ \E v \in {iter.index, None, Null} :
                Step(v, GenIndex(iter, v)) /\ oom' = (oom \/ v # iter.index)
    /\ UNCHANGED <<bus, cache, lists, stack, crashed, ops, history>>

\* late: the list grew under an iterator that had passed its end.
AppendItem(l, x) ==
    /\ Call
    /\ \E l1 \in Appended(lists[l], x) :
          /\ lists' = [lists EXCEPT ![l] = l1]
          /\ oom' = (oom \/ l1 = lists[l])
          /\ iter' = [iter EXCEPT !.late = @ \/ \/ /\ iter.mode = "chain" /\ iter.a = l
                                                   /\ iter.index > Len(Elems(l))
                                                \/ iter.mode = "cycle" /\ iter.out # <<>>]
    /\ UNCHANGED <<bus, cache, stack, crashed, history>>

UserCalls ==
    \/ \E e \in Events : Emit(e) \/ \E h \in Handlers : On(e, h)
    \/ CallDecorated \/ \E arg \in Args : CallMemoized(arg)
    \/ \E a \in Sources : Cycle(a) \/ \E b \in Sources \cup {None} : Chain(a, b)
    \/ \E v \in Items, n \in {-1, 2} : Repeat(v, n)
    \/ \E r \in Ranges : RangeGen(r)
    \/ \E l \in Sources, x \in Items : AppendItem(l, x)

Next == UserCalls \/ EmitNext \/ EmitReturns \/ HandlerReturns \/ BodyReturns \/ WrapperReturns \/ IterNext

Spec == Init /\ [][Next]_vars

----------------------------------------------------------------------------
(* Properties                                                              *)

\* The state has its shape: a list never holds more than its capacity, an
\* iterator that was not overtaken stays inside its lists.
TypeOK ==
    /\ \A l \in DOMAIN lists : Len(lists[l].items) <= lists[l].cap
    /\ crashed \in BOOLEAN /\ oom \in BOOLEAN /\ ops \in 0..MaxOps
    /\ \A i \in DOMAIN stack : stack[i].kind \in {"emit", "handler", "body", "wrapper"}
    /\ iter.mode = "chain" => iter.index <= Len(Elems(iter.a)) + Len(Elems(iter.b))

\* on() and emit() of abs_events.c: unless memory was out, the list found
\* under an event's name holds exactly the handlers registered for it, in the
\* order of their registration, also when handlers register handlers.
BusIsExact ==
    ~oom => \A e \in Events : LET list == Lookup(bus, e)
        IN registered[e] = IF list = None THEN <<>> ELSE lists[list].items

\* The objects of the runtime have their shape and the bus is exact.
Consistent == TypeOK /\ BusIsExact

\* seen are calls <<place, function>>: one of every function among items, in
\* the order of the list.
CalledInOrder(seen, items) ==
    /\ \A j, k \in DOMAIN seen : j < k => seen[j][1] < seen[k][1]
    /\ {seen[j][1] : j \in DOMAIN seen} = {p \in DOMAIN items : items[p] # Error}
    /\ \A j \in DOMAIN seen : seen[j][2] = items[seen[j][1]]

\* emit() returns only when it has called every function the list holds by
\* then, once and in order: handlers registered by handlers included.
EmitRunsAll == [][EmitReturns => CalledInOrder(Top.seen, lists[Top.list].items)]_vars

\* The runtime dereferences NULL only after an allocation failed or the
\* memoised function itself has answered NULL (dget's callers in abs_events.c
\* and abs_func.c read ->type of what they are given).
CrashNeedsNull == crashed => oom \/ \E ans \in answers : ans[2] = Null

\* call_memoized runs the function a second time for a cache key only if
\* memory was out, if the known answer was None, or if the second call was
\* made while the first was still running (recursion).
ComputedOnce == \A k \in Keys : runs[k] > 1 =>
        oom \/ k \in overlaps \/ \E a \in Args : KeyOf[a] = k /\ F[a] = None

\* What call_memoized answers is the function's value at the argument or at
\* one that call_memoized cannot tell from it (an int and its decimal text).
MemoAnswers == \A ans \in answers : \E b \in Args : KeyOf[b] = KeyOf[ans[1]] /\ ans[2] = F[b]

\* What call_memoized promises: no second run, no other function's answer.
MemoIsExact == ComputedOnce /\ MemoAnswers

\* iter_next and next yield what the source promises: the two lists one after
\* the other, the list over and over, the value n times, the numbers of the
\* range; as long as no list grew behind the iterator, and until the long
\* wraps.  Memory out costs single numbers of a range, whose places stay empty
\* while the others keep theirs, and can turn a chain of one list into a cycle.
IteratorsAreExact ==
    /\ iter.mode # iter.asked => oom
    /\ ~iter.late => CASE iter.mode = "chain" -> IsPrefix(iter.out, Elems(iter.a) \o Elems(iter.b))
                    [] iter.mode = "cycle" -> \A i \in DOMAIN iter.out :
                            iter.out[i] = Elems(iter.a)[((i - 1) % Len(Elems(iter.a))) + 1]
                    [] iter.mode = "repeat" -> Len(iter.out) <= iter.limit /\ \A i \in DOMAIN iter.out : iter.out[i] = iter.a
                    [] iter.mode = "gen" -> \A i \in DOMAIN iter.out :
                            LET v == iter.start + (i - 1) * iter.step
                            IN Wrap(v) = v => /\ iter.out[i] = v \/ (oom /\ iter.out[i] \in {None, Null})
                                              /\ IF iter.step > 0 THEN v < iter.limit ELSE v > iter.limit
                    [] OTHER -> TRUE
=============================================================================
