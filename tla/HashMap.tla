------------------------------ MODULE HashMap ------------------------------
(***************************************************************************)
(* abs_hashmap.c: an open-addressing hash map with linear probing.         *)
(*                                                                         *)
(* One action is one call, one iteration of a probe or migration loop, or  *)
(* the end of a loop.  The arrays states[] and keys[] are one function     *)
(* slot: EMPTY, TOMBSTONE or the key stored there (the code sets the two   *)
(* together everywhere).  hash & (cap - 1) is the constant operator Home;  *)
(* nothing below depends on which hash function it is.                     *)
(*                                                                         *)
(* A foreach callback may call any operation on the map it is visiting, so *)
(* a call may start while a foreach is suspended in its callback.          *)
(*                                                                         *)
(* Operators whose name ends in _bug are the wrong versions against which  *)
(* the properties below were tried; the specification uses none of them.   *)
(***************************************************************************)
EXTENDS Integers, FiniteSets

CONSTANTS
    Keys, Values, NULL,
    EMPTY, TOMBSTONE,      \* ABS_HM_EMPTY, ABS_HM_TOMBSTONE
    Home(_, _),            \* Home(k, c) = hash of k & (c - 1)
    MinCap,                \* abs_hm_min_cap
    MaxCap,                \* bound: no table larger than this is allocated
    FreeFn                 \* was the map created with a free_value callback?

ASSUME HashMapAssumption ==
    /\ MinCap \in Nat \ {0} /\ MaxCap \in Nat /\ FreeFn \in BOOLEAN
    /\ EMPTY # TOMBSTONE /\ EMPTY \notin Keys /\ TOMBSTONE \notin Keys
    /\ NULL \notin Keys /\ NULL \notin Values

ASSUME HomeAssumption ==
    \A k \in Keys, c \in 1 .. MaxCap : Home(k, c) \in 0 .. c - 1

NoIdx == -1                \* SIZE_MAX, "no slot"

VARIABLES
    cap, slot, val, count, tombstones,  \* struct abs_hashmap
    ncap, nslot, nval, i,               \* locals of abs_hm_resize
    pc, op, key, value, idx, tomb, ret, \* the running call
    owned,                              \* values the map still has to free
    it, cb,                             \* foreach: next slot; in the callback?
    seen, due                           \* history of the running foreach

table == <<cap, slot, val, count, tombstones>>
newTable == <<ncap, nslot, nval, i>>
call == <<pc, op, key, value, idx, tomb, ret>>
iter == <<it, cb, seen, due>>
vars == <<table, newTable, call, owned, iter>>

Slots(c) == 0 .. c - 1
Occupied(s) == {x \in DOMAIN s : s[x] \in Keys}
Tombs(s) == {x \in DOMAIN s : s[x] = TOMBSTONE}
Stored == {slot[x] : x \in Occupied(slot)}
\* Bug: the probe does not wrap around at the end of the table.
NextIdx_bug(x, c) == IF x = c - 1 THEN x ELSE x + 1

NextIdx(x, c) == IF x = c - 1 THEN 0 ELSE x + 1

\* The free_value callback on value v; the caller's pointer when there is none.
Free(o, v) == IF FreeFn THEN o \ {v} ELSE o
Own(o, v) == IF FreeFn /\ v # NULL THEN o \cup {v} ELSE o

Init ==
    /\ cap = 0 /\ slot = [x \in Slots(0) |-> EMPTY]
    /\ val = [x \in Slots(0) |-> NULL]
    /\ count = 0 /\ tombstones = 0
    /\ ncap = 0 /\ nslot = [x \in Slots(0) |-> EMPTY]
    /\ nval = [x \in Slots(0) |-> NULL] /\ i = 0
    /\ pc = "ready" /\ op = "none" /\ key = NULL /\ value = NULL
    /\ idx = 0 /\ tomb = NoIdx /\ ret = "ok"
    /\ owned = {}
    /\ it = NoIdx /\ cb = FALSE /\ seen = {} /\ due = {}

\* The caller has control: no call is running, except a suspended foreach.
CallerRuns == pc = "ready" /\ (it = NoIdx \/ cb)

Return(r) ==
    /\ pc' = "ready" /\ op' = "none" /\ key' = NULL /\ value' = NULL
    /\ idx' = 0 /\ tomb' = NoIdx /\ ret' = r

Probe(at, where) ==
    /\ pc' = where /\ idx' = at /\ tomb' = NoIdx
    /\ UNCHANGED <<op, key, value, ret>>

-----------------------------------------------------------------------------
\* abs_hashmap_set

\* The caller hands over a pointer the map does not own yet.
CallSet(k, v) ==
    /\ CallerRuns
    /\ v \notin owned
    /\ pc' = "set" /\ op' = "set" /\ key' = k /\ value' = v
    /\ UNCHANGED <<table, newTable, idx, tomb, ret, owned, iter>>

OutOfMemory ==
    /\ pc = "set"
    /\ cap = 0 \/ (count + tombstones + 1) * 10 > cap * 7
    /\ Return("fail")
    /\ UNCHANGED <<table, newTable, owned, iter>>

\* Bug: the first table is allocated without its array of values.
FirstTable_bug ==
    /\ pc = "set" /\ cap = 0
    /\ MinCap <= MaxCap
    /\ cap' = MinCap
    /\ slot' = [x \in Slots(MinCap) |-> EMPTY]
    /\ tombstones' = 0
    /\ UNCHANGED <<val, count, newTable, call, owned, iter>>

FirstTable ==
    /\ pc = "set" /\ cap = 0
    /\ MinCap <= MaxCap
    /\ cap' = MinCap
    /\ slot' = [x \in Slots(MinCap) |-> EMPTY]
    /\ val' = [x \in Slots(MinCap) |-> NULL]
    /\ tombstones' = 0
    /\ UNCHANGED <<count, newTable, call, owned, iter>>

\* Live entries and tombstones together must stay below 70% of the table.
Grow ==
    /\ pc = "set" /\ cap > 0
    /\ (count + tombstones + 1) * 10 > cap * 7
    /\ cap * 2 <= MaxCap
    /\ ncap' = cap * 2
    /\ nslot' = [x \in Slots(cap * 2) |-> EMPTY]
    /\ nval' = [x \in Slots(cap * 2) |-> NULL]
    /\ i' = 0
    /\ pc' = "migrate"
    /\ UNCHANGED <<table, op, key, value, idx, tomb, ret, owned, iter>>

\* Bug: the load check counts the live entries only.
LoadOK_bug ==
    /\ pc = "set" /\ cap > 0
    /\ (count + 1) * 10 <= cap * 7
    /\ Probe(Home(key, cap), "probe")
    /\ UNCHANGED <<table, newTable, owned, iter>>

LoadOK ==
    /\ pc = "set" /\ cap > 0
    /\ (count + tombstones + 1) * 10 <= cap * 7
    /\ Probe(Home(key, cap), "probe")
    /\ UNCHANGED <<table, newTable, owned, iter>>

MigrateSlot ==
    /\ pc = "migrate" /\ i < cap
    /\ IF slot[i] \in Keys
       THEN pc' = "place" /\ idx' = Home(slot[i], ncap) /\ UNCHANGED i
       ELSE i' = i + 1 /\ UNCHANGED <<pc, idx>>
    /\ UNCHANGED <<table, ncap, nslot, nval, op, key, value, tomb, ret, owned, iter>>

Place ==
    /\ pc = "place"
    /\ IF nslot[idx] # EMPTY
       THEN idx' = NextIdx(idx, ncap) /\ UNCHANGED <<nslot, nval, i, pc>>
       ELSE /\ nslot' = [nslot EXCEPT ![idx] = slot[i]]
            /\ nval' = [nval EXCEPT ![idx] = val[i]]
            /\ i' = i + 1 /\ pc' = "migrate" /\ UNCHANGED idx
    /\ UNCHANGED <<table, ncap, op, key, value, tomb, ret, owned, iter>>

\* The arrays are swapped; the tombstones stay behind with the old ones.
SwapTables ==
    /\ pc = "migrate" /\ i = cap
    /\ cap' = ncap /\ slot' = nslot /\ val' = nval
    /\ tombstones' = 0
    /\ ncap' = 0 /\ nslot' = [x \in Slots(0) |-> EMPTY]
    /\ nval' = [x \in Slots(0) |-> NULL] /\ i' = 0
    /\ Probe(Home(key, ncap), "probe")
    /\ due' = {}
    /\ UNCHANGED <<count, owned, it, cb, seen>>

SkipTombstone ==
    /\ pc = "probe" /\ slot[idx] = TOMBSTONE
    /\ tomb' = (IF tomb = NoIdx THEN idx ELSE tomb)
    /\ idx' = NextIdx(idx, cap)
    /\ UNCHANGED <<table, newTable, pc, op, key, value, ret, owned, iter>>

SkipOther ==
    /\ pc = "probe" /\ slot[idx] \in Keys \ {key}
    /\ idx' = NextIdx(idx, cap)
    /\ UNCHANGED <<table, newTable, pc, op, key, value, tomb, ret, owned, iter>>

\* Bug: the old value is overwritten without being freed.
Replace_bug ==
    /\ pc = "probe" /\ slot[idx] = key
    /\ val' = [val EXCEPT ![idx] = value]
    /\ owned' = Own(owned, value)
    /\ Return("ok")
    /\ UNCHANGED <<cap, slot, count, tombstones, newTable, iter>>

Replace ==
    /\ pc = "probe" /\ slot[idx] = key
    /\ val' = [val EXCEPT ![idx] = value]
    /\ owned' = Own(Free(owned, val[idx]), value)
    /\ Return("ok")
    /\ UNCHANGED <<cap, slot, count, tombstones, newTable, iter>>

\* Bug: set takes the first tombstone without looking for the key behind it.
InsertEarly_bug ==
    /\ pc = "probe" /\ slot[idx] \in {EMPTY, TOMBSTONE}
    /\ tombstones' = (IF slot[idx] = TOMBSTONE THEN tombstones - 1 ELSE tombstones)
    /\ count' = count + 1
    /\ slot' = [slot EXCEPT ![idx] = key]
    /\ val' = [val EXCEPT ![idx] = value]
    /\ owned' = Own(owned, value)
    /\ Return("ok")
    /\ UNCHANGED <<cap, newTable, iter>>

\* Bug: a tombstone that is used again stays in the count.
Insert_bug ==
    LET at == IF tomb # NoIdx THEN tomb ELSE idx IN
    /\ pc = "probe" /\ slot[idx] = EMPTY
    /\ count' = count + 1
    /\ slot' = [slot EXCEPT ![at] = key]
    /\ val' = [val EXCEPT ![at] = value]
    /\ owned' = Own(owned, value)
    /\ Return("ok")
    /\ UNCHANGED <<cap, tombstones, newTable, iter>>

Insert ==
    LET at == IF tomb # NoIdx THEN tomb ELSE idx IN
    /\ pc = "probe" /\ slot[idx] = EMPTY
    /\ tombstones' = (IF slot[at] = TOMBSTONE THEN tombstones - 1 ELSE tombstones)
    /\ count' = count + 1
    /\ slot' = [slot EXCEPT ![at] = key]
    /\ val' = [val EXCEPT ![at] = value]
    /\ owned' = Own(owned, value)
    /\ Return("ok")
    /\ UNCHANGED <<cap, newTable, iter>>

\* abs_hm_strdup of the key fails.
CopyFails ==
    /\ pc = "probe" /\ slot[idx] = EMPTY
    /\ Return("fail")
    /\ UNCHANGED <<table, newTable, owned, iter>>

-----------------------------------------------------------------------------
\* abs_hashmap_get, abs_hashmap_contains, abs_hashmap_remove: abs_hm_find_key

CallFind(o, k) ==
    /\ CallerRuns
    /\ op' = o /\ key' = k
    /\ pc' = "find" /\ idx' = (IF cap = 0 THEN NoIdx ELSE Home(k, cap))
    /\ UNCHANGED <<table, newTable, value, tomb, ret, owned, iter>>

FindNext ==
    /\ pc = "find" /\ idx # NoIdx
    /\ slot[idx] \notin {EMPTY, key}
    /\ idx' = NextIdx(idx, cap)
    /\ UNCHANGED <<table, newTable, pc, op, key, value, tomb, ret, owned, iter>>

\* Bug: the search gives up at a tombstone.
FindMiss_bug ==
    /\ pc = "find"
    /\ idx = NoIdx \/ (idx # NoIdx /\ slot[idx] \in {EMPTY, TOMBSTONE})
    /\ Return(IF op = "get" THEN NULL ELSE "fail")
    /\ UNCHANGED <<table, newTable, owned, iter>>

FindMiss ==
    /\ pc = "find"
    /\ idx = NoIdx \/ (idx # NoIdx /\ slot[idx] = EMPTY)
    /\ Return(IF op = "get" THEN NULL ELSE "fail")
    /\ UNCHANGED <<table, newTable, owned, iter>>

Found ==
    /\ pc = "find" /\ idx # NoIdx /\ slot[idx] = key
    /\ op \in {"get", "contains"}
    /\ Return(IF op = "get" THEN val[idx] ELSE "ok")
    /\ UNCHANGED <<table, newTable, owned, iter>>

\* Bug: the slot of a removed key becomes EMPTY.
RemoveFound_bug ==
    /\ pc = "find" /\ idx # NoIdx /\ slot[idx] = key
    /\ op = "remove"
    /\ owned' = Free(owned, val[idx])
    /\ slot' = [slot EXCEPT ![idx] = EMPTY]
    /\ val' = [val EXCEPT ![idx] = NULL]
    /\ count' = count - 1
    /\ due' = due \ {key}
    /\ Return("ok")
    /\ UNCHANGED <<cap, tombstones, newTable, it, cb, seen>>

RemoveFound ==
    /\ pc = "find" /\ idx # NoIdx /\ slot[idx] = key
    /\ op = "remove"
    /\ owned' = Free(owned, val[idx])
    /\ slot' = [slot EXCEPT ![idx] = TOMBSTONE]
    /\ val' = [val EXCEPT ![idx] = NULL]
    /\ count' = count - 1 /\ tombstones' = tombstones + 1
    /\ due' = due \ {key}
    /\ Return("ok")
    /\ UNCHANGED <<cap, newTable, it, cb, seen>>

-----------------------------------------------------------------------------
\* abs_hashmap_clear, abs_hashmap_destroy, abs_hashmap_foreach

Clear ==
    /\ CallerRuns
    /\ owned' = (IF FreeFn THEN owned \ {val[x] : x \in Occupied(slot)} ELSE owned)
    /\ slot' = [x \in Slots(cap) |-> EMPTY]
    /\ val' = [x \in Slots(cap) |-> NULL]
    /\ count' = 0 /\ tombstones' = 0
    /\ due' = {}
    /\ UNCHANGED <<cap, newTable, call, it, cb, seen>>

\* The next map is created with the same callback: the model reuses the name.
Destroy ==
    /\ pc = "ready" /\ it = NoIdx
    /\ owned' = (IF FreeFn THEN owned \ {val[x] : x \in Occupied(slot)} ELSE owned)
    /\ cap' = 0 /\ slot' = [x \in Slots(0) |-> EMPTY]
    /\ val' = [x \in Slots(0) |-> NULL]
    /\ count' = 0 /\ tombstones' = 0
    /\ UNCHANGED <<newTable, call, iter>>

ForeachStart ==
    /\ pc = "ready" /\ it = NoIdx
    /\ it' = 0 /\ cb' = FALSE
    /\ seen' = {} /\ due' = Stored
    /\ UNCHANGED <<table, newTable, call, owned>>

ForeachSlot ==
    /\ pc = "ready" /\ it # NoIdx /\ ~cb /\ it < cap
    /\ IF slot[it] \in Keys
       THEN cb' = TRUE /\ seen' = seen \cup {slot[it]} /\ UNCHANGED it
       ELSE it' = it + 1 /\ UNCHANGED <<cb, seen>>
    /\ UNCHANGED <<table, newTable, call, owned, due>>

\* Bug: the index is advanced after the callback and again by the loop.
CallbackReturns_bug(stop) ==
    /\ pc = "ready" /\ cb
    /\ cb' = FALSE
    /\ IF stop THEN it' = NoIdx /\ seen' = {} /\ due' = {}
               ELSE it' = it + 2 /\ UNCHANGED <<seen, due>>
    /\ UNCHANGED <<table, newTable, call, owned>>

CallbackReturns(stop) ==
    /\ pc = "ready" /\ cb
    /\ cb' = FALSE
    /\ IF stop THEN it' = NoIdx /\ seen' = {} /\ due' = {}
               ELSE it' = it + 1 /\ UNCHANGED <<seen, due>>
    /\ UNCHANGED <<table, newTable, call, owned>>

ForeachEnd ==
    /\ pc = "ready" /\ it # NoIdx /\ ~cb /\ it >= cap
    /\ it' = NoIdx /\ seen' = {} /\ due' = {}
    /\ UNCHANGED <<table, newTable, call, owned, cb>>

-----------------------------------------------------------------------------
SetStep == FirstTable \/ OutOfMemory \/ Grow \/ LoadOK \/ MigrateSlot \/ Place \/ SwapTables
           \/ SkipTombstone \/ SkipOther \/ Replace \/ Insert \/ CopyFails
FindStep == FindNext \/ FindMiss \/ Found \/ RemoveFound
ForeachStep == ForeachSlot \/ ForeachEnd \/ \E stop \in BOOLEAN : CallbackReturns(stop)
CallStep == SetStep \/ FindStep

Next ==
    \/ \E k \in Keys, v \in Values \cup {NULL} : CallSet(k, v)
    \/ \E o \in {"get", "contains", "remove"}, k \in Keys : CallFind(o, k)
    \/ CallStep
    \/ Clear \/ Destroy \/ ForeachStart \/ ForeachStep

Spec == Init /\ [][Next]_vars

\* A call that has started keeps executing: it runs on its caller's thread.
FairSpec == Spec /\ WF_vars(CallStep)

-----------------------------------------------------------------------------
\* Type invariant: every variable has its type, and the arrays have cap slots.
Cell == Keys \cup {EMPTY, TOMBSTONE}
Pcs == {"ready", "set", "migrate", "place", "probe", "find"}
TypeOK ==
    /\ cap \in Nat /\ count \in Nat /\ tombstones \in Nat
    /\ slot \in [Slots(cap) -> Cell] /\ val \in [Slots(cap) -> Values \cup {NULL}]
    /\ ncap \in Nat /\ i \in Nat
    /\ nslot \in [Slots(ncap) -> Keys \cup {EMPTY}]
    /\ nval \in [Slots(ncap) -> Values \cup {NULL}]
    /\ pc \in Pcs
    /\ op \in {"none", "set", "get", "contains", "remove"}
    /\ key \in Keys \cup {NULL} /\ value \in Values \cup {NULL}
    /\ idx \in Nat \cup {NoIdx} /\ tomb \in Nat \cup {NoIdx}
    /\ ret \in {"ok", "fail", NULL} \cup Values
    /\ owned \subseteq Values
    /\ it \in Nat \cup {NoIdx} /\ cb \in BOOLEAN
    /\ seen \subseteq Keys /\ due \subseteq Keys

\* y is passed on the way from slot h to slot x (excluded), wrapping around.
Between(h, y, x) == IF h <= x THEN h <= y /\ y < x ELSE h <= y \/ y < x

ChainOf(s, c) ==
    \A x, y \in Slots(c) :
        s[x] \in Keys /\ Between(Home(s[x], c), y, x) => s[y] # EMPTY

\* Every stored key can be found: no EMPTY slot lies between the slot a key
\* hashes to and the slot it is in (abs_hm_find_key stops at the first EMPTY).
ChainUnbroken == ChainOf(slot, cap)

\* No key is in two slots, whatever tombstones set and remove left behind.
UniqueKeys == \A x, y \in Slots(cap) : slot[x] \in Keys /\ slot[x] = slot[y] => x = y

\* count and tombstones, kept by increments, are the numbers of such slots,
\* so abs_hashmap_size is right and the load check counts what it should.
CountsExact ==
    /\ count = Cardinality(Occupied(slot))
    /\ tombstones = Cardinality(Tombs(slot))

\* The table always has an EMPTY slot, without which the probe loops of
\* set and find would never stop for an absent key.
HasEmptySlot == cap > 0 => \E x \in Slots(cap) : slot[x] = EMPTY

\* The table of abs_hashmap.c is sound in every state, between two steps of a
\* call and inside foreach too: every key is found, once, by a search that
\* ends, and the counters that decide about growth are exact.
TableOK == TypeOK /\ ChainUnbroken /\ UniqueKeys /\ CountsExact /\ HasEmptySlot

\* With a free_value callback, the values the map has to free are exactly the
\* non-null ones it holds, each in one slot: none leaks, none is freed twice.
OwnedIsStored ==
    FreeFn =>
      /\ owned = {val[x] : x \in Occupied(slot)} \ {NULL}
      /\ \A x, y \in Occupied(slot) : val[x] = val[y] /\ val[x] # NULL => x = y

\* foreach visits each entry once: among the keys stored since it began, with
\* no rehash in between, exactly those in slots already passed have been seen,
\* whatever the callback removes or sets.
ForeachExact == it # NoIdx => \A x \in Slots(cap) :
        slot[x] \in due =>
          (slot[x] \in seen <=> x < it \/ (cb /\ x = it))

\* Every call on the map returns.
CallsReturn == pc # "ready" ~> pc = "ready"
=============================================================================
