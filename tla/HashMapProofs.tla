--------------------------- MODULE HashMapProofs ---------------------------
(***************************************************************************)
(* The invariants of HashMap for every hash function, every set of keys    *)
(* and every minimum capacity; then that the table implements the finite   *)
(* map of HashMapSpec, and owns exactly the values it holds.               *)
(***************************************************************************)
EXTENDS HashMapRefines, FiniteSetTheorems, TLAPS

\* The shape of the state: types, and where the control variables may point.
Shape ==
    /\ cap \in 0 .. MaxCap /\ count \in Int /\ tombstones \in Int
    /\ slot \in [Slots(cap) -> Cell] /\ val \in [Slots(cap) -> Values \cup {NULL}]
    /\ ncap \in 0 .. MaxCap /\ i \in Nat
    /\ nslot \in [Slots(ncap) -> Keys \cup {EMPTY}]
    /\ nval \in [Slots(ncap) -> Values \cup {NULL}]
    /\ pc \in Pcs /\ op \in {"none", "set", "get", "contains", "remove"}
    /\ key \in Keys \cup {NULL} /\ value \in Values \cup {NULL}
    /\ idx \in Nat \cup {NoIdx} /\ tomb \in Nat \cup {NoIdx}
    /\ ret \in {"ok", "fail", NULL} \cup Values
    /\ owned \subseteq Values /\ it \in Nat \cup {NoIdx} /\ cb \in BOOLEAN /\ seen \subseteq Keys /\ due \subseteq Keys

Control ==
    /\ pc \in {"set", "migrate", "place", "probe"} => op = "set" /\ key \in Keys
    /\ pc = "find" => op \in {"get", "contains", "remove"} /\ key \in Keys
    /\ pc \in {"migrate", "place"} => cap > 0 /\ ncap = cap * 2 /\ i \in 0 .. cap
    /\ pc = "place" => i < cap /\ slot[i] \in Keys /\ idx \in Slots(ncap)
    /\ pc = "probe" =>
         /\ cap > 0 /\ idx \in Slots(cap)
         /\ tomb # NoIdx => tomb \in Slots(cap) /\ slot[tomb] = TOMBSTONE
    /\ pc = "find" => IF cap = 0 THEN idx = NoIdx ELSE idx \in Slots(cap)
    /\ cb => it # NoIdx

LEMMA HomeInTable ==
    ASSUME NEW k \in Keys, NEW c \in 1 .. MaxCap
    PROVE  Home(k, c) \in Slots(c)
BY HomeAssumption DEF Slots

LEMMA NextInTable ==
    ASSUME NEW c \in Nat, NEW x \in Slots(c)
    PROVE  NextIdx(x, c) \in Slots(c)
BY DEF Slots, NextIdx

\* The initial state has the shape.
LEMMA InitShape == Init => Shape /\ Control
<1> SUFFICES ASSUME Init PROVE Shape /\ Control
  OBVIOUS
<1>1. Slots(0) = {}
  BY DEF Slots
<1>2. cap \in 0 .. MaxCap /\ ncap \in 0 .. MaxCap
  BY HashMapAssumption DEF Init
<1>3. slot \in [Slots(cap) -> Cell] /\ val \in [Slots(cap) -> Values \cup {NULL}]
  BY <1>1 DEF Init
<1>4. /\ nslot \in [Slots(ncap) -> Keys \cup {EMPTY}]
      /\ nval \in [Slots(ncap) -> Values \cup {NULL}]
  BY <1>1 DEF Init
<1>5. Control
  BY DEF Init, Control, NoIdx
<1>6. /\ count = 0 /\ tombstones = 0 /\ i = 0 /\ idx = 0
      /\ pc = "ready" /\ op = "none" /\ key = NULL /\ value = NULL
      /\ tomb = -1 /\ it = -1 /\ ret = "ok" /\ owned = {} /\ seen = {} /\ due = {}
      /\ cb \in BOOLEAN
  BY DEF Init, NoIdx
<1>7. Shape
  BY <1>2, <1>3, <1>4, <1>6 DEF Shape, NoIdx, Pcs
<1> QED
  BY <1>5, <1>7

USE DEF NoIdx, Pcs, Cell

\* Every step keeps the shape.
LEMMA NextShape == Shape /\ Control /\ [Next]_vars => Shape' /\ Control'
<1> SUFFICES ASSUME Shape, Control, [Next]_vars
             PROVE  Shape' /\ Control'
  OBVIOUS
<1> USE HashMapAssumption
<1>1. ASSUME NEW k \in Keys, NEW v \in Values \cup {NULL}, CallSet(k, v)
      PROVE  Shape' /\ Control'
  BY <1>1 DEF CallSet, CallerRuns, Shape, Control, table, newTable, call, iter
<1>2. ASSUME NEW o \in {"get", "contains", "remove"}, NEW k \in Keys, CallFind(o, k)
      PROVE  Shape' /\ Control'
  BY <1>2, HomeInTable DEF CallFind, CallerRuns, Shape, Control, table, newTable, call, iter, Slots
<1>3. CASE FirstTable
  BY <1>3 DEF FirstTable, Shape, Control, table, newTable, call, iter, Slots
<1>4. CASE OutOfMemory
  BY <1>4 DEF OutOfMemory, Return, Shape, Control, table, newTable, call, iter
<1>5. CASE Grow
  BY <1>5 DEF Grow, Shape, Control, table, newTable, call, iter, Slots
<1>6. CASE LoadOK
  BY <1>6, HomeInTable DEF LoadOK, Probe, Shape, Control, table, newTable, call, iter, Slots
<1>7. CASE MigrateSlot
  <2>1. CASE slot[i] \in Keys
    <3>1. Home(slot[i], ncap) \in Slots(ncap) /\ Home(slot[i], ncap) \in Nat
      BY <1>7, <2>1, HomeInTable DEF MigrateSlot, Shape, Control, Slots
    <3> QED
      BY <1>7, <2>1, <3>1 DEF MigrateSlot, Shape, Control, table, call, iter
  <2>2. CASE slot[i] \notin Keys
    BY <1>7, <2>2 DEF MigrateSlot, Shape, Control, table, newTable, call, iter
  <2> QED BY <2>1, <2>2
<1>8. CASE Place
  <2>1. CASE nslot[idx] # EMPTY
    <3>1. NextIdx(idx, ncap) \in Slots(ncap) /\ NextIdx(idx, ncap) \in Nat
      BY <1>8, <2>1, NextInTable DEF Place, Shape, Control, Slots
    <3> QED
      BY <1>8, <2>1, <3>1 DEF Place, Shape, Control, table, call, iter
  <2>2. CASE nslot[idx] = EMPTY
    <3>1. /\ nslot' \in [Slots(ncap) -> Keys \cup {EMPTY}]
          /\ nval' \in [Slots(ncap) -> Values \cup {NULL}]
      <4>1. i \in Slots(cap) /\ slot[i] \in Keys /\ val[i] \in Values \cup {NULL}
        BY <1>8 DEF Place, Shape, Control, Slots
      <4>2. nslot' = [nslot EXCEPT ![idx] = slot[i]] /\ nval' = [nval EXCEPT ![idx] = val[i]]
        BY <1>8, <2>2 DEF Place
      <4> QED
        BY <4>1, <4>2 DEF Shape
    <3> QED
      BY <1>8, <2>2, <3>1 DEF Place, Shape, Control, table, call, iter
  <2> QED BY <2>1, <2>2
<1>9. CASE SwapTables
  BY <1>9, HomeInTable DEF SwapTables, Probe, Shape, Control, table, newTable, call, iter, Slots
<1>10. CASE SkipTombstone
  BY <1>10, NextInTable DEF SkipTombstone, Shape, Control, table, newTable, call, iter, Slots
<1>11. CASE SkipOther
  <2>1. NextIdx(idx, cap) \in Slots(cap) /\ NextIdx(idx, cap) \in Nat
    BY <1>11, NextInTable DEF SkipOther, Shape, Control, Slots
  <2> QED
    BY <1>11, <2>1 DEF SkipOther, Shape, Control, table, newTable, call, iter
<1>12. CASE Replace
  BY <1>12 DEF Replace, Return, Own, Free, Shape, Control, table, newTable, call, iter
<1>13. CASE Insert
  BY <1>13 DEF Insert, Return, Own, Shape, Control, table, newTable, call, iter
<1>14. CASE CopyFails
  BY <1>14 DEF CopyFails, Return, Shape, Control, table, newTable, call, iter
<1>15. CASE FindNext
  BY <1>15, NextInTable DEF FindNext, Shape, Control, table, newTable, call, iter, Slots
<1>16. CASE FindMiss
  BY <1>16 DEF FindMiss, Return, Shape, Control, table, newTable, call, iter
<1>17. CASE Found
  BY <1>17 DEF Found, Return, Shape, Control, table, newTable, call, iter, Slots
<1>18. CASE RemoveFound
  BY <1>18 DEF RemoveFound, Return, Free, Shape, Control, table, newTable, call, iter
<1>19. CASE Clear
  BY <1>19 DEF Clear, CallerRuns, Shape, Control, table, newTable, call, iter
<1>20. CASE Destroy
  BY <1>20 DEF Destroy, Shape, Control, table, newTable, call, iter, Slots
<1>21. CASE ForeachStart
  <2>1. Stored \subseteq Keys
    BY DEF Stored, Occupied
  <2>2. /\ it' = 0 /\ cb' = FALSE /\ seen' = {} /\ due' = Stored
        /\ UNCHANGED <<table, newTable, call, owned>>
    BY <1>21 DEF ForeachStart
  <2>3. cb' \in BOOLEAN
    BY <2>2
  <2> QED
    BY <2>1, <2>2, <2>3 DEF Shape, Control, table, newTable, call, iter
<1>22. CASE ForeachSlot
  <2>1. CASE slot[it] \in Keys
    BY <1>22, <2>1 DEF ForeachSlot, Shape, Control, table, newTable, call, iter
  <2>2. CASE slot[it] \notin Keys
    BY <1>22, <2>2 DEF ForeachSlot, Shape, Control, table, newTable, call, iter
  <2> QED BY <2>1, <2>2
<1>23. ASSUME NEW stop \in BOOLEAN, CallbackReturns(stop)
       PROVE  Shape' /\ Control'
  <2>1. CASE stop
    BY <1>23, <2>1 DEF CallbackReturns, Shape, Control, table, newTable, call, iter
  <2>2. CASE ~stop
    <3>1. it' = it + 1 /\ it \in Nat /\ cb' \in BOOLEAN /\ UNCHANGED <<seen, due>>
      BY <1>23, <2>2 DEF CallbackReturns, Shape, Control
    <3> QED
      <4>1. UNCHANGED <<table, newTable, call, owned>>
        BY <1>23 DEF CallbackReturns
      <4> QED
        BY <3>1, <4>1 DEF Shape, Control, table, newTable, call
  <2> QED BY <2>1, <2>2
<1>24. CASE ForeachEnd
  BY <1>24 DEF ForeachEnd, Shape, Control, table, newTable, call, iter
<1>25. CASE UNCHANGED vars
  BY <1>25 DEF vars, Shape, Control, table, newTable, call, iter
<1> QED
  BY <1>1, <1>2, <1>3, <1>4, <1>5, <1>6, <1>7, <1>8, <1>9, <1>10, <1>11, <1>12, <1>13,
     <1>14, <1>15, <1>16, <1>17, <1>18, <1>19, <1>20, <1>21, <1>22, <1>23, <1>24, <1>25
  DEF Next, CallStep, SetStep, FindStep, ForeachStep

-----------------------------------------------------------------------------
\* Counting slots.

LEMMA SlotsFinite ==
    ASSUME NEW c \in Nat
    PROVE  IsFiniteSet(Slots(c)) /\ Cardinality(Slots(c)) = c
<1>1. IsFiniteSet(0 .. c - 1) /\ Cardinality(0 .. c - 1) = IF 0 > c - 1 THEN 0 ELSE c - 1 - 0 + 1
  BY FS_Interval
<1> QED
  BY <1>1 DEF Slots

LEMMA CellsFinite ==
    ASSUME NEW c \in Nat, NEW s \in [Slots(c) -> Cell]
    PROVE  /\ IsFiniteSet(Occupied(s)) /\ Cardinality(Occupied(s)) \in Nat
           /\ IsFiniteSet(Tombs(s)) /\ Cardinality(Tombs(s)) \in Nat
<1>1. Occupied(s) \in SUBSET Slots(c) /\ Tombs(s) \in SUBSET Slots(c)
  BY DEF Occupied, Tombs
<1>2. IsFiniteSet(Occupied(s)) /\ IsFiniteSet(Tombs(s))
  BY <1>1, SlotsFinite, FS_Subset
<1> QED
  BY <1>2, FS_CardinalityType

\* A table with fewer keys and tombstones than slots has an EMPTY slot.
LEMMA SomeEmpty ==
    ASSUME NEW c \in Nat, NEW s \in [Slots(c) -> Cell],
           Cardinality(Occupied(s)) + Cardinality(Tombs(s)) < c
    PROVE  \E x \in Slots(c) : s[x] = EMPTY
<1> SUFFICES ASSUME \A x \in Slots(c) : s[x] # EMPTY
             PROVE  FALSE
  OBVIOUS
<1>1. Occupied(s) \cup Tombs(s) = Slots(c)
  BY DEF Occupied, Tombs
<1>2. Occupied(s) \cap Tombs(s) = {}
  BY HashMapAssumption DEF Occupied, Tombs
<1>3. Cardinality(Occupied(s) \cup Tombs(s))
        = Cardinality(Occupied(s)) + Cardinality(Tombs(s)) - Cardinality({})
  BY <1>2, CellsFinite, FS_Union
<1>4. Cardinality({}) = 0
  BY FS_EmptySet
<1>5. Cardinality(Slots(c)) = c
  BY SlotsFinite
<1>6. Cardinality(Occupied(s)) \in Nat /\ Cardinality(Tombs(s)) \in Nat
  BY CellsFinite
<1>7. Cardinality(Occupied(s) \cup Tombs(s)) = c
  BY <1>1, <1>5, Zenon
<1> HIDE DEF Cell
<1> QED
  BY <1>3, <1>4, <1>6, <1>7

LEMMA WriteKey ==
    ASSUME NEW c \in Nat, NEW s \in [Slots(c) -> Cell], NEW x \in Slots(c),
           NEW t \in [Slots(c) -> Cell], s[x] \notin Keys, t[x] \in Keys,
           \A y \in Slots(c) : y # x => t[y] = s[y]
    PROVE  /\ Cardinality(Occupied(t)) = Cardinality(Occupied(s)) + 1
           /\ Cardinality(Tombs(t)) = IF s[x] = TOMBSTONE THEN Cardinality(Tombs(s)) - 1
                                                          ELSE Cardinality(Tombs(s))
<1>1. Occupied(t) = Occupied(s) \cup {x} /\ x \notin Occupied(s)
  BY DEF Occupied
<1>2. Tombs(t) = Tombs(s) \ {x} /\ (x \in Tombs(s) <=> s[x] = TOMBSTONE)
  BY HashMapAssumption DEF Tombs
<1>3. Cardinality(Occupied(t)) = Cardinality(Occupied(s)) + 1
  BY <1>1, CellsFinite, FS_AddElement
<1>4. Cardinality(Tombs(t)) = IF s[x] = TOMBSTONE THEN Cardinality(Tombs(s)) - 1
                                                  ELSE Cardinality(Tombs(s))
  BY <1>2, CellsFinite, FS_RemoveElement
<1> QED
  BY <1>3, <1>4

LEMMA BuryKey ==
    ASSUME NEW c \in Nat, NEW s \in [Slots(c) -> Cell], NEW x \in Slots(c),
           s[x] \in Keys,
           NEW t, t = [s EXCEPT ![x] = TOMBSTONE]
    PROVE  /\ Cardinality(Occupied(t)) = Cardinality(Occupied(s)) - 1
           /\ Cardinality(Tombs(t)) = Cardinality(Tombs(s)) + 1
<1>1. Occupied(t) = Occupied(s) \ {x} /\ x \in Occupied(s)
  BY HashMapAssumption DEF Occupied
<1>2. Tombs(t) = Tombs(s) \cup {x} /\ x \notin Tombs(s)
  BY HashMapAssumption DEF Tombs
<1>3. Cardinality(Occupied(t)) = Cardinality(Occupied(s)) - 1
  BY <1>1, CellsFinite, FS_RemoveElement
<1>4. Cardinality(Tombs(t)) = Cardinality(Tombs(s)) + 1
  BY <1>2, CellsFinite, FS_AddElement
<1> QED
  BY <1>3, <1>4

LEMMA FreshTable ==
    ASSUME NEW c \in Nat
    PROVE  LET t == [x \in Slots(c) |-> EMPTY] IN
           /\ Occupied(t) = {} /\ Cardinality(Occupied(t)) = 0
           /\ Tombs(t) = {} /\ Cardinality(Tombs(t)) = 0
<1> DEFINE t == [x \in Slots(c) |-> EMPTY]
<1>1. Occupied(t) = {} /\ Tombs(t) = {}
  BY HashMapAssumption DEF Occupied, Tombs
<1> QED
  BY <1>1, FS_EmptySet

\* The keys in the first n slots of the old table.
Migrated(n) == {x \in Slots(n) : slot[x] \in Keys}

\* The counters are exact, the load is bounded (with room for one more entry
\* once the load check is passed), and a rehash has copied as many entries
\* as it has gone over.
Counting ==
    /\ CountsExact
    /\ (count + tombstones) * 10 <= cap * 7
    /\ pc = "probe" => (count + tombstones + 1) * 10 <= cap * 7
    /\ pc \in {"migrate", "place"} =>
         /\ (count + 1) * 10 <= ncap * 7
         /\ Cardinality(Occupied(nslot)) = Cardinality(Migrated(i))
         /\ Tombs(nslot) = {}

LEMMA InitCounting == Init => Counting
<1> SUFFICES ASSUME Init PROVE Counting
  OBVIOUS
<1>1. Cardinality(Occupied(slot)) = 0 /\ Cardinality(Tombs(slot)) = 0
  BY FreshTable DEF Init
<1> QED
  BY <1>1 DEF Init, Counting, CountsExact

LEMMA NextCounting == Shape /\ Control /\ Counting /\ [Next]_vars => Counting'
<1> SUFFICES ASSUME Shape, Control, Counting, [Next]_vars
             PROVE  Counting'
  OBVIOUS
<1> USE HashMapAssumption
<1>0. count \in Nat /\ tombstones \in Nat
  BY CellsFinite DEF Counting, CountsExact, Shape
<1>a. ASSUME UNCHANGED table, pc' \notin {"probe", "migrate", "place"}
      PROVE  Counting'
  BY <1>a DEF Counting, CountsExact, table
<1>b. ASSUME UNCHANGED <<table, pc, newTable>>
      PROVE  Counting'
  BY <1>b DEF Counting, CountsExact, Migrated, table, newTable
<1>1. ASSUME NEW k \in Keys, NEW v \in Values \cup {NULL}, CallSet(k, v)
      PROVE  Counting'
  BY <1>1, <1>a DEF CallSet
<1>2. ASSUME NEW o \in {"get", "contains", "remove"}, NEW k \in Keys, CallFind(o, k)
      PROVE  Counting'
  BY <1>2, <1>a DEF CallFind
<1>3. CASE FirstTable
  <2>1. count = 0 /\ tombstones = 0
    BY <1>0, <1>3 DEF FirstTable, Counting
  <2>2. Cardinality(Occupied(slot')) = 0 /\ Cardinality(Tombs(slot')) = 0
    BY <1>3, FreshTable DEF FirstTable
  <2> QED
    BY <1>3, <2>1, <2>2 DEF FirstTable, Counting, CountsExact, call
<1>4. CASE OutOfMemory
  BY <1>4, <1>a DEF OutOfMemory, Return
<1>5. CASE Grow
  <2>1. Cardinality(Occupied(nslot')) = 0 /\ Tombs(nslot') = {}
    BY <1>5, FreshTable DEF Grow, Shape
  <2>2. Migrated(i)' = {}
    BY <1>5 DEF Grow, Migrated, Slots
  <2>3. Cardinality(Migrated(i)') = 0
    BY <2>2, FS_EmptySet
  <2>4. (count + 1) * 10 <= ncap' * 7
    BY <1>0, <1>5 DEF Grow, Shape, Counting
  <2> QED
    BY <1>5, <2>1, <2>3, <2>4 DEF Grow, Counting, CountsExact, table
<1>6. CASE LoadOK
  BY <1>6 DEF LoadOK, Probe, Counting, CountsExact, table
<1>7. CASE MigrateSlot
  <2>1. CASE slot[i] \in Keys
    BY <1>7, <2>1 DEF MigrateSlot, Counting, CountsExact, Migrated, table
  <2>2. CASE slot[i] \notin Keys
    <3>1. Migrated(i)' = Migrated(i)
      BY <1>7, <2>2 DEF MigrateSlot, Migrated, Slots, Shape, table
    <3> QED
      BY <1>7, <2>2, <3>1 DEF MigrateSlot, Counting, CountsExact, table
  <2> QED BY <2>1, <2>2
<1>8. CASE Place
  <2>1. CASE nslot[idx] # EMPTY
    BY <1>8, <2>1 DEF Place, Counting, CountsExact, Migrated, table
  <2>2. CASE nslot[idx] = EMPTY
    <3>1. /\ nslot \in [Slots(ncap) -> Cell] /\ idx \in Slots(ncap) /\ ncap \in Nat
          /\ slot[i] \in Keys /\ i \in Slots(cap) /\ cap \in Nat
      BY <1>8 DEF Place, Shape, Control, Slots
    <3>2. nslot' = [nslot EXCEPT ![idx] = slot[i]] /\ i' = i + 1 /\ slot' = slot
      BY <1>8, <2>2 DEF Place, table
    <3>3. Cardinality(Occupied(nslot')) = Cardinality(Occupied(nslot)) + 1
      <4>1. /\ nslot[idx] \notin Keys /\ nslot'[idx] \in Keys
            /\ nslot' \in [Slots(ncap) -> Cell]
            /\ \A y \in Slots(ncap) : y # idx => nslot'[y] = nslot[y]
        BY <2>2, <3>1, <3>2
      <4> HIDE DEF Cell
      <4> QED
        BY <3>1, <4>1, WriteKey
    <3>4. Migrated(i)' = Migrated(i) \cup {i} /\ i \notin Migrated(i)
      BY <3>1, <3>2 DEF Migrated, Slots
    <3>5. IsFiniteSet(Migrated(i))
      <4>1. Migrated(i) \in SUBSET Slots(cap)
        BY <3>1 DEF Migrated, Slots
      <4> QED
        BY <3>1, <4>1, SlotsFinite, FS_Subset
    <3>6. Cardinality(Migrated(i)') = Cardinality(Migrated(i)) + 1
      BY <3>4, <3>5, FS_AddElement
    <3>7. Tombs(nslot') = {}
      BY <1>8, <3>1, <3>2 DEF Place, Counting, Tombs
    <3> QED
      BY <1>8, <2>2, <3>3, <3>6, <3>7 DEF Place, Counting, CountsExact, table
  <2> QED BY <2>1, <2>2
<1>9. CASE SwapTables
  <2>1. Migrated(i) = Occupied(slot)
    BY <1>9 DEF SwapTables, Migrated, Occupied, Shape
  <2>2. Cardinality(Occupied(nslot)) = count /\ Tombs(nslot) = {}
    BY <1>9, <2>1 DEF SwapTables, Counting, CountsExact
  <2>3. Cardinality(Tombs(nslot)) = 0
    BY <2>2, FS_EmptySet
  <2> QED
    BY <1>0, <1>9, <2>2, <2>3 DEF SwapTables, Probe, Counting, CountsExact, Shape
<1>10. CASE SkipTombstone
  BY <1>10, <1>b DEF SkipTombstone
<1>11. CASE SkipOther
  BY <1>11, <1>b DEF SkipOther
<1>12. CASE Replace
  BY <1>12 DEF Replace, Return, Counting, CountsExact
<1>13. CASE Insert
  <2> DEFINE at == IF tomb # NoIdx THEN tomb ELSE idx
  <2>1. at \in Slots(cap) /\ slot[at] \in {EMPTY, TOMBSTONE} /\ key \in Keys
    BY <1>13 DEF Insert, Control
  <2>2. slot' = [slot EXCEPT ![at] = key]
    BY <1>13 DEF Insert
  <2>3. /\ Cardinality(Occupied(slot')) = Cardinality(Occupied(slot)) + 1
        /\ Cardinality(Tombs(slot')) = IF slot[at] = TOMBSTONE THEN Cardinality(Tombs(slot)) - 1
                                                              ELSE Cardinality(Tombs(slot))
    <3> HIDE DEF at
    <3>1. slot[at] \notin Keys /\ cap \in Nat /\ slot \in [Slots(cap) -> Cell]
      BY <2>1 DEF Shape
    <3>2. /\ slot'[at] \in Keys /\ slot' \in [Slots(cap) -> Cell]
          /\ \A y \in Slots(cap) : y # at => slot'[y] = slot[y]
      BY <2>1, <2>2, <3>1
    <3> HIDE DEF Cell
    <3> QED
      BY <2>1, <3>1, <3>2, WriteKey
  <2>4. count' = count + 1
        /\ tombstones' = (IF slot[at] = TOMBSTONE THEN tombstones - 1 ELSE tombstones)
        /\ cap' = cap /\ pc = "probe" /\ pc' = "ready"
    BY <1>13 DEF Insert, Return
  <2>5. CountsExact'
    BY <2>3, <2>4 DEF Counting, CountsExact
  <2>6. (count + tombstones + 1) * 10 <= cap * 7
    BY <2>4 DEF Counting
  <2>7. (count' + tombstones') * 10 <= cap' * 7
    BY <2>4, <2>6, <1>0 DEF Shape
  <2> QED
    BY <2>4, <2>5, <2>7 DEF Counting
<1>14. CASE CopyFails
  BY <1>14, <1>a DEF CopyFails, Return
<1>15. CASE FindNext
  BY <1>15, <1>b DEF FindNext
<1>16. CASE FindMiss
  BY <1>16, <1>a DEF FindMiss, Return
<1>17. CASE Found
  BY <1>17, <1>a DEF Found, Return
<1>18. CASE RemoveFound
  <2>1. idx \in Slots(cap) /\ slot[idx] \in Keys
    BY <1>18 DEF RemoveFound, Control, Slots
  <2>2. /\ Cardinality(Occupied(slot')) = Cardinality(Occupied(slot)) - 1
        /\ Cardinality(Tombs(slot')) = Cardinality(Tombs(slot)) + 1
    <3>1. cap \in Nat /\ slot \in [Slots(cap) -> Cell]
      BY DEF Shape
    <3>2. slot' = [slot EXCEPT ![idx] = TOMBSTONE]
      BY <1>18 DEF RemoveFound
    <3> HIDE DEF Cell
    <3> QED
      BY <2>1, <3>1, <3>2, BuryKey
  <2> QED
    BY <1>0, <1>18, <2>2 DEF RemoveFound, Return, Counting, CountsExact, Shape
<1>19. CASE Clear
  <2>1. Cardinality(Occupied(slot')) = 0 /\ Cardinality(Tombs(slot')) = 0
    BY <1>19, FreshTable DEF Clear, Shape
  <2> QED
    BY <1>19, <2>1 DEF Clear, CallerRuns, Counting, CountsExact, Shape, call
<1>20. CASE Destroy
  <2>1. Cardinality(Occupied(slot')) = 0 /\ Cardinality(Tombs(slot')) = 0
    BY <1>20, FreshTable DEF Destroy
  <2> QED
    BY <1>20, <2>1 DEF Destroy, Counting, CountsExact, call
<1>21. CASE ForeachStart
  BY <1>21, <1>b DEF ForeachStart, call
<1>22. CASE ForeachSlot
  BY <1>22, <1>b DEF ForeachSlot, call
<1>23. ASSUME NEW stop \in BOOLEAN, CallbackReturns(stop)
       PROVE  Counting'
  BY <1>23, <1>b DEF CallbackReturns, call
<1>24. CASE ForeachEnd
  BY <1>24, <1>b DEF ForeachEnd, call
<1>25. CASE UNCHANGED vars
  BY <1>25, <1>b DEF vars, call
<1> QED
  BY <1>1, <1>2, <1>3, <1>4, <1>5, <1>6, <1>7, <1>8, <1>9, <1>10, <1>11, <1>12, <1>13,
     <1>14, <1>15, <1>16, <1>17, <1>18, <1>19, <1>20, <1>21, <1>22, <1>23, <1>24, <1>25
  DEF Next, CallStep, SetStep, FindStep, ForeachStep

-----------------------------------------------------------------------------
\* Runs of slots that wrap around the end of the table.

LEMMA BetweenNext ==
    ASSUME NEW c \in Nat, NEW h \in Slots(c), NEW x \in Slots(c), NEW y \in Slots(c),
           NextIdx(x, c) # h
    PROVE  Between(h, y, NextIdx(x, c)) <=> Between(h, y, x) \/ y = x
BY DEF Between, NextIdx, Slots

LEMMA BetweenWrapped ==
    ASSUME NEW c \in Nat, NEW h \in Slots(c), NEW x \in Slots(c), NEW y \in Slots(c),
           NextIdx(x, c) = h
    PROVE  Between(h, y, x) \/ y = x
BY DEF Between, NextIdx, Slots

LEMMA BetweenSelf ==
    ASSUME NEW c \in Nat, NEW h \in Slots(c), NEW y \in Slots(c)
    PROVE  ~Between(h, y, h)
BY DEF Between, Slots

LEMMA BetweenTotal ==
    ASSUME NEW c \in Nat, NEW h \in Slots(c), NEW x \in Slots(c), NEW y \in Slots(c),
           x # y, ~Between(h, y, x)
    PROVE  Between(h, x, y)
BY DEF Between, Slots

LEMMA BetweenTransitive ==
    ASSUME NEW c \in Nat, NEW h \in Slots(c), NEW x \in Slots(c), NEW y \in Slots(c),
           NEW z \in Slots(c), Between(h, y, x), Between(h, z, y)
    PROVE  Between(h, z, x)
BY DEF Between, Slots

\* Every slot on the way from h to x holds a key or a tombstone.
RunFull(s, c, h, x) == \A y \in Slots(c) : Between(h, y, x) => s[y] # EMPTY

\* A probe that advances over a slot that is not EMPTY extends its run by that
\* slot: it cannot have come back to where it started.
LEMMA ProbeAdvances ==
    ASSUME NEW c \in Nat, NEW s, NEW h \in Slots(c), NEW x \in Slots(c),
           RunFull(s, c, h, x), s[x] # EMPTY,
           \E e \in Slots(c) : s[e] = EMPTY
    PROVE  \A y \in Slots(c) : Between(h, y, NextIdx(x, c)) <=> Between(h, y, x) \/ y = x
<1>1. NextIdx(x, c) # h
  BY BetweenWrapped DEF RunFull
<1> QED
  BY <1>1, BetweenNext

\* A probe that ends at an EMPTY slot without meeting the key proves that the
\* key is nowhere in the table.
LEMMA ProbeComplete ==
    ASSUME NEW c \in 1 .. MaxCap, NEW s \in [Slots(c) -> Cell], NEW k \in Keys,
           NEW x \in Slots(c), ChainOf(s, c), s[x] = EMPTY,
           \A y \in Slots(c) : Between(Home(k, c), y, x) => s[y] # k
    PROVE  \A z \in Slots(c) : s[z] # k
<1> SUFFICES ASSUME NEW z \in Slots(c), s[z] = k
             PROVE  FALSE
  OBVIOUS
<1>1. z # x /\ ~Between(Home(k, c), z, x)
  BY HashMapAssumption
<1>2. Between(Home(k, c), x, z)
  BY <1>1, BetweenTotal, HomeInTable
<1> QED
  BY <1>2 DEF ChainOf

\* Writing a key to a slot reached by its own probe keeps every chain.
LEMMA WriteKeepsChains ==
    ASSUME NEW c \in 1 .. MaxCap, NEW s \in [Slots(c) -> Cell], NEW k \in Keys,
           NEW x \in Slots(c), ChainOf(s, c), RunFull(s, c, Home(k, c), x),
           NEW t \in [Slots(c) -> Cell], t[x] = k,
           \A y \in Slots(c) : y # x => t[y] = s[y]
    PROVE  ChainOf(t, c)
<1> SUFFICES ASSUME NEW z \in Slots(c), NEW y \in Slots(c), t[z] \in Keys,
                    Between(Home(t[z], c), y, z)
             PROVE  t[y] # EMPTY
  BY DEF ChainOf
<1>1. CASE y = x
  BY <1>1, HashMapAssumption
<1>2. CASE y # x /\ z = x
  BY <1>2 DEF RunFull
<1>3. CASE y # x /\ z # x
  BY <1>3 DEF ChainOf
<1> QED
  BY <1>1, <1>2, <1>3

-----------------------------------------------------------------------------
\* Where keys are placed, and what a running probe or rehash has established.

Unique(s, c) == \A x, y \in Slots(c) : s[x] \in Keys /\ s[x] = s[y] => x = y

\* The probe for key has passed neither an EMPTY slot nor the key.
Passed == \A y \in Slots(cap) : Between(Home(key, cap), y, idx) => slot[y] \notin {EMPTY, key}

Placement ==
    /\ ChainOf(slot, cap) /\ Unique(slot, cap)
    /\ pc = "probe" =>
         /\ Passed
         /\ tomb # NoIdx => Between(Home(key, cap), tomb, idx)
    /\ pc = "find" /\ cap > 0 => Passed

Migration ==
    /\ pc \in {"migrate", "place"} =>
         /\ ChainOf(nslot, ncap) /\ Unique(nslot, ncap)
         /\ \A y \in Slots(ncap) : nslot[y] \in Keys =>
               \E x \in Slots(i) : slot[x] = nslot[y] /\ val[x] = nval[y]
         /\ \A x \in Slots(i) : slot[x] \in Keys =>
               \E y \in Slots(ncap) : nslot[y] = slot[x] /\ nval[y] = val[x]
    /\ pc = "place" => RunFull(nslot, ncap, Home(slot[i], ncap), idx)

LEMMA EmptySlots ==
    ASSUME Shape, Control, Counting
    PROVE  /\ cap > 0 => \E e \in Slots(cap) : slot[e] = EMPTY
           /\ pc = "place" => \E e \in Slots(ncap) : nslot[e] = EMPTY
<1>1. /\ cap \in Nat /\ slot \in [Slots(cap) -> Cell]
      /\ ncap \in Nat /\ nslot \in [Slots(ncap) -> Cell]
  BY DEF Shape
<1>2. ASSUME cap > 0 PROVE \E e \in Slots(cap) : slot[e] = EMPTY
  <2>1. Cardinality(Occupied(slot)) + Cardinality(Tombs(slot)) < cap
    BY <1>1, <1>2, CellsFinite DEF Counting, CountsExact
  <2> QED
    BY <1>1, <2>1, SomeEmpty
<1>3. ASSUME pc = "place" PROVE \E e \in Slots(ncap) : nslot[e] = EMPTY
  <2>1. Migrated(i) \in SUBSET Occupied(slot)
    BY <1>1, <1>3 DEF Migrated, Occupied, Control, Slots
  <2>2. Cardinality(Migrated(i)) <= count
    BY <1>1, <2>1, CellsFinite, FS_Subset DEF Counting, CountsExact
  <2>3. Cardinality(Tombs(nslot)) = 0
    BY <1>3, FS_EmptySet DEF Counting
  <2>4. count \in Nat /\ (count + 1) * 10 <= ncap * 7
    BY <1>1, <1>3, CellsFinite DEF Counting, CountsExact
  <2>5. Cardinality(Occupied(nslot)) \in Nat /\ Cardinality(Occupied(nslot)) <= count
    BY <1>1, <1>3, <2>2, CellsFinite DEF Counting
  <2>6. Cardinality(Occupied(nslot)) + Cardinality(Tombs(nslot)) < ncap
    BY <1>1, <2>3, <2>4, <2>5
  <2> QED
    BY <1>1, <2>6, SomeEmpty
<1> QED
  BY <1>2, <1>3

LEMMA InitPlacement == Init => Placement /\ Migration
BY DEF Init, Placement, Migration, ChainOf, Unique, Slots

LEMMA NextPlacement ==
    Shape /\ Control /\ Counting /\ Placement /\ Migration /\ [Next]_vars => Placement'
<1> SUFFICES ASSUME Shape, Control, Counting, Placement, Migration, [Next]_vars
             PROVE  Placement'
  OBVIOUS
<1> USE HashMapAssumption
<1>0. /\ cap \in Nat /\ slot \in [Slots(cap) -> Cell]
      /\ cap > 0 => cap \in 1 .. MaxCap
      /\ cap > 0 => \E e \in Slots(cap) : slot[e] = EMPTY
  BY EmptySlots DEF Shape
<1>a. ASSUME UNCHANGED <<cap, slot>>, pc' \notin {"probe", "find"}
      PROVE  Placement'
  BY <1>a DEF Placement
<1>b. ASSUME UNCHANGED <<cap, slot, pc, key, idx, tomb>>
      PROVE  Placement'
  BY <1>b DEF Placement, Passed
<1>c. ASSUME cap' = cap, slot' = [x \in Slots(cap) |-> EMPTY], pc' = "ready"
      PROVE  Placement'
  BY <1>c DEF Placement, ChainOf, Unique
<1>d. ASSUME UNCHANGED <<cap, slot, pc, key>>, cap > 0, idx \in Slots(cap), key \in Keys,
             idx' = NextIdx(idx, cap), Passed, slot[idx] \notin {EMPTY, key}
      PROVE  /\ Passed'
             /\ Between(Home(key, cap), idx, idx')
             /\ \A y \in Slots(cap) : Between(Home(key, cap), y, idx)
                                      => Between(Home(key, cap), y, idx')
  <2>1. Home(key, cap) \in Slots(cap)
    BY <1>0, <1>d, HomeInTable
  <2>2. RunFull(slot, cap, Home(key, cap), idx)
    BY <1>d DEF Passed, RunFull
  <2>3. \A y \in Slots(cap) : Between(Home(key, cap), y, NextIdx(idx, cap))
                              <=> Between(Home(key, cap), y, idx) \/ y = idx
    BY <1>0, <1>d, <2>1, <2>2, ProbeAdvances
  <2> QED
    BY <1>d, <2>3 DEF Passed
<1>e. ASSUME UNCHANGED <<cap, slot>>, cap > 0, key' \in Keys, idx' = Home(key', cap),
             tomb' = NoIdx
      PROVE  Placement'
  <2>1. Home(key', cap) \in Slots(cap)
    BY <1>0, <1>e, HomeInTable
  <2> QED
    BY <1>0, <1>e, <2>1, BetweenSelf DEF Placement, Passed
<1>1. ASSUME NEW k \in Keys, NEW v \in Values \cup {NULL}, CallSet(k, v)
      PROVE  Placement'
  BY <1>1, <1>a DEF CallSet, table
<1>2. ASSUME NEW o \in {"get", "contains", "remove"}, NEW k \in Keys, CallFind(o, k)
      PROVE  Placement'
  <2>1. CASE cap = 0
    BY <1>2, <2>1 DEF CallFind, Placement, table
  <2>2. CASE cap > 0
    <3>1. Home(k, cap) \in Slots(cap)
      BY <1>0, <2>2, HomeInTable
    <3> QED
      BY <1>2, <1>0, <2>2, <3>1, BetweenSelf DEF CallFind, CallerRuns, Placement, Passed, table
  <2> QED BY <1>0, <2>1, <2>2
<1>3. CASE FirstTable
  BY <1>3 DEF FirstTable, Placement, ChainOf, Unique, call
<1>4. CASE OutOfMemory
  BY <1>4, <1>a DEF OutOfMemory, Return, table
<1>5. CASE Grow
  BY <1>5, <1>a DEF Grow, table
<1>6. CASE LoadOK
  BY <1>6, <1>e DEF LoadOK, Probe, Control, table
<1>7. CASE MigrateSlot
  BY <1>7, <1>a DEF MigrateSlot, table
<1>8. CASE Place
  BY <1>8, <1>a DEF Place, table
<1>9. CASE SwapTables
  <2>1. /\ ncap \in 1 .. MaxCap /\ key \in Keys
        /\ ChainOf(nslot, ncap) /\ Unique(nslot, ncap)
    BY <1>9 DEF SwapTables, Control, Shape, Migration
  <2>2. Home(key, ncap) \in Slots(ncap)
    BY <2>1, HomeInTable
  <2>3. \A y \in Slots(ncap) : ~Between(Home(key, ncap), y, Home(key, ncap))
    BY <2>1, <2>2, BetweenSelf
  <2> QED
    BY <1>9, <2>1, <2>3 DEF SwapTables, Probe, Placement, Passed
<1>10. CASE SkipTombstone
  <2>1. /\ cap > 0 /\ idx \in Slots(cap) /\ key \in Keys /\ Passed
        /\ tomb # NoIdx => tomb \in Slots(cap) /\ Between(Home(key, cap), tomb, idx)
    BY <1>10 DEF SkipTombstone, Control, Placement
  <2>2. /\ UNCHANGED <<cap, slot, pc, key>> /\ idx' = NextIdx(idx, cap)
        /\ slot[idx] \notin {EMPTY, key} /\ pc = "probe"
        /\ tomb' = IF tomb = NoIdx THEN idx ELSE tomb
    BY <1>10, <2>1 DEF SkipTombstone, table
  <2>3. Passed' /\ Between(Home(key, cap), idx, idx')
        /\ \A y \in Slots(cap) : Between(Home(key, cap), y, idx)
                                 => Between(Home(key, cap), y, idx')
    BY <2>1, <2>2, <1>d
  <2>4. Between(Home(key, cap), tomb', idx')
    BY <2>1, <2>2, <2>3
  <2> QED
    BY <2>2, <2>3, <2>4 DEF Placement
<1>11. CASE SkipOther
  <2>1. /\ cap > 0 /\ idx \in Slots(cap) /\ key \in Keys /\ Passed
        /\ tomb # NoIdx => tomb \in Slots(cap) /\ Between(Home(key, cap), tomb, idx)
    BY <1>11 DEF SkipOther, Control, Placement
  <2>2. /\ UNCHANGED <<cap, slot, pc, key, tomb>> /\ idx' = NextIdx(idx, cap)
        /\ slot[idx] \notin {EMPTY, key} /\ pc = "probe"
    BY <1>11, <2>1 DEF SkipOther, table
  <2>3. Passed' /\ \A y \in Slots(cap) : Between(Home(key, cap), y, idx)
                                        => Between(Home(key, cap), y, idx')
    BY <2>1, <2>2, <1>d
  <2>4. tomb # NoIdx => Between(Home(key, cap), tomb, idx')
    BY <2>1, <2>3
  <2> QED
    BY <2>2, <2>3, <2>4 DEF Placement
<1>12. CASE Replace
  BY <1>12, <1>a DEF Replace, Return
<1>13. CASE Insert
  <2> DEFINE at == IF tomb # NoIdx THEN tomb ELSE idx
  <2>1. /\ cap \in 1 .. MaxCap /\ key \in Keys /\ idx \in Slots(cap) /\ at \in Slots(cap)
        /\ slot[idx] = EMPTY /\ slot[at] \notin Keys /\ pc' = "ready" /\ cap' = cap
        /\ Passed /\ (at = idx \/ Between(Home(key, cap), at, idx))
    BY <1>0, <1>13 DEF Insert, Return, Control, Placement
  <2>2. slot' = [slot EXCEPT ![at] = key]
    BY <1>13 DEF Insert
  <2> HIDE DEF at
  <2>3. /\ slot' \in [Slots(cap) -> Cell] /\ slot'[at] = key
        /\ \A y \in Slots(cap) : y # at => slot'[y] = slot[y]
    BY <1>0, <2>1, <2>2
  <2>4. Home(key, cap) \in Slots(cap)
    BY <2>1, HomeInTable
  <2>5. RunFull(slot, cap, Home(key, cap), at)
    BY <2>1, <2>4, BetweenTransitive DEF Passed, RunFull
  <2>6. ChainOf(slot', cap)
    BY <1>0, <2>1, <2>3, <2>5, WriteKeepsChains DEF Placement
  <2>7. \A z \in Slots(cap) : slot[z] # key
    BY <1>0, <2>1, ProbeComplete DEF Placement, Passed
  <2>8. Unique(slot', cap)
    BY <2>1, <2>3, <2>7 DEF Placement, Unique
  <2> QED
    BY <2>1, <2>6, <2>8 DEF Placement
<1>14. CASE CopyFails
  BY <1>14, <1>a DEF CopyFails, Return, table
<1>15. CASE FindNext
  <2>1. /\ cap > 0 /\ idx \in Slots(cap) /\ key \in Keys /\ Passed
    BY <1>0, <1>15 DEF FindNext, Control, Placement
  <2>2. /\ UNCHANGED <<cap, slot, pc, key>> /\ idx' = NextIdx(idx, cap)
        /\ slot[idx] \notin {EMPTY, key} /\ pc = "find"
    BY <1>15 DEF FindNext, table
  <2>3. Passed'
    BY <2>1, <2>2, <1>d
  <2> QED
    BY <2>2, <2>3 DEF Placement
<1>16. CASE FindMiss
  BY <1>16, <1>a DEF FindMiss, Return, table
<1>17. CASE Found
  BY <1>17, <1>a DEF Found, Return, table
<1>18. CASE RemoveFound
  <2>1. slot' = [slot EXCEPT ![idx] = TOMBSTONE] /\ cap' = cap /\ pc' = "ready"
    BY <1>18 DEF RemoveFound, Return
  <2>2. \A y \in Slots(cap) : /\ slot'[y] \in Keys => slot'[y] = slot[y]
                              /\ slot[y] # EMPTY => slot'[y] # EMPTY
    BY <1>0, <2>1
  <2>3. ChainOf(slot', cap) /\ Unique(slot', cap)
    BY <2>2 DEF Placement, ChainOf, Unique
  <2> QED
    BY <2>1, <2>3 DEF Placement
<1>19. CASE Clear
  BY <1>19, <1>c DEF Clear, CallerRuns, call
<1>20. CASE Destroy
  BY <1>20 DEF Destroy, call, Placement, ChainOf, Unique, Slots
<1>21. CASE ForeachStart
  BY <1>21, <1>b DEF ForeachStart, call, table
<1>22. CASE ForeachSlot
  BY <1>22, <1>b DEF ForeachSlot, call, table
<1>23. ASSUME NEW stop \in BOOLEAN, CallbackReturns(stop)
       PROVE  Placement'
  BY <1>23, <1>b DEF CallbackReturns, call, table
<1>24. CASE ForeachEnd
  BY <1>24, <1>b DEF ForeachEnd, call, table
<1>25. CASE UNCHANGED vars
  BY <1>25, <1>b DEF vars, call, table
<1> QED
  BY <1>1, <1>2, <1>3, <1>4, <1>5, <1>6, <1>7, <1>8, <1>9, <1>10, <1>11, <1>12, <1>13,
     <1>14, <1>15, <1>16, <1>17, <1>18, <1>19, <1>20, <1>21, <1>22, <1>23, <1>24, <1>25
  DEF Next, CallStep, SetStep, FindStep, ForeachStep

LEMMA NextMigration ==
    Shape /\ Control /\ Counting /\ Placement /\ Migration /\ [Next]_vars => Migration'
<1> SUFFICES ASSUME Shape, Control, Counting, Placement, Migration, [Next]_vars
             PROVE  Migration'
  OBVIOUS
<1> USE HashMapAssumption
<1>a. ASSUME pc' \notin {"migrate", "place"}
      PROVE  Migration'
  BY <1>a DEF Migration
<1>b. ASSUME UNCHANGED <<table, newTable, pc, idx>>
      PROVE  Migration'
  BY <1>b DEF Migration, table, newTable
<1>1. CASE Grow
  BY <1>1 DEF Grow, Migration, ChainOf, Unique, Slots
<1>2. CASE MigrateSlot
  <2>0. /\ i \in 0 .. cap /\ i < cap /\ ncap \in 1 .. MaxCap /\ cap \in Nat
        /\ UNCHANGED <<cap, slot, val, ncap, nslot, nval>>
    BY <1>2 DEF MigrateSlot, Control, Shape, table
  <2>1. CASE slot[i] \in Keys
    <3>1. Home(slot[i], ncap) \in Slots(ncap)
      BY <2>0, <2>1, HomeInTable
    <3>2. RunFull(nslot, ncap, Home(slot[i], ncap), Home(slot[i], ncap))
      BY <2>0, <3>1, BetweenSelf DEF RunFull
    <3> QED
      BY <1>2, <2>0, <2>1, <3>2 DEF MigrateSlot, Migration
  <2>2. CASE slot[i] \notin Keys
    <3>1. i' = i + 1 /\ pc' = "migrate" /\ pc = "migrate"
      BY <1>2, <2>2 DEF MigrateSlot
    <3>2. \A x \in Slots(i + 1) : slot[x] \in Keys => x \in Slots(i)
      BY <2>0, <2>2 DEF Slots
    <3>3. Slots(i) \subseteq Slots(i + 1)
      BY <2>0 DEF Slots
    <3> QED
      BY <2>0, <3>1, <3>2, <3>3 DEF Migration
  <2> QED BY <2>1, <2>2
<1>3. CASE Place
  <2>0. /\ i \in 0 .. cap /\ i < cap /\ ncap \in 1 .. MaxCap /\ cap \in Nat /\ i \in Slots(cap)
        /\ UNCHANGED <<cap, slot, val, ncap>> /\ pc = "place"
        /\ slot[i] \in Keys /\ idx \in Slots(ncap)
        /\ Home(slot[i], ncap) \in Slots(ncap)
        /\ nslot \in [Slots(ncap) -> Cell] /\ nval \in [Slots(ncap) -> Values \cup {NULL}]
    BY <1>3, HomeInTable DEF Place, Control, Shape, table, Slots
  <2>1. CASE nslot[idx] # EMPTY
    <3>1. \E e \in Slots(ncap) : nslot[e] = EMPTY
      BY <2>0, EmptySlots
    <3>2. RunFull(nslot, ncap, Home(slot[i], ncap), idx)
      BY <2>0 DEF Migration
    <3>3. \A y \in Slots(ncap) : Between(Home(slot[i], ncap), y, NextIdx(idx, ncap))
                    <=> Between(Home(slot[i], ncap), y, idx) \/ y = idx
      <4>1. ncap \in Nat /\ Home(slot[i], ncap) \in Slots(ncap) /\ idx \in Slots(ncap)
        BY <2>0
      <4> HIDE HashMapAssumption
      <4> QED
        BY <2>1, <3>1, <3>2, <4>1, ProbeAdvances
    <3>4. RunFull(nslot, ncap, Home(slot[i], ncap), NextIdx(idx, ncap))
      BY <2>1, <3>2, <3>3 DEF RunFull
    <3> QED
      BY <1>3, <2>0, <2>1, <3>4 DEF Place, Migration
  <2>2. CASE nslot[idx] = EMPTY
    <3>1. /\ nslot' = [nslot EXCEPT ![idx] = slot[i]] /\ nval' = [nval EXCEPT ![idx] = val[i]]
          /\ i' = i + 1 /\ pc' = "migrate"
      BY <1>3, <2>2 DEF Place
    <3>2. /\ nslot' \in [Slots(ncap) -> Cell] /\ nslot'[idx] = slot[i] /\ nval'[idx] = val[i]
          /\ \A y \in Slots(ncap) : y # idx => nslot'[y] = nslot[y] /\ nval'[y] = nval[y]
      BY <2>0, <3>1
    <3>3. ChainOf(nslot', ncap)
      BY <2>0, <3>2, WriteKeepsChains DEF Migration
    <3>4. \A y \in Slots(ncap) : nslot[y] # slot[i]
      <4>1. \A x \in Slots(i) : x \in Slots(cap) /\ x # i
        BY <2>0 DEF Slots
      <4>2. ASSUME NEW y \in Slots(ncap), nslot[y] = slot[i]
            PROVE  FALSE
        <5>1. PICK x \in Slots(i) : slot[x] = slot[i]
          BY <2>0, <4>2 DEF Migration
        <5> QED
          BY <2>0, <4>1, <5>1 DEF Placement, Unique
      <4> QED
        BY <4>2
    <3>5. Unique(nslot', ncap)
      BY <2>0, <3>2, <3>4 DEF Migration, Unique
    <3>6. Slots(i + 1) = Slots(i) \cup {i}
      BY <2>0 DEF Slots
    <3>7. \A y \in Slots(ncap) : nslot'[y] \in Keys =>
             \E x \in Slots(i + 1) : slot[x] = nslot'[y] /\ val[x] = nval'[y]
      <4> SUFFICES ASSUME NEW y \in Slots(ncap), nslot'[y] \in Keys
                   PROVE  \E x \in Slots(i + 1) : slot[x] = nslot'[y] /\ val[x] = nval'[y]
        OBVIOUS
      <4>1. CASE y = idx
        <5>1. i \in Slots(i + 1)
          BY <3>6
        <5> QED
          BY <3>2, <4>1, <5>1
      <4>2. CASE y # idx
        <5>1. nslot[y] = nslot'[y] /\ nval[y] = nval'[y]
          BY <3>2, <4>2
        <5>2. PICK x \in Slots(i) : slot[x] = nslot[y] /\ val[x] = nval[y]
          BY <2>0, <5>1 DEF Migration
        <5> QED
          BY <3>6, <5>1, <5>2
      <4> QED BY <4>1, <4>2
    <3>8. \A x \in Slots(i + 1) : slot[x] \in Keys =>
             \E y \in Slots(ncap) : nslot'[y] = slot[x] /\ nval'[y] = val[x]
      <4> SUFFICES ASSUME NEW x \in Slots(i + 1), slot[x] \in Keys
                   PROVE  \E y \in Slots(ncap) : nslot'[y] = slot[x] /\ nval'[y] = val[x]
        OBVIOUS
      <4>1. CASE x = i
        BY <2>0, <3>2, <4>1
      <4>2. CASE x \in Slots(i)
        <5>1. PICK y \in Slots(ncap) : nslot[y] = slot[x] /\ nval[y] = val[x]
          BY <2>0, <4>2 DEF Migration
        <5>2. y # idx
          BY <2>2, <5>1
        <5> QED
          BY <3>2, <5>1, <5>2
      <4> QED BY <3>6, <4>1, <4>2
    <3> QED
      BY <2>0, <3>1, <3>3, <3>5, <3>7, <3>8 DEF Migration
  <2> QED BY <2>1, <2>2
<1>4. ASSUME ~Grow, ~MigrateSlot, ~Place
      PROVE  Migration'
  BY <1>4, <1>a, <1>b DEF Next, CallStep, SetStep, FindStep, ForeachStep, vars, call,
     CallSet, CallFind, CallerRuns, FirstTable, OutOfMemory, LoadOK, Probe, SwapTables,
     SkipTombstone, SkipOther, Replace, Insert, CopyFails, Return, FindNext, FindMiss,
     Found, RemoveFound, Clear, Destroy, ForeachStart, ForeachSlot, CallbackReturns, ForeachEnd
<1> QED
  BY <1>1, <1>2, <1>3, <1>4

-----------------------------------------------------------------------------
\* The inductive invariant.
IInv == Shape /\ Control /\ Counting /\ Placement /\ Migration

\* The inductive invariant of abs_hashmap.c holds in every state: probes,
\* migrations and counters are never inconsistent with the table.
THEOREM Inductive == Spec => []IInv
<1>1. Init => IInv
  BY InitShape, InitCounting, InitPlacement DEF IInv
<1>2. IInv /\ [Next]_vars => IInv'
  BY NextShape, NextCounting, NextPlacement, NextMigration DEF IInv
<1> QED
  BY <1>1, <1>2, PTL DEF Spec

\* Every variable of the map keeps its type: in particular count, which is
\* decremented by remove, never goes below zero (it is a size_t).
THEOREM TypeCorrect == Spec => []TypeOK
<1>1. IInv => TypeOK
  <2> SUFFICES ASSUME IInv PROVE TypeOK
    OBVIOUS
  <2>1. count \in Nat /\ tombstones \in Nat
    BY CellsFinite DEF IInv, Shape, Counting, CountsExact
  <2> QED
    BY <2>1 DEF IInv, Shape, TypeOK
<1> QED
  BY <1>1, Inductive, PTL

\* abs_hashmap_set and abs_hashmap_remove never break the run of slots that
\* leads from a key's hash to the key, for any hash function.
THEOREM ChainsNeverBreak == Spec => []ChainUnbroken
<1>1. IInv => ChainUnbroken
  BY DEF IInv, Placement, ChainUnbroken
<1> QED
  BY <1>1, Inductive, PTL

\* abs_hashmap_set never stores a key twice, though it writes to a tombstone
\* that comes before the slot where its search ended.
THEOREM KeysAreUnique == Spec => []UniqueKeys
<1>1. IInv => UniqueKeys
  BY DEF IInv, Placement, Unique, UniqueKeys
<1> QED
  BY <1>1, Inductive, PTL

\* count and tombstones are exact through inserts, removals, reuse of
\* tombstones and rehashes.
THEOREM CountersAreExact == Spec => []CountsExact
<1>1. IInv => CountsExact
  BY DEF IInv, Counting
<1> QED
  BY <1>1, Inductive, PTL

\* The 70% rule, with tombstones counted, always leaves an EMPTY slot for a
\* probe to stop at, for every minimum capacity.
THEOREM ProbesCanStop == Spec => []HasEmptySlot
<1>1. IInv => HasEmptySlot
  BY EmptySlots DEF IInv, HasEmptySlot
<1> QED
  BY <1>1, Inductive, PTL

\* abs_hashmap.c keeps its table sound, for every hash function, every number
\* of keys and every minimum capacity.
THEOREM TableAlwaysOK == Spec => []TableOK
<1>1. TypeOK /\ ChainUnbroken /\ UniqueKeys /\ CountsExact /\ HasEmptySlot => TableOK
  BY DEF TableOK
<1> QED
  BY <1>1, TypeCorrect, ChainsNeverBreak, KeysAreUnique, CountersAreExact, ProbesCanStop, PTL

-----------------------------------------------------------------------------
(* The refinement of the abstract map                                       *)

SetPcs == {"set", "migrate", "place", "probe"}

\* What the variables of a call say of it, and what a pending set may assume
\* of the pointer it was handed.
Calls ==
    /\ pc = "ready" => op = "none" /\ key = NULL /\ value = NULL
    /\ pc \in SetPcs => op = "set"
    /\ pc = "find" => op \in {"get", "contains", "remove"} /\ value = NULL
    /\ pc \in SetPcs => value \notin owned

LEMMA InitCalls == Init => Calls
BY DEF Init, Calls, SetPcs

LEMMA NextCalls == Shape /\ Control /\ Calls /\ [Next]_vars => Calls'
<1> SUFFICES ASSUME Shape, Control, Calls, [Next]_vars
             PROVE  Calls'
  OBVIOUS
<1>a. ASSUME Return(ret') PROVE Calls'
  BY <1>a DEF Return, Calls, SetPcs
<1>b. ASSUME UNCHANGED <<op, key, value, owned>>, pc \in SetPcs, pc' \in SetPcs
      PROVE  Calls'
  BY <1>b DEF Calls, SetPcs
<1>c. ASSUME UNCHANGED call, pc = "ready"
      PROVE  Calls'
  BY <1>c DEF Calls, SetPcs, call
<1>1. ASSUME NEW k \in Keys, NEW v \in Values \cup {NULL}, CallSet(k, v)
      PROVE  Calls'
  BY <1>1 DEF CallSet, Calls, SetPcs
<1>2. ASSUME NEW o \in {"get", "contains", "remove"}, NEW k \in Keys, CallFind(o, k)
      PROVE  Calls'
  BY <1>2 DEF CallFind, CallerRuns, Calls, SetPcs
<1>3. CASE FirstTable \/ Grow \/ LoadOK \/ MigrateSlot \/ Place \/ SwapTables
           \/ SkipTombstone \/ SkipOther
  BY <1>3, <1>b DEF FirstTable, Grow, LoadOK, Probe, MigrateSlot, Place, SwapTables,
     SkipTombstone, SkipOther, SetPcs, call
<1>4. CASE OutOfMemory \/ Replace \/ Insert \/ CopyFails \/ FindMiss \/ Found \/ RemoveFound
  BY <1>4, <1>a DEF OutOfMemory, Replace, Insert, CopyFails, FindMiss, Found, RemoveFound, Return
<1>5. CASE FindNext
  BY <1>5 DEF FindNext, Calls, SetPcs
<1>6. CASE Clear \/ Destroy \/ ForeachStart \/ ForeachSlot \/ ForeachEnd
           \/ \E stop \in BOOLEAN : CallbackReturns(stop)
  BY <1>6, <1>c DEF Clear, CallerRuns, Destroy, ForeachStart, ForeachSlot, ForeachEnd,
     CallbackReturns
<1>7. CASE UNCHANGED vars
  BY <1>7 DEF vars, call, Calls
<1> QED
  BY <1>1, <1>2, <1>3, <1>4, <1>5, <1>6, <1>7
  DEF Next, CallStep, SetStep, FindStep, ForeachStep

\* The invariant of the table and of the pending call together.
RInv == IInv /\ Calls

\* While a set is pending, the map does not own the pointer it was handed, and
\* a call's variables are clear between calls: this holds in every state.
THEOREM RInvAlways == Spec => []RInv
<1>1. Init => RInv
  BY InitShape, InitCounting, InitPlacement, InitCalls DEF IInv, RInv
<1>2. RInv /\ [Next]_vars => RInv'
  BY NextShape, NextCounting, NextPlacement, NextMigration, NextCalls DEF IInv, RInv
<1> QED
  BY <1>1, <1>2, PTL DEF Spec

-----------------------------------------------------------------------------
\* The map a table stands for.

DictOf(c, s, v) ==
    [k \in Keys |->
        IF k \in {s[x] : x \in Occupied(s)} THEN v[CHOOSE x \in Slots(c) : s[x] = k] ELSE ABSENT]

LEMMA DictIsDictOf == Dict = DictOf(cap, slot, val) /\ Dict' = DictOf(cap', slot', val')
BY DEF Dict, DictOf, Stored

LEMMA DictIsFunction ==
    ASSUME NEW c, NEW s, NEW v
    PROVE  DictOf(c, s, v) = [k \in Keys |-> DictOf(c, s, v)[k]]
BY DEF DictOf

LEMMA EntryInSlot ==
    ASSUME NEW c \in Nat, NEW s \in [Slots(c) -> Cell], NEW v, Unique(s, c),
           NEW x \in Slots(c), s[x] \in Keys
    PROVE  DictOf(c, s, v)[s[x]] = v[x]
<1>1. s[x] \in {s[y] : y \in Occupied(s)}
  BY DEF Occupied
<1>2. (CHOOSE y \in Slots(c) : s[y] = s[x]) = x
  BY DEF Unique
<1> QED
  BY <1>1, <1>2 DEF DictOf

LEMMA NoEntry ==
    ASSUME NEW c \in Nat, NEW s \in [Slots(c) -> Cell], NEW v, NEW k \in Keys,
           \A x \in Slots(c) : s[x] # k
    PROVE  DictOf(c, s, v)[k] = ABSENT
BY DEF DictOf, Occupied

\* Two tables stand for the same map when each holds the entries of the other.
LEMMA SameEntries ==
    ASSUME NEW c \in Nat, NEW s \in [Slots(c) -> Cell], NEW v, Unique(s, c),
           NEW d \in Nat, NEW t \in [Slots(d) -> Cell], NEW w, Unique(t, d),
           \A y \in Slots(d) : t[y] \in Keys =>
              \E x \in Slots(c) : s[x] = t[y] /\ v[x] = w[y],
           \A x \in Slots(c) : s[x] \in Keys =>
              \E y \in Slots(d) : t[y] = s[x] /\ w[y] = v[x]
    PROVE  DictOf(c, s, v) = DictOf(d, t, w)
<1> SUFFICES ASSUME NEW k \in Keys
             PROVE  DictOf(c, s, v)[k] = DictOf(d, t, w)[k]
  BY DEF DictOf
<1>1. CASE \E x \in Slots(c) : s[x] = k
  <2>1. PICK x \in Slots(c) : s[x] = k
    BY <1>1
  <2>2. PICK y \in Slots(d) : t[y] = k /\ w[y] = v[x]
    BY <2>1
  <2>3. DictOf(c, s, v)[k] = v[x] /\ DictOf(d, t, w)[k] = w[y]
    BY <2>1, <2>2, EntryInSlot
  <2> QED
    BY <2>2, <2>3
<1>2. CASE \A x \in Slots(c) : s[x] # k
  <2>1. \A y \in Slots(d) : t[y] # k
    BY <1>2
  <2> QED
    BY <1>2, <2>1, NoEntry
<1> QED
  BY <1>1, <1>2

\* Writing one slot changes the entry of the key it holds and no other.
LEMMA WriteEntry ==
    ASSUME NEW c \in Nat, NEW s \in [Slots(c) -> Cell], NEW v, Unique(s, c),
           NEW t \in [Slots(c) -> Cell], NEW w, Unique(t, c),
           NEW x \in Slots(c), NEW k \in Keys, t[x] = k, s[x] = k \/ s[x] \notin Keys,
           \A y \in Slots(c) : y # x => t[y] = s[y] /\ w[y] = v[y]
    PROVE  DictOf(c, t, w) = [DictOf(c, s, v) EXCEPT ![k] = w[x]]
<1>1. DictOf(c, t, w)[k] = w[x]
  BY EntryInSlot
<1>2. ASSUME NEW j \in Keys, j # k
      PROVE  DictOf(c, t, w)[j] = DictOf(c, s, v)[j]
  <2>1. CASE \E y \in Slots(c) : s[y] = j
    <3>1. PICK y \in Slots(c) : s[y] = j
      BY <2>1
    <3>2. y # x /\ t[y] = j /\ w[y] = v[y]
      BY <1>2, <3>1
    <3> QED
      BY <3>1, <3>2, EntryInSlot
  <2>2. CASE \A y \in Slots(c) : s[y] # j
    <3>1. \A y \in Slots(c) : t[y] # j
      BY <1>2, <2>2
    <3> QED
      BY <2>2, <3>1, NoEntry
  <2> QED BY <2>1, <2>2
<1> HIDE DEF Cell
<1> QED
  BY <1>1, <1>2, DictIsFunction

\* Burying the slot of a key removes its entry and no other.
LEMMA BuryEntry ==
    ASSUME NEW c \in Nat, NEW s \in [Slots(c) -> Cell], NEW v, Unique(s, c),
           NEW t \in [Slots(c) -> Cell], NEW w,
           NEW x \in Slots(c), NEW k \in Keys, s[x] = k, t[x] \notin Keys,
           \A y \in Slots(c) : y # x => t[y] = s[y] /\ w[y] = v[y]
    PROVE  DictOf(c, t, w) = [DictOf(c, s, v) EXCEPT ![k] = ABSENT]
<1>1. \A y \in Slots(c) : t[y] # k
  BY DEF Unique
<1>2. DictOf(c, t, w)[k] = ABSENT
  BY <1>1, NoEntry
<1>3. Unique(t, c)
  BY DEF Unique
<1>4. ASSUME NEW j \in Keys, j # k
      PROVE  DictOf(c, t, w)[j] = DictOf(c, s, v)[j]
  <2>1. CASE \E y \in Slots(c) : s[y] = j
    <3>1. PICK y \in Slots(c) : s[y] = j
      BY <2>1
    <3>2. y # x /\ t[y] = j /\ w[y] = v[y]
      BY <1>4, <3>1
    <3> QED
      BY <1>3, <3>1, <3>2, EntryInSlot
  <2>2. CASE \A y \in Slots(c) : s[y] # j
    <3>1. \A y \in Slots(c) : t[y] # j
      BY <2>2
    <3> QED
      BY <2>2, <3>1, NoEntry
  <2> QED BY <2>1, <2>2
<1> HIDE DEF Cell
<1> QED
  BY <1>2, <1>4, DictIsFunction

LEMMA EmptyTable ==
    ASSUME NEW c \in Nat, NEW v
    PROVE  DictOf(c, [x \in Slots(c) |-> EMPTY], v) = [k \in Keys |-> ABSENT]
BY HashMapAssumption DEF DictOf, Occupied

-----------------------------------------------------------------------------
\* Each step of the table is a step of the map or leaves the map as it is.

MapStep == [Map!SpecNext]_Map!specVars

LEMMA InitRefines == Init => Map!SpecInit
<1> SUFFICES ASSUME Init PROVE Map!SpecInit
  OBVIOUS
<1>1. Dict = DictOf(cap, slot, val) /\ cap = 0 /\ slot = [x \in Slots(0) |-> EMPTY]
  BY DictIsDictOf DEF Init
<1>2. Dict = [k \in Keys |-> ABSENT]
  BY <1>1, EmptyTable
<1> QED
  BY <1>2 DEF Init, Map!SpecInit

LEMMA StepRefines == RInv /\ RInv' /\ [Next]_vars => MapStep
<1> SUFFICES ASSUME RInv, RInv', [Next]_vars
             PROVE  MapStep
  OBVIOUS
<1> USE HashMapAssumption
<1>0. /\ Shape /\ Control /\ Placement /\ Migration /\ Calls
      /\ cap \in Nat /\ slot \in [Slots(cap) -> Cell]
      /\ val \in [Slots(cap) -> Values \cup {NULL}]
      /\ Unique(slot, cap) /\ ChainOf(slot, cap)
      /\ cap > 0 => cap \in 1 .. MaxCap
      /\ cap' \in Nat /\ slot' \in [Slots(cap') -> Cell] /\ Unique(slot', cap')
  BY DEF RInv, IInv, Shape, Placement
<1>d. Dict = DictOf(cap, slot, val) /\ Dict' = DictOf(cap', slot', val')
  BY DictIsDictOf
<1>e. ABSENT \notin Values \cup {NULL}
  BY AbsentAssumption
<1>t. /\ cap \in Nat /\ slot \in [Slots(cap) -> Cell] /\ Unique(slot, cap)
      /\ cap' \in Nat /\ slot' \in [Slots(cap') -> Cell] /\ Unique(slot', cap')
  BY <1>0
<1>w. ASSUME NEW x \in Slots(cap), slot[x] = key, key \in Keys
      PROVE  Dict[key] = val[x] /\ Dict[key] # ABSENT
  <2>1. DictOf(cap, slot, val)[slot[x]] = val[x]
    BY <1>t, <1>w, EntryInSlot
  <2>2. val[x] \in Values \cup {NULL}
    BY <1>0
  <2> QED
    BY <1>d, <1>e, <1>w, <2>1, <2>2
<1>s. ASSUME UNCHANGED table PROVE UNCHANGED Dict
  BY <1>s, <1>d DEF table
<1>u. ASSUME UNCHANGED <<Dict, op, key, value, ret>> PROVE MapStep
  BY <1>u DEF MapStep, Map!specVars
<1> HIDE DEF Cell
<1>1. ASSUME NEW k \in Keys, NEW v \in Values \cup {NULL}, CallSet(k, v)
      PROVE  MapStep
  <2>1. UNCHANGED Dict
    BY <1>1, <1>s DEF CallSet
  <2>2. Map!Invoke
    BY <1>0, <1>1, <2>1 DEF CallSet, CallerRuns, Calls, Map!Invoke
  <2> QED
    BY <2>2 DEF MapStep, Map!SpecNext
<1>2. ASSUME NEW o \in {"get", "contains", "remove"}, NEW k \in Keys, CallFind(o, k)
      PROVE  MapStep
  <2>1. UNCHANGED Dict
    BY <1>2, <1>s DEF CallFind
  <2>2. Map!Invoke
    BY <1>0, <1>2, <2>1 DEF CallFind, CallerRuns, Calls, Map!Invoke, Map!FindOps
  <2> QED
    BY <2>2 DEF MapStep, Map!SpecNext
<1>3. CASE FirstTable
  <2>1. cap = 0 /\ slot' = [x \in Slots(cap') |-> EMPTY]
    BY <1>3 DEF FirstTable
  <2>2. \A x \in Slots(cap) : FALSE
    BY <2>1 DEF Slots
  <2>3. slot = [x \in Slots(cap) |-> EMPTY]
    BY <1>0, <2>2
  <2>4. UNCHANGED Dict
    BY <1>0, <1>d, <2>1, <2>3, EmptyTable
  <2> QED
    BY <1>3, <1>u, <2>4 DEF FirstTable, call
<1>4. CASE OutOfMemory \/ CopyFails
  <2>1. UNCHANGED Dict
    BY <1>4, <1>s DEF OutOfMemory, CopyFails
  <2>2. Map!PutRefused
    BY <1>0, <1>4, <2>1 DEF OutOfMemory, CopyFails, Return, Calls, SetPcs,
       Map!PutRefused, Map!Return
  <2> QED
    BY <2>2 DEF MapStep, Map!SpecNext
<1>5. CASE Grow \/ LoadOK \/ MigrateSlot \/ Place \/ SkipTombstone \/ SkipOther \/ FindNext
  <2>1. UNCHANGED Dict
    BY <1>5, <1>s DEF Grow, LoadOK, MigrateSlot, Place, SkipTombstone, SkipOther, FindNext
  <2> QED
    BY <1>5, <1>u, <2>1 DEF Grow, LoadOK, Probe, MigrateSlot, Place, SkipTombstone, SkipOther,
       FindNext, call
<1>6. CASE SwapTables
  <2>1. /\ pc = "migrate" /\ i = cap /\ cap' = ncap /\ slot' = nslot /\ val' = nval
    BY <1>6 DEF SwapTables
  <2>2. /\ \A y \in Slots(cap') : slot'[y] \in Keys =>
             \E x \in Slots(cap) : slot[x] = slot'[y] /\ val[x] = val'[y]
        /\ \A x \in Slots(cap) : slot[x] \in Keys =>
             \E y \in Slots(cap') : slot'[y] = slot[x] /\ val'[y] = val[x]
    BY <1>0, <2>1 DEF Migration
  <2>3. UNCHANGED Dict
    BY <1>0, <1>d, <2>2, SameEntries
  <2> QED
    BY <1>6, <1>u, <2>3 DEF SwapTables, Probe
<1>7. CASE Replace
  <2>1. /\ pc = "probe" /\ key \in Keys /\ idx \in Slots(cap) /\ slot[idx] = key
        /\ slot' = slot /\ cap' = cap /\ val' = [val EXCEPT ![idx] = value]
    BY <1>0, <1>7 DEF Replace, Control
  <2>2. val'[idx] = value /\ \A y \in Slots(cap) : y # idx => val'[y] = val[y]
    BY <1>0, <2>1
  <2>3. Dict' = [Dict EXCEPT ![key] = value]
    <3>1. /\ slot[idx] = key /\ slot'[idx] = key /\ slot' \in [Slots(cap) -> Cell]
          /\ Unique(slot', cap) /\ idx \in Slots(cap) /\ key \in Keys
          /\ \A y \in Slots(cap) : y # idx => slot'[y] = slot[y] /\ val'[y] = val[y]
      BY <1>t, <2>1, <2>2
    <3>2. DictOf(cap, slot', val') = [DictOf(cap, slot, val) EXCEPT ![key] = val'[idx]]
      BY <1>t, <3>1, WriteEntry
    <3> QED
      BY <1>d, <2>1, <2>2, <3>2
  <2>4. Map!Put
    BY <1>0, <1>7, <2>1, <2>3 DEF Replace, Return, Calls, SetPcs, Map!Put, Map!Return
  <2> QED
    BY <2>4 DEF MapStep, Map!SpecNext
<1>8. CASE Insert
  <2> DEFINE at == IF tomb # NoIdx THEN tomb ELSE idx
  <2>1. /\ pc = "probe" /\ key \in Keys /\ at \in Slots(cap)
        /\ slot[at] \in {EMPTY, TOMBSTONE} /\ cap' = cap
        /\ slot' = [slot EXCEPT ![at] = key] /\ val' = [val EXCEPT ![at] = value]
    BY <1>0, <1>8 DEF Insert, Control
  <2> HIDE DEF at
  <2>2. /\ slot[at] \notin Keys /\ slot'[at] = key /\ val'[at] = value
        /\ \A y \in Slots(cap) : y # at => slot'[y] = slot[y] /\ val'[y] = val[y]
    BY <1>0, <2>1
  <2>3. Dict' = [Dict EXCEPT ![key] = value]
    <3>1. slot' \in [Slots(cap) -> Cell] /\ Unique(slot', cap) /\ at \in Slots(cap) /\ key \in Keys
      BY <1>t, <2>1
    <3>2. DictOf(cap, slot', val') = [DictOf(cap, slot, val) EXCEPT ![key] = val'[at]]
      BY <1>t, <2>2, <3>1, WriteEntry
    <3> QED
      BY <1>d, <2>1, <2>2, <3>2
  <2>4. Map!Put
    BY <1>0, <1>8, <2>1, <2>3 DEF Insert, Return, Calls, SetPcs, Map!Put, Map!Return
  <2> QED
    BY <2>4 DEF MapStep, Map!SpecNext
<1>9. CASE FindMiss
  <2>1. /\ pc = "find" /\ key \in Keys /\ op \in {"get", "contains", "remove"}
        /\ op' = "none" /\ key' = NULL /\ value' = NULL
        /\ ret' = (IF op = "get" THEN NULL ELSE "fail")
    BY <1>0, <1>9 DEF FindMiss, Return, Control
  <2>2. \A z \in Slots(cap) : slot[z] # key
    <3>1. CASE idx = NoIdx
      <4>1. cap = 0
        BY <1>0, <2>1, <3>1 DEF Control, Slots, NoIdx
      <4> QED
        BY <4>1 DEF Slots
    <3>2. CASE idx # NoIdx
      <4>1. /\ cap \in 1 .. MaxCap /\ idx \in Slots(cap) /\ slot[idx] = EMPTY /\ Passed
        BY <1>0, <1>9, <2>1, <3>2 DEF FindMiss, Control, Placement
      <4> QED
        BY <1>0, <2>1, <4>1, ProbeComplete DEF Passed
    <3> QED BY <3>1, <3>2
  <2>3. Dict[key] = ABSENT
    BY <1>0, <1>d, <2>1, <2>2, NoEntry
  <2>4. UNCHANGED Dict
    BY <1>9, <1>s DEF FindMiss
  <2>5. CASE op = "get"
    <3>1. Map!Get
      BY <2>1, <2>3, <2>4, <2>5 DEF Map!Get, Map!Return
    <3> QED
      BY <3>1 DEF MapStep, Map!SpecNext
  <2>6. CASE op = "contains"
    <3>1. Map!Contains
      BY <2>1, <2>3, <2>4, <2>6 DEF Map!Contains, Map!Return
    <3> QED
      BY <3>1 DEF MapStep, Map!SpecNext
  <2>7. CASE op = "remove"
    <3>1. Dict' = [Dict EXCEPT ![key] = ABSENT]
      BY <2>3, <2>4 DEF Dict
    <3>2. Map!Remove
      BY <2>1, <2>3, <2>7, <3>1 DEF Map!Remove, Map!Return
    <3> QED
      BY <3>2 DEF MapStep, Map!SpecNext
  <2> QED BY <2>1, <2>5, <2>6, <2>7
<1>10. CASE Found
  <2>1. /\ pc = "find" /\ key \in Keys /\ op \in {"get", "contains"}
        /\ idx \in Slots(cap) /\ slot[idx] = key
        /\ op' = "none" /\ key' = NULL /\ value' = NULL
        /\ ret' = (IF op = "get" THEN val[idx] ELSE "ok")
    BY <1>0, <1>10 DEF Found, Return, Control, Slots
  <2>2. Dict[key] = val[idx] /\ Dict[key] # ABSENT
    BY <1>w, <2>1
  <2>3. UNCHANGED Dict
    BY <1>10, <1>s DEF Found
  <2>4. CASE op = "get"
    <3>1. Map!Get
      BY <2>1, <2>2, <2>3, <2>4 DEF Map!Get, Map!Return
    <3> QED
      BY <3>1 DEF MapStep, Map!SpecNext
  <2>5. CASE op = "contains"
    <3>1. Map!Contains
      BY <2>1, <2>2, <2>3, <2>5 DEF Map!Contains, Map!Return
    <3> QED
      BY <3>1 DEF MapStep, Map!SpecNext
  <2> QED BY <2>1, <2>4, <2>5
<1>11. CASE RemoveFound
  <2>1. /\ pc = "find" /\ key \in Keys /\ op = "remove" /\ cap' = cap
        /\ idx \in Slots(cap) /\ slot[idx] = key
        /\ slot' = [slot EXCEPT ![idx] = TOMBSTONE] /\ val' = [val EXCEPT ![idx] = NULL]
        /\ op' = "none" /\ key' = NULL /\ value' = NULL /\ ret' = "ok"
    BY <1>0, <1>11 DEF RemoveFound, Return, Control, Slots
  <2>2. /\ slot'[idx] \notin Keys
        /\ \A y \in Slots(cap) : y # idx => slot'[y] = slot[y] /\ val'[y] = val[y]
    BY <1>0, <2>1
  <2>3. Dict' = [Dict EXCEPT ![key] = ABSENT]
    <3>1. slot' \in [Slots(cap) -> Cell] /\ idx \in Slots(cap) /\ key \in Keys /\ slot[idx] = key
      BY <1>t, <2>1
    <3>2. DictOf(cap, slot', val') = [DictOf(cap, slot, val) EXCEPT ![key] = ABSENT]
      BY <1>t, <2>2, <3>1, BuryEntry
    <3> QED
      BY <1>d, <2>1, <3>2
  <2>4. Dict[key] # ABSENT
    BY <1>w, <2>1
  <2>5. Map!Remove
    BY <2>1, <2>3, <2>4 DEF Map!Remove, Map!Return
  <2> QED
    BY <2>5 DEF MapStep, Map!SpecNext
<1>12. CASE Clear \/ Destroy
  <2>1. slot' = [x \in Slots(cap') |-> EMPTY] /\ pc = "ready" /\ UNCHANGED call
    BY <1>12 DEF Clear, CallerRuns, Destroy
  <2>2. Dict' = [k \in Keys |-> ABSENT]
    BY <1>0, <1>d, <2>1, EmptyTable
  <2>3. Map!RemoveAll
    BY <1>0, <2>1, <2>2 DEF Calls, call, Map!RemoveAll
  <2> QED
    BY <2>3 DEF MapStep, Map!SpecNext
<1>13. CASE ForeachStart \/ ForeachSlot \/ ForeachEnd \/ \E stop \in BOOLEAN : CallbackReturns(stop)
  <2>1. UNCHANGED table /\ UNCHANGED call
    BY <1>13 DEF ForeachStart, ForeachSlot, ForeachEnd, CallbackReturns
  <2> QED
    BY <1>s, <1>u, <2>1 DEF call
<1>14. CASE UNCHANGED vars
  BY <1>14, <1>s, <1>u DEF vars, call
<1> QED
  BY <1>1, <1>2, <1>3, <1>4, <1>5, <1>6, <1>7, <1>8, <1>9, <1>10, <1>11, <1>12, <1>13, <1>14
  DEF Next, CallStep, SetStep, FindStep, ForeachStep

\* The open-addressing table behaves as a finite map, for every hash function
\* and every number of keys: get, contains and remove answer from what the last
\* successful set stored, and probing, tombstones and rehashes are invisible.
THEOREM TableImplementsMap == Spec => ImplementsMap
<1>1. Init => Map!SpecInit
  BY InitRefines
<1>2. RInv /\ RInv' /\ [Next]_vars => [Map!SpecNext]_Map!specVars
  BY StepRefines DEF MapStep
<1> QED
  BY <1>1, <1>2, RInvAlways, PTL DEF Spec, ImplementsMap, Map!Spec

-----------------------------------------------------------------------------
\* The values the map has to free.

Owns(o, s, v) ==
    /\ o = {v[x] : x \in Occupied(s)} \ {NULL}
    /\ \A x, y \in Occupied(s) : v[x] = v[y] /\ v[x] # NULL => x = y

LEMMA OwnsNothing ==
    ASSUME NEW c \in Nat, NEW v
    PROVE  Owns({}, [x \in Slots(c) |-> EMPTY], v)
BY HashMapAssumption DEF Owns, Occupied

\* The values of a table move to another one that holds the same entries.
LEMMA OwnsMoved ==
    ASSUME NEW o, NEW c \in Nat, NEW s \in [Slots(c) -> Cell], NEW v, Unique(s, c),
           NEW d \in Nat, NEW t \in [Slots(d) -> Cell], NEW w, Unique(t, d),
           \A y \in Slots(d) : t[y] \in Keys =>
              \E x \in Slots(c) : s[x] = t[y] /\ v[x] = w[y],
           \A x \in Slots(c) : s[x] \in Keys =>
              \E y \in Slots(d) : t[y] = s[x] /\ w[y] = v[x],
           Owns(o, s, v)
    PROVE  Owns(o, t, w)
<1>1. Occupied(s) \subseteq Slots(c) /\ Occupied(t) \subseteq Slots(d)
  BY DEF Occupied
<1>2. ASSUME NEW y \in Occupied(t)
      PROVE  \E x \in Occupied(s) : s[x] = t[y] /\ v[x] = w[y]
  BY <1>1 DEF Occupied
<1>3. ASSUME NEW x \in Occupied(s)
      PROVE  \E y \in Occupied(t) : t[y] = s[x] /\ w[y] = v[x]
  BY <1>1 DEF Occupied
<1>4. {w[y] : y \in Occupied(t)} = {v[x] : x \in Occupied(s)}
  BY <1>2, <1>3
<1>5. ASSUME NEW y1 \in Occupied(t), NEW y2 \in Occupied(t), w[y1] = w[y2], w[y1] # NULL
      PROVE  y1 = y2
  <2>1. PICK x1 \in Occupied(s) : s[x1] = t[y1] /\ v[x1] = w[y1]
    BY <1>2
  <2>2. PICK x2 \in Occupied(s) : s[x2] = t[y2] /\ v[x2] = w[y2]
    BY <1>2
  <2>3. x1 = x2
    BY <1>5, <2>1, <2>2 DEF Owns
  <2>4. t[y1] = t[y2] /\ t[y1] \in Keys /\ y1 \in Slots(d) /\ y2 \in Slots(d)
    BY <1>1, <2>1, <2>2, <2>3 DEF Occupied
  <2> QED
    BY <2>4 DEF Unique
<1> QED
  BY <1>4, <1>5 DEF Owns

\* A pointer the map did not own is written to a slot: in place of the old
\* pointer of an occupied slot, which is freed, or to a free slot.
LEMMA OwnsWritten ==
    ASSUME NEW o, NEW c \in Nat, NEW s \in [Slots(c) -> Cell], NEW v, Owns(o, s, v),
           NEW t \in [Slots(c) -> Cell], NEW w, NEW x \in Slots(c), t[x] \in Keys,
           \A y \in Slots(c) : y # x => t[y] = s[y] /\ w[y] = v[y],
           w[x] \notin o
    PROVE  Owns((IF s[x] \in Keys THEN o \ {v[x]} ELSE o)
                  \cup (IF w[x] # NULL THEN {w[x]} ELSE {}), t, w)
<1>1. Occupied(t) = Occupied(s) \cup {x} /\ (x \in Occupied(s) <=> s[x] \in Keys)
  BY DEF Occupied
<1>2. \A y \in Occupied(s) \ {x} : w[y] = v[y] /\ y \in Slots(c)
  BY DEF Occupied
<1>3. \A y \in Occupied(s) : v[y] # NULL => v[y] \in o
  BY DEF Owns
<1>4. ASSUME NEW y1 \in Occupied(t), NEW y2 \in Occupied(t), w[y1] = w[y2], w[y1] # NULL
      PROVE  y1 = y2
  <2>1. CASE y1 = x /\ y2 # x
    BY <1>1, <1>2, <1>3, <1>4, <2>1
  <2>2. CASE y1 # x /\ y2 = x
    BY <1>1, <1>2, <1>3, <1>4, <2>2
  <2>3. CASE y1 # x /\ y2 # x
    BY <1>1, <1>2, <1>4, <2>3 DEF Owns
  <2> QED BY <2>1, <2>2, <2>3
<1>5. {w[y] : y \in Occupied(t)} = {v[y] : y \in Occupied(s) \ {x}} \cup {w[x]}
  BY <1>1, <1>2
<1>6. {v[y] : y \in Occupied(s) \ {x}} \ {NULL} = IF s[x] \in Keys THEN o \ {v[x]} ELSE o
  <2>1. CASE s[x] \in Keys
    BY <1>1, <2>1 DEF Owns
  <2>2. CASE s[x] \notin Keys
    BY <1>1, <2>2 DEF Owns
  <2> QED BY <2>1, <2>2
<1> QED
  BY <1>4, <1>5, <1>6 DEF Owns

LEMMA OwnsBuried ==
    ASSUME NEW o, NEW c \in Nat, NEW s \in [Slots(c) -> Cell], NEW v, Owns(o, s, v),
           NEW t \in [Slots(c) -> Cell], NEW w, NEW x \in Slots(c),
           s[x] \in Keys, t[x] \notin Keys,
           \A y \in Slots(c) : y # x => t[y] = s[y] /\ w[y] = v[y]
    PROVE  Owns(o \ {v[x]}, t, w)
<1>1. Occupied(t) = Occupied(s) \ {x} /\ x \in Occupied(s)
  BY DEF Occupied
<1>2. \A y \in Occupied(t) : w[y] = v[y]
  BY <1>1 DEF Occupied
<1>3. {w[y] : y \in Occupied(t)} = {v[y] : y \in Occupied(s) \ {x}}
  BY <1>1, <1>2
<1>4. {v[y] : y \in Occupied(s) \ {x}} \ {NULL} = o \ {v[x]}
  BY <1>1 DEF Owns
<1> QED
  BY <1>1, <1>2, <1>3, <1>4 DEF Owns

LEMMA StepOwns == RInv /\ RInv' /\ OwnedIsStored /\ [Next]_vars => OwnedIsStored'
<1> SUFFICES ASSUME RInv, RInv', OwnedIsStored, [Next]_vars, FreeFn
             PROVE  Owns(owned', slot', val')
  BY DEF OwnedIsStored, Owns
<1> USE HashMapAssumption
<1>0. Control /\ Migration /\ Calls /\ val \in [Slots(cap) -> Values \cup {NULL}]
  BY DEF RInv, IInv, Shape
<1>t. /\ cap \in Nat /\ slot \in [Slots(cap) -> Cell] /\ Unique(slot, cap)
      /\ cap' \in Nat /\ slot' \in [Slots(cap') -> Cell] /\ Unique(slot', cap')
  BY DEF RInv, IInv, Shape, Placement
<1>o. Owns(owned, slot, val)
  BY DEF OwnedIsStored, Owns
<1> HIDE DEF Cell
<1>s. ASSUME UNCHANGED <<slot, val, owned>> PROVE Owns(owned', slot', val')
  BY <1>s, <1>o
<1>1. CASE FirstTable
  <2>1. /\ cap = 0 /\ slot' = [x \in Slots(cap') |-> EMPTY] /\ owned' = owned
    BY <1>1 DEF FirstTable
  <2>2. Occupied(slot) = {}
    BY <1>t, <2>1 DEF Occupied, Slots
  <2>3. owned = {}
    BY <1>o, <2>2 DEF Owns
  <2> QED
    BY <1>t, <2>1, <2>3, OwnsNothing
<1>2. CASE SwapTables
  <2>1. /\ pc = "migrate" /\ i = cap /\ cap' = ncap /\ slot' = nslot /\ val' = nval
        /\ owned' = owned
    BY <1>2 DEF SwapTables
  <2>2. /\ \A y \in Slots(cap') : slot'[y] \in Keys =>
             \E x \in Slots(cap) : slot[x] = slot'[y] /\ val[x] = val'[y]
        /\ \A x \in Slots(cap) : slot[x] \in Keys =>
             \E y \in Slots(cap') : slot'[y] = slot[x] /\ val'[y] = val[x]
    BY <1>0, <2>1 DEF Migration
  <2>3. Owns(owned, slot', val')
    BY <1>t, <1>o, <2>2, OwnsMoved
  <2> QED
    BY <2>1, <2>3
<1>3. CASE Replace
  <2>1. /\ pc = "probe" /\ key \in Keys /\ idx \in Slots(cap) /\ slot[idx] = key
        /\ slot' = slot /\ cap' = cap /\ val' = [val EXCEPT ![idx] = value]
        /\ owned' = (owned \ {val[idx]}) \cup (IF value # NULL THEN {value} ELSE {})
    BY <1>0, <1>3 DEF Replace, Own, Free, Control
  <2>2. value \notin owned
    BY <1>0, <2>1 DEF Calls, SetPcs
  <2>3. /\ idx \in Slots(cap) /\ slot[idx] \in Keys /\ slot'[idx] \in Keys
        /\ slot' \in [Slots(cap) -> Cell] /\ val'[idx] = value
        /\ \A y \in Slots(cap) : y # idx => slot'[y] = slot[y] /\ val'[y] = val[y]
    BY <1>0, <1>t, <2>1
  <2>4. Owns((IF slot[idx] \in Keys THEN owned \ {val[idx]} ELSE owned)
               \cup (IF val'[idx] # NULL THEN {val'[idx]} ELSE {}), slot', val')
    BY <1>t, <1>o, <2>2, <2>3, OwnsWritten
  <2> QED
    BY <2>1, <2>3, <2>4
<1>4. CASE Insert
  <2> DEFINE at == IF tomb # NoIdx THEN tomb ELSE idx
  <2>1. /\ pc = "probe" /\ key \in Keys /\ at \in Slots(cap)
        /\ slot[at] \in {EMPTY, TOMBSTONE} /\ cap' = cap
        /\ slot' = [slot EXCEPT ![at] = key] /\ val' = [val EXCEPT ![at] = value]
        /\ owned' = owned \cup (IF value # NULL THEN {value} ELSE {})
    BY <1>0, <1>4 DEF Insert, Own, Control
  <2> HIDE DEF at
  <2>2. value \notin owned
    BY <1>0, <2>1 DEF Calls, SetPcs
  <2>3. /\ at \in Slots(cap) /\ slot[at] \notin Keys /\ slot'[at] \in Keys
        /\ slot' \in [Slots(cap) -> Cell] /\ val'[at] = value
        /\ \A y \in Slots(cap) : y # at => slot'[y] = slot[y] /\ val'[y] = val[y]
    BY <1>0, <1>t, <2>1
  <2>4. Owns((IF slot[at] \in Keys THEN owned \ {val[at]} ELSE owned)
               \cup (IF val'[at] # NULL THEN {val'[at]} ELSE {}), slot', val')
    BY <1>t, <1>o, <2>2, <2>3, OwnsWritten
  <2> QED
    BY <2>1, <2>3, <2>4
<1>5. CASE RemoveFound
  <2>1. /\ key \in Keys /\ cap' = cap /\ idx \in Slots(cap) /\ slot[idx] = key
        /\ slot' = [slot EXCEPT ![idx] = TOMBSTONE] /\ val' = [val EXCEPT ![idx] = NULL]
        /\ owned' = owned \ {val[idx]}
    BY <1>0, <1>5 DEF RemoveFound, Free, Control, Slots
  <2>2. /\ idx \in Slots(cap) /\ slot[idx] \in Keys /\ slot'[idx] \notin Keys
        /\ slot' \in [Slots(cap) -> Cell]
        /\ \A y \in Slots(cap) : y # idx => slot'[y] = slot[y] /\ val'[y] = val[y]
    BY <1>0, <1>t, <2>1
  <2>3. Owns(owned \ {val[idx]}, slot', val')
    BY <1>t, <1>o, <2>2, OwnsBuried
  <2> QED
    BY <2>1, <2>3
<1>6. CASE Clear \/ Destroy
  <2>1. /\ slot' = [x \in Slots(cap') |-> EMPTY]
        /\ owned' = owned \ {val[x] : x \in Occupied(slot)}
    BY <1>6 DEF Clear, Destroy
  <2>2. owned' = {}
    BY <1>o, <2>1 DEF Owns
  <2> QED
    BY <1>t, <2>1, <2>2, OwnsNothing
<1>7. ASSUME ~FirstTable, ~SwapTables, ~Replace, ~Insert, ~RemoveFound, ~Clear, ~Destroy
      PROVE  Owns(owned', slot', val')
  BY <1>7, <1>s DEF Next, CallStep, SetStep, FindStep, ForeachStep, vars, table, CallSet,
     CallFind, OutOfMemory, Grow, LoadOK, MigrateSlot, Place, SkipTombstone, SkipOther,
     CopyFails, FindNext, FindMiss, Found, ForeachStart, ForeachSlot, CallbackReturns, ForeachEnd
<1> QED
  BY <1>1, <1>2, <1>3, <1>4, <1>5, <1>6, <1>7

\* With a free_value callback, the map frees each pointer it was handed exactly
\* once: through overwriting, removal, clearing, destruction and rehashes.
THEOREM NothingLeaks == Spec => []OwnedIsStored
<1>1. Init => OwnedIsStored
  BY DEF Init, OwnedIsStored, Occupied, Slots
<1>2. RInv /\ RInv' /\ OwnedIsStored /\ [Next]_vars => OwnedIsStored'
  BY StepOwns
<1> QED
  BY <1>1, <1>2, RInvAlways, PTL DEF Spec

-----------------------------------------------------------------------------
\* A foreach under way.

\* What foreach still owes a visit is in the table.
ForeachInv == ForeachExact /\ due \subseteq Stored /\ (it = NoIdx => due = {})

LEMMA StepForeach == RInv /\ RInv' /\ ForeachInv /\ [Next]_vars => ForeachInv'
<1> SUFFICES ASSUME RInv, RInv', ForeachInv, [Next]_vars
             PROVE  ForeachInv'
  OBVIOUS
<1> USE HashMapAssumption
<1>0. /\ Control /\ Placement /\ cap \in Nat /\ slot \in [Slots(cap) -> Cell]
      /\ Unique(slot, cap) /\ it \in Nat \cup {NoIdx} /\ due \subseteq Keys
      /\ cap > 0 => cap \in 1 .. MaxCap /\ ChainOf(slot, cap)
  BY DEF RInv, IInv, Shape, Placement
<1> HIDE DEF Cell
<1>s. ASSUME UNCHANGED <<cap, slot, iter>> PROVE ForeachInv'
  BY <1>s DEF ForeachInv, ForeachExact, Stored, Occupied, iter
<1>e. ASSUME due' = {} PROVE ForeachInv'
  BY <1>e DEF ForeachInv, ForeachExact
<1>1. CASE FirstTable
  <2>1. due' = due /\ cap = 0
    BY <1>1 DEF FirstTable, iter
  <2>2. Stored = {}
    BY <1>0, <2>1 DEF Stored, Occupied, Slots
  <2> QED
    BY <1>e, <2>1, <2>2 DEF ForeachInv
<1>2. CASE SwapTables \/ Clear \/ ForeachEnd
  BY <1>2, <1>e DEF SwapTables, Clear, ForeachEnd
<1>3. CASE Insert
  <2> DEFINE at == IF tomb # NoIdx THEN tomb ELSE idx
  <2>1. /\ pc = "probe" /\ cap \in 1 .. MaxCap /\ key \in Keys /\ idx \in Slots(cap)
        /\ slot[idx] = EMPTY /\ Passed /\ at \in Slots(cap) /\ slot[at] \in {EMPTY, TOMBSTONE}
        /\ cap' = cap /\ slot' = [slot EXCEPT ![at] = key] /\ UNCHANGED iter
    BY <1>0, <1>3 DEF Insert, Control, Placement
  <2> HIDE DEF at
  <2>2. \A z \in Slots(cap) : slot[z] # key
    <3>1. /\ cap \in 1 .. MaxCap /\ slot \in [Slots(cap) -> Cell] /\ ChainOf(slot, cap)
          /\ key \in Keys /\ idx \in Slots(cap) /\ slot[idx] = EMPTY
          /\ \A y \in Slots(cap) : Between(Home(key, cap), y, idx) => slot[y] # key
      BY <1>0, <2>1 DEF Passed
    <3> QED
      BY <3>1, ProbeComplete
  <2>3. key \notin due
    BY <1>0, <2>2 DEF ForeachInv, Stored, Occupied
  <2>4. /\ slot'[at] = key /\ slot[at] \notin Keys
        /\ \A x \in Slots(cap) : x # at => slot'[x] = slot[x]
        /\ DOMAIN slot = Slots(cap) /\ DOMAIN slot' = Slots(cap)
    BY <1>0, <2>1
  <2>5. ForeachExact'
    BY <2>1, <2>3, <2>4 DEF ForeachInv, ForeachExact, iter
  <2>6. Stored \subseteq Stored'
    BY <2>4 DEF Stored, Occupied
  <2> QED
    BY <2>1, <2>5, <2>6 DEF ForeachInv, iter
<1>4. CASE RemoveFound
  <2>1. /\ key \in Keys /\ cap' = cap /\ idx \in Slots(cap) /\ slot[idx] = key
        /\ slot' = [slot EXCEPT ![idx] = TOMBSTONE] /\ due' = due \ {key}
        /\ UNCHANGED <<it, cb, seen>>
    BY <1>0, <1>4 DEF RemoveFound, Control, Slots
  <2>2. /\ slot'[idx] = TOMBSTONE /\ \A x \in Slots(cap) : x # idx => slot'[x] = slot[x]
        /\ DOMAIN slot = Slots(cap) /\ DOMAIN slot' = Slots(cap)
    BY <1>0, <2>1
  <2>3. ForeachExact'
    BY <1>0, <2>1, <2>2 DEF ForeachInv, ForeachExact
  <2>4. Stored \ {key} \subseteq Stored'
    BY <2>1, <2>2 DEF Stored, Occupied
  <2> QED
    BY <2>1, <2>3, <2>4 DEF ForeachInv
<1>5. CASE Destroy
  BY <1>5, <1>e DEF Destroy, iter, ForeachInv
<1>6. CASE ForeachStart
  <2>1. it' = 0 /\ seen' = {} /\ due' = Stored /\ UNCHANGED <<cap, slot>> /\ cb' = FALSE
    BY <1>6 DEF ForeachStart, table
  <2>2. ForeachExact'
    BY <1>0, <2>1 DEF ForeachExact, Slots
  <2>3. Stored' = Stored
    BY <2>1 DEF Stored, Occupied
  <2> QED
    BY <2>1, <2>2, <2>3 DEF ForeachInv, NoIdx
<1>7. CASE ForeachSlot
  <2>1. /\ it \in Nat /\ it # NoIdx /\ ~cb /\ it \in Slots(cap) /\ UNCHANGED <<cap, slot, due>>
    BY <1>0, <1>7 DEF ForeachSlot, table, Slots, NoIdx
  <2>2. Stored' = Stored
    BY <2>1 DEF Stored, Occupied
  <2>3. \A x \in Slots(cap) : slot[x] \in due => (slot[x] \in seen <=> x < it)
    BY <2>1 DEF ForeachInv, ForeachExact, Slots
  <2>4. CASE slot[it] \in Keys
    <3>1. cb' /\ it' = it /\ seen' = seen \cup {slot[it]}
      BY <1>7, <2>4 DEF ForeachSlot
    <3>2. \A x \in Slots(cap) : slot[x] = slot[it] => x = it
      BY <1>0, <2>1, <2>4 DEF Unique
    <3>3. ForeachExact'
      BY <2>1, <2>3, <3>1, <3>2 DEF ForeachExact
    <3> QED
      BY <2>1, <2>2, <3>1, <3>3 DEF ForeachInv, NoIdx
  <2>5. CASE slot[it] \notin Keys
    <3>1. it' = it + 1 /\ cb' = cb /\ seen' = seen
      BY <1>7, <2>5 DEF ForeachSlot
    <3>2. \A x \in Slots(cap) : slot[x] \in due => (x < it <=> x < it + 1)
      <4>1. \A x \in Slots(cap) : slot[x] \in due => x # it
        BY <1>0, <2>5
      <4> QED
        BY <2>1, <4>1 DEF Slots
    <3>3. ForeachExact'
      BY <2>1, <2>3, <3>1, <3>2 DEF ForeachExact
    <3> QED
      BY <2>1, <2>2, <3>1, <3>3 DEF ForeachInv, NoIdx
  <2> QED BY <2>4, <2>5
<1>8. ASSUME NEW stop \in BOOLEAN, CallbackReturns(stop)
      PROVE  ForeachInv'
  <2>1. CASE stop
    BY <1>8, <1>e, <2>1 DEF CallbackReturns
  <2>2. CASE ~stop
    <3>1. /\ it \in Nat /\ it # NoIdx /\ cb /\ it' = it + 1 /\ ~cb'
          /\ UNCHANGED <<cap, slot, due, seen>>
      BY <1>0, <1>8, <2>2 DEF CallbackReturns, Control, table
    <3>2. \A x \in Slots(cap) : x < it \/ x = it <=> x < it + 1
      BY <3>1 DEF Slots
    <3>3. ForeachExact'
      BY <3>1, <3>2 DEF ForeachInv, ForeachExact
    <3>4. Stored' = Stored
      BY <3>1 DEF Stored, Occupied
    <3> QED
      BY <3>1, <3>3, <3>4 DEF ForeachInv, NoIdx
  <2> QED BY <2>1, <2>2
<1>9. CASE OutOfMemory \/ Grow \/ LoadOK \/ MigrateSlot \/ Place \/ SkipTombstone
           \/ SkipOther \/ Replace \/ CopyFails \/ FindNext \/ FindMiss \/ Found
  BY <1>9, <1>s DEF table, OutOfMemory, Grow, LoadOK, MigrateSlot, Place, SkipTombstone,
     SkipOther, Replace, CopyFails, FindNext, FindMiss, Found
<1>10. ASSUME NEW k \in Keys, NEW v \in Values \cup {NULL}, CallSet(k, v)
       PROVE  ForeachInv'
  BY <1>10, <1>s DEF CallSet, table
<1>11. ASSUME NEW o \in {"get", "contains", "remove"}, NEW k \in Keys, CallFind(o, k)
       PROVE  ForeachInv'
  BY <1>11, <1>s DEF CallFind, table
<1>12. CASE UNCHANGED vars
  BY <1>12, <1>s DEF vars, table
<1> QED
  BY <1>1, <1>2, <1>3, <1>4, <1>5, <1>6, <1>7, <1>8, <1>9, <1>10, <1>11, <1>12
  DEF Next, CallStep, SetStep, FindStep, ForeachStep

\* abs_hashmap_foreach misses no entry and visits none twice while its callback
\* sets and removes entries, as long as the table is not rehashed.
THEOREM ForeachNeverSkips == Spec => []ForeachExact
<1>1. Init => ForeachInv
  BY DEF Init, ForeachInv, ForeachExact
<1>2. RInv /\ RInv' /\ ForeachInv /\ [Next]_vars => ForeachInv'
  BY StepForeach
<1>3. ForeachInv => ForeachExact
  BY DEF ForeachInv
<1> QED
  BY <1>1, <1>2, <1>3, RInvAlways, PTL DEF Spec
=============================================================================
