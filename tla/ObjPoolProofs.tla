--------------------------- MODULE ObjPoolProofs ---------------------------
(***************************************************************************)
(* The pool and the gc list of abs.c are sound for any number of threads,  *)
(* any block size and any number of blocks: no slot is handed out twice    *)
(* and the list loses no object, whatever the interleaving; and every      *)
(* payload is freed exactly once, by del or by abs_cleanup.                *)
(*                                                                         *)
(* IInv is inductive by itself; Payloads is, together with IInv.           *)
(***************************************************************************)
EXTENDS ObjPool, TLAPS

InSection(t) == pc[t] \in {"take", "zero", "link"}

\* The mutex: its holder is the one thread inside a section.
Mutex == \A t \in Threads : gcLock = t <=> InSection(t)

\* The slots that pool_alloc has handed out.
Used(s) == s[1] < blocks \/ (s[1] = blocks /\ s[2] < poolIndex)

\* Where pool_alloc will put its next object, and what constructors build on.
Allocating == \A t \in Threads :
    /\ pc[t] \in {"take", "zero"} => blocks # 0 /\ poolIndex < BlockSize
    /\ pc[t] = "zero" => cur[t] = <<blocks, poolIndex>>
    /\ pc[t] \in {"fill", "track", "link", "spawn"} => cur[t] \in Slots /\ Used(cur[t])

HeldAreUsed == \A t \in Threads : \A s \in mine[t] : Used(s)

Listed(s) == \E n \in 1 .. Len(tracked) : tracked[n] = s

\* Only used objects are in the list; one on its way there is not yet in it.
Linking ==
    /\ \A s \in Slots : Listed(s) => Used(s)
    /\ \A t \in Threads : pc[t] \in {"fill", "track", "link"} => ~Listed(cur[t])
    /\ \A t \in Threads : pc[t] = "link" => next[cur[t]] = gcHead

\* abs_cleanup runs alone.
Alone == pc[Main] = "sweep" => \A w \in Workers : pc[w] \in {"idle", "done", "joined"}

IInv == TypeOK /\ Mutex /\ Allocating /\ HeldAreUsed /\ Linking /\ Alone
        /\ SlotsAreExclusive /\ ListIsTracked

LEMMA InitInv == Init => IInv
<1> SUFFICES ASSUME Init PROVE IInv
    OBVIOUS
<1> USE PoolAssumption
<1>1. TypeOK
    BY DEF Init, TypeOK, Threads, Types, Labels
<1>2. Mutex /\ Allocating /\ HeldAreUsed /\ Alone /\ SlotsAreExclusive
    BY DEF Init, Mutex, InSection, Allocating, HeldAreUsed, Alone, SlotsAreExclusive, Building, Threads
<1>3. Linking /\ ListIsTracked
    <2>1. tracked = <<>> /\ 1 .. Len(tracked) = {}
        BY DEF Init
    <2>2. \A t \in Threads : pc[t] # "link"
        BY DEF Init, Threads
    <2>3. \A s : ~Listed(s)
        BY <2>1 DEF Listed
    <2> QED
        BY <2>1, <2>2, <2>3 DEF Init, Linking, ListIsTracked
<1> QED
    BY <1>1, <1>2, <1>3 DEF IInv

-----------------------------------------------------------------------------
\* Steps that leave the pool, the fields next and the list alone keep what is
\* said about slots, if nobody starts building or takes an object over.
LEMMA Quiet ==
    ASSUME IInv, TypeOK', UNCHANGED <<pool, next, gc, gcLock>>,
           \A t \in Threads : mine'[t] = mine[t],
           \A t \in Threads : pc'[t] # pc[t] =>
                ~InSection(t) /\ pc'[t] \notin {"take", "zero", "fill", "track", "link", "spawn"},
           \A t \in Threads : pc'[t] = pc[t] => cur'[t] = cur[t] \/ pc[t] \in {"run", "alloc"},
           Alone'
    PROVE  IInv'
<1>1. Mutex'
    BY DEF IInv, Mutex, InSection
<1>2. \A s : Used(s)' = Used(s)
    BY DEF Used, pool
<1>3. Allocating'
    BY <1>2 DEF IInv, Allocating, pool
<1>4. HeldAreUsed'
    BY <1>2 DEF IInv, HeldAreUsed
<1>5. Linking'
    <2>1. \A s : Listed(s)' = Listed(s)
        BY DEF Listed, gc
    <2> QED
        BY <1>2, <2>1 DEF IInv, Linking, gc
<1>6. SlotsAreExclusive'
    BY DEF IInv, SlotsAreExclusive, Building
<1>7. ListIsTracked'
    BY DEF IInv, ListIsTracked, gc
<1> QED
    BY <1>1, <1>3, <1>4, <1>5, <1>6, <1>7 DEF IInv

LEMMA QuietTypes ==
    ASSUME IInv,
           \/ \E t \in Threads, ty \in {"int", "str", "thread"} : New(t, ty)
           \/ \E t \in Threads : AllocFails(t)
           \/ \E t \in Threads, s \in Slots : Del(t, s)
           \/ \E w \in Workers : WorkerReturns(w)
           \/ SpawnFails \/ Cleanup \/ Sweep
    PROVE  TypeOK'
<1> USE PoolAssumption DEF IInv, TypeOK, Threads, Labels, Types, pool, fields, gc, Goto, Local, Return
<1>1. CASE \E t \in Threads, ty \in {"int", "str", "thread"} : New(t, ty)
    BY <1>1 DEF New
<1>2. CASE \E t \in Threads : AllocFails(t)
    BY <1>2 DEF AllocFails
<1>3. ASSUME NEW t \in Threads, NEW s \in Slots, Del(t, s) PROVE TypeOK'
    <2>1. heap' \in [Slots -> {"none", "live", "freed", "twice"}]
        BY <1>3 DEF Del, FreeInternals
    <2> QED
        BY <1>3, <2>1 DEF Del
<1>4. CASE \E w \in Workers : WorkerReturns(w)
    BY <1>4 DEF WorkerReturns
<1>5. CASE SpawnFails
    BY <1>5 DEF SpawnFails
<1>6. CASE Cleanup
    BY <1>6 DEF Cleanup
<1>7. CASE Sweep
    <2>1. heap' \in [Slots -> {"none", "live", "freed", "twice"}]
        BY <1>7 DEF Sweep, FreeInternals
    <2>2. sweep' \in Slots \cup {NoSlot}
        BY <1>7 DEF Sweep
    <2> QED
        BY <1>7, <2>1, <2>2 DEF Sweep
<1> QED
    BY <1>1, <1>2, <1>3, <1>4, <1>5, <1>6, <1>7

LEMMA QuietStep ==
    ASSUME IInv,
           \/ \E t \in Threads, ty \in {"int", "str", "thread"} : New(t, ty)
           \/ \E t \in Threads : AllocFails(t)
           \/ \E t \in Threads, s \in Slots : Del(t, s)
           \/ \E w \in Workers : WorkerReturns(w)
           \/ Cleanup \/ Sweep
    PROVE  IInv'
<1> USE PoolAssumption DEF Threads, Goto, Local, Return, InSection
<1>0. TypeOK /\ TypeOK' /\ Alone
    BY QuietTypes DEF IInv
<1>1. ASSUME NEW t \in Threads, NEW ty \in {"int", "str", "thread"}, New(t, ty) PROVE IInv'
    BY <1>0, <1>1, Quiet DEF New, TypeOK, pool, fields, Alone
<1>2. ASSUME NEW t \in Threads, AllocFails(t) PROVE IInv'
    <2> USE <1>0, <1>2 DEF AllocFails, TypeOK, pool, fields
    <2>1. CASE want[t] = "thread"
        BY <2>1, Quiet DEF Alone
    <2>2. CASE want[t] # "thread"
        <3>1. /\ pc[t] = "alloc" /\ pc' = [pc EXCEPT ![t] = "run"]
              /\ cur' = [cur EXCEPT ![t] = NoSlot]
              /\ UNCHANGED <<pool, next, gc, gcLock, mine>>
            BY <2>2
        <3>2. \A u \in Threads : pc'[u] # pc[u] => u = t /\ pc'[u] = "run"
            BY <3>1
        <3>3. \A u \in Threads : pc'[u] = pc[u] => cur'[u] = cur[u]
            BY <3>1
        <3>4. Alone'
            BY <3>1, PoolAssumption DEF Alone
        <3> QED
            BY <3>1, <3>2, <3>3, <3>4, Quiet
    <2> QED
        BY <2>1, <2>2
<1>3. ASSUME NEW t \in Threads, NEW s \in Slots, Del(t, s) PROVE IInv'
    BY <1>0, <1>3, Quiet DEF Del, TypeOK, pool, fields, Alone
<1>4. ASSUME NEW w \in Workers, WorkerReturns(w) PROVE IInv'
    BY <1>0, <1>4, Quiet DEF WorkerReturns, TypeOK, pool, fields, Alone
<1>5. CASE Cleanup
    BY <1>0, <1>5, Quiet DEF Cleanup, TypeOK, pool, fields, Alone
<1>6. CASE Sweep
    BY <1>0, <1>6, Quiet DEF Sweep, TypeOK, pool, fields, Alone
<1> QED
    BY <1>1, <1>2, <1>3, <1>4, <1>5, <1>6

-----------------------------------------------------------------------------
\* pool_alloc: what is used stays used, and the slot taken is not yet used.
LEMMA UsedGrows ==
    ASSUME TypeOK, NEW t \in Threads, AllocLock(t) \/ AllocZero(t), NEW s \in Slots, Used(s)
    PROVE  Used(s)'
<1>0. s[1] \in Nat /\ s[2] \in Nat /\ blocks \in Nat /\ poolIndex \in Nat
    BY PoolAssumption DEF TypeOK, Slots
<1>1. CASE AllocLock(t)
    BY <1>0, <1>1 DEF AllocLock, Used, pool
<1>2. CASE AllocZero(t)
    BY <1>0, <1>2 DEF AllocZero, Used
<1> QED
    BY <1>1, <1>2

LEMMA AllocLockStep ==
    ASSUME IInv, NEW t \in Threads, AllocLock(t)
    PROVE  IInv'
<1> USE PoolAssumption DEF IInv, AllocLock, Goto
<1>0. /\ pc[t] = "alloc" /\ pc' = [pc EXCEPT ![t] = "take"] /\ pc'[t] = "take"
      /\ \A u \in Threads : u # t => pc'[u] = pc[u]
      /\ UNCHANGED <<fields, gc, cur, mine>>
      /\ \A u \in Threads : ~InSection(u)
    BY DEF TypeOK, Mutex, InSection, Threads
<1>1. TypeOK'
    BY DEF TypeOK, BlockFull, pool, fields, gc, Labels
<1>2. Mutex'
    BY <1>0 DEF Mutex, InSection
<1>3. \A s \in Slots : Used(s) => Used(s)'
    BY UsedGrows
<1>4. Allocating'
    <2>1. blocks' # 0 /\ poolIndex' < BlockSize
        BY DEF BlockFull, pool, TypeOK
    <2>2. \A u \in Threads : pc'[u] \in {"take", "zero"} => u = t
        BY <1>0 DEF InSection
    <2> QED
        BY <1>0, <1>3, <2>1, <2>2 DEF Allocating
<1>5. HeldAreUsed'
    BY <1>0, <1>3 DEF HeldAreUsed, TypeOK
<1>6. Linking'
    <2>1. \A s : Listed(s)' = Listed(s)
        BY <1>0 DEF Listed, gc
    <2> QED
        BY <1>0, <1>3, <2>1 DEF Linking, gc, fields
<1>7. SlotsAreExclusive'
    BY <1>0 DEF SlotsAreExclusive, Building
<1>8. ListIsTracked'
    BY <1>0 DEF ListIsTracked, gc, fields
<1>9. Alone'
    BY <1>0 DEF Alone, Threads
<1> QED
    BY <1>1, <1>2, <1>4, <1>5, <1>6, <1>7, <1>8, <1>9

LEMMA AllocTakeStep ==
    ASSUME IInv, NEW t \in Threads, AllocTake(t)
    PROVE  IInv'
<1> DEFINE here == <<blocks, poolIndex>>
<1> USE PoolAssumption DEF IInv, AllocTake, Goto
<1>0. /\ pc[t] = "take" /\ pc'[t] = "zero" /\ cur'[t] = here
      /\ \A u \in Threads : u # t => pc'[u] = pc[u] /\ cur'[u] = cur[u] /\ ~InSection(u)
      /\ UNCHANGED <<pool, fields, gc, gcLock, mine>>
    BY DEF TypeOK, Mutex, InSection
<1>1. here \in Slots /\ ~Used(here)
    BY <1>0 DEF TypeOK, Allocating, Slots, Used
<1>2. TypeOK'
    BY <1>1 DEF TypeOK, pool, fields, gc, Labels
<1>3. Mutex'
    BY <1>0 DEF Mutex, InSection
<1>4. \A s : Used(s)' = Used(s)
    BY <1>0 DEF Used, pool
<1>5. Allocating'
    BY <1>0, <1>4 DEF Allocating, pool, InSection
<1>6. HeldAreUsed'
    BY <1>0, <1>4 DEF HeldAreUsed
<1>7. Linking'
    <2>1. \A s : Listed(s)' = Listed(s)
        BY <1>0 DEF Listed, gc
    <2> QED
        BY <1>0, <1>4, <2>1 DEF Linking, gc, fields
<1>8. SlotsAreExclusive'
    <2>1. \A u \in Threads : here \notin mine[u]
        BY <1>1 DEF HeldAreUsed
    <2>2. \A u \in Threads : u # t /\ Building(u) => Used(cur[u])
        BY <1>0 DEF Building, Allocating, InSection
    <2> QED
        BY <1>0, <1>1, <2>1, <2>2 DEF SlotsAreExclusive, Building
<1>9. ListIsTracked' /\ Alone'
    BY <1>0 DEF ListIsTracked, gc, fields, Alone, Threads
<1> QED
    BY <1>2, <1>3, <1>5, <1>6, <1>7, <1>8, <1>9

LEMMA AllocZeroStep ==
    ASSUME IInv, NEW t \in Threads, AllocZero(t)
    PROVE  IInv'
<1> USE PoolAssumption DEF IInv, AllocZero, Goto
<1>0. /\ pc[t] = "zero" /\ pc'[t] = "fill" /\ cur[t] = <<blocks, poolIndex>>
      /\ blocks # 0 /\ poolIndex < BlockSize
      /\ \A u \in Threads : u # t => pc'[u] = pc[u] /\ ~InSection(u)
      /\ poolIndex' = poolIndex + 1
      /\ UNCHANGED <<blocks, gc, cur, mine>>
    BY DEF TypeOK, Mutex, InSection, Allocating
<1>1. cur[t] \in Slots /\ ~Used(cur[t]) /\ Used(cur[t])'
    BY <1>0 DEF TypeOK, Slots, Used
<1>2. \A s \in Slots : s # cur[t] => next'[s] = next[s]
    BY DEF TypeOK
<1>3. TypeOK'
    BY <1>0, <1>1 DEF TypeOK, gc, Labels, Types
<1>4. Mutex'
    BY <1>0 DEF Mutex, InSection, Threads
<1>5. \A s \in Slots : Used(s) => Used(s)'
    BY UsedGrows
<1>6. Allocating'
    BY <1>0, <1>1, <1>5 DEF Allocating, InSection
<1>7. HeldAreUsed'
    BY <1>0, <1>5 DEF HeldAreUsed, TypeOK
<1>8. \A n \in 1 .. Len(tracked) : tracked[n] \in Slots /\ tracked[n] # cur[t]
    BY <1>1 DEF Linking, Listed, TypeOK
<1>9. Linking'
    <2>1. \A s : Listed(s)' = Listed(s)
        BY <1>0 DEF Listed, gc
    <2>2. \A u \in Threads : pc'[u] # "link"
        BY <1>0 DEF InSection
    <2>3. ~Listed(cur[t])
        BY <1>1 DEF Linking
    <2> QED
        BY <1>0, <1>5, <2>1, <2>2, <2>3 DEF Linking
<1>10. SlotsAreExclusive'
    BY <1>0 DEF SlotsAreExclusive, Building
<1>11. ListIsTracked'
    BY <1>0, <1>2, <1>8 DEF ListIsTracked, gc
<1>12. Alone'
    BY <1>0 DEF Alone, Threads
<1> QED
    BY <1>3, <1>4, <1>6, <1>7, <1>9, <1>10, <1>11, <1>12

-----------------------------------------------------------------------------
\* The constructors and the gc list.
LEMMA FillStep ==
    ASSUME IInv, NEW t \in Threads, Fill(t)
    PROVE  IInv'
<1> USE PoolAssumption DEF IInv, Fill
<1>0. /\ pc[t] = "fill" /\ pc'[t] \in {"run", "track"}
      /\ pc'[t] = "track" => mine' = mine /\ cur' = cur
      /\ mine'[t] \in {mine[t], mine[t] \cup {cur[t]}}
      /\ \A u \in Threads : u # t => pc'[u] = pc[u] /\ cur'[u] = cur[u] /\ mine'[u] = mine[u]
      /\ UNCHANGED <<pool, next, gc, gcLock>>
    BY DEF TypeOK, Goto, Return, Local
<1>1. cur[t] \in Slots /\ Used(cur[t]) /\ ~Listed(cur[t])
    BY <1>0 DEF Allocating, Linking
<1>2. TypeOK'
    <2>1. /\ type' = type \/ \E ty \in Types : type' = [type EXCEPT ![cur[t]] = ty]
          /\ ptr' = ptr \/ ptr' = [ptr EXCEPT ![cur[t]] = TRUE]
          /\ heap' = heap \/ heap' = [heap EXCEPT ![cur[t]] = "live"]
        BY DEF Fill, Types
    <2>4. type' \in [Slots -> Types]
        BY <2>1, <1>1 DEF TypeOK
    <2>5. ptr' \in [Slots -> BOOLEAN]
        BY <2>1, <1>1 DEF TypeOK
    <2>6. heap' \in [Slots -> {"none", "live", "freed", "twice"}]
        BY <2>1, <1>1 DEF TypeOK
    <2>2. mine' \in [Threads -> SUBSET Slots]
        BY <1>1 DEF TypeOK
    <2>3. pc' \in [Threads -> Labels] /\ want' \in [Threads -> {"int", "str", "thread"}]
          /\ cur' \in [Threads -> Slots \cup {NoSlot}]
        BY DEF TypeOK, Goto, Return, Local, Labels
    <2> QED
        BY <1>0, <2>2, <2>3, <2>4, <2>5, <2>6 DEF TypeOK, pool, gc
<1>3. Mutex'
    BY <1>0 DEF Mutex, InSection
<1>4. /\ \A s : Used(s)' = Used(s)
      /\ \A s : Listed(s)' = Listed(s)
    BY <1>0 DEF Used, pool, Listed, gc
<1> HIDE DEF Fill
<1>5. Allocating'
    BY <1>0, <1>1, <1>4 DEF Allocating, pool
<1>6. HeldAreUsed'
    BY <1>0, <1>1, <1>4 DEF HeldAreUsed
<1>7. Linking'
    BY <1>0, <1>1, <1>4 DEF Linking, gc
<1>8. SlotsAreExclusive'
    BY <1>0 DEF SlotsAreExclusive, Building
<1>9. ListIsTracked' /\ Alone'
    BY <1>0 DEF ListIsTracked, gc, Alone, Threads
<1> QED
    BY <1>2, <1>3, <1>5, <1>6, <1>7, <1>8, <1>9

LEMMA TrackLockStep ==
    ASSUME IInv, NEW t \in Threads, TrackLock(t)
    PROVE  IInv'
<1> USE PoolAssumption DEF IInv, TrackLock, Goto
<1>0. /\ pc[t] = "track" /\ pc'[t] = "link"
      /\ \A u \in Threads : ~InSection(u)
      /\ \A u \in Threads : u # t => pc'[u] = pc[u]
      /\ UNCHANGED <<pool, gc, cur, mine>>
    BY DEF TypeOK, Mutex, InSection, Threads
<1>1. cur[t] \in Slots /\ Used(cur[t]) /\ ~Listed(cur[t])
    BY <1>0 DEF Allocating, Linking
<1>2. TypeOK'
    BY <1>1 DEF TypeOK, pool, gc, Labels
<1>3. Mutex'
    BY <1>0 DEF Mutex, InSection
<1>4. /\ \A s : Used(s)' = Used(s)
      /\ \A s : Listed(s)' = Listed(s)
    BY <1>0 DEF Used, pool, Listed, gc
<1>5. next'[cur[t]] = gcHead /\ \A s \in Slots : s # cur[t] => next'[s] = next[s]
    BY <1>1 DEF TypeOK
<1> HIDE DEF TrackLock
<1>6. Allocating'
    BY <1>0, <1>1, <1>4 DEF Allocating, pool
<1>7. HeldAreUsed'
    BY <1>0, <1>4 DEF HeldAreUsed
<1>8. Linking'
    BY <1>0, <1>1, <1>4, <1>5 DEF Linking, gc, InSection
<1>9. SlotsAreExclusive'
    BY <1>0 DEF SlotsAreExclusive, Building
<1>10. ListIsTracked'
    <2>1. \A n \in 1 .. Len(tracked) : tracked[n] \in Slots /\ tracked[n] # cur[t]
        BY <1>1 DEF Listed, TypeOK
    <2> QED
        BY <1>0, <1>5, <2>1 DEF ListIsTracked, gc
<1>11. Alone'
    BY <1>0 DEF Alone, Threads
<1> QED
    BY <1>2, <1>3, <1>6, <1>7, <1>8, <1>9, <1>10, <1>11

\* The new head is the newest object, and its next the head before it.
LEMMA TrackLinkStep ==
    ASSUME IInv, NEW t \in Threads, TrackLink(t)
    PROVE  IInv'
<1> USE PoolAssumption DEF IInv, TrackLink
<1>0. /\ pc[t] = "link" /\ pc'[t] \in {"run", "spawn"}
      /\ pc'[t] = "spawn" => mine' = mine /\ cur' = cur
      /\ mine'[t] \in {mine[t], mine[t] \cup {cur[t]}}
      /\ \A u \in Threads : u # t =>
            pc'[u] = pc[u] /\ cur'[u] = cur[u] /\ mine'[u] = mine[u] /\ ~InSection(u)
      /\ gcHead' = cur[t] /\ tracked' = Append(tracked, cur[t]) /\ gcLock' = NULL
      /\ UNCHANGED <<pool, next>>
    BY DEF TypeOK, Goto, Return, Local, Mutex, InSection, fields
<1>1. cur[t] \in Slots /\ Used(cur[t]) /\ ~Listed(cur[t]) /\ next[cur[t]] = gcHead
    BY <1>0 DEF Allocating, Linking
<1>2. TypeOK'
    <2>1. tracked' \in Seq(Slots) /\ gcHead' \in Slots
        BY <1>0, <1>1 DEF TypeOK
    <2>2. mine' \in [Threads -> SUBSET Slots]
        <3>1. mine' = mine \/ mine' = [mine EXCEPT ![t] = @ \cup {cur[t]}]
            OBVIOUS
        <3> QED
            BY <1>1, <3>1 DEF TypeOK
    <2>3. pc' \in [Threads -> Labels] /\ want' \in [Threads -> {"int", "str", "thread"}]
          /\ cur' \in [Threads -> Slots \cup {NoSlot}]
        BY DEF TypeOK, Goto, Return, Local, Labels
    <2> QED
        BY <1>0, <2>1, <2>2, <2>3 DEF TypeOK, pool, fields
<1>3. /\ Len(tracked) \in Nat /\ Len(tracked') = Len(tracked) + 1
      /\ tracked'[Len(tracked) + 1] = cur[t] /\ tracked' # <<>>
      /\ \A n \in 1 .. Len(tracked) : tracked'[n] = tracked[n] /\ tracked[n] # cur[t]
    BY <1>0, <1>1 DEF TypeOK, Listed
<1>4. \A s : Used(s)' = Used(s)
    BY <1>0 DEF Used, pool
<1>5. \A s : Listed(s)' <=> Listed(s) \/ s = cur[t]
    BY <1>3 DEF Listed
<1> HIDE DEF TrackLink
<1>6. Mutex'
    BY <1>0 DEF Mutex, InSection, Threads
<1>7. Allocating'
    BY <1>0, <1>1, <1>4 DEF Allocating, pool
<1>8. HeldAreUsed'
    BY <1>0, <1>1, <1>4 DEF HeldAreUsed
<1>9. Linking'
    <2>1. \A u \in Threads : pc'[u] \in {"fill", "track", "link"} => pc'[u] # "link" /\ cur'[u] # cur[t] /\ u # t
        BY <1>0 DEF SlotsAreExclusive, Building, InSection
    <2> QED
        BY <1>0, <1>1, <1>4, <1>5, <2>1 DEF Linking
<1>10. SlotsAreExclusive'
    BY <1>0 DEF SlotsAreExclusive, Building
<1>11. ListIsTracked'
    <2>1. gcHead' = tracked'[Len(tracked')]
        BY <1>0, <1>3
    <2>2. ASSUME NEW n \in 1 .. Len(tracked')
          PROVE  next'[tracked'[n]] = IF n = 1 THEN NoSlot ELSE tracked'[n - 1]
        <3>1. CASE n = Len(tracked) + 1
            <4>1. next'[tracked'[n]] = gcHead
                BY <1>0, <1>1, <1>3, <3>1
            <4>2. CASE tracked = <<>>
                BY <4>1, <4>2, <3>1 DEF ListIsTracked
            <4>3. CASE tracked # <<>>
                <5>1. Len(tracked) # 0 /\ n # 1 /\ n - 1 = Len(tracked)
                    BY <4>3, <3>1, <1>3 DEF TypeOK
                <5> QED
                    BY <4>1, <4>3, <5>1, <1>3 DEF ListIsTracked
            <4> QED
                BY <4>2, <4>3
        <3>2. CASE n \in 1 .. Len(tracked)
            <4>1. n # 1 => n - 1 \in 1 .. Len(tracked)
                BY <3>2, <1>3
            <4> QED
                BY <4>1, <3>2, <1>0, <1>3 DEF ListIsTracked
        <3> QED
            BY <3>1, <3>2, <1>3
    <2>3. \A m, n \in 1 .. Len(tracked') : tracked'[m] = tracked'[n] => m = n
        BY <1>3 DEF ListIsTracked
    <2> QED
        BY <1>3, <2>1, <2>2, <2>3 DEF ListIsTracked
<1>12. Alone'
    BY <1>0 DEF Alone, Threads
<1> QED
    BY <1>2, <1>6, <1>7, <1>8, <1>9, <1>10, <1>11, <1>12

-----------------------------------------------------------------------------
\* Threads and abs_cleanup.
LEMMA SpawnStep ==
    ASSUME IInv, NEW w \in Workers, Spawn(w)
    PROVE  IInv'
<1> USE PoolAssumption DEF IInv, Spawn
<1>0. /\ Main \in Threads /\ w \in Threads /\ pc[Main] = "spawn"
      /\ pc'[Main] = "run" /\ pc'[w] = "run"
      /\ \A u \in Threads : u \notin {Main, w} => pc'[u] = pc[u]
      /\ \A u \in Threads : u # Main => mine'[u] = mine[u] /\ cur'[u] = cur[u]
      /\ mine'[Main] = mine[Main] \cup {cur[Main]}
      /\ \A u \in Threads : InSection(u)' = InSection(u)
      /\ UNCHANGED <<pool, next, gc, gcLock>>
    BY DEF TypeOK, Local, Threads, InSection
<1>1. cur[Main] \in Slots /\ Used(cur[Main])
    BY <1>0 DEF Allocating
<1>2. TypeOK'
    <2>1. ptr' \in [Slots -> BOOLEAN] /\ heap' \in [Slots -> {"none", "live", "freed", "twice"}]
        BY <1>1 DEF TypeOK
    <2>2. object' \in [Workers -> Slots \cup {NoSlot}] /\ mine' \in [Threads -> SUBSET Slots]
        BY <1>1 DEF TypeOK
    <2>3. pc' \in [Threads -> Labels] /\ want' \in [Threads -> {"int", "str", "thread"}]
          /\ cur' \in [Threads -> Slots \cup {NoSlot}]
        BY DEF TypeOK, Local, Labels
    <2> QED
        BY <2>1, <2>2, <2>3 DEF TypeOK, pool, gc
<1>3. /\ \A s : Used(s)' = Used(s)
      /\ \A s : Listed(s)' = Listed(s)
    BY <1>0 DEF Used, pool, Listed, gc
<1> HIDE DEF Spawn
<1>4. Mutex'
    BY <1>0 DEF Mutex
<1>5. \A u \in Threads : pc'[u] \in {"take", "zero", "fill", "track", "link", "spawn"}
        => u \notin {Main, w} /\ pc[u] = pc'[u]
    BY <1>0
<1>6. Allocating'
    BY <1>0, <1>3, <1>5 DEF Allocating, pool
<1>7. HeldAreUsed'
    BY <1>0, <1>1, <1>3 DEF HeldAreUsed
<1>8. Linking'
    BY <1>0, <1>3, <1>5 DEF Linking, gc
<1>9. SlotsAreExclusive'
    BY <1>0, <1>5 DEF SlotsAreExclusive, Building
<1>10. ListIsTracked' /\ Alone'
    BY <1>0 DEF ListIsTracked, gc, Alone
<1> QED
    BY <1>2, <1>4, <1>6, <1>7, <1>8, <1>9, <1>10

LEMMA SpawnFailsStep ==
    ASSUME IInv, SpawnFails
    PROVE  IInv'
<1> USE PoolAssumption DEF IInv, SpawnFails
<1>0. /\ Main \in Threads /\ pc[Main] = "spawn" /\ pc'[Main] = "alloc"
      /\ \A u \in Threads : u # Main => pc'[u] = pc[u] /\ cur'[u] = cur[u]
      /\ \A u \in Threads : InSection(u)' = InSection(u)
      /\ UNCHANGED <<pool, next, gc, gcLock, mine>>
    BY DEF TypeOK, Goto, Local, Threads, InSection, fields
<1>1. TypeOK'
    BY QuietTypes
<1>2. /\ \A s : Used(s)' = Used(s)
      /\ \A s : Listed(s)' = Listed(s)
    BY <1>0 DEF Used, pool, Listed, gc
<1> HIDE DEF SpawnFails
<1>3. Mutex'
    BY <1>0 DEF Mutex
<1>4. Allocating' /\ HeldAreUsed'
    BY <1>0, <1>2 DEF Allocating, HeldAreUsed, pool
<1>5. Linking'
    BY <1>0, <1>2 DEF Linking, gc
<1>6. SlotsAreExclusive'
    BY <1>0 DEF SlotsAreExclusive, Building
<1>7. ListIsTracked' /\ Alone'
    BY <1>0 DEF ListIsTracked, gc, Alone
<1> QED
    BY <1>1, <1>3, <1>4, <1>5, <1>6, <1>7

LEMMA JoinStep ==
    ASSUME IInv, NEW w \in Workers, Join(w)
    PROVE  IInv'
<1> USE PoolAssumption DEF IInv, Join, Goto
<1>0. /\ Main \in Threads /\ w \in Threads /\ Main # w
      /\ pc[Main] = "run" /\ pc'[Main] = "run" /\ pc[w] = "done" /\ pc'[w] = "joined"
      /\ \A u \in Threads : u # w => pc'[u] = pc[u]
      /\ \A u \in Threads : u \notin {Main, w} => mine'[u] = mine[u]
      /\ mine'[Main] = mine[Main] \cup mine[w] /\ mine'[w] = {}
      /\ UNCHANGED <<pool, next, gc, gcLock, cur>>
    BY DEF TypeOK, Threads, fields
<1>1. TypeOK'
    BY DEF TypeOK, Threads, Labels, pool, fields, gc
<1>2. /\ \A s : Used(s)' = Used(s)
      /\ \A s : Listed(s)' = Listed(s)
    BY <1>0 DEF Used, pool, Listed, gc
<1> HIDE DEF Join
<1>3. Mutex'
    BY <1>0 DEF Mutex, InSection
<1>4. Allocating'
    BY <1>0, <1>2 DEF Allocating, pool
<1>5. HeldAreUsed'
    BY <1>0, <1>2 DEF HeldAreUsed
<1>6. Linking'
    BY <1>0, <1>2 DEF Linking, gc
<1>7. SlotsAreExclusive'
    <2>1. \A u \in Threads : Building(u)' => u \notin {Main, w} /\ Building(u)
        BY <1>0 DEF Building
    <2> QED
        BY <1>0, <2>1 DEF SlotsAreExclusive, Building
<1>8. ListIsTracked' /\ Alone'
    BY <1>0 DEF ListIsTracked, gc, Alone
<1> QED
    BY <1>1, <1>3, <1>4, <1>5, <1>6, <1>7, <1>8

\* No worker holds the mutex when the blocks go.
LEMMA FreeBlocksStep ==
    ASSUME IInv, FreeBlocks
    PROVE  IInv'
<1> USE PoolAssumption DEF IInv, FreeBlocks
<1>0. /\ \A u \in Threads : ~InSection(u) /\ pc'[u] \in {"idle", "run"} /\ mine'[u] = {}
      /\ pc'[Main] = "run" /\ Main \in Threads
      /\ gcLock' = gcLock /\ tracked' = <<>> /\ gcHead' = NoSlot
    BY DEF Alone, InSection, Threads
<1>1. TypeOK'
    BY DEF TypeOK, Types, Labels, Threads
<1> HIDE DEF FreeBlocks
<1>2. Mutex'
    BY <1>0 DEF Mutex, InSection
<1>3. Allocating' /\ HeldAreUsed' /\ SlotsAreExclusive' /\ Alone'
    BY <1>0 DEF Allocating, HeldAreUsed, SlotsAreExclusive, Building, Alone
<1>4. Linking' /\ ListIsTracked'
    <2>1. 1 .. Len(tracked') = {}
        BY <1>0
    <2>2. \A s : ~Listed(s)'
        BY <2>1 DEF Listed
    <2> QED
        BY <1>0, <2>1, <2>2 DEF Linking, ListIsTracked
<1> QED
    BY <1>1, <1>2, <1>3, <1>4

-----------------------------------------------------------------------------
LEMMA NextInv == IInv /\ [Next]_vars => IInv'
<1> SUFFICES ASSUME IInv, [Next]_vars PROVE IInv'
    OBVIOUS
<1>1. CASE \E t \in Threads, ty \in {"int", "str", "thread"} : New(t, ty)
    BY <1>1, QuietStep
<1>2. ASSUME NEW t \in Threads, Construct(t) PROVE IInv'
    <2>1. CASE AllocFails(t)
        BY <2>1, QuietStep
    <2> QED
        BY <1>2, <2>1, AllocLockStep, AllocTakeStep, AllocZeroStep, FillStep, TrackLockStep,
           TrackLinkStep DEF Construct
<1>3. CASE \E t \in Threads, s \in Slots : Del(t, s)
    BY <1>3, QuietStep
<1>4. ASSUME NEW w \in Workers, Spawn(w) \/ WorkerReturns(w) \/ Join(w) PROVE IInv'
    <2>1. CASE WorkerReturns(w)
        BY <2>1, QuietStep
    <2> QED
        BY <1>4, <2>1, SpawnStep, JoinStep
<1>5. CASE SpawnFails
    BY <1>5, SpawnFailsStep
<1>6. CASE Cleanup \/ Sweep
    BY <1>6, QuietStep
<1>7. CASE FreeBlocks
    BY <1>7, FreeBlocksStep
<1>8. CASE UNCHANGED vars
    <2>1. TypeOK' /\ Mutex' /\ Alone'
        BY <1>8 DEF IInv, vars, pool, fields, gc, TypeOK, Mutex, InSection, Alone
    <2> QED
        BY <1>8, <2>1, Quiet DEF IInv, vars, fields
<1> QED
    BY <1>1, <1>2, <1>3, <1>4, <1>5, <1>6, <1>7, <1>8 DEF Next

\* The pool and the gc list are sound at every step of every interleaving:
\* no slot is handed out twice, and the list is the objects linked so far,
\* newest first (pool_alloc, track_dynamic, thread_start, abs_cleanup).
THEOREM AlwaysSound == Spec => []Consistent
<1>1. IInv => Consistent
    BY DEF IInv, Consistent
<1> QED
    BY InitInv, NextInv, <1>1, PTL DEF Spec

-----------------------------------------------------------------------------
\* What free_internals has to free in an object.
Owns(s) == type[s] \in {"str", "thread"} /\ ptr[s]
OnItsWay(s) == \E t \in Threads : pc[t] \in {"track", "link"} /\ cur[t] = s

\* A live payload can be reached, through its object, from the gc list.
Reachable == \A s \in Slots : heap[s] = "live" => Owns(s) /\ (Listed(s) \/ OnItsWay(s))

\* Until abs_cleanup no object points at a payload that is gone.
NoDangling == pc[Main] # "sweep" => \A s \in Slots : Owns(s) => heap[s] = "live"

\* A thread object on its way has no handle yet, nor any object before "fill".
Fresh(s) == heap[s] = "none" /\ ~ptr[s]
Filling ==
    /\ \A s \in Slots : ~Used(s) => heap[s] = "none"
    /\ \A t \in Threads : pc[t] = "fill" => Fresh(cur[t])
    /\ \A t \in Threads : pc[t] \in {"track", "link", "spawn"} /\ want[t] = "thread" =>
            Fresh(cur[t]) /\ type[cur[t]] = "thread"
    /\ \A t \in Threads : pc[t] = "spawn" => want[t] = "thread" /\ Listed(cur[t])

\* abs_cleanup stands before the k-th object: the payloads of the later ones
\* are gone, those of the others still there.
SweptTo(k) ==
    /\ sweep = IF k = 0 THEN NoSlot ELSE tracked[k]
    /\ \A n \in 1 .. Len(tracked) :
         IF n > k THEN heap[tracked[n]] # "live" ELSE Owns(tracked[n]) => heap[tracked[n]] = "live"
Sweeping == pc[Main] = "sweep" => \E k \in 0 .. Len(tracked) : SweptTo(k)

Payloads == Reachable /\ NoDangling /\ Filling /\ Sweeping /\ FreedOnce

LEMMA InitPayloads == Init => Payloads
<1> SUFFICES ASSUME Init PROVE Payloads
    OBVIOUS
<1>1. pc[Main] = "run" /\ \A t \in Threads : pc[t] \in {"run", "idle"}
    BY PoolAssumption DEF Init, Threads
<1>2. \A s \in Slots : heap[s] = "none" /\ ~ptr[s]
    BY DEF Init
<1> QED
    BY <1>1, <1>2 DEF Payloads, Reachable, NoDangling, Filling, Sweeping, FreedOnce, Owns

\* Steps that touch no payload and no object that has one.
LEMMA Untouched ==
    ASSUME IInv, Payloads, UNCHANGED <<type, ptr, heap, tracked, sweep>>,
           \A s \in Slots : Used(s) => Used(s)',
           pc'[Main] = "sweep" <=> pc[Main] = "sweep",
           \A t \in Threads : pc[t] \in {"track", "link"} <=> pc'[t] \in {"track", "link"},
           \A t \in Threads : pc'[t] \in {"fill", "spawn"} => pc[t] = pc'[t],
           \A t \in Threads : pc'[t] \in {"fill", "track", "link", "spawn"} =>
                cur'[t] = cur[t] /\ want'[t] = want[t]
    PROVE  Payloads'
<1> USE DEF Payloads
<1>1. /\ \A s : Owns(s)' = Owns(s) /\ Listed(s)' = Listed(s) /\ Fresh(s)' = Fresh(s)
      /\ \A s : OnItsWay(s) => OnItsWay(s)'
    BY DEF Owns, Listed, OnItsWay, Fresh
<1>2. Reachable' /\ NoDangling' /\ FreedOnce'
    BY <1>1 DEF Reachable, NoDangling, FreedOnce
<1>3. Filling'
    <2>1. \A s \in Slots : ~Used(s)' => heap'[s] = "none"
        BY DEF Filling
    <2>2. \A t \in Threads : pc'[t] = "fill" => Fresh(cur[t])'
        BY <1>1 DEF Filling, Fresh
    <2>3. \A t \in Threads : pc'[t] \in {"track", "link", "spawn"} /\ want'[t] = "thread" =>
            Fresh(cur[t])' /\ type'[cur'[t]] = "thread"
        BY <1>1 DEF Filling, Fresh
    <2>4. \A t \in Threads : pc'[t] = "spawn" => want'[t] = "thread" /\ Listed(cur[t])'
        BY <1>1 DEF Filling, Listed
    <2> QED
        BY <2>1, <2>2, <2>3, <2>4 DEF Filling
<1>4. Sweeping'
    BY <1>1 DEF Sweeping, SweptTo, Owns
<1> QED
    BY <1>2, <1>3, <1>4

LEMMA UntouchedSteps ==
    ASSUME IInv, Payloads,
           \/ \E t \in Threads, ty \in {"int", "str", "thread"} : New(t, ty)
           \/ \E t \in Threads : AllocLock(t) \/ AllocFails(t) \/ AllocTake(t) \/ TrackLock(t)
           \/ \E w \in Workers : WorkerReturns(w) \/ Join(w)
           \/ SpawnFails \/ UNCHANGED vars
    PROVE  Payloads'
<1> USE PoolAssumption DEF Threads, Goto, Local, Return, pool, fields, gc
<1>0. TypeOK
    BY DEF IInv
<1>1. ASSUME NEW t \in Threads, NEW ty \in {"int", "str", "thread"}, New(t, ty) PROVE Payloads'
    <2>1. \A s : Used(s)' = Used(s)
        BY <1>1 DEF New, Used
    <2> QED
        BY <1>0, <1>1, <2>1, Untouched DEF New, TypeOK
<1>2. ASSUME NEW t \in Threads, AllocLock(t) PROVE Payloads'
    <2>1. \A s \in Slots : Used(s) => Used(s)'
        BY <1>0, <1>2, UsedGrows
    <2> QED
        BY <1>0, <1>2, <2>1, Untouched DEF AllocLock, TypeOK
<1>3. ASSUME NEW t \in Threads, AllocFails(t) PROVE Payloads'
    <2>1. \A s : Used(s)' = Used(s)
        BY <1>3 DEF AllocFails, Used
    <2>2. /\ pc[t] = "alloc" /\ pc'[t] \in {"alloc", "run"}
          /\ \A u \in Threads : u # t => pc'[u] = pc[u] /\ cur'[u] = cur[u] /\ want'[u] = want[u]
          /\ UNCHANGED <<type, ptr, heap, tracked, sweep>>
        BY <1>0, <1>3 DEF AllocFails, TypeOK
    <2> QED
        BY <2>1, <2>2, Untouched
<1>4. ASSUME NEW t \in Threads, AllocTake(t) PROVE Payloads'
    <2>1. \A s : Used(s)' = Used(s)
        BY <1>4 DEF AllocTake, Used
    <2> QED
        BY <1>0, <1>4, <2>1, Untouched DEF AllocTake, TypeOK
<1>5. ASSUME NEW t \in Threads, TrackLock(t) PROVE Payloads'
    <2>1. \A s : Used(s)' = Used(s)
        BY <1>5 DEF TrackLock, Used
    <2> QED
        BY <1>0, <1>5, <2>1, Untouched DEF TrackLock, TypeOK
<1>6. ASSUME NEW w \in Workers, WorkerReturns(w) \/ Join(w) PROVE Payloads'
    <2>1. \A s : Used(s)' = Used(s)
        BY <1>6 DEF WorkerReturns, Join, Used
    <2> QED
        BY <1>0, <1>6, <2>1, Untouched DEF WorkerReturns, Join, TypeOK
<1>7. CASE SpawnFails
    <2>1. \A s : Used(s)' = Used(s)
        BY <1>7 DEF SpawnFails, Used
    <2> QED
        BY <1>0, <1>7, <2>1, Untouched DEF SpawnFails, TypeOK
<1>8. CASE UNCHANGED vars
    <2>1. \A s : Used(s)' = Used(s)
        BY <1>8 DEF vars, Used
    <2> QED
        BY <1>8, <2>1, Untouched DEF vars
<1> QED
    BY <1>1, <1>2, <1>3, <1>4, <1>5, <1>6, <1>7, <1>8

LEMMA ZeroPayloads ==
    ASSUME IInv, Payloads, NEW t \in Threads, AllocZero(t)
    PROVE  Payloads'
<1> USE PoolAssumption DEF Payloads
<1>0. /\ pc[t] = "zero" /\ pc'[t] = "fill" /\ cur[t] = <<blocks, poolIndex>>
      /\ \A u \in Threads : u # t => pc'[u] = pc[u]
      /\ UNCHANGED <<heap, tracked, gcHead, want, cur, sweep>>
      /\ Main \in Threads
    BY DEF IInv, TypeOK, Allocating, AllocZero, Goto, gc, Threads
<1>1. cur[t] \in Slots /\ ~Used(cur[t]) /\ heap[cur[t]] = "none"
    <2>1. cur[t] \in Slots /\ ~Used(cur[t])
        BY <1>0 DEF IInv, TypeOK, Allocating, Slots, Used
    <2> QED
        BY <2>1 DEF Filling
<1>2. /\ ~ptr'[cur[t]]
      /\ \A s \in Slots : s # cur[t] => type'[s] = type[s] /\ ptr'[s] = ptr[s]
    BY <1>1 DEF IInv, TypeOK, AllocZero
<1>3. /\ \A s \in Slots : s # cur[t] => Owns(s)' = Owns(s) /\ Fresh(s)' = Fresh(s)
      /\ ~Owns(cur[t])' /\ Fresh(cur[t])'
      /\ \A s : Listed(s)' = Listed(s)
      /\ \A s : OnItsWay(s) => OnItsWay(s)'
    BY <1>0, <1>1, <1>2 DEF Owns, Fresh, Listed, OnItsWay
<1>4. \A s \in Slots : Used(s) => Used(s)'
    BY UsedGrows DEF IInv
<1>5. Reachable' /\ FreedOnce'
    BY <1>0, <1>1, <1>3 DEF Reachable, FreedOnce
<1>6. NoDangling'
    BY <1>0, <1>3 DEF NoDangling
<1>7. Filling'
    <2>1. \A s \in Slots : ~Used(s)' => heap'[s] = "none"
        BY <1>0, <1>4 DEF Filling
    <2>2. \A u \in Threads : u # t /\ pc[u] \in {"fill", "track", "link", "spawn"} =>
            cur[u] \in Slots /\ cur[u] # cur[t]
        BY <1>0, <1>1 DEF IInv, Allocating
    <2>3. \A u \in Threads : u # t /\ pc[u] \in {"fill", "track", "link", "spawn"} =>
            Fresh(cur[u])' = Fresh(cur[u]) /\ type'[cur'[u]] = type[cur[u]]
        BY <1>0, <1>2, <1>3, <2>2 DEF Fresh
    <2>4. Fresh(cur[t])'
        BY <1>0, <1>1, <1>2 DEF Fresh
    <2>5. \A u \in Threads : Listed(cur[u])' = Listed(cur[u])
        BY <1>0 DEF Listed
    <2> QED
        BY <1>0, <2>1, <2>3, <2>4, <2>5 DEF Filling
<1>8. Sweeping'
    <2>1. pc'[Main] # "sweep"
        BY <1>0 DEF IInv, Alone, Threads
    <2> QED
        BY <2>1 DEF Sweeping
<1> QED
    BY <1>5, <1>6, <1>7, <1>8

\* A live payload appears under its object, on the way to the list.
LEMMA FillPayloads ==
    ASSUME IInv, Payloads, NEW t \in Threads, Fill(t), NEW s, s = cur[t]
    PROVE  Payloads'
<1> USE PoolAssumption DEF Payloads
<1>0. /\ pc[t] = "fill" /\ pc'[t] \in {"run", "track"}
      /\ \A u \in Threads : u # t => pc'[u] = pc[u] /\ cur'[u] = cur[u] /\ want'[u] = want[u]
      /\ UNCHANGED <<blocks, poolIndex, tracked, sweep>>
      /\ Main \in Threads
    BY DEF IInv, TypeOK, Fill, Goto, Return, Local, gc, pool, Threads
<1>1. s \in Slots /\ Used(s) /\ Fresh(s)
    BY <1>0 DEF IInv, Allocating, Filling
<1>2. \A q \in Slots : q # s => type'[q] = type[q] /\ ptr'[q] = ptr[q] /\ heap'[q] = heap[q]
    BY <1>1 DEF IInv, TypeOK, Fill
<1>3. \/ heap'[s] = "none" /\ ~ptr'[s] /\ pc'[t] = "run"
      \/ /\ heap'[s] = "live" /\ ptr'[s] /\ type'[s] = "str"
         /\ pc'[t] = "track" /\ cur'[t] = s /\ want'[t] = "str"
      \/ /\ heap'[s] = "none" /\ ~ptr'[s] /\ type'[s] = "thread"
         /\ pc'[t] = "track" /\ cur'[t] = s /\ want'[t] = "thread"
    BY <1>1 DEF IInv, TypeOK, Fill, Goto, Return, Local, Fresh
<1>4. /\ \A q : Used(q)' = Used(q) /\ Listed(q)' = Listed(q)
      /\ \A q \in Slots : q # s => Owns(q)' = Owns(q) /\ Fresh(q)' = Fresh(q)
      /\ \A q : OnItsWay(q) => OnItsWay(q)'
    BY <1>0, <1>2 DEF Used, Listed, Owns, Fresh, OnItsWay
<1>5. Reachable'
    <2>1. heap'[s] = "live" => Owns(s)' /\ OnItsWay(s)'
        BY <1>0, <1>3 DEF Owns, OnItsWay
    <2> QED
        BY <1>2, <1>4, <2>1 DEF Reachable
<1>6. NoDangling' /\ FreedOnce'
    <2>1. Owns(s)' => heap'[s] = "live"
        BY <1>3 DEF Owns
    <2>2. heap'[s] # "twice"
        BY <1>3
    <2> QED
        BY <1>0, <1>2, <1>4, <2>1, <2>2 DEF NoDangling, FreedOnce
<1>7. Filling'
    <2>1. \A q \in Slots : ~Used(q)' => heap'[q] = "none"
        BY <1>1, <1>2, <1>4 DEF Filling
    <2>2. \A u \in Threads : u # t /\ pc[u] \in {"fill", "track", "link", "spawn"} =>
            cur[u] \in Slots /\ cur[u] # s
        BY <1>0 DEF IInv, Allocating, SlotsAreExclusive, Building
    <2>3. \A u \in Threads : u # t /\ pc[u] \in {"fill", "track", "link", "spawn"} =>
            Fresh(cur[u])' = Fresh(cur[u]) /\ type'[cur'[u]] = type[cur[u]]
        BY <1>0, <1>2, <2>2 DEF Fresh
    <2>4. pc'[t] = "track" /\ want'[t] = "thread" => Fresh(cur[t])' /\ type'[cur'[t]] = "thread"
        BY <1>3 DEF Fresh
    <2>5. \A u \in Threads : u # t => Listed(cur[u])' = Listed(cur[u])
        BY <1>0 DEF Listed
    <2> QED
        BY <1>0, <2>1, <2>3, <2>4, <2>5 DEF Filling
<1>8. Sweeping'
    <2>1. pc'[Main] # "sweep"
        BY <1>0 DEF IInv, Alone, Threads
    <2> QED
        BY <2>1 DEF Sweeping
<1> QED
    BY <1>5, <1>6, <1>7, <1>8

LEMMA LinkPayloads ==
    ASSUME IInv, Payloads, NEW t \in Threads, TrackLink(t)
    PROVE  Payloads'
<1> USE PoolAssumption DEF Payloads
<1>0. /\ pc[t] = "link" /\ pc'[t] \in {"run", "spawn"}
      /\ pc'[t] = "spawn" => want[t] = "thread" /\ want'[t] = "thread" /\ cur'[t] = cur[t]
      /\ \A u \in Threads : u # t => pc'[u] = pc[u] /\ cur'[u] = cur[u] /\ want'[u] = want[u]
      /\ tracked' = Append(tracked, cur[t])
      /\ UNCHANGED <<blocks, poolIndex, type, ptr, heap, sweep>>
      /\ Main \in Threads
    BY DEF IInv, TypeOK, TrackLink, Goto, Return, Local, fields, pool, Threads
<1>1. cur[t] \in Slots
    BY <1>0 DEF IInv, Allocating
<1>2. \A s : Listed(s)' <=> Listed(s) \/ s = cur[t]
    <2>1. /\ Len(tracked) \in Nat /\ Len(tracked') = Len(tracked) + 1
          /\ tracked'[Len(tracked) + 1] = cur[t]
          /\ \A n \in 1 .. Len(tracked) : tracked'[n] = tracked[n]
        BY <1>0, <1>1 DEF IInv, TypeOK
    <2> QED
        BY <2>1 DEF Listed
<1>3. /\ \A s : Used(s)' = Used(s) /\ Owns(s)' = Owns(s) /\ Fresh(s)' = Fresh(s)
      /\ \A s : OnItsWay(s) => OnItsWay(s)' \/ s = cur[t]
    BY <1>0 DEF Used, Owns, Fresh, OnItsWay
<1>4. Reachable' /\ FreedOnce'
    BY <1>0, <1>2, <1>3 DEF Reachable, FreedOnce
<1>5. NoDangling' /\ Sweeping'
    <2>1. pc[Main] # "sweep" /\ pc'[Main] # "sweep"
        BY <1>0 DEF IInv, Alone, Threads
    <2> QED
        BY <1>0, <1>3, <2>1 DEF NoDangling, Sweeping
<1>6. Filling'
    <2>1. \A u \in Threads : u # t => Fresh(cur[u])' = Fresh(cur[u])
        BY <1>0 DEF Fresh
    <2>2. pc'[t] = "spawn" => Fresh(cur[t])' = Fresh(cur[t]) /\ cur'[t] = cur[t]
        BY <1>0 DEF Fresh
    <2>3. \A u \in Threads : u # t => (Listed(cur[u]) => Listed(cur[u])')
        <3>1. \A u \in Threads : u # t => Listed(cur[u])' <=> Listed(cur[u]) \/ cur[u] = cur[t]
            <4> SUFFICES ASSUME NEW u \in Threads, u # t
                         PROVE  Listed(cur[u])' <=> Listed(cur[u]) \/ cur[u] = cur[t]
                OBVIOUS
            <4>1. Listed(cur[u])' <=> \E n \in 1 .. Len(tracked') : tracked'[n] = cur[u]
                BY <1>0 DEF Listed
            <4> QED
                BY <1>2, <4>1 DEF Listed
        <3> QED
            BY <3>1
    <2>4. pc'[t] = "spawn" => Listed(cur[t])'
        <3>1. pc'[t] = "spawn" => (Listed(cur[t])' <=> \E n \in 1 .. Len(tracked') : tracked'[n] = cur[t])
            BY <1>0 DEF Listed
        <3> QED
            BY <1>2, <3>1 DEF Listed
    <2>5. \A s \in Slots : ~Used(s)' => heap'[s] = "none"
        BY <1>0, <1>3 DEF Filling
    <2> QED
        BY <1>0, <2>1, <2>2, <2>3, <2>4, <2>5 DEF Filling
<1> QED
    BY <1>4, <1>5, <1>6

\* del frees what its object owns, and the object then owns nothing.
LEMMA DelPayloads ==
    ASSUME IInv, Payloads, NEW t \in Threads, NEW s \in Slots, Del(t, s)
    PROVE  Payloads'
<1> USE PoolAssumption DEF Payloads
<1>0. /\ pc[t] = "run" /\ pc[Main] # "sweep" /\ s \in mine[t] /\ type'[s] = "none"
      /\ \A q \in Slots : q # s => type'[q] = type[q] /\ heap'[q] = heap[q]
      /\ UNCHANGED <<ptr, blocks, poolIndex, tracked, pc, cur, want>>
    BY DEF IInv, TypeOK, Del, FreeInternals, Alone, Threads, pool, gc
<1>1. heap'[s] \in {heap[s], "freed"} /\ heap'[s] # "live" /\ heap'[s] # "twice"
    <2>1. Owns(s) => heap[s] = "live"
        BY <1>0 DEF NoDangling
    <2>2. ~Owns(s) => heap[s] # "live"
        BY DEF Reachable
    <2>3. heap[s] # "twice"
        BY DEF FreedOnce
    <2>4. heap' = IF Owns(s) THEN [heap EXCEPT ![s] = IF @ = "live" THEN "freed" ELSE "twice"] ELSE heap
        BY DEF Del, FreeInternals, Owns
    <2> QED
        BY <2>1, <2>2, <2>3, <2>4 DEF IInv, TypeOK
<1>2. Used(s)
    BY <1>0 DEF IInv, HeldAreUsed
<1>3. \A u \in Threads : pc[u] \in {"fill", "track", "link", "spawn"} => cur[u] \in Slots /\ cur[u] # s
    BY <1>0 DEF IInv, Allocating, SlotsAreExclusive, Building
<1>4. /\ \A q : Used(q)' = Used(q) /\ Listed(q)' = Listed(q) /\ OnItsWay(q)' = OnItsWay(q)
      /\ \A q \in Slots : q # s => Owns(q)' = Owns(q)
      /\ ~Owns(s)'
    BY <1>0 DEF Used, Listed, OnItsWay, Owns
<1>5. Reachable' /\ NoDangling' /\ FreedOnce'
    BY <1>0, <1>1, <1>4 DEF Reachable, NoDangling, FreedOnce
<1>6. Filling'
    <2>1. \A u \in Threads : pc[u] \in {"fill", "track", "link", "spawn"} =>
            Fresh(cur[u])' = Fresh(cur[u]) /\ type'[cur'[u]] = type[cur[u]]
        BY <1>0, <1>3 DEF Fresh
    <2>2. \A u \in Threads : Listed(cur[u])' = Listed(cur[u])
        BY <1>0 DEF Listed
    <2>3. \A q \in Slots : ~Used(q)' => heap'[q] = "none"
        BY <1>0, <1>2, <1>4 DEF Filling
    <2> QED
        BY <1>0, <2>1, <2>2, <2>3 DEF Filling
<1>7. Sweeping'
    BY <1>0 DEF Sweeping
<1> QED
    BY <1>5, <1>6, <1>7

LEMMA SpawnPayloads ==
    ASSUME IInv, Payloads, NEW w \in Workers, Spawn(w), NEW s, s = cur[Main]
    PROVE  Payloads'
<1> USE PoolAssumption DEF Payloads
<1>0. /\ Main \in Threads /\ pc[Main] = "spawn" /\ pc'[Main] = "run" /\ pc'[w] = "run" /\ pc[w] = "idle"
      /\ \A u \in Threads : u \notin {Main, w} => pc'[u] = pc[u]
      /\ \A u \in Threads : u # Main => cur'[u] = cur[u] /\ want'[u] = want[u]
      /\ UNCHANGED <<type, blocks, poolIndex, tracked>>
    BY DEF IInv, TypeOK, Spawn, Local, Threads, pool, gc
<1>1. s \in Slots /\ Used(s) /\ Listed(s) /\ type[s] = "thread" /\ Fresh(s)
    BY <1>0 DEF IInv, Allocating, Filling
<1>2. /\ ptr'[s] /\ heap'[s] = "live"
      /\ \A q \in Slots : q # s => ptr'[q] = ptr[q] /\ heap'[q] = heap[q]
    BY <1>1 DEF IInv, TypeOK, Spawn
<1>3. \A u \in Threads : pc'[u] \in {"fill", "track", "link", "spawn"} =>
        u \notin {Main, w} /\ pc[u] = pc'[u] /\ cur[u] \in Slots /\ cur[u] # s
    BY <1>0 DEF IInv, Allocating, SlotsAreExclusive, Building
<1>4. /\ \A q : Used(q)' = Used(q) /\ Listed(q)' = Listed(q)
      /\ \A q \in Slots : q # s => Owns(q)' = Owns(q)
      /\ Owns(s)'
      /\ \A q : OnItsWay(q) => OnItsWay(q)'
    BY <1>0, <1>1, <1>2 DEF Used, Listed, OnItsWay, Owns
<1>5. Reachable' /\ NoDangling' /\ FreedOnce'
    BY <1>0, <1>1, <1>2, <1>4 DEF Reachable, NoDangling, FreedOnce
<1>6. Filling'
    <2>1. \A u \in Threads : pc'[u] \in {"fill", "track", "link", "spawn"} =>
            Fresh(cur[u])' = Fresh(cur[u]) /\ type'[cur'[u]] = type[cur[u]]
        BY <1>0, <1>2, <1>3 DEF Fresh
    <2>2. \A u \in Threads : u # Main => Listed(cur[u])' = Listed(cur[u])
        BY <1>0 DEF Listed
    <2>3. \A q \in Slots : ~Used(q)' => heap'[q] = "none"
        BY <1>1, <1>2, <1>4 DEF Filling
    <2> QED
        BY <1>0, <1>3, <2>1, <2>2, <2>3 DEF Filling
<1>7. Sweeping'
    BY <1>0 DEF Sweeping
<1> QED
    BY <1>5, <1>6, <1>7

\* Nothing is on its way when abs_cleanup starts: all live payloads are listed.
LEMMA CleanupPayloads ==
    ASSUME IInv, Payloads, Cleanup
    PROVE  Payloads'
<1> USE PoolAssumption DEF Payloads
<1>0. /\ Main \in Threads /\ pc[Main] = "run" /\ pc'[Main] = "sweep" /\ sweep' = gcHead
      /\ \A u \in Threads : u # Main => pc'[u] = pc[u]
      /\ UNCHANGED <<blocks, poolIndex, type, ptr, heap, tracked, want, cur>>
    BY DEF IInv, TypeOK, Cleanup, Goto, Threads, pool, fields, gc
<1>1. /\ \A q : Used(q)' = Used(q) /\ Listed(q)' = Listed(q) /\ Owns(q)' = Owns(q) /\ Fresh(q)' = Fresh(q)
      /\ \A q : OnItsWay(q) => OnItsWay(q)'
    BY <1>0 DEF Used, Listed, OnItsWay, Owns, Fresh
<1>2. Reachable' /\ NoDangling' /\ FreedOnce'
    BY <1>0, <1>1 DEF Reachable, NoDangling, FreedOnce
<1>3. Filling'
    <2>1. \A u \in Threads : Fresh(cur[u])' = Fresh(cur[u]) /\ Listed(cur[u])' = Listed(cur[u])
        BY <1>0 DEF Fresh, Listed
    <2>2. \A u \in Threads : pc'[u] \in {"fill", "track", "link", "spawn"} => pc[u] = pc'[u]
        BY <1>0
    <2> QED
        BY <1>0, <1>1, <2>1, <2>2 DEF Filling
<1>4. Sweeping'
    <2>1. Len(tracked) \in Nat /\ \A n \in 1 .. Len(tracked) : tracked[n] \in Slots
        BY DEF IInv, TypeOK
    <2>2. \A n \in 1 .. Len(tracked) : Owns(tracked[n]) => heap[tracked[n]] = "live"
        BY <1>0, <2>1 DEF NoDangling
    <2>3. sweep' = IF Len(tracked) = 0 THEN NoSlot ELSE tracked[Len(tracked)]
        BY <1>0, <2>1 DEF IInv, ListIsTracked, TypeOK
    <2>4. SweptTo(Len(tracked))'
        BY <1>0, <2>1, <2>2, <2>3 DEF SweptTo, Owns
    <2>5. Len(tracked) \in 0 .. Len(tracked')
        BY <1>0, <2>1
    <2> QED
        BY <1>0, <2>1, <2>4, <2>5 DEF Sweeping, SweptTo, Owns
<1> QED
    BY <1>2, <1>3, <1>4

\* abs_cleanup frees what the object before which it stands owns, once.
LEMMA SweepPayloads ==
    ASSUME IInv, Payloads, Sweep
    PROVE  Payloads'
<1> USE PoolAssumption DEF Payloads
<1>0. /\ pc[Main] = "sweep" /\ sweep # NoSlot /\ sweep' = next[sweep]
      /\ UNCHANGED <<blocks, poolIndex, type, ptr, tracked, pc, cur, want>>
    BY DEF Sweep, pool, gc
<1>1. /\ Len(tracked) \in Nat
      /\ \A n \in 1 .. Len(tracked) : tracked[n] \in Slots
      /\ \A m, n \in 1 .. Len(tracked) : tracked[m] = tracked[n] => m = n
    BY DEF IInv, TypeOK, ListIsTracked
<1>2. PICK k \in 1 .. Len(tracked) : SweptTo(k) /\ sweep = tracked[k]
    BY <1>0, <1>1 DEF Sweeping, SweptTo
<1>3. PICK s \in Slots : s = tracked[k] /\ s = sweep
    BY <1>1, <1>2
<1>4. heap' = IF Owns(s) THEN [heap EXCEPT ![s] = IF @ = "live" THEN "freed" ELSE "twice"] ELSE heap
    BY <1>3 DEF Sweep, FreeInternals, Owns
<1>5. heap'[s] \in {heap[s], "freed"} /\ heap'[s] # "live" /\ heap'[s] # "twice"
    <2>1. Owns(s) => heap[s] = "live"
        BY <1>1, <1>2, <1>3 DEF SweptTo
    <2>2. ~Owns(s) => heap[s] # "live"
        BY DEF Reachable
    <2>3. heap[s] # "twice"
        BY DEF FreedOnce
    <2> QED
        BY <1>4, <2>1, <2>2, <2>3 DEF IInv, TypeOK
<1>6. \A q \in Slots : q # s => heap'[q] = heap[q]
    BY <1>4 DEF IInv, TypeOK
<1>7. \A q : Used(q)' = Used(q) /\ Listed(q)' = Listed(q) /\ Owns(q)' = Owns(q) /\ OnItsWay(q)' = OnItsWay(q)
    BY <1>0 DEF Used, Listed, OnItsWay, Owns
<1>8. Reachable' /\ NoDangling' /\ FreedOnce'
    BY <1>0, <1>5, <1>6, <1>7 DEF Reachable, NoDangling, FreedOnce
<1>9. Filling'
    <2>1. \A u \in Threads : pc[u] \notin {"fill", "track", "link", "spawn"}
        BY <1>0 DEF IInv, Alone, Threads
    <2>2. Used(s)
        BY <1>3, <1>2 DEF IInv, Linking, Listed
    <2> QED
        BY <1>0, <1>6, <1>7, <2>1, <2>2 DEF Filling
<1>10. Sweeping'
    <2>1. sweep' = IF k - 1 = 0 THEN NoSlot ELSE tracked[k - 1]
        BY <1>0, <1>2 DEF IInv, ListIsTracked
    <2>2. ASSUME NEW n \in 1 .. Len(tracked)
          PROVE  IF n > k - 1 THEN heap'[tracked[n]] # "live"
                 ELSE Owns(tracked[n]) => heap'[tracked[n]] = "live"
        <3>1. CASE n = k
            BY <3>1, <1>3, <1>5
        <3>2. CASE n # k
            <4>1. tracked[n] # s /\ heap'[tracked[n]] = heap[tracked[n]]
                BY <3>2, <1>1, <1>3, <1>6
            <4>2. n > k <=> n > k - 1
                BY <3>2, <1>1
            <4> QED
                BY <4>1, <4>2, <1>2 DEF SweptTo
        <3> QED
            BY <3>1, <3>2
    <2>3. SweptTo(k - 1)'
        BY <1>0, <2>1, <2>2 DEF SweptTo, Owns
    <2> QED
        BY <1>0, <1>1, <2>3 DEF Sweeping
<1> QED
    BY <1>8, <1>9, <1>10

LEMMA FreeBlocksPayloads ==
    ASSUME IInv, Payloads, FreeBlocks
    PROVE  Payloads'
<1>1. /\ \A s \in Slots : heap'[s] = "none" /\ ~ptr'[s]
      /\ \A t \in Threads : pc'[t] \in {"idle", "run"}
      /\ pc'[Main] = "run"
    BY DEF FreeBlocks, Threads
<1> QED
    BY <1>1 DEF Payloads, Reachable, NoDangling, Filling, Sweeping, FreedOnce, Owns

LEMMA NextPayloads == IInv /\ Payloads /\ [Next]_vars => Payloads'
<1> SUFFICES ASSUME IInv, Payloads, [Next]_vars PROVE Payloads'
    OBVIOUS
<1>1. CASE \E t \in Threads, ty \in {"int", "str", "thread"} : New(t, ty)
    BY <1>1, UntouchedSteps
<1>2. ASSUME NEW t \in Threads, Construct(t) PROVE Payloads'
    <2>1. CASE AllocLock(t) \/ AllocFails(t) \/ AllocTake(t) \/ TrackLock(t)
        BY <2>1, UntouchedSteps
    <2> QED
        BY <1>2, <2>1, ZeroPayloads, FillPayloads, LinkPayloads DEF Construct
<1>3. CASE \E t \in Threads, s \in Slots : Del(t, s)
    BY <1>3, DelPayloads
<1>4. ASSUME NEW w \in Workers, Spawn(w) \/ WorkerReturns(w) \/ Join(w) PROVE Payloads'
    <2>1. CASE WorkerReturns(w) \/ Join(w)
        BY <2>1, UntouchedSteps
    <2> QED
        BY <1>4, <2>1, SpawnPayloads
<1>5. CASE SpawnFails \/ UNCHANGED vars
    BY <1>5, UntouchedSteps
<1>6. CASE Cleanup \/ Sweep \/ FreeBlocks
    BY <1>6, CleanupPayloads, SweepPayloads, FreeBlocksPayloads
<1> QED
    BY <1>1, <1>2, <1>3, <1>4, <1>5, <1>6 DEF Next

\* Every payload is freed exactly once, by del or by abs_cleanup, whatever the
\* threads did before: none twice, and none forgotten when the blocks go
\* (free_internals, del, abs_cleanup).
THEOREM AlwaysFreedOnce == Spec => []FreedExactlyOnce
<1>1. IInv /\ Payloads => FreedExactlyOnce
    <2> SUFFICES ASSUME IInv, Payloads, pc[Main] = "sweep", sweep = NoSlot, NEW s \in Slots
                 PROVE  heap[s] # "live"
        BY DEF FreedExactlyOnce, CleanupFreesAll, Payloads
    <2> USE PoolAssumption DEF Payloads
    <2>1. ~OnItsWay(s)
        BY DEF OnItsWay, IInv, Alone, Threads
    <2>2. Len(tracked) \in Nat /\ \A n \in 1 .. Len(tracked) : tracked[n] \in Slots
        BY DEF IInv, TypeOK
    <2>3. NoSlot \notin Slots
        BY DEF NoSlot, Slots
    <2>4. SweptTo(0)
        BY <2>2, <2>3 DEF Sweeping, SweptTo
    <2>5. Listed(s) => heap[s] # "live"
        BY <2>2, <2>4 DEF SweptTo, Listed
    <2> QED
        BY <2>1, <2>5 DEF Reachable
<1> QED
    BY InitInv, NextInv, InitPayloads, NextPayloads, <1>1, PTL DEF Spec
=============================================================================
