------------------------------ MODULE ObjPool ------------------------------
(***************************************************************************)
(* The object memory of the runtime (abs.c, abs_thread.c): threads create  *)
(* objects in pool blocks, link those that own a payload into the gc list, *)
(* delete payloads, start and join workers; the main thread ends with      *)
(* abs_cleanup.                                                            *)
(*                                                                         *)
(* A mutex section is cut at the statement that publishes its result, so   *)
(* that the lock, not the granularity of the model, orders the threads.    *)
(* A slot receives at most one payload, so the payload of slot s is called *)
(* s and heap[s] tells what malloc and free did to it.                     *)
(*                                                                         *)
(* The program is assumed to use an object from one thread at a time, to   *)
(* join a worker once, and to call abs_cleanup after the workers' end.     *)
(*                                                                         *)
(* Operators whose name ends in _bug are the wrong versions against which  *)
(* the properties below were tried; the specification uses none of them.   *)
(***************************************************************************)
EXTENDS Naturals, Sequences

CONSTANTS
    Main, Workers, NULL,
    BlockSize,        \* POOL_BLOCK_SIZE
    MaxBlocks         \* bound: malloc of a further block fails

ASSUME PoolAssumption ==
    /\ Main \notin Workers /\ NULL \notin Workers \cup {Main}
    /\ BlockSize \in Nat \ {0} /\ MaxBlocks \in Nat

Threads == Workers \cup {Main}
Slots == (1 .. MaxBlocks) \X (0 .. BlockSize - 1)
NoSlot == <<0, 0>>    \* the null object pointer

VARIABLES
    blocks, poolIndex,    \* length of the pool_head chain, pool_index
    type, ptr, next,      \* fields of the objects: ptr is val's payload pointer
    heap,                 \* the payloads: "none", "live", "freed", "twice"
    gcHead, gcLock,
    pc, want, cur,        \* per thread: control, type being created, its slot
    mine,                 \* per thread: objects it may use
    object,               \* per worker: its ABS_THREAD object
    sweep,                \* abs_cleanup: current
    tracked               \* history: the objects linked so far, oldest first

pool == <<blocks, poolIndex>>
fields == <<type, ptr, next, heap>>
gc == <<gcHead, tracked>>
vars == <<pool, fields, gc, gcLock, pc, want, cur, mine, object, sweep>>

Init ==
    /\ blocks = 0 /\ poolIndex = 0
    /\ type = [s \in Slots |-> "raw"] /\ ptr = [s \in Slots |-> FALSE]
    /\ next = [s \in Slots |-> NoSlot] /\ heap = [s \in Slots |-> "none"]
    /\ gcHead = NoSlot /\ tracked = <<>> /\ gcLock = NULL
    /\ pc = [t \in Threads |-> IF t = Main THEN "run" ELSE "idle"]
    /\ want = [t \in Threads |-> "int"] /\ cur = [t \in Threads |-> NoSlot]
    /\ mine = [t \in Threads |-> {}]
    /\ object = [w \in Workers |-> NoSlot]
    /\ sweep = NoSlot

Goto(t, l) == pc' = [pc EXCEPT ![t] = l]
Local(t, ty, s) == want' = [want EXCEPT ![t] = ty] /\ cur' = [cur EXCEPT ![t] = s]
\* The constructor thread t is in returns.
Return(t) == Goto(t, "run") /\ Local(t, "int", NoSlot)

-----------------------------------------------------------------------------
\* pool_alloc

\* "int" stands for the objects without payload, "str" for those with one
\* (strings, errors, lists, ...), "thread" for what thread_start makes; only
\* the main thread of the model starts threads.
New(t, ty) ==
    /\ pc[t] = "run"
    /\ ty = "thread" => t = Main
    /\ want' = [want EXCEPT ![t] = ty]
    /\ Goto(t, "alloc")
    /\ UNCHANGED <<pool, fields, gc, gcLock, cur, mine, object, sweep>>

\* Bug: one object more than fits is taken from a block.
BlockFull_bug == blocks = 0 \/ poolIndex > BlockSize

BlockFull == blocks = 0 \/ poolIndex >= BlockSize

\* Bug: pool_alloc runs without the lock.
AllocLock_bug(t) ==
    /\ pc[t] = "alloc"
    /\ IF BlockFull THEN blocks < MaxBlocks /\ blocks' = blocks + 1 /\ poolIndex' = 0
                    ELSE UNCHANGED pool
    /\ gcLock' = t
    /\ Goto(t, "take")
    /\ UNCHANGED <<fields, gc, want, cur, mine, object, sweep>>

AllocLock(t) ==
    /\ pc[t] = "alloc" /\ gcLock = NULL
    /\ IF BlockFull THEN blocks < MaxBlocks /\ blocks' = blocks + 1 /\ poolIndex' = 0
                    ELSE UNCHANGED pool
    /\ gcLock' = t
    /\ Goto(t, "take")
    /\ UNCHANGED <<fields, gc, want, cur, mine, object, sweep>>

\* thread_start then makes an error object instead, if it can.
AllocFails(t) ==
    /\ pc[t] = "alloc" /\ gcLock = NULL
    /\ BlockFull
    /\ IF want[t] = "thread"
       THEN want' = [want EXCEPT ![t] = "str"] /\ UNCHANGED <<pc, cur>>
       ELSE Return(t)
    /\ UNCHANGED <<pool, fields, gc, gcLock, mine, object, sweep>>

AllocTake(t) ==
    /\ pc[t] = "take"
    /\ cur' = [cur EXCEPT ![t] = <<blocks, poolIndex>>]
    /\ Goto(t, "zero")
    /\ UNCHANGED <<pool, fields, gc, gcLock, want, mine, object, sweep>>

\* The index is advanced, the object zeroed and the lock released.
AllocZero(t) ==
    /\ pc[t] = "zero"
    /\ poolIndex' = poolIndex + 1
    /\ type' = [type EXCEPT ![cur[t]] = "int"]
    /\ ptr' = [ptr EXCEPT ![cur[t]] = FALSE]
    /\ next' = [next EXCEPT ![cur[t]] = NoSlot]
    /\ gcLock' = NULL
    /\ Goto(t, "fill")
    /\ UNCHANGED <<blocks, heap, gc, want, cur, mine, object, sweep>>

-----------------------------------------------------------------------------
\* The constructors, track_dynamic and del

\* An object without payload is finished; the others get theirs, or fail and
\* leave an ABS_NONE behind that nobody uses.
Fill(t) ==
    /\ pc[t] = "fill"
    /\ LET s == cur[t] IN
       \/ /\ want[t] = "int"
          /\ mine' = [mine EXCEPT ![t] = @ \cup {s}]
          /\ Return(t)
          /\ UNCHANGED <<type, ptr, heap>>
       \/ /\ want[t] = "str"
          /\ type' = [type EXCEPT ![s] = "str"]
          /\ ptr' = [ptr EXCEPT ![s] = TRUE]
          /\ heap' = [heap EXCEPT ![s] = "live"]
          /\ Goto(t, "track")
          /\ UNCHANGED <<mine, want, cur>>
       \/ /\ want[t] = "str"
          /\ type' = [type EXCEPT ![s] = "none"]
          /\ Return(t)
          /\ UNCHANGED <<ptr, heap, mine>>
       \/ /\ want[t] = "thread"
          /\ type' = [type EXCEPT ![s] = "thread"]
          /\ Goto(t, "track")
          /\ UNCHANGED <<ptr, heap, mine, want, cur>>
    /\ UNCHANGED <<pool, next, gc, gcLock, object, sweep>>

\* Bug: track_dynamic runs without the lock.
TrackLock_bug(t) ==
    /\ pc[t] = "track"
    /\ gcLock' = t
    /\ next' = [next EXCEPT ![cur[t]] = gcHead]
    /\ Goto(t, "link")
    /\ UNCHANGED <<pool, type, ptr, heap, gc, want, cur, mine, object, sweep>>

\* Bug: the head is written first, and the object linked to itself.
TrackSelf_bug(t) ==
    /\ pc[t] = "track" /\ gcLock = NULL
    /\ gcLock' = t
    /\ next' = [next EXCEPT ![cur[t]] = cur[t]]
    /\ Goto(t, "link")
    /\ UNCHANGED <<pool, type, ptr, heap, gc, want, cur, mine, object, sweep>>

TrackLock(t) ==
    /\ pc[t] = "track" /\ gcLock = NULL
    /\ gcLock' = t
    /\ next' = [next EXCEPT ![cur[t]] = gcHead]
    /\ Goto(t, "link")
    /\ UNCHANGED <<pool, type, ptr, heap, gc, want, cur, mine, object, sweep>>

TrackLink(t) ==
    /\ pc[t] = "link"
    /\ gcHead' = cur[t]
    /\ tracked' = Append(tracked, cur[t])
    /\ gcLock' = NULL
    /\ IF want[t] = "thread"
       THEN Goto(t, "spawn") /\ UNCHANGED <<mine, want, cur>>
       ELSE Return(t) /\ mine' = [mine EXCEPT ![t] = @ \cup {cur[t]}]
    /\ UNCHANGED <<pool, fields, object, sweep>>

\* Bug: the handle of a thread object is forgotten.
FreeInternals_bug(s) == heap' =
    IF type[s] = "str" /\ ptr[s] THEN [heap EXCEPT ![s] = IF @ = "live" THEN "freed" ELSE "twice"] ELSE heap

\* free_internals: what happens to the heap when it is called on s.
FreeInternals(s) == heap' = IF type[s] \in {"str", "thread"} /\ ptr[s]
    THEN [heap EXCEPT ![s] = IF @ = "live" THEN "freed" ELSE "twice"] ELSE heap

\* Bug: del leaves the type, so abs_cleanup frees the payload again.
Del_bug(t, s) ==
    /\ pc[t] = "run" /\ s \in mine[t]
    /\ type[s] # "none"
    /\ FreeInternals(s)
    /\ UNCHANGED <<pool, type, ptr, next, gc, gcLock, pc, want, cur, mine, object, sweep>>

Del(t, s) ==
    /\ pc[t] = "run" /\ s \in mine[t]
    /\ type[s] # "none"
    /\ FreeInternals(s)
    /\ type' = [type EXCEPT ![s] = "none"]
    /\ UNCHANGED <<pool, ptr, next, gc, gcLock, pc, want, cur, mine, object, sweep>>

-----------------------------------------------------------------------------
\* thread_start, abs_thread_wrapper, thread_join

\* The handle is allocated and the worker w created.
Spawn(w) ==
    /\ pc[Main] = "spawn" /\ pc[w] = "idle"
    /\ LET s == cur[Main] IN
       /\ ptr' = [ptr EXCEPT ![s] = TRUE]
       /\ heap' = [heap EXCEPT ![s] = "live"]
       /\ object' = [object EXCEPT ![w] = s]
       /\ mine' = [mine EXCEPT ![Main] = @ \cup {s}]
    /\ pc' = [pc EXCEPT ![Main] = "run", ![w] = "run"]
    /\ Local(Main, "int", NoSlot)
    /\ UNCHANGED <<pool, type, next, gc, gcLock, sweep>>

\* malloc or pthread_create fails: the object stays linked, without a handle,
\* and an error object is made for the caller.
SpawnFails ==
    /\ pc[Main] = "spawn"
    /\ Goto(Main, "alloc") /\ Local(Main, "str", NoSlot)
    /\ UNCHANGED <<pool, fields, gc, gcLock, mine, object, sweep>>

WorkerReturns(w) ==
    /\ pc[w] = "run"
    /\ Goto(w, "done")
    /\ UNCHANGED <<pool, fields, gc, gcLock, want, cur, mine, object, sweep>>

\* Join waits for the worker; what it created is then the main thread's.
Join(w) ==
    /\ pc[Main] = "run" /\ pc[w] = "done"
    /\ type[object[w]] = "thread"
    /\ mine' = [mine EXCEPT ![Main] = @ \cup mine[w], ![w] = {}]
    /\ Goto(w, "joined")
    /\ UNCHANGED <<pool, fields, gc, gcLock, want, cur, object, sweep>>

-----------------------------------------------------------------------------
\* abs_cleanup

Cleanup ==
    /\ pc[Main] = "run"
    /\ \A w \in Workers : pc[w] \in {"idle", "done", "joined"}
    /\ sweep' = gcHead
    /\ Goto(Main, "sweep")
    /\ UNCHANGED <<pool, fields, gc, gcLock, want, cur, mine, object>>

Sweep ==
    /\ pc[Main] = "sweep" /\ sweep # NoSlot
    /\ sweep' = next[sweep]
    /\ FreeInternals(sweep)
    /\ UNCHANGED <<pool, type, ptr, next, gc, gcLock, pc, want, cur, mine, object>>

\* The blocks go; a later abs_init finds the runtime as at the start.
FreeBlocks ==
    /\ pc[Main] = "sweep" /\ sweep = NoSlot
    /\ gcHead' = NoSlot /\ tracked' = <<>>
    /\ blocks' = 0 /\ poolIndex' = 0
    /\ type' = [s \in Slots |-> "raw"] /\ ptr' = [s \in Slots |-> FALSE]
    /\ next' = [s \in Slots |-> NoSlot] /\ heap' = [s \in Slots |-> "none"]
    /\ mine' = [t \in Threads |-> {}] /\ object' = [w \in Workers |-> NoSlot]
    /\ pc' = [t \in Threads |-> IF t = Main THEN "run" ELSE "idle"]
    /\ UNCHANGED <<gcLock, want, cur, sweep>>

-----------------------------------------------------------------------------
Construct(t) ==
    \/ AllocLock(t) \/ AllocFails(t) \/ AllocTake(t) \/ AllocZero(t)
    \/ Fill(t) \/ TrackLock(t) \/ TrackLink(t)

Next ==
    \/ \E t \in Threads, ty \in {"int", "str", "thread"} : New(t, ty)
    \/ \E t \in Threads : Construct(t)
    \/ \E t \in Threads, s \in Slots : Del(t, s)
    \/ \E w \in Workers : Spawn(w) \/ WorkerReturns(w) \/ Join(w)
    \/ SpawnFails
    \/ Cleanup \/ Sweep \/ FreeBlocks

Spec == Init /\ [][Next]_vars

\* abs_cleanup, once called, runs on: it takes no lock and waits for nobody.
FairSpec == Spec /\ WF_vars(Sweep \/ FreeBlocks)

-----------------------------------------------------------------------------
\* Type invariant.
Types == {"raw", "none", "int", "str", "thread"}
Labels == {"idle", "run", "alloc", "take", "zero", "fill", "track", "link", "spawn", "done", "joined", "sweep"}
TypeOK ==
    /\ blocks \in 0 .. MaxBlocks /\ poolIndex \in 0 .. BlockSize
    /\ type \in [Slots -> Types] /\ ptr \in [Slots -> BOOLEAN]
    /\ next \in [Slots -> Slots \cup {NoSlot}]
    /\ heap \in [Slots -> {"none", "live", "freed", "twice"}]
    /\ gcHead \in Slots \cup {NoSlot} /\ tracked \in Seq(Slots)
    /\ gcLock \in Threads \cup {NULL}
    /\ pc \in [Threads -> Labels] /\ want \in [Threads -> {"int", "str", "thread"}]
    /\ cur \in [Threads -> Slots \cup {NoSlot}] /\ mine \in [Threads -> SUBSET Slots]
    /\ object \in [Workers -> Slots \cup {NoSlot}]
    /\ sweep \in Slots \cup {NoSlot}

Building(t) == pc[t] \in {"zero", "fill", "track", "link", "spawn"}

\* "The object pool allocator is guarded by a lock so abs_new_* constructors
\* are safe to call from worker threads": no slot is handed out twice, neither
\* to two constructors at once nor while somebody holds the object in it.
SlotsAreExclusive ==
    \A t, u \in Threads :
        /\ t # u => mine[t] \cap mine[u] = {}
        /\ Building(t) => cur[t] \notin mine[u]
        /\ t # u /\ Building(t) /\ Building(u) => cur[t] # cur[u]

\* The gc list is the objects linked so far, newest first, each once and none
\* lost, though next and gc_dynamic_head are written in separate statements.
ListIsTracked ==
    /\ gcHead = IF tracked = <<>> THEN NoSlot ELSE tracked[Len(tracked)]
    /\ \A n \in 1 .. Len(tracked) :
         next[tracked[n]] = IF n = 1 THEN NoSlot ELSE tracked[n - 1]
    /\ \A m, n \in 1 .. Len(tracked) : tracked[m] = tracked[n] => m = n

\* The pool and the gc list of abs.c are sound at every step of every thread.
Consistent == TypeOK /\ SlotsAreExclusive /\ ListIsTracked

\* No payload is freed twice, by del, by abs_cleanup or by one after the other.
FreedOnce == \A s \in Slots : heap[s] # "twice"

\* Before abs_cleanup releases the blocks, every payload has been freed:
\* "abs_cleanup reclaims everything still alive".
CleanupFreesAll == pc[Main] = "sweep" /\ sweep = NoSlot => \A s \in Slots : heap[s] # "live"

\* Every payload of abs.c is freed exactly once, by del or by abs_cleanup.
FreedExactlyOnce == FreedOnce /\ CleanupFreesAll

\* abs_cleanup ends: the list it follows has no cycle.
CleanupEnds == pc[Main] = "sweep" ~> pc[Main] = "run"
=============================================================================
