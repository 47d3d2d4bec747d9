# Abscom: a TLA+ model of the library

Abscom is a C library that offers a Python-like runtime on top of a handful of
hand-written containers. This directory holds TLA+ models of it; TLC
configurations that check them on small instances; and proofs, checked by
TLAPS, of the invariants of the core for every value of the constants.

Two kinds of code call for two kinds of model. Containers, memory, threads,
exceptions, callbacks and sockets keep state: they are state machines, one
action per operation or step, in modules of their own. Sorting, text, JSON,
regular expressions, matrices and the like compute a result from their
arguments: they are operators, and one driver (`Algorithms`) calls each with
all inputs of a small set and compares the result with a definition that does
not compute it.

Run a configuration with `tlc -config HashMap.cfg MCHashMap.tla`, and check the
proofs of a module with `tlapm HashMapProofs.tla`.

## 1. The system

| component | state | operations | who it talks to |
| --- | --- | --- | --- |
| hash map, `abs_hashmap.c` | three parallel arrays, `cap`, `count`, `tombstones` | set, get, contains, remove, clear, destroy, foreach | calls back the caller's `free_value` and visitor; the visitor may call the map |
| string, `abs_string.c` | `data`, `len`, `cap` | appends, reserve, shrink, clear, take | formatting |
| dynamic array, `abs_dynarray.c` | `data`, `elem_size`, `len`, `cap` | push, pop, reserve, resize, clear | none |
| object pool and gc list, `abs.c`, `abs_thread.c` | chain of 1024-object blocks, index, list of objects with payload, one mutex | the `abs_new_*` constructors, `del`, `thread_start`, `thread_join`, `abs_cleanup` | every component that makes a `var`; shared by all threads |
| exceptions, `abs_except.c`, `abs.h` | a global stack of 10 `jmp_buf`s, `abs_last_error` | try, catch, end_try, throw, with | pool (error objects), files |
| scalar autograd, `abs_scalar.c` | heap nodes with `visited` flags | constructors, backward, zero_grad, free | none |
| lists and chained dictionaries, `abs.c` | payloads of the objects | append, dset, dget, ... | pool |
| event bus, memoised functions, decorators, iterators, generators, `abs_events.c`, `abs_func.c`, `abs_itertools.c`, `abs_gen.c` | objects over lists and dictionaries | on, emit, call_memoized, chain, cycle, iter_next, range_gen, next | user callbacks, which call all of these again |
| web sockets, `abs_ws.c` | none beyond the socket | ws_accept, ws_send, ws_recv, ws_encode_frame, ws_decode_frame | the kernel's byte stream |
| web server, `abs_server.c` | routes, one listening socket | route, server_run | clients, handlers |
| data frames, files, http client, terminal plot, `abs_df.c`, `abs_fs.c`, `abs_plot.c`, `abs.c` | owned blocks and handles | create, add column, print, free; read, write; http_get | the C library |
| sorting, `abs_sort.c`; random and statistics, `abs.c`, `abs_stats.c`; sequences and sets, `abs.c` | none | eleven sorts, shuffle, sample, slices, set algebra, combinatorics | `rand` |
| text, JSON, CSV, encodings, regex, `abs.c`, `abs_csv.c`, `abs_encode.c`, `abs_regex.c` | none | split, join, fmt, json_parse, json_dump, csv_read, base64, re_match | files |
| matrices, ML, geometry, complex numbers, images, `abs_matrix.c`, `abs_ml.c`, `abs_geom.c`, `abs_complex.c`, `abs_img.c` | buffers of numbers | products, stacking, determinants, splits, rotations, PPM files, convolution | files |
| wrappers: environment, path, time, plugins, introspection; scripts | none | | the operating system |

What is hard, and where:

* **Long sequences of legal calls**: tombstones in the hash map, stale elements
  in the dynamic array, nesting of try blocks, `visited` flags in autograd.
* **Interleaving**: constructors and `track_dynamic` take the pool lock
  separately; a thread may run between the two sections.
* **Callbacks and jumps**: foreach visitors that change the map; handlers that
  register handlers; memoised functions that call themselves; `longjmp` over
  with blocks and out of handlers.
* **Failure in the middle**: an allocation or a file operation may fail after
  other steps of the same call have taken effect. The state machines and
  `Resources` let each of them fail where it changes what follows; so do, among
  the pure functions, the sorts that need memory, the determinant and the
  median. The other pure functions are modelled as having their memory.
* **Unreliable delivery**: `recv` returns part of what was sent, `send` may cut
  a frame, clients hang up at any time.
* **Numeric edges**: `size_t` arithmetic on capacities, the length fields of a
  frame, the padding of a digest, the ends of `long`.

`PROJECT.json` lists each hazard at its line with the properties that would
catch it, or the reason why none does.

## 2. Modules

| module | what it is |
| --- | --- |
| `HashMapSpec` | abstract map: what a client of `abs_hashmap` may rely on |
| `HashMap` | `abs_hashmap.c`, one action per call, loop iteration or loop end |
| `HashMapRefines` | the refinement mapping from `HashMap` to `HashMapSpec` |
| `HashMapProofs` | proofs about the table of `HashMap`; that it implements `HashMapSpec`, what it owns, what foreach visits |
| `VectorSpec`, `DynArray`, `DynArrayProofs` | abstract sequence; `abs_dynarray.c`, one action per call; proofs, refinement included |
| `AbsString`, `AbsStringProofs` | `abs_string.c`; proofs |
| `Except`, `ExceptProofs` | `abs_except.c` and the macros of `abs.h`; proofs |
| `ObjPool`, `ObjPoolProofs` | pool, gc list, `del`, threads and `abs_cleanup`; proofs |
| `Scalar`, `ScalarProofs` | `abs_scalar.c` with its recursions frame by frame; proofs |
| `Runtime`, `RuntimeProofs` | chained dictionaries and lists; event bus, memoised functions, iterators and generators on top of them; proofs, those of `Regex` included |
| `WebSocket`, `Server`, `Network`, `NetworkProofs` | `abs_ws.c`; `abs_server.c`; the composition: a process runs one of the two programs; proofs |
| `Sorting`, `Collections` | the sorts and random selections; lists, sets, aggregates |
| `Text`, `Json` | split, join, fmt, CSV, base64, digest padding; JSON |
| `Caller`, `Regex` | `call`, the last call of a pure function; `abs_regex.c` and the language of a pattern |
| `Matrices`, `Numbers`, `Images` | linear algebra over the integers; number theory and statistics; PPM files and convolution |
| `Resources` | data frames, files, `http_get`, the terminal plot: who owns what when a step fails |
| `Algorithms` | the program that calls the operators of the five rows above, and their properties |
| `MC*` | instances for TLC; `ObjPool` needs none |

`HashMapRefines` composes `HashMap` and `HashMapSpec`; `DynArray` instantiates
`VectorSpec`; `Network` instantiates `WebSocket` and `Server`; `Algorithms`
extends all operator modules. They are RECURSIVE where the code is and are
therefore used by TLC only, except `Regex`, whose recursions are functions of
the positions in pattern and text, and which is proved about.

Operators whose name ends in `_bug` are wrong versions of the definition they
precede. No specification uses them; they were substituted for the right ones
to see that the properties notice.

### HashMap

`slot[x]` merges `states[x]` and `keys[x]` (`EMPTY`, `TOMBSTONE`, or the key),
`val` is `values`. The hash is an arbitrary function `Home` into the table.
`abs_hashmap_set` is the actions `CallSet`, `FirstTable`, `Grow`,
`MigrateSlot`, `Place`, `SwapTables`, `LoadOK`, `SkipTombstone`, `SkipOther`,
`Replace`, `Insert`, with `OutOfMemory` and `CopyFails` as its failures; the
search of get, contains and remove is `CallFind`, `FindNext`, `FindMiss`,
`Found`, `RemoveFound`. Foreach keeps its index in `it`; while it is in its
callback the caller may start any operation except destroy or another foreach.
`owned` is the set of values the map still has to free. The client never hands
the map a pointer the map already owns (the code would free it twice).

* `TableOK`: types; no `EMPTY` slot between a key and its home slot
  (`ChainUnbroken`); no key twice; exact counters; an `EMPTY` slot in every table.
* `OwnedIsStored`: a value is owned exactly while it is stored.
* `ForeachExact`: entries are visited exactly once as long as no rehash happens
  (a rehash inside the callback makes no promise, and none is stated).
* `ImplementsMap`: every behaviour is a behaviour of `HashMapSpec` under the
  mapping that reads the table as a function.
* `CallsReturn`: every call returns.

### DynArray and VectorSpec

Operations do not loop, so each is one action. Memory is an array of cells that
hold an element, `ZERO` or `JUNK` (allocated, never written); `alloc` is the
size in bytes of the block, computed with wrap-around. `BufferOK` says that no
size ever wrapped and that no element below `len` is uninitialised;
`ImplementsVector` that push, pop, resize and writes through `at` are those of
a sequence whose new elements are zero, whatever was popped there before.

### AbsString

The text is its length and whether `data[len]` is NUL (`nul`). The doubling loop
of `abs_string_grow` is the action `Double`. `Resized` and `NotResized` are
`realloc`: new bytes hold anything, a failed call keeps the old block, and size
0 frees it (glibc). No object exceeds half the address space. `BufferOK` (sizes,
termination, no dangling buffer) and `WriteFits` hold when nobody reserves
`SIZE_MAX`: `cap + 1` then wraps to 0 and `reserve` reports a capacity no memory
backs (with 127 in `Reserves`, `BufferOK` fails). `AppendReturns` is the
termination of the doubling loop; it lets the call end in `WriteToNull`, where
`append_fmt` of an empty text to a string without a buffer writes its NUL
through a null pointer, as only the other appends return early for an empty text.

### Except

`ctl` is the stack of the try and with blocks the program is in, and `env` the
`jmp_buf` stack as positions in `ctl`. `Throw` cuts `ctl` at the top `jmp_buf`
and marks that block as running its handler. `Consistent` contains the balance
that docs/exceptions.md states; `ExitIsDeserved` restricts the two `exit`
calls; `PointersAreOpen` is about closing a file by hand inside its with block.
Blocks are left at their end or by throw: leaving one by `return`, `break` or
`goto` skips `end_try`.

### ObjPool

Threads create objects without payload (`int`), with payload (`str`, which
stands for strings, errors, lists and the other malloc-backed types) and
threads. A mutex section is two actions, cut where the other threads could see
a half-done update if the lock were not there. `heap` records what `malloc` and
`free` did to each payload. The program joins a worker once, uses an object
from one thread at a time and cleans up when its workers have ended; these are
assumptions on the client. `Consistent`: no slot is handed out twice and the gc
list is the objects linked so far. `FreedExactlyOnce`: nothing is freed twice,
and no payload survives the sweep. `CleanupEnds`.

### Scalar

Nodes are numbered in creation order. A public function is its list of phases
(`zero`, `count`, `clear`, `malloc`, `order`, `seed`, `sweep`, `release`) and
the four recursive functions are frames on `stack`. `GradientsAreDerivatives`
compares the gradients after backward with the derivative computed forwards,
an independent definition. It is a claim about passes that found all gradients
below the root zero (`clean`): backward resets them itself, while
docs/ultimate.md:43 has it accumulate on what is there, and on zeroed gradients
both are the derivative. `GraphOK` (types, flags cleared between calls, only
live nodes read, free releases all), `OthersKeepGradients`, `CallsReturn` (it is
not a bound: `abs_scalar_zero_grad` unmarks a subtree as soon as it leaves it
and visits a shared node once per path). Doubles are integers, and the sigmoid
an arbitrary function of its input (the rule v(1 - v) is the code's).

### Runtime

A dictionary is the chains of its buckets, a list its items and its capacity.
`Dset` and `Appended` answer the set of what the code can leave: a node without
key when the copy of the key fails, nothing at all when the node does. `stack`
holds the calls in progress: `Emit` starts the loop of `emit`, `EmitNext` calls
the next handler, which is user code and may call `On`, `Emit`, `CallMemoized`
and the iterators again until `HandlerReturns`; `CallMemoized` looks into the
cache and, on a miss, runs the function (`body`), which may call itself. `Dget` answers `None` for a missing key, or NULL if the `None` has no memory,
which `emit` and `call_memoized` then dereference. The
iterator in use remembers what it has yielded; `late` tells that a list it
walks grew after the iterator had passed its end, when the code promises
nothing. A generator moves on even when the number it should answer has no
memory, and a chain whose marker, a `None`, has none becomes a cycle of its
first list (`mode` against `asked`).

* `BusIsExact` (in `Consistent`): the list under an event's name holds the
  handlers registered for it, in order, though two events share a bucket and
  handlers register handlers.
* `EmitRunsAll`: emit returns only when every handler of the list has run.
* `MemoIsExact`: the function runs again for a cache key only when memory was
  out, when its answer was `None`, or when the second call was made inside the
  first; an answer is the function's value at an argument with the same key.
* `IteratorsAreExact`: chain, cycle, repeat and generators yield what they
  should, in order and without a gap. A number of a range that had no memory is
  missing at its place, and the others keep theirs.
* `CrashNeedsNull`: the runtime dereferences NULL only after
  a failed allocation or a NULL result of the user's function.

### WebSocket, Server and Network

`wire` is the kernel's byte stream; a read takes any number of the bytes that
have arrived and a write may be cut anywhere. `torn` records that bytes were
lost or misread, `whole` how many messages had been sent before that, `cut`
that the handshake request had not arrived in full when it was read.
`ws_accept` ends `open`, `refused` (no key in the request, or an answer for
another key than the client's) or `failed`: no memory for the answer, or a send
that did not work. Its reply is taken whole or not at all. `ws_recv` answers
NULL when the text has no memory, after it has taken the payload from the
stream (`Lost`). The three forms of
the length field are there with their sizes scaled: `TopBit` is the highest bit
of a byte, the mask flag of the second header byte, and `Xored` the exclusive or
of two bytes. The server is the accept loop of `server_run`: `accept`, one `recv`, the handler,
two `send`s and `close`; a client connects, writes its request piece by piece
and may hang up at any moment, and a send to a client that has gone may end
the process. The handler's text, and the `None` of a 404, may lack their memory; a NULL
`None` ends the process. What a client does once the process is dead, and what
it writes after the one `recv`, nobody sees, and it is left out.

* `FramesAreKept`: a handshake is refused only when the request was cut or the
  key is too long. Messages arrive whole, in order, up to their first NUL or as
  a NULL for want of memory, and between two frames the stream stands at the
  start of one. After damage all this still holds of the messages sent before it.
* `EverythingArrives`: each message sent before any damage is answered, unless
  a frame before it was refused (over `MaxFrame`, or no memory for it).
* `ServesOneByOne`: a client gets its own answer, each connection is closed
  before the next is accepted, and the process ends only after a failed
  allocation or when the client hangs up while it is served.
* `ClientsServed`: who waits in the backlog gets both parts of an answer, or
  has hung up itself, or the process is gone. That the server closes the
  connection is not enough.

### Algorithms

`call` is the last call with its arguments and results. The references:

| property | against |
| --- | --- |
| `SortsAreCorrect` | order, permutation of the items with their identities, stability of the stable ones; merge, counting and radix keep every item when allocations fail, `sorted` doubles none and keeps its order |
| `ChoicesAreFair` | all random numbers at once: shuffle and sample reach every outcome equally often, randint its range |
| `CollectionsAgree` | slices within the list and ranges by their index sets; set algebra by membership up to `eq`, when no int equals a float among the items; aggregates against sorting, filtering and concatenation |
| `TextIsKept` | split and join, fmt by its pieces, CSV files with types |
| `EncodingsAreExact` | the bits of the bytes; the padding the standards prescribe |
| `JsonIsExact` | the values a JSON text stands for, read off by cutting it at its separators; whatever else is accepted must be in `Lenient`; dump followed by parse |
| `RegexMatchesLanguage` | the set of words a pattern denotes: a match is found when the whole text is one of them, and only when one stands somewhere in it; the length is that of the longest at the start. For patterns without `^`, `findall` answers the leftmost matches that do not overlap, all of them, and `sub` puts one replacement for each and keeps every other character |
| `AlgebraHolds` | transposition and determinant of products (when the determinant has its memory), stacking and slicing, the rounded size of a test set when it leaves a sample on either side, cross products, norms and rotations of quaternions |
| `NumbersAreExact` | divisibility, recurrences, medians by counting (when the median has its memory), overflow of a `long` |
| `ImagesAreKept` | writing P3 and reading it, P3 with other maxvals, P6 with one and with two bytes a value when the first is no white space, P6 cut short; identity and shift kernels of the convolution |
| `ResourcesAreReturned` | every block, file and socket taken is given back or counted as leaked exactly where the code leaks it; host and path of a URL; the longest line of a table |

## 3. Runs

| run | instance | why it is enough to be interesting |
| --- | --- | --- |
| `HashMap.cfg` | 3 keys, 2 values, tables of 2, 4 and 8 slots, free callback | two keys collide in every table and their run wraps around into the third's slot: reuse of tombstones, growth over live and removed entries, failure to grow |
| `DynArray.cfg` | 6-bit `size_t`, 3-byte elements | requests whose size wraps (22 and 43 elements), that do not fit in an object (16) and that fit (8, 10) |
| `AbsString.cfg` | 7-bit `size_t`, first capacity 16 | lengths on both sides of every capacity, requests beyond the largest object |
| `StringReserveNul.cfg` | the same | fails: a defect, below |
| `Except.cfg` | 2 files, stack of 3, 5 blocks | nesting beyond the stack, throws through with blocks |
| `ExceptRethrow.cfg`, `ExceptWith.cfg` | the same | fail: two divergences from the documentation, below |
| `ObjPool.cfg` | 2 workers, 2 blocks of 2 objects | a block fills up while two constructors run, the pool runs out, a thread cannot be started |
| `Scalar.cfg` | 3 nodes | every graph of three nodes: squares, shared children, a child that is also a grandchild, which is what the order of the sweep is about |
| `Runtime.cfg` | 4 calls of the user, nested up to 4 deep, 2 events in one bucket, 2 handlers, 4 arguments with 3 keys, lists of capacity 1 | a list grows under the loop that walks it; an int and a text with one key; results that are `None` and NULL; a range whose last step leaves the `long` |
| `Network.cfg` | bytes of 3 bits, 4 messages, 2 frames; 2 clients, a backlog of 1 | lengths in all three forms of the length field, and a well-formed frame over `MaxFrame`, which `ws_recv` has to refuse; a key too long for `key[]`; two clients of which one waits in the backlog while the other is slow or gone |
| `Algorithms.cfg` | lists of up to 4 items (8 for the sorts), texts of up to 6 characters, all patterns of up to 4 over two alphabets (with `.`, `*`; with `.`, `*`, `$`, `^`), matrices up to 3 x 3, ints of 4 bits, longs of 12 | the ends of each range are inside: empty input, one item, all equal, a line one character too long, sums and products that overflow |

Deadlock is not checked where the modelled program may stop: `Except` (the
process exits), `AbsString` and `Runtime` (they may crash or have made all
their calls), `Scalar` (all nodes made and freed), `Network` (connections
closed).

**Fairness.** `HashMap`, `AbsString` and `Scalar` assume weak fairness of the
steps of the running call: a call is straight-line C on its caller's thread, so
the only thing assumed is that this thread is scheduled. `ObjPool` assumes it of
the two steps of `abs_cleanup`, which takes no lock and waits for nobody.
`Network` assumes it of the reading program's loop and, for the server, of
connected clients: each writes on or hangs up. The second assumption is
one about the world and is needed: `server_run` reads without a timeout, so a
silent client holds up everyone.

### What the failing runs show

1. A throw inside a catch block runs the same handler again
   (`ThrowLeavesHandler`), because throw leaves its `jmp_buf` on the stack.
2. A throw inside a with block leaves the file open (`WithClosesItsFile`).
3. `abs_string_reserve` on a fresh string leaves the buffer unterminated
   (`AlwaysTerminated`).

### Further deviations met while modelling

The models follow the code here, and the properties are stated so that they
hold of it; each item names the place.

* `abs_scalar_backward` resets the gradients that docs/ultimate.md:43 lets
  accumulate; `GradientsAreDerivatives` claims nothing of gradients that were
  not zero.
* `sort_radix` sorts by the digits of `abs(x)` and loses the order of negative
  numbers, though it accepts all integers (`abs_sort.c:167`).
* Out of memory, `sort_radix` leaves out a digit (`abs_sort.c:203`) and answers
  a list that is not sorted, `sorted` loses items (`abs.c:740`), a generator a
  number (`abs_gen.c:12`), `ws_recv` a message (`abs_ws.c:330`), and the
  determinant and the median are 0 (`abs_matrix.c:336`, `abs_stats.c:280`), as
  if that were the result.
* `json_parse` accepts more than JSON, for which docs/error-handling.md:41 and
  docs/json.md:45 promise an error: a string that the end of the text cuts off,
  any escape (it drops the backslash, and copies the letters of a `\u`, so a
  dumped control character does not come back), raw control characters, and
  numbers such as `1-1`, `--` or `1.1.1`, of which `atol` and `atof` read a
  part. `Lenient` names these, and `JsonIsExact` claims no error for them.
  Exponents and the number buffer of 63 characters are left out.
* `set_contains` tells `v(1)` from `v(1.0)`, which docs/sets.md:43 has match, as
  it compares types first (`abs.c`); `CollectionsAgree` claims nothing of sets
  that mix them.
* A slice with an index outside the list is cut to the list, where
  docs/error-handling.md:36 has out-of-bounds access be an error.
* In findall and sub an anchored pattern matches at every position
  (`abs_regex.c`), as both call the matcher on each rest of the text;
  docs/regex.md:19 has `^` match only at the very start. `re_match` searches,
  where docs/regex.md:25 says it is True if the whole text matches.
  `RegexMatchesLanguage` claims what both allow.
* `train_test_split` puts at least one sample on either side, where
  docs/data-science.md:89 and the comment at `abs_ml.c:141` say
  `round(n * ratio)`; `AlgebraHolds` claims that size when it is neither 0 nor n.
* `randint` over the whole range of an int divides by zero (`Trap`).
* Sets and dictionaries are never equal, not even to themselves; `count` on a
  list takes incomparable items for equal.
* CSV files lose the type of texts that look like numbers, split long lines at
  the line buffer and write floats with six digits.
* The P6 reader skips white space after the header, so a picture whose first
  bytes happen to be white space is read shifted (`abs_img.c:88`) or refused,
  where docs/ultimate.md:73 promises loading P6. P6 values are never
  scaled: one byte is kept as it is, of two the high one, whatever the maxval.
* `abs_df_print` reads the name of a column whose copy has failed.
* `http_get` takes a `://` inside a query for the end of the scheme, and drops
  what follows a NUL in each piece it receives.
* `server_run` loops without end when its socket could not be made.
* A list that holds itself is printed, compared and dumped for ever.

## 4. Proofs

All theorems hold for every value of the constants that the modules' ASSUMEs
allow.

* `HashMapProofs`. `IInv` joins the shape of the table (types, index ranges),
  the control facts that relate `pc` to the locals, the counting facts
  (`count` and `tombstones` are cardinalities, and their sum plus the pending
  insertion stays below `cap`) and the chain facts for both the table and the
  half-migrated new one. `ChainUnbroken` alone is not inductive: `Insert` needs
  to know that every slot from the key's home to `idx` is occupied or a
  tombstone and that the key is in none of them, and `SwapTables` that the new
  table is already well-formed. From `IInv`: `TableOK`, and its parts one by
  one. Assumed: `HashMapAssumption` and that `Home` maps into the table.
* The second half of `HashMapProofs`. `RInv` adds to `IInv` what the variables of a call say
  (`Calls`): they are clear between calls, and the pointer a pending set was
  handed is not owned yet. `TableImplementsMap` is `Spec => ImplementsMap`: a
  search that ends at an EMPTY slot proves the key absent (`ProbeComplete`),
  a key's slot is unique, so writing or burying a slot changes one entry, and
  the two halves of `Migration` at the end of a rehash say that both tables
  hold the same entries. `NothingLeaks` (`OwnedIsStored`) and
  `ForeachNeverSkips` (`ForeachExact`, strengthened by `due \subseteq Stored`)
  rest on the same facts. Assumed besides: `AbsentAssumption`.
* `DynArrayProofs`. `IInv` is the sorts, `alloc = cap * ElemSize` exactly and
  that no junk is inside. One lemma per operation says what it does to each
  element; `BufferOK` and the refinement both rest on them.
  `ArrayImplementsVector` maps every step to a step of `VectorSpec` or a
  stutter.
* `AbsStringProofs`. `IInv` adds to `BufferOK` that grow never tries a
  capacity whose size wraps to 0 and that a pending write is inside the
  capacity; `BufferOK` and `WriteFits` follow. All theorems assume
  `SizeMax \notin Reserves`, without which `BufferOK` is false.
* `ExceptProofs`. `EnvMatchesControl` is inductive together with the types;
  `ExitIsDeserved` follows from it at the two exits. `PointersAreOpen` is
  inductive by itself.
* `ObjPoolProofs`, for any number of threads. `IInv` adds to `Consistent` that
  the mutex has the one thread inside a section as its holder (`Mutex`), that
  what is being built, held or linked has been handed out before (`Used`,
  which only grows until the blocks go), that an object on its way to the list
  is not yet in it, and that `abs_cleanup` runs alone. A new slot is exclusive
  because it is the first that is not `Used`, and the list stays sound because
  nobody else is between the two statements of `track_dynamic`. On top of it,
  `Payloads`: a live payload belongs to an object that is in the list or on its
  way to it, an object that owns a payload owns a live one, and `abs_cleanup`
  has freed exactly what lies behind the object it stands at. Together they
  give `FreedExactlyOnce`.

* `ScalarProofs`. Graphs, stacks and gradients are arguments of the operators
  and lemmas, which come first and know nothing of the variables.
  (1) Graphs: the recursion of `Reach` defines the least closed set that
  contains the root (`ReachIsCone`), which is how a set that every traversal
  fills is shown to be all of it. (2) Derivatives: the recursive `Derivative`
  exists and satisfies the chain rule (`DerStep`), is 0 for nodes the root does
  not stand on, and does not change when nodes are added. (3) The sweep:
  `Swept` says that the nodes done have their derivative and that the gradients
  of the others, each times its own derivative by x, still sum up to the
  derivative of the root by x; `SweepStep` moves one node across. (4) The
  traversals: in `Walk` the parents of each node gone down are seen or wait on
  the stack, those of a node to be left above its frame, so that an empty stack
  means that the marked nodes are closed, hence everything; `Ordering` adds
  that a node enters the list after its parents, and once. (5) `Zeroing`:
  `abs_scalar_zero_grad` unmarks below each node it leaves, so its marks are no
  record of where it has been; instead each mark will be taken back by a frame
  that is on the stack, each gradient is 0 or a frame will reset it, and
  `zero_grad` never meets a mark, as the marked nodes on its way are larger
  than the node it enters. `IInv` then says which of these holds in which phase
  (`Mode`), that flags are set only below the root of the running call or on
  freed nodes (`Outside`), and that the gradients of the last pass are
  derivatives (`Known`), whatever they were before; `GradientsAreDerivatives`
  needs that only where they were zero. Assumed: `ScalarAssumption`, and in each theorem
  `SigmoidOK`: the sigmoid of a number is a number.
* `RuntimeProofs`. `IInv` joins the types, the bus, the cache, the frames of the
  stack and the iterator. The dictionaries are reasoned about through
  `Nodes(d, k)`, what a lookup of `k` may see: `Dset` adds a node for `k` or
  replaces its value, keeps every other node, and loses a key only when memory
  is out, so `BusIsExact` survives handlers that register handlers.
  `MemoIsExact` is not inductive by itself: `RunsOK` says that for each key
  that has been computed the result is in the cache, or a run of it is still on
  the stack, or one of the three excuses holds. `EmitRunsAll` needs that a list
  only grows while `emit` walks it (`CalledUpTo`), the iterators that what was
  yielded is a prefix of what the lists hold now, wherever the lists grew
  (`ChainOK`, `CycleOK`), and that a wrapped step of a range ends it, and that the number at a place of
  the output is the one for that place or missing for want of memory (`GenOK`).
  Assumed: `RuntimeAssumption`.
* The last part of `RuntimeProofs` is about `Regex`. `RegexCorrect` proves
  `RegexMatchesLanguage` for all patterns and texts, from the stronger `Right`,
  which says what the code answers for patterns with `^` too. `RegexSpec` makes any call
  and asks of the calls of the regular expressions only that they are
  `CallRegex`; every behaviour of `Algorithms` is one of its behaviours. The
  invariant needs no strengthening, as each call stands alone; the work is in
  the operators. All of them go on from a position to later ones, so
  `Downwards` (what follows at each position from all later ones holds at all)
  stands in for induction, and `Recursion` gives each recursive function a
  solution. (1) `ConcatFacts`, `CutAt` and `PasteAt` turn a concatenation of
  words that stands in the text into the place where it is cut, so that
  `GoodStep` gives the language the recursion of `match_here`: a `c*` is the
  rest of the pattern here, or one character and the same again.
  (2) `LongestStep` gives the longest match the recursion of `match_len`.
  (3) A recursion has one solution (`MatchHereIs`, `MatchLenIs`), so the two
  matchers, which the C code writes twice and differently, agree with the
  language and with each other. (4) `FindTaken` finds the places of the matches
  `findall` takes, `SubCounted` counts the marks and the letters that `sub`
  leaves. Assumed: `RegexAssumption` (patterns and texts are sequences of
  characters, and no text contains the mark the caller puts in for a match).
* `NetworkProofs`. First the operators: a number written in k bytes by division
  is the number read back (`BigEndianIs`), so a frame that was encoded or masked
  decodes to its message whatever follows it, and no shorter part of it does
  (`FramesDecode`, `DecodesWhole`), for bytes, length fields and messages of any
  size. `FramesAreKept` is not inductive; `Kept` is: what
  `ws_recv` has read of a frame together with what is on its way begins, as long
  as it has not passed the damage, with one frame for each message sent before
  it and not answered yet (`Undamaged`), cut at the places `Boundaries` names,
  and is just that while nothing was torn. A write adds a frame at the end, a read moves bytes and changes
  nothing, a delivery removes the first frame, and the end of the stream cannot
  come within a frame. For the server, `HttpInv` says that who waits in the
  backlog waits once and has got nothing, and that from `recv` to the last
  `send` the answer held is that of the path the served connection asked for.
  Assumed: `NetworkAssumption` (unmasking undoes masking, the longest field
  holds every length, a key contains no end of line and a path no blank).

The definitions by recursion over numbers (`Power`, `Values`, `Reach`,
`Derivative`, those of `Regex`) are recursive functions; that they exist and what they compute is
proved from the principle of the least element (`LeastNat`, from the library's
`WFMin`). RECURSIVE operators and the library's induction rules, which take
operators as parameters, are out of the prover's reach, and so are liveness
under fairness and ENABLED. Only model-checked, therefore: the properties of
`Algorithms` other than `RegexMatchesLanguage`, whose operators are RECURSIVE
where the code is, and all liveness properties (`EverythingArrives`, `ClientsServed`, `CallsReturn` and the like).

## 5. Not modelled

* **Floating point and transcendental functions**: inverse and solving of
  matrices, softmax, regressions, distributions, slerp, projections, number
  formatting. Their correctness is in rounding, which neither tool treats.
* **Bit arithmetic without control**: the compression functions of SHA-1 and
  SHA-256, FNV, CRC and the cipher. A TLA+ version would repeat the C line by
  line, with nothing independent to compare it with; their padding, where the
  boundaries are, is modelled. The hash map takes its hash, and the handshake
  its digest, as arbitrary functions.
* **Thin wrappers over the operating system**: environment, path, time,
  directories, plugins and introspection; SVG and terminal drawing beyond the
  rows of the plot. There is no state of the library's own.
* **Parts of modelled files**: of `abs.c`, the printing of objects, the
  conversions between numbers and texts, the arithmetic operators on objects,
  changes of case, the class and attribute calls, the clock and `exec_cmd`;
  partial and compose (they wrap a pointer); allocation failures of images and of
  the containers and texts that pure functions build; the cursor of an open
  file, so reads are of whole files from the start; a second
  `abs_init` without `abs_cleanup`, which the documentation excludes.
* **Uses the library does not support**: one list or one try stack shared by
  threads, leaving a try block by `return`, `abs_cleanup` before the workers'
  end. Their outcomes are undefined behaviour; the hazards name them.
* **Build and installer scripts.**
