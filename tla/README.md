# A verification project for libnd4j

TLA+ models of the stateful parts of libnd4j (the native library behind ND4J:
arrays, operations on them, and a runtime that executes graphs of operations),
TLC configurations that check them on small instances, and TLAPS proofs that
hold for every instance. Paths are relative to the repository's `src/`; the
`include/` in them is `src/include/`. `PROJECT.json` maps every definition to
its source lines and lists runs, mutants, hazards, findings and theorems.

To check a module: `tlc -config Workspace.cfg Workspace`; to check its proofs:
`tlapm WorkspaceProofs.tla`.

## 1. The system

libnd4j is a C++11 library called through JNI. Most of its lines are numerical
kernels, loops over array elements parallelised with OpenMP; around them is a
small runtime that keeps state. Both have concurrency: threads of clients in the
runtime, threads of a team inside one call of a kernel.

| Component | State | Operations | Interacts with |
|---|---|---|---|
| **Workspace** `include/memory/cpu/Workspace.cpp` | one buffer, offset, size, list of spills, three atomic counters, two mutexes | `allocateBytes`, `scopeIn` (`freeSpills`, `init`), `scopeOut`, `clone`, destructor | asked for memory by any thread that creates arrays; scopes are called by its owner |
| **Graph** `include/graph/Graph.h`, `Node.h` | `_mapped`, `_onion` (execution layers), `_unmapped`, `_output`, `_built`, and the variable space | constructor from a FlatGraph, `addNode`, `addOutput`, `buildGraph`, `validate`, `totalNodes` | fills the VariableSpace and the Block of each custom node; read by the executor |
| **VariableSpace, Variable** `include/graph/VariableSpace.h`, `Variable.h` | maps by id, by (id, index) pair and by name; lists of handles, external, internal, placeholder variables | `putVariable` (by id, by pair), `getVariable`, `clone`, `setNDArray`, destructor | owned by a graph or a session; owns arrays |
| **SessionLocalStorage** `include/graph/SessionLocalStorage.h` | session counter, thread -> session, session -> cloned space, one mutex | `startSession`, `localVariableSpace` (with and without a session), `endSession` (both), `getSessionId` | gives each thread a clone of one VariableSpace |
| **GraphExecutioner** `blas/cpu/GraphExecutioner.cpp` | none of its own | `execute` runs the layers in order, `executeFlatNode` one node | reads Graph, reads and replaces arrays in VariableSpace, calls kernels and custom operations |
| **RandomBuffer** `include/helpers/helper_generator.h` | numbers, position, generation, seed, amplifier | `getElement`, `getNextElement`, `rewindH`, `refreshBuffer`, `reSeedBuffer` | read by every random operation from several OpenMP threads |
| **Stash** `include/graph/Stash.h` | (node, name) -> array | `storeArray`, `checkStash`, `extractArray`, `clear` | in a VariableSpace, for operations |
| **Block** `include/graph/Block.h` | an operation's inputs, arguments, time | `fillInputs`, getters | made by Graph, read by DeclarableOp |
| **OpRegistrator** `include/ops/declarable/declarable_ops.h` | operations by name and by hash, synonyms, a cached list | registration from static initialisers, lookups, `getAllCustomOperations` | asked by the graph constructor and the API |
| **DeclarableOp** `include/ops/declarable/declarable_ops.h` | descriptor, the block being executed | `execute` (three), `prepareOutputs`, validation | reads and fills VariableSpace |
| **NDArray, NDArrayFactory** `blas/cpu/` | buffer, shape, who owns them | views, `dup`, arithmetic | everything |
| **MemoryRegistrator** `include/memory/MemoryRegistrator.h` | the attached workspace | attach, forget, query | NDArray's `new`/`delete` |
| **Sorts** `include/ops/specials.h`, `specials_sparse.h` | the array; ranges left to sort, as recursion and as tasks | `quickSort_parallel`, `coo_quickSort_parallel` | the threads of a team swap elements without a lock |
| **Update codecs** `include/loops/type_conversions.h`, `include/ops/specials.h` | message, slot counter, stop flag | `convertToThreshold`, `convertFromThreshold`, `encodeBitmapGeneric`, `decodeBitmapGeneric` | the threads of an encoder share counter and flag; a receiver decodes what a sender kept out of its own array |
| **Loops** `include/loops/`, `include/pairwise_util.h`, `include/ops/special_ops.h` | partial results of each thread, a common result | `BlockInformation`, `execScalar` of reductions and index reductions, pairwise `exec`, `Histogram`, `IsMax` | called by the native API and the executor |
| **Shape, TAD** `include/helpers/shape.h` | descriptors; a TAD's offsets and the descriptor its slices share | making, permuting, slicing descriptors; `createTadOnlyShapeInfo`, `createOffsets`, `tadOffset` | asked by every kernel that works along axes |
| **PointersHelper, HashHelper, element operations, types, cnpy, layers, native API** | none | pure functions, formulas for one element, dispatch | |

What is hard, per component, and what makes it correct:

* **Workspace.** Threads allocate concurrently; the size check and the advance
  of the offset are under a mutex, the counters are separate atomics, and the
  scope calls take no lock at all. Correct: the offset stays in the buffer,
  reservations do not overlap, every byte asked for is counted once, every
  block is freed once, every path releases its mutex, and a buffer resized by
  `scopeIn` serves the next cycle without spilling.
* **Graph.** Nodes arrive in id order of a flatbuffer or in any order a client
  chooses, are placed at once or wait for `buildGraph`, which sweeps a map it
  erases from while it iterates. Correct: every node ends up once in a layer
  after those of its producers, `buildGraph` ends, `_built` is never stale,
  outputs follow the configured mode, custom operations find their inputs.
* **VariableSpace.** One variable can be reached along three maps and owns an
  array a client may own too. Correct: the views agree, nothing is deleted
  twice or still reachable when deleted, clones are independent copies.
* **SessionLocalStorage.** Two-step critical sections, a throwing lookup under
  a manually locked mutex. Correct: sessions are private, a lookup returns the
  caller's own space, calls return.
* **GraphExecutioner.** Legacy operations write where their input is. Correct:
  the result is that of the data flow, as if nothing were shared, in every
  order within a layer and on re-execution, also after a failure.
* **RandomBuffer.** Indices wrap, threads take chunks, pairs must stay in a
  chunk. Correct: the result does not depend on the threads, an
  operation leaves the next one its own numbers (retries of truncated draws apart,
  section 6), no part of the stream is lost.
* **Sorts.** Nothing is locked and no scan tests a bound: everything rests on
  ranges that never overlap and on elements that stop the scans. Correct: the
  result is sorted, keys stay with their values, threads never meet, the call
  ends.
* **Update codecs.** Threads race for slots of a message that may be too short,
  and learn late that it is full; the decoder adds without atomics. Correct: the
  message is complete and names no element twice, and what the sender keeps and
  the receiver adds is what there was.
* **Loops.** Truncated quotients decide who visits what; parts are combined in
  the order threads happen to finish. Correct: every element exactly once, and
  the result one thread would have computed.
* **Slices.** The descriptor of a slice is cut out of that of the array in one of
  several ways, chosen by rank, unit axes and lengths that agree by accident, and
  trusts flags that other code has set. Correct: a slice has its own elements,
  each once, and in the order the kernels count them in.

## 2. The modules

| Module | Models | Proofs |
|---|---|---|
| `Workspace` | the workspace with its threads and its scope owner | `WorkspaceProofs` |
| `Graph` (+ `MCGraph`) | addNode, addOutput, buildGraph | `GraphProofs` |
| `SessionTable` | abstract specification of the storage | |
| `Sessions` | SessionLocalStorage; implements `SessionTable` | `SessionsProofs` |
| `VariableSpace` (+ `MCVariableSpace`) | spaces, variables, arrays, ownership | `VariableSpaceProofs` |
| `GraphExecutioner` (+ `MCGraphExecutioner`) | execution of a built graph | `GraphExecutionerProofs` |
| `RandomBuffer` | the buffer and the operations that draw from it | `LoopProofs` |
| `ParallelSort` | the parallel quicksorts of dense and sparse arrays | `SpecialsProofs` |
| `ThresholdCodec` | threshold and bitmap encoding of updates | `SpecialsProofs` |
| `ParallelLoops` | how loops are shared out and their parts combined | `LoopProofs` |
| `TensorAlongDimension` | slices of arrays along axes; a reduction and a broadcast over them | `TadProofs` |
| `MCKernels` | a call of one kernel of the last four modules and `RandomBuffer`, the others at rest | |

A definition named `X_Word` with a comment that begins "Fault:" is not part of
the model: it is a plausible bug of `X`, kept next to it, and shows for one
property that the property would notice (`mutants` in `PROJECT.json`).

### Workspace

A thread in `allocateBytes` is at one of `lock, check, advance, point, malloc,
push, count`: one step for each lock operation or atomic access of lines 77 to
102. The owner's `scopeIn` is `free, clear, load, init, resize, reset`, again
one step for each access. `heap` is what malloc returned and nobody freed.
`granted` records the reservations of a cycle. With `disciplined` the owner
calls only when no allocation is in flight, as the tests do; without it scope
calls race with allocations, and the properties that survive are stated
without it. Sums of bytes, which the code never forms, are the sizes of sets
(`Total`), so that the proofs can use what is known of finite sets.

### Graph

A node is its inputs as (producer, index) pairs, its outputs, and whether it
carries a custom operation; a client picks one of `Graphs` and adds its nodes
in any order. `addNode` is one action (variables, block, outputs, placing).
`buildGraph` is split at each node it visits, only because its sweep stands on
an iterator: `map.erase(it->first)` and then `it++` is undefined behaviour,
and `EraseOutcomes` lists what it can do (`next`: what the author expects;
`skip`: reach a later node or the end of the sweep; `crash`).
`producersFirst` and `WholeGraphs` are disciplines of the client; `orderly`
records whether a client numbered its nodes producers first and had added all of
them whenever it built. `NodeOutputs(n)` is the set of ids that `addNode` may
push to `_output`, `PushOnce` pushes those of them that are not there, in the
order of the code. `ConsumersDeclared` says of a graph that exactly the nodes
somebody reads declare an internal output, which is all `addNode` goes by.

### Sessions and SessionTable

One step for each critical section of `_mutex`. `std::map::at` between `lock()`
and `unlock()` throws for an unknown session, and nothing unlocks: `LookupThrows`
keeps `held`, and every other step waits for it. `paired` clients call
`startSession`, then lookups, then `endSession`; others call anything.
`SessionTable` says what the class is for, in two actions: a thread starts with
a session nobody was ever given, and ends it. `Sessions` implements it under
the mapping at the end of the module (property `ImplementsTable`, and theorem).

### VariableSpace

Variables are numbered as they are made; `freed` lists the calls of the
destructor in order, each with the array it deletes (0 for none), so that a
second deletion of either shows as a repetition. `_variables` and
`_temporary` (ids by sign) are one function. `putVariable` by id and by pair,
which call each other, are each one action with all they do. Calls are atomic:
the callers in `src/` fill a space from one thread.

### GraphExecutioner

The contents of a buffer are a term: an input of run r, or what node n computes
from terms. `Meaning` evaluates the graph as if every result had its own array;
the properties compare it with what is in memory. What each operation type
writes to (its own array, its input's, a view, a copy when the producer has
several declared outputs) is `TransformTarget`, `ScalarTarget`, `PutNew`,
`Broadcast`. Custom operations write arrays of their own or fail. `addNode` gives
a node without declared outputs its own id (`Graph.h:443-455`), so none is without
outputs here, and pairwise transforms, which ask for that, never work in place.
`WritesInPlace(g, n)` says from the graph alone whether node n may compute where
its first input is, and `Separate(g)` that what is overwritten like that is read
by no other node and that an external output belongs to one node.
Layers are those `GraphProofs` proves `buildGraph` gives to a graph that is
numbered producers first.

### RandomBuffer

A number is what it is computed from: seed, index, the shifts applied. An
operation is one step, since its threads only read the buffer and write
disjoint results (`ChunksPartition`); `Reads` and `Takes` say which elements it
uses and how far it moves the position. `Rewind` is `rewindH`. A truncated draw
that rejects its values tries again, an array's length further ahead each time
(`special_random_ops.h:802-812`); how often depends on the numbers and is a choice
of the step (`retries`). Two history variables compare what has been read with
what `rewindH` counts: `ahead`, how far past the position elements have been read,
and `retried`, how far past it retries account for.

### ParallelSort

`ranges` are the calls of `quickSort_parallel_internal` that have not returned:
kept by the thread that recurses, or left to the team as tasks. A thread takes
one range at a time; one turn of the partition loop, both scans and the swap, is
a step, because threads whose ranges are apart (`RangesApart`) cannot see each
other inside it. An element is its key and where it came from, so that a value
that lost its key shows (`NothingLost`). Coordinates of a sparse entry are one
number, in lexicographic order. The dense sort compares with a copy of the
pivot, the sparse one with whatever is now where the pivot was (`Pivot`). No scan tests a
bound, in the code or in the model: `Exchange` lets one run on, past the end of the
range if nothing in it stops it, and that there always is something in it is
`ScansStayInRange`, about where the scans of the next turn stop.

### ThresholdCodec

A call of an encoder and then of the decoder of its message. `todo` holds the
iterations nobody has begun: any thread may begin any, which covers every OpenMP
schedule. An iteration of `convertToThreshold` is the read of the flag, the
claim of a slot with what is written for it, and the write of the flag; an
iteration of `convertFromThreshold` is a read and a write of the target. The
client is outside `src/`: it asks for at most as many slots as elements reach
the threshold, and gives zeroed memory.

### ParallelLoops

One call of a loop by a team. A thread is at an element of a chunk; a visit is a
step, and so is each access to what threads share. What is computed from numbers
is left out: a partial sum counts how often each element went into it. `Dealt`
loops deal chunks round robin, the others give each thread one span, and IsMax
lets every thread scan the whole array. Its reads of the shared maximum and
index, without the lock they are written under, are two steps in either order,
and so are the writes.

### TensorAlongDimension

A descriptor is the lengths and strides of the axes, the distance between
neighbours if there is one (`ews`), and the order; an element is its place in
the buffer. One call makes the descriptor of a slice (`CreateTadOnlyShapeInfo`),
then the place where each slice begins (`CreateOffsets`, one step: the iterations
write different entries and all end before one is used), and then computes the
slices one by one, in any order, which is any schedule. What a reduction or a
broadcast computes from numbers is left out: for each result, what it reads in
order; for each place, which element of the smaller array is applied to it. The
slicing of a descriptor drops an axis at a time (`CutTo`). Loops over axes are
functions of the number of axes done (`Accumulated`), so nothing is a recursive
operator.
A call that would leave one result is no reduction of slices: `exec` hands the whole
array to `execScalar` (`reduce.h:535`), and `SlicesAssumption` excludes it here.
`SlicesInOrder` says with coordinates, and not with the code's case distinctions,
which elements these should be. `ews` of a transposed array is 1, as
`NDArray::transpose` leaves it.

## 3. Runs

All parameters named Max... are bounds of the model, not of the code.

| Run | Question | Bounds and why they suffice |
|---|---|---|
| `workspace` | Do counters, offset, spills and blocks stay consistent, are peaks learned, do calls return? | Two threads and the owner, requests of 1 and 2 bytes on a buffer of 2, four bytes per cycle, one completed `scopeIn`: a request fits, just does not fit, spills; the cycle grows the buffer; both owners. A third thread adds no new pair of steps, a second cycle repeats the first with a larger buffer. |
| `workspace_region` | Is the region returned inside the buffer? Violated. | as above |
| `graph_any` | Every acyclic graph of three nodes over any numbering, added in any order, built at any time, every mode, every outcome of the iterator; layers and blocks for clients that number or add producers first. | Three nodes, two of them custom with two outputs, are enough for a producer that waits, a consumer visited before it and one after; one explicit output. `LayersRespectInputs` is proved for any number of nodes. |
| `graph_placement` | Is a node skipped while a producer waits? Violated. | three nodes |
| `sessions` | Sessions, maps, refinement, termination, for paired and for other clients. | Two threads, three sessions: one thread's second session meets the other's first. |
| `sessions_zero` | Does session 0 exist? Violated. | two sessions |
| `variable_space` | Views, ownership, clones. | One external and one internal id, two outputs each, three variables: put twice under one id, by id after pair, pair after id. |
| `executioner` | Results of every wiring of three nodes, every choice of operations, two executions, failures. | Three nodes: a producer and two readers, in both orders of a layer; the second execution meets the arrays of the first. |
| `executioner_branches` | May an operation overwrite what another branch reads? Violated. | the graphs `executioner` leaves out |
| `kernels` | Do sorts, codecs, loops, random operations and operations along axes come out as one thread would have computed, on every schedule? | Two threads (three for some loops). Sorts: every array of up to four keys among three or of five among two, both directions, ranges of three split into tasks (the code: 1000). Codecs: up to four elements below, at and over the threshold with either sign, every limit up to what is needed; bitmap words of two elements, so that the last word is full, partly filled and extra. Loops: arrays that divide evenly among chunks and that do not, ties, values at the start value, no match. Random operations: seven elements, so that they end before, on and after the end and go round up to seven times, truncated draws with and without a retry; lengths 1, 4, 13, 50 give one, two and three chunks, and an odd length; up to three threads. Slices: arrays of two to four axes with axes of length one in every place, in C order, Fortran order and permuted, two to six slices along every set of axes, a smaller array in either order; transposed arrays for broadcasts. |
| `sort_coo` | Does the sparse sort sort? Violated. | every array of four coordinates among four |
| `slices_transposed` | Is a transposed array reduced like any other? Violated. | the arrays of `kernels`, transposed |

`executioner` takes the graphs of three nodes that satisfy `Separate`
(`SeparateGraphs`), which is also the hypothesis of the theorems about the
executor. In the graphs of the runs consumers are declared and an external input
has one reader, so single-input operations copy what has several readers, and pairwise
ones have arrays of their own: the graphs left out have a BROADCAST over something
another node reads. They are known to fail, which is what `executioner_branches`
shows.
`Stale` excludes from its
properties a second execution of graphs with INDEX_ACCUMULATION or BROADCAST,
which keep the first result (section 6).

Fairness. `Workspace`: a thread inside `allocateBytes` and an owner inside
`scopeIn` are not stopped by anything but the mutex, so each of their steps is
weakly fair; nobody has to make a call. Weak fairness is enough for the mutex:
`MaxDemand` bounds the calls of a cycle, so a waiting thread is not overtaken for
ever, and a fair `std::mutex` need not be assumed. `Graph`: `buildGraph` runs in
its caller's thread and is not left half way, weakly fair. `Sessions`: the steps
of a call are weakly fair; a critical section that returns is one step, so the
mutex is free in between. `ParallelSort`: each thread of a team keeps running
until the region ends (weak fairness of its steps), as OpenMP threads do; the
other loops have a fixed number of iterations, so that they end shows nothing.
The other modules have only safety properties and
assume no fairness.

CHECK_DEADLOCK is off where the system may stop: clients need not go on calling,
a destroyed workspace accepts no call, a call of a kernel returns, and a lookup
that threw blocks everybody (the hazard itself; `CallsReturn` states when it cannot happen).

## 4. Proofs

For every value of the constants, under the named assumption on constants of
each module:

* `WorkspaceProofs`: `TypeCorrect`, `OffsetStaysInBuffer`. The offset is
  advanced one step after it was compared, so `OffsetInBuffer` is not
  inductive. `IInv` adds: the thread that advances holds the mutex
  (`HoldsMutex`), so nobody else advances in between; its request still fits
  (`RoomToAdvance`), even if the owner resets the offset or resizes the buffer
  meanwhile, because a resize only grows it (`GrowsOnly`).
  The other theorems are about an owner that waits.
  `ReservationsStayDisjoint`: the list of ranges only says something once they
  are known to be in order and below the offset, and a thread that has advanced
  the offset but has not taken its pointer owns the last piece below it
  (`ReserveInv`). `BlocksStayOwned`: a block is held by one thread from `malloc`
  until it is pushed, so freeing what is listed frees nothing in use (`OwnInv`).
  `RequestsStayAccounted` follows the counters one by one through the steps at
  which they lag behind each other: at each, the difference is what the threads
  there ask for (`Balance`; `CountInv` keeps the sets that are summed finite).
  `NoSpillsWithinPeak`: a thread past the check has found the cycle above the
  peak, and what `scopeIn` has loaded is what it resizes to (`PeakInv`).
* `GraphProofs`: `BuiltStaysCurrent` is inductive as it stands.
  `NodesArePlacedOnce` rests on `PlacementInv`: the onion and the layers say the
  same (`OnionInv`), nothing mapped waits and the sweep stands on what waits
  (`SweepInv`); it holds for every outcome of the erased iterator.
  `LayersOrderExecution` is about a client that was `orderly` (plain inputs,
  producers numbered first, the whole graph added whenever it was built, the
  iterator did what is expected) and adds `OrderInv`: whatever is below the
  cursor in id order is mapped, so no producer of the visited node waits.
  `graph_placement` shows that the numbering is needed.
  `BlocksStayFilled` (`BlockInv`): the space has the variables of every added
  node, so that for a client that adds producers first a block is complete when
  it is made. `OutputsFollowMode` (`OutputInv`): at any time the output list is
  what was asked for and what the mode says of the nodes added so far, and
  pushes keep it free of repetitions; what it is for a whole graph follows, for
  the IMPLICIT modes under `ConsumersDeclared`.
* `VariableSpaceProofs`: for any ids, names and bounds. `SpaceIsInvariant` has
  six parts that need each other: handles are each variable once (`HandlesInv`),
  the views by id and name lead to variables the space holds (`ViewInv`), a
  variable is held by one space or was deleted, once (`OwnersInv`), an array
  belongs to one such variable, and one a client keeps to the variable it came
  with (`ArrayInv`), the counts are those of the map (`EntryInv`), besides the types.
  Each call is first shown to be one of few kinds of step (a variable enters a
  space, a variable is touched, a clone, a destructor), and each kind to keep the
  parts. `ViewsStayAgreed`, `NothingIsDeletedTwice`, `ClientsKeepTheirArrays`,
  `NothingEverDangles`, `EntriesStayCounted` and `ClonesAreFaithful` follow.
* `GraphExecutionerProofs`: for any graph that satisfies `Separate`, of any number
  of nodes, any operations, any order within the layers, and any
  number of executions. `ExecInv` says three things. Two variables have one
  array only along a chain of nodes each of which computes where its first input
  is, in ascending layers (`SpaceOK`, `Before`). What has been executed is whole layers
  and part of the next (`Progress`). And a variable holds what it means until the
  node that computes in its place has run, an external output from then on for
  good (`Right`). The step that matters: what a node writes over was
  overwritten before, or is what it overwrites itself, or belongs to a later layer
  and will be written again (`Touched`), and none of these is something a node yet
  to run reads. `InputsStayIntact`,
  `ResultsFollowDataflow` and `OutputsFollowDataflow` follow. `Layers` and
  `Meanings` are recursive functions on the graph; that they have the values
  their equations say is proved from the least id at which they would not.
* `SessionsProofs`: `TypesHold`, `SessionsAreDistinct`, `LookupReturnsOwnSpace`
  for any clients, from `Numbering` (a number in flight belongs to one thread and
  to no clone yet). `MapsStayExact`, `ClonesStayPrivate` and the refinement
  `SessionsImplementTable` for paired clients, from `PairedInv` (what a thread
  keeps in each half of each call).
* `LoopProofs`, about the two modules in which a team shares a loop out.
  For `ParallelLoops`, with any length, team and array: a chunk has one owner
  (`ChunkOf`, `Owner`), and what a thread has visited follows from where it is
  (`Visited`, `InPlace`). `EveryElementIsTakenOnce` counts each element in the
  partial sums and in their sum, with what has been merged (`Reduced`,
  `Written`, `Binned`). `SearchesFindTheIndex`: a partial result is the best of
  what its thread has visited and the common one the best of what has been
  merged (`Best`, `Merged`), whatever the order of the updates.
  `FirstMaximumIsMarked`: a thread may start from the maximum another one stored
  with an index of something else; then it finds nothing greater, and does not
  store (`Seeking`).
  For `RandomBuffer`: `EveryResultOnce` and `PairsStayWhole` need no
  invariant but the type of the operation: the span is at least the share of
  the rounds plus one, so the chunks reach the end, and division puts a round
  in one chunk only; an even span begins each chunk on a pair. `TypeCorrect`,
  `StreamMoves`, `SplitsAgree` and `ReadingAheadIsRetrying` come from `RewindMoves`
  (the stream moves by exactly n), `DrawKeepsElements` and `ReadsBound` (reads go
  at most one past what is taken and, in a truncated draw, an array's length more
  for each retry).
* `SpecialsProofs`, first part: sorts of arrays of any length, any keys, team and
  cutoff. `SortInvariant` says of every range that it is in the array, apart from
  the others and that places outside of it are already on the right side of it;
  and of every frame that what lies behind a cursor is on its side of the pivot and
  that, until the cursors cross, something ahead of each will stop it; the first such
  place, the least or greatest of those in the range, is where the scan ends
  (`UpStops`, `DownStops`). For the sparse sort only the second half of this is left, which is why
  `ScansAreBounded`, `RangesAlwaysApart` and `SortLosesNothing` hold of both
  sorts and `DenseSortSorts` of one.
* `SpecialsProofs`, second part: codecs, for arrays of any length, any limit and
  team. `CodecInvariant` relates the slots written so far to what is left of the
  elements they name, says who is still to be visited, and, in the decoder,
  which slots have landed. That the message is complete needs counting:
  while slots are free every element that reaches the threshold is waiting,
  being visited or named, so an encoder that stopped early would have named all
  of them, and there are at least as many as slots (`SlotsUsedUp`).
  `CounterStaysNear` is from `CounterInv`: while the flag is down the counter is
  ahead by the threads about to raise it, afterwards by those that had passed it.

* `TadProofs`: `ReductionsAreInOrder`, reductions to more than one result of arrays
  of any number of axes with any lengths and strides, along any set of axes. The hypothesis
  `EwsIsTrue`: where an array claims a distance between neighbours, its elements in
  C order lie that far apart. `MCKernels` assumes it of the arrays of `kernels`
  (`SlicedDistancesAreTrue`, which TLC evaluates); without it the theorem is false,
  which is what `slices_transposed` shows. An element is its coordinates. Three
  facts about them carry the proof:
  * `SliceBegins`: the place of an element is a sum over the axes, which splits
    into the part along the axes asked for and that along the others
    (`WaySplits`), and the second part is where `tadOffset` says the slice begins.
    When the slice is found by its number alone, either there is one slice, and
    every other axis has length one, or slices have one element and the distance
    between neighbours is 1.
  * `FromSlicesIs`: each of the three ways to cut the descriptor ends at the moved
    array without its first k axes (`Cut`), where what is left of the other axes
    has length one (`CutsOfMoved`: products of lengths only grow); whether the
    axes asked for are then turned around depends on the way (`Sorted`).
  * `SliceIsRead`: through that descriptor element v of a slice, counted in C
    order, is read at the place of the cell whose number it is; axes of length one
    change neither numbers nor places (`OnesAreSilent`), and dividing by the
    strides of C order gives the coordinates back (`CoordinatesAre`).

  `ReductionInvariant` says that descriptor and offsets are made before a slice is
  computed and that what is computed is read through them; with the three facts it
  gives `SlicesInOrder`.

Only model-checked: liveness (`BuildEnds`, both `CallsReturn`, `SortEnds`), which
the proof system does not reach, and `SlicesInOrder` for broadcasts. Those need
more of an array than reductions: no two elements may share a place, and the
smaller array has to fit the slices. The reverse holds of `BuiltIsCurrent`, which
is proved and in no run.

## 5. Findings

Each is a run that TLC ends with a counterexample.

* `workspace_region` - `allocateBytes` takes `_ptrHost + _offset` after it has
  advanced `_offset` (`Workspace.cpp:96-97`): what it returns starts where the
  reserved region ends, and the last request of a full buffer lies outside it.
* `graph_placement` - `Graph.h:574` says a node waits while an input is not
  mapped; the `continue` at line 581 continues the loop over the inputs, and the
  node is placed.
* `sessions_zero` - `SessionLocalStorage.h:32` says key 0 holds the original
  space; nothing inserts it, and a lookup throws with the mutex locked.
* `executioner_branches` - `GraphExecutioner.cpp:144` promises to duplicate an
  output used in different branches; BROADCAST (line 483) writes over it. In the
  trace node 1 feeds nodes 2 and 3, and the BROADCAST of node 2 leaves its own
  result where node 3 reads that of node 1.
* `sort_coo` - `coo_quickSort_parallel_internal` remembers the place of the pivot
  (`specials_sparse.h:88`) and goes on comparing with whatever is swapped there:
  four entries with coordinates 1, 2, 0, 0 come back as 0, 1, 0, 2.
  `NativeOps.h:2947` calls it a sort of indices and values.
* `slices_transposed` - `transpose()` permutes the descriptor and calls the result
  contiguous (`NDArray.cpp:664`, under "fixme: this is bad"), which TAD believes
  (`shape.h:1521`): a reduction of the transposed array along an axis of length
  one returns the elements in the order of the buffer. Broadcasts over transposed
  arrays come out right in `kernels`, since each place is visited once and the
  smaller array is then a single element.

## 6. Other disagreements met while modelling

Not runs, because no line of the repository is contradicted by a behaviour or
the property would be about something the models leave out.

* `Workspace::clone()` takes the larger of the current size and the bytes of the
  current cycle (`Workspace.cpp:127`); `Workspace.h:67` says "of the same memory
  size".
* `endSession` erases the map entry and leaks the clone
  (`SessionLocalStorage.h:94-96`).
* A custom node added before its producer keeps a null entry in its block for
  good (`Graph.h:403-419`); `BlocksFilled` is stated for producers-first clients.
* Inputs given as (id, index) pairs set neither `_hasExternalInputs` nor
  `_hasInternalInputs` (`Node.h:256`), so such a node is not put in the first
  layer by `addNode` (`Graph.h:482`).
* VARIABLE_SPACE mode omits nodes whose outputs are external only
  (`Graph.h:438`); `config.fbs:20` speaks of the whole space.
* IMPLICIT mode decides from declared outputs: a node that declares none is
  returned even if others read it (`Graph.h:443`; `config.fbs:17`).
  `OutputsByMode` speaks of these modes under `ConsumersDeclared`, which the
  graphs of the runs satisfy.
* A put under a known id hands the array over and drops, and so leaks, the new
  variable (`VariableSpace.h:256-265`).
* INDEX_ACCUMULATION and BROADCAST put new variables under known ids, so a second
  execution keeps the first result; BROADCAST also gives one array two owners
  (`GraphExecutioner.cpp:460, 502`).
* A node that declares the single output 0 keeps it beside its own id
  (`Graph.h:443`), counts as one with two readers, and all operations but
  TRANSFORM and custom ones would look for a variable 0 (`GraphExecutioner.cpp:464`).
  `NodeDefs` has no such nodes.
* External outputs of custom operations are never filled
  (`GraphExecutioner.cpp:131-134`).
* `validate()` and `buildGraph()` take no lock (`Graph.h:718`).
* `Stash::extractArray` of an absent key inserts a null pointer.
* The hash of a synonym registered before its operation would throw in
  `getOperationFloat(hash)` (`declarable_ops.h:336-356`); every synonym in the
  repository is declared after its operation in the same header, so that path
  is not taken.
* FirstIndex and LastIndex ignore a result without an index only under CUDA
  (`ops.h:2378`): on a CPU a condition that the start value `-MAX_FLOAT` meets
  may return -1 although elements match, depending on the order of the threads.
  `IndexIsRight` excludes such conditions. Likewise ties of IndexMax go to the
  lower index only under CUDA (`ops.h:2550`).
* IsMax computed in place with several threads reads elements that another
  thread has zeroed (`special_ops.h:1906`); the model writes elsewhere.
* The decoder of a bitmap reads one word more than the encoder writes when the
  length is a multiple of 16 (`specials.h:582`). The comments at
  `type_conversions.h:629` and `:681` say 3 where the code adds 4.
* A truncated draw that rejects its values reads elements an array's length further
  ahead (`special_random_ops.h:811`), while `rewindH` takes off one length whatever
  the retries (line 820): the next operation draws elements that already decided, or
  were drawn by, the last one. `OnlyRetriesReadAhead` bounds this.
* `span * (tid + 1)` is computed in `int` (`special_ops.h:752`) and overflows for
  lengths near 2^31; lengths in the model are far below.
* `refreshBuffer` keeps the generation (`NativeOps.cpp:2888`): after a wrap the
  same seed gives other numbers. From the second generation on `getElement`
  shifts elements past the end twice, so they differ from what is read there
  after a rewind; `SplitDrawsAgree` says up to where they agree.
* A broadcast into another array uses the slices of the input for the result
  (`NDArray.cpp:1597` "eventually we want separate tads here",
  `GraphExecutioner.cpp:496`); the model broadcasts in place.
* `sliceOfShapeBuffer` of a row vector copies too few bytes (a parenthesis closed
  too late, `shape.h:3914`) and leaves `ews` and order unset; no TAD slices a
  vector. A TAD along all of three axes or more drops the first; callers treat that case
  apart.
* Binomial draws read element (e+1)*t for trial t of result e: results share
  elements, and some of those taken are never read. An OpenMP team smaller than
  asked for would leave chunks of the chunked operations unwritten; the model
  assumes teams of the size asked for.

## 7. Plan

Done: Workspace, Graph, Sessions with its abstract specification, VariableSpace,
GraphExecutioner, RandomBuffer, the sorts, the update codecs, the loops and the
slices of arrays along axes, and the proofs of section 4.

Next, in this order:

1. The `DeclarableOp` framework (blocks, `execute(inputs, outputs)`, validation)
   composed with VariableSpace and `Stash`; embedded graphs in the executor.
2. NDArray ownership with MemoryRegistrator and Workspace: which of buffer and
   shape is freed by whom, views, `replacePointers`.
3. The rest of `shape.h` (reshaping, iteration over raw buffers, concatenation);
   the layout of `PointersHelper`.
4. Index reductions, scalars and sorts along dimensions, concat, pooling.
5. Proofs: `SlicesInOrder` for broadcasts, and `EwsIsTrue` of new and permuted
   arrays.

## 8. Not modelled, and why

Declarable operations, formulas for one element, gemm, layers and conversions
between number formats are sequential and stateless, and tested numerically.
`OpRegistrator` is filled by static initialisers before `main`, synonyms after
their operations, and only read afterwards. `DeclarableOp::_block`
(`declarable_ops.h:734`) is written by every execution and never read. CUDA
variants belong to another backend whose sources are not in the repository.
FlatBuffers code is generated; protobuf, flatbuffers, b40c, cblas, lapacke,
googletest and cnpy are third-party. The native API casts and dispatches.
`ArrayList`, `ShapeList`, `NDIndex`, `mman.h` and `sharedmem.h` hold no state that
changes in an interesting way. `PROJECT.json` lists each with its files.
