------------------------------ MODULE MCKernels -------------------------------
(***************************************************************************)
(* The kernels that share their work among the threads of an OpenMP team,  *)
(* together.  A client thread of the native API is inside one kernel at a  *)
(* time; each of the five modules has variables of its own, and those of   *)
(* the kernels that are not called stay as they are.                       *)
(***************************************************************************)
EXTENDS ParallelSort, ThresholdCodec, ParallelLoops, RandomBuffer,
        TensorAlongDimension

\* Arrays to sort: up to 5 keys with repetitions, ranges on both sides of the
\* cutoff.
Keys == UNION {[0 .. n - 1 -> 1 .. 3] : n \in 1 .. 4}
        \union [0 .. 4 -> 1 .. 2]

\* Coordinates of four entries, for the result of the sparse sort.
FewKeys == [0 .. 3 -> 0 .. 3]

\* Arrays to encode: elements on either side of the threshold 4 and of half of
\* it, of both signs.
ManyUpdates == UNION {[0 .. n - 1 -> {-5, -2, 4}] : n \in 1 .. 3}
               \union [0 .. 3 -> {-6, 4}]

Calls ==
  LET On(kind, x, matching) ==
        [kind |-> kind, x |-> x, matching |-> matching]
      Zeros(n) == [e \in 0 .. n - 1 |-> 0]
  IN  {On("reduce", Zeros(n), {}) : n \in 1 .. 8}
      \union {On("elementwise", Zeros(n), {}) : n \in {1, 9, 20}}
      \union {On("histogram", [e \in 0 .. n - 1 |-> (e % 5) - 1], {}) :
                n \in {3, 19}}
      \union {On("max", x, {}) : x \in [0 .. 4 -> 1 .. 3]}
      \union {On("ismax", x, {}) : x \in [0 .. 2 -> 1 .. 3]}
      \union {On(kind, x, matching) :
                kind \in {"first", "last"}, x \in [0 .. 4 -> 1 .. 2],
                matching \in {{}, {1}, {-1, 2}}}

NoFloat == -1

\* Arrays to slice: lengths of axes, those of length one in every place, in C
\* order, in Fortran order and with their axes moved around.
Lengths2To4 ==
  [1 .. 2 -> 1 .. 3] \union [1 .. 3 -> 1 .. 2]
  \union {<<2, 1, 3>>, <<3, 2, 1>>, <<2, 1, 1, 2>>, <<1, 2, 2, 1>>,
          <<2, 2, 1, 2>>}

Layouts(shape) ==
  LET around == [a \in DOMAIN shape |-> (a % Len(shape)) + 1]
  IN  {ShapeBuffer(shape), ShapeBufferFortran(shape),
       Permuted(ShapeBuffer(shape), around)}

\* What fits the slices along these axes: a row, or an array of their shape.
Operands(x, axes) ==
  LET lengths == Along(Chosen(x, axes), x.shape)
      shape == IF Len(lengths) = 1 THEN <<1>> \o lengths ELSE lengths
  IN  {ShapeBuffer(shape), ShapeBufferFortran(shape)}

\* Calls on two to six slices of x.
TadCallsOn(kinds, x) ==
  UNION {{[kind |-> kind, x |-> x, axes |-> axes, y |-> y] :
            kind \in kinds, y \in Operands(x, axes)} :
         axes \in {a \in SUBSET Axes(x) : a \notin {{}, Axes(x)}
                                          /\ NumTads(x, a) \in 2 .. 6}}

Sliced ==
  UNION {UNION {TadCallsOn({"reduce", "broadcast"}, x) : x \in Layouts(shape)}
         \union TadCallsOn({"broadcast"}, Transposed(ShapeBuffer(shape))) :
         shape \in Lengths2To4}

\* The arrays to reduce are as the theorem about reductions requires.
ASSUME SlicedDistancesAreTrue ==
  \A c \in Sliced : c.kind = "reduce" => EwsIsTrue(c.x)

\* Transposed arrays to reduce, as NDArray::transpose() leaves them.
SlicedTransposed ==
  UNION {TadCallsOn({"reduce"}, Transposed(ShapeBuffer(shape))) :
         shape \in Lengths2To4}

-----------------------------------------------------------------------------

VARIABLE kernel  \* the kernel that is called

kernelVars ==
  <<kernel, sortVars, codecVars, loopVars, vars, tadVars>>

SortAtRest ==
  /\ sort = [input |-> [p \in {0} |-> 1], kind |-> "dense",
             descending |-> FALSE]
  /\ array = [p \in {0} |-> [key |-> 1, was |-> 0]]
  /\ ranges = {} /\ frame = Idle

CodecAtRest ==
  /\ codec = [update |-> [e \in {0} |-> 0], kind |-> "threshold",
              limit |-> 0]
  /\ phase = "returned" /\ todo = {}
  /\ doing = [t \in CodecTeam |-> Between]
  /\ rest = [e \in {0} |-> 0] /\ target = [e \in {0} |-> 0]
  /\ message = [s \in {} |-> 0] /\ cnt = Header /\ flag = FALSE

LoopAtRest ==
  /\ call = [kind |-> "elementwise", x |-> [e \in {0} |-> 0],
             matching |-> {}]
  /\ team = {0}
  /\ at = [t \in team |-> [step |-> "done", chunk |-> 0, e |-> 0]]
  /\ local = [t \in team |-> [e \in {0} |-> 0]]
  /\ shared = StartingIndex("elementwise") /\ lock = -1
  /\ output = [e \in {0} |-> 1] /\ joined = 1

RandomAtRest == Init /\ contents = CHOOSE s \in Seeds : TRUE

TadAtRest ==
  LET one == ShapeBuffer(<<1, 1>>)
  IN  /\ along = [kind |-> "reduce", x |-> one, axes |-> {1}, y |-> one]
      /\ tad = NoTad /\ offsets = <<>>
      /\ left = {0} /\ out = [i \in left |-> <<>>]

KernelStart ==
  \/ /\ kernel = "sort" /\ SortStart
     /\ CodecAtRest /\ LoopAtRest /\ RandomAtRest /\ TadAtRest
  \/ /\ kernel = "codec" /\ CodecStart
     /\ SortAtRest /\ LoopAtRest /\ RandomAtRest /\ TadAtRest
  \/ /\ kernel = "loop" /\ LoopStart
     /\ SortAtRest /\ CodecAtRest /\ RandomAtRest /\ TadAtRest
  \/ /\ kernel = "random" /\ Init
     /\ SortAtRest /\ CodecAtRest /\ LoopAtRest /\ TadAtRest
  \/ /\ kernel = "tad" /\ TadStart
     /\ SortAtRest /\ CodecAtRest /\ LoopAtRest /\ RandomAtRest

KernelNext ==
  /\ \/ /\ kernel = "sort" /\ SortNext
        /\ UNCHANGED <<codecVars, loopVars, vars, tadVars>>
     \/ /\ kernel = "codec" /\ CodecNext
        /\ UNCHANGED <<sortVars, loopVars, vars, tadVars>>
     \/ /\ kernel = "loop" /\ LoopNext
        /\ UNCHANGED <<sortVars, codecVars, vars, tadVars>>
     \/ /\ kernel = "random" /\ Next
        /\ UNCHANGED <<sortVars, codecVars, loopVars, tadVars>>
     \/ /\ kernel = "tad" /\ TadNext
        /\ UNCHANGED <<sortVars, codecVars, loopVars, vars>>
  /\ UNCHANGED kernel

KernelSpec ==
  /\ KernelStart
  /\ [][KernelNext]_kernelVars
  /\ SortFairness
=============================================================================
