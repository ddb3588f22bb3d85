------------------------ MODULE TensorAlongDimension -------------------------
(***************************************************************************)
(* Tensors along dimensions (TADs): how a kernel finds the slices of an    *)
(* array along some of its axes (class TAD of helpers/shape.h), and two    *)
(* kernels that share the slices among a team: a reduction, which makes    *)
(* one result of each slice (loops/reduce.h), and a broadcast, which       *)
(* applies a smaller array to each slice in place (loops/broadcasting.h).  *)
(*                                                                         *)
(* An array is its descriptor: the lengths and strides of its axes, the    *)
(* distance between neighbours if there is one (ews, -1 if not), and the   *)
(* order of its elements.  An element is its place in the buffer.  Axes    *)
(* are numbered from 1, and a set of axes stands for the sorted vector     *)
(* that shape::checkDimensions makes.  All axes at once, or axes that      *)
(* leave one slice, make no reduction of slices: it goes over the whole    *)
(* array, as in KernelLoops.  A behaviour is one call.                     *)
(***************************************************************************)
EXTENDS Integers, Sequences, FiniteSets
Seqs == INSTANCE SequencesExt

CONSTANT TadCalls  \* the calls: a kind, an array, axes, an array to apply

IsDescriptor(x) ==
  /\ {x.shape, x.stride} \subseteq Seq(Nat \ {0})
  /\ Len(x.shape) > 1 /\ Len(x.stride) = Len(x.shape)
  /\ x.ews \in Int /\ x.order \in {"a", "c", "f"}

ASSUME TadAssumption ==
  \A c \in TadCalls :
    /\ c.kind \in {"reduce", "broadcast"}
    /\ IsDescriptor(c.x) /\ IsDescriptor(c.y)
    /\ c.axes # {} /\ c.axes \subseteq DOMAIN c.x.shape
    /\ c.axes # DOMAIN c.x.shape

VARIABLES
  along,    \* the call
  tad,      \* the descriptor of a slice, once it is made
  offsets,  \* slice -> where it begins
  left,     \* the slices nobody has computed
  out       \* reduce: result -> what is read for it, in order
            \* broadcast: place -> the elements of y applied to it

tadVars == <<along, tad, offsets, left, out>>

-----------------------------------------------------------------------------
(* Descriptors.                                                            *)

\* What a variable of the loops over axes is after each k of them.
Accumulated(start, times, plus) ==
  LET value[k \in 0 .. Len(times)] ==
        IF k = 0 THEN start ELSE value[k - 1] * times[k] + plus[k]
  IN  value

Products(lengths) == Accumulated(1, lengths, [a \in DOMAIN lengths |-> 0])
Product(lengths) == Products(lengths)[Len(lengths)]
Axes(x) == DOMAIN x.shape

\* Those of the first n axes that are in a set.
Ascending(n, axes) ==
  LET found[k \in 0 .. n] ==
        IF k = 0 THEN <<>>
        ELSE IF k \in axes THEN Append(found[k - 1], k) ELSE found[k - 1]
  IN  found[n]

Along(axes, values) == [k \in DOMAIN axes |-> values[axes[k]]]

IsVector(shape) == Len(shape) = 2 /\ 1 \in {shape[1], shape[2]}
IsScalar(x) == x.shape = <<1, 1>>

\* What the strides are when the first axis, or the last one, is the slowest.
CStrides(shape) ==
  [a \in DOMAIN shape |-> Products(Seqs!Reverse(shape))[Len(shape) - a]]
FStrides(shape) == [a \in DOMAIN shape |-> Products(shape)[a - 1]]

\* getOrder(): "a" stands for any order.  An array with a broken stride counts
\* as one in C order.
Order(shape, stride) ==
  CASE stride # FStrides(shape) -> "c"
    [] stride = CStrides(shape) -> "a"
    [] OTHER -> "f"

\* The distance between neighbours in C order, or -1: axes of length one do
\* not count.
ElementWiseStride(shape, stride) ==
  LET long == SelectSeq([a \in DOMAIN shape |-> a], LAMBDA a : shape[a] # 1)
  IN  IF IsVector(shape) \/ long = <<>> THEN Seqs!Last(stride)
      ELSE IF \A k \in 1 .. Len(long) - 1 :
                stride[long[k]] = shape[long[k + 1]] * stride[long[k + 1]]
      THEN stride[Seqs!Last(long)]
      ELSE -1

Described(shape, stride, ews) ==
  [shape |-> shape, stride |-> stride, ews |-> ews,
   order |-> Order(shape, stride)]

\* New arrays in C and in Fortran order; the strides of a vector are ones.
ShapeBuffer(shape) ==
  LET stride == IF IsVector(shape) THEN <<1, 1>> ELSE CStrides(shape)
  IN  [shape |-> shape, stride |-> stride,
       ews |-> ElementWiseStride(shape, stride), order |-> "c"]
ShapeBufferFortran(shape) ==
  LET stride == IF IsVector(shape) THEN <<1, 1>> ELSE FStrides(shape)
  IN  [shape |-> shape, stride |-> stride,
       ews |-> ElementWiseStride(shape, stride), order |-> "f"]

\* permuteShapeBuffer(): the axes in another order, over the same buffer.
Permuted(x, axes) == Described(Along(axes, x.shape), Along(axes, x.stride), -1)
Reversed(x) == Permuted(x, Seqs!Reverse([a \in Axes(x) |-> a]))

\* NDArray::transpose() and transposei() call the result contiguous.
Transposed(x) == [Reversed(x) EXCEPT !.ews = 1]

\* sliceOfShapeBuffer(0, x): the first axis cut off.  No TAD slices a vector.
Slice(x) ==
  IF Len(x.shape) = 2
  THEN Described(<<1, x.shape[2]>>, <<1, x.stride[2]>>, x.stride[2])
  ELSE Described(Tail(x.shape), Tail(x.stride), x.ews)

\* getOffset(): where the element with these coordinates is.
Offset(base, shape, stride, coordinates) ==
  Accumulated(base, [a \in DOMAIN shape |-> 1],
              [a \in DOMAIN shape |->
                 IF shape[a] = 1 THEN 0 ELSE coordinates[a] * stride[a]])
    [Len(shape)]

\* ind2subC() and ind2sub(): the coordinates of element i in C and in Fortran
\* order.
CCoordinates(shape, i) ==
  [a \in DOMAIN shape |-> (i \div CStrides(shape)[a]) % shape[a]]
FCoordinates(shape, i) ==
  [a \in DOMAIN shape |-> (i \div FStrides(shape)[a]) % shape[a]]

-----------------------------------------------------------------------------
(* The TAD of an array along the axes D.                                   *)

Chosen(x, D) == Ascending(Len(x.shape), D)
Others(x, D) == Chosen(x, Axes(x) \ D)
TadLength(x, D) == Product(Along(Chosen(x, D), x.shape))
NumTads(x, D) == Product(x.shape) \div TadLength(x, D)

\* With one result, exec() leaves the whole array to execScalar().
ASSUME SlicesAssumption ==
  \A c \in TadCalls : c.kind = "reduce" => NumTads(c.x, c.axes) > 1

\* Fault: whether the elements are next to each other is not asked.
WholeThing_AnyStride(x, D) ==
  IF IsVector(x.shape) THEN IsScalar(x)
  ELSE NumTads(x, D) \in {1, Product(x.shape)}

\* init(): slices that are found by their number alone.
WholeThing(x, D) ==
  IF IsVector(x.shape) THEN IsScalar(x)
  ELSE \/ NumTads(x, D) = 1
       \/ NumTads(x, D) = Product(x.shape) /\ x.ews = 1

\* tadOffset() with tad2Sub(): where slice i begins.
TadOffset(x, D, i) ==
  IF WholeThing(x, D) THEN i
  ELSE LET shape == Along(Others(x, D), x.shape)
       IN  Offset(0, shape, Along(Others(x, D), x.stride),
                  CCoordinates(shape, i))

\* The first axis is cut off while more than n elements are left.
CutTo(x, n) ==
  LET cut[k \in 0 .. Len(x.shape)] ==
        IF k = 0 THEN x
        ELSE LET y == cut[k - 1]
             IN  IF Product(y.shape) > n THEN Slice(y) ELSE y
  IN  cut[Len(x.shape)]

\* The axes of D go last, the last of them first; the other axes are cut off,
\* in one of three ways, and the axes of D put back in order.
FromSlices(x, D) ==
  LET first == Slice(Permuted(x, Others(x, D) \o Seqs!Reverse(Chosen(x, D))))
      n == TadLength(x, D)
      InOrderOf(y) == IF Cardinality(D) > 1 THEN Reversed(y) ELSE y
  IN  IF IsVector(first.shape) \/ Product(first.shape) = n
      THEN InOrderOf(first)
      ELSE IF Product(Tail(first.shape)) = n
      THEN LET y == Slice(first)
           IN  IF IsVector(y.shape) /\ y.shape[1] = 1 THEN y ELSE Reversed(y)
      ELSE InOrderOf(CutTo(first, n))

\* shapeInfoOnlyShapeAndStride(): the descriptor all slices share.
TadOnlyShapeInfo(x, D) ==
  CASE D = {1} /\ IsVector(x.shape) /\ x.shape[2] = 1 -> Reversed(x)
    [] D = {2} /\ IsVector(x.shape) /\ x.shape[1] = 1 -> x
    [] OTHER -> IF \E a \in D : D = {a} /\ x.shape[a] = 1
                THEN [shape |-> <<1, 1>>, stride |-> <<1, 1>>, ews |-> 1,
                      order |-> "a"]
                ELSE FromSlices(x, D)

-----------------------------------------------------------------------------
(* A call.                                                                 *)

NoTad == Described(<<>>, <<>>, 0)
source == along.x
dims == along.axes
other == along.y

TadStart ==
  /\ along \in TadCalls
  /\ tad = NoTad /\ offsets = <<>>
  /\ left = 0 .. NumTads(source, dims) - 1
  /\ out = IF along.kind = "reduce" THEN [i \in left |-> <<>>]
           ELSE [p \in 0 .. Product(source.shape) - 1 |-> <<>>]

CreateTadOnlyShapeInfo ==
  /\ tad = NoTad
  /\ tad' = TadOnlyShapeInfo(source, dims)
  /\ UNCHANGED <<along, offsets, left, out>>

\* The loop writes one entry for each slice, and is over before they are used.
CreateOffsets ==
  /\ tad # NoTad /\ DOMAIN offsets = {}
  /\ offsets' = [i \in left |-> TadOffset(source, dims, i)]
  /\ UNCHANGED <<along, tad, left, out>>

Begun(i) == DOMAIN offsets # {} /\ i \in left

\* A thread computes result i.
ReduceSlice(i) ==
  /\ along.kind = "reduce" /\ Begun(i)
  /\ LET Read(j) ==
           IF tad.ews > 0 /\ (NumTads(source, dims) = 1 \/ IsVector(tad.shape))
           THEN offsets[i] + j * tad.ews
           ELSE Offset(offsets[i], tad.shape, tad.stride,
                       CCoordinates(tad.shape, j))
     IN  out' = [out EXCEPT ![i] =
                   [k \in 1 .. TadLength(source, dims) |-> Read(k - 1)]]
  /\ left' = left \ {i}
  /\ UNCHANGED <<along, tad, offsets>>

\* A thread applies y to slice i, which the result shares.
BroadcastSlice(i) ==
  /\ along.kind = "broadcast" /\ Begun(i)
  /\ LET fast == tad.ews > 0 /\ other.ews > 0 /\ Cardinality(dims) = 1
         Coordinates(shape, f) == IF tad.order = "c"
                                  THEN CCoordinates(shape, f)
                                  ELSE FCoordinates(shape, f)
         Written(f) == IF fast THEN offsets[i] + f * tad.ews
                       ELSE Offset(offsets[i], tad.shape, tad.stride,
                                   Coordinates(tad.shape, f))
         Applied(f) == IF fast THEN f * other.ews
                       ELSE Offset(0, other.shape, other.stride,
                                   Coordinates(other.shape, f))
         Reach(p) == SelectSeq([k \in 1 .. TadLength(source, dims) |-> k - 1],
                               LAMBDA f : Written(f) = p)
     IN  out' = [p \in DOMAIN out |->
                   out[p] \o [k \in DOMAIN Reach(p) |-> Applied(Reach(p)[k])]]
  /\ left' = left \ {i}
  /\ UNCHANGED <<along, tad, offsets>>

TadNext ==
  \/ CreateTadOnlyShapeInfo \/ CreateOffsets
  \/ \E i \in left : ReduceSlice(i) \/ BroadcastSlice(i)

TadSpec == TadStart /\ [][TadNext]_tadVars

-----------------------------------------------------------------------------
(* Properties.                                                             *)

Cells(shape) ==
  {c \in [DOMAIN shape -> UNION {0 .. shape[a] - 1 : a \in DOMAIN shape}] :
     \A a \in DOMAIN shape : c[a] < shape[a]}

\* What ews promises: the elements in C order lie that far apart.
EwsIsTrue(x) ==
  x.ews > 0 =>
    \A c \in Cells(x.shape) :
      Offset(0, x.shape, x.stride, c)
        = x.ews * Accumulated(0, x.shape, c)[Len(x.shape)]

\* The number of the cell c among those of these axes, in C order.
Number(axes, c) ==
  Accumulated(0, Along(axes, source.shape), Along(axes, c))[Len(axes)]

\* Whatever the layout of the array, its axes of length one and the axes asked
\* for (helpers/shape.h:2043), a result is made of the elements of its own
\* slice, each once, results and elements counted in C order (reduce.h:570),
\* and in place a broadcast applies to every element the one element of y that
\* stands at its coordinates, once (broadcasting.h:309).
SlicesInOrder ==
  \A c \in Cells(source.shape) :
    LET p == Offset(0, source.shape, source.stride, c)
        i == Number(Others(source, dims), c)
        own == Along(Chosen(source, dims), c)
        cy == IF Cardinality(dims) = 1 THEN <<0>> \o own ELSE own
        applied == <<Offset(0, other.shape, other.stride, cy)>>
    IN  IF along.kind = "reduce"
        THEN i \notin left => out[i][Number(Chosen(source, dims), c) + 1] = p
        ELSE out[p] = applied \/ (out[p] = <<>> /\ left # {})
=============================================================================
