----------------------------- MODULE ParallelSort -----------------------------
(***************************************************************************)
(* The parallel quicksorts of libnd4j: quickSort_parallel of a dense array *)
(* (include/ops/specials.h) and coo_quickSort_parallel of the indices and  *)
(* values of a sparse one (include/ops/specials_sparse.h).                 *)
(*                                                                         *)
(* One thread of an OpenMP team starts with the whole array.  Whoever has  *)
(* partitioned a range sorts the two halves itself, the left one first,    *)
(* when the range was short, and otherwise leaves them to the team as two  *)
(* tasks.  Nothing is locked: the sorts rely on the ranges being disjoint. *)
(*                                                                         *)
(* An element is its key (of a sparse array: its coordinates, compared     *)
(* lexicographically, so a number will do) and the place it came from,     *)
(* which stands for the value that moves along with the coordinates.       *)
(***************************************************************************)
EXTENDS Integers, FiniteSets

CONSTANTS
  SortTeam,     \* the threads of the team
  SortInputs,   \* the arrays of keys that may be sorted
  SortKinds,    \* a subset of {"dense", "coo"}
  Cutoff,       \* ranges shorter than this are not split into tasks (1000)
  Nobody        \* no thread, no range

\* An array of n > 0 keys is a function on 0 .. n - 1.
IsArray(f) ==
  LET n == Cardinality(DOMAIN f)
  IN  n \in Nat \ {0} /\ f \in [0 .. n - 1 -> Int]

ASSUME SortAssumption ==
  /\ \A f \in SortInputs : IsArray(f)
  /\ SortKinds \subseteq {"dense", "coo"}
  /\ Cutoff \in Nat /\ Cutoff >= 2
  /\ Nobody \notin SortTeam

VARIABLES
  sort,     \* the call: the keys given, the kind, the direction
  array,    \* the array as it is now
  ranges,   \* what is left to sort: ranges, each with the thread it is with
  frame     \* thread -> the range it is partitioning, and how far it is

sortVars == <<sort, array, ranges, frame>>

Places == DOMAIN sort.input

\* The order: `descending` of the dense sort turns every comparison around.
Before(a, b) == IF sort.descending THEN a > b ELSE a < b

Part(l, r, t) == [left |-> l, right |-> r, by |-> t]
Within(r) == r.left .. r.right

Idle == [t \in SortTeam |-> Nobody]

\* A call begins: the thread that entered `single` has the whole array.
SortStart ==
  /\ \E f \in SortInputs, k \in SortKinds, d \in BOOLEAN :
       /\ d => k = "dense"
       /\ sort = [input |-> f, kind |-> k, descending |-> d]
       /\ array = [p \in DOMAIN f |-> [key |-> f[p], was |-> p]]
       /\ \E t \in SortTeam :
            ranges = {Part(0, Cardinality(DOMAIN f) - 1, t)}
  /\ frame = Idle

-----------------------------------------------------------------------------
(* The steps of a thread.                                                  *)

\* The ranges a thread may turn to: the leftmost of those it kept, which is
\* the order of the recursion, or a task nobody has begun if it kept none.
Candidates(t) ==
  LET kept == {r \in ranges : r.by = t}
  IN  IF kept = {} THEN {r \in ranges : r.by = Nobody}
      ELSE {r \in kept : \A s \in kept : r.left <= s.left}

\* Fault: the middle is computed from the length of the range alone.
Begin_MiddleOfLength(t) ==
  /\ frame[t] = Nobody
  /\ \E r \in Candidates(t) :
       LET mine   == [r EXCEPT !.by = t]
           middle == (r.right - r.left) \div 2
       IN  /\ ranges' = (ranges \ {r}) \union {mine}
           /\ frame' = [frame EXCEPT ![t] =
                [part |-> mine, i |-> r.left, j |-> r.right,
                 middle |-> middle, pivot |-> array[middle].key]]
  /\ UNCHANGED <<sort, array>>

\* It turns to a range and reads the pivot (dense) or notes its place (coo).
Begin(t) ==
  /\ frame[t] = Nobody
  /\ \E r \in Candidates(t) :
       LET mine   == [r EXCEPT !.by = t]
           middle == (r.left + r.right) \div 2
       IN  /\ ranges' = (ranges \ {r}) \union {mine}
           /\ frame' = [frame EXCEPT ![t] =
                [part |-> mine, i |-> r.left, j |-> r.right,
                 middle |-> middle, pivot |-> array[middle].key]]
  /\ UNCHANGED <<sort, array>>

\* Fault: the dense sort, too, looks where the pivot was.
Pivot_ByPlace(t) == array[frame[t].middle].key

\* What the scans compare with: the copy of the pivot, or whatever is now
\* where the pivot was.
Pivot(t) ==
  IF sort.kind = "dense" THEN frame[t].pivot
                         ELSE array[frame[t].middle].key

\* The scan from the left stops at p, the one from the right at q.
UpStopsAt(t, p) ==
  /\ p \in Places => ~ Before(array[p].key, Pivot(t))
  /\ \A k \in frame[t].i .. p - 1 :
       k \in Places /\ Before(array[k].key, Pivot(t))
DownStopsAt(t, q) ==
  /\ q \in Places => ~ Before(Pivot(t), array[q].key)
  /\ \A k \in q + 1 .. frame[t].j :
       k \in Places /\ Before(Pivot(t), array[k].key)

\* Fault: the keys change places and the values stay.
Swapped_KeysOnly(p, q) ==
  [array EXCEPT ![p].key = array[q].key, ![q].key = array[p].key]

Swapped(p, q) == [array EXCEPT ![p] = array[q], ![q] = array[p]]

Moved(f, i, j) == [f EXCEPT !.i = i, !.j = j]

\* Fault: the cursors stay on the elements that were swapped.
Exchange_KeepsCursors(t) ==
  /\ frame[t] # Nobody
  /\ frame[t].i <= frame[t].j
  /\ \E p \in Places \union {Cardinality(Places)}, q \in Places \union {-1} :
       /\ p >= frame[t].i /\ UpStopsAt(t, p)
       /\ q <= frame[t].j /\ DownStopsAt(t, q)
       /\ array' = IF p <= q THEN Swapped(p, q) ELSE array
       /\ frame' = [frame EXCEPT ![t] = Moved(@, p, q)]
  /\ UNCHANGED <<sort, ranges>>

\* One turn of the partition loop.  A scan that nothing stops ends one place
\* outside the array.
Exchange(t) ==
  /\ frame[t] # Nobody
  /\ frame[t].i <= frame[t].j
  /\ \E p \in Places \union {Cardinality(Places)}, q \in Places \union {-1} :
       /\ p >= frame[t].i /\ UpStopsAt(t, p)
       /\ q <= frame[t].j /\ DownStopsAt(t, q)
       /\ \/ /\ p <= q
             /\ array' = Swapped(p, q)
             /\ frame' = [frame EXCEPT ![t] = Moved(@, p + 1, q - 1)]
          \/ /\ p > q
             /\ frame' = [frame EXCEPT ![t] = Moved(@, p, q)]
             /\ UNCHANGED array
  /\ UNCHANGED <<sort, ranges>>

Partitioned(t) == frame[t] # Nobody /\ frame[t].i > frame[t].j
Extent(r) == r.right - r.left

\* A short range: the thread keeps the halves that have two elements or more.
Recurse(t) ==
  /\ Partitioned(t)
  /\ LET f == frame[t]
         halves == {Part(f.part.left, f.j, t), Part(f.i, f.part.right, t)}
     IN  /\ Extent(f.part) < Cutoff
         /\ ranges' = (ranges \ {f.part})
                      \union {h \in halves : h.left < h.right}
  /\ frame' = [frame EXCEPT ![t] = Nobody]
  /\ UNCHANGED <<sort, array>>

\* Fault: the left half ends where the right one begins.
Spawn_Overlaps(t) ==
  /\ Partitioned(t)
  /\ LET f == frame[t]
     IN  /\ Extent(f.part) >= Cutoff
         /\ ranges' = (ranges \ {f.part})
                      \union {Part(f.part.left, f.i, Nobody),
                              Part(f.i, f.part.right, Nobody)}
  /\ frame' = [frame EXCEPT ![t] = Nobody]
  /\ UNCHANGED <<sort, array>>

\* A long range: both halves become tasks.
Spawn(t) ==
  /\ Partitioned(t)
  /\ LET f == frame[t]
     IN  /\ Extent(f.part) >= Cutoff
         /\ ranges' = (ranges \ {f.part})
                      \union {Part(f.part.left, f.j, Nobody),
                              Part(f.i, f.part.right, Nobody)}
  /\ frame' = [frame EXCEPT ![t] = Nobody]
  /\ UNCHANGED <<sort, array>>

SortStep(t) == Begin(t) \/ Exchange(t) \/ Recurse(t) \/ Spawn(t)
SortNext == \E t \in SortTeam : SortStep(t)

SortFairness == \A t \in SortTeam : WF_sortVars(SortStep(t))
SortSpec == SortStart /\ [][SortNext]_sortVars /\ SortFairness

-----------------------------------------------------------------------------
(* Properties.                                                             *)

\* The call returns at the barrier that ends the region.
SortReturned == ranges = {}

\* Type invariant: ranges and frames are within the array.
SortTypeOK ==
  /\ sort \in [input : SortInputs, kind : SortKinds, descending : BOOLEAN]
  /\ array \in [Places -> [key : Int, was : Places]]
  /\ ranges \subseteq [left : Places, right : Places,
                       by : SortTeam \union {Nobody}]
  /\ \A t \in SortTeam : frame[t] # Nobody =>
       /\ frame[t].part \in ranges /\ frame[t].part.by = t
       /\ frame[t].i \in Places \union {Cardinality(Places)}
       /\ frame[t].j \in Places \union {-1}

\* Two ranges that are being or still to be sorted share no element: threads
\* that swap without a lock (specials.h:490, specials_sparse.h:102) never
\* touch the same element.
RangesApart ==
  \A r, s \in ranges : r # s => Within(r) \intersect Within(s) = {}

\* The scans of the next turn, one from the left and one from the right, both
\* stop at an element of the range, although neither loop tests a bound
\* (specials.h:473, 485): the pivot or an element swapped before is there.
ScansStayInRange ==
  \A t \in SortTeam :
    frame[t] # Nobody /\ frame[t].i <= frame[t].j =>
      LET f == frame[t]
      IN  /\ \E p \in f.i .. f.part.right : UpStopsAt(t, p)
          /\ \E q \in f.part.left .. f.j : DownStopsAt(t, q)

Sorted ==
  \A p, q \in Places : p < q => ~ Before(array[q].key, array[p].key)

\* When the dense sort returns, the array is in order.
InOrder == SortReturned /\ sort.kind = "dense" => Sorted

\* NativeOps.h:2947 promises the same of the sparse one: "special sort impl for
\* sorting out COO indices and values".
SparseInOrder == SortReturned /\ sort.kind = "coo" => Sorted

\* At every moment the array holds what it was given, every value with the
\* key or the coordinates it came with (specials_sparse.h:69).
NothingLost ==
  /\ \A p \in Places : array[p].key = sort.input[array[p].was]
  /\ \A p, q \in Places : p # q => array[p].was # array[q].was

\* A sort ends, whatever the schedule.
SortEnds == <>[]SortReturned
=============================================================================
