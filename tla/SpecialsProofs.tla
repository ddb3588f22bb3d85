---------------------------- MODULE SpecialsProofs ----------------------------
(***************************************************************************)
(* Proofs about the algorithms of ops/specials.h that the threads of a     *)
(* team run without locks: the parallel sorts, for arrays of any length,   *)
(* any cutoff and any number of threads, and the update codecs, for arrays *)
(* of any length, any limit and any number of threads.                     *)
(***************************************************************************)
EXTENDS ParallelSort, ThresholdCodec, FiniteSetTheorems, NaturalsInduction,
        WellFoundedInduction, TLAPS

USE SortAssumption

(***************************************************************************)
(* ParallelSort                                                            *)
(***************************************************************************)

Last == Cardinality(Places) - 1

LEMMA Middle ==
  ASSUME NEW l \in Nat, NEW r \in Nat, l <= r
  PROVE  LET m == (l + r) \div 2
         IN  m \in l .. r /\ (l + 2 <= r => l < m /\ m < r)
OBVIOUS

\* The places of an array are numbered from zero.
LEMMA PlacesType ==
  ASSUME sort \in [input : SortInputs, kind : SortKinds,
                   descending : BOOLEAN]
  PROVE  /\ Last \in Nat /\ Places = 0 .. Last
         /\ sort.input \in [Places -> Int]
<1>1. IsArray(sort.input)
  OBVIOUS
<1>2. QED
  BY <1>1 DEF IsArray, Places, Last

-----------------------------------------------------------------------------
(* The inductive invariant.                                                *)

Ranges == [left : Places, right : Places, by : SortTeam \union {Nobody}]
Frames ==
  [part : Ranges, i : Int, j : Int, middle : Int, pivot : Int]

SortTypes ==
  /\ sort \in [input : SortInputs, kind : SortKinds, descending : BOOLEAN]
  /\ array \in [Places -> [key : Int, was : Places]]
  /\ ranges \subseteq Ranges
  /\ \A r \in ranges : r.left <= r.right
  /\ frame \in [SortTeam -> Frames \union {Nobody}]

Key(p) == array[p].key

\* A frame begins at the ends of its range with the pivot in the middle; its
\* first turn moves both cursors, and leaves two halves of a long range.
Cursors(f) ==
  LET l == f.part.left
      r == f.part.right
  IN  \/ /\ f.i = l /\ f.j = r
         /\ f.pivot = Key(f.middle) /\ f.middle = (l + r) \div 2
      \/ /\ l < f.i /\ f.i <= r + 1 /\ l - 1 <= f.j /\ f.j < r
         /\ l + 2 <= r => f.i <= r /\ l <= f.j

\* While the cursors have not met, each has an element before it that stops
\* it, even if the place of the pivot has another element by now.
Stopped(t) ==
  LET f == frame[t]
  IN  f.i <= f.j =>
        /\ \E k \in f.i .. f.part.right : ~ Before(Key(k), Pivot(t))
        /\ \E k \in f.part.left .. f.j : ~ Before(Pivot(t), Key(k))

\* What the cursors of the dense sort have passed is on its side of the pivot.
Split(f) ==
  /\ \A k \in f.part.left .. f.i - 1 : ~ Before(f.pivot, Key(k))
  /\ \A k \in f.j + 1 .. f.part.right : ~ Before(Key(k), f.pivot)

FrameInv(t) ==
  LET f == frame[t]
  IN  f # Nobody =>
        /\ f.part \in ranges /\ f.part.by = t
        /\ f.middle \in Within(f.part)
        /\ Cursors(f) /\ Stopped(t)
        /\ sort.kind = "dense" => Split(f)

\* Two elements of a dense array that are out of order have a range in common.
OrderInv ==
  sort.kind = "dense" =>
    \A u, v \in Places : u < v /\ Before(Key(v), Key(u)) =>
      \E r \in ranges : u \in Within(r) /\ v \in Within(r)

SortInv ==
  /\ SortTypes /\ RangesApart /\ OrderInv
  /\ \A t \in SortTeam : FrameInv(t)

-----------------------------------------------------------------------------
(* The order.                                                              *)

LEMMA Order ==
  ASSUME SortTypes, NEW a \in Int, NEW b \in Int, NEW c \in Int
  PROVE  /\ ~ Before(a, a)
         /\ Before(a, b) => ~ Before(b, a)
         /\ ~ Before(a, b) /\ ~ Before(b, c) => ~ Before(a, c)
BY DEF SortTypes, Before

LEMMA KeyType ==
  ASSUME SortTypes, NEW p \in Places
  PROVE  Key(p) \in Int
BY DEF SortTypes, Key

\* What is known of a thread that partitions a range.
LEMMA FrameType ==
  ASSUME SortInv, NEW t \in SortTeam, frame[t] # Nobody
  PROVE  LET f == frame[t]
         IN  /\ f \in Frames /\ f.part \in ranges /\ f.part \in Ranges
             /\ f.part.by = t /\ f.part.left <= f.part.right
             /\ f.part.left \in Nat /\ f.part.right \in Nat
             /\ Within(f.part) \subseteq Places
             /\ f.middle \in Within(f.part)
             /\ Cursors(f) /\ Stopped(t)
             /\ f.i \in f.part.left .. f.part.right + 1
             /\ f.j \in f.part.left - 1 .. f.part.right
             /\ sort.kind = "dense" => Split(f)
<1> DEFINE f == frame[t]
<1>1. f \in Frames /\ f.part \in ranges /\ f.part.left <= f.part.right
      /\ Cursors(f) /\ Stopped(t) /\ f.middle \in Within(f.part)
      /\ f.part.by = t /\ (sort.kind = "dense" => Split(f))
  BY DEF SortInv, FrameInv, SortTypes
<1>2. Places = 0 .. Last /\ Last \in Nat
  BY PlacesType DEF SortInv, SortTypes
<1>3. f.part \in Ranges /\ f.part.left \in Nat /\ f.part.right \in Nat
      /\ f.part.right <= Last /\ f.i \in Int /\ f.j \in Int
  BY <1>1, <1>2 DEF Frames, Ranges
<1>4. f.i \in f.part.left .. f.part.right + 1
      /\ f.j \in f.part.left - 1 .. f.part.right
  BY <1>1, <1>3 DEF Cursors
<1>5. Within(f.part) \subseteq Places
  BY <1>2, <1>3 DEF Within
<1>6. QED
  BY <1>1, <1>3, <1>4, <1>5

LEMMA PivotType ==
  ASSUME SortInv, NEW t \in SortTeam, frame[t] # Nobody
  PROVE  Pivot(t) \in Int
<1>1. SortTypes /\ frame[t] \in Frames /\ frame[t].middle \in Places
  BY FrameType DEF SortInv
<1>2. frame[t].pivot \in Int /\ Key(frame[t].middle) \in Int
  BY <1>1, KeyType DEF Frames
<1>3. QED
  BY <1>2 DEF Pivot, Key

-----------------------------------------------------------------------------
(* A turn of the partition loop: where the scans stop.                     *)

Turn(t, p, q) ==
  /\ frame[t] # Nobody /\ frame[t].i <= frame[t].j
  /\ p \in Places \union {Cardinality(Places)} /\ q \in Places \union {-1}
  /\ p >= frame[t].i /\ UpStopsAt(t, p)
  /\ q <= frame[t].j /\ DownStopsAt(t, q)

LEMMA TurnStops ==
  ASSUME SortInv, NEW t \in SortTeam, NEW p, NEW q, Turn(t, p, q)
  PROVE  LET f == frame[t]
         IN  /\ p \in f.i .. f.part.right /\ q \in f.part.left .. f.j
             /\ p \in Within(f.part) /\ q \in Within(f.part)
             /\ ~ Before(Key(p), Pivot(t)) /\ ~ Before(Pivot(t), Key(q))
<1> DEFINE f == frame[t]
           l == f.part.left
           r == f.part.right
<1>1. frame[t] # Nobody /\ SortInv /\ SortTypes
  BY DEF Turn, SortInv
<1>2. /\ l \in Nat /\ r \in Nat /\ Within(f.part) \subseteq Places
      /\ f.i \in l .. r + 1 /\ f.j \in l - 1 .. r /\ Stopped(t)
  BY <1>1, FrameType
<1>3. Places = 0 .. Last /\ Last \in Nat /\ Cardinality(Places) = Last + 1
  <2>1. Places = 0 .. Last /\ Last \in Nat
    BY <1>1, PlacesType DEF SortTypes
  <2>2. QED
    BY <2>1, FS_Interval, FS_CardinalityType DEF Last
<1>4. p \in Int /\ q \in Int /\ f.i <= p /\ q <= f.j /\ f.i <= f.j
  BY <1>3 DEF Turn
<1>5. PICK k \in f.i .. r : ~ Before(Key(k), Pivot(t))
  BY <1>2, <1>4 DEF Stopped
<1>6. PICK m \in l .. f.j : ~ Before(Pivot(t), Key(m))
  BY <1>2, <1>4 DEF Stopped
<1>7. p <= k
  <2>1. \A e \in f.i .. p - 1 : Before(Key(e), Pivot(t))
    BY DEF Turn, UpStopsAt, Key
  <2>2. QED
    BY <1>2, <1>4, <1>5, <2>1
<1>8. m <= q
  <2>1. \A e \in q + 1 .. f.j : Before(Pivot(t), Key(e))
    BY DEF Turn, DownStopsAt, Key
  <2>2. QED
    BY <1>2, <1>4, <1>6, <2>1
<1>9. p \in f.i .. r /\ q \in l .. f.j
  BY <1>2, <1>4, <1>5, <1>6, <1>7, <1>8
<1>10. p \in Within(f.part) /\ q \in Within(f.part)
  BY <1>2, <1>9 DEF Within
<1>11. p \in Places /\ q \in Places
  BY <1>2, <1>10
<1>12. ~ Before(Key(p), Pivot(t)) /\ ~ Before(Pivot(t), Key(q))
  BY <1>11 DEF Turn, UpStopsAt, DownStopsAt, Key
<1>13. QED
  BY <1>9, <1>10, <1>12

\* The first turn stops at the pivot, where both cursors end up beside it.
LEMMA FirstTurn ==
  ASSUME SortInv, NEW t \in SortTeam, NEW p, NEW q, Turn(t, p, q),
         frame[t].i = frame[t].part.left, frame[t].j = frame[t].part.right
  PROVE  /\ p <= frame[t].middle /\ frame[t].middle <= q
         /\ frame[t].middle =
              (frame[t].part.left + frame[t].part.right) \div 2
<1> DEFINE f == frame[t]
           m == f.middle
<1>1. frame[t] # Nobody /\ SortInv /\ SortTypes
  BY DEF Turn, SortInv
<1>2. /\ f.part.left \in Nat /\ f.part.right \in Nat
      /\ Within(f.part) \subseteq Places
      /\ m \in Within(f.part) /\ Cursors(f)
  BY <1>1, FrameType
<1>3. f.pivot = Key(m) /\ m = (f.part.left + f.part.right) \div 2
  BY <1>2 DEF Cursors
<1>4. Pivot(t) = Key(m)
  BY <1>3 DEF Pivot, Key
<1>5. Key(m) \in Int /\ ~ Before(Key(m), Key(m))
  BY <1>1, <1>2, KeyType, Order
<1>6. p \in Int /\ q \in Int
  <2>1. p \in f.i .. f.part.right /\ q \in f.part.left .. f.j
    BY TurnStops
  <2>2. QED
    BY <2>1
<1>7. p <= m
  <2>1. \A e \in f.i .. p - 1 : Before(Key(e), Pivot(t))
    BY DEF Turn, UpStopsAt, Key
  <2>2. QED
    BY <1>2, <1>4, <1>5, <1>6, <2>1 DEF Within
<1>8. m <= q
  <2>1. \A e \in q + 1 .. f.j : Before(Pivot(t), Key(e))
    BY DEF Turn, DownStopsAt, Key
  <2>2. QED
    BY <1>2, <1>4, <1>5, <1>6, <2>1 DEF Within
<1>9. QED
  BY <1>3, <1>7, <1>8

-----------------------------------------------------------------------------
(* The frame of a thread that does not step, or whose array does not.      *)

LEMMA FrameStays ==
  ASSUME SortInv, NEW u \in SortTeam,
         frame'[u] = frame[u], sort' = sort,
         frame[u] # Nobody => frame[u].part \in ranges',
         frame[u] # Nobody =>
           \A k \in Within(frame[u].part) : array'[k] = array[k]
  PROVE  FrameInv(u)'
<1> DEFINE f == frame[u]
           l == f.part.left
           r == f.part.right
<1> SUFFICES ASSUME f # Nobody
             PROVE  /\ f.part \in ranges' /\ f.part.by = u
                    /\ f.middle \in Within(f.part)
                    /\ Cursors(f)' /\ Stopped(u)'
                    /\ sort.kind = "dense" => Split(f)'
  BY DEF FrameInv, Cursors, Split, Within
<1>1. /\ l \in Nat /\ r \in Nat /\ f.part.by = u
      /\ f.middle \in Within(f.part)
      /\ Cursors(f) /\ Stopped(u) /\ (sort.kind = "dense" => Split(f))
      /\ f.i \in l .. r + 1 /\ f.j \in l - 1 .. r
  BY FrameType
<1>2. \A k \in l .. r : Key(k)' = Key(k)
  BY DEF Within, Key
<1>3. f.middle \in l .. r
  BY <1>1 DEF Within
<1>4. Cursors(f)'
  BY <1>1, <1>2, <1>3 DEF Cursors
<1>5. Stopped(u)'
  <2>1. Pivot(u)' = Pivot(u)
    BY <1>2, <1>3 DEF Pivot, Key
  <2>2. SUFFICES ASSUME f.i <= f.j
        PROVE  /\ \E k \in f.i .. r : ~ Before(Key(k)', Pivot(u)')
               /\ \E k \in l .. f.j : ~ Before(Pivot(u)', Key(k)')
    BY DEF Stopped, Before
  <2>3. PICK k \in f.i .. r : ~ Before(Key(k), Pivot(u))
    BY <1>1, <2>2 DEF Stopped
  <2>4. PICK m \in l .. f.j : ~ Before(Pivot(u), Key(m))
    BY <1>1, <2>2 DEF Stopped
  <2>5. k \in l .. r /\ m \in l .. r
    BY <1>1, <2>3, <2>4
  <2>6. QED
    BY <1>2, <2>1, <2>3, <2>4, <2>5
<1>6. sort.kind = "dense" => Split(f)'
  <2>1. \A k \in l .. f.i - 1 : k \in l .. r
    BY <1>1
  <2>2. \A k \in f.j + 1 .. r : k \in l .. r
    BY <1>1
  <2>3. QED
    BY <1>1, <1>2, <2>1, <2>2 DEF Split, Before
<1>7. QED
  BY <1>1, <1>4, <1>5, <1>6

\* Two threads partition ranges that share no place.
LEMMA ThreadsApart ==
  ASSUME SortInv, NEW t \in SortTeam, NEW u \in SortTeam, t # u,
         frame[t] # Nobody, frame[u] # Nobody
  PROVE  /\ frame[t].part # frame[u].part
         /\ Within(frame[t].part) \intersect Within(frame[u].part) = {}
<1>1. /\ frame[t].part \in ranges /\ frame[t].part.by = t
      /\ frame[u].part \in ranges /\ frame[u].part.by = u
  BY FrameType
<1>2. QED
  BY <1>1 DEF SortInv, RangesApart

-----------------------------------------------------------------------------
(* Exchange.                                                               *)

\* What a turn does to the array and to the frame.
Exchanges(t, p, q) ==
  /\ UNCHANGED <<sort, ranges>>
  /\ \/ /\ p <= q /\ array' = Swapped(p, q)
        /\ frame' = [frame EXCEPT ![t] = Moved(@, p + 1, q - 1)]
     \/ /\ p > q /\ UNCHANGED array
        /\ frame' = [frame EXCEPT ![t] = Moved(@, p, q)]

LEMMA MovedFrame ==
  ASSUME NEW f \in Frames, NEW a \in Int, NEW b \in Int
  PROVE  LET g == Moved(f, a, b)
         IN  /\ g \in Frames /\ g.i = a /\ g.j = b
             /\ g.part = f.part /\ g.middle = f.middle /\ g.pivot = f.pivot
BY DEF Frames, Moved

LEMMA ExchangeTypes ==
  ASSUME SortInv, NEW t \in SortTeam, NEW p, NEW q, Turn(t, p, q),
         Exchanges(t, p, q)
  PROVE  LET f == frame[t]
             g == frame'[t]
         IN  /\ SortTypes' /\ g \in Frames
             /\ g.part = f.part /\ g.middle = f.middle /\ g.pivot = f.pivot
             /\ p \in Places /\ q \in Places /\ p \in Int /\ q \in Int
             /\ \/ p <= q /\ g.i = p + 1 /\ g.j = q - 1
                \/ p > q /\ g.i = p /\ g.j = q
             /\ \A u \in SortTeam : u # t => frame'[u] = frame[u]
<1>1. SortTypes /\ frame[t] \in Frames /\ t \in SortTeam
      /\ Within(frame[t].part) \subseteq Places
  BY FrameType DEF SortInv, Turn
<1>2. p \in Places /\ q \in Places
  BY <1>1, TurnStops
<1>3. Places = 0 .. Last /\ p \in Int /\ q \in Int
  BY <1>1, <1>2, PlacesType DEF SortTypes
<1>4. frame \in [SortTeam -> Frames \union {Nobody}]
  BY <1>1 DEF SortTypes
<1>5. PICK a \in Int, b \in Int :
        /\ \/ p <= q /\ a = p + 1 /\ b = q - 1 /\ array' = Swapped(p, q)
           \/ p > q /\ a = p /\ b = q /\ array' = array
        /\ frame' = [frame EXCEPT ![t] = Moved(@, a, b)]
        /\ sort' = sort /\ ranges' = ranges
  BY <1>3 DEF Exchanges
<1>6. frame' = [frame EXCEPT ![t] = Moved(frame[t], a, b)]
  BY <1>5
<1>7. Moved(frame[t], a, b) \in Frames
  BY <1>1, MovedFrame
<1>8. frame' \in [SortTeam -> Frames \union {Nobody}]
      /\ frame'[t] = Moved(frame[t], a, b)
      /\ \A u \in SortTeam : u # t => frame'[u] = frame[u]
  BY <1>4, <1>6, <1>7
<1>9. array' \in [Places -> [key : Int, was : Places]]
  BY <1>1, <1>2, <1>5 DEF Swapped, SortTypes
<1>10. SortTypes'
  BY <1>1, <1>5, <1>8, <1>9 DEF SortTypes, Ranges, Frames, Places
<1>11. QED
  BY <1>1, <1>2, <1>3, <1>5, <1>8, <1>10, MovedFrame

\* A turn moves keys within its own range only.
LEMMA ExchangeWithin ==
  ASSUME SortInv, NEW t \in SortTeam, NEW p, NEW q, Turn(t, p, q),
         Exchanges(t, p, q)
  PROVE  LET mine == Within(frame[t].part)
         IN  /\ \A k \in Places \ mine : array'[k] = array[k]
             /\ \A k \in mine : \E m \in mine : array'[k] = array[m]
<1> DEFINE mine == Within(frame[t].part)
<1>1. mine \subseteq Places /\ p \in mine /\ q \in mine /\ SortTypes
  BY FrameType, TurnStops DEF Turn, SortInv
<1> HIDE DEF mine
<1> SUFFICES /\ \A k \in Places \ mine : array'[k] = array[k]
             /\ \A k \in mine : \E m \in mine : array'[k] = array[m]
  BY DEF mine
<1>2. CASE p <= q /\ array' = Swapped(p, q)
  <2>1. \A k \in Places : array'[k] = IF k = q THEN array[p]
                                      ELSE IF k = p THEN array[q]
                                      ELSE array[k]
    BY <1>1, <1>2 DEF Swapped, SortTypes
  <2>2. QED
    BY <1>1, <2>1
<1>3. CASE array' = array
  BY <1>3
<1>4. QED
  BY <1>2, <1>3 DEF Exchanges

LEMMA ExchangeOrder ==
  ASSUME SortInv, NEW t \in SortTeam, NEW p, NEW q, Turn(t, p, q),
         Exchanges(t, p, q)
  PROVE  OrderInv'
<1> DEFINE r == frame[t].part
<1>1. /\ r \in ranges /\ r.left \in Nat /\ r.right \in Nat
      /\ Within(r) \subseteq Places /\ SortTypes
  BY FrameType DEF Turn, SortInv
<1>2. Places = 0 .. Last
  BY <1>1, PlacesType DEF SortTypes
<1> SUFFICES ASSUME sort.kind = "dense", NEW u \in Places, NEW v \in Places,
                    u < v, Before(array'[v].key, array'[u].key)
             PROVE  \E s \in ranges : u \in Within(s) /\ v \in Within(s)
  BY DEF OrderInv, Exchanges, Places, Within, Key, Before
<1>3. \A a, b \in Places : a < b /\ Before(Key(b), Key(a)) =>
        \E s \in ranges : a \in Within(s) /\ b \in Within(s)
  BY DEF SortInv, OrderInv
<1>4. \A s \in ranges : s # r => Within(s) \intersect Within(r) = {}
  BY <1>1 DEF SortInv, RangesApart
<1>5. /\ \A k \in Places \ Within(r) : array'[k] = array[k]
      /\ \A k \in Within(r) : \E m \in Within(r) : array'[k] = array[m]
  BY ExchangeWithin
<1>6. CASE u \in Within(r) /\ v \in Within(r)
  BY <1>1, <1>6
<1>7. CASE u \notin Within(r) /\ v \notin Within(r)
  BY <1>3, <1>5, <1>7 DEF Key
<1>8. CASE u \notin Within(r) /\ v \in Within(r)
  <2>1. PICK m \in Within(r) : array'[v] = array[m]
    BY <1>5, <1>8
  <2>2. u < m /\ m \in Places
    BY <1>1, <1>2, <1>8, <2>1 DEF Within
  <2>3. \E s \in ranges : u \in Within(s) /\ m \in Within(s)
    BY <1>3, <1>5, <1>8, <2>1, <2>2 DEF Key
  <2>4. QED
    BY <1>4, <1>8, <2>1, <2>3
<1>9. CASE u \in Within(r) /\ v \notin Within(r)
  <2>1. PICK m \in Within(r) : array'[u] = array[m]
    BY <1>5, <1>9
  <2>2. m < v /\ m \in Places
    BY <1>1, <1>2, <1>9, <2>1 DEF Within
  <2>3. \E s \in ranges : m \in Within(s) /\ v \in Within(s)
    BY <1>3, <1>5, <1>9, <2>1, <2>2 DEF Key
  <2>4. QED
    BY <1>4, <1>9, <2>1, <2>3
<1>10. QED
  BY <1>6, <1>7, <1>8, <1>9

\* The cursors after a turn.
LEMMA ExchangeCursors ==
  ASSUME SortInv, NEW t \in SortTeam, NEW p, NEW q, Turn(t, p, q),
         Exchanges(t, p, q)
  PROVE  LET g == frame'[t]
             l == g.part.left
             r == g.part.right
         IN  /\ l < g.i /\ g.i <= r + 1 /\ l - 1 <= g.j /\ g.j < r
             /\ l + 2 <= r => g.i <= r /\ l <= g.j
<1> DEFINE f == frame[t]
           g == frame'[t]
           l == f.part.left
           r == f.part.right
<1>1. /\ l \in Nat /\ r \in Nat /\ l <= r /\ Cursors(f)
      /\ f.i \in l .. r + 1 /\ f.j \in l - 1 .. r
  BY FrameType DEF Turn
<1>2. /\ g.part = f.part /\ p \in Int /\ q \in Int
      /\ \/ p <= q /\ g.i = p + 1 /\ g.j = q - 1
         \/ p > q /\ g.i = p /\ g.j = q
  BY ExchangeTypes
<1>3. p \in f.i .. r /\ q \in l .. f.j
  BY TurnStops
<1>4. CASE f.i = l /\ f.j = r
  <2>1. p <= f.middle /\ f.middle <= q /\ f.middle = (l + r) \div 2
    BY <1>4, FirstTurn
  <2>2. f.middle \in l .. r /\ (l + 2 <= r => l < f.middle /\ f.middle < r)
    BY <1>1, <2>1, Middle
  <2>3. g.i = p + 1 /\ g.j = q - 1
    BY <1>2, <2>1, <2>2
  <2>4. QED
    BY <1>1, <1>2, <1>3, <2>1, <2>2, <2>3
<1>5. CASE l < f.i /\ f.j < r
  BY <1>1, <1>2, <1>3, <1>5
<1>6. QED
  BY <1>1, <1>4, <1>5 DEF Cursors

\* While the cursors have not met, the elements exchanged stop them.
LEMMA ExchangeStops ==
  ASSUME SortInv, NEW t \in SortTeam, NEW p, NEW q, Turn(t, p, q),
         Exchanges(t, p, q)
  PROVE  Stopped(t)'
<1> DEFINE f == frame[t]
           g == frame'[t]
           l == f.part.left
           r == f.part.right
<1>1. /\ l \in Nat /\ r \in Nat /\ SortTypes /\ f.middle \in Within(f.part)
      /\ Within(f.part) \subseteq Places
      /\ f.i \in l .. r + 1 /\ f.j \in l - 1 .. r
  BY FrameType DEF Turn, SortInv
<1>2. /\ g.part = f.part /\ g.middle = f.middle /\ g.pivot = f.pivot
      /\ p \in Places /\ q \in Places /\ p \in Int /\ q \in Int
      /\ \/ p <= q /\ g.i = p + 1 /\ g.j = q - 1
         \/ p > q /\ g.i = p /\ g.j = q
  BY ExchangeTypes
<1>3. /\ p \in f.i .. r /\ q \in l .. f.j
      /\ ~ Before(Key(p), Pivot(t)) /\ ~ Before(Pivot(t), Key(q))
  BY TurnStops
<1> SUFFICES ASSUME g.i <= g.j
             PROVE  /\ \E k \in g.i .. r : ~ Before(Key(k)', Pivot(t)')
                    /\ \E k \in l .. g.j : ~ Before(Pivot(t)', Key(k)')
  BY <1>2 DEF Stopped, Before, Exchanges
<1>4. g.i = p + 1 /\ g.j = q - 1 /\ p < q
  BY <1>2
<1>5. q \in g.i .. r /\ p \in l .. g.j
  BY <1>1, <1>2, <1>3, <1>4
<1>6. array' = Swapped(p, q) /\ sort' = sort
  BY <1>2, <1>4 DEF Exchanges
<1>7. \A k \in Places : array'[k] = IF k = q THEN array[p]
                                    ELSE IF k = p THEN array[q]
                                    ELSE array[k]
  BY <1>1, <1>2, <1>6 DEF Swapped, SortTypes
<1>8. Key(p)' = Key(q) /\ Key(q)' = Key(p)
  BY <1>2, <1>7 DEF Key
<1>9. Pivot(t) \in Int /\ Key(p) \in Int /\ Key(q) \in Int
  BY <1>1, <1>2, KeyType, PivotType DEF Turn
<1>10. Pivot(t)' \in {Pivot(t), Key(p), Key(q)}
  <2>1. CASE sort.kind = "dense"
    BY <1>2, <1>6, <2>1 DEF Pivot
  <2>2. CASE sort.kind # "dense"
    <3>1. Pivot(t)' = array'[f.middle].key /\ Pivot(t) = Key(f.middle)
      BY <1>2, <1>6, <2>2 DEF Pivot, Key
    <3>2. f.middle \in Places
      BY <1>1
    <3>3. QED
      BY <1>7, <3>1, <3>2 DEF Key
  <2>3. QED
    BY <2>1, <2>2
<1>11. ~ Before(Key(p), Key(q))
  BY <1>1, <1>3, <1>9, Order
<1>12. ~ Before(Key(p), Pivot(t)') /\ ~ Before(Pivot(t)', Key(q))
  BY <1>1, <1>3, <1>9, <1>10, <1>11, Order
<1>13. ~ Before(Key(q)', Pivot(t)') /\ ~ Before(Pivot(t)', Key(p)')
  BY <1>8, <1>12
<1>14. QED
  BY <1>5, <1>13

\* What the cursors of a dense sort pass is on its side of the pivot.
LEMMA ExchangeSplit ==
  ASSUME SortInv, NEW t \in SortTeam, NEW p, NEW q, Turn(t, p, q),
         Exchanges(t, p, q), sort.kind = "dense"
  PROVE  Split(frame[t])'
<1> DEFINE f == frame[t]
           g == frame'[t]
           l == f.part.left
           r == f.part.right
<1>1. /\ l \in Nat /\ r \in Nat /\ SortTypes /\ Split(f)
      /\ Within(f.part) \subseteq Places
      /\ f.i \in l .. r + 1 /\ f.j \in l - 1 .. r
  BY FrameType DEF Turn, SortInv
<1>2. /\ g.part = f.part /\ g.pivot = f.pivot
      /\ p \in Places /\ q \in Places /\ p \in Int /\ q \in Int
      /\ \/ p <= q /\ g.i = p + 1 /\ g.j = q - 1
         \/ p > q /\ g.i = p /\ g.j = q
  BY ExchangeTypes
<1>3. /\ p \in f.i .. r /\ q \in l .. f.j
      /\ ~ Before(Key(p), f.pivot) /\ ~ Before(f.pivot, Key(q))
  BY TurnStops DEF Pivot
<1>4. f.pivot \in Int /\ \A k \in l .. r : Key(k) \in Int
  BY <1>1, FrameType, KeyType DEF Turn, Frames, Within
<1>5. \A k \in l .. p - 1 : ~ Before(f.pivot, Key(k))
  <2> TAKE k \in l .. p - 1
  <2>1. CASE k < f.i
    BY <1>1, <1>2, <2>1 DEF Split
  <2>2. CASE f.i <= k
    <3>1. Before(Key(k), f.pivot) /\ k \in l .. r
      BY <1>1, <1>2, <1>3, <2>2 DEF Turn, UpStopsAt, Key, Pivot
    <3>2. QED
      BY <1>1, <1>4, <3>1, Order
  <2>3. QED
    BY <1>1, <1>2, <2>1, <2>2
<1>6. \A k \in q + 1 .. r : ~ Before(Key(k), f.pivot)
  <2> TAKE k \in q + 1 .. r
  <2>1. CASE f.j < k
    BY <1>1, <1>2, <2>1 DEF Split
  <2>2. CASE k <= f.j
    <3>1. Before(f.pivot, Key(k)) /\ k \in l .. r
      BY <1>1, <1>2, <1>3, <2>2 DEF Turn, DownStopsAt, Key, Pivot
    <3>2. QED
      BY <1>1, <1>4, <3>1, Order
  <2>3. QED
    BY <1>1, <1>2, <2>1, <2>2
<1> SUFFICES /\ \A k \in l .. g.i - 1 : ~ Before(f.pivot, Key(k)')
             /\ \A k \in g.j + 1 .. r : ~ Before(Key(k)', f.pivot)
  BY <1>2 DEF Split, Before, Exchanges
<1>7. CASE p > q
  <2>1. array' = array
    BY <1>2, <1>7 DEF Exchanges
  <2>2. QED
    BY <1>2, <1>5, <1>6, <1>7, <2>1 DEF Key
<1>8. CASE p <= q
  <2>1. array' = Swapped(p, q)
    BY <1>2, <1>8 DEF Exchanges
  <2>2. \A k \in Places : Key(k)' = IF k = q THEN Key(p)
                                    ELSE IF k = p THEN Key(q) ELSE Key(k)
    BY <1>1, <1>2, <2>1 DEF Swapped, SortTypes, Key
  <2>3. \A k \in l .. r : k \in Places
    BY <1>1 DEF Within
  <2>4. \A k \in l .. p : ~ Before(f.pivot, Key(k)')
    BY <1>1, <1>2, <1>3, <1>5, <1>8, <2>2, <2>3
  <2>5. \A k \in q .. r : ~ Before(Key(k)', f.pivot)
    BY <1>1, <1>2, <1>3, <1>6, <1>8, <2>2, <2>3
  <2>6. QED
    BY <1>2, <1>8, <2>4, <2>5
<1>9. QED
  BY <1>2, <1>7, <1>8

LEMMA ExchangeKeeps ==
  ASSUME SortInv, NEW t \in SortTeam, Exchange(t)
  PROVE  SortInv'
<1>1. PICK p \in Places \union {Cardinality(Places)},
           q \in Places \union {-1} : Turn(t, p, q) /\ Exchanges(t, p, q)
  BY DEF Exchange, Turn, Exchanges
<1>2. SortTypes'
  BY <1>1, ExchangeTypes
<1>3. RangesApart'
  BY <1>1 DEF SortInv, RangesApart, Exchanges, Within
<1>4. OrderInv'
  BY <1>1, ExchangeOrder
<1>5. ASSUME NEW u \in SortTeam, u # t PROVE FrameInv(u)'
  <2>1. frame'[u] = frame[u] /\ sort' = sort /\ ranges' = ranges
    BY <1>1, <1>5, ExchangeTypes DEF Exchanges
  <2>2. ASSUME frame[u] # Nobody
        PROVE  /\ frame[u].part \in ranges
               /\ \A k \in Within(frame[u].part) : array'[k] = array[k]
    <3>1. /\ frame[u].part \in ranges
          /\ Within(frame[u].part) \subseteq Places
          /\ Within(frame[t].part) \intersect Within(frame[u].part) = {}
      BY <1>1, <1>5, <2>2, FrameType, ThreadsApart DEF Turn
    <3>2. QED
      BY <1>1, <3>1, ExchangeWithin
  <2>3. QED
    BY <2>1, <2>2, FrameStays
<1>6. FrameInv(t)'
  <2>1. /\ frame'[t].part = frame[t].part
        /\ frame'[t].middle = frame[t].middle
        /\ sort' = sort /\ ranges' = ranges
    BY <1>1, ExchangeTypes DEF Exchanges
  <2>2. /\ frame[t].part \in ranges /\ frame[t].part.by = t
        /\ frame[t].middle \in Within(frame[t].part)
    BY <1>1, FrameType DEF Turn
  <2>3. Cursors(frame[t])'
    BY <1>1, ExchangeCursors DEF Cursors
  <2>4. Stopped(t)' /\ (sort.kind = "dense" => Split(frame[t])')
    BY <1>1, ExchangeStops, ExchangeSplit
  <2>5. QED
    BY <2>1, <2>2, <2>3, <2>4 DEF FrameInv, Within, Split
<1>7. QED
  BY <1>2, <1>3, <1>4, <1>5, <1>6 DEF SortInv

-----------------------------------------------------------------------------
(* Begin.                                                                  *)

LEMMA BeginKeeps ==
  ASSUME SortInv, NEW t \in SortTeam, Begin(t)
  PROVE  SortInv'
<1>1. PICK r \in Candidates(t) :
        /\ ranges' = (ranges \ {r}) \union {[r EXCEPT !.by = t]}
        /\ frame' = [frame EXCEPT ![t] =
             [part |-> [r EXCEPT !.by = t], i |-> r.left, j |-> r.right,
              middle |-> (r.left + r.right) \div 2,
              pivot |-> array[(r.left + r.right) \div 2].key]]
  BY DEF Begin
<1> DEFINE mine == [r EXCEPT !.by = t]
           m == (r.left + r.right) \div 2
           g == [part |-> mine, i |-> r.left, j |-> r.right,
                 middle |-> m, pivot |-> array[m].key]
<1>2. frame[t] = Nobody /\ array' = array /\ sort' = sort
  BY DEF Begin
<1>3. SortTypes /\ r \in ranges /\ r.by \in {t, Nobody}
  BY DEF Candidates, SortInv
<1>4. Places = 0 .. Last /\ Last \in Nat /\ Places' = Places
  BY <1>2, <1>3, PlacesType DEF SortTypes, Places
<1>5. /\ r \in Ranges /\ r.left \in Nat /\ r.right \in Nat
      /\ r.left <= r.right /\ r.right <= Last
  BY <1>3, <1>4 DEF SortTypes, Ranges
<1>6. /\ mine \in Ranges /\ mine.left = r.left /\ mine.right = r.right
      /\ mine.by = t
  BY <1>5 DEF Ranges
<1>7. m \in r.left .. r.right /\ m \in Places /\ m \in Int
  BY <1>4, <1>5, Middle
<1>8. Key(m) \in Int
  BY <1>3, <1>7, KeyType
<1>9. g \in Frames
  BY <1>4, <1>5, <1>6, <1>7, <1>8 DEF Frames, Key
<1>10. /\ ranges' = (ranges \ {r}) \union {mine}
       /\ frame' = [frame EXCEPT ![t] = g]
  BY <1>1
<1>11. /\ g.part = mine /\ g.i = r.left /\ g.j = r.right /\ g.middle = m
       /\ g.pivot = Key(m)
  BY DEF Key
<1> HIDE DEF mine, g, m
<1>12. /\ frame' \in [SortTeam -> Frames \union {Nobody}]
       /\ frame'[t] = g
       /\ \A u \in SortTeam : u # t => frame'[u] = frame[u]
  BY <1>3, <1>9, <1>10 DEF SortTypes
<1>13. SortTypes'
  BY <1>2, <1>3, <1>4, <1>5, <1>6, <1>10, <1>12
     DEF SortTypes, Ranges, Frames
<1>14. Within(mine) = Within(r)
  BY <1>6 DEF Within
<1>15. RangesApart'
  <2> SUFFICES ASSUME NEW a \in ranges', NEW b \in ranges', a # b
               PROVE  Within(a) \intersect Within(b) = {}
    BY DEF RangesApart, Within
  <2>1. \A c, d \in ranges : c # d => Within(c) \intersect Within(d) = {}
    BY DEF SortInv, RangesApart
  <2>2. QED
    BY <1>3, <1>10, <1>14, <2>1
<1>16. OrderInv'
  <2> SUFFICES ASSUME sort.kind = "dense", NEW u \in Places, NEW v \in Places,
                      u < v, Before(Key(v), Key(u))
               PROVE  \E s \in ranges' : u \in Within(s) /\ v \in Within(s)
    BY <1>2, <1>4 DEF OrderInv, Within, Key, Before
  <2>1. PICK s \in ranges : u \in Within(s) /\ v \in Within(s)
    BY DEF SortInv, OrderInv
  <2>2. QED
    BY <1>10, <1>14, <2>1
<1>17. ASSUME NEW u \in SortTeam, u # t PROVE FrameInv(u)'
  <2>1. frame'[u] = frame[u]
    BY <1>12, <1>17
  <2>2. frame[u] # Nobody => frame[u].part \in ranges'
    BY <1>3, <1>10, <1>17, FrameType
  <2>3. QED
    BY <1>2, <2>1, <2>2, FrameStays
<1>18. FrameInv(t)'
  <2>1. g.part \in ranges' /\ g.part.by = t /\ g.middle \in Within(g.part)
    BY <1>6, <1>7, <1>10, <1>11 DEF Within
  <2>2. Cursors(frame[t])'
    BY <1>2, <1>6, <1>11, <1>12 DEF Cursors, Key, m
  <2>3. Stopped(t)'
    <3>1. Pivot(t)' = Key(m)
      BY <1>2, <1>11, <1>12 DEF Pivot, Key
    <3>2. ~ Before(Key(m), Key(m))
      BY <1>3, <1>8, Order
    <3>3. ~ Before(Key(m)', Pivot(t)') /\ ~ Before(Pivot(t)', Key(m)')
      BY <1>2, <3>1, <3>2 DEF Key
    <3>4. QED
      BY <1>2, <1>6, <1>7, <1>11, <1>12, <3>3 DEF Stopped, Before
  <2>4. Split(frame[t])'
    BY <1>5, <1>6, <1>11, <1>12 DEF Split
  <2>5. QED
    BY <1>12, <2>1, <2>2, <2>3, <2>4 DEF FrameInv, Within
<1>19. QED
  BY <1>13, <1>15, <1>16, <1>17, <1>18 DEF SortInv

-----------------------------------------------------------------------------
(* Recurse and Spawn: a range gives way to its halves.                     *)

\* The halves that replace it have an element at least, and every half with
\* two is among them.
Halves(t, new) ==
  LET f == frame[t]
  IN  /\ Partitioned(t)
      /\ \A h \in new :
           /\ h \in [left : Int, right : Int, by : SortTeam \union {Nobody}]
           /\ h.left <= h.right
           /\ \/ h.left = f.part.left /\ h.right = f.j
              \/ h.left = f.i /\ h.right = f.part.right
      /\ \A h, k \in new : h # k => h.left # k.left
      /\ f.part.left < f.j =>
           \E h \in new : h.left = f.part.left /\ h.right = f.j
      /\ f.i < f.part.right =>
           \E h \in new : h.left = f.i /\ h.right = f.part.right
      /\ ranges' = (ranges \ {f.part}) \union new
      /\ frame' = [frame EXCEPT ![t] = Nobody]
      /\ UNCHANGED <<sort, array>>

LEMMA HalvesKeep ==
  ASSUME SortInv, NEW t \in SortTeam, NEW new, Halves(t, new)
  PROVE  SortInv'
<1> DEFINE f == frame[t]
           l == f.part.left
           r == f.part.right
<1>1. /\ f # Nobody /\ f.j < f.i /\ SortTypes /\ f.part.by = t
      /\ array' = array /\ sort' = sort
      /\ ranges' = (ranges \ {f.part}) \union new
      /\ frame' = [frame EXCEPT ![t] = Nobody]
  <2>1. f \in Frames \/ f = Nobody
    BY DEF SortInv, SortTypes
  <2>2. f # Nobody /\ f.i > f.j
    BY DEF Halves, Partitioned
  <2>3. QED
    BY <2>1, <2>2, FrameType DEF Halves, SortInv, Frames
<1>2. /\ f.part \in ranges /\ l \in Nat /\ r \in Nat /\ l <= r
      /\ f.i \in l .. r + 1 /\ f.j \in l - 1 .. r
      /\ Within(f.part) \subseteq Places /\ f.pivot \in Int
      /\ f.part \in Ranges /\ (sort.kind = "dense" => Split(f))
  BY <1>1, FrameType DEF Frames
<1>3. Places = 0 .. Last /\ Last \in Nat /\ Places' = Places
  BY <1>1, PlacesType DEF SortTypes, Places
<1>4. \A h \in new :
        /\ h.left \in l .. r /\ h.right \in l .. r /\ h.left <= h.right
        /\ \/ h.left = l /\ h.right = f.j
           \/ h.left = f.i /\ h.right = r
        /\ Within(h) \subseteq Within(f.part)
  <2> TAKE h \in new
  <2>1. /\ h.left \in Int /\ h.right \in Int /\ h.left <= h.right
        /\ \/ h.left = l /\ h.right = f.j
           \/ h.left = f.i /\ h.right = r
    BY DEF Halves
  <2>2. QED
    BY <1>2, <2>1 DEF Within
<1>5. new \subseteq Ranges
  <2> SUFFICES ASSUME NEW h \in new PROVE h \in Ranges
    OBVIOUS
  <2>1. h \in [left : Int, right : Int, by : SortTeam \union {Nobody}]
    BY DEF Halves
  <2>2. h.left \in Places /\ h.right \in Places
    BY <1>2, <1>3, <1>4 DEF Ranges
  <2>3. QED
    BY <2>1, <2>2 DEF Ranges
<1>6. /\ frame' \in [SortTeam -> Frames \union {Nobody}]
      /\ frame'[t] = Nobody
      /\ \A u \in SortTeam : u # t => frame'[u] = frame[u]
  BY <1>1 DEF SortTypes
<1>7. SortTypes'
  BY <1>1, <1>3, <1>4, <1>5, <1>6 DEF SortTypes, Ranges, Frames
<1>8. \A a \in ranges : a # f.part =>
        Within(a) \intersect Within(f.part) = {}
  BY <1>2 DEF SortInv, RangesApart
<1>9. RangesApart'
  <2> SUFFICES ASSUME NEW a \in ranges', NEW b \in ranges', a # b
               PROVE  Within(a) \intersect Within(b) = {}
    BY DEF RangesApart, Within
  <2>1. CASE a \in new /\ b \in new
    <3>1. a.left # b.left
      BY <2>1 DEF Halves
    <3>2. \/ a.right <= f.j /\ f.i <= b.left
          \/ b.right <= f.j /\ f.i <= a.left
      BY <1>2, <1>4, <2>1, <3>1
    <3>3. f.i \in Int /\ f.j \in Int /\ a.right \in Int /\ b.right \in Int
          /\ a.left \in Int /\ b.left \in Int
      BY <1>2, <1>4, <2>1
    <3>4. QED
      BY <1>1, <3>2, <3>3 DEF Within
  <2>2. CASE a \in new /\ b \notin new
    BY <1>1, <1>4, <1>8, <2>2
  <2>3. CASE a \notin new /\ b \in new
    BY <1>1, <1>4, <1>8, <2>3
  <2>4. CASE a \notin new /\ b \notin new
    BY <1>1, <2>4 DEF SortInv, RangesApart
  <2>5. QED
    BY <2>1, <2>2, <2>3, <2>4
<1>10. OrderInv'
  <2> SUFFICES ASSUME sort.kind = "dense", NEW u \in Places, NEW v \in Places,
                      u < v, Before(Key(v), Key(u))
               PROVE  \E s \in ranges' : u \in Within(s) /\ v \in Within(s)
    BY <1>1, <1>3 DEF OrderInv, Within, Key, Before
  <2>1. PICK s \in ranges : u \in Within(s) /\ v \in Within(s)
    BY DEF SortInv, OrderInv
  <2>2. CASE s # f.part
    BY <1>1, <2>1, <2>2
  <2>3. CASE s = f.part
    <3>1. u \in l .. r /\ v \in l .. r /\ u \in Int /\ v \in Int
      BY <1>3, <2>1, <2>3 DEF Within
    <3>2. Key(u) \in Int /\ Key(v) \in Int
      BY <1>1, KeyType
    <3>3. ~ (u < f.i /\ f.j < v)
      <4> SUFFICES ASSUME u < f.i, f.j < v PROVE FALSE
        OBVIOUS
      <4>1. ~ Before(f.pivot, Key(u)) /\ ~ Before(Key(v), f.pivot)
        BY <1>2, <3>1 DEF Split
      <4>2. QED
        BY <1>1, <1>2, <3>2, <4>1, Order
    <3>4. CASE v <= f.j
      <4>1. l < f.j
        BY <1>2, <3>1, <3>4
      <4>2. PICK h \in new : h.left = l /\ h.right = f.j
        BY <4>1 DEF Halves
      <4>3. u \in Within(h) /\ v \in Within(h)
        BY <1>2, <3>1, <3>4, <4>2 DEF Within
      <4>4. QED
        BY <1>1, <4>2, <4>3
    <3>5. CASE f.i <= u
      <4>1. f.i < r
        BY <1>2, <3>1, <3>5
      <4>2. PICK h \in new : h.left = f.i /\ h.right = r
        BY <4>1 DEF Halves
      <4>3. u \in Within(h) /\ v \in Within(h)
        BY <1>2, <3>1, <3>5, <4>2 DEF Within
      <4>4. QED
        BY <1>1, <4>2, <4>3
    <3>6. QED
      BY <1>2, <3>1, <3>3, <3>4, <3>5
  <2>4. QED
    BY <2>2, <2>3
<1>11. ASSUME NEW u \in SortTeam, u # t PROVE FrameInv(u)'
  <2>1. frame'[u] = frame[u]
    BY <1>6, <1>11
  <2>2. frame[u] # Nobody => frame[u].part \in ranges'
    BY <1>1, <1>11, FrameType
  <2>3. QED
    BY <1>1, <2>1, <2>2, FrameStays
<1>12. FrameInv(t)'
  BY <1>6 DEF FrameInv
<1>13. QED
  BY <1>7, <1>9, <1>10, <1>11, <1>12 DEF SortInv

\* A partition that has ended left something on either side of a long range.
LEMMA PartitionedFrame ==
  ASSUME SortInv, NEW t \in SortTeam, Partitioned(t)
  PROVE  LET f == frame[t]
         IN  /\ f.part.left < f.i
             /\ f.part.left \in Nat /\ f.part.right \in Nat
             /\ f.i \in Int /\ f.j \in Int
             /\ f.part.left + 2 <= f.part.right =>
                  f.i <= f.part.right /\ f.part.left <= f.j
<1>1. frame[t] # Nobody /\ frame[t].i > frame[t].j
  BY DEF Partitioned
<1>2. /\ Cursors(frame[t]) /\ frame[t] \in Frames
      /\ frame[t].part.left \in Nat /\ frame[t].part.right \in Nat
      /\ frame[t].part.left <= frame[t].part.right
  BY <1>1, FrameType
<1>3. frame[t].i \in Int /\ frame[t].j \in Int
  BY <1>2 DEF Frames
<1>4. QED
  BY <1>1, <1>2, <1>3 DEF Cursors

LEMMA RecurseKeeps ==
  ASSUME SortInv, NEW t \in SortTeam, Recurse(t)
  PROVE  SortInv'
<1> DEFINE f == frame[t]
           lower == Part(f.part.left, f.j, t)
           upper == Part(f.i, f.part.right, t)
           new == {h \in {lower, upper} : h.left < h.right}
<1>1. Partitioned(t) /\ ranges' = (ranges \ {f.part}) \union new
      /\ frame' = [frame EXCEPT ![t] = Nobody] /\ UNCHANGED <<sort, array>>
  BY DEF Recurse
<1>2. /\ f.part.left < f.i /\ f.part.left \in Int /\ f.part.right \in Int
      /\ f.i \in Int /\ f.j \in Int
  BY <1>1, PartitionedFrame
<1>3. /\ lower.left = f.part.left /\ lower.right = f.j
      /\ upper.left = f.i /\ upper.right = f.part.right
      /\ {lower, upper} \subseteq
           [left : Int, right : Int, by : SortTeam \union {Nobody}]
  BY <1>2 DEF Part
<1> HIDE DEF lower, upper, f
<1>4. Halves(t, new)
  BY <1>1, <1>2, <1>3 DEF Halves, f
<1>5. QED
  BY <1>4, HalvesKeep

LEMMA SpawnKeeps ==
  ASSUME SortInv, NEW t \in SortTeam, Spawn(t)
  PROVE  SortInv'
<1> DEFINE f == frame[t]
           lower == Part(f.part.left, f.j, Nobody)
           upper == Part(f.i, f.part.right, Nobody)
           new == {lower, upper}
<1>1. Partitioned(t) /\ ranges' = (ranges \ {f.part}) \union new
      /\ frame' = [frame EXCEPT ![t] = Nobody] /\ UNCHANGED <<sort, array>>
      /\ f.part.right - f.part.left >= Cutoff
  BY DEF Spawn, Extent
<1>2. /\ f.part.left < f.i /\ f.part.left \in Int /\ f.part.right \in Int
      /\ f.i \in Int /\ f.j \in Int
      /\ f.i <= f.part.right /\ f.part.left <= f.j
  <2>1. f.part.left \in Nat /\ f.part.right \in Nat
    BY <1>1, PartitionedFrame
  <2>2. f.part.left + 2 <= f.part.right
    BY <1>1, <2>1
  <2>3. QED
    BY <1>1, <2>2, PartitionedFrame
<1>3. /\ lower.left = f.part.left /\ lower.right = f.j
      /\ upper.left = f.i /\ upper.right = f.part.right
      /\ {lower, upper} \subseteq
           [left : Int, right : Int, by : SortTeam \union {Nobody}]
  BY <1>2 DEF Part
<1> HIDE DEF lower, upper, f
<1>4. Halves(t, new)
  BY <1>1, <1>2, <1>3 DEF Halves, f
<1>5. QED
  BY <1>4, HalvesKeep

-----------------------------------------------------------------------------

LEMMA SortStarts == SortStart => SortInv
<1> SUFFICES ASSUME SortStart PROVE SortInv
  OBVIOUS
<1>1. PICK f \in SortInputs, k \in SortKinds, d \in BOOLEAN, t \in SortTeam :
        /\ sort = [input |-> f, kind |-> k, descending |-> d]
        /\ array = [p \in DOMAIN f |-> [key |-> f[p], was |-> p]]
        /\ ranges = {Part(0, Cardinality(DOMAIN f) - 1, t)}
        /\ frame = Idle
  BY DEF SortStart
<1>2. sort \in [input : SortInputs, kind : SortKinds, descending : BOOLEAN]
      /\ sort.input = f
  BY <1>1
<1>3. Places = 0 .. Last /\ Last \in Nat /\ f \in [Places -> Int]
      /\ Last = Cardinality(DOMAIN f) - 1 /\ DOMAIN f = Places
  BY <1>2, PlacesType DEF Places, Last
<1>4. array \in [Places -> [key : Int, was : Places]]
  BY <1>1, <1>3
<1>5. ranges = {[left |-> 0, right |-> Last, by |-> t]}
  BY <1>1, <1>3 DEF Part
<1>6. ranges \subseteq Ranges /\ \A r \in ranges : r.left <= r.right
  BY <1>3, <1>5 DEF Ranges
<1>7. frame \in [SortTeam -> Frames \union {Nobody}]
      /\ \A u \in SortTeam : frame[u] = Nobody
  BY <1>1 DEF Idle
<1>8. SortTypes
  BY <1>2, <1>4, <1>6, <1>7 DEF SortTypes
<1>9. RangesApart
  BY <1>5 DEF RangesApart
<1>10. OrderInv
  BY <1>3, <1>5 DEF OrderInv, Within
<1>11. QED
  BY <1>7, <1>8, <1>9, <1>10 DEF SortInv, FrameInv

LEMMA SortSteps == SortInv /\ [SortNext]_sortVars => SortInv'
<1> SUFFICES ASSUME SortInv, [SortNext]_sortVars PROVE SortInv'
  OBVIOUS
<1>1. CASE UNCHANGED sortVars
  BY <1>1 DEF SortInv, sortVars, SortTypes, RangesApart, OrderInv, FrameInv,
     Cursors, Stopped, Split, Within, Before, Key, Pivot, Ranges, Frames,
     Places
<1>2. CASE SortNext
  <2>1. PICK t \in SortTeam : SortStep(t)
    BY <1>2 DEF SortNext
  <2>2. QED
    BY <2>1, BeginKeeps, ExchangeKeeps, RecurseKeeps, SpawnKeeps
       DEF SortStep
<1>3. QED
  BY <1>1, <1>2

\* The invariant of ranges, frames and order holds throughout a sort.
THEOREM SortInvariant == SortSpec => []SortInv
  BY SortStarts, SortSteps, PTL DEF SortSpec

\* Type correctness: ranges and cursors stay within the array, for the dense
\* sort and for the sparse one (specials.h:461, specials_sparse.h:84).
THEOREM SortTypesCorrect == SortSpec => []SortTypeOK
<1>1. ASSUME SortInv PROVE SortTypeOK
  <2>1. SortTypes
    BY <1>1 DEF SortInv
  <2>2. Places = 0 .. Last /\ Last \in Nat /\ Cardinality(Places) = Last + 1
    <3>1. Places = 0 .. Last /\ Last \in Nat
      BY <2>1, PlacesType DEF SortTypes
    <3>2. QED
      BY <3>1, FS_Interval, FS_CardinalityType DEF Last
  <2>3. ASSUME NEW t \in SortTeam, frame[t] # Nobody
        PROVE  /\ frame[t].part \in ranges /\ frame[t].part.by = t
               /\ frame[t].i \in Places \union {Cardinality(Places)}
               /\ frame[t].j \in Places \union {-1}
    <3>1. /\ frame[t].part \in ranges /\ frame[t].part.by = t
          /\ frame[t].part.left \in Nat /\ frame[t].part.right \in Nat
          /\ frame[t].i \in frame[t].part.left .. frame[t].part.right + 1
          /\ frame[t].j \in frame[t].part.left - 1 .. frame[t].part.right
          /\ frame[t].part \in Ranges
      BY <1>1, <2>3, FrameType
    <3>2. frame[t].part.right <= Last
      BY <2>2, <3>1 DEF Ranges
    <3>3. frame[t].i \in 0 .. Last \/ frame[t].i = Last + 1
      BY <2>2, <3>1, <3>2
    <3>4. frame[t].j \in 0 .. Last \/ frame[t].j = -1
      <4> DEFINE j == frame[t].j
                 left == frame[t].part.left
                 right == frame[t].part.right
      <4>1. j \in left - 1 .. right /\ left \in Nat /\ right \in Nat
            /\ right <= Last /\ Last \in Nat
        BY <2>2, <3>1, <3>2
      <4> HIDE DEF j, left, right
      <4>2. j \in 0 .. Last \/ j = -1
        BY <4>1
      <4>3. QED
        BY <4>2 DEF j
    <3>5. frame[t].i \in Places \union {Cardinality(Places)}
      BY <2>2, <3>3
    <3>6. frame[t].j \in Places \union {-1}
      BY <2>2, <3>4
    <3>7. QED
      BY <3>1, <3>5, <3>6
  <2>4. QED
    BY <2>1, <2>3 DEF SortTypeOK, SortTypes, Ranges
<1>2. QED
  BY <1>1, SortInvariant, PTL

\* No two threads ever swap the same element (specials.h:490,
\* specials_sparse.h:102): whatever they partition is apart.
THEOREM RangesAlwaysApart == SortSpec => []RangesApart
<1>1. SortInv => RangesApart
  BY DEF SortInv
<1>2. QED
  BY <1>1, SortInvariant, PTL

\* A set of naturals that is not empty has a smallest element.
LEMMA SmallestPlace ==
  ASSUME NEW S \in SUBSET Nat, S # {}
  PROVE  \E x \in S : \A y \in S : x <= y
<1> DEFINE Less == {ss \in Nat \X Nat : ss[1] < ss[2]}
<1>1. IsWellFoundedOn(Less, Nat)
  BY NatLessThanWellFounded DEF OpToRel
<1>2. \E x \in S : \A y \in S : ~ (<<y, x>> \in Less)
  <2> HIDE DEF Less
  <2> QED
    BY <1>1, WFMin
<1>3. ASSUME NEW x \in S, NEW y \in S, ~ (<<y, x>> \in Less)
      PROVE  x <= y
  <2>1. x \in Nat /\ y \in Nat
    OBVIOUS
  <2>2. ~ (y < x)
    BY <1>3, <2>1
  <2>3. QED
    BY <2>1, <2>2
<1>4. QED
  <2> HIDE DEF Less
  <2> QED
    BY <1>2, <1>3

\* The scan from the left stops at the first element that is not before the
\* pivot, and there is one from its cursor to the end of the range.
LEMMA UpStops ==
  ASSUME SortInv, NEW t \in SortTeam, frame[t] # Nobody,
         frame[t].i <= frame[t].j
  PROVE  \E p \in frame[t].i .. frame[t].part.right : UpStopsAt(t, p)
<1> DEFINE i == frame[t].i
           r == frame[t].part.right
           S == {k \in i .. r : ~ Before(Key(k), Pivot(t))}
<1>1. /\ i \in Nat /\ r \in Nat /\ Stopped(t)
      /\ \A k \in i .. r : k \in Places
  BY FrameType DEF Within
<1>2. S # {} /\ S \in SUBSET Nat
  BY <1>1 DEF Stopped
<1>3. PICK p \in S : \A k \in S : p <= k
  <2> HIDE DEF S
  <2> QED
    BY <1>2, SmallestPlace
<1>4. p \in i .. r /\ ~ Before(Key(p), Pivot(t))
  OBVIOUS
<1>5. ASSUME NEW k \in i .. p - 1
      PROVE  k \in Places /\ Before(Key(k), Pivot(t))
  <2>1. k \in i .. r /\ ~ (p <= k)
    BY <1>1, <1>4
  <2>2. QED
    BY <1>1, <1>3, <2>1
<1>6. UpStopsAt(t, p)
  BY <1>4, <1>5 DEF UpStopsAt, Key
<1>7. QED
  BY <1>4, <1>6

\* The scan from the right, likewise.
LEMMA DownStops ==
  ASSUME SortInv, NEW t \in SortTeam, frame[t] # Nobody,
         frame[t].i <= frame[t].j
  PROVE  \E q \in frame[t].part.left .. frame[t].j : DownStopsAt(t, q)
<1> DEFINE j == frame[t].j
           l == frame[t].part.left
           S == {d \in 0 .. j - l : ~ Before(Pivot(t), Key(j - d))}
<1>1. /\ j \in Int /\ l \in Nat /\ Stopped(t)
      /\ \A k \in l .. j : k \in Places
  BY FrameType DEF Within
<1>2. PICK m \in l .. j : ~ Before(Pivot(t), Key(m))
  BY <1>1 DEF Stopped
<1>3. j - m \in S
  <2>1. j - m \in 0 .. j - l /\ j - (j - m) = m
    BY <1>1
  <2>2. QED
    BY <1>2, <2>1
<1>4. S \in SUBSET Nat
  OBVIOUS
<1>5. PICK d \in S : \A e \in S : d <= e
  <2> HIDE DEF S
  <2> QED
    BY <1>3, <1>4, SmallestPlace
<1>6. d \in 0 .. j - l /\ ~ Before(Pivot(t), Key(j - d))
  OBVIOUS
<1>7. j - d \in l .. j /\ j - d \in Places
  BY <1>1, <1>6
<1>8. ASSUME NEW k \in j - d + 1 .. j
      PROVE  k \in Places /\ Before(Pivot(t), Key(k))
  <2>1. k \in l .. j /\ j - k \in 0 .. j - l /\ ~ (d <= j - k)
        /\ j - (j - k) = k
    BY <1>1, <1>6
  <2>2. j - k \notin S
    <3> HIDE DEF S
    <3> QED
      BY <1>5, <2>1
  <2>3. QED
    BY <1>1, <2>1, <2>2
<1>9. DownStopsAt(t, j - d)
  BY <1>6, <1>7, <1>8 DEF DownStopsAt, Key
<1>10. QED
  BY <1>7, <1>9

\* The scans, which test no bound (specials.h:473, specials_sparse.h:94), stop
\* at an element of their range, even those of the sparse sort, whose pivot
\* moves.
THEOREM ScansAreBounded == SortSpec => []ScansStayInRange
<1>1. SortInv => ScansStayInRange
  BY UpStops, DownStops DEF ScansStayInRange
<1>2. QED
  BY <1>1, SortInvariant, PTL

\* The parallel quicksort of a dense array sorts (specials.h:461), whatever
\* the schedule of its tasks.
THEOREM DenseSortSorts == SortSpec => []InOrder
<1>1. ASSUME SortInv PROVE InOrder
  BY <1>1 DEF SortInv, OrderInv, InOrder, SortReturned, Sorted, Key
<1>2. QED
  BY <1>1, SortInvariant, PTL

\* Neither sort loses or copies an element, or parts a value from the
\* coordinates it came with (specials_sparse.h:69).
THEOREM SortLosesNothing == SortSpec => []NothingLost
<1>1. ASSUME SortStart PROVE NothingLost
  <2>1. PICK f \in SortInputs :
          sort.input = f /\ array = [p \in DOMAIN f |->
                                       [key |-> f[p], was |-> p]]
    BY <1>1 DEF SortStart
  <2>2. QED
    BY <2>1 DEF NothingLost, Places
<1>2. ASSUME SortInv, NothingLost, [SortNext]_sortVars PROVE NothingLost'
  <2>1. CASE array' = array /\ sort' = sort
    BY <1>2, <2>1 DEF NothingLost, Places
  <2>2. CASE \E t \in SortTeam : Exchange(t)
    <3>1. PICK t \in SortTeam,
               p \in Places \union {Cardinality(Places)},
               q \in Places \union {-1} : Turn(t, p, q) /\ Exchanges(t, p, q)
      BY <2>2 DEF Exchange, Turn, Exchanges
    <3>2. p \in Places /\ q \in Places /\ sort' = sort /\ SortTypes
      BY <1>2, <3>1, ExchangeTypes DEF Exchanges, SortInv
    <3>3. CASE array' = Swapped(p, q)
      <4>1. \A k \in Places : array'[k] = IF k = q THEN array[p]
                                          ELSE IF k = p THEN array[q]
                                          ELSE array[k]
        BY <3>2, <3>3 DEF Swapped, SortTypes
      <4>2. QED
        BY <1>2, <3>2, <4>1 DEF NothingLost, Places
    <3>4. QED
      BY <2>1, <3>1, <3>2, <3>3 DEF Exchanges
  <2>3. QED
    BY <1>2, <2>1, <2>2
       DEF SortNext, SortStep, Begin, Recurse, Spawn, sortVars
<1>3. QED
  BY <1>1, <1>2, SortInvariant, PTL DEF SortSpec

(***************************************************************************)
(* ThresholdCodec                                                          *)
(***************************************************************************)

USE CodecAssumption

LEMMA WordDivision ==
  ASSUME NEW a \in Nat
  PROVE  /\ a \div WordSize \in Nat
         /\ WordSize * (a \div WordSize) <= a
         /\ a < WordSize * (a \div WordSize) + WordSize
OBVIOUS

LEMMA SmallerFactor ==
  ASSUME NEW a \in Nat, NEW b \in Nat, NEW c \in Nat \ {0},
         c * a < c * b + c
  PROVE  a <= b
<1> SUFFICES ASSUME b + 1 <= a PROVE c * b + c <= c * a
  OBVIOUS
<1>1. PICK d \in Nat : a = b + 1 + d
  BY a - (b + 1) \in Nat
<1>2. c * a = c * b + c + c * d /\ c * d \in Nat
  BY <1>1
<1>3. QED
  BY <1>2

-----------------------------------------------------------------------------
(* The inductive invariant.                                                *)

update == codec.update
Length == Cardinality(Entries)
Word(e) == e \div WordSize

Calls ==
  [update : Updates, kind : {"threshold", "bitmap"}, limit : Nat]

Iterations ==
  {Between} \union [step : {"loaded", "full"}, e : Entries]
            \union [step : {"add"}, slot : Slots, old : Int]

Codes == [bit : BOOLEAN, sign : BOOLEAN]
Rows == UNION {[Bits(w) -> Codes] : w \in Words}

CodecTypes ==
  /\ codec \in Calls
  /\ Scattered => codec.limit <= Cardinality(Sent(update))
  /\ phase \in {"encode", "decode", "returned"}
  /\ doing \in [CodecTeam -> Iterations]
  /\ rest \in [Entries -> Int] /\ target \in [Entries -> Int]
  /\ cnt \in Nat /\ Header <= cnt /\ flag \in BOOLEAN
  /\ Scattered => message \in [Slots -> Int]
  /\ ~ Scattered => message \in [Words -> Rows]

\* Each loop runs its own iterations.
PhaseInv ==
  /\ phase = "encode" =>
       /\ todo \subseteq IF Scattered THEN Entries ELSE Words
       /\ \A t \in CodecTeam : ~ In(t, "add")
  /\ phase = "decode" =>
       /\ todo \subseteq IF Scattered THEN Slots ELSE Words
       /\ \A t \in CodecTeam : ~ In(t, "loaded") /\ ~ In(t, "full")
  /\ phase = "returned" => Finished
  /\ ~ Scattered => \A t \in CodecTeam : doing[t] = Between

\* The slots written so far name different elements, each by its sign, and
\* what is left of an element is what its slot does not carry.
Filled == {s \in Slots : s < cnt}
IsNamed(e) == \E s \in Filled : Named(s) = e

MessageInv ==
  Scattered =>
    /\ \A s \in Filled :
         /\ Named(s) \in Entries
         /\ rest[Named(s)] = update[Named(s)] - Value(s)
         /\ \A r \in Filled : Named(r) = Named(s) => r = s
    /\ \A e \in Entries : ~ IsNamed(e) => rest[e] = update[e]
    /\ phase # "encode" => flimit <= cnt

\* While elements are encoded: those not begun and those a thread is at are
\* not named, and one that reaches the threshold is passed over only when the
\* slots are used up.
At(t, e) == In(t, "loaded") /\ doing[t].e = e

EncodeInv ==
  Scattered /\ phase = "encode" =>
    /\ \A e \in todo : ~ IsNamed(e)
    /\ \A t \in CodecTeam, e \in Entries : At(t, e) =>
         /\ e \notin todo /\ ~ IsNamed(e)
         /\ \A u \in CodecTeam : At(u, e) => u = t
    /\ \A t \in CodecTeam : In(t, "full") => flimit < cnt
    /\ flag => flimit < cnt
    /\ \A e \in Sent(update) :
         \/ e \in todo \/ IsNamed(e) \/ flimit <= cnt
         \/ \E t \in CodecTeam : At(t, e)

\* While slots are decoded: an element has what its slot carries once that is
\* added, and nothing before.
Landed(s) == s \notin todo /\ \A t \in CodecTeam :
                                 In(t, "add") => doing[t].slot # s
DecodeInv ==
  Scattered =>
    /\ phase = "encode" => \A e \in Entries : target[e] = 0
    /\ phase # "encode" =>
         /\ \A s \in Slots :
              target[Named(s)] = IF Landed(s) THEN Value(s) ELSE 0
         /\ \A e \in Entries : ~ IsNamed(e) => target[e] = 0
         /\ \A t \in CodecTeam : In(t, "add") =>
              /\ doing[t].slot \notin todo /\ doing[t].old = 0
              /\ \A u \in CodecTeam :
                   In(u, "add") /\ doing[u].slot = doing[t].slot => u = t

\* The words of a bitmap, one by one.
BitmapInv ==
  ~ Scattered =>
    \A e \in Entries :
      LET encoded == phase # "encode" \/ Word(e) \notin todo
          decoded == phase = "returned" \/
                     (phase = "decode" /\ Word(e) \notin todo)
      IN  /\ rest[e] = IF encoded THEN Kept(update[e]) ELSE update[e]
          /\ encoded => message[Word(e)][e] = Code(update[e])
          /\ target[e] = IF decoded THEN Added(Code(update[e])) ELSE 0

CodecInv ==
  /\ CodecTypes /\ PhaseInv
  /\ MessageInv /\ EncodeInv /\ DecodeInv /\ BitmapInv

-----------------------------------------------------------------------------
(* What the types say of entries, words and threads.                        *)

LEMMA EntriesType ==
  ASSUME codec \in Calls
  PROVE  /\ Length \in Nat \ {0} /\ Entries = 0 .. Length - 1
         /\ update \in [Entries -> Int] /\ Entries \subseteq Nat
         /\ flimit = codec.limit + 4 /\ flimit \in Nat /\ Header = 4
         /\ Slots = 4 .. flimit - 1 /\ Slots \subseteq Nat
<1>1. IsUpdate(update) /\ codec.limit \in Nat
  BY DEF Calls, update
<1>2. QED
  BY <1>1 DEF IsUpdate, update, Entries, Length, flimit, Header, Slots

LEMMA WordsType ==
  ASSUME codec \in Calls, NEW e \in Entries
  PROVE  Word(e) \in Words /\ e \in Bits(Word(e))
<1> DEFINE w == e \div WordSize
           n == Length \div WordSize
<1>1. Length \in Nat /\ e \in Nat /\ e < Length
  BY EntriesType
<1>2. w \in Nat /\ n \in Nat /\ WordSize * w <= e
      /\ Length < WordSize * n + WordSize
  BY <1>1, WordDivision
<1> HIDE DEF w, n
<1>3. WordSize * w \in Nat /\ WordSize * n \in Nat
  BY <1>2
<1>4. WordSize * w < WordSize * n + WordSize
  BY <1>1, <1>2, <1>3
<1>5. w <= n
  BY <1>2, <1>4, SmallerFactor
<1>6. QED
  BY <1>2, <1>5 DEF Words, Word, Bits, w, n, Length

\* A call does not change while it runs.
LEMMA SameCall ==
  ASSUME UNCHANGED codec
  PROVE  /\ Entries' = Entries /\ Slots' = Slots /\ flimit' = flimit
         /\ update' = update /\ Scattered' = Scattered /\ Words' = Words
         /\ Calls' = Calls /\ Iterations' = Iterations
         /\ \A w : Bits(w)' = Bits(w)
         /\ Rows' = Rows
BY DEF Entries, Slots, flimit, update, Scattered, Words, Calls, Iterations,
       Bits, Rows, Codes

LEMMA DoingType ==
  ASSUME CodecTypes, NEW t \in CodecTeam
  PROVE  /\ In(t, "loaded") \/ In(t, "full") => doing[t].e \in Entries
         /\ In(t, "add") => doing[t].slot \in Slots /\ doing[t].old \in Int
         /\ \/ doing[t] = Between \/ In(t, "loaded") \/ In(t, "full")
            \/ In(t, "add")
         /\ doing[t] = Between =>
              ~ In(t, "loaded") /\ ~ In(t, "full") /\ ~ In(t, "add")
         /\ In(t, "loaded") => ~ In(t, "full") /\ ~ In(t, "add")
         /\ In(t, "full") => ~ In(t, "add")
<1>1. doing[t] \in Iterations
  BY DEF CodecTypes
<1>2. QED
  BY <1>1 DEF Iterations, In, Between

LEMMA MovesTo ==
  ASSUME CodecTypes, NEW t \in CodecTeam, NEW state \in Iterations,
         Moves(t, state)
  PROVE  /\ doing' \in [CodecTeam -> Iterations]
         /\ doing'[t] = state
         /\ \A u \in CodecTeam : u # t => doing'[u] = doing[u]
         /\ \A step : In(t, step)' <=> state.step = step
         /\ \A u \in CodecTeam : \A step : u # t =>
              (In(u, step)' <=> In(u, step))
         /\ \A u \in CodecTeam : \A e : u # t => (At(u, e)' <=> At(u, e))
         /\ \A e : At(t, e)' => state.step = "loaded" /\ state.e = e
BY DEF CodecTypes, Moves, In, At

LEMMA SlotType ==
  ASSUME CodecTypes, Scattered, NEW s \in Slots
  PROVE  /\ Named(s) \in Int /\ Value(s) \in {Threshold, - Threshold}
         /\ s \in Nat
<1>1. message[s] \in Int /\ s \in Nat
  BY EntriesType DEF CodecTypes
<1>2. QED
  BY <1>1 DEF Named, Value

\* The part of the invariant that only speaks of slots is kept by a step that
\* writes no slot and claims none.
LEMMA MessageStays ==
  ASSUME CodecInv, UNCHANGED <<codec, rest, message, cnt>>,
         phase' = "encode" <=> phase = "encode"
  PROVE  /\ MessageInv'
         /\ Filled' = Filled
         /\ \A e : IsNamed(e)' <=> IsNamed(e)
         /\ \A s : Named(s)' = Named(s) /\ Value(s)' = Value(s)
<1>1. Filled' = Filled /\ Entries' = Entries /\ update' = update
      /\ flimit' = flimit /\ Scattered' = Scattered
  BY SameCall DEF Filled
<1>2. \A s : Named(s)' = Named(s) /\ Value(s)' = Value(s)
  BY DEF Named, Value
<1>3. \A e : IsNamed(e)' <=> IsNamed(e)
  BY <1>1, <1>2 DEF IsNamed
<1>4. MessageInv'
  BY <1>1, <1>2, <1>3 DEF MessageInv, CodecInv
<1>5. QED
  BY <1>1, <1>2, <1>3, <1>4

-----------------------------------------------------------------------------
(* The encoder of scattered elements.                                      *)

\* What an encoding step leaves to be shown once it has moved a thread.
LEMMA EncodeOthers ==
  ASSUME CodecInv, Scattered, phase = "encode",
         UNCHANGED <<codec, phase, target>>
  PROVE  DecodeInv' /\ BitmapInv'
BY SameCall DEF CodecInv, DecodeInv, BitmapInv

LEMMA LoadFlagKeeps ==
  ASSUME CodecInv, NEW t \in CodecTeam, LoadFlag(t)
  PROVE  CodecInv'
<1>1. PICK e \in Entries :
        /\ doing[t] = Between /\ e \in todo /\ todo' = todo \ {e}
        /\ \/ flag /\ Moves(t, Between)
           \/ ~ flag /\ Moves(t, [step |-> "loaded", e |-> e])
  BY DEF LoadFlag, TakesUp
<1>2. /\ phase = "encode" /\ Scattered /\ CodecTypes /\ PhaseInv /\ MessageInv
      /\ EncodeInv
      /\ UNCHANGED <<codec, phase, rest, message, cnt, flag, target>>
  BY DEF LoadFlag, CodecInv
<1>3. /\ [step |-> "loaded", e |-> e] \in Iterations
      /\ Between \in Iterations
      /\ todo \subseteq Entries
  BY <1>2 DEF Iterations, PhaseInv
<1>4. /\ MessageInv' /\ \A x : IsNamed(x)' <=> IsNamed(x)
  BY <1>2, MessageStays
<1>5. /\ doing' \in [CodecTeam -> Iterations]
      /\ \A u \in CodecTeam : \A step : u # t => (In(u, step)' <=> In(u, step))
      /\ \A u \in CodecTeam : \A x : u # t => (At(u, x)' <=> At(u, x))
  BY <1>1, <1>2, <1>3, MovesTo
<1>6. \/ flag /\ doing'[t] = Between
      \/ ~ flag /\ doing'[t] = [step |-> "loaded", e |-> e]
  BY <1>1, <1>2, <1>3, MovesTo
<1>7. /\ \A x : At(t, x)' => x = e
      /\ ~ flag => At(t, e)'
      /\ ~ In(t, "full")' /\ ~ In(t, "add")'
  BY <1>6 DEF In, At, Between
<1>8. CodecTypes'
  BY <1>2, <1>5, SameCall DEF CodecTypes
<1>9. PhaseInv'
  BY <1>1, <1>2, <1>3, <1>5, <1>7, SameCall DEF PhaseInv
<1>10. EncodeInv'
  <2>1. /\ todo' \subseteq todo /\ flimit' = flimit /\ Entries' = Entries
        /\ Sent(update)' = Sent(update) /\ todo' = todo \ {e}
    BY <1>1, <1>2, SameCall DEF Sent, Plus, Minus
  <2>2. ASSUME NEW u \in CodecTeam, NEW x \in Entries, At(u, x)'
        PROVE  /\ x \notin todo' /\ ~ IsNamed(x)'
               /\ \A v \in CodecTeam : At(v, x)' => v = u
    <3>1. \A v \in CodecTeam : v # t /\ At(v, x)' =>
            /\ x \notin todo /\ ~ IsNamed(x)
            /\ \A w \in CodecTeam : w # t /\ At(w, x)' => w = v
      BY <1>2, <1>5 DEF EncodeInv
    <3>2. At(t, x)' => x = e /\ x \in todo /\ ~ IsNamed(x)
      BY <1>1, <1>2, <1>7 DEF EncodeInv
    <3>3. QED
      BY <1>4, <2>1, <2>2, <3>1, <3>2
  <2>3. \A u \in CodecTeam : In(u, "full")' => flimit' < cnt'
    BY <1>2, <1>5, <1>7, <2>1 DEF EncodeInv
  <2>4. ASSUME NEW x \in Sent(update)
        PROVE  \/ x \in todo' \/ IsNamed(x)' \/ flimit' <= cnt'
               \/ \E u \in CodecTeam : At(u, x)'
    <3>1. CASE flag
      <4>1. flimit < cnt /\ flimit \in Nat /\ cnt \in Nat
        BY <1>2, <3>1, EntriesType DEF EncodeInv, CodecTypes
      <4>2. QED
        BY <1>2, <2>1, <4>1
    <3>2. CASE ~ flag /\ x = e
      BY <1>7, <3>2
    <3>3. CASE ~ flag /\ x # e
      <4>1. \/ x \in todo' \/ IsNamed(x)' \/ flimit' <= cnt'
            \/ \E u \in CodecTeam : At(u, x)
        BY <1>1, <1>2, <1>4, <2>1, <3>3 DEF EncodeInv
      <4>2. ~ At(t, x)
        BY <1>1, <1>2, DoingType DEF At
      <4>3. QED
        BY <1>5, <4>1, <4>2
    <3>4. QED
      BY <3>1, <3>2, <3>3
  <2>5. flag' => flimit' < cnt'
    BY <1>2, <2>1 DEF EncodeInv
  <2>6. \A x \in todo' : ~ IsNamed(x)'
    BY <1>2, <1>4, <2>1 DEF EncodeInv
  <2>7. QED
    BY <2>1, <2>2, <2>3, <2>4, <2>5, <2>6 DEF EncodeInv
<1>11. QED
  BY <1>2, <1>4, <1>8, <1>9, <1>10, EncodeOthers DEF CodecInv

\* A thread leaves its iteration without a slot: it had an element that stays
\* as it is, or there was no slot.
LEMMA DropsKeep ==
  ASSUME CodecInv, Scattered, phase = "encode", NEW t \in CodecTeam,
         Moves(t, Between),
         UNCHANGED <<codec, phase, todo, rest, message, cnt, target>>,
         \/ In(t, "loaded") /\ doing[t].e \notin Sent(update)
            /\ flag' = flag
         \/ In(t, "full") /\ flag' = TRUE
  PROVE  CodecInv'
<1>1. CodecTypes /\ PhaseInv /\ MessageInv /\ EncodeInv
  BY DEF CodecInv
<1>2. /\ MessageInv' /\ \A x : IsNamed(x)' <=> IsNamed(x)
  BY MessageStays
<1>3. Between \in Iterations
  BY DEF Iterations
<1>4. /\ doing' \in [CodecTeam -> Iterations] /\ doing'[t] = Between
      /\ \A u \in CodecTeam : \A step : u # t => (In(u, step)' <=> In(u, step))
      /\ \A u \in CodecTeam : \A x : u # t => (At(u, x)' <=> At(u, x))
  BY <1>1, <1>3, MovesTo
<1>5. /\ ~ In(t, "loaded")' /\ ~ In(t, "full")' /\ ~ In(t, "add")'
      /\ \A x : ~ At(t, x)'
  BY <1>4 DEF In, At, Between
<1>6. flag' \in BOOLEAN
  BY <1>1 DEF CodecTypes
<1>7. CodecTypes'
  BY <1>1, <1>4, <1>6, SameCall DEF CodecTypes
<1>8. PhaseInv'
  BY <1>1, <1>4, <1>5, SameCall DEF PhaseInv
<1>9. EncodeInv'
  <2>1. /\ flimit' = flimit /\ Sent(update)' = Sent(update)
        /\ Entries' = Entries
    BY SameCall DEF Sent, Plus, Minus
  <2>2. flag' => flimit < cnt
    BY <1>1 DEF EncodeInv
  <2>3. ASSUME NEW x \in Sent(update)
        PROVE  \/ x \in todo' \/ IsNamed(x)' \/ flimit' <= cnt'
               \/ \E u \in CodecTeam : At(u, x)'
    <3>1. \/ x \in todo \/ IsNamed(x) \/ flimit <= cnt
          \/ \E u \in CodecTeam : At(u, x)
      BY <1>1 DEF EncodeInv
    <3>2. ~ At(t, x)
      BY <1>1, DoingType DEF At
    <3>3. QED
      BY <1>2, <1>4, <2>1, <3>1, <3>2
  <2>4. ASSUME NEW u \in CodecTeam, NEW x \in Entries, At(u, x)'
        PROVE  /\ x \notin todo' /\ ~ IsNamed(x)'
               /\ \A v \in CodecTeam : At(v, x)' => v = u
    BY <1>1, <1>2, <1>4, <1>5, <2>4 DEF EncodeInv
  <2>5. \A u \in CodecTeam : In(u, "full")' => flimit' < cnt'
    BY <1>1, <1>4, <1>5, <2>1 DEF EncodeInv
  <2>6. \A x \in todo' : ~ IsNamed(x)'
    BY <1>1, <1>2 DEF EncodeInv
  <2>7. QED
    BY <2>1, <2>2, <2>3, <2>4, <2>5, <2>6 DEF EncodeInv
<1>10. QED
  BY <1>2, <1>7, <1>8, <1>9, EncodeOthers DEF CodecInv

\* An element that a thread is at is as it was given.
LEMMA ElementAt ==
  ASSUME CodecInv, Scattered, phase = "encode", NEW t \in CodecTeam,
         In(t, "loaded")
  PROVE  /\ doing[t].e \in Entries /\ At(t, doing[t].e)
         /\ rest[doing[t].e] = update[doing[t].e]
         /\ update[doing[t].e] \in Int
         /\ doing[t].e \in Sent(update) <=>
              Plus(rest[doing[t].e]) \/ Minus(rest[doing[t].e])
<1>1. doing[t].e \in Entries /\ At(t, doing[t].e)
  BY DoingType DEF CodecInv, At
<1>2. ~ IsNamed(doing[t].e)
  BY <1>1 DEF CodecInv, EncodeInv
<1>3. rest[doing[t].e] = update[doing[t].e]
  BY <1>1, <1>2 DEF CodecInv, MessageInv
<1>4. update \in [Entries -> Int]
  BY EntriesType DEF CodecInv, CodecTypes
<1>5. QED
  BY <1>1, <1>3, <1>4 DEF Sent

LEMMA StaysKeeps ==
  ASSUME CodecInv, NEW t \in CodecTeam, Stays(t)
  PROVE  CodecInv'
<1>1. Scattered /\ phase = "encode" /\ In(t, "loaded") /\ Moves(t, Between)
      /\ UNCHANGED <<codec, phase, todo, rest, message, cnt, target, flag>>
      /\ ~ Plus(rest[doing[t].e]) /\ ~ Minus(rest[doing[t].e])
  <2>1. Scattered /\ phase = "encode"
    BY DoingType DEF CodecInv, PhaseInv, Stays, CodecTypes, Finished
  <2>2. QED
    BY <2>1 DEF Stays
<1>2. doing[t].e \notin Sent(update)
  BY <1>1, ElementAt
<1>3. QED
  BY <1>1, <1>2, DropsKeep

LEMMA RaiseFlagKeeps ==
  ASSUME CodecInv, NEW t \in CodecTeam, RaiseFlag(t)
  PROVE  CodecInv'
<1>1. Scattered /\ phase = "encode"
  BY DoingType DEF CodecInv, PhaseInv, RaiseFlag, CodecTypes, Finished
<1>2. QED
  BY <1>1, DropsKeep DEF RaiseFlag

LEMMA ClaimKeeps ==
  ASSUME CodecInv, NEW t \in CodecTeam, Claim(t)
  PROVE  CodecInv'
<1>0. PICK e, sign, k :
        /\ e = doing[t].e /\ k = cnt
        /\ sign = IF Plus(rest[e]) THEN 1 ELSE -1
  OBVIOUS
<1>1. Scattered /\ phase = "encode" /\ In(t, "loaded")
  BY DoingType DEF CodecInv, PhaseInv, Claim, CodecTypes, Finished
<1>2. /\ CodecTypes /\ PhaseInv /\ MessageInv /\ EncodeInv
      /\ cnt \in Nat /\ Header <= cnt /\ cnt' = cnt + 1
      /\ UNCHANGED <<codec, phase, todo, flag, target>>
      /\ e \in Sent(update)
      /\ \/ /\ cnt >= flimit
            /\ Moves(t, [step |-> "full", e |-> e])
            /\ UNCHANGED <<rest, message>>
         \/ /\ cnt < flimit
            /\ Moves(t, Between)
            /\ message' = [message EXCEPT ![k] = sign * (e + 1)]
            /\ rest' = [rest EXCEPT ![e] = @ - sign * Threshold]
  BY <1>0, <1>1, ElementAt DEF CodecInv, Claim, CodecTypes
<1>3. /\ e \in Entries /\ e \in Nat /\ At(t, e) /\ e \notin todo
      /\ ~ IsNamed(e)
      /\ rest[e] = update[e] /\ update[e] \in Int
      /\ flimit \in Nat /\ Slots = 4 .. flimit - 1 /\ Header = 4
      /\ \A u \in CodecTeam : At(u, e) => u = t
  BY <1>0, <1>1, <1>2, ElementAt, EntriesType DEF EncodeInv, CodecTypes
<1>4. /\ [step |-> "full", e |-> e] \in Iterations
      /\ Between \in Iterations
  BY <1>3 DEF Iterations
<1>5. /\ doing' \in [CodecTeam -> Iterations]
      /\ \A u \in CodecTeam : \A step : u # t => (In(u, step)' <=> In(u, step))
      /\ \A u \in CodecTeam : \A x : u # t => (At(u, x)' <=> At(u, x))
      /\ ~ In(t, "loaded")' /\ ~ In(t, "add")' /\ \A x : ~ At(t, x)'
      /\ In(t, "full")' => cnt >= flimit
  <2>1. CASE cnt >= flimit /\ Moves(t, [step |-> "full", e |-> e])
    BY <1>2, <1>4, <2>1, MovesTo
  <2>2. CASE cnt < flimit /\ Moves(t, Between)
    BY <1>2, <1>4, <2>2, MovesTo DEF Between
  <2>3. QED
    BY <1>2, <2>1, <2>2
<1>6. sign \in {1, -1} /\ (sign = 1 <=> Plus(rest[e]))
      /\ sign * (e + 1) \in Int /\ sign * Threshold \in Int
  <2>1. sign = 1 \/ sign = -1
    BY <1>0
  <2>2. sign = 1 <=> Plus(rest[e])
    BY <1>0
  <2>3. QED
    BY <1>3, <2>1, <2>2
<1>7. rest' \in [Entries -> Int] /\ message' \in [Slots -> Int]
  <2>1. CASE UNCHANGED <<rest, message>>
    BY <1>1, <1>2, <2>1 DEF CodecTypes
  <2>2. CASE /\ cnt < flimit
             /\ message' = [message EXCEPT ![k] = sign * (e + 1)]
             /\ rest' = [rest EXCEPT ![e] = @ - sign * Threshold]
    <3>1. rest[e] - sign * Threshold \in Int /\ k \in Slots
      BY <1>0, <1>2, <1>3, <1>6, <2>2
    <3>2. QED
      BY <1>1, <1>2, <1>3, <1>6, <2>2, <3>1 DEF CodecTypes
  <2>3. QED
    BY <1>2, <2>1, <2>2
<1>8. CodecTypes'
  <2>1. cnt' \in Nat /\ 4 <= cnt' /\ Header' = 4
    BY <1>2, <1>3 DEF Header
  <2>2. Sent(update)' = Sent(update)
    BY <1>2, SameCall DEF Sent, Plus, Minus
  <2>3. QED
    BY <1>1, <1>2, <1>5, <1>7, <2>1, <2>2, SameCall DEF CodecTypes
<1>9. PhaseInv'
  BY <1>1, <1>2, <1>5, SameCall DEF PhaseInv
<1>10. CASE cnt >= flimit
  <2>1. UNCHANGED <<rest, message>> /\ Filled' = Filled
    BY <1>2, <1>3, <1>10, SameCall DEF Filled
  <2>2. /\ \A s : Named(s)' = Named(s) /\ Value(s)' = Value(s)
        /\ Entries' = Entries /\ update' = update /\ flimit' = flimit
        /\ Scattered' = Scattered /\ Sent(update)' = Sent(update)
    BY <1>2, <2>1, SameCall DEF Named, Value, Sent, Plus, Minus
  <2>3. \A x : IsNamed(x)' <=> IsNamed(x)
    BY <2>1, <2>2 DEF IsNamed
  <2>4. MessageInv'
    BY <1>1, <1>2, <2>1, <2>2, <2>3 DEF MessageInv
  <2>5. flimit < cnt'
    BY <1>2, <1>3, <1>10
  <2>6. EncodeInv'
    <3>1. \A x \in todo' : ~ IsNamed(x)'
      BY <1>1, <1>2, <2>3 DEF EncodeInv
    <3>2. \A u \in CodecTeam, x \in Entries : At(u, x)' =>
            /\ x \notin todo' /\ ~ IsNamed(x)'
            /\ \A v \in CodecTeam : At(v, x)' => v = u
      BY <1>1, <1>2, <1>5, <2>3 DEF EncodeInv
    <3>3. flimit' < cnt' /\ flimit' <= cnt'
      BY <1>2, <1>3, <2>2, <2>5
    <3>4. QED
      BY <2>2, <3>1, <3>2, <3>3 DEF EncodeInv
  <2>7. QED
    BY <1>1, <1>2, <1>8, <1>9, <2>4, <2>6, EncodeOthers DEF CodecInv
<1>11. CASE cnt < flimit
  <2>1. k \in Slots /\ Filled' = Filled \union {k} /\ k \notin Filled
        /\ Filled \subseteq Slots
    BY <1>0, <1>2, <1>3, <1>11, SameCall DEF Filled
  <2>2. /\ Entries' = Entries /\ update' = update /\ flimit' = flimit
        /\ Scattered' = Scattered /\ Sent(update)' = Sent(update)
    BY <1>2, SameCall DEF Sent, Plus, Minus
  <2>3. /\ message' = [message EXCEPT ![k] = sign * (e + 1)]
        /\ rest' = [rest EXCEPT ![e] = rest[e] - sign * Threshold]
    BY <1>2, <1>3, <1>11
  <2>4. /\ \A s \in Slots : s # k => message'[s] = message[s]
        /\ message'[k] = sign * (e + 1)
        /\ \A x \in Entries : x # e => rest'[x] = rest[x]
        /\ rest'[e] = rest[e] - sign * Threshold
    BY <1>1, <1>2, <1>3, <2>1, <2>3 DEF CodecTypes
  <2>5. \A s \in Filled : Named(s)' = Named(s) /\ Value(s)' = Value(s)
    BY <2>1, <2>4 DEF Named, Value
  <2>6. Named(k)' = e /\ Value(k)' = sign * Threshold
    <3>1. CASE Plus(rest[e])
      BY <1>3, <1>6, <2>4, <3>1 DEF Named, Value
    <3>2. CASE ~ Plus(rest[e])
      BY <1>3, <1>6, <2>4, <3>2 DEF Named, Value
    <3>3. QED
      BY <3>1, <3>2
  <2>7. \A x : IsNamed(x)' <=> IsNamed(x) \/ x = e
    BY <2>1, <2>5, <2>6 DEF IsNamed
  <2>8. MessageInv'
    <3>1. ASSUME NEW s \in Filled'
          PROVE  /\ Named(s)' \in Entries
                 /\ rest'[Named(s)'] = update[Named(s)'] - Value(s)'
                 /\ \A r \in Filled' : Named(r)' = Named(s)' => r = s
      <4>1. \A r \in Filled : Named(r) # e
        BY <1>3 DEF IsNamed
      <4>2. CASE s \in Filled
        <5>1. /\ Named(s) \in Entries /\ Named(s) # e
              /\ rest[Named(s)] = update[Named(s)] - Value(s)
              /\ \A r \in Filled : Named(r) = Named(s) => r = s
          BY <1>1, <1>2, <4>1, <4>2 DEF MessageInv
        <5>2. QED
          BY <2>1, <2>4, <2>5, <2>6, <4>2, <5>1
      <4>3. CASE s = k
        BY <1>3, <2>1, <2>4, <2>5, <2>6, <4>1, <4>3
      <4>4. QED
        BY <2>1, <4>2, <4>3
    <3>2. \A x \in Entries : ~ IsNamed(x)' => rest'[x] = update[x]
      BY <1>1, <1>2, <2>4, <2>7 DEF MessageInv
    <3>3. QED
      BY <1>1, <1>2, <2>2, <3>1, <3>2 DEF MessageInv
  <2>9. EncodeInv'
    <3>1. \A x \in todo' : ~ IsNamed(x)'
      BY <1>1, <1>2, <1>3, <2>7 DEF EncodeInv
    <3>2. ASSUME NEW u \in CodecTeam, NEW x \in Entries, At(u, x)'
          PROVE  /\ x \notin todo' /\ ~ IsNamed(x)'
                 /\ \A v \in CodecTeam : At(v, x)' => v = u
      <4>1. u # t /\ At(u, x) /\ x # e
        BY <1>3, <1>5, <3>2
      <4>2. QED
        BY <1>1, <1>2, <1>5, <2>7, <4>1 DEF EncodeInv
    <3>3. ~ flag
      <4>1. flag => flimit < cnt
        BY <1>1, <1>2 DEF EncodeInv
      <4>2. QED
        BY <1>2, <1>3, <1>11, <4>1
    <3>4. \A u \in CodecTeam : ~ In(u, "full")'
      <4>1. \A u \in CodecTeam : In(u, "full") => flimit < cnt
        BY <1>1, <1>2 DEF EncodeInv
      <4>2. QED
        BY <1>2, <1>3, <1>5, <1>11, <4>1
    <3>5. ASSUME NEW x \in Sent(update)
          PROVE  \/ x \in todo' \/ IsNamed(x)' \/ flimit' <= cnt'
                 \/ \E u \in CodecTeam : At(u, x)'
      <4>1. \/ x \in todo \/ IsNamed(x) \/ flimit <= cnt
            \/ \E u \in CodecTeam : At(u, x)
        BY <1>1, <1>2 DEF EncodeInv
      <4>2. At(t, x) => x = e
        BY <1>0 DEF At
      <4>3. ~ flimit <= cnt
        BY <1>2, <1>3, <1>11
      <4>4. QED
        BY <1>2, <1>5, <2>7, <4>1, <4>2, <4>3
    <3>6. QED
      BY <1>2, <2>2, <3>1, <3>2, <3>3, <3>4, <3>5 DEF EncodeInv
  <2>10. QED
    BY <1>1, <1>2, <1>8, <1>9, <2>8, <2>9, EncodeOthers DEF CodecInv
<1>12. QED
  BY <1>2, <1>3, <1>10, <1>11

\* The encoder does not end before its slots are used up: if it did, every
\* element that reaches the threshold would be named, by fewer slots than there
\* are such elements.
LEMMA SlotsUsedUp ==
  ASSUME CodecInv, Scattered, phase = "encode", Finished
  PROVE  flimit <= cnt
<1>1. /\ flimit = codec.limit + 4 /\ flimit \in Nat /\ Header = 4
      /\ Slots = 4 .. flimit - 1 /\ cnt \in Nat /\ 4 <= cnt
      /\ codec.limit <= Cardinality(Sent(update))
  BY EntriesType DEF CodecInv, CodecTypes
<1> SUFFICES ASSUME cnt < flimit PROVE FALSE
  BY <1>1
<1>2. Filled = 4 .. cnt - 1
  BY <1>1 DEF Filled
<1>3. IsFiniteSet(Filled) /\ Cardinality(Filled) = cnt - 4
  <2>1. IsFiniteSet(4 .. cnt - 1)
        /\ Cardinality(4 .. cnt - 1) =
             IF 4 > cnt - 1 THEN 0 ELSE (cnt - 1) - 4 + 1
    BY <1>1, FS_Interval
  <2>2. QED
    BY <1>1, <1>2, <2>1
<1>4. \A e \in Sent(update) : \E s \in Filled : Named(s) = e
  <2>1. \A t \in CodecTeam : \A e : ~ At(t, e)
    BY DEF Finished, At, In, Between
  <2>2. QED
    BY <1>1, <2>1 DEF CodecInv, EncodeInv, Finished, IsNamed
<1> DEFINE slot == [e \in Sent(update) |-> CHOOSE s \in Filled : Named(s) = e]
<1>5. \A e \in Sent(update) : slot[e] \in Filled /\ Named(slot[e]) = e
  BY <1>4
<1> HIDE DEF slot
<1>6. slot \in [Sent(update) -> Filled]
  BY <1>5 DEF slot
<1>7. slot \in Injection(Sent(update), Filled)
  BY <1>5, <1>6 DEF Injection, IsInjective
<1>8. Cardinality(Sent(update)) <= cnt - 4
  BY <1>3, <1>7, FS_Injection
<1>9. Cardinality(Sent(update)) \in Nat
  BY <1>3, <1>7, FS_Injection, FS_CardinalityType
<1>10. codec.limit \in Nat
  BY DEF CodecInv, CodecTypes, Calls
<1>11. QED
  BY <1>1, <1>8, <1>9, <1>10

\* What is so when a message has left the encoder.
LEMMA MessageLeft ==
  ASSUME CodecInv, Scattered, phase # "encode"
  PROVE  /\ Filled = Slots
         /\ \A s \in Slots :
              /\ Named(s) \in Entries
              /\ \A r \in Slots : Named(r) = Named(s) => r = s
<1>1. flimit <= cnt /\ flimit \in Nat /\ cnt \in Nat
      /\ Slots = 4 .. flimit - 1
  BY EntriesType DEF CodecInv, MessageInv, CodecTypes
<1>2. Filled = Slots
  BY <1>1 DEF Filled
<1>3. QED
  BY <1>2 DEF CodecInv, MessageInv

LEMMA ScatteredReturnKeeps ==
  ASSUME CodecInv, Scattered, CodecReturn
  PROVE  CodecInv'
<1>1. /\ CodecTypes /\ PhaseInv /\ MessageInv /\ DecodeInv /\ BitmapInv
      /\ Finished
      /\ UNCHANGED <<codec, doing, rest, message, cnt, flag, target>>
      /\ \A t \in CodecTeam : \A step : In(t, step)' <=> In(t, step)
      /\ \A t \in CodecTeam :
           ~ In(t, "loaded") /\ ~ In(t, "full") /\ ~ In(t, "add")
  BY DEF CodecInv, CodecReturn, In, Finished, Between
<1>2. /\ \A s : Named(s)' = Named(s) /\ Value(s)' = Value(s)
      /\ Filled' = Filled /\ Slots' = Slots /\ Entries' = Entries
      /\ update' = update /\ flimit' = flimit /\ Scattered'
      /\ Iterations' = Iterations /\ Sent(update)' = Sent(update)
      /\ Words' = Words
  BY <1>1, SameCall
     DEF Named, Value, Filled, Scattered, Sent, Plus, Minus
<1>3. \A e : IsNamed(e)' <=> IsNamed(e)
  BY <1>2 DEF IsNamed
<1>4. phase' \in {"decode", "returned"} /\ flimit <= cnt
  <2>1. phase \in {"encode", "decode"} /\ phase' \in {"decode", "returned"}
    BY DEF CodecReturn
  <2>2. QED
    BY <1>1, <2>1, SlotsUsedUp DEF MessageInv
<1>5. CodecTypes'
  BY <1>1, <1>2, <1>4, SameCall DEF CodecTypes
<1>6. MessageInv'
  BY <1>1, <1>2, <1>3, <1>4 DEF MessageInv
<1>7. CASE phase = "encode"
  <2>1. phase' = "decode" /\ todo' = Slots
    BY <1>7 DEF CodecReturn
  <2>2. PhaseInv'
    BY <1>1, <1>2, <2>1 DEF PhaseInv
  <2>3. EncodeInv' /\ BitmapInv'
    BY <1>2, <2>1 DEF EncodeInv, BitmapInv
  <2>4. Filled = Slots
    <3>1. flimit \in Nat /\ cnt \in Nat /\ Slots = 4 .. flimit - 1
      BY <1>1, EntriesType DEF CodecTypes
    <3>2. QED
      BY <1>4, <3>1 DEF Filled
  <2>5. DecodeInv'
    <3>1. \A e \in Entries : target'[e] = 0
      BY <1>1, <1>7 DEF DecodeInv
    <3>2. \A s \in Slots : ~ Landed(s)'
      BY <2>1 DEF Landed
    <3>3. \A s \in Slots : Named(s) \in Entries
      BY <1>1, <2>4 DEF MessageInv
    <3>4. QED
      BY <1>1, <1>2, <1>3, <2>1, <3>1, <3>2, <3>3 DEF DecodeInv
  <2>6. QED
    BY <1>5, <1>6, <2>2, <2>3, <2>5 DEF CodecInv
<1>8. CASE phase = "decode"
  <2>1. phase' = "returned" /\ todo' = todo /\ Finished'
    BY <1>1, <1>8 DEF CodecReturn, Finished
  <2>2. PhaseInv'
    BY <1>1, <1>2, <2>1 DEF PhaseInv
  <2>3. EncodeInv' /\ BitmapInv'
    BY <1>2, <2>1 DEF EncodeInv, BitmapInv
  <2>4. \A s : Landed(s)' <=> Landed(s)
    BY <1>1, <2>1 DEF Landed
  <2>5. DecodeInv'
    BY <1>1, <1>2, <1>3, <1>8, <2>1, <2>4 DEF DecodeInv
  <2>6. QED
    BY <1>5, <1>6, <2>2, <2>3, <2>5 DEF CodecInv
<1>9. QED
  BY <1>7, <1>8 DEF CodecReturn

-----------------------------------------------------------------------------
(* The decoder of scattered elements.                                      *)

LEMMA ReadTargetKeeps ==
  ASSUME CodecInv, NEW t \in CodecTeam, ReadTarget(t)
  PROVE  CodecInv'
<1>1. /\ phase = "decode" /\ Scattered
      /\ CodecTypes /\ PhaseInv /\ MessageInv /\ DecodeInv
      /\ UNCHANGED <<codec, phase, rest, message, cnt, flag, target>>
  BY DEF ReadTarget, CodecInv
<1> DEFINE Held(x) == IF Named(x) \in Entries THEN target[Named(x)] ELSE 0
<1>2. PICK s \in Slots :
        /\ doing[t] = Between /\ s \in todo /\ todo' = todo \ {s}
        /\ Moves(t, [step |-> "add", slot |-> s, old |-> Held(s)])
  BY DEF ReadTarget, TakesUp
<1> DEFINE old == Held(s)
<1>3. Named(s) \in Entries
  BY <1>1, MessageLeft
<1>4. old = 0
  <2>1. ~ Landed(s)
    BY <1>2 DEF Landed
  <2>2. QED
    BY <1>1, <1>2, <1>3, <2>1 DEF DecodeInv
<1>5. [step |-> "add", slot |-> s, old |-> old] \in Iterations
  BY <1>4 DEF Iterations
<1>6. /\ doing' \in [CodecTeam -> Iterations]
      /\ doing'[t] = [step |-> "add", slot |-> s, old |-> old]
      /\ \A u \in CodecTeam : u # t => doing'[u] = doing[u]
      /\ \A u \in CodecTeam : \A step : u # t => (In(u, step)' <=> In(u, step))
  BY <1>1, <1>2, <1>5, MovesTo
<1>7. /\ In(t, "add")' /\ ~ In(t, "loaded")' /\ ~ In(t, "full")'
      /\ doing'[t].slot = s /\ doing'[t].old = 0
  BY <1>4, <1>6 DEF In
<1>8. CodecTypes'
  BY <1>1, <1>6, SameCall DEF CodecTypes
<1>9. PhaseInv'
  BY <1>1, <1>2, <1>6, <1>7, SameCall DEF PhaseInv
<1>10. /\ MessageInv' /\ \A x : IsNamed(x)' <=> IsNamed(x)
       /\ \A x : Named(x)' = Named(x) /\ Value(x)' = Value(x)
  BY <1>1, MessageStays
<1>11. EncodeInv' /\ BitmapInv'
  BY <1>1, SameCall DEF EncodeInv, BitmapInv
<1>12. \A x \in Slots : Landed(x)' <=> Landed(x)
  <2> TAKE x \in Slots
  <2>1. CASE x = s
    BY <1>2, <1>7, <2>1 DEF Landed
  <2>2. CASE x # s
    <3>1. x \in todo' <=> x \in todo
      BY <1>2, <2>2
    <3>2. ~ In(t, "add")
      BY <1>1, <1>2, DoingType
    <3>3. \A u \in CodecTeam :
            (In(u, "add")' /\ doing'[u].slot = x)
              <=> (In(u, "add") /\ doing[u].slot = x)
      BY <1>6, <1>7, <2>2, <3>2
    <3>4. QED
      BY <3>1, <3>3 DEF Landed
  <2>3. QED
    BY <2>1, <2>2
<1>13. DecodeInv'
  <2>1. ASSUME NEW u \in CodecTeam, In(u, "add")'
        PROVE  /\ doing'[u].slot \notin todo' /\ doing'[u].old = 0
               /\ \A v \in CodecTeam :
                    In(v, "add")' /\ doing'[v].slot = doing'[u].slot => v = u
    <3>1. \A v \in CodecTeam : v # t /\ In(v, "add")' =>
            /\ doing'[v] = doing[v] /\ In(v, "add")
            /\ doing[v].slot \notin todo /\ doing[v].old = 0
            /\ doing[v].slot # s
      BY <1>1, <1>2, <1>6 DEF DecodeInv
    <3>2. CASE u = t
      BY <1>2, <1>7, <3>1, <3>2
    <3>3. CASE u # t
      <4>1. In(u, "add") /\ doing'[u] = doing[u] /\ doing[u].slot # s
            /\ doing[u].slot \notin todo /\ doing[u].old = 0
        BY <2>1, <3>1, <3>3
      <4>2. ASSUME NEW v \in CodecTeam, In(v, "add")',
                   doing'[v].slot = doing'[u].slot
            PROVE  v = u
        <5>1. v # t
          BY <1>7, <4>1, <4>2
        <5>2. In(v, "add") /\ doing'[v] = doing[v]
          BY <3>1, <4>2, <5>1
        <5>3. QED
          BY <1>1, <4>1, <4>2, <5>2 DEF DecodeInv
      <4>3. QED
        BY <1>2, <4>1, <4>2
    <3>4. QED
      BY <3>2, <3>3
  <2>2. \A x \in Slots :
          target'[Named(x)] = IF Landed(x)' THEN Value(x) ELSE 0
    BY <1>1, <1>12 DEF DecodeInv
  <2>3. \A e \in Entries : ~ IsNamed(e) => target'[e] = 0
    BY <1>1 DEF DecodeInv
  <2>4. phase' = "decode" /\ Slots' = Slots /\ Entries' = Entries
    BY <1>1, SameCall
  <2>5. QED
    BY <1>10, <2>1, <2>2, <2>3, <2>4 DEF DecodeInv
<1>14. QED
  BY <1>8, <1>9, <1>10, <1>11, <1>13 DEF CodecInv

LEMMA WriteTargetKeeps ==
  ASSUME CodecInv, NEW t \in CodecTeam, WriteTarget(t)
  PROVE  CodecInv'
<1>1. Scattered /\ phase = "decode" /\ In(t, "add")
  BY DoingType DEF CodecInv, PhaseInv, WriteTarget, CodecTypes, Finished
<1>2. /\ CodecTypes /\ PhaseInv /\ MessageInv /\ DecodeInv
      /\ UNCHANGED <<codec, phase, todo, rest, message, cnt, flag>>
  BY DEF WriteTarget, CodecInv
<1>3. PICK s \in Slots :
        /\ s = doing[t].slot /\ s \notin todo
        /\ target' = [target EXCEPT ![Named(s)] = 0 + Value(s)]
        /\ Moves(t, Between)
        /\ \A u \in CodecTeam :
             In(u, "add") /\ doing[u].slot = s => u = t
  <2>1. doing[t].slot \in Slots /\ doing[t].slot \notin todo
        /\ doing[t].old = 0
        /\ \A u \in CodecTeam :
             In(u, "add") /\ doing[u].slot = doing[t].slot => u = t
    BY <1>1, <1>2, DoingType DEF DecodeInv
  <2>2. QED
    BY <2>1 DEF WriteTarget
<1>4. Named(s) \in Entries /\ Value(s) \in Int
      /\ \A r \in Slots : Named(r) = Named(s) => r = s
  BY <1>1, <1>2, MessageLeft, SlotType
<1>5. /\ target' \in [Entries -> Int] /\ target'[Named(s)] = Value(s)
      /\ \A e \in Entries : e # Named(s) => target'[e] = target[e]
  BY <1>2, <1>3, <1>4 DEF CodecTypes
<1>6. Between \in Iterations
  BY DEF Iterations
<1>7. /\ doing' \in [CodecTeam -> Iterations] /\ doing'[t] = Between
      /\ \A u \in CodecTeam : u # t => doing'[u] = doing[u]
      /\ \A u \in CodecTeam : \A step : u # t => (In(u, step)' <=> In(u, step))
  BY <1>2, <1>3, <1>6, MovesTo
<1>8. ~ In(t, "add")' /\ ~ In(t, "loaded")' /\ ~ In(t, "full")'
  BY <1>7 DEF In, Between
<1>9. CodecTypes'
  BY <1>2, <1>5, <1>7, SameCall DEF CodecTypes
<1>10. PhaseInv'
  BY <1>1, <1>2, <1>7, <1>8, SameCall DEF PhaseInv
<1>11. /\ MessageInv' /\ \A x : IsNamed(x)' <=> IsNamed(x)
       /\ \A x : Named(x)' = Named(x) /\ Value(x)' = Value(x)
  BY <1>2, MessageStays
<1>12. EncodeInv' /\ BitmapInv'
  BY <1>1, <1>2, SameCall DEF EncodeInv, BitmapInv
<1>13. Landed(s)' /\ ~ Landed(s)
  BY <1>1, <1>2, <1>3, <1>7, <1>8 DEF Landed
<1>14. \A x \in Slots : x # s => (Landed(x)' <=> Landed(x))
  <2> TAKE x \in Slots
  <2> HAVE x # s
  <2>1. \A u \in CodecTeam :
          (In(u, "add")' /\ doing'[u].slot = x)
            <=> (In(u, "add") /\ doing[u].slot = x)
    BY <1>3, <1>7, <1>8
  <2>2. QED
    BY <1>2, <2>1 DEF Landed
<1>15. DecodeInv'
  <2>1. ASSUME NEW x \in Slots
        PROVE  target'[Named(x)] = IF Landed(x)' THEN Value(x) ELSE 0
    <3>1. CASE x = s
      BY <1>5, <1>13, <3>1
    <3>2. CASE x # s
      <4>1. Named(x) \in Entries /\ Named(x) # Named(s)
        BY <1>1, <1>4, <3>2, MessageLeft
      <4>2. target[Named(x)] = IF Landed(x) THEN Value(x) ELSE 0
        BY <1>1, <1>2 DEF DecodeInv
      <4>3. QED
        BY <1>5, <1>14, <3>2, <4>1, <4>2
    <3>3. QED
      BY <3>1, <3>2
  <2>2. \A e \in Entries : ~ IsNamed(e) => target'[e] = 0
    <3>1. IsNamed(Named(s))
      BY <1>1, MessageLeft DEF IsNamed
    <3>2. QED
      BY <1>1, <1>2, <1>5, <3>1 DEF DecodeInv
  <2>3. ASSUME NEW u \in CodecTeam, In(u, "add")'
        PROVE  /\ doing'[u].slot \notin todo' /\ doing'[u].old = 0
               /\ \A v \in CodecTeam :
                    In(v, "add")' /\ doing'[v].slot = doing'[u].slot => v = u
    <3>1. u # t /\ In(u, "add") /\ doing'[u] = doing[u]
      BY <1>7, <1>8, <2>3
    <3>2. /\ doing[u].slot \notin todo /\ doing[u].old = 0
          /\ \A v \in CodecTeam :
               In(v, "add") /\ doing[v].slot = doing[u].slot => v = u
      BY <1>1, <1>2, <3>1 DEF DecodeInv
    <3>3. \A v \in CodecTeam : In(v, "add")' =>
            In(v, "add") /\ doing'[v] = doing[v]
      BY <1>7, <1>8
    <3>4. QED
      BY <1>2, <3>1, <3>2, <3>3
  <2>4. phase' = "decode" /\ Slots' = Slots /\ Entries' = Entries
    BY <1>1, <1>2, SameCall
  <2>5. QED
    BY <1>11, <2>1, <2>2, <2>3, <2>4 DEF DecodeInv
<1>16. QED
  BY <1>9, <1>10, <1>11, <1>12, <1>15 DEF CodecInv

-----------------------------------------------------------------------------
(* The bitmap.                                                             *)

LEMMA CodeType ==
  ASSUME NEW v \in Int
  PROVE  /\ Code(v) \in Codes /\ Kept(v) \in Int /\ Added(Code(v)) \in Int
         /\ Kept(v) + Added(Code(v)) = v
<1>1. Half \in Int
  BY DEF Half
<1>2. Magnitude(v) \in Int /\ Code(v) \in Codes
  BY DEF Magnitude, Code, Codes
<1> HIDE DEF Half
<1>3. Kept(v) \in Int
  BY <1>1 DEF Kept
<1>4. /\ Code(v).bit <=> Magnitude(v) >= Threshold
      /\ Code(v).sign <=> v < 0 /\ Magnitude(v) >= Half
  BY DEF Code
<1>5. Half <= Threshold
  BY DEF Half
<1>6. CASE Magnitude(v) >= Threshold
  <2>1. Magnitude(v) >= Half
    BY <1>1, <1>2, <1>5, <1>6
  <2>2. QED
    BY <1>2, <1>3, <1>4, <1>6, <2>1 DEF Kept, Added
<1>7. CASE ~ Magnitude(v) >= Threshold
  BY <1>1, <1>2, <1>3, <1>4, <1>7 DEF Kept, Added
<1>8. QED
  BY <1>6, <1>7

\* The elements of a word are those it is the word of.
LEMMA BitsOfWord ==
  ASSUME codec \in Calls, NEW w, NEW e \in Entries
  PROVE  e \in Bits(w) <=> Word(e) = w
BY DEF Bits, Word

LEMMA EncodeWordKeeps ==
  ASSUME CodecInv, NEW t \in CodecTeam, EncodeWord(t)
  PROVE  CodecInv'
<1>1. /\ phase = "encode" /\ ~ Scattered /\ CodecTypes /\ PhaseInv /\ BitmapInv
      /\ UNCHANGED <<codec, phase, doing, cnt, flag, target>>
      /\ update \in [Entries -> Int]
  BY EntriesType DEF EncodeWord, CodecInv, CodecTypes
<1>2. PICK w \in Words :
        /\ w \in todo /\ todo' = todo \ {w}
        /\ message' = [message EXCEPT ![w] = [e \in Bits(w) |-> Code(rest[e])]]
        /\ rest' = [e \in Entries |->
                      IF e \in Bits(w) THEN Kept(rest[e]) ELSE rest[e]]
  BY DEF EncodeWord, TakesUp
<1>3. \A e \in Bits(w) : e \in Entries /\ rest[e] \in Int
                         /\ Code(rest[e]) \in Codes /\ Kept(rest[e]) \in Int
  BY <1>1, CodeType DEF Bits, CodecTypes
<1>4. rest' \in [Entries -> Int]
  BY <1>1, <1>2, <1>3 DEF CodecTypes
<1>5. [e \in Bits(w) |-> Code(rest[e])] \in Rows
  BY <1>3 DEF Rows
<1>6. message' \in [Words -> Rows]
  BY <1>1, <1>2, <1>5 DEF CodecTypes
<1>7. CodecTypes'
  <2>1. message' \in [Words' -> Rows']
    BY <1>1, <1>6, SameCall
  <2>2. /\ codec' \in Calls' /\ Scattered' = Scattered
        /\ rest' \in [Entries' -> Int] /\ target' \in [Entries' -> Int]
        /\ doing' \in [CodecTeam -> Iterations']
        /\ phase' \in {"encode", "decode", "returned"}
        /\ cnt' \in Nat /\ Header' <= cnt' /\ flag' \in BOOLEAN
    BY <1>1, <1>4, SameCall DEF CodecTypes, Header
  <2>3. QED
    BY <1>1, <2>1, <2>2 DEF CodecTypes
<1>8. PhaseInv'
  BY <1>1, <1>2, SameCall DEF PhaseInv, In
<1>9. MessageInv' /\ EncodeInv' /\ DecodeInv'
  BY <1>1, SameCall DEF MessageInv, EncodeInv, DecodeInv
<1>10. BitmapInv'
  <2>1. ASSUME NEW e \in Entries
        PROVE  /\ rest'[e] = IF Word(e) \notin todo' THEN Kept(update[e])
                                                     ELSE update[e]
               /\ Word(e) \notin todo' =>
                    message'[Word(e)][e] = Code(update[e])
    <3>1. Word(e) \in Words /\ (e \in Bits(w) <=> Word(e) = w)
      BY <1>1, WordsType, BitsOfWord DEF CodecTypes
    <3>2. /\ rest[e] = IF Word(e) \notin todo THEN Kept(update[e])
                                              ELSE update[e]
          /\ Word(e) \notin todo => message[Word(e)][e] = Code(update[e])
      BY <1>1 DEF BitmapInv
    <3>3. CASE Word(e) = w
      <4>1. message'[w] = [x \in Bits(w) |-> Code(rest[x])]
        BY <1>1, <1>2 DEF CodecTypes
      <4>2. QED
        BY <1>2, <3>1, <3>2, <3>3, <4>1
    <3>4. CASE Word(e) # w
      <4>1. message'[Word(e)] = message[Word(e)]
        BY <1>1, <1>2, <3>1, <3>4 DEF CodecTypes
      <4>2. QED
        BY <1>2, <3>1, <3>2, <3>4, <4>1
    <3>5. QED
      BY <3>3, <3>4
  <2>2. \A e \in Entries : target'[e] = 0
    BY <1>1 DEF BitmapInv
  <2>3. QED
    BY <1>1, <2>1, <2>2, SameCall DEF BitmapInv, Word
<1>11. QED
  BY <1>7, <1>8, <1>9, <1>10 DEF CodecInv

LEMMA DecodeWordKeeps ==
  ASSUME CodecInv, NEW t \in CodecTeam, DecodeWord(t)
  PROVE  CodecInv'
<1>1. /\ phase = "decode" /\ ~ Scattered /\ CodecTypes /\ PhaseInv /\ BitmapInv
      /\ UNCHANGED <<codec, phase, doing, rest, message, cnt, flag>>
      /\ update \in [Entries -> Int]
  BY EntriesType DEF DecodeWord, CodecInv, CodecTypes
<1>2. PICK w \in Words :
        /\ w \in todo /\ todo' = todo \ {w}
        /\ target' = [e \in Entries |->
                        IF e \in Bits(w) THEN target[e] + Added(message[w][e])
                        ELSE target[e]]
  BY DEF DecodeWord, TakesUp
<1>3. ASSUME NEW e \in Entries
      PROVE  target'[e] = IF Word(e) \notin todo' THEN Added(Code(update[e]))
                                                  ELSE 0
  <2>1. e \in Bits(w) <=> Word(e) = w
    BY <1>1, BitsOfWord DEF CodecTypes
  <2>2. /\ target[e] = IF Word(e) \notin todo THEN Added(Code(update[e]))
                                              ELSE 0
        /\ message[Word(e)][e] = Code(update[e])
    BY <1>1 DEF BitmapInv
  <2>3. Added(Code(update[e])) \in Int
    BY <1>1, CodeType
  <2>4. CASE Word(e) = w
    BY <1>2, <2>1, <2>2, <2>3, <2>4
  <2>5. CASE Word(e) # w
    BY <1>2, <2>1, <2>2, <2>5
  <2>6. QED
    BY <2>4, <2>5
<1>4. \A e \in Entries : Added(Code(update[e])) \in Int
  BY <1>1, CodeType
<1>5. target' \in [Entries -> Int]
  BY <1>2, <1>3, <1>4
<1>6. CodecTypes'
  BY <1>1, <1>5, SameCall DEF CodecTypes
<1>7. PhaseInv'
  BY <1>1, <1>2, SameCall DEF PhaseInv, In
<1>8. MessageInv' /\ EncodeInv' /\ DecodeInv'
  BY <1>1, SameCall DEF MessageInv, EncodeInv, DecodeInv
<1>9. BitmapInv'
  BY <1>1, <1>3, SameCall DEF BitmapInv, Word
<1>10. QED
  BY <1>6, <1>7, <1>8, <1>9 DEF CodecInv

LEMMA BitmapReturnKeeps ==
  ASSUME CodecInv, ~ Scattered, CodecReturn
  PROVE  CodecInv'
<1>1. /\ CodecTypes /\ PhaseInv /\ BitmapInv /\ Finished
      /\ UNCHANGED <<codec, doing, rest, message, cnt, flag, target>>
      /\ \A t \in CodecTeam : \A step : In(t, step)' <=> In(t, step)
      /\ \A t \in CodecTeam :
           ~ In(t, "loaded") /\ ~ In(t, "full") /\ ~ In(t, "add")
  BY DEF CodecInv, CodecReturn, In, Finished, Between
<1>2. /\ ~ Scattered' /\ Entries' = Entries /\ update' = update
      /\ Words' = Words /\ Slots' = Slots
  BY <1>1, SameCall
<1>3. \/ phase = "encode" /\ phase' = "decode" /\ todo' = Words
      \/ phase = "decode" /\ phase' = "returned" /\ todo' = todo
  BY DEF CodecReturn
<1>4. CodecTypes'
  BY <1>1, <1>3, SameCall DEF CodecTypes
<1>5. PhaseInv'
  BY <1>1, <1>2, <1>3 DEF PhaseInv, Finished
<1>6. MessageInv' /\ EncodeInv' /\ DecodeInv'
  BY <1>2 DEF MessageInv, EncodeInv, DecodeInv
<1>7. BitmapInv'
  <2>1. \A e \in Entries : Word(e) \in Words
    BY <1>1, WordsType DEF CodecTypes
  <2>2. todo = {}
    BY <1>1 DEF Finished
  <2>3. CASE phase = "encode"
    <3>1. \A e \in Entries :
            /\ rest[e] = Kept(update[e]) /\ target[e] = 0
            /\ message[Word(e)][e] = Code(update[e])
      BY <1>1, <2>2, <2>3 DEF BitmapInv
    <3>2. QED
      BY <1>1, <1>2, <1>3, <2>1, <2>3, <3>1 DEF BitmapInv, Word
  <2>4. CASE phase = "decode"
    <3>1. \A e \in Entries :
            /\ rest[e] = Kept(update[e])
            /\ message[Word(e)][e] = Code(update[e])
            /\ target[e] = Added(Code(update[e]))
      BY <1>1, <2>2, <2>4 DEF BitmapInv
    <3>2. QED
      BY <1>1, <1>2, <1>3, <2>4, <3>1 DEF BitmapInv, Word
  <2>5. QED
    BY <1>3, <2>3, <2>4
<1>8. QED
  BY <1>4, <1>5, <1>6, <1>7 DEF CodecInv

-----------------------------------------------------------------------------

LEMMA CodecStarts == CodecStart => CodecInv
<1> SUFFICES ASSUME CodecStart PROVE CodecInv
  OBVIOUS
<1>1. /\ codec \in Calls
      /\ Scattered => codec.limit <= Cardinality(Sent(update))
  <2>1. PICK x \in Updates :
          \/ \E k \in 0 .. Cardinality(Sent(x)) :
               codec = [update |-> x, kind |-> "threshold", limit |-> k]
          \/ codec = [update |-> x, kind |-> "bitmap", limit |-> 0]
    BY DEF CodecStart
  <2>2. Cardinality(Sent(x)) \in Nat
    <3>1. IsUpdate(x)
      OBVIOUS
    <3>2. IsFiniteSet(DOMAIN x) /\ Sent(x) \in SUBSET DOMAIN x
      BY <3>1, FS_Interval DEF IsUpdate, Sent
    <3>3. QED
      BY <3>2, FS_Subset, FS_CardinalityType
  <2>3. CASE codec = [update |-> x, kind |-> "bitmap", limit |-> 0]
    BY <2>3 DEF Calls, Scattered
  <2>4. CASE \E k \in 0 .. Cardinality(Sent(x)) :
               codec = [update |-> x, kind |-> "threshold", limit |-> k]
    BY <2>2, <2>4 DEF Calls, update
  <2>5. QED
    BY <2>1, <2>3, <2>4
<1>2. /\ phase = "encode" /\ doing = [t \in CodecTeam |-> Between]
      /\ rest = update /\ target = [e \in Entries |-> 0]
      /\ cnt = 4 /\ flag = FALSE /\ Header = 4
      /\ todo = IF Scattered THEN Entries ELSE {Word(e) : e \in Entries}
      /\ message = IF Scattered THEN [s \in Slots |-> 0]
                   ELSE [w \in Words |-> [e \in Bits(w) |-> Nothing]]
  BY DEF CodecStart, Header, update, Word
<1>3. /\ update \in [Entries -> Int] /\ flimit \in Nat
      /\ Slots = 4 .. flimit - 1
  BY <1>1, EntriesType
<1>4. Between \in Iterations
  BY DEF Iterations
<1>5. \A t \in CodecTeam : \A step :
        In(t, step) => step = "none"
  BY <1>2 DEF In, Between
<1>6. CodecTypes
  <2>1. Scattered => message \in [Slots -> Int]
    BY <1>2
  <2>2. ASSUME ~ Scattered
        PROVE  message \in [Words -> Rows]
    <3>1. \A w \in Words : [e \in Bits(w) |-> Nothing] \in Rows
      BY DEF Nothing, Codes, Rows
    <3>2. QED
      BY <1>2, <2>2, <3>1
  <2>3. doing \in [CodecTeam -> Iterations]
    BY <1>2, <1>4
  <2>4. rest \in [Entries -> Int] /\ target \in [Entries -> Int]
    BY <1>2, <1>3
  <2>5. /\ cnt \in Nat /\ Header <= cnt
        /\ flag \in BOOLEAN
    <3>1. flag \in BOOLEAN
      BY <1>2, Zenon
    <3>2. cnt \in Nat /\ Header <= cnt
      BY <1>2, SMT
    <3>3. QED
      BY <3>1, <3>2
  <2>6. phase \in {"encode", "decode", "returned"}
    BY <1>2
  <2>7. QED
    BY <1>1, <2>1, <2>2, <2>3, <2>4, <2>5, <2>6 DEF CodecTypes
<1>7. PhaseInv
  <2>1. \A e \in Entries : Word(e) \in Words
    BY <1>1, WordsType
  <2>2. QED
    BY <1>2, <1>5, <2>1 DEF PhaseInv
<1>8. Filled = {}
  BY <1>2, <1>3 DEF Filled
<1>9. MessageInv
  BY <1>2, <1>8 DEF MessageInv, IsNamed
<1>10. EncodeInv
  <2>1. Scattered => todo = Entries /\ Sent(update) \subseteq Entries
    BY <1>2 DEF Sent, Entries, update
  <2>2. \A e : ~ IsNamed(e)
    BY <1>8 DEF IsNamed
  <2>3. QED
    BY <1>2, <1>5, <2>1, <2>2 DEF EncodeInv, At
<1>11. DecodeInv
  BY <1>2 DEF DecodeInv
<1>12. BitmapInv
  BY <1>2 DEF BitmapInv
<1>13. QED
  BY <1>6, <1>7, <1>9, <1>10, <1>11, <1>12 DEF CodecInv

LEMMA CodecSteps == CodecInv /\ [CodecNext]_codecVars => CodecInv'
<1> SUFFICES ASSUME CodecInv, [CodecNext]_codecVars PROVE CodecInv'
  OBVIOUS
<1>1. CASE UNCHANGED codecVars
  <2>1. UNCHANGED <<codec, phase, todo, doing, rest, message, cnt, flag,
                    target>>
    BY <1>1 DEF codecVars
  <2>2. CodecTypes'
    BY <2>1, SameCall DEF CodecInv, CodecTypes
  <2>3. PhaseInv' /\ BitmapInv'
    BY <2>1, SameCall DEF CodecInv, PhaseInv, BitmapInv, In, Finished
  <2>4. /\ MessageInv' /\ \A e : IsNamed(e)' <=> IsNamed(e)
        /\ \A s : Named(s)' = Named(s) /\ Value(s)' = Value(s)
    BY <2>1, MessageStays
  <2>5. \A t, e : At(t, e)' <=> At(t, e)
    BY <2>1 DEF At, In
  <2>6. EncodeInv'
    BY <2>1, <2>4, <2>5, SameCall
       DEF CodecInv, EncodeInv, In, Sent, Plus, Minus
  <2>7. \A s : Landed(s)' <=> Landed(s)
    BY <2>1 DEF Landed, In
  <2>8. DecodeInv'
    BY <2>1, <2>4, <2>7, SameCall DEF CodecInv, DecodeInv, In
  <2>9. QED
    BY <2>2, <2>3, <2>4, <2>6, <2>8 DEF CodecInv
<1>2. CASE \E t \in CodecTeam : CodecStep(t)
  BY <1>2, LoadFlagKeeps, StaysKeeps, ClaimKeeps, RaiseFlagKeeps,
     ReadTargetKeeps, WriteTargetKeeps, EncodeWordKeeps, DecodeWordKeeps
     DEF CodecStep
<1>3. CASE CodecReturn
  BY <1>3, ScatteredReturnKeeps, BitmapReturnKeeps
<1>4. QED
  BY <1>1, <1>2, <1>3 DEF CodecNext

\* The invariant holds throughout both calls.
THEOREM CodecInvariant == CodecSpec => []CodecInv
  BY CodecStarts, CodecSteps, PTL DEF CodecSpec

\* A message of an encoder is complete and names no element twice, whatever
\* the order in which threads claim slots (type_conversions.h:645) and see the
\* flag (:636).
THEOREM MessagesAreComplete == CodecSpec => []MessageComplete
<1>1. CodecInv => MessageComplete
  BY MessageLeft DEF MessageComplete
<1>2. QED
  BY <1>1, CodecInvariant, PTL

\* What the sender keeps and what the receiver adds make up the update, for
\* both encodings, although the additions to the target are not atomic
\* (type_conversions.h:687).
THEOREM CodecConservesUpdates == CodecSpec => []UpdatesConserved
<1>1. ASSUME CodecInv PROVE UpdatesConserved
  <2> SUFFICES ASSUME phase = "returned", NEW e \in Entries
               PROVE  update[e] = rest[e] + target[e]
    BY DEF UpdatesConserved, update
  <2>1. /\ update \in [Entries -> Int] /\ MessageInv /\ DecodeInv
        /\ BitmapInv /\ Finished
    BY <1>1, EntriesType DEF CodecInv, CodecTypes, PhaseInv
  <2>2. update[e] \in Int
    BY <2>1
  <2>3. CASE ~ Scattered
    <3>1. rest[e] = Kept(update[e]) /\ target[e] = Added(Code(update[e]))
      BY <2>1, <2>3 DEF BitmapInv
    <3>2. QED
      BY <2>2, <3>1, CodeType
  <2>4. CASE Scattered /\ ~ IsNamed(e)
    BY <2>1, <2>2, <2>4 DEF MessageInv, DecodeInv
  <2>5. CASE Scattered /\ IsNamed(e)
    <3>1. PICK s \in Filled : Named(s) = e
      BY <2>5 DEF IsNamed
    <3>2. s \in Slots /\ rest[e] = update[e] - Value(s)
      BY <2>1, <2>5, <3>1 DEF MessageInv, Filled
    <3>3. Landed(s)
      BY <2>1 DEF Finished, Landed, In, Between
    <3>4. target[e] = Value(s) /\ Value(s) \in Int
      <4>1. Value(s) \in Int
        BY <1>1, <2>5, <3>2, SlotType DEF CodecInv
      <4>2. QED
        BY <2>1, <2>5, <3>1, <3>2, <3>3, <4>1 DEF DecodeInv
    <3>5. QED
      BY <2>2, <3>2, <3>4
  <2>6. QED
    BY <2>3, <2>4, <2>5
<1>2. QED
  BY <1>1, CodecInvariant, PTL

\* Type correctness: a loop only runs its own iterations, and a message has a
\* slot or a word for each iteration of the decoder.
THEOREM CodecTypesCorrect == CodecSpec => []CodecTypeOK
<1>1. ASSUME CodecInv PROVE CodecTypeOK
  <2>1. CodecTypes /\ PhaseInv
    BY <1>1 DEF CodecInv
  <2>2. DOMAIN message = IF Scattered THEN Slots ELSE Words
    BY <2>1 DEF CodecTypes
  <2>3. QED
    BY <2>1, <2>2, DoingType DEF CodecTypeOK, CodecTypes, PhaseInv, In
<1>2. QED
  BY <1>1, CodecInvariant, PTL

-----------------------------------------------------------------------------
(* The counter.  While the flag is down, what it has beyond the slots was  *)
(* claimed by threads that are about to raise it; once it is up, only the  *)
(* threads that have passed it may still claim.                            *)

Loaded == {t \in CodecTeam : In(t, "loaded")}
Full == {t \in CodecTeam : In(t, "full")}

CounterInv ==
  /\ ~ flag => cnt <= flimit + Cardinality(Full)
  /\ flag => cnt + Cardinality(Loaded) <= flimit + Cardinality(CodecTeam)

LEMMA TeamSizes ==
  ASSUME CodecTypes
  PROVE  /\ IsFiniteSet(Loaded) /\ IsFiniteSet(Full)
         /\ Cardinality(Loaded) \in Nat /\ Cardinality(Full) \in Nat
         /\ Cardinality(CodecTeam) \in Nat
         /\ Cardinality(Full) <= Cardinality(CodecTeam)
         /\ Cardinality(Loaded) + Cardinality(Full) <= Cardinality(CodecTeam)
<1>1. /\ Loaded \in SUBSET CodecTeam /\ Full \in SUBSET CodecTeam
      /\ Loaded \cup Full \in SUBSET CodecTeam
  BY DEF Loaded, Full
<1>2. Loaded \cap Full = {}
  BY DoingType DEF Loaded, Full
<1>3. IsFiniteSet(Loaded) /\ IsFiniteSet(Full)
  BY <1>1, FS_Subset
<1>4. Cardinality(Loaded \cup Full) =
        Cardinality(Loaded) + Cardinality(Full)
  <2>1. Cardinality(Loaded \cup Full) = Cardinality(Loaded)
          + Cardinality(Full) - Cardinality(Loaded \cap Full)
    BY <1>3, FS_Union
  <2>2. Cardinality(Loaded \cap Full) = 0
    BY <1>2, FS_EmptySet
  <2>3. QED
    BY <1>3, <2>1, <2>2, FS_CardinalityType
<1>5. QED
  BY <1>1, <1>3, <1>4, FS_Subset, FS_CardinalityType

LEMMA CounterStarts == CodecStart => CounterInv
<1> SUFFICES ASSUME CodecStart PROVE CounterInv
  OBVIOUS
<1>1. cnt = Header /\ flag = FALSE /\ CodecTypes
  BY CodecStarts DEF CodecStart, CodecInv
<1>2. cnt <= flimit
  BY <1>1, EntriesType DEF CodecTypes, Calls, flimit
<1>3. QED
  BY <1>1, <1>2, TeamSizes, EntriesType DEF CounterInv, CodecTypes

LEMMA CounterSteps ==
  ASSUME CodecInv, CodecInv', CounterInv, [CodecNext]_codecVars
  PROVE  CounterInv'
<1>1. /\ CodecTypes /\ CodecTypes'
      /\ cnt \in Nat /\ flimit \in Nat /\ flag \in BOOLEAN
      /\ phase = "decode" => Full = {} /\ Loaded = {}
      /\ ~ Scattered => Full = {} /\ Loaded = {}
  BY EntriesType DEF CodecInv, PhaseInv, CodecTypes, Full, Loaded, In, Between
<1>2. CASE UNCHANGED <<codec, cnt, flag>> /\ Full' = Full /\ Loaded' = Loaded
  BY <1>2, SameCall DEF CounterInv
<1>3. ASSUME UNCHANGED codecVars
      PROVE  CounterInv'
  BY <1>2, <1>3 DEF codecVars, Full, Loaded, In
<1>4. ASSUME NEW t \in CodecTeam, LoadFlag(t)
      PROVE  CounterInv'
  <2>1. PICK e \in Entries :
          /\ TakesUp(t, e)
          /\ \/ flag /\ Moves(t, Between)
             \/ ~ flag /\ Moves(t, [step |-> "loaded", e |-> e])
    BY <1>4 DEF LoadFlag
  <2>2. ~ In(t, "full") /\ ~ In(t, "loaded")
    BY <2>1 DEF TakesUp, In, Between
  <2>3. UNCHANGED <<codec, cnt, flag>>
    BY <1>4 DEF LoadFlag
  <2>4. Full' = Full /\ (flag => Loaded' = Loaded)
    <3>1. CASE flag /\ Moves(t, Between)
      BY <1>1, <2>2, <3>1, MovesTo DEF Full, Loaded, Between, Iterations
    <3>2. CASE ~ flag /\ Moves(t, [step |-> "loaded", e |-> e])
      BY <1>1, <2>2, <3>2, MovesTo DEF Full, Iterations
    <3>3. QED
      BY <2>1, <3>1, <3>2
  <2>5. QED
    BY <2>3, <2>4, SameCall DEF CounterInv
<1>5. ASSUME NEW t \in CodecTeam, Stays(t)
      PROVE  CounterInv'
  <2>1. /\ Moves(t, Between) /\ In(t, "loaded") /\ ~ In(t, "full")
        /\ t \in Loaded /\ UNCHANGED <<codec, cnt, flag>>
    BY <1>5, <1>1, DoingType DEF Stays, Loaded
  <2>2. Full' = Full /\ Loaded' = Loaded \ {t}
    BY <1>1, <2>1, MovesTo DEF Full, Loaded, Between, Iterations
  <2>3. Cardinality(Loaded') = Cardinality(Loaded) - 1
    BY <1>1, <2>1, <2>2, TeamSizes, FS_RemoveElement
  <2>4. QED
    BY <1>1, <2>1, <2>2, <2>3, TeamSizes, SameCall DEF CounterInv
<1>6. ASSUME NEW t \in CodecTeam, Claim(t)
      PROVE  CounterInv'
  <2>1. /\ In(t, "loaded") /\ ~ In(t, "full") /\ t \in Loaded /\ t \notin Full
        /\ cnt' = cnt + 1 /\ UNCHANGED <<codec, flag>>
        /\ \/ cnt >= flimit /\ Moves(t, [step |-> "full", e |-> doing[t].e])
           \/ cnt < flimit /\ Moves(t, Between)
    BY <1>6, <1>1, DoingType DEF Claim, Loaded, Full
  <2>2. [step |-> "full", e |-> doing[t].e] \in Iterations
    BY <1>1, <2>1, DoingType DEF Iterations
  <2>3. /\ Loaded' = Loaded \ {t}
        /\ Full' = IF cnt >= flimit THEN Full \cup {t} ELSE Full
    <3>1. CASE cnt >= flimit /\ Moves(t, [step |-> "full", e |-> doing[t].e])
      BY <1>1, <2>1, <2>2, <3>1, MovesTo DEF Full, Loaded
    <3>2. CASE cnt < flimit /\ Moves(t, Between)
      BY <1>1, <2>1, <3>2, MovesTo DEF Full, Loaded, Between, Iterations
    <3>3. QED
      BY <2>1, <3>1, <3>2
  <2>4. Cardinality(Loaded') = Cardinality(Loaded) - 1
    BY <1>1, <2>1, <2>3, TeamSizes, FS_RemoveElement
  <2>5. Cardinality(Full \cup {t}) = Cardinality(Full) + 1
    BY <1>1, <2>1, TeamSizes, FS_AddElement
  <2>6. CASE flag
    BY <1>1, <2>1, <2>4, <2>6, TeamSizes, SameCall DEF CounterInv
  <2>7. CASE ~ flag
    BY <1>1, <2>1, <2>3, <2>5, <2>7, TeamSizes, SameCall DEF CounterInv
  <2>8. QED
    BY <2>6, <2>7
<1>7. ASSUME NEW t \in CodecTeam, RaiseFlag(t)
      PROVE  CounterInv'
  <2>1. /\ flag' = TRUE /\ Moves(t, Between) /\ UNCHANGED <<codec, cnt>>
        /\ In(t, "full") /\ ~ In(t, "loaded")
    BY <1>7, <1>1, DoingType DEF RaiseFlag
  <2>2. Loaded' = Loaded
    BY <1>1, <2>1, MovesTo DEF Loaded, Between, Iterations
  <2>3. cnt + Cardinality(Loaded) <= flimit + Cardinality(CodecTeam)
    BY <1>1, TeamSizes DEF CounterInv
  <2>4. QED
    BY <2>1, <2>2, <2>3, SameCall DEF CounterInv
<1>8. ASSUME NEW t \in CodecTeam, ReadTarget(t) \/ WriteTarget(t)
      PROVE  CounterInv'
  <2>1. /\ UNCHANGED <<codec, cnt, flag>>
        /\ \E state \in Iterations : Moves(t, state) /\ state.step # "full"
                                     /\ state.step # "loaded"
        /\ ~ In(t, "full") /\ ~ In(t, "loaded")
    <3>1. CASE ReadTarget(t)
      <4>1. PICK s \in Slots :
              /\ TakesUp(t, s)
              /\ Moves(t, [step |-> "add", slot |-> s,
                           old |-> IF Named(s) \in Entries
                                   THEN target[Named(s)] ELSE 0])
        BY <3>1 DEF ReadTarget
      <4>2. (IF Named(s) \in Entries THEN target[Named(s)] ELSE 0) \in Int
        BY <1>1 DEF CodecTypes
      <4>3. QED
        BY <3>1, <4>1, <4>2 DEF ReadTarget, TakesUp, In, Between, Iterations
    <3>2. CASE WriteTarget(t)
      BY <3>2 DEF WriteTarget, In, Between, Iterations
    <3>3. QED
      BY <1>8, <3>1, <3>2
  <2>2. Full' = Full /\ Loaded' = Loaded
    BY <1>1, <2>1, MovesTo DEF Full, Loaded
  <2>3. QED
    BY <1>2, <2>1, <2>2
<1>9. ASSUME NEW t \in CodecTeam, EncodeWord(t) \/ DecodeWord(t)
      PROVE  CounterInv'
  BY <1>2, <1>9 DEF EncodeWord, DecodeWord, Full, Loaded, In
<1>10. ASSUME CodecReturn
       PROVE  CounterInv'
  BY <1>2, <1>10 DEF CodecReturn, Full, Loaded, In
<1>11. QED
  BY <1>3, <1>4, <1>5, <1>6, <1>7, <1>8, <1>9, <1>10
     DEF CodecNext, CodecStep

\* The counter, an int that nothing else bounds (type_conversions.h:645),
\* passes the slots by no more than one for each thread: a thread that finds
\* no slot raises the flag before it begins another element.
THEOREM CounterStaysNear == CodecSpec => []ClaimsBounded
<1>1. CodecInv /\ CounterInv => ClaimsBounded
  BY TeamSizes, EntriesType DEF CodecInv, CodecTypes, CounterInv, ClaimsBounded
<1>2. QED
  BY <1>1, CounterStarts, CounterSteps, CodecInvariant, PTL DEF CodecSpec
===============================================================================
