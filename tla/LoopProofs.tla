------------------------------ MODULE LoopProofs ------------------------------
(***************************************************************************)
(* Proofs about the two modules in which the threads of a team share a     *)
(* loop out in chunks: ParallelLoops, for arrays of any length and any     *)
(* number of threads, and RandomBuffer, for a buffer of any size besides.  *)
(***************************************************************************)
EXTENDS ParallelLoops, RandomBuffer, FiniteSetTheorems, NaturalsInduction,
        WellFoundedInduction, TLAPS

-----------------------------------------------------------------------------
(* Arithmetic, and the maxima of arrays.                                   *)

\* A set of naturals that is not empty has a smallest element.
LEMMA LeastNatural ==
  ASSUME NEW S \in SUBSET Nat, S # {}
  PROVE  \E x \in S : \A y \in S : x <= y
<1> DEFINE Less == {ss \in Nat \X Nat : ss[1] < ss[2]}
<1>1. IsWellFoundedOn(Less, Nat)
  BY NatLessThanWellFounded DEF OpToRel
<1>2. \E x \in S : \A y \in S : ~ (<<y, x>> \in Less)
  <2> HIDE DEF Less
  <2> QED
    BY <1>1, WFMin
<1>3. ASSUME NEW x \in S, NEW y \in S, ~ (<<y, x>> \in Less)
      PROVE  x <= y
  <2>1. x \in Nat /\ y \in Nat
    OBVIOUS
  <2>2. ~ (y < x)
    BY <1>3, <2>1
  <2>3. QED
    BY <2>1, <2>2
<1>4. QED
  <2> HIDE DEF Less
  <2> QED
    BY <1>2, <1>3

\* A bounded set of naturals has a maximum, 0 when it is empty.
LEMMA GreatestNatural ==
  ASSUME NEW k \in Nat, NEW S \in SUBSET (0 .. k)
  PROVE  \E x \in S \cup {0} : \A y \in S : y <= x
<1> DEFINE Bounds == {u \in Nat : \A y \in S : y <= u}
<1>1. k \in Bounds
  OBVIOUS
<1>2. PICK u \in Bounds : \A v \in Bounds : u <= v
  BY <1>1, LeastNatural
<1>3. CASE u \in S \cup {0}
  BY <1>2, <1>3
<1>4. CASE u \notin S \cup {0}
  <2>1. u - 1 \in Bounds
    BY <1>2, <1>4
  <2>2. QED
    BY <1>2, <2>1
<1>5. QED
  BY <1>3, <1>4

LEMMA Division ==
  ASSUME NEW a \in Nat, NEW b \in Nat \ {0}
  PROVE  /\ a \div b \in Nat /\ a % b \in 0 .. b - 1
         /\ a = b * (a \div b) + (a % b)
OBVIOUS

LEMMA SmallerProduct ==
  ASSUME NEW a \in Int, NEW b \in Int, NEW c \in Nat \ {0}, c * a < c * b
  PROVE  a < b
<1> SUFFICES ASSUME b <= a PROVE c * b <= c * a
  OBVIOUS
<1>1. PICK d \in Nat : a = b + d
  BY a - b \in Nat
<1>2. c * a = c * b + c * d /\ c * d \in Nat
  BY <1>1
<1>3. QED
  BY <1>2

\* A quotient is the only number between whose multiples the dividend lies.
LEMMA Quotient ==
  ASSUME NEW a \in Nat, NEW b \in Nat \ {0}, NEW q \in Nat,
         b * q <= a, a < b * (q + 1)
  PROVE  q = a \div b /\ a % b = a - b * q
<1> DEFINE d == a \div b
<1>1. d \in Nat /\ b * d <= a /\ a < b * (d + 1)
  BY Division
<1>2. b * q < b * (d + 1) /\ b * d < b * (q + 1)
  BY <1>1
<1> HIDE DEF d
<1>3. q < d + 1 /\ d < q + 1
  BY <1>1, <1>2, SmallerProduct
<1>4. q = d
  BY <1>1, <1>3
<1>5. QED
  BY <1>4, Division DEF d

\* A greatest element of a non-empty finite sequence of integers, and the
\* first of them.
LEMMA PrefixMaximum ==
  ASSUME NEW n \in Nat \ {0}, NEW x \in [0 .. n - 1 -> Int]
  PROVE  \E m \in 0 .. n - 1 : \A e \in 0 .. n - 1 : x[e] <= x[m]
<1> DEFINE Top(k, m) == \A e \in 0 .. k - 1 : x[e] <= x[m]
           Lacking == {k \in 1 .. n : ~ \E m \in 0 .. k - 1 : Top(k, m)}
<1>1. ASSUME Lacking # {} PROVE FALSE
  <2>1. Lacking \in SUBSET Nat
    OBVIOUS
  <2>2. PICK k \in Lacking : \A j \in Lacking : k <= j
    <3> HIDE DEF Lacking
    <3> QED
      BY <1>1, <2>1, LeastNatural
  <2>3. k \in 1 .. n /\ ~ \E m \in 0 .. k - 1 : Top(k, m)
    BY <2>2
  <2>4. k # 1
    <3> SUFFICES ASSUME k = 1 PROVE FALSE
      OBVIOUS
    <3>1. 0 \in 0 .. k - 1 /\ Top(k, 0)
      OBVIOUS
    <3>2. QED
      BY <2>3, <3>1
  <2>5. k - 1 \in 1 .. n /\ k - 1 \notin Lacking
    <3>1. k - 1 \in 1 .. n /\ ~ (k <= k - 1)
      BY <2>3, <2>4
    <3> HIDE DEF Lacking
    <3> QED
      BY <2>2, <3>1
  <2>6. PICK m \in 0 .. k - 2 : Top(k - 1, m)
    <3>1. (k - 1) - 1 = k - 2
      BY <2>3
    <3> QED
      BY <2>5, <3>1
  <2>7. k - 1 \in 0 .. k - 1 /\ m \in 0 .. k - 1
        /\ x[k - 1] \in Int /\ x[m] \in Int
        /\ \A e \in 0 .. k - 1 : x[e] \in Int /\ (e = k - 1 \/ x[e] <= x[m])
    BY <2>3, <2>6
  <2>8. CASE x[k - 1] <= x[m]
    <3>1. Top(k, m)
      BY <2>7, <2>8
    <3>2. QED
      BY <2>3, <2>7, <3>1
  <2>9. CASE x[m] <= x[k - 1]
    <3>1. Top(k, k - 1)
      <4> SUFFICES ASSUME NEW e \in 0 .. k - 1
                   PROVE  x[e] <= x[k - 1]
        OBVIOUS
      <4>1. CASE e = k - 1
        BY <2>7, <4>1
      <4>2. CASE x[e] <= x[m]
        <5>1. x[e] \in Int /\ x[m] \in Int /\ x[k - 1] \in Int
          BY <2>7
        <5>2. QED
          BY <2>9, <4>2, <5>1
      <4>3. QED
        BY <2>7, <4>1, <4>2
    <3>2. QED
      BY <2>3, <2>7, <3>1
  <2>10. QED
    BY <2>7, <2>8, <2>9
<1>2. n \in 1 .. n /\ n \notin Lacking
  <2>1. n \in 1 .. n
    OBVIOUS
  <2> HIDE DEF Lacking
  <2> QED
    BY <1>1, <2>1
<1>3. QED
  BY <1>2

LEMMA FirstMaximum ==
  ASSUME NEW n \in Nat \ {0}, NEW x \in [0 .. n - 1 -> Int]
  PROVE  \E m \in 0 .. n - 1 :
           /\ \A e \in 0 .. n - 1 : x[e] <= x[m]
           /\ \A e \in 0 .. m - 1 : x[e] < x[m]
<1> DEFINE Tops == {m \in 0 .. n - 1 : \A e \in 0 .. n - 1 : x[e] <= x[m]}
<1>1. Tops # {} /\ Tops \in SUBSET Nat
  <2>1. PICK m \in 0 .. n - 1 : \A e \in 0 .. n - 1 : x[e] <= x[m]
    BY PrefixMaximum
  <2>2. m \in Tops
    BY <2>1
  <2>3. QED
    BY <2>2
<1>2. PICK m \in Tops : \A k \in Tops : m <= k
  <2> HIDE DEF Tops
  <2> QED
    BY <1>1, LeastNatural
<1>3. ASSUME NEW e \in 0 .. m - 1 PROVE x[e] < x[m]
  <2>1. e \in 0 .. n - 1 /\ ~ (m <= e) /\ x[e] \in Int /\ x[m] \in Int
    BY <1>2
  <2>2. e \notin Tops
    <3> HIDE DEF Tops
    <3> QED
      BY <1>2, <2>1
  <2>3. PICK d \in 0 .. n - 1 : ~ (x[d] <= x[e])
    BY <2>1, <2>2
  <2>4. x[d] <= x[m] /\ x[d] \in Int
    BY <1>2
  <2>5. QED
    BY <2>1, <2>3, <2>4
<1>4. QED
  BY <1>2, <1>3

-----------------------------------------------------------------------------
(* ParallelLoops: the call and its team.                                   *)

Steps == {"load", "loadValue", "loadIndex", "loop", "store", "storeValue",
          "storeIndex", "done"}

Done == \A t \in team : IsAt(t, "done")

LoopTypeOK ==
  /\ call \in LoopCalls
  /\ \E k \in TeamSizes(call) : team = 0 .. k - 1
  /\ at \in [team -> [step : Steps, chunk : Nat, e : Nat]]
  /\ local = [t \in team |-> local[t]]
  /\ joined \in 0 .. threads
  /\ joined # 0 => Done

\* A call has elements, and a team.
LEMMA CallFacts ==
  ASSUME call \in LoopCalls
  PROVE  /\ call.kind \in Kinds
         /\ length \in Nat \ {0}
         /\ call.x \in [Elements -> Int]
         /\ \A e \in Elements : call.x[e] \in Int /\ call.x[e] >= Lowest
         /\ \A k \in TeamSizes(call) : k \in Nat \ {0}
<1> USE LoopAssumption
<1>1. IsCall(call)
  OBVIOUS
<1> DEFINE n == Cardinality(DOMAIN call.x)
<1>2. /\ call.kind \in Kinds /\ n \in Nat \ {0}
      /\ call.x \in [0 .. n - 1 -> Int]
      /\ \A e \in 0 .. n - 1 : call.x[e] >= Lowest
  BY <1>1 DEF IsCall
<1>3. n = length /\ 0 .. n - 1 = Elements
  BY DEF length, Length, Elements
<1> HIDE DEF n
<1>4. ASSUME NEW k \in TeamSizes(call) PROVE k \in Nat \ {0}
  <2>1. Length(call) = n
    BY <1>3 DEF length
  <2>2. n \div ElementThreshold \in Nat
    BY <1>2, Division
  <2> DEFINE d == n \div ElementThreshold
  <2>3. Lesser(Greater(1, d), MaxTeam) \in Nat \ {0}
    <3> HIDE DEF d
    <3> QED
      BY <2>2 DEF Lesser, Greater, d
  <2>4. QED
    BY <2>1, <2>3 DEF TeamSizes
<1>5. QED
  BY <1>2, <1>3, <1>4

LEMMA TeamFacts ==
  ASSUME call \in LoopCalls, \E k \in TeamSizes(call) : team = 0 .. k - 1
  PROVE  threads \in Nat \ {0} /\ team = 0 .. threads - 1
<1>1. PICK k \in TeamSizes(call) : team = 0 .. k - 1
  OBVIOUS
<1>2. k \in Nat \ {0}
  BY CallFacts
<1>3. Cardinality(0 .. k - 1) = k
  BY <1>2, FS_Interval
<1>4. QED
  BY <1>1, <1>2, <1>3 DEF threads

LEMMA LoopTypeInit == LoopStart => LoopTypeOK
<1> SUFFICES ASSUME LoopStart PROVE LoopTypeOK
  OBVIOUS
<1>1. call \in LoopCalls /\ \E k \in TeamSizes(call) : team = 0 .. k - 1
      /\ joined = 0
  BY DEF LoopStart
<1>2. threads \in Nat \ {0} /\ team = 0 .. threads - 1
  BY <1>1, TeamFacts
<1>3. ASSUME NEW t \in team PROVE First(t) \in Nat
  <2>1. Width \in Nat
    <3>1. length \in Nat /\ length \div threads \in Nat
      BY <1>1, <1>2, CallFacts, Division
    <3>2. QED
      BY <3>1 DEF Width, items, span, Greater
  <2>2. QED
    BY <1>2, <2>1 DEF First
<1>4. at \in [team -> [step : Steps, chunk : Nat, e : Nat]]
  BY <1>2, <1>3 DEF LoopStart, Steps
<1>5. local = [t \in team |-> local[t]]
  BY DEF LoopStart
<1>6. QED
  BY <1>1, <1>2, <1>4, <1>5 DEF LoopTypeOK

-----------------------------------------------------------------------------
(* Where the elements are.                                                 *)

\* The chunk of an element, the thread it is dealt to, and the elements that
\* a thread has visited.
ChunkOf(e) == e \div Width
Owner(e) == ChunkOf(e) % threads
Visited(t) ==
  {e \in Elements :
     /\ Owner(e) = t
     /\ \/ ChunkOf(e) < at[t].chunk
        \/ ChunkOf(e) = at[t].chunk /\ (e < at[t].e \/ IsAt(t, "done"))}

\* Every thread is in a chunk of its own, at or after its first element, and
\* one that is done has no further chunk.
InPlace ==
  ~ Is("ismax") =>
    \A t \in team :
      /\ at[t].step \in {"loop", "done"}
      /\ at[t].chunk % threads = t
      /\ ~ Dealt => at[t].chunk = t
      /\ First(at[t].chunk) <= at[t].e
      /\ Dealt /\ IsAt(t, "done") => chunks <= at[t].chunk

LEMMA WidthFacts ==
  ASSUME LoopTypeOK
  PROVE  /\ Width \in Nat \ {0}
         /\ chunks \in Nat
         /\ Dealt => length <= Width * chunks
         /\ ~ Dealt => length <= Width * threads
<1>1. length \in Nat \ {0} /\ threads \in Nat \ {0}
  BY CallFacts, TeamFacts DEF LoopTypeOK
<1> DEFINE d == length \div threads
<1>2. d \in Nat /\ length = threads * d + (length % threads)
      /\ length % threads \in 0 .. threads - 1
  <2> HIDE DEF d
  <2> QED
    BY <1>1, Division DEF d
<1>3. items \in Nat \ {0} /\ span = d + 8
  <2> HIDE DEF d
  <2> QED
    BY <1>2 DEF items, span, Greater, d
<1>4. Width \in Nat \ {0}
  <2> HIDE DEF d
  <2> QED
    BY <1>2, <1>3 DEF Width
<1> DEFINE q == length \div items
<1>5. q \in Nat /\ length = items * q + (length % items)
      /\ length % items \in 0 .. items - 1
  <2> HIDE DEF q
  <2> QED
    BY <1>1, <1>3, Division DEF q
<1>6. chunks \in Nat /\ length <= items * chunks
  <2>1. chunks = q + (IF length % items > 0 THEN 1 ELSE 0)
    BY DEF chunks
  <2> HIDE DEF q
  <2>2. CASE length % items > 0
    <3>1. chunks = q + 1
      BY <2>1, <2>2
    <3>2. items * chunks = items * q + items /\ items * q \in Nat
      BY <1>3, <1>5, <3>1
    <3>3. QED
      BY <1>1, <1>3, <1>5, <3>1, <3>2
  <2>3. CASE ~ (length % items > 0)
    <3>1. chunks = q /\ length % items = 0
      BY <1>3, <1>5, <2>1, <2>3
    <3>2. items * q \in Nat
      BY <1>3, <1>5
    <3>3. QED
      BY <1>1, <1>5, <3>1, <3>2
  <2>4. QED
    BY <2>2, <2>3
<1>7. length <= span * threads
  <2> HIDE DEF d
  <2>1. span * threads = threads * d + 8 * threads /\ threads * d \in Nat
    BY <1>1, <1>2, <1>3
  <2>2. QED
    BY <1>1, <1>2, <2>1
<1>8. QED
  BY <1>4, <1>6, <1>7 DEF Width

\* The chunk of an element is the one that it lies in.
LEMMA ChunkIs ==
  ASSUME LoopTypeOK, NEW e \in Nat, NEW c \in Nat
  PROVE  /\ ChunkOf(e) \in Nat
         /\ ChunkOf(e) = c <=> c * Width <= e /\ e < c * Width + Width
<1>1. Width \in Nat \ {0}
  BY WidthFacts
<1> DEFINE w == Width
           q == e \div w
<1>2. q \in Nat /\ w * q <= e /\ e < w * q + w
  <2> HIDE DEF w, q
  <2>1. q \in Nat /\ e = w * q + (e % w) /\ e % w \in 0 .. w - 1
    BY <1>1, Division DEF q, w
  <2>2. w * q \in Nat
    BY <1>1, <2>1 DEF w
  <2>3. QED
    BY <1>1, <2>1, <2>2 DEF w
<1>3. ASSUME c * w <= e, e < c * w + w PROVE q = c
  <2> HIDE DEF w, q
  <2>1. w * c <= e /\ e < w * (c + 1)
    BY <1>1, <1>3 DEF w
  <2>2. QED
    BY <1>1, <2>1, Quotient DEF q, w
<1>4. c * w = w * c
  <2> HIDE DEF w
  <2> QED
    BY <1>1 DEF w
<1> HIDE DEF q, w
<1>5. QED
  BY <1>2, <1>3, <1>4 DEF ChunkOf, q, w

LEMMA OwnerType ==
  ASSUME LoopTypeOK, NEW e \in Elements
  PROVE  /\ e \in Nat /\ ChunkOf(e) \in Nat /\ Owner(e) \in team
         /\ Dealt => ChunkOf(e) < chunks
         /\ ~ Dealt => ChunkOf(e) < threads /\ Owner(e) = ChunkOf(e)
<1>1. length \in Nat \ {0} /\ threads \in Nat \ {0}
      /\ team = 0 .. threads - 1
  BY CallFacts, TeamFacts DEF LoopTypeOK
<1>2. e \in Nat /\ e < length
  BY <1>1 DEF Elements
<1>3. ChunkOf(e) \in Nat /\ Width \in Nat \ {0} /\ chunks \in Nat
  BY <1>2, ChunkIs, WidthFacts
<1>4. Owner(e) \in team
  BY <1>1, <1>3, Division DEF Owner
<1>5. ASSUME NEW k \in Nat, length <= Width * k PROVE ChunkOf(e) < k
  <2>1. ChunkOf(e) * Width <= e
    BY <1>2, <1>3, ChunkIs
  <2>2. Width * ChunkOf(e) < Width * k
    BY <1>1, <1>2, <1>3, <1>5, <2>1
  <2>3. QED
    BY <1>3, <2>2, SmallerProduct
<1>6. ~ Dealt => ChunkOf(e) < threads /\ Owner(e) = ChunkOf(e)
  <2> SUFFICES ASSUME ~ Dealt
               PROVE  ChunkOf(e) < threads /\ Owner(e) = ChunkOf(e)
    OBVIOUS
  <2>1. ChunkOf(e) < threads
    BY <1>1, <1>5, WidthFacts
  <2>2. ChunkOf(e) % threads = ChunkOf(e)
    BY <1>1, <1>3, <2>1
  <2>3. QED
    BY <2>1, <2>2 DEF Owner
<1>7. QED
  BY <1>2, <1>3, <1>4, <1>5, <1>6, WidthFacts

-----------------------------------------------------------------------------
(* Steps.                                                                  *)

\* A step changes neither the call nor how its elements are dealt out.
LEMMA DealingStays ==
  ASSUME UNCHANGED <<call, team>>
  PROVE  /\ Elements' = Elements /\ length' = length /\ threads' = threads
         /\ Width' = Width /\ chunks' = chunks /\ Dealt' = Dealt
         /\ \A e : ChunkOf(e)' = ChunkOf(e) /\ Owner(e)' = Owner(e)
         /\ \A c : First(c)' = First(c) /\ End(c)' = End(c)
<1>1. length' = length /\ threads' = threads /\ Dealt' = Dealt
  BY DEF length, Length, threads, Dealt
<1>2. items' = items /\ span' = span
  BY <1>1 DEF items, span
<1>3. Elements' = Elements /\ Width' = Width /\ chunks' = chunks
  BY <1>1, <1>2 DEF Elements, Width, chunks
<1>4. \A e : ChunkOf(e)' = ChunkOf(e) /\ Owner(e)' = Owner(e)
  BY <1>1, <1>3 DEF ChunkOf, Owner
<1>5. \A c : First(c)' = First(c)
  BY <1>3 DEF First
<1>6. \A c : End(c)' = End(c)
  BY <1>1, <1>3, <1>5 DEF End
<1>7. QED
  BY <1>1, <1>3, <1>4, <1>5, <1>6

\* What a thread does changes what it is at, from a step that is not its last.
LEMMA ThreadMoves ==
  ASSUME LoopTypeOK, NEW t \in team, LoopStep(t)
  PROVE  /\ UNCHANGED <<call, team, joined>>
         /\ ~ IsAt(t, "done")
         /\ at' = [at EXCEPT ![t] = at'[t]]
         /\ at'[t] \in [step : Steps, chunk : Nat, e : Nat]
         /\ local' = [u \in team |-> IF u = t THEN local'[t] ELSE local[u]]
<1>1. length \in Nat /\ threads \in Nat /\ Width \in Nat
      /\ at[t] \in [step : Steps, chunk : Nat, e : Nat]
      /\ at \in [team -> [step : Steps, chunk : Nat, e : Nat]]
      /\ local = [u \in team |-> local[u]]
  BY WidthFacts, CallFacts, TeamFacts DEF LoopTypeOK
<1>2. ASSUME NEW step \in Steps, NEW c \in Nat, Goes(t, step, c)
      PROVE  at' = [at EXCEPT ![t] = at'[t]]
             /\ at'[t] \in [step : Steps, chunk : Nat, e : Nat]
  <2>1. First(c) \in Nat
    BY <1>1 DEF First
  <2>2. QED
    BY <1>1, <1>2, <2>1 DEF Goes
<1>3. ASSUME Visits(t)
      PROVE  /\ at' = [at EXCEPT ![t] = at'[t]]
             /\ at'[t] \in [step : Steps, chunk : Nat, e : Nat]
             /\ UNCHANGED <<call, team, joined>> /\ ~ IsAt(t, "done")
  BY <1>1, <1>3 DEF Visits, HasChunk, IsAt
<1>4. CASE Accumulate(t) \/ Compare(t) \/ Count(t)
  BY <1>1, <1>3, <1>4 DEF Accumulate, Compare, Count, Computes
<1>5. CASE Apply(t)
  BY <1>1, <1>3, <1>5 DEF Apply
<1>6. CASE Scan(t)
  BY <1>1, <1>3, <1>6 DEF Scan
<1>7. CASE NextChunk(t)
  BY <1>1, <1>2, <1>7
  DEF NextChunk, AtEnd, HasChunk, IsAt, Steps
<1>8. CASE MergeBins(t)
  BY <1>1, <1>2, <1>8
  DEF MergeBins, AtEnd, HasChunk, IsAt, Steps
<1>9. CASE Leave(t)
  BY <1>1, <1>2, <1>9 DEF Leave, AtEnd, HasChunk, IsAt, Steps
<1>10. CASE Load(t)
  BY <1>1, <1>2, <1>10 DEF Load, IsAt, Steps
<1>11. CASE Test(t)
  BY <1>1, <1>2, <1>11 DEF Test, AtEnd, HasChunk, IsAt, Steps
<1>12. CASE Store(t)
  BY <1>1, <1>2, <1>12 DEF Store, IsAt, Steps
<1>13. QED
  BY <1>4, <1>5, <1>6, <1>7, <1>8, <1>9, <1>10, <1>11, <1>12 DEF LoopStep

LEMMA LoopTypeNext == LoopTypeOK /\ [LoopNext]_loopVars => LoopTypeOK'
<1> SUFFICES ASSUME LoopTypeOK, [LoopNext]_loopVars PROVE LoopTypeOK'
  OBVIOUS
<1>1. ASSUME NEW t \in team, LoopStep(t) PROVE LoopTypeOK'
  <2>1. /\ UNCHANGED <<call, team, joined>>
        /\ ~ IsAt(t, "done")
        /\ at' = [at EXCEPT ![t] = at'[t]]
        /\ at'[t] \in [step : Steps, chunk : Nat, e : Nat]
        /\ local' = [u \in team |-> IF u = t THEN local'[t] ELSE local[u]]
    BY <1>1, ThreadMoves
  <2>2. at' \in [team -> [step : Steps, chunk : Nat, e : Nat]]
    BY <2>1 DEF LoopTypeOK
  <2>3. joined = 0 /\ threads' = threads
    BY <2>1 DEF LoopTypeOK, Done, threads
  <2>4. local' = [u \in team |-> local'[u]]
    BY <2>1
  <2>5. TeamSizes(call)' = TeamSizes(call)
    BY <2>1 DEF TeamSizes, Length
  <2>6. QED
    BY <2>1, <2>2, <2>3, <2>4, <2>5 DEF LoopTypeOK
<1>2. CASE Join
  <2>1. UNCHANGED <<call, team, at, local>> /\ Done
        /\ joined' = (IF Is("reduce") THEN joined + 1 ELSE threads)
        /\ joined < threads
    BY <1>2 DEF Join, Done
  <2>2. threads' = threads /\ threads \in Nat
    BY <2>1, TeamFacts DEF threads, LoopTypeOK
  <2>3. joined' \in 0 .. threads
    BY <2>1, <2>2 DEF LoopTypeOK
  <2>4. Done'
    BY <2>1 DEF Done, IsAt
  <2>5. TeamSizes(call)' = TeamSizes(call)
    BY <2>1 DEF TeamSizes, Length
  <2>6. QED
    BY <2>1, <2>2, <2>3, <2>4, <2>5 DEF LoopTypeOK
<1>3. CASE UNCHANGED loopVars
  <2>1. TeamSizes(call)' = TeamSizes(call)
    BY <1>3 DEF TeamSizes, Length, loopVars
  <2>2. QED
    BY <1>3, <2>1 DEF loopVars, LoopTypeOK, Done, IsAt, threads
<1>4. QED
  BY <1>1, <1>2, <1>3 DEF LoopNext

-----------------------------------------------------------------------------
(* What the threads have visited.                                          *)

LEMMA SameRemainder ==
  ASSUME NEW a \in Nat, NEW b \in Nat, NEW k \in Nat \ {0}
  PROVE  /\ a % k = b % k /\ a < b + k => a <= b
         /\ (b + k) % k = b % k
<1> DEFINE p == a \div k
           q == b \div k
<1>1. p \in Nat /\ q \in Nat /\ a = k * p + (a % k) /\ b = k * q + (b % k)
      /\ b % k \in 0 .. k - 1 /\ a % k \in 0 .. k - 1
  <2> HIDE DEF p, q
  <2> QED
    BY Division DEF p, q
<1> HIDE DEF p, q
<1>2. k * p \in Nat /\ k * q \in Nat /\ k * (q + 1) = k * q + k
      /\ k * (q + 1 + 1) = k * q + k + k
  BY <1>1
<1>3. ASSUME a % k = b % k, a < b + k PROVE a <= b
  <2>1. k * p < k * (q + 1)
    BY <1>1, <1>2, <1>3
  <2>2. p < q + 1
    BY <1>1, <2>1, SmallerProduct
  <2>3. PICK d \in Nat : q = p + d
    BY <1>1, <2>2, q - p \in Nat
  <2>4. k * q = k * p + k * d /\ k * d \in Nat
    BY <1>1, <2>3
  <2>5. QED
    BY <1>1, <1>2, <1>3, <2>4
<1>4. (b + k) % k = b % k
  <2>1. k * (q + 1) <= b + k /\ b + k < k * (q + 1 + 1)
    BY <1>1, <1>2
  <2>2. (b + k) % k = (b + k) - k * (q + 1)
    <3> DEFINE a1 == b + k
               q1 == q + 1
    <3>1. a1 \in Nat /\ q1 \in Nat /\ k * q1 <= a1 /\ a1 < k * (q1 + 1)
      BY <1>1, <2>1
    <3> HIDE DEF a1, q1
    <3>2. a1 % k = a1 - k * q1
      BY <3>1, Quotient
    <3>3. QED
      BY <3>2, Zenon DEF a1, q1
  <2>3. QED
    BY <1>1, <1>2, <2>2
<1>5. QED
  BY <1>3, <1>4

\* A visit adds the element, which was not visited before.
LEMMA VisitAdds ==
  ASSUME LoopTypeOK, InPlace, ~ Is("ismax"), NEW t \in team, Visits(t)
  PROVE  /\ Here(t) \in Elements /\ Owner(Here(t)) = t
         /\ Here(t) \notin Visited(t)
         /\ Visited(t)' = Visited(t) \cup {Here(t)}
         /\ \A u \in team \ {t} : Visited(u)' = Visited(u)
         /\ \A u \in team : /\ IsAt(u, "done")' = IsAt(u, "done")
                            /\ at'[u].chunk = at[u].chunk
         /\ InPlace'
<1> DEFINE h == Here(t)
           c == at[t].chunk
<1>1. /\ at \in [team -> [step : Steps, chunk : Nat, e : Nat]]
      /\ UNCHANGED <<call, team>> /\ at[t].step = "loop"
      /\ at' = [at EXCEPT ![t].e = @ + 1]
      /\ h \in Nat /\ c \in Nat /\ Width \in Nat /\ length \in Nat
      /\ h < End(c)
      /\ First(c) = c * Width
  BY WidthFacts, CallFacts
  DEF Visits, LoopTypeOK, HasChunk, IsAt, Here, First, Is
<1>2. First(c) <= h /\ c % threads = t
  BY DEF InPlace, Here
<1>3. h < First(c) + Width /\ h < length /\ First(c) \in Nat
  <2>1. First(c) \in Nat
    BY <1>1
  <2>2. QED
    BY <1>1, <2>1 DEF End, Lesser, Is
<1>4. h \in Elements /\ ChunkOf(h) = c /\ Owner(h) = t
  <2>1. ChunkOf(h) = c
    BY <1>1, <1>2, <1>3, ChunkIs
  <2>2. QED
    BY <1>1, <1>2, <1>3, <2>1 DEF Elements, Owner
<1>5. h \notin Visited(t)
  BY <1>1, <1>4 DEF Visited, IsAt, Here
<1>6. at'[t] = [step |-> "loop", chunk |-> c, e |-> h + 1]
      /\ \A u \in team \ {t} : at'[u] = at[u]
  BY <1>1 DEF Here
<1>7. Elements' = Elements /\ \A e : ChunkOf(e)' = ChunkOf(e)
                                    /\ Owner(e)' = Owner(e)
      /\ \A k : First(k)' = First(k)
      /\ Dealt' = Dealt /\ chunks' = chunks /\ threads' = threads
  BY <1>1, DealingStays
<1>8. ASSUME NEW e \in Elements
      PROVE  e \in Visited(t)' <=> e \in Visited(t) \/ e = h
  <2>1. e \in Nat /\ ChunkOf(e) \in Nat
    BY OwnerType
  <2>2. e \in Visited(t)' <=>
          Owner(e) = t /\ (ChunkOf(e) < c \/ (ChunkOf(e) = c /\ e < h + 1))
    BY <1>6, <1>7 DEF Visited, IsAt
  <2>3. e \in Visited(t) <=>
          Owner(e) = t /\ (ChunkOf(e) < c \/ (ChunkOf(e) = c /\ e < h))
    BY <1>1 DEF Visited, IsAt, Here
  <2> HIDE DEF h, c
  <2>4. QED
    BY <1>1, <1>4, <2>1, <2>2, <2>3
<1>9. Visited(t)' = Visited(t) \cup {h}
  <2>1. Visited(t)' \subseteq Elements /\ Visited(t) \subseteq Elements
    BY <1>7 DEF Visited
  <2>2. QED
    BY <1>4, <1>8, <2>1
<1>10. \A u \in team \ {t} : Visited(u)' = Visited(u)
  BY <1>6, <1>7 DEF Visited, IsAt
<1>11. \A u \in team : /\ IsAt(u, "done")' = IsAt(u, "done")
                       /\ at'[u].chunk = at[u].chunk
                       /\ at'[u].step = at[u].step
  BY <1>1, <1>6 DEF IsAt
<1>12. InPlace'
  <2>1. ~ Is("ismax")'
    BY <1>1 DEF Is
  <2>2. ASSUME NEW u \in team
        PROVE  First(at[u].chunk) <= at'[u].e
    <3>1. First(at[u].chunk) <= at[u].e
      BY DEF InPlace
    <3>2. CASE u = t
      BY <1>1, <1>2, <1>3, <1>6, <3>2 DEF Here
    <3>3. CASE u # t
      BY <1>6, <3>1, <3>3
    <3>4. QED
      BY <3>2, <3>3
  <2>3. QED
    BY <1>1, <1>7, <1>11, <2>1, <2>2 DEF InPlace
<1>13. QED
  BY <1>4, <1>5, <1>9, <1>10, <1>11, <1>12

\* A thread that is done with a chunk has visited all of its elements, and
\* those of the chunks it was dealt before; going on with the next adds none.
Turns(t) == NextChunk(t) \/ MergeBins(t) \/ Leave(t)

LEMMA TurnKeeps ==
  ASSUME LoopTypeOK, InPlace, ~ Is("ismax"), NEW t \in team, Turns(t)
  PROVE  /\ Visited(t) = {e \in Elements : Owner(e) = t
                                          /\ ChunkOf(e) <= at[t].chunk}
         /\ \A u \in team : Visited(u)' = Visited(u)
         /\ \A u \in team \ {t} : at'[u] = at[u]
         /\ InPlace'
<1> DEFINE c == at[t].chunk
           d == IF NextChunk(t) THEN c + threads ELSE c
           Swept == {e \in Elements : Owner(e) = t /\ ChunkOf(e) <= c}
<1>1. /\ at \in [team -> [step : Steps, chunk : Nat, e : Nat]]
      /\ UNCHANGED <<call, team>> /\ at[t].step = "loop"
      /\ c \in Nat /\ Width \in Nat \ {0} /\ length \in Nat /\ chunks \in Nat
      /\ threads \in Nat \ {0} /\ team = 0 .. threads - 1
      /\ \A k : First(k) = k * Width
  BY WidthFacts, CallFacts, TeamFacts
  DEF Turns, NextChunk, MergeBins, Leave, LoopTypeOK, HasChunk, IsAt, AtEnd,
      First, Is
<1>2. First(c) <= at[t].e /\ c % threads = t /\ at[t].e \in Nat
  BY <1>1 DEF InPlace
<1>3. /\ at'[t] = [step |-> IF NextChunk(t) THEN "loop" ELSE "done",
                   chunk |-> d, e |-> First(d)]
      /\ \A u \in team \ {t} : at'[u] = at[u]
  BY <1>1 DEF Turns, NextChunk, MergeBins, Leave, Goes
<1>4. AtEnd(t) \/ (Dealt /\ chunks <= c)
  BY <1>1 DEF Turns, NextChunk, MergeBins, Leave, HasChunk, IsAt
<1>5. ASSUME NEW e \in Elements, ChunkOf(e) = c PROVE e < at[t].e
  <2>1. e \in Nat /\ e < length /\ c * Width <= e /\ e < c * Width + Width
        /\ (Dealt => c < chunks)
    <3>1. e \in Nat /\ e < length /\ (Dealt => c < chunks)
      BY <1>1, <1>5, OwnerType DEF Elements
    <3>2. QED
      BY <1>1, <1>5, <3>1, ChunkIs
  <2>2. AtEnd(t)
    BY <1>1, <1>4, <2>1
  <2>3. End(c) <= at[t].e
    <3>1. c * Width \in Nat
      BY <1>1
    <3>2. QED
      BY <1>1, <1>2, <2>2, <3>1 DEF AtEnd, Here, End, Lesser, Is
  <2>4. e < End(c)
    BY <1>1, <2>1 DEF End, Lesser, Is
  <2>5. End(c) \in Nat
    <3>1. c * Width \in Nat
      BY <1>1
    <3>2. QED
      BY <1>1, <3>1 DEF End, Lesser, Is
  <2>6. QED
    BY <1>2, <2>1, <2>3, <2>4, <2>5
<1>6. Visited(t) = Swept
  <2>1. ASSUME NEW e \in Elements
        PROVE  e \in Visited(t) <=> e \in Swept
    <3>1. ChunkOf(e) \in Nat
      BY OwnerType
    <3>2. QED
      BY <1>1, <1>5, <3>1 DEF Visited
  <2>2. QED
    BY <2>1 DEF Visited
<1>7. Elements' = Elements /\ (\A e : ChunkOf(e)' = ChunkOf(e)
                                    /\ Owner(e)' = Owner(e))
      /\ (\A k : First(k)' = First(k))
      /\ Dealt' = Dealt /\ chunks' = chunks /\ threads' = threads
  BY <1>1, DealingStays
<1>8. Visited(t)' = Swept
  <2>1. ASSUME NEW e \in Elements
        PROVE  e \in Visited(t)' <=> e \in Swept
    <3>1. ChunkOf(e) \in Nat /\ e \in Nat /\ Owner(e) = ChunkOf(e) % threads
      BY OwnerType DEF Owner
    <3>2. e \in Visited(t)' <=>
            /\ Owner(e) = t
            /\ \/ ChunkOf(e) < d
               \/ ChunkOf(e) = d /\ (e < First(d) \/ ~ NextChunk(t))
      BY <1>3, <1>7 DEF Visited, IsAt
    <3>3. CASE ~ NextChunk(t)
      BY <1>1, <3>1, <3>2, <3>3
    <3>4. CASE NextChunk(t)
      <4>1. ~ (ChunkOf(e) = d /\ e < First(d))
        <5>1. d \in Nat
          BY <1>1
        <5>2. ChunkOf(e) = d => d * Width <= e
          BY <3>1, <5>1, ChunkIs
        <5>3. d * Width \in Nat /\ First(d) = d * Width
          BY <1>1, <5>1
        <5>4. QED
          BY <3>1, <5>2, <5>3
      <4>2. Owner(e) = t => (ChunkOf(e) < c + threads <=> ChunkOf(e) <= c)
        <5>1. ASSUME Owner(e) = t, ChunkOf(e) < c + threads
              PROVE  ChunkOf(e) <= c
          BY <1>1, <1>2, <3>1, <5>1, SameRemainder, Zenon
        <5>2. QED
          BY <1>1, <3>1, <5>1
      <4>3. QED
        BY <3>2, <3>4, <4>1, <4>2
    <3>5. QED
      BY <3>3, <3>4
  <2>2. Visited(t)' \subseteq Elements
    BY <1>7 DEF Visited
  <2>3. QED
    BY <2>1, <2>2
<1>9. \A u \in team \ {t} : Visited(u)' = Visited(u)
  BY <1>3, <1>7 DEF Visited, IsAt
<1>10. InPlace'
  <2>1. d \in Nat /\ d % threads = t
    <3>1. c + threads \in Nat /\ (c + threads) % threads = c % threads
      <4> HIDE DEF c
      <4>1. (c + threads) % threads = c % threads
        BY <1>1, SameRemainder, Zenon
      <4>2. c + threads \in Nat
        BY <1>1
      <4>3. QED
        BY <4>1, <4>2, Zenon
    <3>2. QED
      BY <1>1, <1>2, <3>1, Zenon
  <2>2. First(d) <= First(d) /\ (~ Dealt => d = t)
    <3>1. First(d) \in Nat
      BY <1>1, <2>1
    <3>2. QED
      BY <3>1 DEF InPlace, NextChunk
  <2>3. Dealt /\ ~ NextChunk(t) => chunks <= d
    BY <1>1 DEF Turns, NextChunk, MergeBins, Leave, HasChunk, IsAt, Is, Dealt,
                Indexing
  <2>4. ASSUME NEW u \in team \ {t}
        PROVE  /\ at'[u].step \in {"loop", "done"}
               /\ at'[u].chunk % threads = u
               /\ ~ Dealt => at'[u].chunk = u
               /\ First(at'[u].chunk) <= at'[u].e
               /\ Dealt /\ at'[u].step = "done" => chunks <= at'[u].chunk
    BY <1>3, <2>4 DEF InPlace, IsAt
  <2>5. /\ at'[t].step \in {"loop", "done"}
        /\ at'[t].chunk % threads = t
        /\ ~ Dealt => at'[t].chunk = t
        /\ First(at'[t].chunk) <= at'[t].e
        /\ Dealt /\ at'[t].step = "done" => chunks <= at'[t].chunk
    BY <1>3, <2>1, <2>2, <2>3
  <2>6. QED
    BY <1>1, <1>7, <2>4, <2>5 DEF InPlace, IsAt
<1>11. QED
  BY <1>3, <1>6, <1>8, <1>9, <1>10

\* At the end all elements have been visited by their threads.
LEMMA AllVisited ==
  ASSUME LoopTypeOK, InPlace, ~ Is("ismax"), NEW t \in team, IsAt(t, "done")
  PROVE  Visited(t) = {e \in Elements : Owner(e) = t}
<1>1. ASSUME NEW e \in Elements, Owner(e) = t PROVE e \in Visited(t)
  <2>1. ChunkOf(e) \in Nat /\ at[t].chunk \in Nat /\ chunks \in Nat
    BY OwnerType, WidthFacts DEF LoopTypeOK
  <2>2. CASE Dealt
    BY <1>1, <2>1, <2>2, OwnerType DEF InPlace, Visited
  <2>3. CASE ~ Dealt
    BY <1>1, <2>1, <2>3, OwnerType DEF InPlace, Visited
  <2>4. QED
    BY <2>2, <2>3
<1>2. QED
  BY <1>1 DEF Visited

LEMMA NoneVisited ==
  ASSUME LoopStart, ~ Is("ismax")
  PROVE  InPlace /\ \A t \in team : Visited(t) = {}
<1>1. /\ LoopTypeOK
      /\ threads \in Nat \ {0} /\ team = 0 .. threads - 1
  BY LoopTypeInit, TeamFacts DEF LoopTypeOK
<1>2. ASSUME NEW t \in team
      PROVE  /\ at[t].step = "loop" /\ at[t].chunk = t
             /\ at[t].chunk % threads = t
             /\ First(at[t].chunk) <= at[t].e
             /\ Visited(t) = {}
  <2>1. t \in Nat /\ t < threads /\ threads \in Nat \ {0}
    BY <1>1
  <2>2. t % threads = t
    BY <2>1
  <2>3. First(t) = t * Width /\ First(t) \in Nat
    BY <1>1, <2>1, WidthFacts DEF First, Is
  <2>4. at[t] = [step |-> "loop", chunk |-> t, e |-> First(t)]
    BY DEF LoopStart, Is
  <2>5. ASSUME NEW e \in Visited(t) PROVE FALSE
    <3>1. e \in Elements /\ Owner(e) = t
          /\ (ChunkOf(e) < t \/ (ChunkOf(e) = t /\ e < First(t)))
      BY <2>4, <2>5 DEF Visited, IsAt
    <3>2. e \in Nat /\ ChunkOf(e) \in Nat /\ ChunkOf(e) % threads = t
      BY <1>1, <3>1, OwnerType DEF Owner
    <3>3. ASSUME ChunkOf(e) < t PROVE FALSE
      <4>1. ChunkOf(e) % threads = ChunkOf(e)
        BY <2>1, <3>2, <3>3
      <4>2. QED
        BY <2>1, <3>2, <3>3, <4>1
    <3>4. ASSUME ChunkOf(e) = t PROVE First(t) <= e
      <4>1. t * Width <= e
        BY <1>1, <2>1, <3>2, <3>4, ChunkIs
      <4>2. QED
        BY <2>3, <4>1
    <3>5. QED
      BY <2>3, <3>1, <3>2, <3>3, <3>4
  <2>6. QED
    BY <2>2, <2>3, <2>4, <2>5
<1>3. QED
  BY <1>2 DEF InPlace, IsAt

\* The steps of the kernels other than IsMax.
LEMMA ThreadSteps ==
  ASSUME LoopTypeOK, InPlace, ~ Is("ismax"), NEW t \in team, LoopStep(t)
  PROVE  \/ Turns(t)
         \/ Visits(t) /\ (\/ Accumulate(t) \/ Compare(t)
                         \/ Count(t) \/ Apply(t))
<1>1. ~ Load(t) /\ ~ Store(t) /\ ~ Test(t) /\ ~ Scan(t)
  BY DEF Load, Store, Test, Scan, InPlace, IsAt
<1>2. QED
  BY <1>1 DEF LoopStep, Turns, Accumulate, Compare, Count, Apply

LEMMA NothingMoves ==
  ASSUME UNCHANGED <<call, team, at>>
  PROVE  /\ \A t : Visited(t)' = Visited(t)
         /\ \A t : IsAt(t, "done")' = IsAt(t, "done")
         /\ InPlace' = InPlace
<1>1. Elements' = Elements /\ (\A e : ChunkOf(e)' = ChunkOf(e)
                                    /\ Owner(e)' = Owner(e))
      /\ (\A k : First(k)' = First(k))
      /\ Dealt' = Dealt /\ chunks' = chunks /\ threads' = threads
  BY DealingStays
<1>2. QED
  BY <1>1 DEF Visited, IsAt, InPlace, Is

LEMMA InPlaceNext ==
  LoopTypeOK /\ InPlace /\ [LoopNext]_loopVars => InPlace'
<1> SUFFICES ASSUME LoopTypeOK, InPlace, [LoopNext]_loopVars PROVE InPlace'
  OBVIOUS
<1>1. CASE Is("ismax")
  <2>1. call' = call
    BY ThreadMoves DEF LoopNext, loopVars, Join
  <2>2. QED
    BY <1>1, <2>1 DEF InPlace, Is
<1>2. ASSUME ~ Is("ismax"), NEW t \in team, LoopStep(t) PROVE InPlace'
  BY <1>2, ThreadSteps, VisitAdds, TurnKeeps
<1>3. CASE Join \/ UNCHANGED loopVars
  BY <1>3, NothingMoves DEF Join, loopVars
<1>4. QED
  BY <1>1, <1>2, <1>3 DEF LoopNext

-----------------------------------------------------------------------------
(* Sums.                                                                   *)

\* A thread has added up what it has visited, and the call the parts of the
\* threads it has come to.
Reduced ==
  Is("reduce") =>
    /\ \A t \in team :
         local[t] = [e \in Elements |-> IF e \in Visited(t) THEN 1 ELSE 0]
    /\ output = [e \in Elements |-> IF Owner(e) < joined THEN 1 ELSE 0]

LEMMA ReducedInit == LoopStart => Reduced
<1> SUFFICES ASSUME LoopStart, Is("reduce") PROVE Reduced
  BY DEF Reduced
<1>1. LoopTypeOK /\ (\A t \in team : Visited(t) = {}) /\ joined = 0
      /\ threads \in Nat /\ team = 0 .. threads - 1
      /\ DOMAIN call.x = Elements
  BY LoopTypeInit, NoneVisited, TeamFacts, CallFacts
  DEF Is, LoopStart, LoopTypeOK
<1>2. output = [e \in Elements |-> 0]
      /\ \A t \in team : local[t] = [e \in Elements |-> 0]
  BY <1>1 DEF LoopStart, None, Is, Indexing
<1>3. \A e \in Elements : ~ (Owner(e) < joined)
  BY <1>1, OwnerType
<1>4. QED
  BY <1>1, <1>2, <1>3 DEF Reduced

LEMMA ReducedNext ==
  LoopTypeOK /\ InPlace /\ Reduced /\ [LoopNext]_loopVars => Reduced'
<1> SUFFICES ASSUME LoopTypeOK, InPlace, Reduced, [LoopNext]_loopVars,
                    Is("reduce")'
             PROVE  Reduced'
  BY DEF Reduced
<1>1. UNCHANGED <<call, team>>
  BY ThreadMoves DEF LoopNext, Join, loopVars
<1>2. Is("reduce") /\ ~ Is("ismax")
  BY <1>1 DEF Is
<1>3. Elements' = Elements /\ (\A e : Owner(e)' = Owner(e))
  BY <1>1, DealingStays
<1>4. threads \in Nat /\ team = 0 .. threads - 1 /\ joined \in Nat
  BY TeamFacts DEF LoopTypeOK
<1>5. ASSUME NEW t \in team, Accumulate(t), Visits(t) PROVE Reduced'
  <2>1. /\ local' = [local EXCEPT ![t] = Once(local[t], Here(t))]
        /\ UNCHANGED <<output, joined>>
    BY <1>5 DEF Accumulate, Computes, Visits
  <2>2. /\ Here(t) \in Elements /\ Here(t) \notin Visited(t)
        /\ Visited(t)' = Visited(t) \cup {Here(t)}
        /\ \A u \in team \ {t} : Visited(u)' = Visited(u)
    BY <1>2, <1>5, VisitAdds
  <2>3. local'[t] = [e \in Elements |-> IF e \in Visited(t)' THEN 1 ELSE 0]
    <3>1. local[t] = [e \in Elements |-> IF e \in Visited(t) THEN 1 ELSE 0]
      BY <1>2 DEF Reduced
    <3>2. local'[t] = [local[t] EXCEPT ![Here(t)] = @ + 1]
      BY <2>1 DEF LoopTypeOK, Once
    <3>3. QED
      BY <2>2, <3>1, <3>2
  <2>4. \A u \in team \ {t} : local'[u] = local[u]
    BY <2>1 DEF LoopTypeOK
  <2>5. QED
    BY <1>1, <1>2, <1>3, <2>1, <2>2, <2>3, <2>4 DEF Reduced
<1>6. ASSUME NEW t \in team, Turns(t) PROVE Reduced'
  <2>1. UNCHANGED <<local, output, joined>>
    BY <1>2, <1>6 DEF Turns, NextChunk, MergeBins, Leave, Is
  <2>2. QED
    BY <1>1, <1>2, <1>3, <1>6, <2>1, TurnKeeps DEF Reduced
<1>7. CASE Join
  <2>1. /\ joined' = joined + 1 /\ joined \in team /\ Done
        /\ output' = [e \in DOMAIN output |-> output[e] + local[joined][e]]
        /\ UNCHANGED <<at, local>>
    BY <1>2, <1>4, <1>7 DEF Join, Done
  <2>2. Visited(joined) = {e \in Elements : Owner(e) = joined}
    BY <1>2, <2>1, AllVisited DEF Done
  <2>3. \A t : Visited(t)' = Visited(t)
    BY <1>1, <2>1, NothingMoves
  <2>4. ASSUME NEW e \in Elements
        PROVE  output[e] + local[joined][e]
                 = IF Owner(e) < joined + 1 THEN 1 ELSE 0
    <3>1. Owner(e) \in Nat
      BY <1>4, OwnerType
    <3>2. output[e] = (IF Owner(e) < joined THEN 1 ELSE 0)
      BY <1>2 DEF Reduced
    <3>3. local[joined] = [d \in Elements |-> IF d \in Visited(joined)
                                             THEN 1 ELSE 0]
      BY <1>2, <2>1 DEF Reduced
    <3>4. local[joined][e] = (IF Owner(e) = joined THEN 1 ELSE 0)
      BY <2>2, <3>3
    <3>5. QED
      BY <1>4, <3>1, <3>2, <3>4
  <2>5. output' = [e \in Elements |-> IF Owner(e) < joined + 1 THEN 1 ELSE 0]
    <3>1. DOMAIN output = Elements
      BY <1>2 DEF Reduced
    <3>2. QED
      BY <2>1, <2>4, <3>1
  <2>6. QED
    BY <1>1, <1>2, <1>3, <2>1, <2>3, <2>5 DEF Reduced
<1>8. CASE UNCHANGED loopVars
  BY <1>2, <1>3, <1>8, NothingMoves DEF Reduced, loopVars
<1>9. QED
  <2>1. ASSUME NEW t \in team, LoopStep(t) PROVE Reduced'
    <3>1. ~ Compare(t) /\ ~ Count(t) /\ ~ Apply(t)
      BY <1>2 DEF Compare, Count, Apply, Is, Indexing
    <3>2. QED
      BY <1>2, <1>5, <1>6, <2>1, <3>1, ThreadSteps
  <2>2. QED
    BY <1>7, <1>8, <2>1 DEF LoopNext

\* An elementwise operation has written what its threads have visited.
Written ==
  Is("elementwise") =>
    output = [e \in Elements |-> IF e \in Visited(Owner(e)) THEN 1 ELSE 0]

LEMMA WrittenInit == LoopStart => Written
<1> SUFFICES ASSUME LoopStart, Is("elementwise") PROVE Written
  BY DEF Written
<1>1. LoopTypeOK /\ (\A t \in team : Visited(t) = {})
      /\ DOMAIN call.x = Elements
  BY LoopTypeInit, NoneVisited, CallFacts DEF Is, LoopTypeOK
<1>2. output = [e \in Elements |-> 0]
  BY <1>1 DEF LoopStart, None, Is
<1>3. \A e \in Elements : e \notin Visited(Owner(e))
  BY <1>1, OwnerType
<1>4. QED
  BY <1>2, <1>3 DEF Written

LEMMA WrittenNext ==
  LoopTypeOK /\ InPlace /\ Written /\ [LoopNext]_loopVars => Written'
<1> SUFFICES ASSUME LoopTypeOK, InPlace, Written, [LoopNext]_loopVars,
                    Is("elementwise")'
             PROVE  Written'
  BY DEF Written
<1>1. UNCHANGED <<call, team>>
  BY ThreadMoves DEF LoopNext, Join, loopVars
<1>2. Is("elementwise") /\ ~ Is("ismax") /\ ~ Is("reduce")
  BY <1>1 DEF Is
<1>3. Elements' = Elements /\ (\A e : Owner(e)' = Owner(e))
  BY <1>1, DealingStays
<1>4. ASSUME UNCHANGED output, \A t \in team : Visited(t)' = Visited(t)
      PROVE  Written'
  <2>1. \A e \in Elements : Visited(Owner(e))' = Visited(Owner(e))
    <3> SUFFICES ASSUME NEW e \in Elements
                 PROVE  Visited(Owner(e))' = Visited(Owner(e))
      OBVIOUS
    <3>1. Owner(e) \in team /\ Owner(e)' = Owner(e)
      BY <1>3, OwnerType
    <3>2. QED
      BY <1>4, <3>1 DEF Visited
  <2>2. QED
    BY <1>2, <1>3, <1>4, <2>1 DEF Written
<1>5. ASSUME NEW t \in team, Apply(t), Visits(t) PROVE Written'
  <2>1. output' = [output EXCEPT ![Here(t)] = @ + 1]
    BY <1>5 DEF Apply, Once
  <2>2. /\ Here(t) \in Elements /\ Here(t) \notin Visited(t)
        /\ Owner(Here(t)) = t
        /\ Visited(t)' = Visited(t) \cup {Here(t)}
        /\ \A u \in team \ {t} : Visited(u)' = Visited(u)
    BY <1>2, <1>5, VisitAdds
  <2>3. ASSUME NEW e \in Elements
        PROVE  e \in Visited(Owner(e))' <=>
                 e \in Visited(Owner(e)) \/ e = Here(t)
    <3>1. Owner(e) \in team /\ Owner(e)' = Owner(e)
      BY <1>3, OwnerType
    <3> DEFINE u == Owner(e)
    <3>2. Visited(u)' = IF u = t THEN Visited(t) \cup {Here(t)} ELSE Visited(u)
      <4>1. CASE u = t
        <5>1. Visited(u)' = Visited(t)'
          BY <3>1, <4>1 DEF Visited
        <5>2. QED
          BY <2>2, <4>1, <5>1
      <4>2. CASE u # t
        <5>1. PICK v \in team : v = u
          BY <3>1
        <5>2. Visited(v)' = Visited(v)
          BY <2>2, <4>2, <5>1
        <5>3. Visited(u)' = Visited(v)'
          BY <3>1, <5>1 DEF Visited
        <5>4. QED
          BY <4>2, <5>1, <5>2, <5>3
      <4>3. QED
        BY <4>1, <4>2
    <3>3. QED
      BY <2>2, <3>2
  <2>4. output = [e \in Elements |-> IF e \in Visited(Owner(e)) THEN 1 ELSE 0]
    BY <1>2 DEF Written
  <2>5. output' = [e \in Elements |->
                     IF e \in Visited(Owner(e))' THEN 1 ELSE 0]
    <3>1. Here(t) \notin Visited(Owner(Here(t)))
      BY <2>2
    <3>2. QED
      BY <2>1, <2>2, <2>3, <2>4, <3>1
  <2>6. QED
    BY <1>3, <2>5 DEF Written
<1>6. ASSUME NEW t \in team, LoopStep(t) PROVE Written'
  <2>1. ~ Accumulate(t) /\ ~ Compare(t) /\ ~ Count(t)
    BY <1>2 DEF Accumulate, Compare, Count, Is, Indexing
  <2>2. Turns(t) => UNCHANGED output
    BY <1>2 DEF Turns, NextChunk, MergeBins, Leave, Is
  <2>3. QED
    BY <1>2, <1>4, <1>5, <1>6, <2>1, <2>2, ThreadSteps, TurnKeeps
<1>7. CASE Join \/ UNCHANGED loopVars
  <2>1. UNCHANGED <<call, team, at, output>>
    BY <1>2, <1>7 DEF Join, loopVars, Is
  <2>2. QED
    BY <1>4, <2>1, NothingMoves
<1>8. QED
  BY <1>6, <1>7 DEF LoopNext

\* A thread has counted the elements it has visited in their bins, and the
\* call those of the threads that are done.
InBin(b, S) == {e \in S : Bin(call.x[e]) = b}
Finished == {e \in Elements : IsAt(Owner(e), "done")}
Binned ==
  Is("histogram") =>
    /\ \A t \in team :
         local[t] = [b \in 0 .. Bins - 1 |-> Cardinality(InBin(b, Visited(t)))]
    /\ output = [b \in 0 .. Bins - 1 |-> Cardinality(InBin(b, Finished))]

LEMMA BinType ==
  ASSUME NEW v \in Int PROVE Bin(v) \in 0 .. Bins - 1
BY LoopAssumption DEF Bin

LEMMA BinsFinite ==
  ASSUME LoopTypeOK, NEW b, NEW S \in SUBSET Elements
  PROVE  IsFiniteSet(InBin(b, S)) /\ Cardinality(InBin(b, S)) \in Nat
<1>1. IsFiniteSet(Elements)
  <2>1. length \in Nat
    BY CallFacts DEF LoopTypeOK
  <2>2. IsFiniteSet(0 .. length - 1)
    BY <2>1, FS_Interval
  <2>3. QED
    BY <2>2 DEF Elements
<1>2. IsFiniteSet(InBin(b, S))
  BY <1>1, FS_Subset DEF InBin
<1>3. QED
  BY <1>2, FS_CardinalityType

LEMMA BinnedInit == LoopStart => Binned
<1> SUFFICES ASSUME LoopStart, Is("histogram") PROVE Binned
  BY DEF Binned
<1>1. LoopTypeOK /\ (\A t \in team : Visited(t) = {})
  BY LoopTypeInit, NoneVisited DEF Is, LoopTypeOK
<1>2. output = [b \in 0 .. Bins - 1 |-> 0]
      /\ \A t \in team : local[t] = [b \in 0 .. Bins - 1 |-> 0]
  BY DEF LoopStart, NoBins, Is, Indexing
<1>3. \A t \in team : ~ IsAt(t, "done")
  BY DEF LoopStart, IsAt, Is
<1>4. Finished = {}
  BY <1>1, <1>3, OwnerType DEF Finished
<1>5. \A b : Cardinality(InBin(b, {})) = 0
  BY FS_EmptySet DEF InBin
<1>6. QED
  BY <1>1, <1>2, <1>4, <1>5 DEF Binned

LEMMA BinnedNext ==
  LoopTypeOK /\ InPlace /\ Binned /\ [LoopNext]_loopVars => Binned'
<1> SUFFICES ASSUME LoopTypeOK, InPlace, Binned, [LoopNext]_loopVars,
                    Is("histogram")'
             PROVE  Binned'
  BY DEF Binned
<1>1. UNCHANGED <<call, team>>
  BY ThreadMoves DEF LoopNext, Join, loopVars
<1>2. Is("histogram") /\ ~ Is("ismax") /\ ~ Is("reduce")
      /\ ~ Is("elementwise") /\ call.kind \notin Indexing /\ ~ Dealt
  BY <1>1 DEF Is, Indexing, Dealt
<1>3. Elements' = Elements /\ (\A e : Owner(e)' = Owner(e))
      /\ \A b, S : InBin(b, S)' = InBin(b, S)
  BY <1>1, DealingStays DEF InBin
<1>4. ASSUME UNCHANGED <<output, local>>,
             \A t \in team : /\ Visited(t)' = Visited(t)
                             /\ IsAt(t, "done")' = IsAt(t, "done")
      PROVE  Binned'
  <2>1. Finished' = Finished
    <3>1. \A e \in Elements : IsAt(Owner(e), "done")' = IsAt(Owner(e), "done")
      <4> SUFFICES ASSUME NEW e \in Elements
                   PROVE  IsAt(Owner(e), "done")' = IsAt(Owner(e), "done")
        OBVIOUS
      <4>1. Owner(e) \in team /\ Owner(e)' = Owner(e)
        BY <1>3, OwnerType
      <4>2. QED
        BY <1>4, <4>1 DEF IsAt
    <3>2. QED
      BY <1>3, <3>1 DEF Finished
  <2>2. QED
    BY <1>1, <1>2, <1>3, <1>4, <2>1 DEF Binned, InBin
<1>5. ASSUME NEW t \in team, Count(t), Visits(t) PROVE Binned'
  <2> DEFINE h == Here(t)
             k == Bin(call.x[h])
  <2>1. /\ local' = [local EXCEPT ![t] = Once(local[t], k)]
        /\ UNCHANGED output
    BY <1>5 DEF Count, Computes
  <2>2. /\ h \in Elements /\ h \notin Visited(t)
        /\ Visited(t)' = Visited(t) \cup {h}
        /\ \A u \in team \ {t} : Visited(u)' = Visited(u)
        /\ \A u \in team : IsAt(u, "done")' = IsAt(u, "done")
    BY <1>2, <1>5, VisitAdds
  <2>3. k \in 0 .. Bins - 1
    BY <2>2, CallFacts, BinType DEF LoopTypeOK
  <2>4. local'[t] = [local[t] EXCEPT ![k] = @ + 1]
    <3> HIDE DEF k
    <3> QED
      BY <2>1 DEF LoopTypeOK, Once
  <2>5. ASSUME NEW b \in 0 .. Bins - 1
        PROVE  Cardinality(InBin(b, Visited(t)'))
                 = Cardinality(InBin(b, Visited(t))) + (IF b = k THEN 1 ELSE 0)
    <3>1. Visited(t) \in SUBSET Elements
      BY DEF Visited
    <3>2. IsFiniteSet(InBin(b, Visited(t)))
          /\ Cardinality(InBin(b, Visited(t))) \in Nat
      BY <3>1, BinsFinite
    <3>3. CASE b = k
      <4>1. InBin(b, Visited(t)') = InBin(b, Visited(t)) \cup {h}
            /\ h \notin InBin(b, Visited(t))
        BY <2>2, <3>3 DEF InBin
      <4>2. QED
        BY <3>2, <3>3, <4>1, FS_AddElement
    <3>4. CASE b # k
      <4>1. InBin(b, Visited(t)') = InBin(b, Visited(t))
        BY <2>2, <3>4 DEF InBin
      <4>2. QED
        BY <3>2, <3>4, <4>1
    <3>5. QED
      BY <3>3, <3>4
  <2>6. local'[t] =
          [b \in 0 .. Bins - 1 |-> Cardinality(InBin(b, Visited(t)'))]
    <3> HIDE DEF h, k
    <3>1. local[t] = [b \in 0 .. Bins - 1 |-> Cardinality(InBin(b, Visited(t)))]
      BY <1>2 DEF Binned
    <3>2. ASSUME NEW b \in 0 .. Bins - 1
          PROVE  local'[t][b] = Cardinality(InBin(b, Visited(t)'))
      <4>1. Cardinality(InBin(b, Visited(t))) \in Nat
        BY BinsFinite DEF Visited
      <4>2. QED
        BY <2>3, <2>4, <2>5, <3>1, <4>1
    <3>3. QED
      BY <2>4, <3>1, <3>2
  <2>7. \A u \in team \ {t} : local'[u] = local[u]
    BY <2>1 DEF LoopTypeOK
  <2>8. Finished' = Finished
    BY <1>3, <2>2, OwnerType DEF Finished, IsAt
  <2>9. \A u \in team :
          local'[u] =
            [b \in 0 .. Bins - 1 |-> Cardinality(InBin(b, Visited(u)'))]
    <3> SUFFICES ASSUME NEW u \in team
                 PROVE  local'[u] = [b \in 0 .. Bins - 1 |->
                                       Cardinality(InBin(b, Visited(u)'))]
      OBVIOUS
    <3>1. CASE u = t
      BY <2>6, <3>1
    <3>2. CASE u # t
      <4>1. local'[u] = local[u] /\ Visited(u)' = Visited(u)
        BY <2>2, <2>7, <3>2
      <4>2. local[u] =
              [b \in 0 .. Bins - 1 |-> Cardinality(InBin(b, Visited(u)))]
        BY <1>2 DEF Binned
      <4>3. QED
        BY <4>1, <4>2
    <3>3. QED
      BY <3>1, <3>2
  <2>10. output' = [b \in 0 .. Bins - 1 |-> Cardinality(InBin(b, Finished'))]
    BY <1>2, <2>1, <2>8 DEF Binned
  <2> HIDE DEF h, k
  <2>11. /\ call' = call /\ team' = team
         /\ \A b : InBin(b, Finished') = InBin(b, Finished)'
         /\ \A b, u : InBin(b, Visited(u)') = InBin(b, Visited(u))'
    BY <1>1 DEF InBin
  <2>12. \A u \in team :
           local'[u] =
             [b \in 0 .. Bins - 1 |-> Cardinality(InBin(b, Visited(u))')]
    BY <2>9, <2>11
  <2>13. output' = [b \in 0 .. Bins - 1 |-> Cardinality(InBin(b, Finished)')]
    BY <2>10, <2>11
  <2>14. QED
    BY <2>11, <2>12, <2>13 DEF Binned
<1>6. ASSUME NEW t \in team, MergeBins(t) PROVE Binned'
  <2> DEFINE Mine == {e \in Elements : Owner(e) = t}
  <2>1. /\ output' = [b \in 0 .. Bins - 1 |-> output[b] + local[t][b]]
        /\ UNCHANGED local
        /\ ~ IsAt(t, "done") /\ IsAt(t, "done")'
        /\ \A u \in team \ {t} : IsAt(u, "done")' = IsAt(u, "done")
    <3>1. at' = [at EXCEPT ![t] = [step |-> "done", chunk |-> at[t].chunk,
                                   e |-> First(at[t].chunk)]]
      BY <1>6 DEF MergeBins, Goes
    <3>2. QED
      BY <1>6, <3>1 DEF MergeBins, AtEnd, HasChunk, IsAt, LoopTypeOK
  <2>2. Turns(t)
    BY <1>6 DEF Turns
  <2>3. \A u \in team : Visited(u)' = Visited(u)
    BY <1>2, <2>2, TurnKeeps
  <2>4. Visited(t) = Mine
    <3>1. \A e \in Elements : Owner(e) = t => ChunkOf(e) <= at[t].chunk
      <4> SUFFICES ASSUME NEW e \in Elements, Owner(e) = t
                   PROVE  ChunkOf(e) <= at[t].chunk
        OBVIOUS
      <4>1. ChunkOf(e) = t /\ at[t].chunk = t /\ ChunkOf(e) \in Nat
        BY <1>2, OwnerType DEF InPlace
      <4>2. QED
        BY <4>1
    <3>2. QED
      BY <1>2, <2>2, <3>1, TurnKeeps
  <2>5. Finished' = Finished \cup Mine /\ Finished \cap Mine = {}
    <3>1. \A e \in Elements : Owner(e) \in team /\ Owner(e)' = Owner(e)
      BY <1>3, OwnerType
    <3>2. \A e \in Elements :
            IsAt(Owner(e), "done")' <=> IsAt(Owner(e), "done") \/ Owner(e) = t
      BY <2>1, <3>1 DEF IsAt
    <3>3. QED
      BY <1>3, <2>1, <3>1, <3>2 DEF Finished
  <2>6. ASSUME NEW b \in 0 .. Bins - 1
        PROVE  output[b] + local[t][b] = Cardinality(InBin(b, Finished'))
    <3>1. Finished \in SUBSET Elements /\ Mine \in SUBSET Elements
      BY DEF Finished
    <3> HIDE DEF Mine
    <3>2. /\ IsFiniteSet(InBin(b, Finished)) /\ IsFiniteSet(InBin(b, Mine))
          /\ Cardinality(InBin(b, Finished)) \in Nat
          /\ Cardinality(InBin(b, Mine)) \in Nat
      BY <3>1, BinsFinite
    <3>3. InBin(b, Finished') = InBin(b, Finished) \cup InBin(b, Mine)
          /\ InBin(b, Finished) \cap InBin(b, Mine) = {}
      BY <2>5 DEF InBin
    <3>4. Cardinality(InBin(b, Finished')) =
            Cardinality(InBin(b, Finished)) + Cardinality(InBin(b, Mine))
      <4> DEFINE A == InBin(b, Finished)
                 B == InBin(b, Mine)
      <4> HIDE DEF A, B
      <4>1. IsFiniteSet(A) /\ IsFiniteSet(B) /\ A \cap B = {}
            /\ Cardinality(A) \in Nat /\ Cardinality(B) \in Nat
        BY <3>2, <3>3 DEF A, B
      <4>2. Cardinality(A \cup B) =
              Cardinality(A) + Cardinality(B) - Cardinality({})
        BY <4>1, FS_Union
      <4>3. Cardinality(A \cup B) = Cardinality(A) + Cardinality(B)
        BY <4>1, <4>2, FS_EmptySet
      <4>4. QED
        BY <3>3, <4>3 DEF A, B
    <3>5. output[b] = Cardinality(InBin(b, Finished))
          /\ local[t][b] = Cardinality(InBin(b, Mine))
      BY <1>2, <2>4 DEF Binned
    <3>6. QED
      BY <3>4, <3>5
  <2>7. output' = [b \in 0 .. Bins - 1 |-> Cardinality(InBin(b, Finished'))]
    BY <2>1, <2>6
  <2>8. QED
    BY <1>1, <1>2, <1>3, <2>1, <2>3, <2>7 DEF Binned, InBin
<1>7. ASSUME NEW t \in team, LoopStep(t) PROVE Binned'
  <2>1. ~ Accumulate(t) /\ ~ Compare(t) /\ ~ Apply(t)
    BY <1>2 DEF Accumulate, Compare, Apply, Is
  <2>2. ~ NextChunk(t) /\ ~ Leave(t)
    BY <1>2 DEF NextChunk, Leave, HasChunk
  <2>3. QED
    BY <1>2, <1>5, <1>6, <1>7, <2>1, <2>2, ThreadSteps DEF Turns
<1>8. CASE Join \/ UNCHANGED loopVars
  <2>1. UNCHANGED <<call, team, at, output, local>>
    BY <1>2, <1>8 DEF Join, loopVars
  <2>2. QED
    BY <1>4, <2>1, NothingMoves
<1>9. QED
  BY <1>7, <1>8 DEF LoopNext

-----------------------------------------------------------------------------
(* Index reductions.                                                       *)

\* What a search of the elements S may have come to: the candidate it started
\* with, when none of them matches, or an element no worse than any of S.
Best(c, S) ==
  /\ Is("max") =>
       /\ c.index \in Elements
       /\ c.value = call.x[c.index] \/ c.value = Lowest
       /\ \A e \in S : call.x[e] <= c.value
  /\ Is("first") \/ Is("last") =>
       \/ /\ c = Candidate(Lowest, -1)
          /\ \A e \in S : call.x[e] \notin call.matching
       \/ /\ c.index \in Elements /\ c.value = call.x[c.index]
          /\ c.value \in call.matching
          /\ \A e \in S : call.x[e] \in call.matching =>
               IF Is("first") THEN c.index <= e ELSE e <= c.index

\* The elements of the chunks that have been put together.
Merged == {e \in Elements : ChunkOf(e) < at[Owner(e)].chunk}

Searches == call.kind \in Indexing /\ Lowest \notin call.matching

Indexed ==
  Searches => /\ \A t \in team : Best(local[t], Visited(t))
              /\ Best(shared, Merged)

\* Putting two searches together is a search of both parts.
LEMMA UpdateIsBest ==
  ASSUME LoopTypeOK, Searches, NEW S \in SUBSET Elements,
         NEW T \in SUBSET Elements, NEW a, NEW b, Best(a, S), Best(b, T)
  PROVE  Best(Update(a, b), S \cup T)
<1>1. Lowest \in Int /\ \A e \in Elements : e \in Int /\ call.x[e] \in Int
  BY LoopAssumption, CallFacts, OwnerType DEF LoopTypeOK
<1>2. CASE Is("max")
  <2>1. a.value \in Int /\ b.value \in Int
    BY <1>1, <1>2 DEF Best
  <2>2. Update(a, b) = IF b.value > a.value THEN b ELSE a
    BY <1>2 DEF Update, Larger, Is
  <2>3. CASE b.value > a.value
    BY <1>1, <1>2, <2>1, <2>2, <2>3 DEF Best, Is
  <2>4. CASE ~ (b.value > a.value)
    BY <1>1, <1>2, <2>1, <2>2, <2>4 DEF Best, Is
  <2>5. QED
    BY <2>3, <2>4
<1>3. ASSUME Is("first") \/ Is("last"), b = Candidate(Lowest, -1)
      PROVE  Update(a, b) = a
  BY <1>3 DEF Update, Earlier, Later, Matches, Searches, Candidate, Is
<1>4. ASSUME Is("first") \/ Is("last"), a = Candidate(Lowest, -1),
             b.value \in call.matching
      PROVE  Update(a, b) = b
  BY <1>4 DEF Update, Earlier, Later, Matches, Candidate, Is
<1>5. ASSUME Is("first") \/ Is("last"), a.index \in Elements,
             b.index \in Elements, b.value \in call.matching
      PROVE  Update(a, b) =
               IF \/ Is("first") /\ a.index > b.index
                  \/ Is("last") /\ a.index < b.index
               THEN b ELSE a
  <2>1. ~ (a.index < 0)
    BY <1>5, CallFacts DEF Elements, LoopTypeOK
  <2>2. QED
    BY <1>5, <2>1 DEF Update, Earlier, Later, Matches, Is
<1>6. CASE Is("first")
  BY <1>1, <1>3, <1>4, <1>5, <1>6 DEF Best, Is
<1>7. CASE Is("last")
  BY <1>1, <1>3, <1>4, <1>5, <1>7 DEF Best, Is
<1>8. QED
  BY <1>2, <1>6, <1>7 DEF Searches, Indexing, Is

LEMMA UpdateWithElement ==
  ASSUME LoopTypeOK, Searches, NEW S \in SUBSET Elements,
         NEW a, Best(a, S), NEW e \in Elements
  PROVE  Best(Update(a, Candidate(call.x[e], e)), S \cup {e})
<1> DEFINE b == Candidate(call.x[e], e)
<1>1. b.value = call.x[e] /\ b.index = e /\ e \in Int /\ call.x[e] \in Int
  BY CallFacts, OwnerType DEF Candidate, LoopTypeOK
<1>2. CASE Is("max") \/ call.x[e] \in call.matching
  <2>1. Best(b, {e})
    <3> HIDE DEF b
    <3> QED
      BY <1>1, <1>2 DEF Best, Is
  <2> HIDE DEF b
  <2>2. Best(Update(a, b), S \cup {e})
    BY <2>1, UpdateIsBest
  <2>3. QED
    BY <2>2 DEF b
<1>3. CASE ~ Is("max") /\ call.x[e] \notin call.matching
  <2>1. Update(a, b) = a
    <3> HIDE DEF b
    <3> QED
      BY <1>1, <1>3 DEF Update, Earlier, Later, Matches, Is
  <2>2. Best(a, S \cup {e})
    BY <1>3 DEF Best, Is
  <2>3. QED
    BY <2>1, <2>2
<1>4. QED
  BY <1>2, <1>3

LEMMA IndexedInit == LoopStart => Indexed
<1> SUFFICES ASSUME LoopStart, Searches PROVE Indexed
  BY DEF Indexed
<1>1. LoopTypeOK /\ (\A t \in team : Visited(t) = {})
      /\ length \in Nat \ {0} /\ threads \in Nat
      /\ team = 0 .. threads - 1
  BY LoopTypeInit, NoneVisited, CallFacts, TeamFacts
  DEF Is, LoopTypeOK, Searches, Indexing
<1>2. shared = StartingIndex(call.kind)
      /\ \A t \in team : local[t] = StartingIndex(call.kind)
  BY DEF LoopStart, Searches, Is, Indexing
<1>3. Best(StartingIndex(call.kind), {})
  <2>1. 0 \in Elements
    BY <1>1 DEF Elements
  <2>2. QED
    BY <2>1 DEF Best, StartingIndex, Candidate, Is
<1>4. Merged = {}
  <2>1. ASSUME NEW e \in Elements, ChunkOf(e) < at[Owner(e)].chunk PROVE FALSE
    <3>1. Owner(e) \in team /\ ChunkOf(e) \in Nat
      BY <1>1, OwnerType
    <3>2. at[Owner(e)].chunk = Owner(e)
      BY <3>1 DEF LoopStart
    <3>3. Owner(e) \in Nat /\ Owner(e) < threads
      BY <1>1, <3>1
    <3>4. ChunkOf(e) < threads /\ ChunkOf(e) < Owner(e)
      BY <1>1, <2>1, <3>1, <3>2, <3>3
    <3>5. ChunkOf(e) % threads = ChunkOf(e)
      <4>1. threads \in Nat \ {0}
        BY <1>1, <3>1, <3>4
      <4>2. QED
        BY <3>1, <3>4, <4>1
    <3>6. QED
      BY <3>1, <3>3, <3>4, <3>5 DEF Owner
  <2>2. QED
    BY <2>1 DEF Merged
<1>5. QED
  BY <1>1, <1>2, <1>3, <1>4 DEF Indexed

LEMMA IndexedNext ==
  LoopTypeOK /\ InPlace /\ Indexed /\ [LoopNext]_loopVars => Indexed'
<1> SUFFICES ASSUME LoopTypeOK, InPlace, Indexed, [LoopNext]_loopVars,
                    Searches'
             PROVE  Indexed'
  BY DEF Indexed
<1>1. UNCHANGED <<call, team>>
  BY ThreadMoves DEF LoopNext, Join, loopVars
<1>2. Searches /\ ~ Is("ismax") /\ ~ Is("reduce") /\ ~ Is("histogram")
      /\ ~ Is("elementwise") /\ Dealt
  BY <1>1 DEF Is, Indexing, Dealt, Searches
<1>3. Elements' = Elements
      /\ (\A e : Owner(e)' = Owner(e) /\ ChunkOf(e)' = ChunkOf(e))
      /\ \A c, S : Best(c, S)' = Best(c, S)
  <2>1. Elements' = Elements
        /\ (\A e : Owner(e)' = Owner(e) /\ ChunkOf(e)' = ChunkOf(e))
    BY <1>1, DealingStays
  <2>2. \A c, S : Best(c, S)' = Best(c, S)
    BY <1>1, <2>1 DEF Best, Is
  <2>3. QED
    BY <2>1, <2>2
<1>4. ASSUME \A t \in team : Best(local'[t], Visited(t)'),
             Best(shared', Merged')
      PROVE  Indexed'
  BY <1>1, <1>3, <1>4 DEF Indexed, Best, Is
<1>5. (\A t \in team : Best(local[t], Visited(t))) /\ Best(shared, Merged)
      /\ \A t \in team : Visited(t) \in SUBSET Elements
  BY <1>2 DEF Indexed, Visited
<1>6. ASSUME UNCHANGED shared, \A t \in team : at'[t].chunk = at[t].chunk
      PROVE  Best(shared', Merged')
  <2>1. Merged' = Merged
    BY <1>3, <1>6, OwnerType DEF Merged
  <2>2. QED
    BY <1>5, <1>6, <2>1
<1>7. ASSUME NEW t \in team, Compare(t), Visits(t) PROVE Indexed'
  <2> DEFINE h == Here(t)
  <2>1. /\ local' = [local EXCEPT ![t] =
                       Update(local[t], Candidate(call.x[h], h))]
        /\ UNCHANGED shared
    BY <1>7 DEF Compare, Computes, Visits
  <2>2. /\ h \in Elements
        /\ Visited(t)' = Visited(t) \cup {h}
        /\ \A u \in team \ {t} : Visited(u)' = Visited(u)
        /\ \A u \in team : at'[u].chunk = at[u].chunk
    BY <1>2, <1>7, VisitAdds
  <2> HIDE DEF h
  <2>3. local'[t] = Update(local[t], Candidate(call.x[h], h))
        /\ \A u \in team \ {t} : local'[u] = local[u]
    BY <2>1 DEF LoopTypeOK
  <2>4. Best(local'[t], Visited(t)')
    BY <1>2, <1>5, <2>2, <2>3, UpdateWithElement
  <2>5. \A u \in team : Best(local'[u], Visited(u)')
    <3> SUFFICES ASSUME NEW u \in team PROVE Best(local'[u], Visited(u)')
      OBVIOUS
    <3>1. CASE u = t
      BY <2>4, <3>1
    <3>2. CASE u # t
      <4>1. local'[u] = local[u] /\ Visited(u)' = Visited(u)
        BY <2>2, <2>3, <3>2
      <4>2. QED
        BY <1>5, <4>1
    <3>3. QED
      BY <3>1, <3>2
  <2>6. QED
    BY <1>4, <1>6, <2>1, <2>2, <2>5
<1>8. ASSUME NEW t \in team, Turns(t), UNCHANGED local,
             Best(shared', Merged')
      PROVE  Indexed'
  <2>1. \A u \in team : Visited(u)' = Visited(u)
    BY <1>2, <1>8, TurnKeeps
  <2>2. \A u \in team : Best(local'[u], Visited(u)')
    <3> SUFFICES ASSUME NEW u \in team PROVE Best(local'[u], Visited(u)')
      OBVIOUS
    <3>1. local'[u] = local[u] /\ Visited(u)' = Visited(u)
      BY <1>8, <2>1
    <3>2. QED
      BY <1>5, <3>1
  <2>3. QED
    BY <1>4, <1>8, <2>2
<1>9. ASSUME NEW t \in team, NextChunk(t) PROVE Indexed'
  <2> DEFINE c == at[t].chunk
  <2>1. Turns(t) /\ UNCHANGED local /\ shared' = Update(shared, local[t])
    BY <1>2, <1>9 DEF Turns, NextChunk
  <2>2. /\ Visited(t) = {e \in Elements : Owner(e) = t /\ ChunkOf(e) <= c}
        /\ \A u \in team \ {t} : at'[u] = at[u]
    BY <1>2, <2>1, TurnKeeps
  <2>3. at'[t].chunk = c + threads /\ c \in Nat /\ c % threads = t
        /\ threads \in Nat \ {0}
    BY <1>2, <1>9, TeamFacts DEF NextChunk, Goes, LoopTypeOK, InPlace
  <2> HIDE DEF c
  <2>4. Merged' = Merged \cup Visited(t)
    <3>1. ASSUME NEW e \in Elements
          PROVE  ChunkOf(e) < at'[Owner(e)].chunk <=>
                   e \in Merged \/ e \in Visited(t)
      <4>1. Owner(e) \in team /\ ChunkOf(e) \in Nat
            /\ Owner(e) = ChunkOf(e) % threads
        BY OwnerType DEF Owner
      <4>2. CASE Owner(e) # t
        <5>1. at'[Owner(e)] = at[Owner(e)]
          BY <2>2, <4>1, <4>2
        <5>2. QED
          BY <2>2, <4>2, <5>1 DEF Merged
      <4>3. CASE Owner(e) = t
        <5>1. ASSUME ChunkOf(e) < c + threads PROVE ChunkOf(e) <= c
          BY <2>3, <4>1, <4>3, <5>1, SameRemainder, Zenon
        <5>2. e \in Merged => ChunkOf(e) < c
          BY <4>3 DEF Merged, c
        <5>3. e \in Visited(t) <=> ChunkOf(e) <= c
          BY <2>2, <4>3
        <5>4. QED
          BY <2>3, <4>1, <4>3, <5>1, <5>2, <5>3
      <4>4. QED
        BY <4>2, <4>3
    <3>2. Merged' = {e \in Elements : ChunkOf(e) < at'[Owner(e)].chunk}
      BY <1>3 DEF Merged
    <3>3. Merged \subseteq Elements /\ Visited(t) \subseteq Elements
      BY <1>5 DEF Merged
    <3>4. QED
      BY <3>1, <3>2, <3>3
  <2>5. Merged \in SUBSET Elements
    BY DEF Merged
  <2>6. Best(shared', Merged')
    BY <1>2, <1>5, <2>1, <2>4, <2>5, UpdateIsBest
  <2>7. QED
    BY <1>8, <2>1, <2>6
<1>10. ASSUME NEW t \in team, Leave(t) PROVE Indexed'
  <2>1. Turns(t) /\ UNCHANGED <<local, shared>>
    BY <1>10 DEF Turns, Leave
  <2>2. \A u \in team : at'[u].chunk = at[u].chunk
    BY <1>10 DEF Leave, Goes, LoopTypeOK
  <2>3. QED
    BY <1>6, <1>8, <2>1, <2>2
<1>11. ASSUME NEW t \in team, LoopStep(t) PROVE Indexed'
  <2>1. ~ Accumulate(t) /\ ~ Count(t) /\ ~ Apply(t) /\ ~ MergeBins(t)
    BY <1>2 DEF Accumulate, Count, Apply, MergeBins
  <2>2. QED
    BY <1>2, <1>7, <1>9, <1>10, <1>11, <2>1, ThreadSteps DEF Turns
<1>12. CASE Join \/ UNCHANGED loopVars
  <2>1. UNCHANGED <<call, team, at, local, shared>>
    BY <1>12 DEF Join, loopVars
  <2>2. \A t \in team : Visited(t)' = Visited(t)
    BY <2>1, NothingMoves
  <2>3. \A u \in team : Best(local'[u], Visited(u)')
    <3> SUFFICES ASSUME NEW u \in team PROVE Best(local'[u], Visited(u)')
      OBVIOUS
    <3>1. local'[u] = local[u] /\ Visited(u)' = Visited(u)
      BY <2>1, <2>2
    <3>2. QED
      BY <1>5, <3>1
  <2>4. QED
    BY <1>4, <1>6, <2>1, <2>3
<1>13. QED
  BY <1>11, <1>12 DEF LoopNext

-----------------------------------------------------------------------------
(* IsMax.                                                                  *)

\* Element m is the first maximum.
Peak(m) ==
  /\ \A e \in Elements : call.x[e] <= call.x[m]
  /\ \A e \in 0 .. m - 1 : call.x[e] < call.x[m]

Storing == {"store", "storeValue", "storeIndex"}

\* What thread t knows of it.  One that starts from the maximum somebody else
\* has stored may have read another index with it: then it finds nothing
\* greater, and has nothing to store.
Seeks(t, m) ==
  LET top == call.x[m]
      step == at[t].step
  IN  /\ step \in {"load", "loadValue", "loadIndex"} => at[t].e = 0
      /\ step \in {"loadIndex", "loop"} => local[t].value <= top
      /\ step = "loadIndex" /\ local[t].value = top => shared.value = top
      /\ step = "loop" /\ local[t].value = top =>
           shared.value = top \/ local[t].index = m
      /\ step = "loop" /\ m < at[t].e => local[t].value = top
      /\ step \in Storing => local[t].value = top /\ local[t].index = m
      /\ step = "storeIndex" => shared.value = top
      /\ step = "storeValue" => shared.index = m
      /\ step = "done" => shared.value = top

Seeking(m) ==
  /\ local \in [team -> [value : Int, index : Int]]
  /\ shared \in [value : Int, index : Int]
  /\ lock \in team \cup {-1}
  /\ \A t \in team : at[t].step \in Storing <=> lock = t
  /\ \A t \in team : Seeks(t, m)
  /\ shared.value <= call.x[m]
  /\ lock = -1 /\ shared.value = call.x[m] => shared.index = m
  /\ output = [e \in Elements |-> IF joined # 0 /\ e = m THEN 1 ELSE 0]
  /\ joined \in {0, threads}

Marked == Is("ismax") => \E m \in Elements : Peak(m) /\ Seeking(m)

LEMMA MarkedInit == LoopStart => Marked
<1> SUFFICES ASSUME LoopStart, Is("ismax") PROVE Marked
  BY DEF Marked
<1>1. /\ LoopTypeOK /\ length \in Nat \ {0} /\ call.x \in [Elements -> Int]
      /\ (\A e \in Elements : call.x[e] >= Lowest)
      /\ threads \in Nat \ {0} /\ team = 0 .. threads - 1
      /\ Lowest \in Int
  BY LoopAssumption, LoopTypeInit, CallFacts, TeamFacts DEF LoopTypeOK
<1>2. PICK m \in Elements : Peak(m)
  <2>1. call.x \in [0 .. length - 1 -> Int]
    BY <1>1 DEF Elements
  <2>2. QED
    BY <1>1, <2>1, FirstMaximum DEF Elements, Peak
<1>3. 0 \in Elements /\ -1 \notin team
  BY <1>1 DEF Elements
<1>4. /\ \A t \in team : at[t].step = "load" /\ at[t].e = 0
      /\ local = [t \in team |-> [value |-> Lowest, index |-> -1]]
      /\ shared = [value |-> call.x[0], index |-> 0]
      /\ lock = -1 /\ joined = 0
      /\ output = [e \in Elements |-> 0]
  BY <1>1 DEF LoopStart, First, Candidate, None, Is, Indexing
<1>5. call.x[0] = call.x[m] => m = 0
  <2> SUFFICES ASSUME m # 0, call.x[0] = call.x[m] PROVE FALSE
    OBVIOUS
  <2>1. 0 \in 0 .. m - 1
    BY <1>1 DEF Elements
  <2>2. call.x[0] < call.x[m] /\ call.x[0] \in Int
    BY <1>1, <1>2, <1>3, <2>1 DEF Peak
  <2>3. QED
    BY <2>2
<1>6. Seeking(m)
  <2>1. \A t \in team : Seeks(t, m)
    BY <1>4 DEF Seeks, Storing
  <2>2. shared.value <= call.x[m] /\ shared \in [value : Int, index : Int]
    BY <1>1, <1>2, <1>3, <1>4 DEF Peak
  <2>3. QED
    BY <1>1, <1>3, <1>4, <1>5, <2>1, <2>2 DEF Seeking, Storing
<1>7. QED
  BY <1>2, <1>6 DEF Marked

\* The other threads still know what they did.
LEMMA OthersSeek ==
  ASSUME NEW m, NEW t, Seeks(t, m), UNCHANGED call,
         at'[t] = at[t], local'[t] = local[t],
         shared.value = call.x[m] => shared'.value = call.x[m],
         at[t].step = "storeValue" => shared'.index = shared.index
  PROVE  Seeks(t, m)'
BY DEF Seeks

LEMMA SeekingNext ==
  ASSUME LoopTypeOK, Is("ismax"), NEW m \in Elements, Peak(m), Seeking(m),
         NEW t \in team, LoopStep(t)
  PROVE  Seeking(m)'
<1> DEFINE top == call.x[m]
<1>1. /\ UNCHANGED <<call, team, joined>> /\ ~ IsAt(t, "done")
      /\ at' = [at EXCEPT ![t] = at'[t]]
      /\ at'[t] \in [step : Steps, chunk : Nat, e : Nat]
      /\ local' = [u \in team |-> IF u = t THEN local'[t] ELSE local[u]]
  BY ThreadMoves
<1>2. \A u \in team \ {t} : at'[u] = at[u] /\ local'[u] = local[u]
  BY <1>1 DEF LoopTypeOK
<1>3. /\ m \in Nat /\ m < length /\ length \in Nat
      /\ (\A e \in Elements : call.x[e] \in Int) /\ top \in Int
  BY CallFacts, OwnerType DEF LoopTypeOK, Elements
<1>4. /\ local[t] \in [value : Int, index : Int]
      /\ shared \in [value : Int, index : Int]
      /\ Seeks(t, m) /\ (at[t].step \in Storing <=> lock = t)
      /\ at[t] \in [step : Steps, chunk : Nat, e : Nat]
      /\ joined = 0
  BY <1>1 DEF Seeking, LoopTypeOK, Done
<1>5. Elements' = Elements /\ threads' = threads /\ -1 \notin team
  BY <1>1, DealingStays, TeamFacts DEF LoopTypeOK
<1>6. \A c : First(c) = 0 /\ End(c) = length
  BY DEF First, End, Is
<1>7. ASSUME shared' \in [value : Int, index : Int],
             local'[t] \in [value : Int, index : Int],
             lock' \in team \cup {-1},
             at'[t].step \in Storing <=> lock' = t,
             \A u \in team \ {t} : lock' = u <=> lock = u,
             Seeks(t, m)',
             shared.value = top => shared'.value = top,
             \A u \in team \ {t} :
               at[u].step = "storeValue" => shared'.index = shared.index,
             shared'.value <= top,
             lock' = -1 /\ shared'.value = top => shared'.index = m,
             output' = [e \in Elements |-> 0]
      PROVE  Seeking(m)'
  <2>1. \A u \in team : Seeks(u, m)'
    <3> SUFFICES ASSUME NEW u \in team, u # t PROVE Seeks(u, m)'
      BY <1>7
    <3>1. Seeks(u, m)
      BY DEF Seeking
    <3>2. QED
      BY <1>1, <1>2, <1>7, <3>1, OthersSeek
  <2>2. \A u \in team : at'[u].step \in Storing <=> lock' = u
    BY <1>2, <1>7 DEF Seeking
  <2>3. local' \in [team -> [value : Int, index : Int]]
    BY <1>1, <1>7 DEF Seeking
  <2>4. QED
    BY <1>1, <1>4, <1>5, <1>7, <2>1, <2>2, <2>3 DEF Seeking
<1>8. output = [e \in Elements |-> 0] /\ shared.value <= top
      /\ lock \in team \cup {-1}
      /\ (lock = -1 /\ shared.value = top => shared.index = m)
  BY <1>4 DEF Seeking
<1>9. First(at[t].chunk) = 0
      /\ at \in [team -> [step : Steps, chunk : Nat, e : Nat]]
  BY <1>6 DEF LoopTypeOK
<1>10. CASE Load(t)
  <2> DEFINE step == at[t].step
             next == at'[t].step
             new == local'[t]
  <2>1. UNCHANGED <<shared, lock, output>>
        /\ step \in {"load", "loadValue", "loadIndex"}
    BY <1>10 DEF Load, IsAt
  <2>2. \/ /\ step # "loadIndex"
           /\ new = [local[t] EXCEPT !.value = shared.value]
           /\ next = IF step = "load" THEN "loadIndex" ELSE "loop"
        \/ /\ step # "loadValue"
           /\ new = [local[t] EXCEPT !.index = shared.index]
           /\ next = IF step = "load" THEN "loadValue" ELSE "loop"
    <3>1. local \in [team -> [value : Int, index : Int]]
      BY DEF Seeking
    <3>2. ASSUME step # "loadIndex",
                 local' = [local EXCEPT ![t].value = shared.value],
                 Goes(t, IF step = "load" THEN "loadIndex" ELSE "loop",
                      at[t].chunk)
          PROVE  /\ new = [local[t] EXCEPT !.value = shared.value]
                 /\ next = IF step = "load" THEN "loadIndex" ELSE "loop"
      BY <1>9, <3>1, <3>2 DEF Goes
    <3>3. ASSUME step # "loadValue",
                 local' = [local EXCEPT ![t].index = shared.index],
                 Goes(t, IF step = "load" THEN "loadValue" ELSE "loop",
                      at[t].chunk)
          PROVE  /\ new = [local[t] EXCEPT !.index = shared.index]
                 /\ next = IF step = "load" THEN "loadValue" ELSE "loop"
      BY <1>9, <3>1, <3>3 DEF Goes
    <3> HIDE DEF new, next
    <3>4. QED
      BY <1>10, <3>2, <3>3 DEF Load, IsAt
  <2>3. at'[t].e = 0
    <3>1. ASSUME NEW to, Goes(t, to, at[t].chunk) PROVE at'[t].e = 0
      BY <1>9, <3>1 DEF Goes
    <3>2. QED
      BY <1>10, <3>1 DEF Load
  <2>4. new \in [value : Int, index : Int]
    BY <1>4, <2>2
  <2>5. step \notin Storing /\ next \notin Storing /\ next # "done"
    BY <2>1, <2>2 DEF Storing
  <2>6. next \in {"loadIndex", "loop"} => new.value <= top
    BY <1>4, <1>8, <2>1, <2>2 DEF Seeks
  <2>7. next = "loadIndex" /\ new.value = top => shared.value = top
    BY <1>4, <2>1, <2>2
  <2>8. next = "loop" /\ new.value = top => shared.value = top
    BY <1>4, <2>1, <2>2 DEF Seeks
  <2>9. Seeks(t, m)'
    <3> HIDE DEF new, next, step
    <3>1. ~ (m < at'[t].e)
      BY <1>3, <2>3
    <3>2. QED
      BY <1>1, <2>1, <2>3, <2>5, <2>6, <2>7, <2>8, <3>1
      DEF Seeks, Storing, new, next
  <2>10. QED
    BY <1>4, <1>7, <1>8, <2>1, <2>4, <2>5, <2>9
<1>11. CASE Scan(t)
  <2> DEFINE h == Here(t)
             new == local'[t]
  <2>1. /\ at[t].step = "loop" /\ h \in Nat /\ h < length
        /\ at' = [at EXCEPT ![t].e = @ + 1]
        /\ UNCHANGED <<shared, lock>>
    BY <1>4, <1>6, <1>11 DEF Scan, Visits, HasChunk, IsAt, Here
  <2>2. h \in Elements
    BY <1>3, <2>1 DEF Elements
  <2>3. output' = [e \in Elements |-> 0]
    <3>1. output' = [output EXCEPT ![h] = 0]
      BY <1>11 DEF Scan
    <3>2. QED
      BY <1>8, <2>2, <3>1
  <2>4. new = IF local[t].value < call.x[h] THEN Candidate(call.x[h], h)
              ELSE local[t]
    BY <1>11 DEF Scan, LoopTypeOK
  <2>5. at'[t].step = "loop" /\ at'[t].e = h + 1
    BY <2>1 DEF LoopTypeOK, Here
  <2>6. /\ call.x[h] <= top /\ call.x[h] \in Int /\ h \in Int
        /\ h < m => call.x[h] < top
    <3>1. h < m => h \in 0 .. m - 1
      BY <1>3, <2>1
    <3>2. QED
      BY <1>3, <2>1, <2>2, <3>1 DEF Peak
  <2>7. /\ local[t].value \in Int /\ local[t].value <= top
        /\ local[t].value = top => shared.value = top \/ local[t].index = m
        /\ m < h => local[t].value = top
    BY <1>4, <2>1 DEF Seeks, Here
  <2>8. /\ new \in [value : Int, index : Int]
        /\ new.value <= top
        /\ new.value = top => shared.value = top \/ new.index = m
        /\ m < h + 1 => new.value = top
    <3> HIDE DEF h, new, top
    <3>1. CASE local[t].value < call.x[h]
      <4>1. new.value = call.x[h] /\ new.index = h
            /\ new = [value |-> call.x[h], index |-> h]
        BY <2>4, <3>1 DEF Candidate
      <4>2. ~ (m < h)
        BY <1>3, <2>6, <2>7, <3>1
      <4>3. m < h + 1 => m = h
        BY <1>3, <2>6, <4>2
      <4>4. call.x[h] = top => h = m
        BY <1>3, <2>6, <4>2
      <4>5. m = h => call.x[h] = top
        BY DEF top
      <4>6. QED
        BY <2>6, <4>1, <4>3, <4>4, <4>5
    <3>2. CASE ~ (local[t].value < call.x[h])
      <4>1. new = local[t]
        BY <2>4, <3>2
      <4>2. m < h + 1 => local[t].value = top
        <5>1. m = h => local[t].value = top
          BY <1>3, <2>6, <2>7, <3>2 DEF top
        <5>2. QED
          BY <1>3, <2>6, <2>7, <5>1
      <4>3. QED
        BY <1>4, <2>7, <4>1, <4>2
    <3>3. QED
      BY <3>1, <3>2
  <2>9. Seeks(t, m)'
    <3> HIDE DEF h, new
    <3> QED
      BY <1>1, <2>1, <2>5, <2>8 DEF Seeks, Storing, new
  <2>10. at[t].step \notin Storing /\ at'[t].step \notin Storing
    BY <2>1, <2>5 DEF Storing
  <2> HIDE DEF h
  <2>11. QED
    BY <1>4, <1>7, <1>8, <2>1, <2>3, <2>8, <2>9, <2>10
<1>12. CASE Test(t)
  <2>1. /\ at[t].step = "loop" /\ at[t].e >= length /\ lock = -1
        /\ UNCHANGED <<local, shared, output>>
    BY <1>6, <1>12 DEF Test, AtEnd, HasChunk, IsAt, Here
  <2>2. local[t].value = top /\ (shared.value = top \/ local[t].index = m)
    <3>1. m < at[t].e
      BY <1>3, <1>4, <2>1
    <3>2. QED
      BY <1>4, <2>1, <3>1 DEF Seeks
  <2>3. \/ /\ shared.value < top /\ lock' = t /\ at'[t].step = "store"
        \/ /\ shared.value >= top /\ lock' = lock /\ at'[t].step = "done"
    <3>1. ASSUME NEW to, Goes(t, to, at[t].chunk) PROVE at'[t].step = to
      BY <1>9, <3>1 DEF Goes
    <3>2. QED
      BY <1>12, <2>2, <3>1 DEF Test
  <2>4. CASE shared.value < top
    <3>1. lock' = t /\ at'[t].step = "store" /\ local[t].index = m
      BY <1>3, <1>4, <2>2, <2>3, <2>4
    <3>2. Seeks(t, m)'
      BY <1>1, <2>1, <2>2, <3>1 DEF Seeks, Storing
    <3>3. at'[t].step \in Storing /\ lock' # -1
      BY <1>5, <3>1 DEF Storing
    <3>4. \A u \in team \ {t} : lock' = u <=> lock = u
      BY <1>5, <2>1, <3>1
    <3>5. QED
      BY <1>4, <1>7, <1>8, <2>1, <3>1, <3>2, <3>3, <3>4
  <2>5. CASE shared.value >= top
    <3>1. shared.value = top /\ lock' = -1 /\ at'[t].step = "done"
      BY <1>3, <1>4, <1>8, <2>1, <2>3, <2>5
    <3>2. Seeks(t, m)'
      BY <1>1, <2>1, <3>1 DEF Seeks, Storing
    <3>3. at'[t].step \notin Storing /\ at[t].step \notin Storing
      BY <2>1, <3>1 DEF Storing
    <3>4. QED
      BY <1>4, <1>5, <1>7, <1>8, <2>1, <3>1, <3>2, <3>3
  <2>6. QED
    BY <1>3, <1>4, <2>4, <2>5
<1>13. CASE Store(t)
  <2>1. /\ at[t].step \in Storing /\ lock = t
        /\ UNCHANGED <<local, output>>
        /\ lock' = IF at[t].step = "store" THEN lock ELSE -1
    BY <1>4, <1>13 DEF Store, IsAt, Storing
  <2>2. local[t].value = top /\ local[t].index = m
    BY <1>4, <2>1 DEF Seeks
  <2>3. \/ /\ at[t].step \in {"store", "storeValue"}
           /\ shared' = [shared EXCEPT !.value = top]
           /\ at'[t].step =
                IF at[t].step = "store" THEN "storeIndex" ELSE "done"
        \/ /\ at[t].step \in {"store", "storeIndex"}
           /\ shared' = [shared EXCEPT !.index = m]
           /\ at'[t].step =
                IF at[t].step = "store" THEN "storeValue" ELSE "done"
    <3>1. ASSUME NEW to, Goes(t, to, at[t].chunk) PROVE at'[t].step = to
      BY <1>9, <3>1 DEF Goes
    <3>2. QED
      BY <1>13, <2>2, <3>1 DEF Store, IsAt
  <2>4. /\ at[t].step = "storeIndex" => shared.value = top
        /\ at[t].step = "storeValue" => shared.index = m
    BY <1>4 DEF Seeks
  <2>5. /\ shared' \in [value : Int, index : Int]
        /\ shared.value = top => shared'.value = top
        /\ shared'.value <= top
        /\ at'[t].step \in {"storeIndex", "done"} => shared'.value = top
        /\ at'[t].step \in {"storeValue", "done"} => shared'.index = m
        /\ at'[t].step \in {"storeIndex", "storeValue", "done"}
        /\ at'[t].step \in Storing <=> lock' = t
        /\ lock' = -1 <=> at'[t].step = "done"
    <3>1. CASE at[t].step = "store"
      BY <1>3, <1>4, <1>5, <1>8, <2>1, <2>3, <3>1 DEF Storing
    <3>2. CASE at[t].step = "storeValue"
      BY <1>3, <1>4, <1>5, <1>8, <2>1, <2>3, <2>4, <3>2 DEF Storing
    <3>3. CASE at[t].step = "storeIndex"
      BY <1>3, <1>4, <1>5, <1>8, <2>1, <2>3, <2>4, <3>3 DEF Storing
    <3>4. QED
      BY <2>1, <3>1, <3>2, <3>3 DEF Storing
  <2>6. Seeks(t, m)'
    BY <1>1, <2>1, <2>2, <2>5 DEF Seeks, Storing
  <2>7. \A u \in team \ {t} : lock' = u <=> lock = u
    BY <1>5, <2>1
  <2>8. \A u \in team \ {t} : at[u].step # "storeValue"
    BY <2>1 DEF Seeking, Storing
  <2>9. lock' \in team \cup {-1} /\ local'[t] = local[t]
    BY <2>1
  <2>10. QED
    BY <1>4, <1>7, <1>8, <2>1, <2>5, <2>6, <2>7, <2>8, <2>9
<1>14. QED
  <2>1. ~ Accumulate(t) /\ ~ Compare(t) /\ ~ Count(t) /\ ~ Apply(t)
        /\ ~ NextChunk(t) /\ ~ MergeBins(t) /\ ~ Leave(t)
    BY DEF Accumulate, Compare, Count, Apply, NextChunk, MergeBins, Leave,
           HasChunk, Is, Dealt, Indexing
  <2>2. QED
    BY <1>10, <1>11, <1>12, <1>13, <2>1 DEF LoopStep

LEMMA MarkedNext ==
  LoopTypeOK /\ Marked /\ [LoopNext]_loopVars => Marked'
<1> SUFFICES ASSUME LoopTypeOK, Marked, [LoopNext]_loopVars, Is("ismax")'
             PROVE  Marked'
  BY DEF Marked
<1>1. UNCHANGED <<call, team>> /\ Is("ismax")
  BY ThreadMoves DEF LoopNext, Join, loopVars, Is
<1>2. PICK m \in Elements : Peak(m) /\ Seeking(m)
  BY <1>1 DEF Marked
<1>3. Elements' = Elements /\ threads' = threads
  BY <1>1, DealingStays
<1>4. Peak(m)'
  BY <1>1, <1>2, <1>3 DEF Peak
<1>5. ASSUME NEW t \in team, LoopStep(t) PROVE Seeking(m)'
  BY <1>1, <1>2, <1>5, SeekingNext
<1>6. ASSUME Join PROVE Seeking(m)'
  <2>1. /\ Done /\ joined < threads /\ joined' = threads
        /\ output' = [output EXCEPT ![shared.index] = 1]
        /\ UNCHANGED <<at, local, shared, lock>>
    BY <1>1, <1>6 DEF Join, Done, Is
  <2>2. threads \in Nat \ {0} /\ team = 0 .. threads - 1
    BY TeamFacts DEF LoopTypeOK
  <2>3. joined = 0
    BY <1>2, <2>1, <2>2 DEF Seeking
  <2>4. shared.index = m
    <3>1. 0 \in team
      BY <2>2
    <3>2. shared.value = call.x[m]
      BY <1>2, <2>1, <3>1 DEF Seeking, Seeks, Done, IsAt
    <3>3. \A t \in team : lock # t
      BY <1>2, <2>1 DEF Seeking, Done, IsAt, Storing
    <3>4. QED
      BY <1>2, <3>2, <3>3 DEF Seeking
  <2>5. output' = [e \in Elements |-> IF e = m THEN 1 ELSE 0]
    <3>1. output = [e \in Elements |-> 0]
      BY <1>2, <2>3 DEF Seeking
    <3>2. QED
      BY <1>2, <2>1, <2>4, <3>1
  <2>6. joined' # 0
    BY <2>1, <2>2
  <2>7. \A t \in team : Seeks(t, m)'
    <3> SUFFICES ASSUME NEW t \in team PROVE Seeks(t, m)'
      OBVIOUS
    <3>1. Seeks(t, m)
      BY <1>2 DEF Seeking
    <3>2. QED
      BY <1>1, <2>1, <3>1, OthersSeek
  <2>8. QED
    BY <1>1, <1>2, <1>3, <2>1, <2>5, <2>6, <2>7 DEF Seeking
<1>7. ASSUME UNCHANGED loopVars PROVE Seeking(m)'
  BY <1>2, <1>3, <1>7 DEF Seeking, Seeks, loopVars
<1>8. Seeking(m)'
  BY <1>5, <1>6, <1>7 DEF LoopNext
<1>9. QED
  BY <1>2, <1>3, <1>4, <1>8 DEF Marked

-----------------------------------------------------------------------------
(* The theorems about ParallelLoops.                                       *)

LoopInv == /\ LoopTypeOK /\ InPlace
           /\ Reduced /\ Written /\ Binned /\ Indexed /\ Marked

LEMMA LoopInvariance == LoopSpec => []LoopInv
<1>1. LoopStart => LoopInv
  <2>1. LoopStart => InPlace
    BY NoneVisited DEF InPlace
  <2>2. QED
    BY <2>1, LoopTypeInit, ReducedInit, WrittenInit, BinnedInit, IndexedInit,
       MarkedInit
    DEF LoopInv
<1>2. LoopInv /\ [LoopNext]_loopVars => LoopInv'
  BY LoopTypeNext, InPlaceNext, ReducedNext, WrittenNext, BinnedNext,
     IndexedNext, MarkedNext
  DEF LoopInv
<1>3. QED
  BY <1>1, <1>2, PTL DEF LoopSpec

\* When the call returns all threads are done, and have visited everything.
LEMMA AllDone ==
  ASSUME LoopTypeOK, Returned
  PROVE  Done /\ joined = threads /\ threads \in Nat \ {0}
         /\ team = 0 .. threads - 1
BY TeamFacts DEF LoopTypeOK, Returned

\* However many elements there are and however many threads share them, a
\* reduction takes every element exactly once, an elementwise operation writes
\* every result exactly once, and a histogram counts every element in one bin.
THEOREM EveryElementIsTakenOnce == LoopSpec => []EveryElementOnce
<1>1. LoopInv => EveryElementOnce
  <2> SUFFICES ASSUME LoopInv, Returned PROVE EveryElementOnce
    BY DEF EveryElementOnce
  <2> USE DEF LoopInv
  <2>1. Done /\ joined = threads /\ threads \in Nat \ {0}
        /\ team = 0 .. threads - 1
    BY AllDone
  <2>2. ASSUME NEW e \in Elements
        PROVE  Owner(e) \in team /\ Owner(e) < joined
    BY <2>1, OwnerType
  <2>3. Is("reduce") => \A e \in Elements : output[e] = 1
    BY <2>2 DEF Reduced
  <2>4. Is("elementwise") => \A e \in Elements : output[e] = 1
    <3> SUFFICES ASSUME Is("elementwise"), NEW e \in Elements
                 PROVE  output[e] = 1
      OBVIOUS
    <3>1. e \in Visited(Owner(e))
      <4>1. ~ Is("ismax") /\ IsAt(Owner(e), "done") /\ Owner(e) \in team
        BY <2>1, <2>2 DEF Is, Done
      <4>2. Visited(Owner(e)) = {d \in Elements : Owner(d) = Owner(e)}
        BY <4>1, AllVisited
      <4>3. QED
        BY <4>2
    <3>2. QED
      BY <3>1 DEF Written
  <2>5. Is("histogram") =>
          \A b \in 0 .. Bins - 1 :
            output[b] = Cardinality({e \in Elements : Bin(call.x[e]) = b})
    <3>1. Finished = Elements
      BY <2>1, <2>2 DEF Finished, Done
    <3>2. QED
      BY <3>1 DEF Binned, InBin
  <2>6. QED
    BY <2>3, <2>4, <2>5 DEF EveryElementOnce, Is
<1>2. QED
  BY <1>1, LoopInvariance, PTL

\* In whatever order the threads update the common result, an index reduction
\* ends at a maximum, or at the first or last element that matches.
THEOREM SearchesFindTheIndex == LoopSpec => []IndexIsRight
<1>1. LoopInv => IndexIsRight
  <2> SUFFICES ASSUME LoopInv, Returned, call.kind \in Indexing,
                      Lowest \notin call.matching
               PROVE  IndexIsRight
    BY DEF IndexIsRight
  <2> USE DEF LoopInv
  <2>1. Done /\ team = 0 .. threads - 1 /\ threads \in Nat \ {0}
    BY AllDone
  <2>2. Merged = Elements
    <3>1. ASSUME NEW e \in Elements PROVE ChunkOf(e) < at[Owner(e)].chunk
      <4>1. ChunkOf(e) \in Nat /\ Owner(e) \in team /\ ChunkOf(e) < chunks
            /\ Dealt
        BY OwnerType DEF Dealt
      <4>2. chunks <= at[Owner(e)].chunk /\ at[Owner(e)].chunk \in Nat
        BY <2>1, <4>1 DEF InPlace, Done, Is, Indexing, LoopTypeOK
      <4>3. QED
        BY <4>1, <4>2, WidthFacts
    <3>2. QED
      BY <3>1 DEF Merged
  <2>3. Best(shared, Elements)
    BY <2>2 DEF Indexed, Searches
  <2>4. Lowest \in Int /\ \A e \in Elements : e \in Int
                                         /\ call.x[e] \in Int
                                         /\ call.x[e] >= Lowest
    BY LoopAssumption, CallFacts, OwnerType DEF LoopTypeOK
  <2>5. CASE Is("max")
    <3>1. shared.index \in Elements
          /\ \A e \in Elements : call.x[e] <= call.x[shared.index]
      BY <2>3, <2>4, <2>5 DEF Best
    <3>2. QED
      BY <2>5, <3>1 DEF IndexIsRight, Is
  <2>6. CASE Is("first")
    BY <2>3, <2>4, <2>6 DEF IndexIsRight, Best, Is, Candidate
  <2>7. CASE Is("last")
    BY <2>3, <2>4, <2>7 DEF IndexIsRight, Best, Is, Candidate
  <2>8. QED
    BY <2>5, <2>6, <2>7 DEF Indexing, Is
<1>2. QED
  BY <1>1, LoopInvariance, PTL

\* However the unlocked reads of the best so far fall between the writes, and
\* however many threads scan the array, exactly the first maximum is marked.
THEOREM FirstMaximumIsMarked == LoopSpec => []FirstMaximumMarked
<1>1. LoopInv => FirstMaximumMarked
  <2> SUFFICES ASSUME LoopInv, Returned, Is("ismax")
               PROVE  FirstMaximumMarked
    BY DEF FirstMaximumMarked
  <2>1. joined # 0
    BY AllDone DEF LoopInv
  <2>2. PICK m \in Elements : Peak(m) /\ Seeking(m)
    BY DEF LoopInv, Marked
  <2>3. output = [e \in Elements |-> IF e = m THEN 1 ELSE 0]
    BY <2>1, <2>2 DEF Seeking
  <2>4. QED
    BY <2>2, <2>3 DEF FirstMaximumMarked, Peak
<1>2. QED
  BY <1>1, LoopInvariance, PTL

-----------------------------------------------------------------------------
(* RandomBuffer: chunks.                                                   *)

USE RandomAssumption

\* The operations whose results are shared out in chunks.
Chunked(o) == o \in Ops /\ o.op \in {"gaussian", "binomial", "truncated"}

LEMMA RoundsType ==
  ASSUME NEW o \in Ops PROVE Rounds(o) \in Nat /\ 2 * Rounds(o) <= o.n + o.n + 1
<1>1. o.n \in Nat
  BY DEF Ops
<1>2. o.n \div 2 \in Nat /\ o.n \div 2 <= o.n
  BY <1>1, Division
<1>3. QED
  BY <1>1, <1>2 DEF Rounds

\* A chunk is longer than an equal share of the rounds, by as much as the
\* division may leave over.
LEMMA SpanIsEnough ==
  ASSUME NEW o, Chunked(o)
  PROVE  /\ Span(o) \in Nat \ {0}
         /\ Rounds(o) < o.threads * Span(o)
<1> DEFINE R == Rounds(o)
           k == o.threads
           d == R \div k
<1>1. R \in Nat /\ k \in Nat \ {0}
  BY RoundsType DEF Chunked, Ops
<1>2. d \in Nat /\ R < k * (d + 1)
  <2> HIDE DEF R, k
  <2>1. d \in Nat /\ R = k * d + (R % k) /\ R % k < k
    BY <1>1, Division
  <2>2. QED
    BY <1>1, <2>1
<1>3. Span(o) \in Nat /\ d + 1 <= Span(o)
  <2>1. Span(o) = IF o.op = "binomial" THEN d + 8
                                       ELSE d + 8 - ((d + 8) % 2)
    BY <1>1, <1>2 DEF Span
  <2> HIDE DEF d
  <2>2. (d + 8) % 2 \in 0 .. 1
    BY <1>2
  <2>3. QED
    BY <1>2, <2>1, <2>2
<1> HIDE DEF R, k, d
<1>4. k * (d + 1) <= k * Span(o)
  <2>1. PICK x \in Nat : Span(o) = d + 1 + x
    BY <1>2, <1>3, Span(o) - (d + 1) \in Nat
  <2>2. k * Span(o) = k * (d + 1) + k * x /\ k * x \in Nat
    BY <1>1, <1>2, <2>1
  <2>3. QED
    BY <1>1, <1>2, <2>2
<1>5. QED
  BY <1>1, <1>2, <1>3, <1>4 DEF R, k

\* Every round lies in one chunk, that of thread e \div Span(o).
LEMMA OneWriter ==
  ASSUME NEW o, Chunked(o), NEW e \in 0 .. Rounds(o) - 1
  PROVE  /\ Writers(o, e) = {e \div Span(o)}
         /\ e \div Span(o) \in Nat
         /\ Span(o) * (e \div Span(o)) <= e
<1> DEFINE s == Span(o)
           t == e \div s
<1>1. s \in Nat \ {0} /\ o.threads \in Nat /\ e \in Nat
      /\ e < o.threads * s
  BY SpanIsEnough, RoundsType DEF Chunked, Ops
<1>2. t \in Nat /\ s * t <= e /\ e < s * (t + 1)
  <2> HIDE DEF s
  <2>1. t \in Nat /\ e = s * t + (e % s) /\ e % s \in 0 .. s - 1
    BY <1>1, Division
  <2> HIDE DEF t
  <2>2. s * (t + 1) = s * t + s /\ s * t \in Nat
    BY <1>1, <2>1
  <2>3. QED
    BY <1>1, <2>1, <2>2
<1>3. t < o.threads
  <2>1. s * t < s * o.threads
    <3> HIDE DEF s, t
    <3> QED
      BY <1>1, <1>2
  <2> HIDE DEF s, t
  <2>2. QED
    BY <1>1, <1>2, <2>1, SmallerProduct
<1>4. ASSUME NEW u \in 0 .. o.threads - 1
      PROVE  e \in Chunk(o, u) <=> u = t
  <2>1. e \in Chunk(o, u) <=> s * u <= e /\ e < s * (u + 1)
    BY DEF Chunk
  <2> HIDE DEF s
  <2>2. ASSUME s * u <= e, e < s * (u + 1) PROVE u = t
    <3>1. u \in Nat
      BY <1>1
    <3>2. QED
      BY <1>1, <2>2, <3>1, Quotient
  <2>3. QED
    BY <1>2, <2>1, <2>2
<1>5. QED
  BY <1>1, <1>2, <1>3, <1>4 DEF Writers

\* Chunks of pairs begin with an even result, so that none is cut in two.
LEMMA PairIsAligned ==
  ASSUME NEW o \in Ops, o.op = "gaussian", NEW e \in 0 .. o.n - 1
  PROVE  PairOf(o, e) = 2 * (e \div 2)
<1>1. Chunked(o) /\ Rounds(o) = o.n
  BY DEF Chunked, Rounds
<1>2. e \in Nat /\ e = 2 * (e \div 2) + (e % 2) /\ e % 2 \in 0 .. 1
      /\ e \div 2 \in Nat
  BY Division DEF Ops
<1> DEFINE t == e \div Span(o)
<1>3. (CHOOSE w \in Writers(o, e) : TRUE) = t
      /\ t \in Nat /\ Span(o) * t <= e
  BY <1>1, OneWriter
<1>4. PICK m \in Nat : Span(o) = 2 * m
  <2> DEFINE w == Rounds(o) \div o.threads + 8
  <2>1. w \in Nat
    <3>1. Rounds(o) \in Nat /\ o.threads \in Nat \ {0}
      BY RoundsType DEF Ops
    <3>2. Rounds(o) \div o.threads \in Nat
      BY <3>1, Division
    <3>3. QED
      BY <3>2
  <2>2. Span(o) = w - (w % 2)
    BY DEF Span
  <2> HIDE DEF w
  <2>3. Span(o) = 2 * (w \div 2) /\ w \div 2 \in Nat
    BY <2>1, <2>2, Division
  <2>4. QED
    BY <2>3
<1> HIDE DEF t
<1>5. PICK start \in Nat : start = m * t /\ Span(o) * t = 2 * start
  BY <1>3, <1>4
<1>6. (e - 2 * start) % 2 = e % 2
  <2>1. e \div 2 - start \in Nat
    BY <1>2, <1>3, <1>5
  <2>2. e - 2 * start \in Nat /\ 2 * (e \div 2 - start) <= e - 2 * start
        /\ e - 2 * start < 2 * (e \div 2 - start + 1)
    BY <1>2, <1>3, <1>5, <2>1
  <2>3. (e - 2 * start) % 2 = e - 2 * start - 2 * (e \div 2 - start)
    BY <2>1, <2>2, Quotient
  <2>4. QED
    BY <1>2, <1>5, <2>1, <2>3
<1>7. PairOf(o, e) = e - ((e - 2 * start) % 2)
  BY <1>3, <1>5 DEF PairOf
<1>8. QED
  BY <1>2, <1>6, <1>7

-----------------------------------------------------------------------------
(* The position.                                                           *)

\* rewindH() moves the stream by n and leaves the position in the buffer.
LEMMA RewindMoves ==
  ASSUME NEW n \in Nat, position \in 0 .. Size - 1, generation \in Nat,
         Rewind(n)
  PROVE  /\ position' \in 0 .. Size - 1
         /\ generation' \in Nat /\ generation <= generation'
         /\ Stream' = Stream + n
<1> DEFINE p == position + n
<1>1. p \in Nat
  OBVIOUS
<1>2. CASE p < Size
  BY <1>1, <1>2 DEF Rewind, Stream
<1>3. CASE ~ (p < Size)
  <2> DEFINE q == p \div Size
  <2>1. q \in Nat /\ p % Size \in 0 .. Size - 1 /\ p = Size * q + (p % Size)
    <3> HIDE DEF p
    <3> QED
      BY <1>1, Division
  <2>2. position' = p % Size /\ generation' = generation + q
    BY <1>3 DEF Rewind
  <2>3. Stream' = (generation + q) * Size + (p % Size)
    BY <2>2 DEF Stream
  <2> HIDE DEF p, q
  <2>4. (generation + q) * Size = generation * Size + Size * q
    BY <2>1
  <2>5. Stream' = generation * Size + p
    BY <1>1, <2>1, <2>3, <2>4
  <2>6. QED
    BY <2>1, <2>2, <2>5 DEF p, Stream
<1>4. QED
  BY <1>2, <1>3

LEMMA TakesType ==
  ASSUME NEW o \in Ops PROVE Takes(o) \in Nat
BY DEF Takes, Ops

\* What an operation does, besides what it reads.
LEMMA DrawMoves ==
  ASSUME TypeOK, NEW o \in Ops, Draw(o)
  PROVE  /\ position' \in 0 .. Size - 1
         /\ generation' \in 1 .. MaxGeneration
         /\ Stream' = Stream + Takes(o)
         /\ last' = o
         /\ UNCHANGED <<contents, seed, amplifier>>
<1>1. position \in 0 .. Size - 1 /\ generation \in 1 .. MaxGeneration
  BY DEF TypeOK
<1>2. /\ position' \in 0 .. Size - 1
      /\ generation' \in Nat /\ generation <= generation'
      /\ Stream' = Stream + Takes(o)
  BY <1>1, TakesType, RewindMoves DEF Draw
<1>3. Stream' < (MaxGeneration + 1) * Size
  BY <1>2 DEF Draw
<1>4. ASSUME NEW g \in Nat, NEW x \in Nat,
             g * Size + x < (MaxGeneration + 1) * Size
      PROVE  g < MaxGeneration + 1
  <2>1. Size * g < Size * (MaxGeneration + 1)
    BY <1>4
  <2>2. QED
    BY <2>1, SmallerProduct
<1>5. generation' < MaxGeneration + 1
  <2>1. generation' * Size + position' < (MaxGeneration + 1) * Size
    BY <1>3 DEF Stream
  <2>2. generation' \in Nat /\ position' \in Nat
    BY <1>2
  <2>3. QED
    BY <1>4, <2>1, <2>2
<1>6. QED
  BY <1>1, <1>2, <1>5 DEF Draw

LEMMA OpType ==
  ASSUME NEW op \in {"elementwise", "gaussian", "binomial", "truncated",
                     "next"},
         NEW n \in Nat, NEW k \in Nat \ {0}, NEW trials \in Nat,
         NEW retries \in Nat
  PROVE  /\ Op(op, n, k, trials, retries) \in Ops
         /\ Op(op, n, k, trials, retries).op # "none"
BY DEF Op, Ops

LEMMA OpTypeNone == NoOp \in Ops /\ NoOp.op = "none"
BY DEF NoOp, Op, Ops

\* The cases of a step: an operation, a new buffer, a new amplifier, or none.
LEMMA NextCases ==
  ASSUME [Next]_vars
  PROVE  \/ \E o \in Ops : o.op # "none" /\ Draw(o)
         \/ \E s \in Seeds : Refresh(s) \/ ReSeed(s)
         \/ UNCHANGED vars
<1>1. ASSUME NEW n \in Lengths, Elementwise(n)
      PROVE  \E o \in Ops : o.op # "none" /\ Draw(o)
  BY <1>1, OpType DEF Elementwise
<1>2. ASSUME NEW n \in Lengths, NEW k \in Threads(n), Gaussian(n, k)
      PROVE  \E o \in Ops : o.op # "none" /\ Draw(o)
  BY <1>2, OpType DEF Gaussian, Threads
<1>3. ASSUME NEW n \in Lengths, NEW k \in Threads(n),
             NEW trials \in 0 .. MaxTrials, Binomial(n, k, trials)
      PROVE  \E o \in Ops : o.op # "none" /\ Draw(o)
  <2>1. n \in Nat /\ k \in Nat \ {0} /\ trials \in Nat
    BY RandomAssumption DEF Threads
  <2>2. LET o == Op("binomial", n, k, trials, 0)
        IN  o \in Ops /\ o.op # "none"
    BY <2>1, OpType
  <2>3. Draw(Op("binomial", n, k, trials, 0))
    BY <1>3 DEF Binomial
  <2>4. QED
    BY <2>2, <2>3
<1>4. ASSUME NEW n \in Lengths, NEW k \in Threads(n - n \div 2),
             NEW retries \in 0 .. MaxRetries, Truncated(n, k, retries)
      PROVE  \E o \in Ops : o.op # "none" /\ Draw(o)
  <2>1. n \in Nat /\ k \in Nat \ {0} /\ retries \in Nat
    BY RandomAssumption DEF Threads
  <2>2. LET o == Op("truncated", n, k, 0, retries)
        IN  o \in Ops /\ o.op # "none"
    BY <2>1, OpType
  <2>3. Draw(Op("truncated", n, k, 0, retries))
    BY <1>4 DEF Truncated
  <2>4. QED
    BY <2>2, <2>3
<1>5. ASSUME NextElement PROVE \E o \in Ops : o.op # "none" /\ Draw(o)
  BY <1>5, OpType DEF NextElement
<1>6. QED
  BY <1>1, <1>2, <1>3, <1>4, <1>5 DEF Next

-----------------------------------------------------------------------------
(* What operations read.                                                   *)

\* At most one element beyond those an operation takes, and an array's length
\* more for each retry.
LEMMA ReadsBound ==
  ASSUME NEW o \in Ops, NEW x \in AllReads(o)
  PROVE  /\ o.retries * o.n \in Nat
         /\ x \in Nat /\ x <= Takes(o) + o.retries * o.n
<1>1. PICK e \in 0 .. Rounds(o) - 1 : x \in Reads(o, e)
  BY DEF AllReads
<1>2. /\ e \in Nat /\ o.n \in Nat /\ o.trials \in Nat /\ o.retries \in Nat
      /\ Rounds(o) \in Nat /\ 2 * Rounds(o) <= o.n + o.n + 1
  BY RoundsType DEF Ops
<1> DEFINE more == o.retries * o.n
<1>10. more \in Nat
  BY <1>2
<1> HIDE DEF more
<1>3. CASE o.op = "elementwise"
  BY <1>1, <1>2, <1>3, <1>10 DEF Reads, Rounds, Takes, more
<1>4. CASE o.op = "gaussian"
  <2>1. e \in 0 .. o.n - 1 /\ Takes(o) = o.n
    BY <1>4 DEF Rounds, Takes
  <2>2. PairOf(o, e) \in Nat /\ PairOf(o, e) <= e
    <3>1. PairOf(o, e) = 2 * (e \div 2)
      BY <1>4, <2>1, PairIsAligned
    <3>2. e \div 2 \in Nat /\ 2 * (e \div 2) <= e
      BY <1>2
    <3>3. QED
      BY <3>1, <3>2
  <2>3. x \in {PairOf(o, e), PairOf(o, e) + 1}
    BY <1>1, <1>4 DEF Reads
  <2>4. x \in Nat /\ x <= Takes(o)
    BY <1>2, <2>1, <2>2, <2>3
  <2>5. QED
    BY <1>2, <1>10, <2>1, <2>4 DEF more
<1>5. CASE o.op = "binomial"
  <2>1. PICK t \in 1 .. o.trials : x = (e + 1) * t
    BY <1>1, <1>5 DEF Reads
  <2>2. Takes(o) = o.n * o.trials /\ e + 1 <= o.n
    BY <1>2, <1>5 DEF Rounds, Takes
  <2>3. PICK a \in Nat, b \in Nat : o.n = e + 1 + a /\ o.trials = t + b
    <3>1. o.n - (e + 1) \in Nat /\ o.trials - t \in Nat
      BY <1>2, <2>1, <2>2
    <3>2. /\ o.n = e + 1 + (o.n - (e + 1))
          /\ o.trials = t + (o.trials - t)
      BY <1>2, <2>1
    <3>3. QED
      BY <3>1, <3>2
  <2>4. o.n * o.trials = (e + 1) * t + (e + 1) * b + a * (t + b)
        /\ (e + 1) * t \in Nat /\ (e + 1) * b \in Nat /\ a * (t + b) \in Nat
    BY <1>2, <2>1, <2>3
  <2>5. x \in Nat /\ x <= Takes(o)
    BY <2>1, <2>2, <2>4
  <2>6. QED
    BY <1>2, <1>10, <2>2, <2>5 DEF more
<1>6. CASE o.op = "truncated"
  <2>1. PICK k \in 0 .. o.retries :
          x \in {e + k * o.n, e + Rounds(o) + k * o.n}
    BY <1>1, <1>6 DEF Reads
  <2>2. PICK b \in Nat : o.retries = k + b
    <3>1. o.retries - k \in Nat /\ o.retries = k + (o.retries - k)
      BY <1>2, <2>1
    <3>2. QED
      BY <3>1
  <2>3. more = k * o.n + b * o.n /\ k * o.n \in Nat /\ b * o.n \in Nat
    BY <1>2, <2>1, <2>2 DEF more
  <2>4. PICK y \in Nat, z \in Nat : y = k * o.n /\ z = b * o.n
    BY <2>3
  <2>5. Takes(o) = o.n /\ e + Rounds(o) <= o.n
    <3>1. Rounds(o) = o.n - o.n \div 2
      BY <1>6 DEF Rounds
    <3>2. e + Rounds(o) <= o.n
      BY <1>2, <3>1
    <3>3. QED
      BY <1>6, <3>2 DEF Takes
  <2>6. x \in Nat /\ x <= o.n + y + z
    BY <1>2, <2>1, <2>4, <2>5
  <2>7. more = y + z
    BY <2>3, <2>4
  <2>8. x \in Nat /\ x <= Takes(o) + more
    BY <1>2, <1>10, <2>4, <2>5, <2>6, <2>7
  <2>9. QED
    BY <1>10, <2>8 DEF more
<1>7. CASE o.op = "next"
  BY <1>1, <1>2, <1>7, <1>10 DEF Reads, Rounds, Takes, more
<1>8. CASE o.op = "none"
  BY <1>1, <1>8 DEF Reads
<1>9. QED
  BY <1>3, <1>4, <1>5, <1>6, <1>7, <1>8, <1>10 DEF Ops, more

\* Ahead() is the greatest of the distances that are left, or zero.
LEMMA AheadIs ==
  ASSUME NEW k \in Nat, NEW S \in SUBSET (0 .. k), NEW moved \in Nat
  PROVE  LET a == Ahead(S, moved)
         IN  /\ a \in Nat /\ \A x \in S : x - moved <= a
             /\ a = 0 \/ \E x \in S : a = x - moved
<1> DEFINE T == {x - moved : x \in {y \in S : y > moved}} \cup {0}
<1>1. T \in SUBSET (0 .. k)
  OBVIOUS
<1>2. PICK m \in T \cup {0} : \A y \in T : y <= m
  <2> HIDE DEF T
  <2> QED
    BY <1>1, GreatestNatural
<1>3. m \in T /\ 0 \in T
  BY <1>2
<1> DEFINE a == CHOOSE x \in T : \A y \in T : y <= x
<1>4. a \in T /\ \A y \in T : y <= a
  <2> HIDE DEF T
  <2> QED
    BY <1>2, <1>3
<1>5. Ahead(S, moved) = a
  BY DEF Ahead
<1> HIDE DEF a
<1>6. a \in Nat
  BY <1>1, <1>4
<1>7. ASSUME NEW x \in S PROVE x - moved <= a
  <2>1. x \in Nat
    OBVIOUS
  <2>2. CASE x > moved
    BY <1>4, <2>2
  <2>3. CASE x <= moved
    BY <1>6, <2>1, <2>3
  <2>4. QED
    BY <2>1, <2>2, <2>3
<1>8. a = 0 \/ \E x \in S : a = x - moved
  BY <1>4
<1>9. QED
  BY <1>5, <1>6, <1>7, <1>8

-----------------------------------------------------------------------------
(* What is still to come of the buffer.                                    *)

\* Division by the size of the buffer, of a number that goes past a multiple.
LEMMA PastMultiple ==
  ASSUME NEW q \in Nat, NEW r \in Nat, r < Size
  PROVE  (Size * q + r) \div Size = q /\ (Size * q + r) % Size = r
<1>1. Size * q \in Nat /\ Size * (q + 1) = Size * q + Size
  OBVIOUS
<1>2. QED
  BY <1>1, Quotient

\* An operation of the first generation leaves every element that is still to
\* come in the place where the next operation looks for it, with its shifts.
LEMMA DrawKeepsElements ==
  ASSUME TypeOK, NEW o \in Ops, Draw(o), generation = 1, NEW i \in Nat,
         generation' = 1 \/ position' + i < Size
  PROVE  Element(i)' = Element(Takes(o) + i)
<1> DEFINE n == Takes(o)
           p == position + n
<1>1. n \in Nat /\ p \in Nat /\ position \in Nat
  BY TakesType DEF TypeOK
<1>2. UNCHANGED <<contents, seed, amplifier>> /\ Rewind(n)
  BY DEF Draw
<1>3. position + (n + i) = p + i
  BY <1>1
<1>4. CASE p < Size
  <2>1. position' = p /\ generation' = generation
    BY <1>2, <1>4 DEF Rewind
  <2> HIDE DEF n, p
  <2>2. QED
    BY <1>2, <1>3, <2>1 DEF Element, n
<1>5. CASE ~ (p < Size)
  <2> DEFINE q == p \div Size
             r == p % Size
  <2>1. position' = r /\ generation' = 1 + q
    BY <1>2, <1>5 DEF Rewind
  <2>2. q \in Nat /\ r \in Nat /\ p = Size * q + r /\ Size \in Nat \ {0}
    <3> HIDE DEF p
    <3>1. q \in Nat /\ r \in 0 .. Size - 1 /\ p = Size * q + r
      BY <1>1, Division
    <3> HIDE DEF q, r
    <3>2. QED
      BY <3>1
  <2> HIDE DEF n, p, q, r
  <2>3. q # 0
    <3> SUFFICES ASSUME q = 0 PROVE FALSE
      OBVIOUS
    <3>1. p = r /\ r < Size
      BY <2>2, <1>1, Division DEF r
    <3>2. QED
      BY <1>5, <3>1
  <2>4. r + i \in Nat /\ r + i < Size
    BY <2>1, <2>2, <2>3
  <2>5. p + i = Size * q + (r + i)
    BY <2>2
  <2>6. /\ (p + i) \div Size = q /\ (p + i) % Size = r + i
        /\ (r + i) \div Size = 0 /\ (r + i) % Size = r + i
    <3>1. (p + i) \div Size = q /\ (p + i) % Size = r + i
      BY <2>2, <2>4, <2>5, PastMultiple
    <3>2. Size * 0 + (r + i) = r + i
      BY <2>2, <2>4
    <3>3. (Size * 0 + (r + i)) \div Size = 0
          /\ (Size * 0 + (r + i)) % Size = r + i
      BY <2>4, PastMultiple
    <3>4. QED
      BY <3>1, <3>2, <3>3
  <2>7. /\ 1 + q + 0 = 1 + q /\ 1 + q > 1 /\ 1 + q # 1 /\ ~ (1 > 1)
    BY <2>2, <2>3
  <2> DEFINE reseeded == IF amplifier # seed THEN <<amplifier>> ELSE <<>>
  <2>8. Element(n + i) = [of |-> contents, index |-> r + i,
                          shifts |-> <<1 + q>> \o <<>> \o reseeded]
    BY <1>3, <2>6, <2>7 DEF Element
  <2>9. Element(i)' = [of |-> contents, index |-> r + i,
                       shifts |-> <<>> \o <<1 + q>> \o reseeded]
    BY <1>2, <2>1, <2>6, <2>7 DEF Element
  <2>10. <<1 + q>> \o <<>> = <<>> \o <<1 + q>>
    OBVIOUS
  <2>11. QED
    BY <2>8, <2>9, <2>10 DEF n
<1>6. QED
  BY <1>4, <1>5

-----------------------------------------------------------------------------
(* The theorems about RandomBuffer.                                        *)

Inv == TypeOK /\ OnlyRetriesReadAhead

LEMMA InvInit == Init => Inv
BY OpTypeNone DEF Init, Inv, TypeOK, OnlyRetriesReadAhead, Stream

LEMMA InvNext == Inv /\ [Next]_vars => Inv'
<1> SUFFICES ASSUME Inv, [Next]_vars PROVE Inv'
  OBVIOUS
<1> USE DEF Inv
<1>1. Stream \in Nat
  BY DEF Stream, TypeOK
<1>2. ASSUME NEW o \in Ops, Draw(o) PROVE Inv'
  <2> DEFINE S == AllReads(o) \cup {ahead}
             takes == Takes(o)
             far == takes + o.retries * o.n
             R == {far, retried}
  <2>1. takes \in Nat /\ o.retries * o.n \in Nat /\ far \in Nat
    BY TakesType DEF Ops
  <2>2. ahead \in Nat /\ retried \in Nat /\ ahead <= retried
    BY DEF TypeOK, OnlyRetriesReadAhead
  <2>3. \A x \in S : x \in Nat /\ (x <= far \/ x <= retried)
    BY <2>2, ReadsBound
  <2>4. PICK k \in Nat : S \in SUBSET (0 .. k) /\ R \in SUBSET (0 .. k)
    <3> HIDE DEF S, far
    <3>1. far + retried \in Nat
      BY <2>1, <2>2
    <3>2. R \in SUBSET (0 .. far + retried)
      BY <2>1, <2>2
    <3>3. S \in SUBSET (0 .. far + retried)
      BY <2>1, <2>2, <2>3
    <3>4. QED
      BY <3>1, <3>2, <3>3
  <2>5. Stream' - Stream = takes
    BY <1>1, <1>2, <2>1, DrawMoves
  <2>6. ahead' = Ahead(S, takes) /\ retried' = Ahead(R, takes)
    BY <1>2, <2>5 DEF Draw
  <2> HIDE DEF S, takes, far
  <2>7. /\ ahead' \in Nat
        /\ ahead' = 0 \/ \E x \in S : ahead' = x - takes
    BY <2>1, <2>4, <2>6, AheadIs
  <2>8. /\ retried' \in Nat
        /\ far - takes <= retried' /\ retried - takes <= retried'
    BY <2>1, <2>4, <2>6, AheadIs
  <2>9. ahead' <= retried'
    <3>1. CASE ahead' = 0
      BY <2>8, <3>1
    <3>2. ASSUME NEW x \in S, ahead' = x - takes PROVE ahead' <= retried'
      BY <2>1, <2>2, <2>3, <2>8, <3>2
    <3>3. QED
      BY <2>7, <3>1, <3>2
  <2>10. QED
    BY <1>2, <2>7, <2>8, <2>9, DrawMoves DEF TypeOK, OnlyRetriesReadAhead
<1>3. ASSUME NEW s \in Seeds, Refresh(s) PROVE Inv'
  BY <1>3, OpTypeNone DEF Refresh, TypeOK, OnlyRetriesReadAhead, Stream
<1>4. ASSUME NEW s \in Seeds, ReSeed(s) PROVE Inv'
  BY <1>4, OpTypeNone DEF ReSeed, TypeOK, OnlyRetriesReadAhead, Stream
<1>5. CASE UNCHANGED vars
  BY <1>5 DEF vars, TypeOK, OnlyRetriesReadAhead, Stream
<1>6. QED
  BY <1>2, <1>3, <1>4, <1>5, NextCases

LEMMA Invariance == Spec => []Inv
BY InvInit, InvNext, PTL DEF Spec

\* The position stays in the buffer, whatever its size and however many
\* elements an operation takes.
THEOREM TypeCorrect == Spec => []TypeOK
<1>1. Inv => TypeOK
  BY DEF Inv
<1>2. QED
  BY <1>1, Invariance, PTL

\* What an operation reads past its end, which the next one reads again, is one
\* element (of an odd gaussian, a binomial or an odd truncated draw), and an
\* array's length for each time a truncated draw tries again
\* (special_random_ops.h:811).
THEOREM ReadingAheadIsRetrying == Spec => []OnlyRetriesReadAhead
<1>1. Inv => OnlyRetriesReadAhead
  BY DEF Inv
<1>2. QED
  BY <1>1, Invariance, PTL

\* Every result of a chunked operation is computed by exactly one thread, for
\* any length and any number of threads.
THEOREM EveryResultOnce == Spec => []ChunksPartition
<1>1. Inv => ChunksPartition
  <2> SUFFICES ASSUME Inv, Chunked(last), NEW e \in 0 .. Rounds(last) - 1
               PROVE  Cardinality(Writers(last, e)) = 1
    BY DEF ChunksPartition, Chunked, Inv, TypeOK
  <2>1. Writers(last, e) = {e \div Span(last)}
    BY OneWriter
  <2>2. QED
    BY <2>1, FS_Singleton
<1>2. QED
  BY <1>1, Invariance, PTL

\* The pairs of a gaussian draw do not depend on the number of threads.
THEOREM PairsStayWhole == Spec => []PairsAreWhole
<1>1. Inv => PairsAreWhole
  BY PairIsAligned DEF PairsAreWhole, Reads, Inv, TypeOK
<1>2. QED
  BY <1>1, Invariance, PTL

\* No operation loses or repeats a part of the stream.
THEOREM StreamMoves == Spec => StreamAdvances
<1>1. Inv /\ [Next]_vars =>
        [last'.op # "none" => Stream' = Stream + Takes(last')]_vars
  <2> SUFFICES ASSUME Inv, [Next]_vars, last'.op # "none", ~ UNCHANGED vars
               PROVE  Stream' = Stream + Takes(last')
    OBVIOUS
  <2>1. ASSUME NEW o \in Ops, Draw(o)
        PROVE  Stream' = Stream + Takes(last')
    BY <2>1, DrawMoves DEF Inv
  <2>2. ASSUME NEW s \in Seeds, Refresh(s) \/ ReSeed(s) PROVE FALSE
    BY <2>2, OpTypeNone DEF Refresh, ReSeed
  <2>3. QED
    BY <2>1, <2>2, NextCases
<1>2. QED
  BY <1>1, Invariance, PTL DEF Spec, StreamAdvances

\* Two arrays drawn one after the other hold what one array drawn at once
\* would, for as long as the numbers of the first generation last.
THEOREM SplitsAgree == Spec => SplitDrawsAgree
<1> DEFINE Agrees ==
             last'.op # "none" /\ generation = 1 =>
               \A i \in 0 .. 2 * Size :
                 generation' = 1 \/ position' + i < Size =>
                   Element(i)' = Element(Takes(last') + i)
<1>1. Inv /\ [Next]_vars => [Agrees]_vars
  <2> SUFFICES ASSUME Inv, [Next]_vars, last'.op # "none", generation = 1,
                      ~ UNCHANGED vars,
                      NEW i \in 0 .. 2 * Size,
                      generation' = 1 \/ position' + i < Size
               PROVE  Element(i)' = Element(Takes(last') + i)
    OBVIOUS
  <2>1. ASSUME NEW o \in Ops, Draw(o)
        PROVE  Element(i)' = Element(Takes(last') + i)
    <3>1. last' = o
      BY <2>1 DEF Draw
    <3>2. QED
      BY <2>1, <3>1, DrawKeepsElements DEF Inv
  <2>2. ASSUME NEW s \in Seeds, Refresh(s) \/ ReSeed(s) PROVE FALSE
    BY <2>2, OpTypeNone DEF Refresh, ReSeed
  <2>3. QED
    BY <2>1, <2>2, NextCases
<1>2. QED
  BY <1>1, Invariance, PTL DEF Spec, SplitDrawsAgree

===============================================================================
