----------------------------- MODULE GraphProofs -----------------------------
(***************************************************************************)
(* Proofs about Graph for every set of node definitions.                   *)
(***************************************************************************)
EXTENDS Graph, FiniteSetTheorems, NaturalsInduction, WellFoundedInduction,
        TLAPS

-----------------------------------------------------------------------------
(* Smallest and greatest elements, for the operators that CHOOSE them.     *)

\* A set of naturals that is not empty has a smallest element.
LEMMA LeastNatural ==
  ASSUME NEW S \in SUBSET Nat, S # {}
  PROVE  \E x \in S : \A y \in S : x <= y
<1> DEFINE Less == {ss \in Nat \X Nat : ss[1] < ss[2]}
<1>1. IsWellFoundedOn(Less, Nat)
  BY NatLessThanWellFounded DEF OpToRel
<1>2. \E x \in S : \A y \in S : ~ (<<y, x>> \in Less)
  <2> HIDE DEF Less
  <2> QED
    BY <1>1, WFMin
<1>3. ASSUME NEW x \in S, NEW y \in S, ~ (<<y, x>> \in Less)
      PROVE  x <= y
  <2>1. x \in Nat /\ y \in Nat
    OBVIOUS
  <2>2. ~ (y < x)
    BY <1>3, <2>1
  <2>3. QED
    BY <2>1, <2>2
<1>4. QED
  <2> HIDE DEF Less
  <2> QED
    BY <1>2, <1>3

\* A bounded set of naturals has a maximum, 0 when it is empty.
LEMMA GreatestNatural ==
  ASSUME NEW k \in Nat, NEW S \in SUBSET (0 .. k)
  PROVE  \E x \in S \cup {0} : \A y \in S : y <= x
<1> DEFINE Bounds == {u \in Nat : \A y \in S : y <= u}
<1>1. k \in Bounds
  OBVIOUS
<1>2. PICK u \in Bounds : \A v \in Bounds : u <= v
  BY <1>1, LeastNatural
<1>3. CASE u \in S \cup {0}
  BY <1>2, <1>3
<1>4. CASE u \notin S \cup {0}
  <2>1. u - 1 \in Bounds
    BY <1>2, <1>4
  <2>2. QED
    BY <1>2, <2>1
<1>5. QED
  BY <1>3, <1>4

-----------------------------------------------------------------------------
(* When the graph counts as built.                                         *)

\* While _built is set nothing waits in _unmapped: addNode() clears the flag
\* before it can leave a node to buildGraph(), which sets it only at its end.
THEOREM BuiltStaysCurrent == Spec => []BuiltIsCurrent
<1>1. Init => BuiltIsCurrent
  BY DEF Init, BuiltIsCurrent
<1>2. BuiltIsCurrent /\ [Next]_vars => BuiltIsCurrent'
  <2> SUFFICES ASSUME BuiltIsCurrent, [Next]_vars PROVE BuiltIsCurrent'
    OBVIOUS
  <2> USE DEF BuiltIsCurrent
  <2>1. ASSUME NEW n \in Ids, AddNode(n) PROVE BuiltIsCurrent'
    BY <2>1 DEF AddNode
  <2>2. ASSUME NEW id \in Ids \cup Externals, AddOutput(id)
        PROVE  BuiltIsCurrent'
    BY <2>2 DEF AddOutput
  <2>3. CASE BuildBegin
    BY <2>3 DEF BuildBegin
  <2>4. CASE Sweep
    BY <2>4 DEF Sweep
  <2>5. CASE VisitSingle
    BY <2>5 DEF VisitSingle
  <2>6. CASE SkipSingle
    BY <2>6 DEF SkipSingle
  <2>7. CASE VisitMulti
    BY <2>7 DEF VisitMulti
  <2>8. CASE BuildEnd
    BY <2>8 DEF BuildEnd
  <2>9. CASE UNCHANGED vars
    BY <2>9 DEF vars
  <2>10. QED
    BY <2>1, <2>2, <2>3, <2>4, <2>5, <2>6, <2>7, <2>8, <2>9 DEF Next, BuildStep
<1>3. QED
  BY <1>1, <1>2, PTL DEF Spec

-----------------------------------------------------------------------------
(* Facts about numbers that the sweep and the layers rest on.              *)

\* Smallest() is what it says, the begin() of a std::map keyed by node ids.
LEMMA SmallestIsLeast ==
  ASSUME NEW S \in SUBSET Nat, S # {}
  PROVE  Smallest(S) \in S /\ \A y \in S : Smallest(S) <= y
BY LeastNatural DEF Smallest

\* Where a sweep stands after node n: on a later node the map holds, if any.
LEMMA SweepStaysInMap ==
  ASSUME NEW n, NEW erased \in BOOLEAN, unmapped \subseteq Nat,
         MoveOn(n, erased), pc' = "visit"
  PROVE  cursor' \in unmapped /\ (erased => cursor' # n)
<1> DEFINE S == IF erased THEN unmapped \ {n} ELSE unmapped
           later == {m \in S : m > n}
<1>1. PICK p \in {NextOf(n, S)} \cup
              {<<"visit", m>> : m \in {x \in S : x > n}} \cup
              {<<"round", 0>>, <<"crashed", 0>>} :
         pc' = p[1] /\ cursor' = p[2]
  BY DEF MoveOn
<1>2. CASE p = NextOf(n, S)
  <2>1. later # {} /\ cursor' = Smallest(later)
    BY <1>1, <1>2 DEF NextOf
  <2>2. later \in SUBSET Nat
    OBVIOUS
  <2>3. Smallest(later) \in later
    BY <2>1, <2>2, SmallestIsLeast
  <2>4. QED
    BY <2>1, <2>3
<1>3. CASE p \in {<<"visit", m>> : m \in {x \in S : x > n}}
  BY <1>1, <1>3
<1>4. CASE p \in {<<"round", 0>>, <<"crashed", 0>>}
  BY <1>1, <1>4
<1>5. QED
  BY <1>1, <1>2, <1>3, <1>4

-----------------------------------------------------------------------------
(* The onion.                                                              *)

\* The layers and the onion describe the same placement.
OnionInv ==
  /\ layer \in [Mapped -> Nat]
  /\ Mapped \subseteq Ids
  /\ \E k \in Nat : DOMAIN onion = 0 .. k
  /\ \A l \in DOMAIN onion : onion[l] \in Seq(Ids)
  /\ \A n \in Mapped :
       /\ layer[n] \in DOMAIN onion
       /\ \E i \in DOMAIN onion[layer[n]] : onion[layer[n]][i] = n
  /\ \A l \in DOMAIN onion : \A i, j \in DOMAIN onion[l] :
       /\ onion[l][i] \in Mapped
       /\ layer[onion[l][i]] = l
       /\ onion[l][i] = onion[l][j] => i = j

\* A node is mapped or waits, and the sweep stands on one that waits.
SweepInv ==
  /\ unmapped \subseteq Ids
  /\ Mapped \cap unmapped = {}
  /\ pc = "visit" => cursor \in unmapped

\* Placing a new node in a layer there is, or in the one after the last.
LEMMA PlaceKeepsOnion ==
  ASSUME OnionInv, NEW n \in Ids, n \notin Mapped, NEW l \in Nat,
         l = 0 \/ l - 1 \in DOMAIN onion, Place(n, l)
  PROVE  OnionInv' /\ Mapped' = Mapped \cup {n}
<1> DEFINE Old(k) == IF k \in DOMAIN onion THEN onion[k] ELSE << >>
           New(k) == IF k = l THEN Append(Old(k), n) ELSE Old(k)
<1>1. PICK k \in Nat : DOMAIN onion = 0 .. k
  BY DEF OnionInv
<1>2. /\ DOMAIN onion' = DOMAIN onion \cup {l}
      /\ \A m \in DOMAIN onion' : onion'[m] = New(m)
  BY DEF Place
<1>3. /\ Mapped' = Mapped \cup {n}
      /\ layer' \in [Mapped' -> Nat]
      /\ layer'[n] = l
      /\ \A m \in Mapped : layer'[m] = layer[m]
  BY DEF Place, Mapped, OnionInv
<1>4. \E j \in Nat : DOMAIN onion' = 0 .. j
  <2>1. CASE l \in 0 .. k
    BY <1>1, <1>2, <2>1
  <2>2. CASE l = k + 1
    <3>1. DOMAIN onion' = 0 .. (k + 1)
      BY <1>1, <1>2, <2>2
    <3>2. QED
      BY <3>1
  <2>3. QED
    BY <1>1, <2>1, <2>2
<1>5. \A m \in DOMAIN onion' : Old(m) \in Seq(Ids)
  BY <1>2 DEF OnionInv
<1>6. ASSUME NEW m \in DOMAIN onion' PROVE onion'[m] \in Seq(Ids)
  <2> DEFINE s == Old(m)
  <2>1. s \in Seq(Ids) /\ (onion'[m] = s \/ onion'[m] = Append(s, n))
    BY <1>2, <1>5
  <2> HIDE DEF s
  <2> QED
    BY <2>1
<1>7. ASSUME NEW m \in Mapped'
      PROVE  /\ layer'[m] \in DOMAIN onion'
             /\ \E i \in DOMAIN onion'[layer'[m]] : onion'[layer'[m]][i] = m
  <2>1. CASE m = n
    <3>1. onion'[l] = Append(Old(l), n) /\ Old(l) \in Seq(Ids)
      BY <1>2, <1>5
    <3>2. Len(Old(l)) + 1 \in DOMAIN onion'[l]
          /\ onion'[l][Len(Old(l)) + 1] = n
      BY <3>1
    <3>3. QED
      BY <1>2, <1>3, <2>1, <3>2
  <2>2. CASE m \in Mapped
    <3>1. layer[m] \in DOMAIN onion /\ layer'[m] = layer[m]
      BY <1>3, <2>2 DEF OnionInv
    <3>2. PICK i \in DOMAIN onion[layer[m]] : onion[layer[m]][i] = m
      BY <2>2 DEF OnionInv
    <3>3. onion[layer[m]] \in Seq(Ids)
      BY <3>1 DEF OnionInv
    <3>4. /\ i \in DOMAIN onion'[layer[m]]
          /\ onion'[layer[m]][i] = m
      <4> DEFINE s == onion[layer[m]]
                 t == onion'[layer[m]]
      <4>1. s \in Seq(Ids) /\ (t = s \/ t = Append(s, n))
        BY <1>2, <3>1, <3>3
      <4>2. i \in DOMAIN s /\ s[i] = m
        BY <3>2
      <4> HIDE DEF s, t
      <4>3. i \in DOMAIN t /\ t[i] = m
        BY <4>1, <4>2
      <4> QED
        BY <4>3 DEF t
    <3>5. QED
      BY <1>2, <3>1, <3>4
  <2>3. QED
    BY <1>3, <2>1, <2>2
<1>8. ASSUME NEW m \in DOMAIN onion',
             NEW i \in DOMAIN onion'[m], NEW j \in DOMAIN onion'[m]
      PROVE  /\ onion'[m][i] \in Mapped'
             /\ layer'[onion'[m][i]] = m
             /\ onion'[m][i] = onion'[m][j] => i = j
  <2>1. \A h \in DOMAIN Old(m) : /\ Old(m)[h] \in Mapped
                                 /\ layer[Old(m)[h]] = m
    BY DEF OnionInv
  <2>2. \A h, g \in DOMAIN Old(m) : Old(m)[h] = Old(m)[g] => h = g
    BY DEF OnionInv
  <2>3. CASE m # l
    <3>1. onion'[m] = Old(m)
      BY <1>2, <2>3
    <3>2. QED
      BY <1>3, <2>1, <2>2, <3>1
  <2>4. CASE m = l
    <3>1. onion'[m] = Append(Old(m), n) /\ Old(m) \in Seq(Ids)
      BY <1>2, <1>5, <2>4
    <3>2. \A h \in DOMAIN onion'[m] :
             \/ h \in DOMAIN Old(m) /\ onion'[m][h] = Old(m)[h]
             \/ h = Len(Old(m)) + 1 /\ onion'[m][h] = n
      BY <3>1
    <3>3. QED
      BY <1>3, <2>1, <2>2, <2>4, <3>2
  <2>5. QED
    BY <2>3, <2>4
<1>9. Mapped' \subseteq Ids
  BY <1>3 DEF OnionInv
<1>10. QED
  BY <1>3, <1>4, <1>6, <1>7, <1>8, <1>9 DEF OnionInv

\* The layer of a multi-input node is the first, or just above a layer in use.
LEMMA MultiLayerIsNear ==
  ASSUME OnionInv, NEW n
  PROVE  /\ MultiLayer(n) \in Nat \ {0}
         /\ MultiLayer(n) - 1 \in DOMAIN onion
         /\ \A p \in Producers(n) \cap Mapped : layer[p] < MultiLayer(n)
<1> DEFINE known == {layer[p] : p \in Producers(n) \cap Mapped}
           top == CHOOSE x \in known \cup {0} : \A y \in known : y <= x
<1>1. PICK k \in Nat : DOMAIN onion = 0 .. k
  BY DEF OnionInv
<1>2. known \in SUBSET (0 .. k)
  BY <1>1 DEF OnionInv
<1>3. top \in known \cup {0} /\ \A y \in known : y <= top
  <2> HIDE DEF known
  <2>1. \E x \in known \cup {0} : \A y \in known : y <= x
    BY <1>2, GreatestNatural
  <2> QED
    BY <2>1
<1>4. MultiLayer(n) = 1 + top
  BY DEF MultiLayer
<1>5. top \in 0 .. k
  BY <1>2, <1>3
<1>6. \A p \in Producers(n) \cap Mapped : layer[p] \in known /\ layer[p] \in Nat
  BY DEF OnionInv
<1>7. QED
  <2> HIDE DEF known, top
  <2> QED
    BY <1>1, <1>3, <1>4, <1>5, <1>6

-----------------------------------------------------------------------------
(* Every node is placed once.                                              *)

PlacementInv == OnionInv /\ SweepInv

LEMMA PlacementInit == Init => PlacementInv
<1> SUFFICES ASSUME Init PROVE PlacementInv
  OBVIOUS
<1>1. DOMAIN layer = {} /\ DOMAIN onion = 0 .. 0 /\ onion[0] = << >>
  BY DEF Init
<1>2. layer \in [Mapped -> Nat]
  BY DEF Init, Mapped
<1>3. OnionInv
  BY <1>1, <1>2 DEF OnionInv, Mapped
<1>4. SweepInv
  BY <1>1 DEF Init, SweepInv, Mapped
<1>5. QED
  BY <1>3, <1>4 DEF PlacementInv

LEMMA PlacementNext == PlacementInv /\ [Next]_vars => PlacementInv'
<1> SUFFICES ASSUME PlacementInv, [Next]_vars PROVE PlacementInv'
  OBVIOUS
<1> USE DEF PlacementInv
<1>0. Ids \subseteq Nat /\ unmapped \subseteq Nat
  BY GraphAssumption DEF SweepInv
<1>1. ASSUME NEW n \in Ids, AddNode(n) PROVE PlacementInv'
  <2>1. n \notin Mapped /\ n \notin unmapped /\ pc' # "visit"
    BY <1>1 DEF AddNode, Added
  <2>2. ASSUME NEW l \in Nat, l = 0 \/ l - 1 \in DOMAIN onion, Place(n, l),
               unmapped' = unmapped
        PROVE  PlacementInv'
    <3>1. OnionInv' /\ Mapped' = Mapped \cup {n}
      BY <2>1, <2>2, PlaceKeepsOnion
    <3>2. QED
      BY <2>1, <2>2, <3>1 DEF SweepInv
  <2>3. CASE Place(n, 0) /\ unmapped' = unmapped
    BY <2>2, <2>3
  <2>4. CASE FollowsParent(n) /\ unmapped' = unmapped
             /\ Place(n, layer[graph[n].inputs[1][1]] + 1)
    <3>1. /\ layer[graph[n].inputs[1][1]] \in Nat
          /\ layer[graph[n].inputs[1][1]] \in DOMAIN onion
      BY <2>4 DEF FollowsParent, OnionInv
    <3>2. QED
      BY <2>2, <2>4, <3>1
  <2>5. CASE unmapped' = unmapped \cup {n} /\ UNCHANGED <<layer, onion>>
    BY <2>1, <2>5 DEF SweepInv, OnionInv, Mapped
  <2>6. PlaceOrWait(n)
    BY <1>1 DEF AddNode
  <2>7. QED
    BY <2>3, <2>4, <2>5, <2>6 DEF PlaceOrWait
<1>2. ASSUME NEW id \in Ids \cup Externals, AddOutput(id) PROVE PlacementInv'
  BY <1>2 DEF AddOutput, OnionInv, SweepInv, Mapped
<1>3. CASE BuildBegin
  BY <1>3 DEF BuildBegin, OnionInv, SweepInv, Mapped, buildVars
<1>4. CASE Sweep
  <2>1. Smallest(unmapped) \in unmapped
    BY <1>0, <1>4, SmallestIsLeast DEF Sweep
  <2>2. QED
    BY <1>4, <2>1 DEF Sweep, OnionInv, SweepInv, Mapped, buildVars
<1>5. ASSUME NEW l \in Nat, l = 0 \/ l - 1 \in DOMAIN onion, pc = "visit",
             Place(cursor, l), unmapped' = unmapped \ {cursor},
             MoveOn(cursor, TRUE)
      PROVE  PlacementInv'
  <2>1. cursor \in Ids /\ cursor \notin Mapped
    BY <1>5 DEF SweepInv
  <2>2. OnionInv' /\ Mapped' = Mapped \cup {cursor}
    BY <1>5, <2>1, PlaceKeepsOnion
  <2>3. pc' = "visit" => cursor' \in unmapped'
    BY <1>0, <1>5, SweepStaysInMap
  <2>4. QED
    BY <1>5, <2>2, <2>3 DEF SweepInv
<1>6. CASE VisitSingle
  <2> DEFINE from == graph[cursor].inputs[1][1]
             l == layer[from] + 1
  <2>0. from \in Mapped
    BY <1>6 DEF VisitSingle
  <2>1. l \in Nat /\ l - 1 \in DOMAIN onion
    <3>1. layer[from] \in Nat /\ layer[from] \in DOMAIN onion
      BY <2>0 DEF OnionInv
    <3> HIDE DEF from
    <3>2. QED
      BY <3>1
  <2>2. /\ pc = "visit"
        /\ Place(cursor, l)
        /\ unmapped' = unmapped \ {cursor}
        /\ MoveOn(cursor, TRUE)
    BY <1>6 DEF VisitSingle
  <2> HIDE DEF l
  <2>3. QED
    BY <1>5, <2>1, <2>2
<1>7. CASE SkipSingle
  <2>1. pc' = "visit" => cursor' \in unmapped
    BY <1>0, <1>7, SweepStaysInMap DEF SkipSingle
  <2>2. QED
    BY <1>7, <2>1 DEF SkipSingle, OnionInv, SweepInv, Mapped
<1>8. CASE VisitMulti
  <2>1. MultiLayer(cursor) \in Nat /\ MultiLayer(cursor) - 1 \in DOMAIN onion
    BY MultiLayerIsNear
  <2>2. /\ pc = "visit"
        /\ Place(cursor, MultiLayer(cursor))
        /\ unmapped' = unmapped \ {cursor}
        /\ MoveOn(cursor, TRUE)
    BY <1>8 DEF VisitMulti
  <2>3. QED
    BY <1>5, <2>1, <2>2
<1>9. CASE BuildEnd
  BY <1>9 DEF BuildEnd, OnionInv, SweepInv, Mapped, buildVars
<1>10. CASE UNCHANGED vars
  BY <1>10 DEF vars, OnionInv, SweepInv, Mapped
<1>11. QED
  BY <1>1, <1>2, <1>3, <1>4, <1>6, <1>7, <1>8, <1>9, <1>10 DEF Next, BuildStep

\* Every mapped node stands once in the onion, in its own layer, the layers
\* leave no gap, and no mapped node waits: for every graph, every order of
\* addNode() calls and whatever the erased iterator of buildGraph() does.
THEOREM NodesArePlacedOnce == Spec => []PlacedOnce
<1>1. PlacementInv => PlacedOnce
  <2> SUFFICES ASSUME PlacementInv PROVE PlacedOnce
    OBVIOUS
  <2>1. \A l \in DOMAIN onion : l > 0 => l - 1 \in DOMAIN onion
    BY DEF PlacementInv, OnionInv
  <2>2. QED
    BY <2>1 DEF PlacementInv, OnionInv, SweepInv, PlacedOnce
<1>2. QED
  BY <1>1, PlacementInit, PlacementNext, PTL DEF Spec

-----------------------------------------------------------------------------
(* Layers respect the inputs as long as the client is orderly and erasing an *)
(* element leads the iterator of buildGraph() to the next one.             *)

\* Producers are in earlier layers; the sweep goes up through the ids that
\* wait, so all that is below its node is mapped.
OrderedSweep ==
  /\ Numbered(graph)
  /\ \A n \in Mapped : \A p \in Producers(n) \cap Ids :
       p \in Mapped /\ layer[p] < layer[n]
  /\ \A n \in unmapped :
       Len(graph[n].inputs) = 1 => graph[n].inputs[1][1] \in Ids
  /\ pc \in {"round", "visit"} => Added = Ids
  /\ pc = "visit" => \A m \in unmapped : cursor <= m

OrderInv ==
  /\ graph \in Graphs
  /\ orderly => OrderedSweep

LEMMA InputsTyped ==
  ASSUME graph \in Graphs, NEW n \in Ids
  PROVE  /\ graph[n].inputs \in Seq((Ids \cup Externals) \X Nat)
         /\ Producers(n) \subseteq Ids \cup Externals
<1>1. graph[n] \in NodeDefs
  BY GraphAssumption
<1>2. graph[n].inputs \in Seq((Ids \cup Externals) \X Nat)
  BY <1>1 DEF NodeDefs
<1>3. \A i \in Inputs(n) : i[1] \in Ids \cup Externals
  BY <1>2 DEF Inputs, Range
<1>4. QED
  BY <1>2, <1>3 DEF Producers

\* A node with one input has that producer and no other.
LEMMA OnlyProducer ==
  ASSUME graph \in Graphs, NEW n \in Ids, Len(graph[n].inputs) = 1
  PROVE  Producers(n) = {graph[n].inputs[1][1]}
<1>1. DOMAIN graph[n].inputs = {1}
  BY InputsTyped
<1>2. QED
  BY <1>1 DEF Producers, Inputs, Range

\* When the iterator reaches the next element, the sweep goes to the next id
\* that waits.
LEMMA SweepGoesUp ==
  ASSUME orderly', NEW n \in Nat, NEW erased \in BOOLEAN,
         unmapped \subseteq Nat, \A m \in unmapped : n <= m, n \in unmapped,
         MoveOn(n, erased)
  PROVE  /\ pc' \in {"round", "visit"}
         /\ pc' = "visit" => \A m \in unmapped \ {n} : cursor' <= m
<1> DEFINE S == IF erased THEN unmapped \ {n} ELSE unmapped
           later == {m \in S : m > n}
<1>1. pc' = NextOf(n, S)[1] /\ cursor' = NextOf(n, S)[2]
  BY DEF MoveOn
<1>2. later = unmapped \ {n}
  <2>1. \A m \in S : m > n <=> m # n
    OBVIOUS
  <2>2. S \ {n} = unmapped \ {n}
    OBVIOUS
  <2> HIDE DEF S
  <2>3. QED
    BY <2>1, <2>2
<1>3. CASE later = {}
  BY <1>1, <1>3 DEF NextOf
<1>4. CASE later # {}
  <2>1. pc' = "visit" /\ cursor' = Smallest(later)
    BY <1>1, <1>4 DEF NextOf
  <2>2. \A m \in later : Smallest(later) <= m
    BY <1>4, SmallestIsLeast
  <2>3. QED
    BY <1>2, <2>1, <2>2
<1>5. QED
  BY <1>3, <1>4

LEMMA OrderInit == Init => OrderInv
BY DEF Init, OrderInv, OrderedSweep, Mapped

\* A new node that stands above each of its producers keeps the order.
LEMMA PlaceKeepsOrder ==
  ASSUME OrderedSweep, OnionInv, NEW n \in Ids, n \notin Mapped, NEW l \in Nat,
         Place(n, l), graph' = graph,
         \A p \in Producers(n) \cap Ids : p \in Mapped /\ layer[p] < l
  PROVE  /\ Mapped' = Mapped \cup {n}
         /\ \A m \in Mapped' : \A p \in Producers(m)' \cap Ids :
              p \in Mapped' /\ layer'[p] < layer'[m]
<1>1. /\ Mapped' = Mapped \cup {n}
      /\ layer'[n] = l
      /\ \A m \in Mapped : layer'[m] = layer[m]
  BY DEF Place, Mapped
<1>2. \A m : Producers(m)' = Producers(m)
  BY DEF Producers, Inputs
<1>3. ASSUME NEW m \in Mapped', NEW p \in Producers(m) \cap Ids
      PROVE  p \in Mapped' /\ layer'[p] < layer'[m]
  <2>1. CASE m = n
    BY <1>1, <1>3, <2>1
  <2>2. CASE m \in Mapped
    <3>1. p \in Mapped /\ layer[p] < layer[m]
      BY <1>3, <2>2 DEF OrderedSweep
    <3>2. QED
      BY <1>1, <2>2, <3>1
  <2>3. QED
    BY <1>1, <1>3, <2>1, <2>2
<1>4. QED
  BY <1>1, <1>2, <1>3

\* A disorderly client stays so.
LEMMA OrderlyBefore == [Next]_vars /\ orderly' => orderly
BY DEF Next, BuildStep, AddNode, AddOutput, BuildBegin, Sweep, VisitSingle,
       SkipSingle, VisitMulti, BuildEnd, MoveOn, vars

LEMMA OrderNext == PlacementInv /\ OrderInv /\ [Next]_vars => OrderInv'
<1> SUFFICES ASSUME PlacementInv, OrderInv, [Next]_vars PROVE OrderInv'
  OBVIOUS
<1>a. graph' = graph
  BY DEF Next, BuildStep, AddNode, AddOutput, BuildBegin, Sweep, VisitSingle,
         SkipSingle, VisitMulti, BuildEnd, buildVars, vars
<1> SUFFICES ASSUME orderly' PROVE OrderedSweep'
  BY <1>a DEF OrderInv
<1>0. /\ OrderedSweep /\ OnionInv /\ SweepInv
      /\ Ids \subseteq Nat /\ unmapped \subseteq Nat
      /\ graph \in Graphs
  BY GraphAssumption, OrderlyBefore DEF PlacementInv, SweepInv, OrderInv
<1>n. Numbered(graph)'
  BY <1>0, <1>a DEF OrderedSweep, Numbered
<1>1. ASSUME NEW n \in Ids
      PROVE  /\ graph[n].plain
             /\ \A p \in Producers(n) \cap Ids : p < n
             /\ \A p \in Producers(n) : p \in Ids \/ (p \in Int /\ p < 0)
  <2>1. graph[n].plain /\ \A i \in Inputs(n) : i[1] \in Ids => i[1] < n
    BY <1>0 DEF OrderedSweep, Numbered, Inputs
  <2>2. Producers(n) \subseteq Ids \cup Externals
    BY <1>0, InputsTyped
  <2>3. \A p \in Producers(n) \cap Ids : p < n
    BY <2>1 DEF Producers
  <2>4. \A p \in Producers(n) : p \in Ids \/ (p \in Int /\ p < 0)
    BY <2>2, GraphAssumption
  <2>5. QED
    BY <2>1, <2>3, <2>4
<1>2. ASSUME NEW n \in Ids, AddNode(n) PROVE OrderedSweep'
  <2>1. /\ n \notin Mapped /\ n \notin unmapped /\ pc = "idle" /\ pc' = pc
        /\ graph' = graph /\ PlaceOrWait(n)
    BY <1>2 DEF AddNode, Added
  <2>2. ASSUME NEW l \in Nat, Place(n, l), unmapped' = unmapped,
               \A p \in Producers(n) \cap Ids : p \in Mapped /\ layer[p] < l
        PROVE  OrderedSweep'
    <3>1. \A m \in Mapped' : \A p \in Producers(m)' \cap Ids :
            p \in Mapped' /\ layer'[p] < layer'[m]
      BY <1>0, <2>1, <2>2, PlaceKeepsOrder
    <3>2. QED
      BY <1>0, <1>n, <2>1, <2>2, <3>1 DEF OrderedSweep
  <2>3. CASE /\ HasExternalInputs(n) /\ ~HasInternalInputs(n)
             /\ Place(n, 0) /\ unmapped' = unmapped
    <3>1. \A p \in Producers(n) : ~ (p >= 0)
      BY <2>3 DEF HasExternalInputs, HasInternalInputs
    <3>2. ASSUME NEW p \in Producers(n) \cap Ids PROVE FALSE
      <4>1. p \in Nat
        BY <1>0
      <4>2. ~ (p >= 0)
        BY <3>1
      <4>3. QED
        BY <4>1, <4>2
    <3>3. QED
      BY <2>2, <2>3, <3>2
  <2>4. CASE FollowsParent(n) /\ unmapped' = unmapped
             /\ Place(n, layer[graph[n].inputs[1][1]] + 1)
    <3> DEFINE p == graph[n].inputs[1][1]
    <3>1. Producers(n) = {p} /\ p \in Mapped
      BY <1>0, <2>4, OnlyProducer DEF FollowsParent
    <3>2. layer[p] \in Nat
      BY <1>0, <3>1 DEF OnionInv
    <3>3. Place(n, layer[p] + 1)
      BY <2>4
    <3> HIDE DEF p
    <3>4. QED
      BY <2>2, <2>4, <3>1, <3>2, <3>3
  <2>5. CASE /\ ~(HasExternalInputs(n) /\ ~HasInternalInputs(n))
             /\ unmapped' = unmapped \cup {n} /\ layer' = layer
    <3>1. Len(graph[n].inputs) = 1 => graph[n].inputs[1][1] \in Ids
      <4> SUFFICES ASSUME Len(graph[n].inputs) = 1,
                          graph[n].inputs[1][1] \notin Ids
                   PROVE  FALSE
        OBVIOUS
      <4>1. Producers(n) = {graph[n].inputs[1][1]}
        BY <1>0, OnlyProducer
      <4>2. HasExternalInputs(n) /\ ~HasInternalInputs(n)
        BY <1>1, <4>1 DEF HasExternalInputs, HasInternalInputs
      <4>3. QED
        BY <2>5, <4>2
    <3>2. \A m : Producers(m)' = Producers(m)
      BY <2>1 DEF Producers, Inputs
    <3>3. Mapped' = Mapped
      BY <2>5 DEF Mapped
    <3>4. QED
      BY <1>0, <1>n, <2>1, <2>5, <3>1, <3>2, <3>3 DEF OrderedSweep
  <2>6. QED
    BY <2>1, <2>3, <2>4, <2>5 DEF PlaceOrWait
<1>3. ASSUME layer' = layer, unmapped' = unmapped, graph' = graph,
             pc' \in {"round", "visit"} => Added = Ids,
             pc' = "visit" => \A m \in unmapped : cursor' <= m
      PROVE  OrderedSweep'
  BY <1>0, <1>n, <1>3 DEF OrderedSweep, Mapped, Added, Producers, Inputs
<1>4. ASSUME NEW id \in Ids \cup Externals, AddOutput(id) PROVE OrderedSweep'
  BY <1>3, <1>4 DEF AddOutput
<1>5. CASE BuildBegin
  BY <1>3, <1>5 DEF BuildBegin, buildVars
<1>6. CASE Sweep
  <2>1. \A m \in unmapped : Smallest(unmapped) <= m
    BY <1>0, <1>6, SmallestIsLeast DEF Sweep
  <2>2. QED
    BY <1>0, <1>n, <1>3, <1>6, <2>1 DEF Sweep, buildVars, OrderedSweep
<1>7. CASE SkipSingle
  <2> DEFINE p == graph[cursor].inputs[1][1]
  <2>1. cursor \in unmapped /\ p \in Ids /\ p \notin Mapped
    BY <1>0, <1>n, <1>7 DEF SkipSingle, SweepInv, OrderedSweep
  <2>2. p \in unmapped
    BY <1>0, <1>n, <1>7, <2>1 DEF SkipSingle, OrderedSweep, Added
  <2>3. Producers(cursor) = {p}
    BY <1>0, <1>7, <2>1, OnlyProducer DEF SkipSingle, SweepInv
  <2>4. p < cursor
    BY <1>0, <1>1, <2>1, <2>3 DEF SweepInv
  <2>5. cursor <= p
    BY <1>0, <1>n, <1>7, <2>2 DEF SkipSingle, OrderedSweep
  <2> HIDE DEF p
  <2>6. QED
    BY <1>0, <2>1, <2>2, <2>4, <2>5
<1>8. ASSUME pc = "visit"
      PROVE  cursor \in Ids /\ cursor \notin Mapped
             /\ \A p \in Producers(cursor) \cap Ids : p \in Mapped
  <2>1. cursor \in unmapped /\ cursor \in Ids /\ cursor \notin Mapped
    BY <1>0, <1>8 DEF SweepInv
  <2>2. ASSUME NEW p \in Producers(cursor) \cap Ids PROVE p \notin unmapped
    <3>1. p < cursor /\ p \in Nat /\ cursor \in Nat
      BY <1>0, <1>1, <2>1, <2>2
    <3>2. \A m \in unmapped : cursor <= m
      BY <1>0, <1>n, <1>8 DEF OrderedSweep
    <3>3. QED
      BY <3>1, <3>2
  <2>3. QED
    BY <1>0, <1>n, <1>8, <2>1, <2>2 DEF OrderedSweep, Added
<1>9. ASSUME pc = "visit", NEW l \in Nat, Place(cursor, l), graph' = graph,
             unmapped' = unmapped \ {cursor}, MoveOn(cursor, TRUE),
             \A p \in Producers(cursor) \cap Ids : layer[p] < l
      PROVE  OrderedSweep'
  <2>1. /\ Mapped' = Mapped \cup {cursor}
        /\ \A m \in Mapped' : \A p \in Producers(m)' \cap Ids :
             p \in Mapped' /\ layer'[p] < layer'[m]
    BY <1>0, <1>8, <1>9, PlaceKeepsOrder
  <2>2. pc' = "visit" => \A m \in unmapped' : cursor' <= m
    BY <1>0, <1>n, <1>9, SweepGoesUp DEF OrderedSweep, SweepInv
  <2>3. Added' = Ids
    BY <1>0, <1>n, <1>9, <2>1 DEF OrderedSweep, SweepInv, Added
  <2>4. QED
    BY <1>0, <1>n, <1>9, <2>1, <2>2, <2>3 DEF OrderedSweep
<1>10. CASE VisitSingle
  <2> DEFINE p == graph[cursor].inputs[1][1]
  <2>1. /\ pc = "visit" /\ p \in Mapped
        /\ Place(cursor, layer[p] + 1)
        /\ unmapped' = unmapped \ {cursor} /\ graph' = graph
        /\ MoveOn(cursor, TRUE)
    BY <1>10 DEF VisitSingle, buildVars
  <2>2. Producers(cursor) = {p}
    BY <1>0, <1>8, <1>10, <2>1, OnlyProducer DEF VisitSingle
  <2>3. layer[p] \in Nat
    BY <1>0, <2>1 DEF OnionInv
  <2> HIDE DEF p
  <2>4. layer[p] + 1 \in Nat /\ layer[p] < layer[p] + 1
    BY <2>3
  <2>5. QED
    BY <1>9, <2>1, <2>2, <2>4
<1>11. CASE VisitMulti
  <2>1. /\ pc = "visit"
        /\ Place(cursor, MultiLayer(cursor))
        /\ unmapped' = unmapped \ {cursor} /\ graph' = graph
        /\ MoveOn(cursor, TRUE)
    BY <1>11 DEF VisitMulti, buildVars
  <2>2. MultiLayer(cursor) \in Nat
        /\ \A p \in Producers(cursor) \cap Mapped :
             layer[p] < MultiLayer(cursor)
    BY <1>0, MultiLayerIsNear
  <2>3. QED
    BY <1>8, <1>9, <2>1, <2>2
<1>12. CASE BuildEnd
  BY <1>3, <1>12 DEF BuildEnd, buildVars
<1>13. CASE UNCHANGED vars
  BY <1>0, <1>n, <1>3, <1>13 DEF vars, OrderedSweep
<1>14. QED
  BY <1>2, <1>4, <1>5, <1>6, <1>7, <1>10, <1>11, <1>12, <1>13
  DEF Next, BuildStep

\* For such a client the executor, which runs the layers in order, never meets
\* a node before the nodes it reads.
THEOREM LayersOrderExecution == Spec => []LayersRespectInputs
<1>1. OrderInv => LayersRespectInputs
  BY DEF OrderInv, OrderedSweep, LayersRespectInputs
<1>2. QED
  BY <1>1, OrderInit, OrderNext, PlacementInit, PlacementNext, PTL DEF Spec

-----------------------------------------------------------------------------
(* Blocks.                                                                 *)

\* The space knows every variable of the nodes added so far, and a client that
\* adds producers first has added those of each of them.
SpaceInv ==
  /\ Externals \X {0} \subseteq space
  /\ \A m \in Added : NewVariables(m) \subseteq space
  /\ Added \subseteq Ids /\ DOMAIN block \subseteq Added
  /\ graph \in Graphs

FilledInv == producersFirst =>
  /\ \A n \in Added : Producers(n) \cap Ids \subseteq Added
  /\ \A n \in DOMAIN block : Filled(n, block[n])

BlockInv == SpaceInv /\ FilledInv

\* Filling a block once the producers of its node are all there.
LEMMA FillingFills ==
  ASSUME SpaceInv, NEW n \in Ids, Producers(n) \cap Ids \subseteq Added,
         NEW known, space \subseteq known
  PROVE  Filled(n, FillBlock(n, known))
<1> SUFFICES ASSUME NEW i \in DOMAIN graph[n].inputs,
                    graph[n].inputs[i] \in Variables
             PROVE  graph[n].inputs[i] \in known
  BY DEF Filled, FillBlock
<1> DEFINE v == graph[n].inputs[i]
<1>1. v[1] \in Producers(n)
  BY DEF Producers, Inputs, Range
<1>2. CASE v \in Externals \X {0}
  BY <1>2 DEF SpaceInv
<1>3. ASSUME NEW m \in Ids, v \in NewVariables(m) PROVE v \in known
  <2>1. v[1] = m
    BY <1>3 DEF NewVariables
  <2>2. m \in Added
    BY <1>1, <2>1
  <2>3. QED
    BY <1>3, <2>2 DEF SpaceInv
<1>4. QED
  BY <1>2, <1>3 DEF Variables

\* A step that registers nothing and leaves every block as it is.
LEMMA BlocksStay ==
  ASSUME BlockInv, Added' = Added,
         UNCHANGED <<graph, producersFirst, space, block>>
  PROVE  BlockInv'
BY DEF BlockInv, SpaceInv, FilledInv, Filled, Variables, NewVariables,
       Producers, Inputs

LEMMA BlockInit == Init => BlockInv
BY DEF Init, BlockInv, SpaceInv, FilledInv, Added, Mapped

\* What a visit of buildGraph() does with the block of its node.
LEMMA RefillKeeps ==
  ASSUME BlockInv, Added' = Added, UNCHANGED <<graph, producersFirst, space>>,
         NEW n \in Added, RefillBlock(n)
  PROVE  BlockInv'
<1>1. CASE block' = block
  BY <1>1, BlocksStay
<1>2. CASE /\ n \in DOMAIN block
           /\ block' = [block EXCEPT ![n] = FillBlock(n, space)]
  <2>1. SpaceInv'
    BY <1>2 DEF BlockInv, SpaceInv, NewVariables
  <2>2. ASSUME producersFirst PROVE Filled(n, FillBlock(n, space))
    BY <2>2, FillingFills DEF BlockInv, SpaceInv, FilledInv
  <2>3. FilledInv'
    BY <1>2, <2>2 DEF BlockInv, FilledInv, Filled, Variables, NewVariables,
       Producers, Inputs
  <2>4. QED
    BY <2>1, <2>3 DEF BlockInv
<1>3. QED
  BY <1>1, <1>2 DEF RefillBlock

LEMMA BlockNext == PlacementInv /\ BlockInv /\ [Next]_vars => BlockInv'
<1> SUFFICES ASSUME PlacementInv, BlockInv, [Next]_vars PROVE BlockInv'
  OBVIOUS
<1>1. ASSUME NEW n \in Ids, AddNode(n) PROVE BlockInv'
  <2> DEFINE b == FillBlock(n, space \cup {<<n, 0>>})
  <2>1. Added' = Added \cup {n}
    BY <1>1 DEF AddNode, PlaceOrWait, Place, Added, Mapped
  <2>2. /\ space' = space \cup NewVariables(n) /\ graph' = graph
        /\ producersFirst' = producersFirst /\ n \notin Added
        /\ producersFirst => Producers(n) \cap Ids \subseteq Added
        /\ AttachBlock(n, b)
    BY <1>1 DEF AddNode
  <2>3. producersFirst => Filled(n, b)
    BY <2>2, FillingFills DEF BlockInv
  <2>4. /\ DOMAIN block' \subseteq DOMAIN block \cup {n}
        /\ \A m \in DOMAIN block' :
             \/ m = n /\ block'[m] = b
             \/ m \in DOMAIN block /\ block'[m] = block[m]
    BY <2>2 DEF AttachBlock
  <2> HIDE DEF b
  <2>5. SpaceInv'
    BY <2>1, <2>2, <2>4 DEF BlockInv, SpaceInv, NewVariables
  <2>6. FilledInv'
    BY <2>1, <2>2, <2>3, <2>4 DEF BlockInv, FilledInv, Filled, Variables,
       NewVariables, Producers, Inputs
  <2>7. QED
    BY <2>5, <2>6 DEF BlockInv
<1>2. ASSUME layer' = layer, unmapped' = unmapped,
             UNCHANGED <<graph, producersFirst, space, block>>
      PROVE  BlockInv'
  BY <1>2, BlocksStay DEF Added, Mapped
<1>3. ASSUME pc = "visit", NEW l, Place(cursor, l), RefillBlock(cursor),
             unmapped' = unmapped \ {cursor},
             UNCHANGED <<graph, producersFirst, space>>
      PROVE  BlockInv'
  <2>1. cursor \in unmapped
    BY <1>3 DEF PlacementInv, SweepInv
  <2>2. Added' = Added
    BY <1>3, <2>1 DEF Place, Added, Mapped
  <2>3. QED
    BY <1>3, <2>1, <2>2, RefillKeeps DEF Added
<1>4. ASSUME NEW id \in Ids \cup Externals, AddOutput(id) PROVE BlockInv'
  BY <1>2, <1>4 DEF AddOutput
<1>5. CASE BuildBegin
  BY <1>2, <1>5 DEF BuildBegin, buildVars
<1>6. CASE Sweep
  BY <1>2, <1>6 DEF Sweep, buildVars
<1>7. CASE VisitSingle
  BY <1>3, <1>7 DEF VisitSingle, buildVars
<1>8. CASE SkipSingle
  BY <1>2, <1>8 DEF SkipSingle, buildVars
<1>9. CASE VisitMulti
  BY <1>3, <1>9 DEF VisitMulti, buildVars
<1>10. CASE BuildEnd
  BY <1>2, <1>10 DEF BuildEnd, buildVars
<1>11. CASE UNCHANGED vars
  BY <1>2, <1>11 DEF vars
<1>12. QED
  BY <1>1, <1>4, <1>5, <1>6, <1>7, <1>8, <1>9, <1>10, <1>11 DEF Next, BuildStep

\* Whatever buildGraph() does with the node later, the Block that addNode()
\* fills for a client that adds producers first lacks none of its inputs.
THEOREM BlocksStayFilled == Spec => []BlocksFilled
<1>1. BlockInv => BlocksFilled
  BY DEF BlockInv, FilledInv, BlocksFilled
<1>2. QED
  BY <1>1, BlockInit, BlockNext, PlacementInit, PlacementNext, PTL DEF Spec

-----------------------------------------------------------------------------
(* What the modes return.                                                  *)

\* What _output is after each id of s has been pushed or not.
Pushing(pushed, out, s, wanted) ==
  /\ pushed \in [0 .. Len(s) -> Seq(Int)]
  /\ pushed[0] = out
  /\ \A k \in 1 .. Len(s) :
       pushed[k] = IF s[k] \in wanted \ Range(pushed[k - 1])
                     THEN Append(pushed[k - 1], s[k])
                     ELSE pushed[k - 1]

\* The least-number principle gives a recursive function over a sequence its
\* values: if some prefix had none, the shortest such would.
LEMMA PushedIs ==
  ASSUME NEW out \in Seq(Int), NEW s \in Seq(Int), NEW wanted
  PROVE  \E pushed : /\ Pushing(pushed, out, s, wanted)
                     /\ PushOnce(out, s, wanted) = pushed[Len(s)]
<1> DEFINE Step(acc, x) ==
             IF x \in wanted \ Range(acc) THEN Append(acc, x) ELSE acc
           Rec(f, n) ==
             f = [k \in 0 .. n |-> IF k = 0 THEN out ELSE Step(f[k - 1], s[k])]
           Bad == {n \in 0 .. Len(s) :
                     ~ \E f \in [0 .. n -> Seq(Int)] : Rec(f, n)}
<1>1. Bad = {}
  <2> SUFFICES ASSUME Bad # {} PROVE FALSE
    OBVIOUS
  <2>0. Bad \in SUBSET Nat
    OBVIOUS
  <2>1. PICK n \in Bad : \A m \in Bad : n <= m
    <3> HIDE DEF Bad
    <3> QED
      BY <2>0, LeastNatural
  <2>2. /\ n \in 0 .. Len(s)
        /\ \A m \in 0 .. Len(s) : m < n =>
             \E f \in [0 .. m -> Seq(Int)] : Rec(f, m)
    <3> HIDE DEF Rec
    <3> QED
      BY <2>1
  <2>6. ~ \E f \in [0 .. n -> Seq(Int)] : Rec(f, n)
    <3> HIDE DEF Rec
    <3> QED
      BY <2>1
  <2>3. CASE n = 0
    <3> DEFINE f == [k \in 0 .. 0 |-> out]
    <3>1. f \in [0 .. n -> Seq(Int)] /\ Rec(f, n)
      BY <2>3
    <3> HIDE DEF f, Rec
    <3>2. QED
      BY <3>1, <2>6
  <2>4. CASE n # 0
    <3>1. n - 1 \in 0 .. Len(s) /\ n - 1 < n /\ n \in 1 .. Len(s)
      BY <2>2, <2>4
    <3>2. PICK f \in [0 .. n - 1 -> Seq(Int)] : Rec(f, n - 1)
      <4> HIDE DEF Rec
      <4> QED
        BY <3>1, <2>2
    <3> DEFINE g == [k \in 0 .. n |->
                       IF k = n THEN Step(f[n - 1], s[n]) ELSE f[k]]
    <3>3. Step(f[n - 1], s[n]) \in Seq(Int)
      BY <3>1
    <3>4. g \in [0 .. n -> Seq(Int)]
      BY <3>1, <3>3
    <3>5. ASSUME NEW k \in 0 .. n
          PROVE  g[k] = IF k = 0 THEN out ELSE Step(g[k - 1], s[k])
      <4> HIDE DEF Step
      <4>1. CASE k = n
        BY <4>1, <3>1
      <4>2. CASE k # n
        <5>1. k \in 0 .. n - 1
          BY <4>2, <3>1
        <5>2. f[k] = IF k = 0 THEN out ELSE Step(f[k - 1], s[k])
          BY <5>1, <3>2
        <5>3. k # 0 => g[k - 1] = f[k - 1]
          BY <5>1, <3>1
        <5>4. QED
          BY <5>1, <5>2, <5>3, <4>2
      <4>3. QED
        BY <4>1, <4>2
    <3>6. Rec(g, n)
      <4> HIDE DEF Step
      <4> QED
        BY <3>5
    <3> HIDE DEF g, Rec
    <3>7. QED
      BY <3>4, <3>6, <2>6
  <2>5. QED
    BY <2>3, <2>4
<1>2. \E f : Rec(f, Len(s))
  <2> HIDE DEF Rec
  <2>1. Len(s) \in 0 .. Len(s)
    OBVIOUS
  <2>2. QED
    BY <1>1, <2>1
<1> DEFINE p == CHOOSE f : Rec(f, Len(s))
<1>3. Rec(p, Len(s))
  <2> HIDE DEF Rec
  <2> QED
    BY <1>2
<1>4. PushOnce(out, s, wanted) = p[Len(s)]
  BY DEF PushOnce
<1> HIDE DEF p
<1>5. ASSUME NEW k \in 1 .. Len(s) PROVE p[k] = Step(p[k - 1], s[k])
  <2> HIDE DEF Step
  <2>1. k \in 0 .. Len(s) /\ k # 0
    OBVIOUS
  <2>2. \A i \in 0 .. Len(s) :
          p[i] = IF i = 0 THEN out ELSE Step(p[i - 1], s[i])
    BY <1>3, Zenon
  <2>3. QED
    BY <2>1, <2>2, Zenon
<1>6. p[0] = out /\ DOMAIN p = 0 .. Len(s)
  BY <1>3
<1>7. \A k \in 0 .. Len(s) : p[k] \in Seq(Int)
  <2> DEFINE Odd == {k \in 0 .. Len(s) : p[k] \notin Seq(Int)}
  <2> SUFFICES ASSUME Odd # {} PROVE FALSE
    OBVIOUS
  <2>0. Odd \in SUBSET Nat
    OBVIOUS
  <2>1. PICK k \in Odd : \A m \in Odd : k <= m
    <3> HIDE DEF Odd
    <3> QED
      BY <2>0, LeastNatural
  <2>2. k \in 1 .. Len(s) /\ p[k - 1] \in Seq(Int) /\ s[k] \in Int
    BY <2>1, <1>6
  <2>5. \A acc \in Seq(Int) : Step(acc, s[k]) \in Seq(Int)
    BY <2>2
  <2>3. p[k] \in Seq(Int)
    <3> HIDE DEF Step
    <3> QED
      BY <2>2, <2>5, <1>5
  <2>4. QED
    BY <2>3
<1>8. p \in [0 .. Len(s) -> Seq(Int)]
  BY <1>3, <1>7
<1>9. Pushing(p, out, s, wanted)
  BY <1>5, <1>6, <1>8 DEF Pushing
<1>10. QED
  BY <1>4, <1>9

\* One more id at the end of a sequence.
LEMMA OneMoreId ==
  ASSUME NEW acc \in Seq(Int), NEW x \in Int
  PROVE  /\ Append(acc, x) \in Seq(Int)
         /\ Range(Append(acc, x)) = Range(acc) \cup {x}
         /\ IsInjective(acc) /\ x \notin Range(acc)
              => IsInjective(Append(acc, x))
<1> DEFINE b == Append(acc, x)
<1>1. /\ b \in Seq(Int) /\ Len(acc) \in Nat
      /\ DOMAIN acc = 1 .. Len(acc) /\ DOMAIN b = 1 .. (Len(acc) + 1)
      /\ \A i \in 1 .. Len(acc) : b[i] = acc[i]
      /\ b[Len(acc) + 1] = x
  OBVIOUS
<1> HIDE DEF b
<1>2. \A i \in DOMAIN b : i \in DOMAIN acc \/ i = Len(acc) + 1
  BY <1>1
<1>3. Range(b) = Range(acc) \cup {x}
  <2>1. Len(acc) + 1 \in DOMAIN b /\ DOMAIN acc \subseteq DOMAIN b
    BY <1>1
  <2>2. QED
    BY <1>1, <1>2, <2>1 DEF Range
<1>4. ASSUME IsInjective(acc), x \notin Range(acc) PROVE IsInjective(b)
  <2> SUFFICES ASSUME NEW i \in DOMAIN b, NEW j \in DOMAIN b, b[i] = b[j]
               PROVE  i = j
    BY DEF IsInjective
  <2>1. \A k \in DOMAIN acc : b[k] = acc[k] /\ acc[k] # x
    BY <1>1, <1>4 DEF Range
  <2>2. QED
    BY <1>1, <1>2, <1>4, <2>1 DEF IsInjective
<1>5. QED
  BY <1>1, <1>3, <1>4 DEF b

\* What pushing once does, for any sequence: the wanted ids join, each once.
LEMMA PushOnceIs ==
  ASSUME NEW out \in Seq(Int), NEW s \in Seq(Int), NEW wanted
  PROVE  /\ PushOnce(out, s, wanted) \in Seq(Int)
         /\ Range(PushOnce(out, s, wanted)) =
              Range(out) \cup (Range(s) \cap wanted)
         /\ IsInjective(out) => IsInjective(PushOnce(out, s, wanted))
<1>0. PICK pushed : /\ Pushing(pushed, out, s, wanted)
                    /\ PushOnce(out, s, wanted) = pushed[Len(s)]
  BY PushedIs
<1>1. /\ pushed \in [0 .. Len(s) -> Seq(Int)]
      /\ pushed[0] = out
      /\ \A k \in 1 .. Len(s) :
           pushed[k] = IF s[k] \in wanted \ Range(pushed[k - 1])
                         THEN Append(pushed[k - 1], s[k])
                         ELSE pushed[k - 1]
  BY <1>0 DEF Pushing
<1> DEFINE Opening(k) == {s[i] : i \in 1 .. k}
           Good(k) == /\ Range(pushed[k]) =
                           Range(out) \cup (Opening(k) \cap wanted)
                      /\ IsInjective(out) => IsInjective(pushed[k])
           Bad == {k \in 0 .. Len(s) : ~Good(k)}
<1>2. Good(0)
  <2>1. Opening(0) = {}
    OBVIOUS
  <2>2. QED
    BY <1>1, <2>1
<1>3. ASSUME NEW k \in 1 .. Len(s), Good(k - 1) PROVE Good(k)
  <2>1. Opening(k) = Opening(k - 1) \cup {s[k]}
    OBVIOUS
  <2>2. pushed[k - 1] \in Seq(Int) /\ s[k] \in Int
    <3>1. k - 1 \in 0 .. Len(s)
      OBVIOUS
    <3>2. pushed[k - 1] \in Seq(Int)
      BY <1>1, <3>1, Zenon
    <3>3. s[k] \in Int
      OBVIOUS
    <3>4. QED
      BY <3>2, <3>3, Zenon
  <2> HIDE DEF Opening
  <2>3. CASE s[k] \in wanted \ Range(pushed[k - 1])
    <3>1. pushed[k] = Append(pushed[k - 1], s[k])
      BY <1>1, <2>3
    <3>2. Range(pushed[k]) = Range(pushed[k - 1]) \cup {s[k]}
      BY <3>1, <2>2, OneMoreId
    <3>3. IsInjective(pushed[k - 1]) => IsInjective(pushed[k])
      BY <3>1, <2>2, <2>3, OneMoreId
    <3>4. QED
      BY <1>3, <2>1, <2>3, <3>2, <3>3
  <2>4. CASE s[k] \notin wanted \ Range(pushed[k - 1])
    <3>1. pushed[k] = pushed[k - 1]
      BY <1>1, <2>4
    <3>2. QED
      BY <1>3, <2>1, <2>4, <3>1
  <2>5. QED
    BY <2>3, <2>4
<1>4. Bad = {}
  <2> SUFFICES ASSUME Bad # {} PROVE FALSE
    OBVIOUS
  <2>1. Bad \in SUBSET Nat
    OBVIOUS
  <2>2. PICK k \in Bad : \A m \in Bad : k <= m
    <3> HIDE DEF Bad
    <3> QED
      BY <2>1, LeastNatural
  <2> HIDE DEF Good
  <2>3. k \in 1 .. Len(s)
    BY <1>2
  <2>4. k - 1 \in 0 .. Len(s) /\ k - 1 < k
    BY <2>3
  <2>5. Good(k - 1)
    BY <2>2, <2>4
  <2>6. QED
    BY <1>3, <2>3, <2>5
<1>5. Good(Len(s))
  <2> HIDE DEF Good
  <2> QED
    BY <1>4
<1>6. Opening(Len(s)) = Range(s)
  BY DEF Range
<1>7. pushed[Len(s)] \in Seq(Int)
  <2>1. Len(s) \in 0 .. Len(s)
    OBVIOUS
  <2>2. QED
    BY <1>1, <2>1, Zenon
<1>8. /\ Range(pushed[Len(s)]) = Range(out) \cup (Range(s) \cap wanted)
      /\ IsInjective(out) => IsInjective(pushed[Len(s)])
  BY <1>5, <1>6, Zenon
<1> HIDE DEF Opening, Good, Bad
<1>9. QED
  BY <1>0, <1>7, <1>8, Zenon

\* The ids pushed so far, once each: in the modes that return nodes or
\* declarations, those of the nodes added and those given to addOutput().
OutputInv ==
  /\ output \in Seq(Int) /\ IsInjective(output)
  /\ mode # "VARIABLE_SPACE" =>
       Range(output) = asked \cup UNION {NodeOutputs(n) : n \in Added}
  /\ mode = "IMPLICIT" => asked = {}
  /\ graph \in Graphs /\ mode \in AllModes /\ Added \subseteq Ids

\* Typing of a node's declared outputs.
LEMMA OutputsTyped ==
  ASSUME graph \in Graphs, NEW n \in Ids
  PROVE  n \in Int /\ graph[n].outputs \in Seq(Int)
BY GraphAssumption DEF NodeDefs

\* The external variables, listed.
LEMMA ListsTheSet ==
  SetToSeq(Externals) \in Seq(Int) /\ IsInjective(SetToSeq(Externals))
<1> DEFINE k == Cardinality(Externals)
<1>1. k \in Nat /\ ExistsBijection(1 .. k, Externals)
  BY GraphAssumption, FS_CardinalityType
<1>2. \E f \in [1 .. k -> Externals] : IsInjective(f)
  BY <1>1 DEF ExistsBijection, Bijection, Injection
<1>3. /\ SetToSeq(Externals) \in [1 .. k -> Externals]
      /\ IsInjective(SetToSeq(Externals))
  BY <1>2 DEF SetToSeq
<1>4. SetToSeq(Externals) \in [1 .. k -> Int]
  BY <1>3, GraphAssumption
<1>5. QED
  BY <1>1, <1>3, <1>4

LEMMA OutputInit == Init => OutputInv
<1> SUFFICES ASSUME Init PROVE OutputInv
  OBVIOUS
<1>1. SetToSeq(Externals) \in Seq(Int) /\ IsInjective(SetToSeq(Externals))
  BY ListsTheSet
<1>2. <<>> \in Seq(Int) /\ Range(<<>>) = {} /\ IsInjective(<<>>)
  BY DEF Range, IsInjective
<1>3. output \in {<<>>, SetToSeq(Externals)}
  BY DEF Init
<1>4. mode # "VARIABLE_SPACE" => output = <<>>
  BY DEF Init
<1>5. Added = {} /\ asked = {}
  BY DEF Init, Added, Mapped
<1>6. graph \in Graphs /\ mode \in AllModes
  BY GraphAssumption DEF Init
<1>7. QED
  BY <1>1, <1>2, <1>3, <1>4, <1>5, <1>6 DEF OutputInv

\* A step that pushes nothing and adds no node.
LEMMA OutputsStay ==
  ASSUME OutputInv, Added' = Added, UNCHANGED <<graph, mode, output, asked>>
  PROVE  OutputInv'
BY DEF OutputInv, NodeOutputs, HasInternalOutputs, NoOutputs

LEMMA OutputNext == PlacementInv /\ OutputInv /\ [Next]_vars => OutputInv'
<1> SUFFICES ASSUME PlacementInv, OutputInv, [Next]_vars PROVE OutputInv'
  OBVIOUS
<1>1. ASSUME NEW n \in Ids, AddNode(n) PROVE OutputInv'
  <2> DEFINE s == <<n>> \o graph[n].outputs
  <2>1. Added' = Added \cup {n}
    BY <1>1 DEF AddNode, PlaceOrWait, Place, Added, Mapped
  <2>2. /\ UNCHANGED <<graph, mode, asked>>
        /\ output' = PushOnce(output, s, NodeOutputs(n))
    BY <1>1 DEF AddNode, PushOutputs
  <2>3. n \in Int /\ graph[n].outputs \in Seq(Int)
    BY OutputsTyped DEF OutputInv
  <2>4. s \in Seq(Int) /\ Range(s) = {n} \cup Range(graph[n].outputs)
    <3> DEFINE o == graph[n].outputs
    <3> HIDE DEF o
    <3>1. o \in Seq(Int)
      BY <2>3 DEF o
    <3> DEFINE t == <<n>> \o o
    <3>2. /\ t \in Seq(Int) /\ DOMAIN t = 1 .. (Len(o) + 1) /\ t[1] = n
          /\ \A i \in 1 .. Len(o) : t[i + 1] = o[i]
          /\ Len(o) \in Nat /\ DOMAIN o = 1 .. Len(o)
      BY <2>3, <3>1
    <3> HIDE DEF t
    <3>3. ASSUME NEW i \in DOMAIN t PROVE t[i] \in {n} \cup Range(o)
      <4>1. i = 1 \/ (i - 1 \in 1 .. Len(o) /\ (i - 1) + 1 = i)
        BY <3>2
      <4>2. QED
        BY <3>2, <4>1 DEF Range
    <3>4. ASSUME NEW i \in DOMAIN o PROVE o[i] \in Range(t)
      <4>1. i + 1 \in DOMAIN t /\ t[i + 1] = o[i]
        BY <3>2
      <4>2. QED
        BY <4>1 DEF Range
    <3>5. n \in Range(t)
      <4>1. 1 \in DOMAIN t
        BY <3>2
      <4>2. QED
        BY <3>2, <4>1 DEF Range
    <3>6. Range(t) = {n} \cup Range(o)
      BY <3>3, <3>4, <3>5 DEF Range
    <3>7. QED
      BY <3>2, <3>6 DEF t, o
  <2>5. NodeOutputs(n) \subseteq Range(s)
    BY <2>4 DEF NodeOutputs
  <2> HIDE DEF s
  <2>6. /\ output' \in Seq(Int) /\ IsInjective(output')
        /\ Range(output') = Range(output) \cup NodeOutputs(n)
    BY <2>2, <2>4, <2>5, PushOnceIs DEF OutputInv
  <2>7. \A m \in Ids : NodeOutputs(m)' = NodeOutputs(m)
    BY <2>2 DEF NodeOutputs, HasInternalOutputs, NoOutputs
  <2>8. UNION {NodeOutputs(m)' : m \in Added'} =
          NodeOutputs(n) \cup UNION {NodeOutputs(m) : m \in Added}
    BY <2>1, <2>7 DEF OutputInv
  <2>9. QED
    BY <2>1, <2>2, <2>6, <2>8 DEF OutputInv
<1>2. ASSUME NEW id \in Ids \cup Externals, AddOutput(id) PROVE OutputInv'
  <2>1. /\ UNCHANGED <<graph, mode, layer, unmapped>>
        /\ mode \in {"EXPLICIT", "EXPLICIT_AND_IMPLICIT"}
        /\ output' = PushOnce(output, <<id>>, {id})
        /\ asked' = asked \cup {id}
    BY <1>2 DEF AddOutput
  <2>2. id \in Int /\ <<id>> \in Seq(Int) /\ Range(<<id>>) = {id}
    BY GraphAssumption DEF Range
  <2>3. /\ output' \in Seq(Int) /\ IsInjective(output')
        /\ Range(output') = Range(output) \cup {id}
    <3> DEFINE s == <<id>>
    <3>1. s \in Seq(Int) /\ Range(s) \cap {id} = {id}
      BY <2>2
    <3> HIDE DEF s
    <3>2. /\ PushOnce(output, s, {id}) \in Seq(Int)
          /\ Range(PushOnce(output, s, {id})) = Range(output) \cup {id}
          /\ IsInjective(PushOnce(output, s, {id}))
      BY <3>1, PushOnceIs DEF OutputInv
    <3>3. output' = PushOnce(output, s, {id})
      BY <2>1 DEF s
    <3>4. QED
      BY <3>2, <3>3
  <2>4. Added' = Added
    BY <2>1 DEF Added, Mapped
  <2>5. \A m \in Ids : NodeOutputs(m)' = NodeOutputs(m)
    BY <2>1 DEF NodeOutputs, HasInternalOutputs, NoOutputs
  <2>6. UNION {NodeOutputs(m)' : m \in Added'} =
          UNION {NodeOutputs(m) : m \in Added}
    BY <2>4, <2>5 DEF OutputInv
  <2>7. QED
    BY <2>1, <2>3, <2>4, <2>6 DEF OutputInv
<1>3. CASE BuildEnd
  <2> DEFINE s == SetToSeq(Externals)
  <2>1. UNCHANGED <<graph, mode, asked, layer, unmapped>>
    BY <1>3 DEF BuildEnd, buildVars
  <2>2. Added' = Added
    BY <2>1 DEF Added, Mapped
  <2>3. CASE mode # "VARIABLE_SPACE"
    <3>1. output' = output
      BY <1>3, <2>3 DEF BuildEnd
    <3>2. QED
      BY <2>1, <2>2, <3>1, OutputsStay
  <2>4. CASE mode = "VARIABLE_SPACE"
    <3>1. output' = PushOnce(output, s, Externals)
      BY <1>3, <2>4 DEF BuildEnd
    <3>2. s \in Seq(Int)
      BY ListsTheSet
    <3>3. output' \in Seq(Int) /\ IsInjective(output')
      BY <3>1, <3>2, PushOnceIs DEF OutputInv
    <3>4. QED
      BY <2>1, <2>2, <2>4, <3>3 DEF OutputInv
  <2>5. QED
    BY <2>3, <2>4
<1>4. ASSUME layer' = layer, unmapped' = unmapped,
             UNCHANGED <<graph, mode, output, asked>>
      PROVE  OutputInv'
  BY <1>4, OutputsStay DEF Added, Mapped
<1>5. ASSUME pc = "visit", NEW l, Place(cursor, l),
             unmapped' = unmapped \ {cursor},
             UNCHANGED <<graph, mode, output, asked>>
      PROVE  OutputInv'
  <2>1. cursor \in unmapped
    BY <1>5 DEF PlacementInv, SweepInv
  <2>2. Added' = Added
    BY <1>5, <2>1 DEF Place, Added, Mapped
  <2>3. QED
    BY <1>5, <2>2, OutputsStay
<1>6. CASE BuildBegin
  BY <1>4, <1>6 DEF BuildBegin, buildVars
<1>7. CASE Sweep
  BY <1>4, <1>7 DEF Sweep, buildVars
<1>8. CASE VisitSingle
  BY <1>5, <1>8 DEF VisitSingle, buildVars
<1>9. CASE SkipSingle
  BY <1>4, <1>9 DEF SkipSingle, buildVars
<1>10. CASE VisitMulti
  BY <1>5, <1>10 DEF VisitMulti, buildVars
<1>11. CASE UNCHANGED vars
  BY <1>4, <1>11 DEF vars
<1>12. QED
  BY <1>1, <1>2, <1>3, <1>6, <1>7, <1>8, <1>9, <1>10, <1>11
  DEF Next, BuildStep

\* In whatever order nodes and declarations came in, _output has each id once
\* and exactly those its mode promises, although addNode() judges every node by
\* its own declarations alone: of a client that declares who is read.
THEOREM OutputsFollowMode == Spec => []OutputsByMode
<1>1. OutputInv => OutputsByMode
  <2> SUFFICES ASSUME OutputInv, Added = Ids
               PROVE  /\ IsInjective(output)
                      /\ mode = "EXPLICIT" => Range(output) = asked
                      /\ ConsumersDeclared =>
                           /\ mode = "IMPLICIT" => Range(output) = FinalOutputs
                           /\ mode = "EXPLICIT_AND_IMPLICIT" =>
                                Range(output) = asked \cup FinalOutputs
    BY DEF OutputsByMode
  <2>1. ASSUME mode = "EXPLICIT", NEW n \in Ids PROVE NodeOutputs(n) = {}
    BY <2>1 DEF NodeOutputs
  <2>2. ASSUME mode = "EXPLICIT" PROVE Range(output) = asked
    <3>1. \A n \in Ids : NodeOutputs(n) = {}
      BY <2>1, <2>2
    <3>2. UNION {NodeOutputs(n) : n \in Ids} = {}
      BY <3>1
    <3>3. QED
      BY <2>2, <3>2 DEF OutputInv
  <2>3. ASSUME ConsumersDeclared, mode \in {"IMPLICIT", "EXPLICIT_AND_IMPLICIT"}
        PROVE  UNION {NodeOutputs(n) : n \in Ids} = FinalOutputs
    <3> DEFINE Own(n) == IF NoOutputs(n) THEN {n}
                         ELSE {o \in Range(graph[n].outputs) : o < 0}
    <3>1. \A n \in Ids : Final(n) <=> ~HasInternalOutputs(n) \/ NoOutputs(n)
      BY <2>3 DEF ConsumersDeclared, Final
    <3>2. ASSUME NEW n \in Ids, Final(n) PROVE NodeOutputs(n) = Own(n)
      BY <2>3, <3>1, <3>2 DEF NodeOutputs
    <3>3. ASSUME NEW n \in Ids, ~Final(n) PROVE NodeOutputs(n) = {}
      BY <2>3, <3>1, <3>3 DEF NodeOutputs
    <3>4. FinalOutputs = UNION {Own(n) : n \in {m \in Ids : Final(m)}}
      BY DEF FinalOutputs
    <3> HIDE DEF Own
    <3>5. QED
      BY <3>2, <3>3, <3>4
  <2>4. QED
    BY <2>2, <2>3 DEF OutputInv
<1>2. QED
  BY <1>1, OutputInit, OutputNext, PlacementInit, PlacementNext, PTL DEF Spec

=============================================================================
