------------------------ MODULE GraphExecutionerProofs ------------------------
(***************************************************************************)
(* Proofs about GraphExecutioner: for every set of graphs, any number of   *)
(* nodes and of executions, and any order within a layer.                  *)
(***************************************************************************)
EXTENDS GraphExecutioner, FiniteSetTheorems, NaturalsInduction,
        WellFoundedInduction, TLAPS

-----------------------------------------------------------------------------
(* Smallest and greatest elements, for the operators that CHOOSE them.     *)

\* A set of naturals that is not empty has a smallest element.
LEMMA LeastNatural ==
  ASSUME NEW S \in SUBSET Nat, S # {}
  PROVE  \E x \in S : \A y \in S : x <= y
<1> DEFINE Less == {ss \in Nat \X Nat : ss[1] < ss[2]}
<1>1. IsWellFoundedOn(Less, Nat)
  BY NatLessThanWellFounded DEF OpToRel
<1>2. \E x \in S : \A y \in S : ~ (<<y, x>> \in Less)
  <2> HIDE DEF Less
  <2> QED
    BY <1>1, WFMin
<1>3. ASSUME NEW x \in S, NEW y \in S, ~ (<<y, x>> \in Less)
      PROVE  x <= y
  <2>1. x \in Nat /\ y \in Nat
    OBVIOUS
  <2>2. ~ (y < x)
    BY <1>3, <2>1
  <2>3. QED
    BY <2>1, <2>2
<1>4. QED
  <2> HIDE DEF Less
  <2> QED
    BY <1>2, <1>3

\* A bounded set of naturals has a maximum, 0 when it is empty.
LEMMA GreatestNatural ==
  ASSUME NEW k \in Nat, NEW S \in SUBSET (0 .. k)
  PROVE  \E x \in S \cup {0} : \A y \in S : y <= x
<1> DEFINE Bounds == {u \in Nat : \A y \in S : y <= u}
<1>1. k \in Bounds
  OBVIOUS
<1>2. PICK u \in Bounds : \A v \in Bounds : u <= v
  BY <1>1, LeastNatural
<1>3. CASE u \in S \cup {0}
  BY <1>2, <1>3
<1>4. CASE u \notin S \cup {0}
  <2>1. u - 1 \in Bounds
    BY <1>2, <1>4
  <2>2. QED
    BY <1>2, <2>1
<1>5. QED
  BY <1>3, <1>4

-----------------------------------------------------------------------------
(* Graphs: their types, layers and meaning.                                *)

\* A finite list of naturals has a bound.
LEMMA BoundedList ==
  ASSUME NEW k \in Nat, NEW f \in [1 .. k -> Nat]
  PROVE  \E b \in Nat : \A i \in 1 .. k : f[i] <= b
<1> DEFINE Bounded(j) == \E b \in Nat : \A i \in 1 .. j : f[i] <= b
           Bad == {j \in 0 .. k : ~Bounded(j)}
<1>1. Bounded(0)
  OBVIOUS
<1>2. ASSUME NEW j \in 1 .. k, Bounded(j - 1) PROVE Bounded(j)
  <2>1. PICK b \in Nat : \A i \in 1 .. j - 1 : f[i] <= b
    BY <1>2
  <2>2. PICK c \in {b, f[j]} : b <= c /\ f[j] <= c
    OBVIOUS
  <2>3. c \in Nat /\ \A i \in 1 .. j : f[i] <= c
    <3>1. c \in Nat
      OBVIOUS
    <3>2. ASSUME NEW i \in 1 .. j PROVE f[i] <= c
      <4>1. i = j \/ i \in 1 .. j - 1
        OBVIOUS
      <4>2. CASE i = j
        BY <2>2, <4>2
      <4>3. CASE i \in 1 .. j - 1
        <5>1. f[i] \in Nat /\ f[i] <= b
          BY <2>1, <4>3
        <5>2. QED
          BY <2>2, <3>1, <5>1
      <4>4. QED
        BY <4>1, <4>2, <4>3
    <3>3. QED
      BY <3>1, <3>2
  <2>4. QED
    BY <2>3
<1>3. Bad = {}
  <2> SUFFICES ASSUME Bad # {} PROVE FALSE
    OBVIOUS
  <2>1. Bad \in SUBSET Nat
    OBVIOUS
  <2>2. PICK j \in Bad : \A m \in Bad : j <= m
    <3> HIDE DEF Bad
    <3> QED
      BY <2>1, LeastNatural
  <2> HIDE DEF Bounded
  <2>3. j \in 1 .. k /\ j - 1 \in 0 .. k /\ j - 1 < j
    BY <1>1
  <2>4. Bounded(j - 1)
    BY <2>2, <2>3
  <2>5. QED
    BY <1>2, <2>3, <2>4
<1>4. Bounded(k)
  <2> HIDE DEF Bounded
  <2> QED
    BY <1>3
<1>5. QED
  BY <1>4

\* There is a highest node id, or none.
LEMMA IdsBounded == \E k \in Nat : \A n \in Ids : n <= k
<1>1. IsFiniteSet(Ids) /\ Ids \subseteq Nat
  BY ExecutionAssumption
<1> DEFINE c == Cardinality(Ids)
<1>2. c \in Nat /\ ExistsBijection(1 .. c, Ids)
  BY <1>1, FS_CardinalityType
<1>3. PICK f \in [1 .. c -> Ids] : \A n \in Ids : \E i \in 1 .. c : f[i] = n
  BY <1>2 DEF ExistsBijection, Bijection, Injection, Surjection
<1>4. f \in [1 .. c -> Nat]
  BY <1>1
<1>5. PICK b \in Nat : \A i \in 1 .. c : f[i] <= b
  BY <1>2, <1>4, BoundedList
<1>6. QED
  BY <1>3, <1>5

\* What kinds of variables there are.
LEMMA VarKinds ==
  /\ Ids \subseteq Nat \ {0} /\ Vars \subseteq Int
  /\ \A v \in InputVars \cup OutputVars : v \in Int /\ v < 0
  /\ Ids \cap InputVars = {} /\ Ids \cap OutputVars = {}
  /\ InputVars \cap OutputVars = {}
<1>1. Ids \subseteq Nat \ {0}
  BY ExecutionAssumption
<1>2. \A v \in InputVars \cup OutputVars : v \in Int /\ v < 0
  BY ExecutionAssumption
<1>3. \A n \in Ids : n \in Int /\ n > 0
  BY <1>1
<1>4. InputVars \cap OutputVars = {}
  BY ExecutionAssumption
<1>5. \A n \in Ids : n \notin InputVars /\ n \notin OutputVars
  <2> SUFFICES ASSUME NEW n \in Ids, n \in InputVars \cup OutputVars
               PROVE  FALSE
    OBVIOUS
  <2>1. n \in Int /\ n > 0 /\ n < 0
    BY <1>2, <1>3
  <2>2. QED
    BY <2>1
<1>6. QED
  BY <1>1, <1>2, <1>3, <1>4, <1>5 DEF Vars

\* A node of a graph: it reads something, and nothing numbered above it.
LEMMA NodeTyped ==
  ASSUME NEW g \in Graphs, NEW n \in Ids
  PROVE  /\ g[n].op \in OpTypes
         /\ g[n].inputs \in Seq(Ids \cup InputVars)
         /\ Len(g[n].inputs) \in Nat \ {0}
         /\ DOMAIN g[n].inputs = 1 .. Len(g[n].inputs)
         /\ g[n].inputs[1] \in Range(g[n].inputs)
         /\ Range(g[n].inputs) \subseteq Ids \cup InputVars
         /\ \A v \in Range(g[n].inputs) : v < n
         /\ g[n].outputs \in Seq(Nat \cup OutputVars)
         /\ \A o \in Range(g[n].outputs) : o < 0 => o \in OutputVars
<1>1. g[n] \in NodeDefs /\ \A i \in DOMAIN g[n].inputs : g[n].inputs[i] < n
  BY ExecutionAssumption
<1> DEFINE ins == g[n].inputs
           outs == g[n].outputs
<1>2. /\ g[n].op \in OpTypes
      /\ ins \in Seq(Ids \cup InputVars) /\ ins # <<>>
      /\ outs \in Seq(Nat \cup OutputVars)
  BY <1>1 DEF NodeDefs
<1>3. Len(ins) \in Nat \ {0} /\ DOMAIN ins = 1 .. Len(ins)
  BY <1>2
<1>4. ins[1] \in Range(ins) /\ Range(ins) \subseteq Ids \cup InputVars
  BY <1>2, <1>3 DEF Range
<1>5. \A v \in Range(ins) : v < n
  BY <1>1 DEF Range
<1>6. \A o \in Range(outs) : o < 0 => o \in OutputVars
  BY <1>2 DEF Range
<1>7. QED
  BY <1>2, <1>3, <1>4, <1>5, <1>6

\* The ids up to k: what is known of a recursive function on a graph so far.
Below(k) == {n \in Ids : n <= k}

LEMMA IdsPositive == \A n \in Ids : n \in Nat /\ n \in Int /\ n > 0
BY ExecutionAssumption

LEMMA BelowIs ==
  /\ Below(0) = {}
  /\ \A k \in Nat \ {0} :
       /\ k \notin Ids => Below(k) = Below(k - 1)
       /\ \A n \in Below(k) : n = k \/ (n # k /\ n \in Below(k - 1))
       /\ k \notin Below(k - 1) /\ Below(k - 1) \subseteq Below(k)
       /\ k \in Ids => k \in Below(k)
<1>1. Below(0) = {}
  BY IdsPositive DEF Below
<1>2. ASSUME NEW k \in Nat \ {0}
      PROVE  /\ \A n \in Below(k) : n = k \/ (n # k /\ n \in Below(k - 1))
             /\ k \notin Below(k - 1) /\ Below(k - 1) \subseteq Below(k)
             /\ k \in Ids => k \in Below(k)
  <2>1. \A n \in Ids : n \in Nat /\ (n <= k <=> n = k \/ n <= k - 1)
    BY IdsPositive
  <2>2. ~ (k <= k - 1) /\ k <= k
    OBVIOUS
  <2>3. QED
    BY <2>1, <2>2 DEF Below
<1>3. \A k \in Nat \ {0} : k \notin Ids => Below(k) = Below(k - 1)
  <2> SUFFICES ASSUME NEW k \in Nat \ {0}, k \notin Ids
               PROVE  Below(k) = Below(k - 1)
    OBVIOUS
  <2>1. k \notin Below(k)
    BY DEF Below
  <2>2. QED
    BY <1>2, <2>1
<1>4. QED
  BY <1>1, <1>2, <1>3

\* Producers are numbered lower than their readers.
LEMMA ProducersBelow ==
  ASSUME NEW g \in Graphs, NEW n \in Ids, NEW p \in Range(g[n].inputs) \cap Ids
  PROVE  /\ p \in Nat /\ n \in Nat /\ p < n
         /\ \A k \in Nat \ {0} : n \in Below(k) => p \in Below(k - 1)
<1>1. p \in Nat /\ n \in Nat /\ p < n
  BY NodeTyped, IdsPositive
<1>2. \A k \in Nat \ {0} : n <= k => p <= k - 1
  BY <1>1
<1>3. QED
  BY <1>1, <1>2 DEF Below

\* The layer of node n when those of its producers are f.
LayerFrom(f, g, n) ==
  LET above == {f[p] + 1 : p \in Range(g[n].inputs) \cap Ids}
  IN  CHOOSE l \in above \cup {0} : \A k \in above : k <= l

\* It is above all of them, and looks at nothing else of f.
LEMMA LayerFromIs ==
  ASSUME NEW g \in Graphs, NEW n \in Ids, NEW f,
         \A p \in Range(g[n].inputs) \cap Ids : f[p] \in Nat
  PROVE  /\ LayerFrom(f, g, n) \in Nat
         /\ \A p \in Range(g[n].inputs) \cap Ids : f[p] < LayerFrom(f, g, n)
<1> DEFINE ins == g[n].inputs
           above == {f[p] + 1 : p \in Range(ins) \cap Ids}
           list == [i \in 1 .. Len(ins) |->
                      IF ins[i] \in Ids THEN f[ins[i]] + 1 ELSE 0]
<1>1. Len(ins) \in Nat /\ DOMAIN ins = 1 .. Len(ins)
  BY NodeTyped
<1>2. list \in [1 .. Len(ins) -> Nat]
  <2>1. ASSUME NEW i \in 1 .. Len(ins), ins[i] \in Ids PROVE f[ins[i]] \in Nat
    BY <1>1, <2>1 DEF Range
  <2>2. QED
    BY <2>1
<1>3. PICK b \in Nat : \A i \in 1 .. Len(ins) : list[i] <= b
  <2> HIDE DEF list
  <2> QED
    BY <1>1, <1>2, BoundedList
<1>4. \A p \in Range(ins) \cap Ids : \E i \in 1 .. Len(ins) : list[i] = f[p] + 1
  BY <1>1 DEF Range
<1>5. above \in SUBSET (0 .. b)
  <2> SUFFICES ASSUME NEW p \in Range(ins) \cap Ids PROVE f[p] + 1 \in 0 .. b
    OBVIOUS
  <2>1. f[p] \in Nat
    OBVIOUS
  <2>2. PICK i \in 1 .. Len(ins) : list[i] = f[p] + 1
    BY <1>4
  <2> HIDE DEF list
  <2>3. QED
    BY <1>3, <2>1, <2>2
<1>6. \E l \in above \cup {0} : \A k \in above : k <= l
  <2> HIDE DEF above
  <2> QED
    BY <1>5, GreatestNatural
<1> DEFINE l == LayerFrom(f, g, n)
<1>7. l \in above \cup {0} /\ \A k \in above : k <= l
  <2> HIDE DEF above
  <2>1. l = CHOOSE x \in above \cup {0} : \A k \in above : k <= x
    BY DEF LayerFrom, above
  <2> HIDE DEF l
  <2>2. QED
    BY <1>6, <2>1
<1>8. l \in Nat
  <2> HIDE DEF above, l
  <2> QED
    BY <1>5, <1>7
<1>9. ASSUME NEW p \in Range(ins) \cap Ids PROVE f[p] < l
  <2>1. f[p] + 1 \in above /\ f[p] \in Nat
    OBVIOUS
  <2>2. f[p] + 1 <= l
    BY <1>7, <2>1
  <2> HIDE DEF l, above
  <2>3. QED
    BY <1>8, <2>1, <2>2
<1>10. QED
  BY <1>8, <1>9

LEMMA LayerFromSame ==
  ASSUME NEW g \in Graphs, NEW n \in Ids, NEW f, NEW h,
         \A p \in Range(g[n].inputs) \cap Ids : f[p] = h[p]
  PROVE  LayerFrom(f, g, n) = LayerFrom(h, g, n)
<1>1. {f[p] + 1 : p \in Range(g[n].inputs) \cap Ids} =
        {h[p] + 1 : p \in Range(g[n].inputs) \cap Ids}
  OBVIOUS
<1>2. QED
  BY <1>1 DEF LayerFrom

\* The layers exist, and every producer is in a lower one than its readers.
LEMMA LayersAre ==
  ASSUME NEW g \in Graphs
  PROVE  /\ Layers(g) \in [Ids -> Nat]
         /\ \A n \in Ids : \A p \in Range(g[n].inputs) \cap Ids :
              Layers(g)[p] < Layers(g)[n]
<1> DEFINE Rec(f, k) == f = [n \in Below(k) |-> LayerFrom(f, g, n)]
           Has(k) == \E f \in [Below(k) -> Nat] : Rec(f, k)
<1>1. Has(0)
  <2>1. Below(0) = {}
    BY BelowIs
  <2> DEFINE f == [n \in Below(0) |-> 0]
  <2>2. f \in [Below(0) -> Nat] /\ Rec(f, 0)
    BY <2>1
  <2> HIDE DEF Rec, f
  <2>3. QED
    BY <2>2
<1>2. ASSUME NEW k \in Nat \ {0}, Has(k - 1) PROVE Has(k)
  <2>1. CASE k \notin Ids
    <3>1. Below(k) = Below(k - 1)
      BY <2>1, BelowIs
    <3>2. QED
      BY <1>2, <3>1
  <2>2. CASE k \in Ids
    <3>1. PICK f \in [Below(k - 1) -> Nat] : Rec(f, k - 1)
      <4> HIDE DEF Rec
      <4> QED
        BY <1>2
    <3>2. /\ \A n \in Below(k) : n = k \/ (n # k /\ n \in Below(k - 1))
          /\ k \in Below(k) /\ k \notin Below(k - 1)
          /\ Below(k - 1) \subseteq Below(k)
      BY <2>2, BelowIs
    <3>3. ASSUME NEW n \in Below(k)
          PROVE  Range(g[n].inputs) \cap Ids \subseteq Below(k - 1)
      BY ProducersBelow DEF Below
    <3> DEFINE h == [n \in Below(k) |->
                       IF n = k THEN LayerFrom(f, g, k) ELSE f[n]]
    <3>4. LayerFrom(f, g, k) \in Nat
      BY <2>2, <3>2, <3>3, LayerFromIs
    <3>5. h \in [Below(k) -> Nat]
      BY <3>2, <3>4
    <3>6. ASSUME NEW n \in Below(k) PROVE h[n] = LayerFrom(h, g, n)
      <4>1. \A p \in Below(k - 1) : h[p] = f[p]
        BY <3>2
      <4>2. n \in Ids /\ \A p \in Range(g[n].inputs) \cap Ids : f[p] = h[p]
        BY <3>3, <4>1 DEF Below
      <4>3. LayerFrom(f, g, n) = LayerFrom(h, g, n)
        <5> HIDE DEF h
        <5> QED
          BY <4>2, LayerFromSame
      <4>4. CASE n = k
        BY <4>3, <4>4
      <4>5. CASE n # k
        <5>1. n \in Below(k - 1) /\ h[n] = f[n]
          BY <3>2, <4>5
        <5>2. f[n] = LayerFrom(f, g, n)
          <6> HIDE DEF h
          <6> QED
            BY <3>1, <5>1
        <5>3. QED
          BY <4>3, <5>1, <5>2
      <4>6. QED
        BY <4>4, <4>5
    <3>7. Rec(h, k)
      <4>1. h = [n \in Below(k) |-> h[n]]
        OBVIOUS
      <4> HIDE DEF h
      <4>2. QED
        BY <3>6, <4>1
    <3> HIDE DEF h, Rec
    <3>8. QED
      BY <3>5, <3>7
  <2>3. QED
    BY <2>1, <2>2
<1>3. \A k \in Nat : Has(k)
  <2> DEFINE Bad == {k \in Nat : ~Has(k)}
  <2> HIDE DEF Has
  <2> SUFFICES ASSUME Bad # {} PROVE FALSE
    OBVIOUS
  <2>1. Bad \in SUBSET Nat
    OBVIOUS
  <2>2. PICK k \in Bad : \A m \in Bad : k <= m
    <3> HIDE DEF Bad
    <3> QED
      BY <2>1, LeastNatural
  <2>3. k \in Nat \ {0}
    BY <1>1
  <2>4. k - 1 \in Nat /\ k - 1 < k
    BY <2>3
  <2>5. Has(k - 1)
    BY <2>2, <2>4
  <2>6. QED
    BY <1>2, <2>3, <2>5
<1>4. PICK k \in Nat : Below(k) = Ids
  BY IdsBounded DEF Below
<1> DEFINE Whole(f) == f = [n \in Ids |-> LayerFrom(f, g, n)]
<1>5. \E f : Whole(f)
  <2>1. PICK f \in [Below(k) -> Nat] : Rec(f, k)
    <3> HIDE DEF Rec
    <3> QED
      BY <1>3
  <2>2. Whole(f)
    BY <1>4, <2>1
  <2> HIDE DEF Whole
  <2>3. QED
    BY <2>2
<1> DEFINE layer == CHOOSE f : Whole(f)
<1>6. Layers(g) = layer
  BY DEF Layers, LayerFrom
<1>7. Whole(layer)
  <2> HIDE DEF Whole
  <2> QED
    BY <1>5
<1> HIDE DEF layer
<1>8. \A n \in Ids : layer[n] = LayerFrom(layer, g, n)
  BY <1>7
<1>9. \A n \in Ids : layer[n] \in Nat
  <2> DEFINE Odd == {n \in Ids : layer[n] \notin Nat}
  <2> SUFFICES ASSUME Odd # {} PROVE FALSE
    OBVIOUS
  <2>1. Odd \in SUBSET Nat
    BY ExecutionAssumption
  <2>2. PICK n \in Odd : \A m \in Odd : n <= m
    <3> HIDE DEF Odd
    <3> QED
      BY <2>1, LeastNatural
  <2>3. n \in Ids /\ n \in Int
    BY <2>1
  <2>4. ASSUME NEW p \in Range(g[n].inputs) \cap Ids PROVE layer[p] \in Nat
    <3>1. p < n /\ p \in Nat /\ n \in Nat
      BY <2>3, ProducersBelow
    <3>2. p \notin Odd
      <4> HIDE DEF Odd
      <4> QED
        BY <2>2, <3>1
    <3>3. QED
      BY <3>2
  <2>5. LayerFrom(layer, g, n) \in Nat
    BY <2>3, <2>4, LayerFromIs
  <2>6. QED
    BY <1>8, <2>3, <2>5
<1>10. \A n \in Ids : \A p \in Range(g[n].inputs) \cap Ids :
         layer[p] < layer[n]
  BY <1>8, <1>9, LayerFromIs
<1>11. layer \in [Ids -> Nat]
  BY <1>7, <1>9
<1>12. QED
  BY <1>6, <1>10, <1>11

\* What variable u means in run r when its inputs mean f.
TermFrom(f, g, r, u) ==
  IF u \in InputVars
    THEN <<"in", u, r>>
    ELSE <<"op", u, [i \in DOMAIN g[u].inputs |-> f[g[u].inputs[i]]]>>

LEMMA TermFromSame ==
  ASSUME NEW g \in Graphs, NEW r, NEW u \in InputVars \cup Ids, NEW f, NEW h,
         u \in Ids => \A p \in Range(g[u].inputs) : f[p] = h[p]
  PROVE  TermFrom(f, g, r, u) = TermFrom(h, g, r, u)
<1>1. CASE u \in InputVars
  BY <1>1 DEF TermFrom
<1>2. CASE u \in Ids
  <2>1. \A i \in DOMAIN g[u].inputs : f[g[u].inputs[i]] = h[g[u].inputs[i]]
    BY <1>2 DEF Range
  <2>2. [i \in DOMAIN g[u].inputs |-> f[g[u].inputs[i]]] =
          [i \in DOMAIN g[u].inputs |-> h[g[u].inputs[i]]]
    BY <2>1
  <2>3. QED
    BY <2>2 DEF TermFrom
<1>3. QED
  BY <1>1, <1>2

\* Every variable has a meaning, made of those of its node's inputs.
LEMMA MeaningsAre ==
  ASSUME NEW g \in Graphs, NEW r
  PROVE  /\ \A e \in InputVars : Meanings(g, r)[e] = <<"in", e, r>>
         /\ \A n \in Ids : Meanings(g, r)[n] =
              <<"op", n, [i \in DOMAIN g[n].inputs |->
                            Meanings(g, r)[g[n].inputs[i]]]>>
<1> DEFINE Known(k) == InputVars \cup Below(k)
           Rec(f, k) == f = [u \in Known(k) |-> TermFrom(f, g, r, u)]
           Has(k) == \E f : Rec(f, k)
<1>1. Has(0)
  <2> DEFINE f == [u \in Known(0) |-> <<"in", u, r>>]
  <2>1. \A u \in Known(0) : u \in InputVars
    BY BelowIs
  <2>2. Rec(f, 0)
    <3>1. \A u \in Known(0) : TermFrom(f, g, r, u) = <<"in", u, r>>
      BY <2>1 DEF TermFrom
    <3> HIDE DEF Known
    <3>2. QED
      BY <3>1
  <2> HIDE DEF Rec, f
  <2>3. QED
    BY <2>2
<1>2. ASSUME NEW k \in Nat \ {0}, Has(k - 1) PROVE Has(k)
  <2>1. CASE k \notin Ids
    <3>1. Below(k) = Below(k - 1)
      BY <2>1, BelowIs
    <3>2. QED
      BY <1>2, <3>1
  <2>2. CASE k \in Ids
    <3>1. PICK f : Rec(f, k - 1)
      <4> HIDE DEF Rec
      <4> QED
        BY <1>2
    <3>2. /\ \A u \in Known(k) : u = k \/ (u # k /\ u \in Known(k - 1))
          /\ k \in Known(k) /\ k \notin Known(k - 1)
          /\ Known(k - 1) \subseteq Known(k)
      BY <2>2, BelowIs, VarKinds
    <3>3. ASSUME NEW u \in Known(k), u \in Ids
          PROVE  Range(g[u].inputs) \subseteq Known(k - 1)
      <4>1. u \in Below(k)
        BY <3>3, VarKinds
      <4>2. Range(g[u].inputs) \subseteq Ids \cup InputVars
        BY <3>3, NodeTyped
      <4>3. QED
        BY <3>3, <4>1, <4>2, ProducersBelow
    <3> DEFINE h == [u \in Known(k) |->
                       IF u = k THEN TermFrom(f, g, r, k) ELSE f[u]]
    <3>4. ASSUME NEW u \in Known(k) PROVE h[u] = TermFrom(h, g, r, u)
      <4>1. \A p \in Known(k - 1) : h[p] = f[p]
        BY <3>2
      <4>2. /\ u \in InputVars \cup Ids
            /\ u \in Ids => \A p \in Range(g[u].inputs) : f[p] = h[p]
        BY <3>3, <4>1 DEF Below
      <4>3. TermFrom(f, g, r, u) = TermFrom(h, g, r, u)
        <5> HIDE DEF h
        <5> QED
          BY <4>2, TermFromSame
      <4>4. CASE u = k
        BY <4>3, <4>4
      <4>5. CASE u # k
        <5>1. u \in Known(k - 1) /\ h[u] = f[u]
          BY <3>2, <4>5
        <5>2. f[u] = TermFrom(f, g, r, u)
          <6> HIDE DEF h, Known
          <6> QED
            BY <3>1, <5>1
        <5>3. QED
          BY <4>3, <5>1, <5>2
      <4>6. QED
        BY <4>4, <4>5
    <3>5. Rec(h, k)
      <4>1. h = [u \in Known(k) |-> h[u]]
        OBVIOUS
      <4> HIDE DEF h, Known
      <4>2. QED
        BY <3>4, <4>1
    <3> HIDE DEF h, Rec
    <3>6. QED
      BY <3>5
  <2>3. QED
    BY <2>1, <2>2
<1>3. \A k \in Nat : Has(k)
  <2> DEFINE Bad == {k \in Nat : ~Has(k)}
  <2> HIDE DEF Has
  <2> SUFFICES ASSUME Bad # {} PROVE FALSE
    OBVIOUS
  <2>1. Bad \in SUBSET Nat
    OBVIOUS
  <2>2. PICK k \in Bad : \A m \in Bad : k <= m
    <3> HIDE DEF Bad
    <3> QED
      BY <2>1, LeastNatural
  <2>3. k \in Nat \ {0}
    BY <1>1
  <2>4. k - 1 \in Nat /\ k - 1 < k
    BY <2>3
  <2>5. Has(k - 1)
    BY <2>2, <2>4
  <2>6. QED
    BY <1>2, <2>3, <2>5
<1>4. PICK k \in Nat : Below(k) = Ids
  BY IdsBounded DEF Below
<1> DEFINE Whole(f) == f = [u \in Ids \cup InputVars |-> TermFrom(f, g, r, u)]
<1>5. \E f : Whole(f)
  <2>1. PICK f : Rec(f, k)
    <3> HIDE DEF Rec
    <3> QED
      BY <1>3
  <2>2. Known(k) = Ids \cup InputVars
    BY <1>4
  <2>3. Whole(f)
    <3> HIDE DEF Known
    <3> QED
      BY <2>1, <2>2
  <2> HIDE DEF Whole
  <2>4. QED
    BY <2>3
<1> DEFINE value == CHOOSE f : Whole(f)
<1>6. Meanings(g, r) = value
  BY DEF Meanings, TermFrom
<1>7. Whole(value)
  <2> HIDE DEF Whole
  <2> QED
    BY <1>5
<1> HIDE DEF value
<1>8. \A u \in Ids \cup InputVars : value[u] = TermFrom(value, g, r, u)
  BY <1>7
<1>9. QED
  BY <1>6, <1>8, VarKinds DEF TermFrom

-----------------------------------------------------------------------------
(* Who shares an array.                                                    *)

\* Node m computes where u is.
Edge(g, u, m) == m \in Ids /\ WritesInPlace(g, m) /\ g[m].inputs[1] = u

\* The array u and v share went from u to the node that computes where u is,
\* and on from there, to v at last.
Before(g, s, u, v) ==
  /\ v \in Ids
  /\ \E m \in Ids :
       /\ Edge(g, u, m) /\ s.buffer[m] = s.buffer[u]
       /\ m = v \/ Layers(g)[m] < Layers(g)[v]

Typed(s) ==
  /\ s \in [buffer : [Vars -> 0 .. Len(s.memory)],
            memory : Seq(Range(s.memory))]
  /\ Len(s.memory) \in Nat

\* Whatever was executed, failed and executed again: inputs have arrays, and
\* two variables share one only along operations that compute in place.
SpaceOK(g, s) ==
  /\ Typed(s)
  /\ \A e \in InputVars : s.buffer[e] # 0
  /\ \A u, v \in Vars :
       u # v /\ s.buffer[u] = s.buffer[v] /\ s.buffer[u] # 0
         => Before(g, s, u, v) \/ Before(g, s, v, u)

LEMMA EdgeIs ==
  ASSUME NEW g \in Graphs, Separate(g), NEW u, NEW m, Edge(g, u, m)
  PROVE  /\ u \in Ids \cup InputVars /\ u \in Vars /\ m \in Ids /\ u # m
         /\ \A n \in Ids : u \in Range(g[n].inputs) => n = m
         /\ \A k : Edge(g, u, k) => k = m
         /\ u \in Ids => Layers(g)[u] < Layers(g)[m]
<1>1. m \in Ids /\ WritesInPlace(g, m) /\ u = g[m].inputs[1]
  BY DEF Edge
<1>2. u \in Range(g[m].inputs) /\ u \in Ids \cup InputVars /\ u < m
  BY <1>1, NodeTyped
<1>3. u \in Int /\ m \in Int
  BY <1>1, <1>2, VarKinds, IdsPositive
<1>4. ASSUME NEW n \in Ids, u \in Range(g[n].inputs) PROVE n = m
  BY <1>1, <1>4 DEF Separate
<1>5. ASSUME NEW k, Edge(g, u, k) PROVE k = m
  <2>1. k \in Ids /\ u \in Range(g[k].inputs)
    BY <1>5, NodeTyped DEF Edge
  <2>2. QED
    BY <1>4, <2>1
<1>6. u \in Ids => Layers(g)[u] < Layers(g)[m]
  BY <1>1, <1>2, LayersAre
<1>7. QED
  BY <1>1, <1>2, <1>3, <1>4, <1>5, <1>6 DEF Vars

\* The three ways to change arrays.
LEMMA AllocateIs ==
  ASSUME NEW s, Typed(s), NEW v \in Vars, NEW val
  PROVE  LET t == Allocate(s, v, val)
         IN  /\ Typed(t)
             /\ t.buffer[v] # 0 /\ t.memory[t.buffer[v]] = val
             /\ \A u \in Vars \ {v} :
                  /\ t.buffer[u] = s.buffer[u] /\ t.buffer[u] # t.buffer[v]
                  /\ s.buffer[u] # 0 =>
                       t.memory[s.buffer[u]] = s.memory[s.buffer[u]]
<1> DEFINE len == Len(s.memory)
           b == [s.buffer EXCEPT ![v] = len + 1]
           mem == Append(s.memory, val)
           T == Range(s.memory) \cup {val}
<1>1. /\ len \in Nat /\ s.buffer \in [Vars -> 0 .. len]
      /\ s.memory \in Seq(Range(s.memory))
  BY DEF Typed
<1>2. s.memory \in Seq(T) /\ val \in T
  BY <1>1
<1>3. /\ mem \in Seq(T) /\ Len(mem) = len + 1 /\ mem[len + 1] = val
      /\ \A j \in 1 .. len : mem[j] = s.memory[j]
      /\ DOMAIN mem = 1 .. Len(mem)
  <2> HIDE DEF T
  <2> QED
    BY <1>1, <1>2
<1>4. mem \in Seq(Range(mem))
  <2> HIDE DEF mem, T
  <2>1. mem \in [1 .. Len(mem) -> Range(mem)] /\ Len(mem) \in Nat
    BY <1>1, <1>3 DEF Range
  <2>2. QED
    BY <2>1
<1>5. b \in [Vars -> 0 .. Len(mem)]
  <2> HIDE DEF mem
  <2> QED
    BY <1>1, <1>3
<1>6. /\ b[v] = len + 1
      /\ \A u \in Vars \ {v} : b[u] = s.buffer[u] /\ b[u] \in 0 .. len
  BY <1>1
<1>7. Allocate(s, v, val) = [buffer |-> b, memory |-> mem]
  BY DEF Allocate
<1> HIDE DEF b, mem
<1>8. Typed([buffer |-> b, memory |-> mem])
  BY <1>1, <1>3, <1>4, <1>5 DEF Typed
<1>9. QED
  BY <1>1, <1>3, <1>6, <1>7, <1>8

LEMMA ViewIs ==
  ASSUME NEW s, Typed(s), NEW v \in Vars, NEW x \in Vars
  PROVE  LET t == ViewOf(s, v, x)
         IN  /\ Typed(t) /\ t.memory = s.memory
             /\ t.buffer[v] = s.buffer[x]
             /\ \A u \in Vars \ {v} : t.buffer[u] = s.buffer[u]
BY DEF Typed, ViewOf

LEMMA WriteIs ==
  ASSUME NEW s, Typed(s), NEW v \in Vars, s.buffer[v] # 0, NEW val
  PROVE  LET t == Write(s, v, val)
         IN  /\ Typed(t) /\ t.buffer = s.buffer
             /\ t.memory[s.buffer[v]] = val
             /\ \A j \in 1 .. Len(s.memory) :
                  j # s.buffer[v] => t.memory[j] = s.memory[j]
<1> DEFINE mem == [s.memory EXCEPT ![s.buffer[v]] = val]
<1>1. /\ Len(s.memory) \in Nat /\ s.buffer \in [Vars -> 0 .. Len(s.memory)]
      /\ s.memory \in Seq(Range(s.memory))
      /\ DOMAIN s.memory = 1 .. Len(s.memory)
      /\ s = [buffer |-> s.buffer, memory |-> s.memory]
  BY DEF Typed
<1>2. Write(s, v, val) = [buffer |-> s.buffer, memory |-> mem]
  <2>1. Write(s, v, val) = [s EXCEPT !.memory = mem]
    BY DEF Write
  <2> HIDE DEF mem
  <2>2. QED
    BY <1>1, <2>1
<1>3. /\ DOMAIN mem = 1 .. Len(s.memory) /\ mem[s.buffer[v]] = val
      /\ \A j \in 1 .. Len(s.memory) :
           j # s.buffer[v] => mem[j] = s.memory[j]
  <2>1. s.buffer[v] \in 1 .. Len(s.memory)
    BY <1>1
  <2>2. QED
    BY <1>1, <2>1
<1>4. mem = [j \in 1 .. Len(s.memory) |-> mem[j]]
  BY <1>1
<1> HIDE DEF mem
<1>5. mem \in [1 .. Len(s.memory) -> Range(mem)]
  BY <1>3, <1>4 DEF Range
<1>6. mem \in Seq(Range(mem)) /\ Len(mem) = Len(s.memory)
  BY <1>1, <1>5
<1>7. Typed([buffer |-> s.buffer, memory |-> mem])
  BY <1>1, <1>6 DEF Typed
<1>8. QED
  BY <1>2, <1>3, <1>7

\* Variable v gets an array of its own, nobody computing where v is told to.
LEMMA AllocateKeeps ==
  ASSUME NEW g \in Graphs, Separate(g), NEW s, SpaceOK(g, s),
         NEW v \in Vars, NEW val,
         s.buffer[v] = 0 \/ ~ \E u : Edge(g, u, v)
  PROVE  SpaceOK(g, Allocate(s, v, val))
<1> DEFINE t == Allocate(s, v, val)
<1>1. /\ Typed(t) /\ t.buffer[v] # 0
      /\ \A u \in Vars \ {v} :
           t.buffer[u] = s.buffer[u] /\ t.buffer[u] # t.buffer[v]
  BY AllocateIs DEF SpaceOK
<1> HIDE DEF t
<1>2. \A e \in InputVars : t.buffer[e] # 0
  BY <1>1 DEF SpaceOK, Vars
<1>3. ASSUME NEW u \in Vars, NEW w \in Vars, Before(g, s, u, w),
             u # v, w # v, s.buffer[u] # 0
      PROVE  Before(g, t, u, w)
  <2>1. PICK m \in Ids : /\ Edge(g, u, m) /\ s.buffer[m] = s.buffer[u]
                         /\ m = w \/ Layers(g)[m] < Layers(g)[w]
    BY <1>3 DEF Before
  <2>2. m # v /\ m \in Vars
    BY <1>3, <2>1 DEF Vars
  <2>3. t.buffer[m] = t.buffer[u]
    BY <1>1, <1>3, <2>1, <2>2
  <2>4. QED
    BY <1>3, <2>1, <2>3 DEF Before
<1>4. ASSUME NEW u \in Vars, NEW w \in Vars, u # w,
             t.buffer[u] = t.buffer[w], t.buffer[u] # 0
      PROVE  Before(g, t, u, w) \/ Before(g, t, w, u)
  <2>1. u # v /\ w # v
    BY <1>1, <1>4
  <2>2. s.buffer[u] = s.buffer[w] /\ s.buffer[u] # 0
    BY <1>1, <1>4, <2>1
  <2>3. Before(g, s, u, w) \/ Before(g, s, w, u)
    BY <1>4, <2>2 DEF SpaceOK
  <2>4. QED
    BY <1>3, <2>1, <2>2, <2>3
<1>5. QED
  BY <1>1, <1>2, <1>4 DEF SpaceOK, t

\* Node n gets the array of x to compute in, the only one to do so.
LEMMA ViewKeeps ==
  ASSUME NEW g \in Graphs, Separate(g), NEW s, SpaceOK(g, s),
         NEW n \in Ids, NEW x, Edge(g, x, n),
         s.buffer[n] = 0, s.buffer[x] # 0
  PROVE  SpaceOK(g, ViewOf(s, n, x))
<1> DEFINE t == ViewOf(s, n, x)
           L == Layers(g)
<1>0. n \in Vars /\ x \in Vars /\ x # n
  BY EdgeIs DEF Vars
<1>1. /\ Typed(t) /\ t.memory = s.memory /\ t.buffer[n] = s.buffer[x]
      /\ \A u \in Vars \ {n} : t.buffer[u] = s.buffer[u]
  BY <1>0, ViewIs DEF SpaceOK
<1> HIDE DEF t
<1>2. \A e \in InputVars : t.buffer[e] # 0
  BY <1>1, VarKinds DEF SpaceOK, Vars
<1>3. ASSUME NEW u \in Vars, NEW w \in Vars, Before(g, s, u, w),
             u # n, w # n, s.buffer[u] # 0
      PROVE  Before(g, t, u, w)
  <2>1. PICK m \in Ids : /\ Edge(g, u, m) /\ s.buffer[m] = s.buffer[u]
                         /\ m = w \/ L[m] < L[w]
    BY <1>3 DEF Before
  <2>2. m # n /\ m \in Vars
    BY <1>3, <2>1 DEF Vars
  <2>3. t.buffer[m] = t.buffer[u]
    BY <1>1, <1>3, <2>1, <2>2
  <2>4. QED
    BY <1>3, <2>1, <2>3 DEF Before
<1>4. Before(g, t, x, n)
  BY <1>0, <1>1 DEF Before
<1>5. ASSUME NEW w \in Vars, w # n, w # x, t.buffer[w] = t.buffer[n]
      PROVE  Before(g, t, w, n)
  <2>1. s.buffer[w] = s.buffer[x] /\ s.buffer[w] # 0
    BY <1>1, <1>5
  <2>2. CASE Before(g, s, x, w)
    <3>1. PICK m \in Ids : Edge(g, x, m) /\ s.buffer[m] = s.buffer[x]
      BY <2>2 DEF Before
    <3>2. m = n
      BY <3>1, EdgeIs
    <3>3. QED
      BY <3>1, <3>2
  <2>3. CASE Before(g, s, w, x)
    <3>1. PICK m \in Ids : /\ Edge(g, w, m) /\ s.buffer[m] = s.buffer[w]
                           /\ m = x \/ L[m] < L[x]
      BY <2>3 DEF Before
    <3>2. x \in Ids /\ L[x] < L[n]
      BY <2>3, EdgeIs DEF Before
    <3>3. m # n /\ m \in Vars
      BY <2>1, <3>1 DEF Vars
    <3>4. L[m] \in Nat /\ L[x] \in Nat /\ L[n] \in Nat
      BY <3>1, <3>2, LayersAre
    <3>5. L[m] < L[n]
      BY <3>1, <3>2, <3>4
    <3>6. t.buffer[m] = t.buffer[w]
      BY <1>1, <1>5, <3>1, <3>3
    <3>7. QED
      BY <3>1, <3>5, <3>6 DEF Before
  <2>4. QED
    BY <1>0, <1>5, <2>1, <2>2, <2>3 DEF SpaceOK
<1>6. ASSUME NEW u \in Vars, NEW w \in Vars, u # w,
             t.buffer[u] = t.buffer[w], t.buffer[u] # 0
      PROVE  Before(g, t, u, w) \/ Before(g, t, w, u)
  <2>1. CASE u = n
    BY <1>4, <1>5, <1>6, <2>1
  <2>2. CASE w = n
    BY <1>4, <1>5, <1>6, <2>2
  <2>3. CASE u # n /\ w # n
    <3>1. s.buffer[u] = s.buffer[w] /\ s.buffer[u] # 0
      BY <1>1, <1>6, <2>3
    <3>2. Before(g, s, u, w) \/ Before(g, s, w, u)
      BY <1>6, <3>1 DEF SpaceOK
    <3>3. QED
      BY <1>3, <2>3, <3>1, <3>2
  <2>4. QED
    BY <2>1, <2>2, <2>3
<1>7. QED
  BY <1>1, <1>2, <1>6 DEF SpaceOK, t

LEMMA WriteKeeps ==
  ASSUME NEW g, NEW s, SpaceOK(g, s), NEW v \in Vars, s.buffer[v] # 0, NEW val
  PROVE  SpaceOK(g, Write(s, v, val))
<1> DEFINE t == Write(s, v, val)
<1>1. Typed(t) /\ t.buffer = s.buffer
  BY WriteIs DEF SpaceOK
<1> HIDE DEF t
<1>2. \A u, w \in Vars : Before(g, s, u, w) => Before(g, t, u, w)
  BY <1>1 DEF Before
<1>3. SpaceOK(g, t)
  BY <1>1, <1>2 DEF SpaceOK
<1>4. QED
  BY <1>3 DEF t

-----------------------------------------------------------------------------
(* What an operation does to arrays other than its own.                    *)

\* Whose array n may write over: one that a node before n, or n, has computed
\* where it was, or one of a node in a later layer.
Touched(g, v, n) ==
  \/ \E m \in Ids : /\ Edge(g, v, m)
                    /\ m = n \/ Layers(g)[m] < Layers(g)[n]
  \/ v \in Ids /\ Layers(g)[n] < Layers(g)[v]

\* From s to t node n has an array and wrote only where it may.
Executes(g, s, t, n) ==
  /\ SpaceOK(g, t) /\ t.buffer[n] # 0
  /\ \A u \in Vars \ {n} :
       /\ t.buffer[u] = s.buffer[u]
       /\ s.buffer[u] # 0 =>
            \/ t.memory[s.buffer[u]] = s.memory[s.buffer[u]]
            \/ Touched(g, u, n)

\* The same, having written nothing.
Prepares(g, s, t, n) ==
  /\ SpaceOK(g, t) /\ t.buffer[n] # 0
  /\ \A u \in Vars \ {n} :
       /\ t.buffer[u] = s.buffer[u]
       /\ s.buffer[u] # 0 => t.memory[s.buffer[u]] = s.memory[s.buffer[u]]

\* Who shares an array that is written.
LEMMA SharersTouched ==
  ASSUME NEW g \in Graphs, Separate(g), NEW s, SpaceOK(g, s), NEW n \in Ids,
         NEW u \in Vars, u # n, s.buffer[u] = s.buffer[n], s.buffer[u] # 0
  PROVE  Touched(g, u, n)
<1> DEFINE L == Layers(g)
<1>1. CASE Before(g, s, u, n)
  BY <1>1 DEF Before, Touched
<1>2. CASE Before(g, s, n, u)
  <2>1. PICK m \in Ids : Edge(g, n, m) /\ (m = u \/ L[m] < L[u])
    BY <1>2 DEF Before
  <2>2. u \in Ids /\ L[n] < L[m]
    BY <1>2, <2>1, EdgeIs DEF Before
  <2>3. L[m] \in Nat /\ L[u] \in Nat /\ L[n] \in Nat
    BY <2>1, <2>2, LayersAre
  <2>4. L[n] < L[u]
    BY <2>1, <2>2, <2>3
  <2>5. QED
    BY <2>2, <2>4 DEF Touched
<1>3. QED
  BY <1>1, <1>2 DEF SpaceOK, Vars

LEMMA WriteExecutes ==
  ASSUME NEW g \in Graphs, Separate(g), NEW s, Typed(s), NEW t, NEW n \in Ids,
         Prepares(g, s, t, n), NEW val
  PROVE  /\ Executes(g, s, Write(t, n, val), n)
         /\ Write(t, n, val).memory[Write(t, n, val).buffer[n]] = val
<1> DEFINE w == Write(t, n, val)
<1>0. n \in Vars
  BY DEF Vars
<1>1. /\ Typed(w) /\ w.buffer = t.buffer /\ w.memory[t.buffer[n]] = val
      /\ \A j \in 1 .. Len(t.memory) :
           j # t.buffer[n] => w.memory[j] = t.memory[j]
  BY <1>0, WriteIs DEF Prepares, SpaceOK
<1>2. SpaceOK(g, w)
  BY <1>0, WriteKeeps DEF Prepares
<1> HIDE DEF w
<1>3. ASSUME NEW u \in Vars \ {n}, s.buffer[u] # 0
      PROVE  \/ w.memory[s.buffer[u]] = s.memory[s.buffer[u]]
             \/ Touched(g, u, n)
  <2>1. /\ t.buffer[u] = s.buffer[u]
        /\ t.memory[s.buffer[u]] = s.memory[s.buffer[u]]
    BY <1>3 DEF Prepares
  <2>2. CASE t.buffer[u] = t.buffer[n]
    BY <1>3, <2>1, <2>2, SharersTouched DEF Prepares
  <2>3. CASE t.buffer[u] # t.buffer[n]
    <3>1. t.buffer[u] \in 1 .. Len(t.memory)
      BY <1>3, <2>1 DEF Prepares, SpaceOK, Typed
    <3>2. QED
      BY <1>1, <2>1, <2>3, <3>1
  <2>4. QED
    BY <2>2, <2>3
<1>4. QED
  BY <1>1, <1>2, <1>3 DEF Executes, Prepares, w

LEMMA AllocatePrepares ==
  ASSUME NEW g \in Graphs, Separate(g), NEW s, SpaceOK(g, s),
         NEW n \in Ids, NEW val, s.buffer[n] = 0 \/ ~WritesInPlace(g, n)
  PROVE  /\ Prepares(g, s, Allocate(s, n, val), n)
         /\ LET t == Allocate(s, n, val) IN t.memory[t.buffer[n]] = val
<1>1. n \in Vars
  BY DEF Vars
<1>2. s.buffer[n] = 0 \/ ~ \E u : Edge(g, u, n)
  BY DEF Edge
<1>3. SpaceOK(g, Allocate(s, n, val))
  BY <1>1, <1>2, AllocateKeeps
<1>4. Typed(s)
  BY DEF SpaceOK
<1>5. QED
  BY <1>1, <1>3, <1>4, AllocateIs DEF Prepares

LEMMA OwnPrepares ==
  ASSUME NEW g \in Graphs, Separate(g), NEW s, SpaceOK(g, s),
         NEW n \in Ids, ~WritesInPlace(g, n)
  PROVE  Prepares(g, s, Own(s, n), n)
<1>1. CASE s.buffer[n] = 0
  BY <1>1, AllocatePrepares DEF Own
<1>2. CASE s.buffer[n] # 0
  BY <1>2 DEF Own, Prepares
<1>3. QED
  BY <1>1, <1>2

LEMMA InPlacePrepares ==
  ASSUME graph \in Graphs, Separate(graph), NEW s, SpaceOK(graph, s),
         NEW n \in Ids, WritesInPlace(graph, n),
         s.buffer[graph[n].inputs[1]] # 0
  PROVE  /\ Prepares(graph, s, InPlace(s, n), n)
         /\ InPlace(s, n).memory = s.memory
<1> DEFINE x == graph[n].inputs[1]
           t == ViewOf(s, n, x)
<1>1. CASE s.buffer[n] = 0
  <2>1. Edge(graph, x, n)
    BY DEF Edge
  <2>2. n \in Vars /\ x \in Vars
    BY <2>1, EdgeIs DEF Vars
  <2>3. SpaceOK(graph, t)
    BY <1>1, <2>1, ViewKeeps
  <2>4. /\ t.memory = s.memory /\ t.buffer[n] = s.buffer[x]
        /\ \A u \in Vars \ {n} : t.buffer[u] = s.buffer[u]
    <3>1. Typed(s)
      BY DEF SpaceOK
    <3> HIDE DEF x
    <3>2. QED
      BY <2>2, <3>1, ViewIs
  <2>5. InPlace(s, n) = t
    BY <1>1 DEF InPlace
  <2> HIDE DEF t
  <2>6. QED
    BY <2>3, <2>4, <2>5 DEF Prepares
<1>2. CASE s.buffer[n] # 0
  BY <1>2 DEF InPlace, Prepares
<1>3. QED
  BY <1>1, <1>2

\* Which array each operation that writes one array takes.
LEMMA TargetsPrepare ==
  ASSUME graph \in Graphs, Separate(graph), NEW s, SpaceOK(graph, s),
         NEW n \in Ids, s.buffer[graph[n].inputs[1]] # 0
  PROVE  /\ graph[n].op = "TRANSFORM" =>
              Prepares(graph, s, TransformTarget(s, n), n)
         /\ graph[n].op = "SCALAR" =>
              Prepares(graph, s, ScalarTarget(s, n), n)
         /\ graph[n].op \in {"ACCUMULATION", "CUSTOM"} =>
              Prepares(graph, s, Own(s, n), n)
<1>1. ASSUME graph[n].op = "TRANSFORM"
      PROVE  Prepares(graph, s, TransformTarget(s, n), n)
  <2>1. CASE WritesInPlace(graph, n)
    <3>1. TransformTarget(s, n) = InPlace(s, n)
      BY <1>1, <2>1 DEF WritesInPlace, TransformTarget, Branches
    <3>2. QED
      BY <2>1, <3>1, InPlacePrepares
  <2>2. CASE ~WritesInPlace(graph, n)
    <3>1. TransformTarget(s, n) = Own(s, n)
      BY <1>1, <2>2 DEF WritesInPlace, TransformTarget, Branches
    <3>2. QED
      BY <2>2, <3>1, OwnPrepares
  <2>3. QED
    BY <2>1, <2>2
<1>2. ASSUME graph[n].op = "SCALAR"
      PROVE  Prepares(graph, s, ScalarTarget(s, n), n)
  <2>1. CASE WritesInPlace(graph, n)
    <3>1. ScalarTarget(s, n) = InPlace(s, n)
      BY <1>2, <2>1 DEF WritesInPlace, ScalarTarget, Branches
    <3>2. QED
      BY <2>1, <3>1, InPlacePrepares
  <2>2. CASE ~WritesInPlace(graph, n)
    <3>1. ScalarTarget(s, n) = Allocate(s, n, <<>>)
      BY <1>2, <2>2 DEF WritesInPlace, ScalarTarget, Branches
    <3>2. QED
      BY <2>2, <3>1, AllocatePrepares
  <2>3. QED
    BY <2>1, <2>2
<1>3. ASSUME graph[n].op \in {"ACCUMULATION", "CUSTOM"}
      PROVE  Prepares(graph, s, Own(s, n), n)
  BY <1>3, OwnPrepares DEF WritesInPlace
<1>4. QED
  BY <1>1, <1>2, <1>3

LEMMA PutNewExecutes ==
  ASSUME NEW g \in Graphs, Separate(g), NEW s, SpaceOK(g, s),
         NEW n \in Ids, NEW val
  PROVE  LET t == PutNew(s, n, val)
         IN  /\ Executes(g, s, t, n)
             /\ s.buffer[n] = 0 => t.memory[t.buffer[n]] = val
<1>1. CASE s.buffer[n] = 0
  <2>1. PutNew(s, n, val) = Allocate(s, n, val)
    BY <1>1 DEF PutNew
  <2>2. QED
    BY <1>1, <2>1, AllocatePrepares DEF Prepares, Executes
<1>2. CASE s.buffer[n] # 0
  BY <1>2 DEF PutNew, Executes
<1>3. QED
  BY <1>1, <1>2

LEMMA BroadcastExecutes ==
  ASSUME graph \in Graphs, Separate(graph), NEW s, SpaceOK(graph, s),
         NEW n \in Ids, graph[n].op = "BROADCAST",
         s.buffer[graph[n].inputs[1]] # 0, NEW val
  PROVE  LET t == Broadcast(s, n, val)
         IN  /\ Executes(graph, s, t, n)
             /\ s.buffer[n] = 0 => t.memory[t.buffer[n]] = val
<1> DEFINE x == graph[n].inputs[1]
           w == Write(s, x, val)
           t == InPlace(w, n)
           L == Layers(graph)
<1>1. WritesInPlace(graph, n) /\ Edge(graph, x, n)
  BY DEF WritesInPlace, Edge
<1>2. x \in Vars /\ x # n /\ n \in Vars
  BY <1>1, EdgeIs DEF Vars
<1>3. /\ w.buffer = s.buffer /\ w.memory[s.buffer[x]] = val
      /\ \A j \in 1 .. Len(s.memory) :
           j # s.buffer[x] => w.memory[j] = s.memory[j]
  BY <1>2, WriteIs DEF SpaceOK
<1>4. SpaceOK(graph, w)
  BY <1>2, WriteKeeps
<1> HIDE DEF w
<1>5. Prepares(graph, w, t, n) /\ t.memory = w.memory
  BY <1>1, <1>3, <1>4, InPlacePrepares
<1>6. s.buffer[n] = 0 => t.buffer[n] = s.buffer[x]
  <2> SUFFICES ASSUME s.buffer[n] = 0 PROVE t.buffer[n] = s.buffer[x]
    OBVIOUS
  <2>1. t = ViewOf(w, n, x)
    BY <1>3 DEF InPlace
  <2>2. QED
    BY <1>2, <1>3, <1>4, <2>1, ViewIs DEF SpaceOK
<1>7. Broadcast(s, n, val) = t
  BY DEF Broadcast, w
<1> HIDE DEF t
<1>8. ASSUME NEW u \in Vars \ {n}, s.buffer[u] # 0
      PROVE  \/ t.memory[s.buffer[u]] = s.memory[s.buffer[u]]
             \/ Touched(graph, u, n)
  <2>1. CASE s.buffer[u] # s.buffer[x]
    <3>1. s.buffer[u] \in 1 .. Len(s.memory)
      BY <1>8 DEF SpaceOK, Typed
    <3>2. QED
      BY <1>3, <1>5, <2>1, <3>1
  <2>2. CASE u = x
    BY <1>1, <2>2 DEF Touched
  <2>3. CASE u # x /\ Before(graph, s, u, x)
    <3>1. PICK m \in Ids : Edge(graph, u, m) /\ (m = x \/ L[m] < L[x])
      BY <2>3 DEF Before
    <3>2. x \in Ids /\ L[x] < L[n]
      BY <1>1, <2>3, EdgeIs DEF Before
    <3>3. L[m] \in Nat /\ L[x] \in Nat /\ L[n] \in Nat
      BY <3>1, <3>2, LayersAre
    <3>4. L[m] < L[n]
      BY <3>1, <3>2, <3>3
    <3>5. QED
      BY <3>1, <3>4 DEF Touched
  <2>4. CASE u # x /\ Before(graph, s, x, u)
    <3>1. PICK m \in Ids : Edge(graph, x, m) /\ (m = u \/ L[m] < L[u])
      BY <2>4 DEF Before
    <3>2. m = n
      BY <1>1, <3>1, EdgeIs
    <3>3. u \in Ids /\ L[n] < L[u]
      BY <1>8, <2>4, <3>1, <3>2 DEF Before
    <3>4. QED
      BY <3>3 DEF Touched
  <2>5. QED
    BY <1>2, <1>8, <2>1, <2>2, <2>3, <2>4 DEF SpaceOK
<1>9. QED
  BY <1>3, <1>5, <1>6, <1>7, <1>8 DEF Executes, Prepares

\* Every operation: what it may write over, and that its result is there,
\* except where an old array keeps it away.
LEMMA ComputeExecutes ==
  ASSUME graph \in Graphs, Separate(graph), NEW s, SpaceOK(graph, s),
         NEW n \in Ids, s.buffer[graph[n].inputs[1]] # 0
  PROVE  LET t == Compute(s, n)
         IN  /\ Executes(graph, s, t, n)
             /\ (\/ graph[n].op \notin {"INDEX_ACCUMULATION", "BROADCAST"}
                 \/ s.buffer[n] = 0)
                  => t.memory[t.buffer[n]] = Result(s, n)
<1> DEFINE val == Result(s, n)
           t == Compute(s, n)
           op == graph[n].op
<1>1. op \in OpTypes
  BY NodeTyped
<1>2. Typed(s)
  BY DEF SpaceOK
<1>3. CASE op = "TRANSFORM"
  <2>1. t = Write(TransformTarget(s, n), n, val)
    BY <1>3 DEF Compute
  <2>2. Prepares(graph, s, TransformTarget(s, n), n)
    BY <1>3, TargetsPrepare
  <2> HIDE DEF val
  <2>3. QED
    BY <1>2, <2>1, <2>2, WriteExecutes DEF val
<1>4. CASE op = "SCALAR"
  <2>1. t = Write(ScalarTarget(s, n), n, val)
    BY <1>4 DEF Compute
  <2>2. Prepares(graph, s, ScalarTarget(s, n), n)
    BY <1>4, TargetsPrepare
  <2> HIDE DEF val
  <2>3. QED
    BY <1>2, <2>1, <2>2, WriteExecutes DEF val
<1>5. CASE op \in {"ACCUMULATION", "CUSTOM"}
  <2>1. t = Write(Own(s, n), n, val)
    BY <1>5 DEF Compute
  <2>2. Prepares(graph, s, Own(s, n), n)
    BY <1>5, TargetsPrepare
  <2> HIDE DEF val
  <2>3. QED
    BY <1>2, <2>1, <2>2, WriteExecutes DEF val
<1>6. CASE op = "INDEX_ACCUMULATION"
  <2>1. t = PutNew(s, n, val)
    BY <1>6 DEF Compute
  <2>2. QED
    BY <1>6, <2>1, PutNewExecutes
<1>7. CASE op = "BROADCAST"
  <2>1. t = Broadcast(s, n, val)
    BY <1>7 DEF Compute
  <2>2. QED
    BY <1>7, <2>1, BroadcastExecutes
<1>8. QED
  BY <1>1, <1>3, <1>4, <1>5, <1>6, <1>7 DEF OpTypes

-----------------------------------------------------------------------------
(* External outputs.                                                       *)

\* From s to t the output variables in O got the value val, and no other
\* variable changed.
Publishes(g, s, t, O, val) ==
  /\ SpaceOK(g, t)
  /\ \A u \in Vars \ O :
       /\ t.buffer[u] = s.buffer[u]
       /\ s.buffer[u] # 0 => t.memory[s.buffer[u]] = s.memory[s.buffer[u]]
  /\ \A o \in O : t.buffer[o] # 0 /\ t.memory[t.buffer[o]] = val

\* Nobody shares the array of an output variable.
LEMMA OutputsAlone ==
  ASSUME NEW g \in Graphs, Separate(g), NEW s, SpaceOK(g, s),
         NEW o \in OutputVars, NEW u \in Vars, u # o, s.buffer[o] # 0
  PROVE  s.buffer[u] # s.buffer[o]
<1>1. o \notin Ids /\ o \notin InputVars /\ o \in Vars
  BY VarKinds DEF Vars
<1>2. ~ Before(g, s, o, u)
  BY <1>1, EdgeIs DEF Before
<1>3. ~ Before(g, s, u, o)
  BY <1>1 DEF Before
<1>4. QED
  BY <1>1, <1>2, <1>3 DEF SpaceOK

LEMMA PublishOne ==
  ASSUME NEW g \in Graphs, Separate(g), NEW s, SpaceOK(g, s),
         NEW o \in OutputVars, NEW val
  PROVE  Publishes(g, s, PublishTo(s, o, val), {o}, val)
<1> DEFINE t == PublishTo(s, o, val)
<1>1. o \in Int /\ o < 0 /\ o \in Vars /\ ~(o >= 0)
  <2>1. o \in Int /\ o < 0 /\ o \in Vars
    BY VarKinds DEF Vars
  <2>2. QED
    BY <2>1
<1>2. CASE s.buffer[o] = 0
  <2>1. t = Allocate(s, o, val)
    BY <1>1, <1>2 DEF PublishTo
  <2>2. SpaceOK(g, Allocate(s, o, val))
    BY <1>1, <1>2, AllocateKeeps
  <2>3. QED
    BY <1>1, <2>1, <2>2, AllocateIs DEF Publishes, SpaceOK
<1>3. CASE s.buffer[o] # 0
  <2> DEFINE w == Write(s, o, val)
  <2>1. t = w
    BY <1>1, <1>3 DEF PublishTo
  <2>2. SpaceOK(g, w)
    BY <1>1, <1>3, WriteKeeps
  <2>3. /\ w.buffer = s.buffer /\ w.memory[s.buffer[o]] = val
        /\ \A j \in 1 .. Len(s.memory) :
             j # s.buffer[o] => w.memory[j] = s.memory[j]
    BY <1>1, <1>3, WriteIs DEF SpaceOK
  <2> HIDE DEF w
  <2>4. \A u \in Vars \ {o} : s.buffer[u] # 0 =>
          s.buffer[u] \in 1 .. Len(s.memory) /\ s.buffer[u] # s.buffer[o]
    BY <1>3, OutputsAlone DEF SpaceOK, Typed
  <2>5. QED
    BY <1>3, <2>1, <2>2, <2>3, <2>4 DEF Publishes
<1>4. QED
  BY <1>2, <1>3

\* All outputs of a node, one after the other: by the least number of them that
\* would go wrong.
LEMMA PublishAll ==
  ASSUME NEW g \in Graphs, Separate(g), NEW s, SpaceOK(g, s),
         NEW outs \in Seq(Nat \cup OutputVars), NEW val
  PROVE  LET after[k \in 0 .. Len(outs)] ==
               IF k = 0 THEN s ELSE PublishTo(after[k - 1], outs[k], val)
         IN  Publishes(g, s, after[Len(outs)],
                       {o \in Range(outs) : o < 0}, val)
<1> DEFINE Rec(f, n) ==
             f = [k \in 0 .. n |->
                    IF k = 0 THEN s ELSE PublishTo(f[k - 1], outs[k], val)]
           Has(n) == \E f : Rec(f, n)
<1>1. Has(0)
  <2> DEFINE f == [k \in 0 .. 0 |-> s]
  <2>1. Rec(f, 0)
    OBVIOUS
  <2> HIDE DEF Rec, f
  <2>2. QED
    BY <2>1
<1>2. ASSUME NEW n \in Nat \ {0}, Has(n - 1) PROVE Has(n)
  <2>1. PICK f : Rec(f, n - 1)
    <3> HIDE DEF Rec
    <3> QED
      BY <1>2
  <2> DEFINE h == [k \in 0 .. n |->
                     IF k = n THEN PublishTo(f[n - 1], outs[n], val)
                              ELSE f[k]]
  <2>2. ASSUME NEW k \in 0 .. n
        PROVE  h[k] = IF k = 0 THEN s ELSE PublishTo(h[k - 1], outs[k], val)
    <3>1. CASE k = n
      <4>1. h[n - 1] = f[n - 1] /\ n # 0
        OBVIOUS
      <4>2. QED
        BY <3>1, <4>1
    <3>2. CASE k # n
      <4>1. k \in 0 .. n - 1
        BY <3>2
      <4>2. f[k] = IF k = 0 THEN s ELSE PublishTo(f[k - 1], outs[k], val)
        BY <2>1, <4>1
      <4>3. h[k] = f[k] /\ (k # 0 => h[k - 1] = f[k - 1])
        BY <4>1
      <4> HIDE DEF h
      <4>4. QED
        BY <4>2, <4>3
    <3>3. QED
      BY <3>1, <3>2
  <2>3. Rec(h, n)
    <3>1. h = [k \in 0 .. n |-> h[k]]
      OBVIOUS
    <3> HIDE DEF h
    <3>2. QED
      BY <2>2, <3>1
  <2> HIDE DEF h, Rec
  <2>4. QED
    BY <2>3
<1>3. \A n \in Nat : Has(n)
  <2> DEFINE Bad == {n \in Nat : ~Has(n)}
  <2> HIDE DEF Has
  <2> SUFFICES ASSUME Bad # {} PROVE FALSE
    OBVIOUS
  <2>1. Bad \in SUBSET Nat
    OBVIOUS
  <2>2. PICK n \in Bad : \A m \in Bad : n <= m
    <3> HIDE DEF Bad
    <3> QED
      BY <2>1, LeastNatural
  <2>3. n \in Nat \ {0}
    BY <1>1
  <2>4. n - 1 \in Nat /\ n - 1 < n
    BY <2>3
  <2>5. Has(n - 1)
    BY <2>2, <2>4
  <2>6. QED
    BY <1>2, <2>3, <2>5
<1> DEFINE after == CHOOSE f : Rec(f, Len(outs))
<1>4. Rec(after, Len(outs))
  <2> HIDE DEF Rec
  <2>1. Len(outs) \in Nat
    OBVIOUS
  <2>2. QED
    BY <1>3, <2>1
<1> HIDE DEF after
<1>5. after[0] = s
  BY <1>4
<1>6. ASSUME NEW k \in 1 .. Len(outs)
      PROVE  after[k] = PublishTo(after[k - 1], outs[k], val)
  <2>1. k \in 0 .. Len(outs) /\ k # 0
    OBVIOUS
  <2>2. QED
    BY <1>4, <2>1
<1> DEFINE Opening(k) == {outs[i] : i \in 1 .. k}
           O(k) == {o \in Opening(k) : o < 0}
           Good(k) == Publishes(g, s, after[k], O(k), val)
<1>7. Good(0)
  <2>1. O(0) = {}
    OBVIOUS
  <2> HIDE DEF O
  <2>2. QED
    BY <1>5, <2>1 DEF Publishes
<1>8. ASSUME NEW k \in 1 .. Len(outs), Good(k - 1) PROVE Good(k)
  <2> DEFINE a == after[k - 1]
             x == outs[k]
  <2>1. x \in Nat \cup OutputVars
    OBVIOUS
  <2>2. Opening(k) = Opening(k - 1) \cup {x}
    OBVIOUS
  <2>3. SpaceOK(g, a)
    BY <1>8 DEF Publishes
  <2>4. after[k] = PublishTo(a, x, val)
    BY <1>6
  <2>5. CASE x \in Nat
    <3>1. after[k] = a
      BY <2>4, <2>5 DEF PublishTo
    <3>2. O(k) = O(k - 1)
      <4> HIDE DEF Opening, x
      <4>1. ~(x < 0)
        BY <2>5
      <4>2. QED
        BY <2>2, <4>1
    <3> HIDE DEF O
    <3>3. QED
      BY <1>8, <3>1, <3>2
  <2>6. CASE x \in OutputVars
    <3>1. Publishes(g, a, after[k], {x}, val)
      BY <2>3, <2>4, <2>6, PublishOne
    <3>2. O(k) = O(k - 1) \cup {x}
      <4> HIDE DEF Opening, x
      <4>1. x < 0
        BY <2>6, VarKinds
      <4>2. QED
        BY <2>2, <4>1
    <3>3. O(k - 1) \subseteq Vars
      <4>1. \A i \in 1 .. k - 1 : outs[i] \in Nat \cup OutputVars
        OBVIOUS
      <4>2. \A o \in Nat : ~(o < 0)
        OBVIOUS
      <4>3. QED
        BY <4>1, <4>2 DEF Vars
    <3> HIDE DEF O, x, a
    <3>4. Publishes(g, s, a, O(k - 1), val)
      BY <1>8 DEF a
    <3>5. ASSUME NEW u \in Vars \ O(k)
          PROVE  /\ after[k].buffer[u] = s.buffer[u]
                 /\ s.buffer[u] # 0 =>
                      after[k].memory[s.buffer[u]] = s.memory[s.buffer[u]]
      <4>1. u \in Vars \ {x} /\ u \in Vars \ O(k - 1)
        BY <3>2
      <4>2. QED
        BY <3>1, <3>4, <4>1 DEF Publishes
    <3>6. ASSUME NEW o \in O(k)
          PROVE  /\ after[k].buffer[o] # 0
                 /\ after[k].memory[after[k].buffer[o]] = val
      <4>1. CASE o = x
        BY <3>1, <4>1 DEF Publishes
      <4>2. CASE o # x
        <5>1. o \in Vars \ {x} /\ o \in O(k - 1)
          BY <3>2, <3>3, <4>2
        <5>2. QED
          BY <3>1, <3>4, <5>1 DEF Publishes
      <4>3. QED
        BY <4>1, <4>2
    <3>7. SpaceOK(g, after[k])
      BY <3>1 DEF Publishes
    <3>8. QED
      BY <3>5, <3>6, <3>7 DEF Publishes
  <2>7. QED
    BY <2>1, <2>5, <2>6
<1>9. Good(Len(outs))
  <2> DEFINE Bad == {k \in 0 .. Len(outs) : ~Good(k)}
  <2> HIDE DEF Good
  <2>1. Bad \in SUBSET Nat
    OBVIOUS
  <2>2. ASSUME Bad # {} PROVE FALSE
    <3>1. PICK k \in Bad : \A m \in Bad : k <= m
      <4> HIDE DEF Bad
      <4> QED
        BY <2>1, <2>2, LeastNatural
    <3>2. k \in 1 .. Len(outs)
      BY <1>7
    <3>3. k - 1 \in 0 .. Len(outs) /\ k - 1 < k
      BY <3>2
    <3>4. Good(k - 1)
      BY <3>1, <3>3
    <3>5. QED
      BY <1>8, <3>2, <3>4
  <2>3. Len(outs) \in 0 .. Len(outs)
    OBVIOUS
  <2>4. QED
    BY <2>2, <2>3
<1>10. O(Len(outs)) = {o \in Range(outs) : o < 0}
  <2>1. Opening(Len(outs)) = Range(outs)
    BY DEF Range
  <2> HIDE DEF Opening
  <2>2. QED
    BY <2>1
<1>11. Publishes(g, s, after[Len(outs)], {o \in Range(outs) : o < 0}, val)
  <2> HIDE DEF O
  <2> QED
    BY <1>9, <1>10
<1>12. QED
  BY <1>11 DEF after

-----------------------------------------------------------------------------
(* The invariant.                                                          *)

Arrays == [buffer |-> buffer, memory |-> memory]

\* The external outputs node n names.
Named(n) == {o \in Range(graph[n].outputs) : o < 0}

TypeInv ==
  /\ graph \in Graphs /\ done \subseteq Ids /\ run \in Nat
  /\ pc \in {"idle", "running", "finished", "failed"}

\* What has been executed: whole layers before anything in the next one; in the
\* first run nodes not executed have no array yet.
Progress ==
  /\ \A n \in done : buffer[n] # 0
  /\ \A n \in done : \A m \in Ids : Layer[m] < Layer[n] => m \in done
  /\ pc = "finished" => done = Ids
  /\ pc = "idle" => run = 0 /\ done = {}
  /\ run = 0 => pc = "idle"
  /\ run = 0 \/ (run = 1 /\ pc = "running") =>
       \A n \in Ids \ done : buffer[n] = 0

\* No operation of the graph keeps an old result in a later run.
Current ==
  run <= 1 \/ \A m \in Ids :
                graph[m].op \notin {"INDEX_ACCUMULATION", "BROADCAST"}

\* A variable holds what it means until a node computes where it is, and an
\* output variable from the time its node has run.
Right ==
  pc \in {"running", "finished"} /\ Current =>
    /\ \A v \in InputVars \cup done :
         Holds(v) = Meaning(v) \/ \E m \in done : Edge(graph, v, m)
    /\ \A n \in done : graph[n].op # "CUSTOM" =>
         \A o \in Named(n) : buffer[o] # 0 /\ Holds(o) = Meaning(n)

ExecInv ==
  /\ TypeInv
  /\ Separate(graph) => SpaceOK(graph, Arrays) /\ Progress /\ Right

\* The client's arrays, listed.
LEMMA InputsListed ==
  /\ InputSeq \in Seq(InputVars)
  /\ \A e \in InputVars : \E i \in DOMAIN InputSeq : InputSeq[i] = e
<1> DEFINE k == Cardinality(InputVars)
<1>1. IsFiniteSet(InputVars) /\ k \in Nat /\ ExistsBijection(1 .. k, InputVars)
  BY ExecutionAssumption, FS_CardinalityType
<1>2. \E f \in [1 .. k -> InputVars] : IsInjective(f)
  BY <1>1 DEF ExistsBijection, Bijection, Injection
<1>3. InputSeq \in [1 .. k -> InputVars] /\ IsInjective(InputSeq)
  BY <1>2 DEF InputSeq, SetToSeq
<1>4. InputSeq \in Injection(1 .. k, InputVars)
  BY <1>3 DEF Injection
<1>5. IsFiniteSet(1 .. k) /\ Cardinality(1 .. k) = k
  BY <1>1, FS_Interval
<1>6. InputSeq \in Surjection(1 .. k, InputVars)
  BY <1>1, <1>4, <1>5, FS_Injection
<1>7. InputSeq \in Seq(InputVars)
  BY <1>1, <1>3
<1>8. \A e \in InputVars : \E i \in 1 .. k : InputSeq[i] = e
  BY <1>6 DEF Surjection
<1>9. QED
  BY <1>3, <1>7, <1>8

LEMMA ExecInit == Init => ExecInv
<1> SUFFICES ASSUME Init PROVE ExecInv
  OBVIOUS
<1> DEFINE len == Len(InputSeq)
<1>1. len \in Nat /\ DOMAIN InputSeq = 1 .. len
  BY InputsListed
<1>2. /\ graph \in Graphs /\ buffer = FirstBuffer /\ done = {}
      /\ memory = [i \in 1 .. len |-> <<"in", InputSeq[i], 0>>]
      /\ pc = "idle" /\ run = 0
  BY <1>1 DEF Init
<1>3. TypeInv
  BY <1>2 DEF TypeInv
<1>4. \A e \in InputVars :
        /\ e \in Vars /\ buffer[e] \in 1 .. len /\ InputSeq[buffer[e]] = e
  <2> SUFFICES ASSUME NEW e \in InputVars
               PROVE  /\ e \in Vars /\ buffer[e] \in 1 .. len
                      /\ InputSeq[buffer[e]] = e
    OBVIOUS
  <2>1. e \in Vars
    BY DEF Vars
  <2>2. buffer[e] = CHOOSE i \in DOMAIN InputSeq : InputSeq[i] = e
    BY <1>2, <2>1 DEF FirstBuffer
  <2>3. \E i \in DOMAIN InputSeq : InputSeq[i] = e
    BY InputsListed
  <2>4. QED
    BY <1>1, <2>1, <2>2, <2>3
<1>5. \A v \in Vars \ InputVars : buffer[v] = 0
  BY <1>2 DEF FirstBuffer
<1>6. Typed(Arrays)
  <2>1. /\ memory \in [1 .. len -> Range(memory)] /\ Len(memory) = len
        /\ memory \in Seq(Range(memory))
    <3>1. memory \in [1 .. len -> Range(memory)]
      BY <1>2 DEF Range
    <3>2. len \in Nat
      BY <1>1
    <3> HIDE DEF len
    <3>3. memory \in Seq(Range(memory)) /\ Len(memory) = len
      BY <3>1, <3>2
    <3>4. QED
      BY <3>1, <3>3
  <2>2. buffer \in [Vars -> 0 .. len]
    <3>1. buffer = [v \in Vars |-> buffer[v]]
      BY <1>2 DEF FirstBuffer
    <3>2. \A v \in Vars : buffer[v] \in 0 .. len
      BY <1>1, <1>4, <1>5
    <3>3. QED
      BY <3>1, <3>2
  <2>3. QED
    BY <1>1, <2>1, <2>2 DEF Typed, Arrays
<1>7. SpaceOK(graph, Arrays)
  <2>1. \A e \in InputVars : Arrays.buffer[e] # 0
    BY <1>1, <1>4 DEF Arrays
  <2>2. ASSUME NEW u \in Vars, NEW v \in Vars, buffer[u] = buffer[v],
               buffer[u] # 0
        PROVE  u = v
    <3>1. u \in InputVars /\ v \in InputVars
      BY <1>5, <2>2
    <3>2. QED
      BY <1>4, <2>2, <3>1
  <2>3. QED
    BY <1>6, <2>1, <2>2 DEF SpaceOK, Arrays
<1>8. Progress
  <2>1. \A n \in Ids : n \in Vars \ InputVars
    BY VarKinds DEF Vars
  <2>2. QED
    BY <1>2, <1>5, <2>1 DEF Progress
<1>9. Right
  BY <1>2 DEF Right
<1>10. QED
  BY <1>3, <1>7, <1>8, <1>9 DEF ExecInv

\* What execute() has done of a node's inputs when its turn comes.
LEMMA TurnReady ==
  ASSUME ExecInv, Separate(graph), NEW n \in Ids, Turn(n)
  PROVE  /\ Range(graph[n].inputs) \subseteq done \cup InputVars
         /\ \A v \in done \cup InputVars : buffer[v] # 0
         /\ \A m \in Ids : Layer[m] < Layer[n] => m \in done
         /\ n \notin done
<1>1. n \notin done /\ \A m \in Ids : Layer[m] < Layer[n] => m \in done
  BY DEF Turn
<1>2. \A v \in done \cup InputVars : buffer[v] # 0
  BY DEF ExecInv, SpaceOK, Arrays, Progress
<1>3. ASSUME NEW v \in Range(graph[n].inputs) PROVE v \in done \cup InputVars
  <2>1. v \in Ids \cup InputVars
    BY NodeTyped DEF ExecInv, TypeInv
  <2>2. v \in Ids => Layer[v] < Layer[n]
    BY LayersAre DEF ExecInv, TypeInv, Layer
  <2>3. QED
    BY <1>1, <2>1, <2>2
<1>4. QED
  BY <1>1, <1>2, <1>3

\* executeFlatNode() as a whole.
LEMMA NodeExecutes ==
  ASSUME graph \in Graphs, Separate(graph), NEW s, SpaceOK(graph, s),
         NEW n \in Ids, s.buffer[graph[n].inputs[1]] # 0
  PROVE  LET a == Publish(Compute(s, n), n, Result(s, n))
         IN  /\ SpaceOK(graph, a) /\ a.buffer[n] # 0
             /\ \A u \in Vars \ ({n} \cup Named(n)) :
                  /\ a.buffer[u] = s.buffer[u]
                  /\ s.buffer[u] # 0 =>
                       \/ a.memory[s.buffer[u]] = s.memory[s.buffer[u]]
                       \/ Touched(graph, u, n)
             /\ (\/ graph[n].op \notin {"INDEX_ACCUMULATION", "BROADCAST"}
                 \/ s.buffer[n] = 0)
                  => a.memory[a.buffer[n]] = Result(s, n)
             /\ graph[n].op # "CUSTOM" => \A o \in Named(n) :
                  a.buffer[o] # 0 /\ a.memory[a.buffer[o]] = Result(s, n)
             /\ graph[n].op = "CUSTOM" => \A o \in Named(n) :
                  a.buffer[o] = s.buffer[o]
<1> DEFINE c == Compute(s, n)
           val == Result(s, n)
           a == Publish(c, n, val)
<1>1. /\ Executes(graph, s, c, n)
      /\ (\/ graph[n].op \notin {"INDEX_ACCUMULATION", "BROADCAST"}
          \/ s.buffer[n] = 0) => c.memory[c.buffer[n]] = val
  BY ComputeExecutes
<1>2. n \notin Named(n) /\ n \in Vars /\ Named(n) \subseteq OutputVars
  <2>1. n \in Nat
    BY IdsPositive
  <2>2. ~(n < 0)
    BY <2>1
  <2>3. Named(n) \subseteq OutputVars
    BY NodeTyped DEF Named
  <2>4. QED
    BY <2>2, <2>3 DEF Named, Vars
<1>3. SpaceOK(graph, c)
  BY <1>1 DEF Executes
<1> HIDE DEF c, val
<1>4. CASE graph[n].op = "CUSTOM"
  <2>1. a = c
    BY <1>4 DEF Publish
  <2>2. \A o \in Named(n) : o \in Vars \ {n}
    BY <1>2 DEF Vars
  <2>3. QED
    BY <1>1, <1>4, <2>1, <2>2 DEF Executes, c, val
<1>5. CASE graph[n].op # "CUSTOM"
  <2>1. Publishes(graph, c, a, Named(n), val)
    <3>1. graph[n].outputs \in Seq(Nat \cup OutputVars)
      BY NodeTyped
    <3> DEFINE outs == graph[n].outputs
               after[k \in 0 .. Len(outs)] ==
                 IF k = 0 THEN c ELSE PublishTo(after[k - 1], outs[k], val)
    <3>2. Publishes(graph, c, after[Len(outs)],
                    {o \in Range(outs) : o < 0}, val)
      <4> HIDE DEF after
      <4> QED
        BY <1>3, <3>1, PublishAll DEF after
    <3>3. a = after[Len(outs)]
      BY <1>5 DEF Publish
    <3> HIDE DEF after
    <3>4. QED
      BY <3>2, <3>3 DEF Named
  <2> HIDE DEF a
  <2>2. SpaceOK(graph, a)
    BY <2>1 DEF Publishes
  <2>3. a.buffer[n] = c.buffer[n] /\ a.buffer[n] # 0
    BY <1>1, <1>2, <2>1 DEF Publishes, Executes
  <2>4. a.memory[a.buffer[n]] = c.memory[c.buffer[n]]
    BY <1>1, <1>2, <2>1, <2>3 DEF Publishes, Executes
  <2>5. ASSUME NEW u \in Vars \ ({n} \cup Named(n))
        PROVE  /\ a.buffer[u] = s.buffer[u]
               /\ s.buffer[u] # 0 =>
                    \/ a.memory[s.buffer[u]] = s.memory[s.buffer[u]]
                    \/ Touched(graph, u, n)
    <3>1. /\ c.buffer[u] = s.buffer[u]
          /\ s.buffer[u] # 0 =>
               \/ c.memory[s.buffer[u]] = s.memory[s.buffer[u]]
               \/ Touched(graph, u, n)
      BY <1>1 DEF Executes
    <3>2. /\ a.buffer[u] = c.buffer[u]
          /\ c.buffer[u] # 0 => a.memory[c.buffer[u]] = c.memory[c.buffer[u]]
      BY <2>1 DEF Publishes
    <3>3. QED
      BY <3>1, <3>2
  <2>6. \A o \in Named(n) : a.buffer[o] # 0 /\ a.memory[a.buffer[o]] = val
    BY <2>1 DEF Publishes
  <2>7. QED
    BY <1>1, <1>5, <2>2, <2>3, <2>4, <2>5, <2>6 DEF a, c, val
<1>6. QED
  BY <1>4, <1>5

\* A call of execute() with new inputs: each is found in its own array.
LEMMA BeginKeeps == ExecInv /\ Begin => ExecInv'
<1> SUFFICES ASSUME ExecInv, Begin PROVE ExecInv'
  OBVIOUS
<1>1. /\ pc # "running" /\ run' = run + 1 /\ done' = {} /\ pc' = "running"
      /\ graph' = graph /\ buffer' = buffer
  BY DEF Begin
<1> DEFINE mem == [b \in DOMAIN memory |->
                     IF \E e \in InputVars : buffer[e] = b
                       THEN <<"in", CHOOSE e \in InputVars : buffer[e] = b,
                              run + 1>>
                       ELSE memory[b]]
<1>2. memory' = mem
  BY DEF Begin
<1>3. TypeInv'
  BY <1>1 DEF ExecInv, TypeInv
<1> SUFFICES ASSUME Separate(graph)
             PROVE  SpaceOK(graph, Arrays') /\ Progress' /\ Right'
  BY <1>1, <1>3 DEF ExecInv
<1>4. /\ Typed(Arrays) /\ SpaceOK(graph, Arrays)
      /\ \A e \in InputVars : buffer[e] # 0
  BY DEF ExecInv, SpaceOK, Arrays
<1>5. /\ Len(memory) \in Nat /\ DOMAIN memory = 1 .. Len(memory)
      /\ buffer \in [Vars -> 0 .. Len(memory)]
  BY <1>4 DEF Typed, Arrays
<1>6. /\ mem \in Seq(Range(mem)) /\ Len(mem) = Len(memory)
  <2>1. DOMAIN mem = 1 .. Len(memory)
    BY <1>5
  <2>2. mem = [b \in 1 .. Len(memory) |-> mem[b]]
    BY <1>5
  <2> HIDE DEF mem
  <2>3. mem \in [1 .. Len(memory) -> Range(mem)]
    BY <2>1, <2>2 DEF Range
  <2>4. QED
    BY <1>5, <2>3
<1>7. SpaceOK(graph, Arrays')
  <2> HIDE DEF mem
  <2>1. Typed(Arrays')
    BY <1>1, <1>2, <1>5, <1>6 DEF Typed, Arrays
  <2>2. Arrays'.buffer = Arrays.buffer
    BY <1>1 DEF Arrays
  <2>3. \A u, v : Before(graph, Arrays, u, v) => Before(graph, Arrays', u, v)
    BY <2>2 DEF Before
  <2>4. QED
    BY <1>4, <2>1, <2>2, <2>3 DEF SpaceOK
<1>8. Progress'
  <2>1. run \in Nat /\ Progress
    BY DEF ExecInv, TypeInv
  <2>2. run' # 0
    BY <1>1, <2>1
  <2>3. run' = 1 => run = 0
    BY <1>1, <2>1
  <2>4. run = 0 => \A n \in Ids : buffer[n] = 0
    BY <2>1 DEF Progress
  <2>5. QED
    BY <1>1, <2>2, <2>3, <2>4 DEF Progress
<1>9. ASSUME NEW e \in InputVars PROVE Holds(e)' = Meaning(e)'
  <2>1. e \in Vars /\ buffer[e] \in DOMAIN memory
    BY <1>4, <1>5 DEF Vars
  <2>2. ASSUME NEW d \in InputVars, buffer[d] = buffer[e] PROVE d = e
    <3>1. d \in Vars /\ d \notin Ids /\ e \notin Ids
      BY VarKinds DEF Vars
    <3>2. ~ Before(graph, Arrays, d, e) /\ ~ Before(graph, Arrays, e, d)
      BY <3>1 DEF Before
    <3>3. QED
      BY <1>4, <2>1, <2>2, <3>1, <3>2 DEF SpaceOK, Arrays
  <2>3. (CHOOSE d \in InputVars : buffer[d] = buffer[e]) = e
    BY <2>2
  <2>4. mem[buffer[e]] = <<"in", e, run + 1>>
    BY <2>1, <2>3
  <2>5. Meaning(e)' = <<"in", e, run + 1>>
    <3>1. Meaning(e)' = Meanings(graph, run + 1)[e]
      BY <1>1 DEF Meaning
    <3>2. graph \in Graphs
      BY DEF ExecInv, TypeInv
    <3>3. QED
      BY <3>1, <3>2, MeaningsAre
  <2> HIDE DEF mem
  <2>6. Holds(e)' = mem[buffer[e]]
    BY <1>1, <1>2 DEF Holds
  <2>7. QED
    BY <2>4, <2>5, <2>6
<1>10. Right'
  BY <1>1, <1>9 DEF Right
<1>11. QED
  BY <1>7, <1>8, <1>10

\* A node that runs: what it reads is right, so is what it returns, and what it
\* writes over has no reader left.
LEMMA ExecuteKeeps ==
  ASSUME ExecInv, NEW n \in Ids, ExecuteNode(n)
  PROVE  ExecInv'
<1> DEFINE s == Arrays
           a == Publish(Compute(s, n), n, Result(s, n))
<1>1. /\ pc = "running" /\ Turn(n) /\ done' = done \cup {n}
      /\ graph' = graph /\ pc' = pc /\ run' = run
      /\ buffer' = a.buffer /\ memory' = a.memory
  BY DEF ExecuteNode, Arrays
<1>2. /\ graph \in Graphs /\ done \subseteq Ids /\ run \in Nat
      /\ n \in Vars /\ TypeInv' /\ TypeInv
  <2>1. TypeInv /\ TypeInv'
    BY <1>1 DEF ExecInv, TypeInv
  <2>2. QED
    BY <2>1 DEF TypeInv, Vars
<1> SUFFICES ASSUME Separate(graph)
             PROVE  SpaceOK(graph, Arrays') /\ Progress' /\ Right'
  BY <1>1, <1>2 DEF ExecInv
<1>3. /\ SpaceOK(graph, s) /\ Progress /\ Right /\ s.buffer = buffer
      /\ s.memory = memory
  BY DEF ExecInv, Arrays
<1>4. /\ Range(graph[n].inputs) \subseteq done \cup InputVars
      /\ \A v \in done \cup InputVars : buffer[v] # 0
      /\ \A m \in Ids : Layer[m] < Layer[n] => m \in done
      /\ n \notin done
  BY <1>1, TurnReady
<1>5. s.buffer[graph[n].inputs[1]] # 0
  BY <1>2, <1>3, <1>4, NodeTyped
<1>6. /\ SpaceOK(graph, a) /\ a.buffer[n] # 0
      /\ \A u \in Vars \ ({n} \cup Named(n)) :
           /\ a.buffer[u] = buffer[u]
           /\ buffer[u] # 0 =>
                \/ a.memory[buffer[u]] = memory[buffer[u]]
                \/ Touched(graph, u, n)
      /\ (\/ graph[n].op \notin {"INDEX_ACCUMULATION", "BROADCAST"}
          \/ buffer[n] = 0)
           => a.memory[a.buffer[n]] = Result(s, n)
      /\ graph[n].op # "CUSTOM" => \A o \in Named(n) :
           a.buffer[o] # 0 /\ a.memory[a.buffer[o]] = Result(s, n)
  BY <1>2, <1>3, <1>5, NodeExecutes
<1> HIDE DEF a
<1>7. Arrays' = a
  <2>1. a = [buffer |-> a.buffer, memory |-> a.memory]
    BY <1>6 DEF SpaceOK, Typed
  <2>2. QED
    BY <1>1, <2>1 DEF Arrays
<1>8. Named(n) \subseteq OutputVars
  BY <1>2, NodeTyped DEF Named
<1>9. \A u \in InputVars \cup (Ids \ {n}) : u \in Vars \ ({n} \cup Named(n))
  BY <1>8, VarKinds DEF Vars
<1>10. Progress'
  <2>1. \A m \in done' : buffer'[m] # 0
    BY <1>1, <1>2, <1>3, <1>6, <1>9 DEF Progress
  <2>2. \A m \in done' : \A k \in Ids : Layer[k] < Layer[m] => k \in done'
    BY <1>1, <1>3, <1>4 DEF Progress
  <2>3. Layer' = Layer
    BY <1>1 DEF Layer
  <2>4. run # 0
    BY <1>1, <1>3 DEF Progress
  <2>5. run = 1 => \A m \in Ids \ done' : buffer'[m] = 0
    BY <1>1, <1>3, <1>6, <1>9 DEF Progress
  <2>6. QED
    BY <1>1, <2>1, <2>2, <2>3, <2>4, <2>5 DEF Progress
<1>11. ASSUME Current PROVE Right'
  <2>1. /\ \A v \in InputVars \cup done :
             Holds(v) = Meaning(v) \/ \E m \in done : Edge(graph, v, m)
        /\ \A k \in done : graph[k].op # "CUSTOM" =>
             \A o \in Named(k) : buffer[o] # 0 /\ Holds(o) = Meaning(k)
    BY <1>1, <1>3, <1>11 DEF Right
  <2>2. \A v : Meaning(v)' = Meaning(v)
    BY <1>1 DEF Meaning
  <2>3. \A k : Named(k)' = Named(k)
    BY <1>1 DEF Named
  <2>4. \A v : Holds(v)' = a.memory[a.buffer[v]]
    BY <1>1 DEF Holds
  <2>5. \A v : Holds(v) = memory[buffer[v]]
    BY DEF Holds
  <2>6. \A v \in Range(graph[n].inputs) : Holds(v) = Meaning(v)
    <3> SUFFICES ASSUME NEW v \in Range(graph[n].inputs),
                        NEW m \in done, Edge(graph, v, m)
                 PROVE  FALSE
      BY <1>4, <2>1
    <3>1. n = m
      BY <1>2, EdgeIs
    <3>2. QED
      BY <1>4, <3>1
  <2>7. Result(s, n) = Meaning(n)
    <3> DEFINE ins == graph[n].inputs
    <3>1. \A i \in DOMAIN ins : ins[i] \in Range(ins)
      BY DEF Range
    <3>2. \A i \in DOMAIN ins : s.memory[s.buffer[ins[i]]] = Meaning(ins[i])
      BY <1>3, <2>5, <2>6, <3>1
    <3>3. [i \in DOMAIN ins |-> s.memory[s.buffer[ins[i]]]] =
            [i \in DOMAIN ins |-> Meaning(ins[i])]
      BY <3>2
    <3>4. Meaning(n) = <<"op", n, [i \in DOMAIN ins |-> Meaning(ins[i])]>>
      BY <1>2, MeaningsAre DEF Meaning
    <3>5. QED
      BY <3>3, <3>4 DEF Result
  <2>8. \/ graph[n].op \notin {"INDEX_ACCUMULATION", "BROADCAST"}
        \/ buffer[n] = 0
    <3>1. CASE run <= 1
      <4>1. run = 1
        BY <1>1, <1>2, <1>3, <3>1 DEF Progress
      <4>2. QED
        BY <1>1, <1>3, <1>4, <4>1 DEF Progress
    <3>2. CASE ~(run <= 1)
      BY <1>11, <3>2 DEF Current
    <3>3. QED
      BY <3>1, <3>2
  <2>9. Holds(n)' = Meaning(n)
    BY <1>6, <2>4, <2>7, <2>8
  <2>10. ASSUME NEW v \in InputVars \cup done
         PROVE  Holds(v)' = Meaning(v) \/ \E m \in done' : Edge(graph, v, m)
    <3>1. v \in InputVars \cup (Ids \ {n}) /\ buffer[v] # 0
      BY <1>2, <1>4
    <3>2. /\ a.buffer[v] = buffer[v]
          /\ \/ a.memory[buffer[v]] = memory[buffer[v]]
             \/ Touched(graph, v, n)
      BY <1>6, <1>9, <3>1
    <3>3. CASE a.memory[buffer[v]] = memory[buffer[v]]
      BY <1>1, <2>1, <2>4, <2>5, <3>2, <3>3
    <3>4. ASSUME NEW m \in Ids, Edge(graph, v, m),
                 m = n \/ Layer[m] < Layer[n]
          PROVE  \E k \in done' : Edge(graph, v, k)
      BY <1>1, <1>4, <3>4
    <3>5. ASSUME v \in Ids, Layer[n] < Layer[v] PROVE FALSE
      <4>1. v \in done
        BY <3>5, VarKinds
      <4>2. n \in done
        BY <1>3, <3>5, <4>1 DEF Progress
      <4>3. QED
        BY <1>4, <4>2
    <3>6. QED
      BY <3>2, <3>3, <3>4, <3>5 DEF Touched, Layer
  <2>11. ASSUME NEW k \in done, graph[k].op # "CUSTOM", NEW o \in Named(k)
         PROVE  buffer'[o] # 0 /\ Holds(o)' = Meaning(k)
    <3>1. k \in Ids /\ k # n /\ o \in OutputVars
      BY <1>2, <1>4, NodeTyped DEF Named
    <3>2. o \notin Named(n)
      BY <1>2, <3>1 DEF Separate, Named
    <3>3. o \in Vars \ ({n} \cup Named(n)) /\ o \notin Ids /\ o \notin InputVars
      BY <1>2, <3>1, <3>2, VarKinds DEF Vars
    <3>4. ~Touched(graph, o, n)
      BY <1>2, <3>3, EdgeIs DEF Touched
    <3>5. buffer[o] # 0 /\ Holds(o) = Meaning(k)
      BY <2>1, <2>11
    <3>6. a.buffer[o] = buffer[o] /\ a.memory[buffer[o]] = memory[buffer[o]]
      BY <1>6, <3>3, <3>4, <3>5
    <3>7. QED
      BY <1>1, <2>4, <2>5, <3>5, <3>6
  <2>12. ASSUME graph[n].op # "CUSTOM", NEW o \in Named(n)
         PROVE  buffer'[o] # 0 /\ Holds(o)' = Meaning(n)
    BY <1>1, <1>6, <2>4, <2>7, <2>12
  <2>13. \A v \in InputVars \cup done' :
           Holds(v)' = Meaning(v)' \/ \E m \in done' : Edge(graph', v, m)
    BY <1>1, <2>2, <2>9, <2>10
  <2>14. \A k \in done' : graph'[k].op # "CUSTOM" =>
           \A o \in Named(k)' : buffer'[o] # 0 /\ Holds(o)' = Meaning(k)'
    BY <1>1, <2>2, <2>3, <2>11, <2>12
  <2>15. QED
    BY <2>13, <2>14 DEF Right
<1>12. ASSUME ~Current PROVE Right'
  BY <1>1, <1>12 DEF Right, Current
<1>13. QED
  BY <1>6, <1>7, <1>10, <1>11, <1>12

\* A custom operation that fails leaves arrays behind and nothing else.
LEMMA FailureKeeps ==
  ASSUME ExecInv, NEW n \in Ids, NodeFails(n)
  PROVE  ExecInv'
<1> DEFINE s == Arrays
<1>1. PICK a \in {Own(s, n), Compute(s, n)} :
        buffer' = a.buffer /\ memory' = a.memory
  BY DEF NodeFails, Arrays
<1>2. /\ pc = "running" /\ Turn(n) /\ graph[n].op = "CUSTOM"
      /\ pc' = "failed" /\ UNCHANGED <<graph, done, run>>
  BY DEF NodeFails
<1>3. TypeInv' /\ graph \in Graphs /\ done \subseteq Ids
  BY <1>2 DEF ExecInv, TypeInv
<1> SUFFICES ASSUME Separate(graph)
             PROVE  SpaceOK(graph, Arrays') /\ Progress' /\ Right'
  BY <1>2, <1>3 DEF ExecInv
<1>4. SpaceOK(graph, s) /\ Progress /\ s.buffer = buffer
  BY DEF ExecInv, Arrays
<1>5. s.buffer[graph[n].inputs[1]] # 0 /\ n \notin done
  BY <1>2, <1>3, <1>4, TurnReady, NodeTyped
<1>6. Prepares(graph, s, Own(s, n), n)
  BY <1>2, <1>3, <1>4, <1>5, TargetsPrepare
<1>7. Executes(graph, s, Compute(s, n), n)
  BY <1>3, <1>4, <1>5, ComputeExecutes
<1>8. SpaceOK(graph, a) /\ \A u \in Vars \ {n} : a.buffer[u] = buffer[u]
  BY <1>4, <1>6, <1>7 DEF Prepares, Executes
<1>9. Arrays' = a
  <2>1. a = [buffer |-> a.buffer, memory |-> a.memory]
    BY <1>8 DEF SpaceOK, Typed
  <2>2. QED
    BY <1>1, <2>1 DEF Arrays
<1>10. Progress'
  <2>1. \A m \in done : m \in Vars \ {n}
    BY <1>3, <1>5 DEF Vars
  <2>2. Layer' = Layer
    BY <1>2 DEF Layer
  <2>3. run # 0
    BY <1>2, <1>4 DEF Progress
  <2>4. QED
    BY <1>1, <1>2, <1>4, <1>8, <2>1, <2>2, <2>3 DEF Progress
<1>11. Right'
  BY <1>2 DEF Right
<1>12. QED
  BY <1>8, <1>9, <1>10, <1>11

LEMMA FinishKeeps == ExecInv /\ Finish => ExecInv'
<1> SUFFICES ASSUME ExecInv, Finish PROVE ExecInv'
  OBVIOUS
<1>1. /\ pc = "running" /\ done = Ids /\ pc' = "finished"
      /\ UNCHANGED <<graph, buffer, memory, done, run>>
  BY DEF Finish
<1>2. TypeInv' /\ Arrays' = Arrays /\ Layer' = Layer
  BY <1>1 DEF ExecInv, TypeInv, Arrays, Layer
<1>3. Progress => Progress'
  BY <1>1, <1>2 DEF Progress
<1>4. Right => Right'
  BY <1>1 DEF Right, Current, Holds, Meaning, Named
<1>5. QED
  BY <1>1, <1>2, <1>3, <1>4 DEF ExecInv

LEMMA ExecNext == ExecInv /\ [Next]_vars => ExecInv'
<1> SUFFICES ASSUME ExecInv, [Next]_vars PROVE ExecInv'
  OBVIOUS
<1>1. CASE UNCHANGED vars
  <2>1. UNCHANGED <<graph, buffer, memory, done, pc, run>>
    BY <1>1 DEF vars
  <2>2. TypeInv' /\ Arrays' = Arrays /\ Layer' = Layer
    BY <2>1 DEF ExecInv, TypeInv, Arrays, Layer
  <2>3. Progress => Progress'
    BY <2>1, <2>2 DEF Progress
  <2>4. Right => Right'
    BY <2>1 DEF Right, Current, Holds, Meaning, Named
  <2>5. QED
    BY <2>1, <2>2, <2>3, <2>4 DEF ExecInv
<1>2. QED
  BY <1>1, BeginKeeps, ExecuteKeeps, FailureKeeps, FinishKeeps DEF Next

\* Arrays are shared along operations in place only, and what is shared means
\* something to the last of them, through executions that succeed and fail.
THEOREM ExecutionIsInvariant == Spec => []ExecInv
BY ExecInit, ExecNext, PTL DEF Spec

\* In graphs where nothing that is overwritten has another reader, what a node
\* reads is what the graph means when it runs, in every order within a layer,
\* and in every execution that follows others.
THEOREM InputsStayIntact == Spec => [](Separate(graph) => InputsIntact)
<1>1. ExecInv => (Separate(graph) => InputsIntact)
  <2> SUFFICES ASSUME ExecInv, Separate(graph), pc = "running",
                      NEW n \in Ids \ done, ~Stale(n),
                      NEW v \in Inputs(n) \cap (done \cup InputVars)
               PROVE  Holds(v) = Meaning(v)
    BY DEF InputsIntact
  <2>1. Current
    BY DEF Stale, Current, ExecInv, TypeInv
  <2>2. Holds(v) = Meaning(v) \/ \E m \in done : Edge(graph, v, m)
    BY <2>1 DEF ExecInv, Right
  <2>3. \A m : Edge(graph, v, m) => n = m
    BY EdgeIs DEF ExecInv, TypeInv, Inputs
  <2>4. QED
    BY <2>2, <2>3
<1>2. QED
  BY <1>1, ExecutionIsInvariant, PTL

\* What execute() returns for the nodes nobody reads is what the graph means.
THEOREM ResultsFollowDataflow ==
  Spec => [](Separate(graph) => ResultsAreDataflow)
<1>1. ExecInv => (Separate(graph) => ResultsAreDataflow)
  <2> SUFFICES ASSUME ExecInv, Separate(graph), pc = "finished",
                      NEW n \in Ids, Readers(n) = {}, ~Stale(n)
               PROVE  Holds(n) = Meaning(n)
    BY DEF ResultsAreDataflow
  <2>1. Current /\ done = Ids
    BY DEF Stale, Current, ExecInv, TypeInv, Progress
  <2>2. Holds(n) = Meaning(n) \/ \E m \in done : Edge(graph, n, m)
    BY <2>1 DEF ExecInv, Right
  <2>3. ASSUME NEW m, Edge(graph, n, m) PROVE FALSE
    <3>1. m \in Ids /\ n \in Range(graph[m].inputs)
      BY <2>3, NodeTyped DEF Edge, ExecInv, TypeInv
    <3>2. QED
      BY <3>1 DEF Readers, Inputs
  <2>4. QED
    BY <2>2, <2>3
<1>2. QED
  BY <1>1, ExecutionIsInvariant, PTL

\* External outputs hold what their node computed, whoever has computed in its
\* array since.
THEOREM OutputsFollowDataflow ==
  Spec => [](Separate(graph) => OutputsAreDataflow)
<1>1. ExecInv => (Separate(graph) => OutputsAreDataflow)
  <2> SUFFICES ASSUME ExecInv, Separate(graph), pc = "finished",
                      NEW n \in Ids, NEW o \in Range(graph[n].outputs),
                      o < 0, graph[n].op # "CUSTOM", ~Stale(n)
               PROVE  Holds(o) = Meaning(n)
    BY DEF OutputsAreDataflow
  <2>1. Current /\ done = Ids /\ o \in Named(n)
    BY DEF Stale, Current, ExecInv, TypeInv, Progress, Named
  <2>2. QED
    BY <2>1 DEF ExecInv, Right
<1>2. QED
  BY <1>1, ExecutionIsInvariant, PTL

==============================================================================
