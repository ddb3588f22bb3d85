------------------------- MODULE VariableSpaceProofs -------------------------
(***************************************************************************)
(* Proofs about VariableSpace for every set of ids and names and any       *)
(* number of variables: the three views of a space agree, a clone finds    *)
(* what its original finds, and nothing is deleted twice, whatever way     *)
(* variables come in and in whatever order spaces go.                      *)
(*                                                                         *)
(* The steps fall into four kinds, which the invariant is shown to survive *)
(* one by one: a variable comes in (Enters), a variable gets an array      *)
(* (Touches), a space is cloned, a space goes.                             *)
(***************************************************************************)
EXTENDS VariableSpace, FiniteSetTheorems, TLAPS

-----------------------------------------------------------------------------
(* Sequences and functions.                                                *)

LEMMA SeqAppend ==
  ASSUME NEW R, NEW s \in Seq(R), NEW e \in R
  PROVE  /\ Append(s, e) \in Seq(R)
         /\ Len(s) \in Nat /\ DOMAIN s = 1 .. Len(s)
         /\ Len(Append(s, e)) = Len(s) + 1
         /\ DOMAIN Append(s, e) = DOMAIN s \cup {Len(s) + 1}
         /\ Append(s, e)[Len(s) + 1] = e
         /\ \A i \in DOMAIN s : Append(s, e)[i] = s[i]
  OBVIOUS

LEMMA SeqMade ==
  ASSUME NEW R, NEW m \in Nat, NEW f, f = [i \in 1 .. m |-> f[i]],
         \A i \in 1 .. m : f[i] \in R
  PROVE  f \in Seq(R) /\ Len(f) = m
<1>1. f \in [1 .. m -> R]
  OBVIOUS
<1>2. QED
  BY <1>1

LEMMA SeqConcat ==
  ASSUME NEW R, NEW s \in Seq(R), NEW t \in Seq(R)
  PROVE  /\ s \o t \in Seq(R)
         /\ Len(s) \in Nat /\ DOMAIN s = 1 .. Len(s)
         /\ Len(t) \in Nat /\ DOMAIN t = 1 .. Len(t)
         /\ Len(s \o t) = Len(s) + Len(t)
         /\ DOMAIN (s \o t) = 1 .. Len(s) + Len(t)
         /\ \A i \in DOMAIN s : (s \o t)[i] = s[i]
         /\ \A i \in DOMAIN t : (s \o t)[Len(s) + i] = t[i]
  OBVIOUS

\* Appending what is not there yet keeps a list free of repetitions.
LEMMA AppendNew ==
  ASSUME NEW R, NEW s \in Seq(R), NEW e \in R
  PROVE  /\ Range(Append(s, e)) = Range(s) \cup {e}
         /\ IsInjective(s) /\ e \notin Range(s) => IsInjective(Append(s, e))
<1> DEFINE t == Append(s, e)
<1>1. /\ DOMAIN t = DOMAIN s \cup {Len(s) + 1} /\ t[Len(s) + 1] = e
      /\ Len(s) + 1 \notin DOMAIN s
      /\ \A i \in DOMAIN s : t[i] = s[i]
  BY SeqAppend
<1> HIDE DEF t
<1>2. Range(t) = Range(s) \cup {e}
  BY <1>1 DEF Range
<1>3. IsInjective(s) /\ e \notin Range(s) => IsInjective(t)
  BY <1>1 DEF Range, IsInjective
<1>4. QED
  BY <1>2, <1>3 DEF t

LEMMA WithIs ==
  ASSUME NEW f, NEW x, NEW y
  PROVE  /\ DOMAIN With(f, x, y) = DOMAIN f \cup {x}
         /\ With(f, x, y)[x] = y
         /\ \A z \in DOMAIN f : z # x => With(f, x, y)[z] = f[z]
  BY DEF With

LEMMA WithNew ==
  ASSUME NEW f, NEW x, x \notin DOMAIN f, NEW y
  PROVE  /\ Range(With(f, x, y)) = Range(f) \cup {y}
         /\ IsInjective(f) /\ y \notin Range(f) => IsInjective(With(f, x, y))
<1> DEFINE g == With(f, x, y)
<1>1. /\ DOMAIN g = DOMAIN f \cup {x} /\ g[x] = y
      /\ \A z \in DOMAIN f : g[z] = f[z]
  BY DEF With
<1> HIDE DEF g
<1>2. Range(g) = Range(f) \cup {y}
  BY <1>1 DEF Range
<1>3. IsInjective(f) /\ y \notin Range(f) => IsInjective(g)
  BY <1>1 DEF Range, IsInjective
<1>4. QED
  BY <1>2, <1>3 DEF g

\* The keys of a map, listed: each once.
LEMMA ListsEachOnce ==
  ASSUME NEW S, IsFiniteSet(S)
  PROVE  /\ Cardinality(S) \in Nat
         /\ DOMAIN SetToSeq(S) = 1 .. Cardinality(S)
         /\ Range(SetToSeq(S)) = S /\ IsInjective(SetToSeq(S))
<1> DEFINE n == Cardinality(S)
<1>1. n \in Nat /\ ExistsBijection(1 .. n, S)
  BY FS_CardinalityType
<1>2. \E f \in [1 .. n -> S] : IsInjective(f)
  BY <1>1 DEF ExistsBijection, Bijection, Injection
<1>3. SetToSeq(S) \in [1 .. n -> S] /\ IsInjective(SetToSeq(S))
  BY <1>2 DEF SetToSeq
<1>4. SetToSeq(S) \in Surjection(1 .. n, S)
  <2>1. SetToSeq(S) \in Injection(1 .. n, S)
    BY <1>3 DEF Injection
  <2>2. IsFiniteSet(1 .. n) /\ Cardinality(1 .. n) = n
    BY <1>1, FS_Interval
  <2>3. QED
    BY <2>1, <2>2, FS_Injection
<1>5. Range(SetToSeq(S)) = S
  BY <1>3, <1>4 DEF Surjection, Range
<1>6. QED
  BY <1>1, <1>3, <1>5

-----------------------------------------------------------------------------
(* What the two putVariable() do to a space.                               *)

Variable ==
  [array : Nat, placeholder : BOOLEAN, copyOf : Nat, removable : BOOLEAN,
   name : Names \cup {""}]

\* The number of the next variable.
New == Len(heap) + 1

IsSpace(sp) ==
  /\ sp = [byId |-> sp.byId, paired |-> sp.paired, symbolic |-> sp.symbolic,
           handles |-> sp.handles, external |-> sp.external,
           internal |-> sp.internal, placeholders |-> sp.placeholders]
  /\ sp.handles \in Seq(Nat) /\ sp.placeholders \in Seq(Nat)
  /\ sp.external \in Seq(Nat) /\ sp.internal \in Seq(Nat)
  /\ IsFiniteSet(DOMAIN sp.paired) /\ IsFiniteSet(DOMAIN sp.byId)
  /\ DOMAIN sp.byId \subseteq NodeIds /\ DOMAIN sp.paired \subseteq Keys

TypeOK ==
  /\ heap \in Seq(Variable)
  /\ freed \in Seq([variable : Nat, array : Nat])
  /\ cloned \in BOOLEAN
  /\ "copy" \in DOMAIN spaces => cloned
  /\ spaces = [s \in DOMAIN spaces |-> spaces[s]]
  /\ \A s \in DOMAIN spaces : IsSpace(spaces[s])

\* Space sp once variable o, which is v, has come in under key: by whichever
\* call, it is in every view that has to show it.
Enter(sp, key, o, v) ==
  [byId |-> IF key[2] = 0 THEN With(sp.byId, key[1], o) ELSE sp.byId,
   paired |-> With(sp.paired, key, o),
   symbolic |-> IF v.name = "" THEN sp.symbolic
                               ELSE With(sp.symbolic, v.name, o),
   handles |-> Append(sp.handles, o),
   external |-> IF key[2] = 0 /\ key[1] < 0 THEN Append(sp.external, o)
                                            ELSE sp.external,
   internal |-> IF key[2] = 0 /\ ~(key[1] < 0) THEN Append(sp.internal, o)
                                               ELSE sp.internal,
   placeholders |-> IF v.placeholder THEN Append(sp.placeholders, o)
                                     ELSE sp.placeholders]

LEMMA InsertEnters ==
  ASSUME NEW sp, IsSpace(sp), NEW h, NEW id, NEW o,
         <<id, 0>> \notin DOMAIN sp.paired
  PROVE  Insert(sp, h, id, o) = <<Enter(sp, <<id, 0>>, o, h[o]), h>>
<1>1. sp = [byId |-> sp.byId, paired |-> sp.paired, symbolic |-> sp.symbolic,
           handles |-> sp.handles, external |-> sp.external,
           internal |-> sp.internal, placeholders |-> sp.placeholders]
  BY DEF IsSpace
<1>2. QED
  BY <1>1 DEF Insert, Enter, Named, Remembered

LEMMA PairEnters ==
  ASSUME NEW sp, IsSpace(sp), NEW h, NEW key \in Keys, NEW o,
         key \notin DOMAIN sp.paired,
         key[2] = 0 => key[1] \notin DOMAIN sp.byId
  PROVE  PutByPair(sp, h, key, o) = <<Enter(sp, key, o, h[o]), h>>
<1>1. sp = [byId |-> sp.byId, paired |-> sp.paired, symbolic |-> sp.symbolic,
           handles |-> sp.handles, external |-> sp.external,
           internal |-> sp.internal, placeholders |-> sp.placeholders]
  BY DEF IsSpace
<1>2. key = <<key[1], key[2]>>
  BY DEF Keys
<1>3. CASE key[2] = 0
  <2> DEFINE put == [sp EXCEPT !.paired = With(@, key, o),
                               !.placeholders = Remembered(@, o, h)]
  <2>1. PutByPair(sp, h, key, o) = Insert(put, h, key[1], o)
    BY <1>1, <1>3 DEF PutByPair, PutById
  <2>2. <<key[1], 0>> \in DOMAIN put.paired
    BY <1>1, <1>2, <1>3 DEF With
  <2>3. Insert(put, h, key[1], o) = <<Enter(sp, key, o, h[o]), h>>
    BY <1>1, <1>3, <2>2 DEF Insert, Enter, Named, Remembered
  <2>4. QED
    BY <2>1, <2>3
<1>4. CASE key[2] # 0
  <2> DEFINE seen == [sp EXCEPT !.paired = With(@, key, o)]
             put == [seen EXCEPT !.placeholders = Remembered(@, o, h)]
             kept == [put EXCEPT !.handles = Append(@, o)]
             last == [kept EXCEPT !.symbolic = Named(@, o, h)]
  <2>1. PutByPair(sp, h, key, o) = <<last, h>>
    BY <1>4 DEF PutByPair
  <2>2. seen = [byId |-> sp.byId, paired |-> With(sp.paired, key, o),
                symbolic |-> sp.symbolic, handles |-> sp.handles,
                external |-> sp.external, internal |-> sp.internal,
                placeholders |-> sp.placeholders]
    BY <1>1
  <2> HIDE DEF seen
  <2>3. put = [byId |-> sp.byId, paired |-> With(sp.paired, key, o),
                symbolic |-> sp.symbolic, handles |-> sp.handles,
                external |-> sp.external, internal |-> sp.internal,
                placeholders |-> Remembered(sp.placeholders, o, h)]
    BY <2>2
  <2> HIDE DEF put
  <2>4. kept = [byId |-> sp.byId, paired |-> With(sp.paired, key, o),
                symbolic |-> sp.symbolic, handles |-> Append(sp.handles, o),
                external |-> sp.external, internal |-> sp.internal,
                placeholders |-> Remembered(sp.placeholders, o, h)]
    BY <2>3
  <2> HIDE DEF kept
  <2>5. last = [byId |-> sp.byId, paired |-> With(sp.paired, key, o),
                symbolic |-> Named(sp.symbolic, o, h),
                handles |-> Append(sp.handles, o),
                external |-> sp.external, internal |-> sp.internal,
                placeholders |-> Remembered(sp.placeholders, o, h)]
    <3>1. last = [kept EXCEPT !.symbolic = Named(sp.symbolic, o, h)]
      BY <2>4
    <3> HIDE DEF last
    <3>2. QED
      BY <2>4, <3>1
  <2> HIDE DEF last
  <2>6. Enter(sp, key, o, h[o])
          = [byId |-> sp.byId, paired |-> With(sp.paired, key, o),
             symbolic |-> Named(sp.symbolic, o, h),
             handles |-> Append(sp.handles, o),
             external |-> sp.external, internal |-> sp.internal,
             placeholders |-> Remembered(sp.placeholders, o, h)]
    <3> DEFINE out == IF key[2] = 0 /\ key[1] < 0
                        THEN Append(sp.external, o) ELSE sp.external
               in == IF key[2] = 0 /\ ~(key[1] < 0)
                       THEN Append(sp.internal, o) ELSE sp.internal
               ids == IF key[2] = 0 THEN With(sp.byId, key[1], o) ELSE sp.byId
    <3>1. Named(sp.symbolic, o, h) = IF h[o].name = "" THEN sp.symbolic
                                     ELSE With(sp.symbolic, h[o].name, o)
      BY DEF Named
    <3>2. Remembered(sp.placeholders, o, h)
            = IF h[o].placeholder THEN Append(sp.placeholders, o)
                                  ELSE sp.placeholders
      BY DEF Remembered
    <3>3. out = sp.external /\ in = sp.internal /\ ids = sp.byId
      BY <1>4
    <3>4. Enter(sp, key, o, h[o])
            = [byId |-> ids, paired |-> With(sp.paired, key, o),
               symbolic |-> IF h[o].name = "" THEN sp.symbolic
                                     ELSE With(sp.symbolic, h[o].name, o),
               handles |-> Append(sp.handles, o),
               external |-> out, internal |-> in,
               placeholders |-> IF h[o].placeholder
                                  THEN Append(sp.placeholders, o)
                                  ELSE sp.placeholders]
      BY Zenon DEF Enter
    <3> HIDE DEF out, in, ids
    <3>5. QED
      BY <3>1, <3>2, <3>3, <3>4, Zenon
  <2>7. last = Enter(sp, key, o, h[o])
    BY <2>5, <2>6
  <2>8. QED
    BY <2>1, <2>7
<1>5. QED
  BY <1>3, <1>4

-----------------------------------------------------------------------------
(* The inductive invariant.                                                *)

Held(sp) == Range(sp.handles)

\* A space holds what its pairs lead to, each variable once, and only that.
HandlesInv == \A s \in DOMAIN spaces :
  /\ IsInjective(spaces[s].handles) /\ IsInjective(spaces[s].paired)
  /\ Range(spaces[s].paired) = Held(spaces[s])

\* The view by id is the pairs' first outputs; the view by name has every
\* named variable the space holds, whose names differ, and no other.
ViewsOf(sp) ==
  /\ {<<id, 0>> : id \in DOMAIN sp.byId} = {k \in DOMAIN sp.paired : k[2] = 0}
  /\ \A id \in DOMAIN sp.byId : sp.byId[id] = sp.paired[<<id, 0>>]
  /\ \A x \in DOMAIN sp.symbolic :
       sp.symbolic[x] \in Held(sp) /\ heap[sp.symbolic[x]].name = x /\ x # ""
  /\ \A o \in Held(sp) : heap[o].name # "" =>
       /\ heap[o].name \in DOMAIN sp.symbolic
       /\ sp.symbolic[heap[o].name] = o

ViewInv == \A s \in DOMAIN spaces : ViewsOf(spaces[s])

\* A variable is held by one space, or was deleted once, or neither.
OwnersInv ==
  /\ \A s \in DOMAIN spaces :
       /\ Held(spaces[s]) \subseteq Made
       /\ \A t \in DOMAIN spaces :
            s # t => Held(spaces[s]) \cap Held(spaces[t]) = {}
       /\ \A i \in DOMAIN freed : freed[i].variable \notin Held(spaces[s])
  /\ \A i \in DOMAIN freed : freed[i].variable \in Made
  /\ \A i, j \in DOMAIN freed : freed[i].variable = freed[j].variable => i = j

\* The variables a space holds or has deleted: not the ones Update() dropped.
Owned ==
  (UNION {Held(spaces[s]) : s \in DOMAIN spaces}) \cup
    {freed[i].variable : i \in DOMAIN freed}

\* A variable has the array it came with, one made for it, or the array of a
\* variable that was dropped; no two owned ones share an array, and an array
\* goes with its owner if it is removable.
ArrayInv ==
  /\ \A v \in Made : heap[v].array \in {0, v} \cup (Made \ Owned)
  /\ \A v, w \in Owned :
       heap[v].array = heap[w].array => v = w \/ heap[v].array = 0
  /\ \A i \in DOMAIN freed :
       \/ freed[i].array = 0
       \/ /\ heap[freed[i].variable].removable
          /\ freed[i].array = heap[freed[i].variable].array
  /\ \A o \in Made : heap[o].removable \/ (heap[o].array = o /\ o \in Owned)

\* The lists of the space that was not cloned from another.
EntriesOf(sp) ==
  /\ Len(sp.external) = Cardinality({id \in DOMAIN sp.byId : (id < 0) = TRUE})
  /\ Len(sp.internal) = Cardinality({id \in DOMAIN sp.byId : (id < 0) = FALSE})
  /\ IsInjective(sp.placeholders)
  /\ Range(sp.placeholders) = {o \in Held(sp) : heap[o].placeholder}

EntryInv == "main" \in DOMAIN spaces => EntriesOf(spaces["main"])

Inv ==
  TypeOK /\ HandlesInv /\ ViewInv /\ OwnersInv /\ ArrayInv /\ EntryInv

-----------------------------------------------------------------------------
(* What each call does, seen from the invariant.                           *)

\* Variable v is made, and comes into space s under key.
Enters(s, key, v) ==
  /\ s \in DOMAIN spaces /\ key \in Keys
  /\ key \notin DOMAIN spaces[s].paired
  /\ key[2] = 0 => key[1] \notin DOMAIN spaces[s].byId
  /\ v \in Variable /\ v.array \in {0, New}
  /\ v.removable \/ v.array = New
  /\ v.name = "" \/ \A o \in Made : heap[o].name # v.name
  /\ heap' = Append(heap, v)
  /\ spaces' = [spaces EXCEPT ![s] = Enter(spaces[s], key, New, v)]
  /\ UNCHANGED <<freed, cloned>>

\* Variable k of space s gets array a, if it had none; perhaps another was
\* made and dropped.
Touches(s, k, a) ==
  /\ UNCHANGED <<spaces, freed, cloned>>
  /\ s \in DOMAIN spaces /\ k \in Held(spaces[s])
  /\ heap' \in Seq(Variable)
  /\ Made \subseteq Made'
  /\ a \in {0, k} \cup (Made' \ Made)
  /\ \A o \in Made :
       /\ heap'[o].name = heap[o].name
       /\ heap'[o].placeholder = heap[o].placeholder
       /\ heap'[o].removable = heap[o].removable
       /\ \/ heap'[o].array = heap[o].array
          \/ o = k /\ heap[k].array = 0 /\ heap'[k].array = a
  /\ \A o \in Made' \ Made : heap'[o].removable /\ heap'[o].array \in {0, o}

LEMMA NewIs ==
  TypeOK => New \in Nat /\ New > 0 /\ Made = 1 .. Len(heap) /\ New \notin Made
            /\ Len(heap) \in Nat
<1> SUFFICES ASSUME heap \in Seq(Variable)
             PROVE  Len(heap) \in Nat /\ DOMAIN heap = 1 .. Len(heap)
  BY DEF TypeOK, New, Made
<1> HIDE DEF Variable
<1> QED
  OBVIOUS

LEMMA HeapTyped == TypeOK => \A o \in Made : heap[o] \in Variable
<1> SUFFICES ASSUME heap \in Seq(Variable), NEW o \in DOMAIN heap
             PROVE  heap[o] \in Variable
  BY DEF TypeOK, Made
<1> HIDE DEF Variable
<1> QED
  OBVIOUS

\* A new variable, appended to the heap.
LEMMA HeapGrows ==
  ASSUME TypeOK, NEW v \in Variable
  PROVE  /\ Append(heap, v) \in Seq(Variable)
         /\ DOMAIN Append(heap, v) = Made \cup {New}
         /\ Append(heap, v)[New] = v
         /\ \A o \in Made : Append(heap, v)[o] = heap[o]
<1>1. heap \in Seq(Variable)
  BY DEF TypeOK
<1> HIDE DEF Variable
<1>2. QED
  BY <1>1, SeqAppend DEF New, Made

\* A variable of heap h gets another array.
LEMMA ArraySet ==
  ASSUME NEW h \in Seq(Variable), NEW k \in DOMAIN h, NEW a \in Nat
  PROVE  LET g == [h EXCEPT ![k].array = a]
         IN  /\ g \in Seq(Variable) /\ DOMAIN g = DOMAIN h
             /\ \A o \in DOMAIN h :
                  /\ g[o].name = h[o].name
                  /\ g[o].placeholder = h[o].placeholder
                  /\ g[o].removable = h[o].removable
                  /\ g[o].array = IF o = k THEN a ELSE h[o].array
<1> DEFINE e == [h[k] EXCEPT !.array = a]
           g == [h EXCEPT ![k] = e]
<1>1. h[k] \in Variable
  <2> HIDE DEF Variable
  <2> QED
    OBVIOUS
<1>2. /\ e \in Variable /\ e.array = a /\ e.name = h[k].name
      /\ e.placeholder = h[k].placeholder /\ e.removable = h[k].removable
  BY <1>1 DEF Variable
<1>3. g \in Seq(Variable) /\ DOMAIN g = DOMAIN h /\ g[k] = e
      /\ \A o \in DOMAIN h : o # k => g[o] = h[o]
  <2> HIDE DEF e, Variable
  <2> QED
    BY <1>2
<1>4. [h EXCEPT ![k].array = a] = g
  OBVIOUS
<1> HIDE DEF e, g
<1>5. QED
  BY <1>2, <1>3, <1>4

LEMMA NewVariablesTyped ==
  ASSUME TypeOK, NEW v \in NewVariables
  PROVE  /\ v \in Variable /\ v.array \in {0, New}
         /\ v.removable \/ v.array = New
         /\ v.name = "" \/ \A o \in Made : heap[o].name # v.name
<1> DEFINE unborne == {""} \cup {x \in Names : \A o \in Made : heap[o].name # x}
<1>1. /\ v \in [array : {0, New}, placeholder : BOOLEAN, copyOf : {0},
                removable : BOOLEAN, name : unborne]
      /\ v.array = 0 => v.removable
  BY DEF NewVariables, New
<1>2. unborne \subseteq Names \cup {""}
      /\ \A x \in unborne : x = "" \/ \A o \in Made : heap[o].name # x
  OBVIOUS
<1>3. New \in Nat
  BY NewIs
<1> HIDE DEF New, unborne
<1>4. v = [array |-> v.array, placeholder |-> v.placeholder,
           copyOf |-> v.copyOf, removable |-> v.removable, name |-> v.name]
      /\ v.array \in {0, New} /\ v.placeholder \in BOOLEAN /\ v.copyOf = 0
      /\ v.removable \in BOOLEAN /\ v.name \in unborne
  BY <1>1
<1>5. v \in Variable
  <2>1. v.array \in Nat /\ v.copyOf \in Nat
    BY <1>3, <1>4
  <2>2. v.name \in Names \cup {""}
    BY <1>2, <1>4, Zenon
  <2>3. QED
    BY <1>4, <2>1, <2>2, Zenon DEF Variable
<1>6. QED
  BY <1>1, <1>2, <1>4, <1>5

LEMMA BecomesIs ==
  ASSUME NEW s, NEW x, NEW y, Becomes(s, <<x, y>>)
  PROVE  /\ spaces' = [spaces EXCEPT ![s] = x] /\ heap' = y
         /\ UNCHANGED <<freed, cloned>>
  BY DEF Becomes

LEMMA FirstKey == \A id \in NodeIds : <<id, 0>> \in Keys
<1>1. MaxIndex \in Nat
  BY SpaceAssumption, Zenon
<1>2. 0 \in 0 .. MaxIndex
  BY <1>1
<1>3. QED
  BY <1>2 DEF Keys

\* The view by id knows an id exactly when its first output is paired.
LEMMA FirstOutputs ==
  ASSUME ViewInv, NEW s \in DOMAIN spaces, NEW id
  PROVE  /\ id \in DOMAIN spaces[s].byId
              <=> <<id, 0>> \in DOMAIN spaces[s].paired
         /\ id \in DOMAIN spaces[s].byId =>
              spaces[s].byId[id] = spaces[s].paired[<<id, 0>>]
<1> DEFINE sp == spaces[s]
<1>1. /\ {<<i, 0>> : i \in DOMAIN sp.byId} = {k \in DOMAIN sp.paired : k[2] = 0}
      /\ \A i \in DOMAIN sp.byId : sp.byId[i] = sp.paired[<<i, 0>>]
  BY DEF ViewInv, ViewsOf
<1> HIDE DEF sp
<1>2. id \in DOMAIN sp.byId => <<id, 0>> \in DOMAIN sp.paired
  BY <1>1
<1>3. ASSUME <<id, 0>> \in DOMAIN sp.paired PROVE id \in DOMAIN sp.byId
  <2>1. <<id, 0>> \in {<<i, 0>> : i \in DOMAIN sp.byId}
    BY <1>1, <1>3
  <2>2. QED
    BY <2>1
<1>4. QED
  BY <1>1, <1>2, <1>3 DEF sp

\* What is paired is made, and held.
LEMMA PairedIsHeld ==
  ASSUME HandlesInv, OwnersInv, NEW s \in DOMAIN spaces,
         NEW key \in DOMAIN spaces[s].paired
  PROVE  /\ spaces[s].paired[key] \in Held(spaces[s])
         /\ spaces[s].paired[key] \in Made
<1>1. spaces[s].paired[key] \in Range(spaces[s].paired)
  BY DEF Range
<1>2. QED
  BY <1>1 DEF HandlesInv, OwnersInv

LEMMA PutVariableEnters ==
  ASSUME Inv, NEW s \in DOMAIN spaces, NEW id \in NodeIds, PutVariable(s, id),
         id \notin DOMAIN spaces[s].byId
  PROVE  \E v : Enters(s, <<id, 0>>, v)
<1> DEFINE key == <<id, 0>>
<1>1. PICK v \in NewVariables :
        Becomes(s, PutById(spaces[s], Append(heap, v), id, New))
  BY DEF PutVariable, New
<1>2. key \notin DOMAIN spaces[s].paired /\ key \in Keys
      /\ key[1] = id /\ key[2] = 0 /\ IsSpace(spaces[s])
  <2>1. key \in Keys
    BY FirstKey
  <2>2. key \notin DOMAIN spaces[s].paired
    BY FirstOutputs DEF Inv
  <2>3. QED
    BY <2>1, <2>2 DEF Inv, TypeOK
<1>3. Append(heap, v)[New] = v
  BY NewVariablesTyped, HeapGrows DEF Inv
<1>4. PutById(spaces[s], Append(heap, v), id, New)
        = <<Enter(spaces[s], key, New, v), Append(heap, v)>>
  <2> DEFINE sp == spaces[s]
             h == Append(heap, v)
  <2>1. PutById(sp, h, id, New) = Insert(sp, h, id, New)
    BY DEF PutById
  <2>0. IsSpace(sp) /\ <<id, 0>> \notin DOMAIN sp.paired
    BY <1>2
  <2> HIDE DEF sp, h, New
  <2>2. Insert(sp, h, id, New) = <<Enter(sp, <<id, 0>>, New, h[New]), h>>
    BY <2>0, InsertEnters
  <2>3. QED
    BY <1>3, <2>1, <2>2 DEF sp, h
<1>5. /\ heap' = Append(heap, v)
      /\ spaces' = [spaces EXCEPT ![s] = Enter(spaces[s], key, New, v)]
      /\ UNCHANGED <<freed, cloned>>
  BY <1>1, <1>4, BecomesIs
<1>6. QED
  BY <1>2, <1>5, NewVariablesTyped DEF Enters, Inv

LEMMA PutPairEnters ==
  ASSUME Inv, NEW s \in DOMAIN spaces, NEW key \in Keys, PutPair(s, key)
  PROVE  \E v : Enters(s, key, v)
<1>1. PICK v \in NewVariables :
        Becomes(s, PutByPair(spaces[s], Append(heap, v), key, New))
  BY DEF PutPair, New
<1>2. GetByPair(spaces[s], key) = 0 /\ IsSpace(spaces[s])
  BY DEF PutPair, Inv, TypeOK
<1>3. key \notin DOMAIN spaces[s].paired
  <2> SUFFICES ASSUME key \in DOMAIN spaces[s].paired PROVE FALSE
    OBVIOUS
  <2>1. spaces[s].paired[key] \in Made
    BY PairedIsHeld DEF Inv
  <2>2. QED
    BY <1>2, <2>1, NewIs DEF GetByPair, Inv
<1>4. key[2] = 0 => key[1] \notin DOMAIN spaces[s].byId
  <2> SUFFICES ASSUME key[2] = 0, key[1] \in DOMAIN spaces[s].byId PROVE FALSE
    OBVIOUS
  <2>1. key = <<key[1], 0>>
    BY DEF Keys
  <2>2. QED
    BY <1>3, <2>1, FirstOutputs DEF Inv
<1>5. Append(heap, v)[New] = v
  BY NewVariablesTyped, HeapGrows DEF Inv
<1>6. PutByPair(spaces[s], Append(heap, v), key, New)
        = <<Enter(spaces[s], key, New, v), Append(heap, v)>>
  <2> DEFINE sp == spaces[s]
             h == Append(heap, v)
  <2> HIDE DEF sp, h
  <2>1. PutByPair(sp, h, key, New) = <<Enter(sp, key, New, h[New]), h>>
    BY <1>2, <1>3, <1>4, PairEnters DEF sp
  <2>2. QED
    BY <1>5, <2>1 DEF sp, h
<1>7. /\ heap' = Append(heap, v)
      /\ spaces' = [spaces EXCEPT ![s] = Enter(spaces[s], key, New, v)]
      /\ UNCHANGED <<freed, cloned>>
  BY <1>1, <1>6, BecomesIs
<1>8. QED
  BY <1>3, <1>4, <1>7, NewVariablesTyped DEF Enters, Inv

LEMMA PutVariableTouches ==
  ASSUME Inv, NEW s \in DOMAIN spaces, NEW id \in NodeIds, PutVariable(s, id),
         id \in DOMAIN spaces[s].byId
  PROVE  \E k, a : Touches(s, k, a)
<1> DEFINE k == spaces[s].byId[id]
<1>1. PICK v \in NewVariables :
        /\ v.removable
        /\ Becomes(s, PutById(spaces[s], Append(heap, v), id, New))
  BY DEF PutVariable, New
<1> DEFINE h == Append(heap, v)
<1>2. k \in Held(spaces[s]) /\ k \in Made
  BY FirstOutputs, PairedIsHeld DEF Inv
<1>3. /\ h \in Seq(Variable) /\ DOMAIN h = Made \cup {New} /\ h[New] = v
      /\ \A o \in Made : h[o] = heap[o]
      /\ New \notin Made /\ New \in Nat /\ v.array \in {0, New}
  BY NewVariablesTyped, HeapGrows, NewIs DEF Inv
<1> DEFINE g == [h EXCEPT ![k].array = h[New].array]
<1>4. /\ g \in Seq(Variable) /\ DOMAIN g = DOMAIN h
      /\ \A o \in DOMAIN h :
           /\ g[o].name = h[o].name
           /\ g[o].placeholder = h[o].placeholder
           /\ g[o].removable = h[o].removable
           /\ g[o].array = IF o = k THEN v.array ELSE h[o].array
  <2>1. k \in DOMAIN h /\ h[New].array \in Nat /\ h[New].array = v.array
    BY <1>2, <1>3
  <2> HIDE DEF k, h
  <2>2. QED
    BY <1>3, <2>1, ArraySet
<1>5. heap' = (IF h[k].array = 0 THEN g ELSE h) /\ spaces' = spaces
      /\ UNCHANGED <<freed, cloned>>
  <2>1. PutById(spaces[s], h, id, New)
          = <<spaces[s], IF h[k].array = 0 THEN g ELSE h>>
    BY DEF PutById, Update
  <2> HIDE DEF k, h, g
  <2> DEFINE r == IF h[k].array = 0 THEN g ELSE h
  <2>a. Becomes(s, <<spaces[s], r>>)
    BY <1>1, <2>1 DEF h
  <2> HIDE DEF r
  <2>2. heap' = r
        /\ spaces' = [spaces EXCEPT ![s] = spaces[s]]
        /\ UNCHANGED <<freed, cloned>>
    BY <2>a, BecomesIs
  <2>3. spaces = [z \in DOMAIN spaces |-> spaces[z]]
    BY DEF Inv, TypeOK
  <2>4. QED
    BY <2>2, <2>3 DEF r
<1> HIDE DEF k, h, g
<1>6. Made' = Made \cup {New} /\ heap' \in Seq(Variable)
  BY <1>3, <1>4, <1>5 DEF Made
<1>7. \A o \in Made :
       /\ heap'[o].name = heap[o].name
       /\ heap'[o].placeholder = heap[o].placeholder
       /\ heap'[o].removable = heap[o].removable
       /\ \/ heap'[o].array = heap[o].array
          \/ o = k /\ heap[k].array = 0 /\ heap'[k].array = v.array
  BY <1>2, <1>3, <1>4, <1>5
<1>8. heap'[New].removable /\ heap'[New].array \in {0, New}
  BY <1>1, <1>2, <1>3, <1>4, <1>5
<1>9. Touches(s, k, v.array)
  BY <1>2, <1>3, <1>5, <1>6, <1>7, <1>8 DEF Touches
<1>10. QED
  BY <1>9

LEMMA SetArrayTouches ==
  ASSUME Inv, NEW s \in DOMAIN spaces, NEW key \in Keys, SetArray(s, key)
  PROVE  \E k, a : Touches(s, k, a)
<1> DEFINE k == GetByPair(spaces[s], key)
<1>1. /\ k # 0 /\ heap[k].array = 0
      /\ heap' = [heap EXCEPT ![k].array = k]
      /\ UNCHANGED <<spaces, freed, cloned>>
  BY DEF SetArray
<1>2. k \in Held(spaces[s]) /\ k \in Made
  <2>1. CASE key \in DOMAIN spaces[s].paired
    BY <2>1, PairedIsHeld DEF GetByPair, Inv
  <2>2. CASE key \notin DOMAIN spaces[s].paired
    <3>1. key[2] = 0 /\ key[1] \in DOMAIN spaces[s].byId
      BY <1>1, <2>2 DEF GetByPair
    <3>2. key = <<key[1], 0>>
      BY <3>1 DEF Keys
    <3>3. QED
      BY <2>2, <3>1, <3>2, FirstOutputs DEF Inv
  <2>3. QED
    BY <2>1, <2>2
<1> HIDE DEF k
<1>3. k \in Nat /\ k \in DOMAIN heap /\ heap \in Seq(Variable)
  BY <1>2, NewIs DEF Made, Inv, TypeOK
<1>4. /\ heap' \in Seq(Variable) /\ DOMAIN heap' = DOMAIN heap
      /\ \A o \in DOMAIN heap :
           /\ heap'[o].name = heap[o].name
           /\ heap'[o].placeholder = heap[o].placeholder
           /\ heap'[o].removable = heap[o].removable
           /\ heap'[o].array = IF o = k THEN k ELSE heap[o].array
  BY <1>1, <1>3, ArraySet
<1>5. Touches(s, k, k)
  BY <1>1, <1>2, <1>4 DEF Touches, Made
<1>6. QED
  BY <1>5

-----------------------------------------------------------------------------
(* A variable comes in.                                                    *)

\* The space it comes into.
LEMMA EnterIs ==
  ASSUME NEW sp, IsSpace(sp), NEW key \in Keys, key \notin DOMAIN sp.paired,
         NEW o \in Nat, o \notin Held(sp), Range(sp.paired) = Held(sp),
         IsInjective(sp.handles), IsInjective(sp.paired), NEW v
  PROVE  LET t == Enter(sp, key, o, v)
         IN  /\ IsSpace(t)
             /\ Held(t) = Held(sp) \cup {o} /\ Range(t.paired) = Held(t)
             /\ IsInjective(t.handles) /\ IsInjective(t.paired)
<1> DEFINE t == Enter(sp, key, o, v)
<1>1. /\ t.paired = With(sp.paired, key, o)
      /\ t.handles = Append(sp.handles, o)
      /\ t.byId = IF key[2] = 0 THEN With(sp.byId, key[1], o) ELSE sp.byId
  BY DEF Enter
<1>a. /\ t.external \in {sp.external, Append(sp.external, o)}
      /\ t.internal \in {sp.internal, Append(sp.internal, o)}
      /\ t.placeholders \in {sp.placeholders, Append(sp.placeholders, o)}
  BY DEF Enter
<1>0. t = [byId |-> t.byId, paired |-> t.paired, symbolic |-> t.symbolic,
              handles |-> t.handles, external |-> t.external,
              internal |-> t.internal, placeholders |-> t.placeholders]
  BY DEF Enter
<1> HIDE DEF t
<1>2. /\ sp.handles \in Seq(Nat) /\ sp.placeholders \in Seq(Nat)
      /\ sp.external \in Seq(Nat) /\ sp.internal \in Seq(Nat)
  BY DEF IsSpace
<1>3. /\ t.handles \in Seq(Nat) /\ t.placeholders \in Seq(Nat)
      /\ t.external \in Seq(Nat) /\ t.internal \in Seq(Nat)
  <2> DEFINE P == \A q \in Seq(Nat) : Append(q, o) \in Seq(Nat)
  <2>1. P
    BY SeqAppend
  <2>2. QED
    BY <1>1, <1>2, <1>a, <2>1
<1>4. DOMAIN t.paired = DOMAIN sp.paired \cup {key}
  BY <1>1 DEF With
<1>5. DOMAIN t.byId \in {DOMAIN sp.byId, DOMAIN sp.byId \cup {key[1]}}
  BY <1>1 DEF With
<1>6. key[1] \in NodeIds
  BY DEF Keys
<1>b. /\ IsFiniteSet(DOMAIN sp.paired) /\ DOMAIN sp.paired \subseteq Keys
      /\ IsFiniteSet(DOMAIN sp.byId) /\ DOMAIN sp.byId \subseteq NodeIds
  BY DEF IsSpace
<1>7. IsFiniteSet(DOMAIN t.paired) /\ DOMAIN t.paired \subseteq Keys
  <2>1. IsFiniteSet(DOMAIN sp.paired \cup {key})
    BY <1>b, FS_AddElement
  <2>2. QED
    BY <1>4, <1>b, <2>1
<1>8. IsFiniteSet(DOMAIN t.byId) /\ DOMAIN t.byId \subseteq NodeIds
  <2>1. IsFiniteSet(DOMAIN sp.byId \cup {key[1]})
    BY <1>b, FS_AddElement
  <2>2. QED
    BY <1>5, <1>6, <1>b, <2>1
<1>9. IsSpace(t)
  BY <1>0, <1>3, <1>7, <1>8 DEF IsSpace
<1>10. Held(t) = Held(sp) \cup {o} /\ IsInjective(t.handles)
  BY <1>1, <1>2, AppendNew DEF Held
<1>11. Range(t.paired) = Range(sp.paired) \cup {o} /\ IsInjective(t.paired)
  BY <1>1, WithNew
<1>12. QED
  BY <1>9, <1>10, <1>11 DEF t

\* What all the parts of the invariant need to know of the step.
LEMMA EnterStep ==
  ASSUME Inv, NEW s, NEW key, NEW v, Enters(s, key, v)
  PROVE  /\ New \notin Made /\ New \in Nat /\ New # 0
         /\ Made' = Made \cup {New} /\ heap'[New] = v
         /\ \A o \in Made : heap'[o] = heap[o] /\ heap[o] \in Variable
         /\ heap' \in Seq(Variable)
         /\ DOMAIN spaces' = DOMAIN spaces
         /\ spaces' = [z \in DOMAIN spaces' |-> spaces'[z]]
         /\ \A z \in DOMAIN spaces : z # s => spaces'[z] = spaces[z]
         /\ spaces'[s] = Enter(spaces[s], key, New, v)
         /\ IsSpace(spaces'[s])
         /\ Held(spaces'[s]) = Held(spaces[s]) \cup {New}
         /\ Range(spaces'[s].paired) = Held(spaces'[s])
         /\ IsInjective(spaces'[s].handles) /\ IsInjective(spaces'[s].paired)
         /\ \A z \in DOMAIN spaces : Held(spaces[z]) \subseteq Made
<1>1. /\ New \notin Made /\ New \in Nat /\ New # 0
      /\ \A o \in Made : heap[o] \in Variable
  BY NewIs, HeapTyped DEF Inv
<1>2. v \in Variable /\ s \in DOMAIN spaces /\ key \in Keys
      /\ key \notin DOMAIN spaces[s].paired
      /\ heap' = Append(heap, v)
      /\ spaces' = [spaces EXCEPT ![s] = Enter(spaces[s], key, New, v)]
  BY DEF Enters
<1>3. /\ Made' = Made \cup {New} /\ heap'[New] = v
      /\ \A o \in Made : heap'[o] = heap[o]
      /\ heap' \in Seq(Variable)
  BY <1>2, HeapGrows DEF Inv, Made
<1>4. spaces = [z \in DOMAIN spaces |-> spaces[z]]
  BY DEF Inv, TypeOK
<1>5. /\ DOMAIN spaces' = DOMAIN spaces
      /\ spaces' = [z \in DOMAIN spaces' |-> spaces'[z]]
      /\ \A z \in DOMAIN spaces : z # s => spaces'[z] = spaces[z]
      /\ spaces'[s] = Enter(spaces[s], key, New, v)
  <2> DEFINE e == Enter(spaces[s], key, New, v)
  <2>1. spaces' = [spaces EXCEPT ![s] = e] /\ s \in DOMAIN spaces
    BY <1>2
  <2> HIDE DEF e
  <2>2. QED
    BY <1>4, <2>1 DEF e
<1>6. \A z \in DOMAIN spaces : Held(spaces[z]) \subseteq Made
  BY DEF Inv, OwnersInv
<1>7. /\ IsSpace(spaces[s]) /\ Range(spaces[s].paired) = Held(spaces[s])
      /\ IsInjective(spaces[s].handles) /\ IsInjective(spaces[s].paired)
      /\ New \notin Held(spaces[s])
  BY <1>1, <1>2, <1>6 DEF Inv, TypeOK, HandlesInv
<1>8. /\ IsSpace(spaces'[s])
      /\ Held(spaces'[s]) = Held(spaces[s]) \cup {New}
      /\ Range(spaces'[s].paired) = Held(spaces'[s])
      /\ IsInjective(spaces'[s].handles) /\ IsInjective(spaces'[s].paired)
  <2> HIDE DEF New
  <2>1. QED
    BY <1>1, <1>2, <1>5, <1>7, EnterIs
<1>9. QED
  BY <1>1, <1>3, <1>5, <1>6, <1>8

LEMMA EnterKeepsTypes ==
  ASSUME Inv, NEW s, NEW key, NEW v, Enters(s, key, v)
  PROVE  TypeOK'
<1>1. UNCHANGED <<freed, cloned>>
  BY DEF Enters
<1>2. /\ heap' \in Seq(Variable)
      /\ DOMAIN spaces' = DOMAIN spaces
      /\ spaces' = [z \in DOMAIN spaces' |-> spaces'[z]]
      /\ \A z \in DOMAIN spaces : z # s => spaces'[z] = spaces[z]
      /\ IsSpace(spaces'[s])
  BY EnterStep
<1>3. \A z \in DOMAIN spaces' : IsSpace(spaces'[z])
  BY <1>2 DEF Inv, TypeOK
<1>4. QED
  BY <1>1, <1>2, <1>3 DEF Inv, TypeOK

LEMMA EnterKeepsHandles ==
  ASSUME Inv, NEW s, NEW key, NEW v, Enters(s, key, v)
  PROVE  HandlesInv'
  BY EnterStep DEF Inv, HandlesInv

LEMMA EnterKeepsOwners ==
  ASSUME Inv, NEW s, NEW key, NEW v, Enters(s, key, v)
  PROVE  OwnersInv'
<1>1. freed' = freed
  BY DEF Enters
<1>2. /\ New \notin Made /\ Made' = Made \cup {New}
      /\ DOMAIN spaces' = DOMAIN spaces
      /\ \A z \in DOMAIN spaces : z # s => spaces'[z] = spaces[z]
      /\ Held(spaces'[s]) = Held(spaces[s]) \cup {New}
  BY EnterStep
<1> DEFINE H(z) == Held(spaces[z])
           G(z) == Held(spaces'[z])
<1>3. /\ \A z \in DOMAIN spaces : G(z) = IF z = s THEN H(z) \cup {New} ELSE H(z)
  BY <1>2
<1>4. OwnersInv
  BY DEF Inv
<1>5. \A z \in DOMAIN spaces : H(z) \subseteq Made
  BY <1>4 DEF OwnersInv
<1>6. \A z, t \in DOMAIN spaces : z # t => H(z) \cap H(t) = {}
  BY <1>4 DEF OwnersInv
<1>7. \A z \in DOMAIN spaces : \A i \in DOMAIN freed :
        freed[i].variable \notin H(z)
  BY <1>4 DEF OwnersInv
<1>8. \A i \in DOMAIN freed : freed[i].variable \in Made
  BY <1>4 DEF OwnersInv
<1> HIDE DEF H, G, New
<1>9. \A z \in DOMAIN spaces : G(z) \subseteq Made'
  BY <1>2, <1>3, <1>5
<1>10. \A z, t \in DOMAIN spaces : z # t => G(z) \cap G(t) = {}
  BY <1>2, <1>3, <1>5, <1>6
<1>11. \A z \in DOMAIN spaces : \A i \in DOMAIN freed :
        freed[i].variable \notin G(z)
  BY <1>2, <1>3, <1>7, <1>8
<1>12. QED
  BY <1>1, <1>2, <1>4, <1>8, <1>9, <1>10, <1>11 DEF OwnersInv, G

LEMMA OwnedIsMade == OwnersInv => Owned \subseteq Made
<1> SUFFICES ASSUME OwnersInv, NEW o \in Owned PROVE o \in Made
  OBVIOUS
<1>1. CASE \E s \in DOMAIN spaces : o \in Held(spaces[s])
  BY <1>1 DEF OwnersInv
<1>2. CASE \E i \in DOMAIN freed : o = freed[i].variable
  BY <1>2 DEF OwnersInv
<1> DEFINE held == UNION {Held(spaces[s]) : s \in DOMAIN spaces}
           gone == {freed[i].variable : i \in DOMAIN freed}
<1>3. Owned = held \cup gone
  BY DEF Owned
<1>4. o \in held => o \in Made
  BY <1>1
<1>5. o \in gone => o \in Made
  BY <1>2
<1> HIDE DEF held, gone
<1>6. QED
  BY <1>3, <1>4, <1>5

LEMMA EnterKeepsArrays ==
  ASSUME Inv, NEW s, NEW key, NEW v, Enters(s, key, v)
  PROVE  ArrayInv'
<1>1. freed' = freed /\ v.array \in {0, New} /\ (v.removable \/ v.array = New)
      /\ s \in DOMAIN spaces
  BY DEF Enters
<1>2. /\ New \notin Made /\ Made' = Made \cup {New} /\ New # 0
      /\ heap'[New] = v /\ \A o \in Made : heap'[o] = heap[o]
      /\ DOMAIN spaces' = DOMAIN spaces
      /\ \A z \in DOMAIN spaces : z # s => spaces'[z] = spaces[z]
      /\ Held(spaces'[s]) = Held(spaces[s]) \cup {New}
  BY EnterStep
<1>3. Owned' = Owned \cup {New}
  BY <1>1, <1>2 DEF Owned
<1>4. Owned \subseteq Made /\ ArrayInv
  BY OwnedIsMade DEF Inv
<1>5. \A i \in DOMAIN freed : freed[i].variable \in Made
  BY DEF Inv, OwnersInv
<1> HIDE DEF Made, Owned, New
<1>6. \A w \in Made' : heap'[w].array \in {0, w} \cup (Made' \ Owned')
  BY <1>1, <1>2, <1>3, <1>4 DEF ArrayInv
<1>7. \A w, x \in Owned' :
        heap'[w].array = heap'[x].array => w = x \/ heap'[w].array = 0
  <2>1. \A w \in Owned :
          \/ heap'[w].array = heap[w].array /\ heap[w].array # New
          \/ heap'[w].array = 0
    BY <1>2, <1>4 DEF ArrayInv
  <2>2. heap'[New].array \in {0, New}
    BY <1>1, <1>2
  <2>3. \A w, x \in Owned :
          heap'[w].array = heap'[x].array => w = x \/ heap'[w].array = 0
    BY <1>2, <1>4 DEF ArrayInv
  <2>4. QED
    BY <1>3, <2>1, <2>2, <2>3
<1>8. \A i \in DOMAIN freed' :
        \/ freed'[i].array = 0
        \/ /\ heap'[freed'[i].variable].removable
           /\ freed'[i].array = heap'[freed'[i].variable].array
  BY <1>1, <1>2, <1>4, <1>5 DEF ArrayInv
<1>9. \A o \in Made' :
        heap'[o].removable \/ (heap'[o].array = o /\ o \in Owned')
  BY <1>1, <1>2, <1>3, <1>4 DEF ArrayInv
<1>10. QED
  BY <1>6, <1>7, <1>8, <1>9 DEF ArrayInv

\* A space nothing came into keeps its views, while the variables it holds
\* keep their names.
LEMMA ViewsStay ==
  ASSUME NEW sp, ViewsOf(sp),
         \A o \in Held(sp) : heap'[o].name = heap[o].name
  PROVE  /\ {<<id, 0>> : id \in DOMAIN sp.byId}
              = {k \in DOMAIN sp.paired : k[2] = 0}
         /\ \A id \in DOMAIN sp.byId : sp.byId[id] = sp.paired[<<id, 0>>]
         /\ \A x \in DOMAIN sp.symbolic :
              /\ sp.symbolic[x] \in Held(sp)
              /\ heap'[sp.symbolic[x]].name = x /\ x # ""
         /\ \A o \in Held(sp) : heap'[o].name # "" =>
              /\ heap'[o].name \in DOMAIN sp.symbolic
              /\ sp.symbolic[heap'[o].name] = o
  BY DEF ViewsOf

LEMMA EnterKeepsViews ==
  ASSUME Inv, NEW s, NEW key, NEW v, Enters(s, key, v)
  PROVE  ViewInv'
<1>1. /\ DOMAIN spaces' = DOMAIN spaces /\ s \in DOMAIN spaces
      /\ \A z \in DOMAIN spaces : z # s => spaces'[z] = spaces[z]
      /\ \A z \in DOMAIN spaces : Held(spaces[z]) \subseteq Made
      /\ heap'[New] = v /\ \A o \in Made : heap'[o] = heap[o]
  BY EnterStep DEF Enters
<1>2. \A z \in DOMAIN spaces : z # s => ViewsOf(spaces[z])'
  <2> SUFFICES ASSUME NEW z \in DOMAIN spaces, z # s
               PROVE  ViewsOf(spaces[z])'
    OBVIOUS
  <2> DEFINE sp == spaces[z]
  <2>1. ViewsOf(sp) /\ \A o \in Held(sp) : heap'[o].name = heap[o].name
    BY <1>1 DEF Inv, ViewInv
  <2>2. spaces'[z] = sp
    BY <1>1
  <2> HIDE DEF sp
  <2>3. QED
    BY <2>1, <2>2, ViewsStay DEF ViewsOf
<1>3. ViewsOf(spaces[s])'
  <2> DEFINE sp == spaces[s]
             t == spaces'[s]
  <2>1. /\ t = Enter(sp, key, New, v) /\ Held(t) = Held(sp) \cup {New}
        /\ Held(sp) \subseteq Made /\ New \notin Made
        /\ key \in Keys /\ key \notin DOMAIN sp.paired
        /\ key[2] = 0 => key[1] \notin DOMAIN sp.byId
        /\ v.name = "" \/ \A o \in Made : heap[o].name # v.name
    BY EnterStep, <1>1 DEF Enters
  <2>2. /\ t.paired = With(sp.paired, key, New)
        /\ t.byId = IF key[2] = 0 THEN With(sp.byId, key[1], New) ELSE sp.byId
        /\ t.symbolic = IF v.name = "" THEN sp.symbolic
                                       ELSE With(sp.symbolic, v.name, New)
    <3> HIDE DEF sp, t, New
    <3>1. t = Enter(sp, key, New, v)
      BY <2>1
    <3>2. QED
      BY <3>1 DEF Enter
  <2>3. ViewsOf(sp)
    BY <1>1 DEF Inv, ViewInv
  <2> HIDE DEF sp, t, New
  <2>4. key = <<key[1], key[2]>>
    <3>1. key \in Keys
      BY <2>1
    <3>2. QED
      BY <3>1 DEF Keys
  <2>5. {<<id, 0>> : id \in DOMAIN t.byId} = {k \in DOMAIN t.paired : k[2] = 0}
    <3>1. DOMAIN t.paired = DOMAIN sp.paired \cup {key}
      BY <2>2 DEF With
    <3>2. {<<id, 0>> : id \in DOMAIN sp.byId}
            = {k \in DOMAIN sp.paired : k[2] = 0}
      BY <2>3 DEF ViewsOf
    <3>3. CASE key[2] = 0
      <4>1. DOMAIN t.byId = DOMAIN sp.byId \cup {key[1]}
        BY <2>2, <3>3 DEF With
      <4>2. {<<id, 0>> : id \in DOMAIN t.byId}
              = {<<id, 0>> : id \in DOMAIN sp.byId} \cup {key}
        BY <2>4, <3>3, <4>1
      <4>3. {k \in DOMAIN t.paired : k[2] = 0}
              = {k \in DOMAIN sp.paired : k[2] = 0} \cup {key}
        BY <3>1, <3>3
      <4>4. QED
        BY <3>2, <4>2, <4>3
    <3>4. CASE key[2] # 0
      <4>1. t.byId = sp.byId
        BY <2>2, <3>4
      <4>2. {k \in DOMAIN t.paired : k[2] = 0}
              = {k \in DOMAIN sp.paired : k[2] = 0}
        BY <3>1, <3>4
      <4>3. QED
        BY <3>2, <4>1, <4>2
    <3>5. QED
      BY <3>3, <3>4
  <2>6. \A id \in DOMAIN t.byId : t.byId[id] = t.paired[<<id, 0>>]
    <3> SUFFICES ASSUME NEW id \in DOMAIN t.byId
                 PROVE  t.byId[id] = t.paired[<<id, 0>>]
      OBVIOUS
    <3>1. CASE key[2] = 0 /\ id = key[1]
      <4>1. t.byId[id] = New
        <5>1. t.byId = With(sp.byId, key[1], New)
          BY <2>2, <3>1
        <5>2. QED
          BY <3>1, <5>1 DEF With
      <4>2. t.paired[key] = New
        <5>1. t.paired = With(sp.paired, key, New)
          BY <2>2
        <5>2. QED
          BY <5>1 DEF With
      <4>3. <<id, 0>> = key
        BY <2>4, <3>1
      <4>4. QED
        BY <4>1, <4>2, <4>3
    <3>2. CASE id \in DOMAIN sp.byId
      <4>1. <<id, 0>> \in DOMAIN sp.paired
        <5>1. <<id, 0>> \in {<<i, 0>> : i \in DOMAIN sp.byId}
          BY <3>2
        <5>2. QED
          BY <2>3, <5>1 DEF ViewsOf
      <4>2. t.paired[<<id, 0>>] = sp.paired[<<id, 0>>]
        BY <2>1, <2>2, <4>1 DEF With
      <4>3. t.byId[id] = sp.byId[id]
        BY <2>1, <2>2, <3>2 DEF With
      <4>4. QED
        BY <2>3, <3>2, <4>2, <4>3 DEF ViewsOf
    <3>3. (key[2] = 0 /\ id = key[1]) \/ id \in DOMAIN sp.byId
      <4>1. CASE key[2] = 0
        <5>1. t.byId = With(sp.byId, key[1], New)
          BY <2>2, <4>1
        <5>2. QED
          BY <4>1, <5>1 DEF With
      <4>2. CASE key[2] # 0
        BY <2>2, <4>2
      <4>3. QED
        BY <4>1, <4>2
    <3>4. QED
      BY <3>1, <3>2, <3>3
  <2> DEFINE named(x) == /\ t.symbolic[x] \in Held(t)
                         /\ heap'[t.symbolic[x]].name = x /\ x # ""
             found(o) == heap'[o].name # "" =>
                           /\ heap'[o].name \in DOMAIN t.symbolic
                           /\ t.symbolic[heap'[o].name] = o
  <2>a. heap'[New] = v /\ \A o \in Held(sp) : heap'[o] = heap[o]
    BY <1>1, <2>1
  <2>b. New \notin Held(sp)
        /\ \A o \in Held(sp) : v.name = "" \/ heap[o].name # v.name
    BY <2>1
  <2>7. \A x \in DOMAIN t.symbolic : named(x)
    <3> SUFFICES ASSUME NEW x \in DOMAIN t.symbolic PROVE named(x)
      OBVIOUS
    <3>1. CASE x \in DOMAIN sp.symbolic /\ t.symbolic[x] = sp.symbolic[x]
      <4>1. sp.symbolic[x] \in Held(sp) /\ heap[sp.symbolic[x]].name = x
            /\ x # ""
        BY <2>3, <3>1 DEF ViewsOf
      <4>2. QED
        BY <2>1, <2>a, <3>1, <4>1
    <3>2. CASE v.name # "" /\ x = v.name /\ t.symbolic[x] = New
      BY <2>1, <2>a, <3>2
    <3>3. CASE v.name = ""
      BY <2>2, <3>1, <3>3
    <3>4. CASE v.name # ""
      <4>1. t.symbolic = With(sp.symbolic, v.name, New)
        BY <2>2, <3>4
      <4>2. (x = v.name /\ t.symbolic[x] = New)
            \/ (x \in DOMAIN sp.symbolic /\ t.symbolic[x] = sp.symbolic[x])
        BY <4>1 DEF With
      <4>3. QED
        BY <3>1, <3>2, <3>4, <4>2
    <3>5. QED
      BY <3>3, <3>4
  <2>8. \A o \in Held(t) : found(o)
    <3> SUFFICES ASSUME NEW o \in Held(t), heap'[o].name # "" PROVE found(o)
      OBVIOUS
    <3>1. CASE o = New
      <4>1. v.name # "" /\ heap'[o].name = v.name
        BY <2>a, <3>1
      <4>2. QED
        BY <2>2, <3>1, <4>1 DEF With
    <3>2. CASE o \in Held(sp)
      <4>1. heap'[o].name = heap[o].name /\ heap[o].name # ""
        BY <2>a, <3>2
      <4>2. heap[o].name \in DOMAIN sp.symbolic
            /\ sp.symbolic[heap[o].name] = o
        BY <2>3, <3>2, <4>1 DEF ViewsOf
      <4>3. v.name = "" \/ heap[o].name # v.name
        BY <2>b, <3>2
      <4>4. CASE v.name = ""
        BY <2>2, <4>1, <4>2, <4>4
      <4>5. CASE v.name # ""
        <5>1. t.symbolic = With(sp.symbolic, v.name, New)
          BY <2>2, <4>5
        <5>2. heap[o].name \in DOMAIN t.symbolic
              /\ t.symbolic[heap[o].name] = o
          BY <4>2, <4>3, <4>5, <5>1 DEF With
        <5>3. QED
          BY <4>1, <5>2
      <4>6. QED
        BY <4>4, <4>5
    <3>3. QED
      BY <2>1, <3>1, <3>2
  <2>9. QED
    BY <2>5, <2>6, <2>7, <2>8 DEF ViewsOf, t
<1>4. QED
  BY <1>1, <1>2, <1>3 DEF ViewInv

\* An id more: its sign has one more of them.
LEMMA OneMore ==
  ASSUME NEW S, IsFiniteSet(S), NEW id, id \notin S, NEW neg \in BOOLEAN
  PROVE  LET Of(T) == {i \in T : (i < 0) = neg}
         IN  /\ Cardinality(Of(S)) \in Nat
             /\ Cardinality(Of(S \cup {id}))
                  = IF (id < 0) = neg THEN Cardinality(Of(S)) + 1
                                      ELSE Cardinality(Of(S))
<1> DEFINE Of(T) == {i \in T : (i < 0) = neg}
<1>1. IsFiniteSet(Of(S)) /\ id \notin Of(S)
  BY FS_Subset
<1>2. CASE (id < 0) = neg
  <2>1. Of(S \cup {id}) = Of(S) \cup {id}
    BY <1>2
  <2>2. QED
    BY <1>1, <1>2, <2>1, FS_AddElement, FS_CardinalityType
<1>3. CASE (id < 0) # neg
  <2>1. Of(S \cup {id}) = Of(S)
    BY <1>3
  <2>2. QED
    BY <1>1, <1>3, <2>1, FS_CardinalityType
<1>4. QED
  BY <1>2, <1>3

\* Its two cases: the external variables have negative ids, the internal ones
\* the others.
LEMMA OneMoreNegative ==
  ASSUME NEW S, IsFiniteSet(S), NEW id, id \notin S
  PROVE  Cardinality({i \in S \cup {id} : (i < 0) = TRUE})
           = IF id < 0 THEN Cardinality({i \in S : (i < 0) = TRUE}) + 1
                       ELSE Cardinality({i \in S : (i < 0) = TRUE})
<1>1. Cardinality({i \in S \cup {id} : (i < 0) = TRUE})
        = IF (id < 0) = TRUE
            THEN Cardinality({i \in S : (i < 0) = TRUE}) + 1
            ELSE Cardinality({i \in S : (i < 0) = TRUE})
  BY OneMore
<1>2. QED
  BY <1>1

LEMMA OneMorePositive ==
  ASSUME NEW S, IsFiniteSet(S), NEW id, id \notin S
  PROVE  Cardinality({i \in S \cup {id} : (i < 0) = FALSE})
           = IF id < 0 THEN Cardinality({i \in S : (i < 0) = FALSE})
                       ELSE Cardinality({i \in S : (i < 0) = FALSE}) + 1
<1>1. Cardinality({i \in S \cup {id} : (i < 0) = FALSE})
        = IF (id < 0) = FALSE
            THEN Cardinality({i \in S : (i < 0) = FALSE}) + 1
            ELSE Cardinality({i \in S : (i < 0) = FALSE})
  BY OneMore
<1>2. QED
  BY <1>1

LEMMA EnterKeepsEntries ==
  ASSUME Inv, NEW s, NEW key, NEW v, Enters(s, key, v)
  PROVE  EntryInv'
<1> SUFFICES ASSUME "main" \in DOMAIN spaces'
             PROVE  EntriesOf(spaces["main"])'
  BY DEF EntryInv
<1> DEFINE sp == spaces["main"]
           t == spaces'["main"]
<1>1. /\ DOMAIN spaces' = DOMAIN spaces /\ s \in DOMAIN spaces
      /\ \A z \in DOMAIN spaces : z # s => spaces'[z] = spaces[z]
      /\ \A z \in DOMAIN spaces : Held(spaces[z]) \subseteq Made
      /\ heap'[New] = v /\ \A o \in Made : heap'[o] = heap[o]
      /\ New \notin Made
  BY EnterStep DEF Enters
<1>2. EntriesOf(sp) /\ Held(sp) \subseteq Made
  BY <1>1 DEF Inv, EntryInv
<1>3. CASE s # "main"
  <2>1. t = sp
    BY <1>1, <1>3
  <2>2. {o \in Held(sp) : heap[o].placeholder}
          = {o \in Held(sp) : heap'[o].placeholder}
    BY <1>1, <1>2
  <2> HIDE DEF sp, t
  <2>3. QED
    BY <1>2, <2>1, <2>2 DEF EntriesOf, t
<1>4. CASE s = "main"
  <2>1. /\ t = Enter(sp, key, New, v) /\ Held(t) = Held(sp) \cup {New}
        /\ IsSpace(sp) /\ New \in Nat
        /\ key[2] = 0 => key[1] \notin DOMAIN sp.byId
    BY <1>4, EnterStep DEF Enters, Inv, TypeOK
  <2>2. /\ t.byId = IF key[2] = 0 THEN With(sp.byId, key[1], New) ELSE sp.byId
        /\ t.external = IF key[2] = 0 /\ key[1] < 0
                          THEN Append(sp.external, New) ELSE sp.external
        /\ t.internal = IF key[2] = 0 /\ ~(key[1] < 0)
                          THEN Append(sp.internal, New) ELSE sp.internal
        /\ t.placeholders = IF v.placeholder THEN Append(sp.placeholders, New)
                                             ELSE sp.placeholders
    <3> HIDE DEF sp, t, New
    <3>1. t = Enter(sp, key, New, v)
      BY <2>1
    <3>2. QED
      BY <3>1 DEF Enter
  <2>3. /\ sp.external \in Seq(Nat) /\ sp.internal \in Seq(Nat)
        /\ sp.placeholders \in Seq(Nat) /\ IsFiniteSet(DOMAIN sp.byId)
    BY <2>1 DEF IsSpace
  <2> HIDE DEF sp, t, New
  <2>4. /\ Len(sp.external)
             = Cardinality({id \in DOMAIN sp.byId : (id < 0) = TRUE})
        /\ Len(sp.internal)
             = Cardinality({id \in DOMAIN sp.byId : (id < 0) = FALSE})
        /\ IsInjective(sp.placeholders)
        /\ Range(sp.placeholders) = {o \in Held(sp) : heap[o].placeholder}
    BY <1>2 DEF EntriesOf
  <2>5. /\ Len(t.external)
             = Cardinality({id \in DOMAIN t.byId : (id < 0) = TRUE})
        /\ Len(t.internal)
             = Cardinality({id \in DOMAIN t.byId : (id < 0) = FALSE})
    <3>1. CASE key[2] = 0
      <4>1. DOMAIN t.byId = DOMAIN sp.byId \cup {key[1]}
        BY <2>2, <3>1 DEF With
      <4>2. /\ Len(Append(sp.external, New)) = Len(sp.external) + 1
            /\ Len(Append(sp.internal, New)) = Len(sp.internal) + 1
        BY <2>1, <2>3
      <4>3. Cardinality({id \in DOMAIN t.byId : (id < 0) = TRUE})
              = IF key[1] < 0 THEN Len(sp.external) + 1 ELSE Len(sp.external)
        <5>1. key[1] \notin DOMAIN sp.byId
          BY <2>1, <3>1
        <5>2. /\ IsFiniteSet(DOMAIN sp.byId)
              /\ Cardinality({id \in DOMAIN sp.byId : (id < 0) = TRUE})
                   = Len(sp.external)
          BY <2>3, <2>4
        <5>3. Cardinality({id \in DOMAIN sp.byId \cup {key[1]} :
                             (id < 0) = TRUE})
                = IF key[1] < 0 THEN Len(sp.external) + 1
                                ELSE Len(sp.external)
          BY <5>1, <5>2, OneMoreNegative
        <5>4. QED
          BY <4>1, <5>3
      <4>4. Cardinality({id \in DOMAIN t.byId : (id < 0) = FALSE})
              = IF key[1] < 0 THEN Len(sp.internal) ELSE Len(sp.internal) + 1
        <5>1. key[1] \notin DOMAIN sp.byId
          BY <2>1, <3>1
        <5>2. /\ IsFiniteSet(DOMAIN sp.byId)
              /\ Cardinality({id \in DOMAIN sp.byId : (id < 0) = FALSE})
                   = Len(sp.internal)
          BY <2>3, <2>4
        <5>3. Cardinality({id \in DOMAIN sp.byId \cup {key[1]} :
                             (id < 0) = FALSE})
                = IF key[1] < 0 THEN Len(sp.internal)
                                ELSE Len(sp.internal) + 1
          BY <5>1, <5>2, OneMorePositive
        <5>4. QED
          BY <4>1, <5>3
      <4>5. QED
        BY <2>2, <3>1, <4>2, <4>3, <4>4
    <3>2. CASE key[2] # 0
      BY <2>2, <2>4, <3>2
    <3>3. QED
      BY <3>1, <3>2
  <2>6. /\ IsInjective(t.placeholders)
        /\ Range(t.placeholders) = {o \in Held(t) : heap'[o].placeholder}
    <3>1. /\ Range(Append(sp.placeholders, New))
               = Range(sp.placeholders) \cup {New}
          /\ IsInjective(Append(sp.placeholders, New))
      <4>1. New \notin Range(sp.placeholders)
        BY <1>1, <1>2, <2>4
      <4>2. QED
        <5>1. New \in Nat /\ sp.placeholders \in Seq(Nat)
              /\ IsInjective(sp.placeholders)
          BY <2>1, <2>3, <2>4
        <5>2. QED
          BY <4>1, <5>1, AppendNew
    <3>2. {o \in Held(t) : heap'[o].placeholder}
            = Range(sp.placeholders) \cup (IF v.placeholder THEN {New} ELSE {})
      BY <1>1, <1>2, <2>1, <2>4
    <3>3. QED
      BY <2>2, <2>4, <3>1, <3>2
  <2>7. QED
    BY <2>5, <2>6 DEF EntriesOf, t
<1>5. QED
  BY <1>3, <1>4

LEMMA EnterKeepsInv ==
  ASSUME Inv, NEW s, NEW key, NEW v, Enters(s, key, v)
  PROVE  Inv'
  BY EnterKeepsTypes, EnterKeepsHandles, EnterKeepsViews, EnterKeepsOwners,
     EnterKeepsArrays, EnterKeepsEntries DEF Inv

-----------------------------------------------------------------------------
(* A variable gets an array.                                               *)

LEMMA TouchKeepsTypes ==
  ASSUME Inv, NEW s, NEW k, NEW a, Touches(s, k, a)
  PROVE  TypeOK' /\ HandlesInv'
<1>1. /\ spaces' = spaces /\ freed' = freed /\ cloned' = cloned
      /\ heap' \in Seq(Variable)
  BY DEF Touches
<1>2. TypeOK'
  BY <1>1 DEF Inv, TypeOK
<1>3. HandlesInv'
  BY <1>1 DEF Inv, HandlesInv
<1>4. QED
  BY <1>2, <1>3

LEMMA TouchKeepsOwners ==
  ASSUME Inv, NEW s, NEW k, NEW a, Touches(s, k, a)
  PROVE  OwnersInv'
<1>1. spaces' = spaces /\ freed' = freed /\ Made \subseteq Made'
  BY DEF Touches
<1>2. \A z \in DOMAIN spaces : Held(spaces[z]) \subseteq Made'
  BY <1>1 DEF Inv, OwnersInv
<1>3. \A i \in DOMAIN freed : freed[i].variable \in Made'
  BY <1>1 DEF Inv, OwnersInv
<1>4. QED
  BY <1>1, <1>2, <1>3 DEF Inv, OwnersInv

LEMMA TouchKeepsViews ==
  ASSUME Inv, NEW s, NEW k, NEW a, Touches(s, k, a)
  PROVE  ViewInv' /\ EntryInv'
<1>1. /\ spaces' = spaces
      /\ \A o \in Made : /\ heap'[o].name = heap[o].name
                         /\ heap'[o].placeholder = heap[o].placeholder
  BY DEF Touches
<1>2. \A z \in DOMAIN spaces : Held(spaces[z]) \subseteq Made
  BY DEF Inv, OwnersInv
<1>3. \A z \in DOMAIN spaces : ViewsOf(spaces[z])'
  <2> SUFFICES ASSUME NEW z \in DOMAIN spaces PROVE ViewsOf(spaces[z])'
    OBVIOUS
  <2> DEFINE sp == spaces[z]
  <2>1. ViewsOf(sp) /\ \A o \in Held(sp) : heap'[o].name = heap[o].name
    BY <1>1, <1>2 DEF Inv, ViewInv
  <2>2. spaces'[z] = sp
    BY <1>1
  <2> HIDE DEF sp
  <2>3. QED
    BY <2>1, <2>2, ViewsStay DEF ViewsOf
<1>4. ASSUME "main" \in DOMAIN spaces PROVE EntriesOf(spaces["main"])'
  <2> DEFINE sp == spaces["main"]
  <2>1. EntriesOf(sp) /\ Held(sp) \subseteq Made
    BY <1>2, <1>4 DEF Inv, EntryInv
  <2>2. spaces'["main"] = sp
    BY <1>1
  <2> HIDE DEF sp
  <2>3. {o \in Held(sp) : heap[o].placeholder}
          = {o \in Held(sp) : heap'[o].placeholder}
    BY <1>1, <2>1
  <2>4. QED
    BY <2>1, <2>2, <2>3 DEF EntriesOf
<1>5. QED
  BY <1>1, <1>3, <1>4 DEF ViewInv, EntryInv

LEMMA TouchKeepsArrays ==
  ASSUME Inv, NEW s, NEW k, NEW a, Touches(s, k, a)
  PROVE  ArrayInv'
<1>1. /\ spaces' = spaces /\ freed' = freed
      /\ Made \subseteq Made' /\ k \in Held(spaces[s]) /\ s \in DOMAIN spaces
      /\ a \in {0, k} \cup (Made' \ Made)
      /\ \A o \in Made' \ Made : heap'[o].removable /\ heap'[o].array \in {0, o}
  BY DEF Touches
<1>2. \A o \in Made :
        /\ heap'[o].removable = heap[o].removable
        /\ \/ heap'[o].array = heap[o].array
           \/ o = k /\ heap[k].array = 0 /\ heap'[k].array = a
  BY DEF Touches
<1>3. Owned' = Owned
  BY <1>1 DEF Owned
<1>4. k \in Owned /\ Owned \subseteq Made /\ 0 \notin Made
  <2>1. 0 \notin Made
    BY NewIs DEF Inv
  <2>2. k \in Owned
    <3>1. k \in UNION {Held(spaces[z]) : z \in DOMAIN spaces}
      BY <1>1
    <3>2. QED
      BY <3>1 DEF Owned
  <2>3. QED
    BY <2>1, <2>2, OwnedIsMade DEF Inv
<1>5. /\ \A v \in Made : heap[v].array \in {0, v} \cup (Made \ Owned)
      /\ \A v, w \in Owned :
           heap[v].array = heap[w].array => v = w \/ heap[v].array = 0
      /\ \A o \in Made : heap[o].removable \/ (heap[o].array = o /\ o \in Owned)
  BY DEF Inv, ArrayInv
<1>6. \A i \in DOMAIN freed :
        /\ freed[i].variable \in Made \ {k}
        /\ \/ freed[i].array = 0
           \/ /\ heap[freed[i].variable].removable
              /\ freed[i].array = heap[freed[i].variable].array
  BY <1>1 DEF Inv, ArrayInv, OwnersInv
<1> HIDE DEF Made, Owned
<1>7. \A v \in Made' : heap'[v].array \in {0, v} \cup (Made' \ Owned)
  BY <1>1, <1>2, <1>4, <1>5
<1>8. \A v, w \in Owned :
        heap'[v].array = heap'[w].array => v = w \/ heap'[v].array = 0
  <2>1. \A w \in Owned \ {k} : heap'[w].array = heap[w].array
                               /\ heap[w].array \in ({0} \cup Made) \ {k}
    BY <1>2, <1>4, <1>5
  <2>2. heap'[k].array = heap[k].array
        \/ heap'[k].array \in {0, k} \cup (Made' \ Made)
    BY <1>1, <1>2, <1>4
  <2>3. QED
    BY <1>5, <2>1, <2>2
<1>9. \A i \in DOMAIN freed :
        \/ freed[i].array = 0
        \/ /\ heap'[freed[i].variable].removable
           /\ freed[i].array = heap'[freed[i].variable].array
  BY <1>2, <1>6
<1>10. \A o \in Made' :
         heap'[o].removable \/ (heap'[o].array = o /\ o \in Owned)
  BY <1>1, <1>2, <1>4, <1>5
<1>11. QED
  BY <1>1, <1>3, <1>7, <1>8, <1>9, <1>10 DEF ArrayInv

LEMMA TouchKeepsInv ==
  ASSUME Inv, NEW s, NEW k, NEW a, Touches(s, k, a)
  PROVE  Inv'
  BY TouchKeepsTypes, TouchKeepsOwners, TouchKeepsViews, TouchKeepsArrays
  DEF Inv

-----------------------------------------------------------------------------
(* A space goes.                                                           *)

LEMMA DestroyStep ==
  ASSUME Inv, NEW s \in DOMAIN spaces, Destroy(s)
  PROVE  LET hs == spaces[s].handles
         IN  /\ UNCHANGED <<heap, cloned>>
             /\ spaces' = [z \in DOMAIN spaces \ {s} |-> spaces[z]]
             /\ freed' \in Seq([variable : Nat, array : Nat])
             /\ Len(freed) \in Nat /\ DOMAIN freed = 1 .. Len(freed)
             /\ Len(hs) \in Nat /\ DOMAIN hs = 1 .. Len(hs)
             /\ DOMAIN freed' = 1 .. Len(freed) + Len(hs)
             /\ \A i \in DOMAIN freed : freed'[i] = freed[i]
             /\ \A i \in DOMAIN hs :
                  /\ freed'[Len(freed) + i].variable = hs[i]
                  /\ freed'[Len(freed) + i].array = ArrayOf(hs[i])
<1> DEFINE hs == spaces[s].handles
           R == [variable : Nat, array : Nat]
           more == [i \in DOMAIN hs |->
                      [variable |-> hs[i], array |-> ArrayOf(hs[i])]]
<1>1. /\ UNCHANGED <<heap, cloned>>
      /\ spaces' = [z \in DOMAIN spaces \ {s} |-> spaces[z]]
      /\ freed' = freed \o more
  BY DEF Destroy
<1>2. hs \in Seq(Nat) /\ freed \in Seq(R)
  BY DEF Inv, TypeOK, IsSpace
<1>3. \A i \in DOMAIN hs : hs[i] \in Made /\ hs[i] \in Nat
  <2>1. \A i \in DOMAIN hs : hs[i] \in Held(spaces[s])
    BY DEF Held, Range
  <2>2. Held(spaces[s]) \subseteq Made
    BY DEF Inv, OwnersInv
  <2>3. QED
    BY <1>2, <2>1, <2>2
<1>4. \A o \in Made : ArrayOf(o) \in Nat
  BY HeapTyped DEF Inv, ArrayOf, Variable
<1> DEFINE rec(i) == [variable |-> hs[i], array |-> ArrayOf(hs[i])]
<1>5. \A i \in DOMAIN hs : rec(i) \in R
  BY <1>3, <1>4
<1>6. Len(hs) \in Nat /\ DOMAIN hs = 1 .. Len(hs)
  BY <1>2
<1>7. more \in Seq(R) /\ Len(more) = Len(hs) /\ DOMAIN more = DOMAIN hs
      /\ \A i \in DOMAIN hs : more[i] = rec(i)
  <2> HIDE DEF rec, R, hs
  <2>1. more = [i \in 1 .. Len(hs) |-> rec(i)]
    BY <1>6 DEF rec
  <2> HIDE DEF more
  <2>2. QED
    BY <1>5, <1>6, <2>1
<1>8. /\ freed' \in Seq(R)
      /\ Len(freed) \in Nat /\ DOMAIN freed = 1 .. Len(freed)
      /\ DOMAIN freed' = 1 .. Len(freed) + Len(hs)
      /\ \A i \in DOMAIN freed : freed'[i] = freed[i]
      /\ \A i \in DOMAIN hs : freed'[Len(freed) + i] = more[i]
  <2> HIDE DEF more, R, hs, rec
  <2>1. freed \in Seq(R) /\ more \in Seq(R)
    BY <1>2, <1>7
  <2> DEFINE cat == freed \o more
  <2>2. /\ cat \in Seq(R) /\ Len(freed) \in Nat
        /\ DOMAIN freed = 1 .. Len(freed)
        /\ DOMAIN cat = 1 .. Len(freed) + Len(more)
        /\ \A i \in DOMAIN freed : cat[i] = freed[i]
        /\ \A i \in DOMAIN more : cat[Len(freed) + i] = more[i]
    BY <2>1, SeqConcat
  <2>3. freed' = cat
    BY <1>1
  <2> HIDE DEF cat
  <2>4. QED
    BY <1>7, <2>2, <2>3
<1>9. \A i \in DOMAIN hs :
        /\ freed'[Len(freed) + i].variable = hs[i]
        /\ freed'[Len(freed) + i].array = ArrayOf(hs[i])
  <2> HIDE DEF more, R, hs
  <2>1. QED
    BY <1>7, <1>8
<1>10. QED
  BY <1>1, <1>6, <1>8, <1>9

\* What has been deleted then: what had been, and what the space held.
LEMMA DestroyFrees ==
  ASSUME Inv, NEW s \in DOMAIN spaces, Destroy(s)
  PROVE  /\ DOMAIN freed \subseteq DOMAIN freed'
         /\ \A j \in DOMAIN freed : freed'[j] = freed[j]
         /\ \A j \in DOMAIN freed' \ DOMAIN freed :
              /\ freed'[j].variable \in Held(spaces[s])
              /\ freed'[j].array = ArrayOf(freed'[j].variable)
         /\ \A i, j \in DOMAIN freed' \ DOMAIN freed :
              freed'[i].variable = freed'[j].variable => i = j
         /\ \A o \in Held(spaces[s]) : \E j \in DOMAIN freed' :
              freed'[j].variable = o
<1> DEFINE hs == spaces[s].handles
           n == Len(freed)
<1>1. /\ n \in Nat /\ DOMAIN freed = 1 .. n
      /\ Len(hs) \in Nat /\ DOMAIN hs = 1 .. Len(hs)
      /\ DOMAIN freed' = 1 .. n + Len(hs)
      /\ \A i \in DOMAIN freed : freed'[i] = freed[i]
      /\ \A i \in DOMAIN hs :
           /\ freed'[n + i].variable = hs[i]
           /\ freed'[n + i].array = ArrayOf(hs[i])
  BY DestroyStep
<1>2. IsInjective(hs) /\ Held(spaces[s]) = Range(hs)
  BY DEF Inv, HandlesInv, Held
<1> HIDE DEF hs, n
<1>3. \A j \in DOMAIN freed' \ DOMAIN freed : j - n \in DOMAIN hs
        /\ j = n + (j - n)
  BY <1>1
<1>4. \A i \in DOMAIN hs : n + i \in DOMAIN freed'
  BY <1>1
<1>5. \A j \in DOMAIN freed' \ DOMAIN freed :
        /\ freed'[j].variable = hs[j - n]
        /\ freed'[j].array = ArrayOf(freed'[j].variable)
  <2> SUFFICES ASSUME NEW j \in DOMAIN freed' \ DOMAIN freed
               PROVE  /\ freed'[j].variable = hs[j - n]
                      /\ freed'[j].array = ArrayOf(freed'[j].variable)
    OBVIOUS
  <2> DEFINE i == j - n
  <2>1. i \in DOMAIN hs /\ j = n + i
    BY <1>3
  <2> HIDE DEF i
  <2>2. /\ freed'[j].variable = hs[i]
        /\ freed'[j].array = ArrayOf(freed'[j].variable)
    BY <1>1, <2>1
  <2>3. QED
    BY <2>2 DEF i
<1>6. \A j \in DOMAIN freed' \ DOMAIN freed :
        freed'[j].variable \in Held(spaces[s])
  BY <1>2, <1>3, <1>5 DEF Range
<1>7. \A i, j \in DOMAIN freed' \ DOMAIN freed :
        freed'[i].variable = freed'[j].variable => i = j
  <2> SUFFICES ASSUME NEW i \in DOMAIN freed' \ DOMAIN freed,
                      NEW j \in DOMAIN freed' \ DOMAIN freed,
                      freed'[i].variable = freed'[j].variable
               PROVE  i = j
    OBVIOUS
  <2>1. hs[i - n] = hs[j - n] /\ i - n \in DOMAIN hs /\ j - n \in DOMAIN hs
    BY <1>3, <1>5
  <2>2. i - n = j - n
    BY <1>2, <2>1, Zenon DEF IsInjective
  <2>3. i = n + (i - n) /\ j = n + (j - n)
    BY <1>3
  <2>4. QED
    BY <2>2, <2>3
<1>8. \A o \in Held(spaces[s]) : \E j \in DOMAIN freed' : freed'[j].variable = o
  BY <1>1, <1>2, <1>4 DEF Range
<1>9. DOMAIN freed \subseteq DOMAIN freed'
  BY <1>1
<1>10. QED
  BY <1>1, <1>5, <1>6, <1>7, <1>8, <1>9

LEMMA DestroyKeepsTypes ==
  ASSUME Inv, NEW s \in DOMAIN spaces, Destroy(s)
  PROVE  TypeOK' /\ HandlesInv' /\ ViewInv' /\ EntryInv'
<1>1. /\ heap' = heap /\ cloned' = cloned
      /\ spaces' = [z \in DOMAIN spaces \ {s} |-> spaces[z]]
      /\ freed' \in Seq([variable : Nat, array : Nat])
  BY DestroyStep
<1>2. /\ DOMAIN spaces' \subseteq DOMAIN spaces
      /\ spaces' = [z \in DOMAIN spaces' |-> spaces'[z]]
      /\ \A z \in DOMAIN spaces' : spaces'[z] = spaces[z]
  BY <1>1
<1>3. TypeOK'
  BY <1>1, <1>2 DEF Inv, TypeOK
<1>4. HandlesInv'
  BY <1>2 DEF Inv, HandlesInv
<1>5. \A z \in DOMAIN spaces' : ViewsOf(spaces[z])'
  <2> SUFFICES ASSUME NEW z \in DOMAIN spaces' PROVE ViewsOf(spaces[z])'
    OBVIOUS
  <2> DEFINE sp == spaces[z]
  <2>1. ViewsOf(sp) /\ \A o \in Held(sp) : heap'[o].name = heap[o].name
    BY <1>1, <1>2 DEF Inv, ViewInv
  <2>2. spaces'[z] = sp
    BY <1>2
  <2> HIDE DEF sp
  <2>3. QED
    BY <2>1, <2>2, ViewsStay DEF ViewsOf
<1>6. EntryInv'
  BY <1>1, <1>2 DEF Inv, EntryInv, EntriesOf
<1>7. QED
  BY <1>3, <1>4, <1>5, <1>6 DEF ViewInv

LEMMA DestroyKeepsOwners ==
  ASSUME Inv, NEW s \in DOMAIN spaces, Destroy(s)
  PROVE  OwnersInv'
<1>1. /\ heap' = heap
      /\ spaces' = [z \in DOMAIN spaces \ {s} |-> spaces[z]]
  BY DestroyStep
<1>2. /\ DOMAIN spaces' = DOMAIN spaces \ {s}
      /\ \A z \in DOMAIN spaces' : spaces'[z] = spaces[z]
  BY <1>1
<1>3. /\ DOMAIN freed \subseteq DOMAIN freed'
      /\ \A j \in DOMAIN freed : freed'[j] = freed[j]
      /\ \A j \in DOMAIN freed' \ DOMAIN freed :
           freed'[j].variable \in Held(spaces[s])
      /\ \A i, j \in DOMAIN freed' \ DOMAIN freed :
           freed'[i].variable = freed'[j].variable => i = j
  BY DestroyFrees
<1>4. /\ \A z \in DOMAIN spaces : Held(spaces[z]) \subseteq Made
      /\ \A z, t \in DOMAIN spaces :
           z # t => Held(spaces[z]) \cap Held(spaces[t]) = {}
      /\ \A z \in DOMAIN spaces : \A i \in DOMAIN freed :
           freed[i].variable \notin Held(spaces[z])
      /\ \A i \in DOMAIN freed : freed[i].variable \in Made
      /\ \A i, j \in DOMAIN freed :
           freed[i].variable = freed[j].variable => i = j
  BY DEF Inv, OwnersInv
<1>5. Made' = Made
  BY <1>1 DEF Made
<1> DEFINE H(z) == Held(spaces[z])
<1>6. \A z \in DOMAIN spaces' : Held(spaces'[z]) = H(z) /\ z # s
  BY <1>2
<1>7. \A z \in DOMAIN spaces' : \A j \in DOMAIN freed' :
        freed'[j].variable \notin H(z)
  BY <1>2, <1>3, <1>4
<1>8. \A j \in DOMAIN freed' : freed'[j].variable \in Made
  BY <1>3, <1>4
<1>9. \A i, j \in DOMAIN freed' :
        freed'[i].variable = freed'[j].variable => i = j
  <2>1. \A i \in DOMAIN freed, j \in DOMAIN freed' \ DOMAIN freed :
          freed'[i].variable # freed'[j].variable
    BY <1>3, <1>4
  <2>2. QED
    BY <1>3, <1>4, <2>1
<1>10. QED
  BY <1>2, <1>4, <1>5, <1>6, <1>7, <1>8, <1>9 DEF OwnersInv

LEMMA DestroyKeepsArrays ==
  ASSUME Inv, NEW s \in DOMAIN spaces, Destroy(s)
  PROVE  ArrayInv'
<1>1. /\ heap' = heap
      /\ spaces' = [z \in DOMAIN spaces \ {s} |-> spaces[z]]
  BY DestroyStep
<1>2. /\ DOMAIN spaces' = DOMAIN spaces \ {s}
      /\ \A z \in DOMAIN spaces' : spaces'[z] = spaces[z]
  BY <1>1
<1>3. /\ DOMAIN freed \subseteq DOMAIN freed'
      /\ \A j \in DOMAIN freed : freed'[j] = freed[j]
      /\ \A j \in DOMAIN freed' \ DOMAIN freed :
           /\ freed'[j].variable \in Held(spaces[s])
           /\ freed'[j].array = ArrayOf(freed'[j].variable)
      /\ \A o \in Held(spaces[s]) : \E j \in DOMAIN freed' :
           freed'[j].variable = o
  BY DestroyFrees
<1>4. Owned' = Owned
  <2> DEFINE held == UNION {Held(spaces[z]) : z \in DOMAIN spaces}
             gone == {freed[i].variable : i \in DOMAIN freed}
             held1 == UNION {Held(spaces[z]) : z \in DOMAIN spaces'}
             gone1 == {freed'[i].variable : i \in DOMAIN freed'}
  <2>1. held = held1 \cup Held(spaces[s])
    BY <1>2
  <2>2. gone1 = gone \cup Held(spaces[s])
    BY <1>3
  <2>3. Owned = held \cup gone
    BY DEF Owned
  <2>4. UNION {Held(spaces'[z]) : z \in DOMAIN spaces'} = held1
    BY <1>2
  <2>5. Owned' = held1 \cup gone1
    BY <2>4 DEF Owned
  <2> HIDE DEF held, gone, held1, gone1
  <2>6. QED
    BY <2>1, <2>2, <2>3, <2>5
<1>5. Made' = Made
  BY <1>1 DEF Made
<1>6. \A i \in DOMAIN freed' :
        \/ freed'[i].array = 0
        \/ /\ heap[freed'[i].variable].removable
           /\ freed'[i].array = heap[freed'[i].variable].array
  BY <1>3 DEF Inv, ArrayInv, ArrayOf
<1>7. QED
  BY <1>1, <1>4, <1>5, <1>6 DEF Inv, ArrayInv

LEMMA DestroyKeepsInv ==
  ASSUME Inv, NEW s \in DOMAIN spaces, Destroy(s)
  PROVE  Inv'
  BY DestroyKeepsTypes, DestroyKeepsOwners, DestroyKeepsArrays DEF Inv

-----------------------------------------------------------------------------
(* The space is cloned.                                                    *)

\* Where a listed key stands in its list.
LEMMA Position ==
  ASSUME NEW f, IsInjective(f)
  PROVE  LET pos(k) == CHOOSE i \in DOMAIN f : f[i] = k
         IN  /\ \A k \in Range(f) : pos(k) \in DOMAIN f /\ f[pos(k)] = k
             /\ \A i \in DOMAIN f : pos(f[i]) = i
<1> DEFINE pos(k) == CHOOSE i \in DOMAIN f : f[i] = k
<1>1. \A k \in Range(f) : pos(k) \in DOMAIN f /\ f[pos(k)] = k
  <2> SUFFICES ASSUME NEW k \in Range(f)
               PROVE  pos(k) \in DOMAIN f /\ f[pos(k)] = k
    OBVIOUS
  <2>1. \E i \in DOMAIN f : f[i] = k
    BY DEF Range
  <2>2. QED
    BY <2>1
<1>2. \A i \in DOMAIN f : pos(f[i]) = i
  <2> SUFFICES ASSUME NEW i \in DOMAIN f PROVE pos(f[i]) = i
    OBVIOUS
  <2>1. f[i] \in Range(f)
    BY DEF Range
  <2>2. pos(f[i]) \in DOMAIN f /\ f[pos(f[i])] = f[i]
    BY <1>1, <2>1
  <2> HIDE DEF pos
  <2>3. QED
    BY <2>2 DEF IsInjective
<1>3. QED
  BY <1>1, <1>2

\* The clone in the order of its list: variable n + i is the copy of what the
\* i-th key leads to.
Place(ks, k) == Len(heap) + (CHOOSE i \in DOMAIN ks : ks[i] = k)

CopiesOf(sp, ks) ==
  [i \in DOMAIN ks |-> CopyOf(sp.paired[ks[i]], Len(heap) + i)]

CopiedAs(sp, ks, new, c) ==
  /\ c.byId = [i \in {k[1] : k \in {q \in DOMAIN sp.paired : q[2] = 0}} |->
                 Place(ks, <<i, 0>>)]
  /\ c.paired = [k \in DOMAIN sp.paired |-> Place(ks, k)]
  /\ c.symbolic = [x \in {new[i].name : i \in DOMAIN ks} \ {""} |->
                     Len(heap) + (CHOOSE i \in DOMAIN ks : new[i].name = x)]
  /\ c.handles = [i \in DOMAIN ks |-> Len(heap) + i]
  /\ c.external = <<>> /\ c.internal = <<>> /\ c.placeholders = <<>>
  /\ c = [byId |-> c.byId, paired |-> c.paired, symbolic |-> c.symbolic,
          handles |-> c.handles, external |-> c.external,
          internal |-> c.internal, placeholders |-> c.placeholders]

LEMMA CloneParts ==
  ASSUME NEW sp, NEW ks, ks = SetToSeq(DOMAIN sp.paired)
  PROVE  /\ CloneOf(sp)[2] = CopiesOf(sp, ks)
         /\ CopiedAs(sp, ks, CopiesOf(sp, ks), CloneOf(sp)[1])
<1> DEFINE new == CopiesOf(sp, ks)
           by == [i \in {k[1] : k \in {q \in DOMAIN sp.paired : q[2] = 0}} |->
                    Place(ks, <<i, 0>>)]
           pairs == [k \in DOMAIN sp.paired |-> Place(ks, k)]
           names == [x \in {new[i].name : i \in DOMAIN ks} \ {""} |->
                       Len(heap) + (CHOOSE i \in DOMAIN ks : new[i].name = x)]
           hs == [i \in DOMAIN ks |-> Len(heap) + i]
           c == [byId |-> by, paired |-> pairs, symbolic |-> names,
                 handles |-> hs, external |-> <<>>, internal |-> <<>>,
                 placeholders |-> <<>>]
<1>1. CloneOf(sp) = <<c, new>>
  BY DEF CloneOf, CopiesOf, Place
<1> HIDE DEF by, pairs, names, hs, new
<1>2. CloneOf(sp)[1] = c /\ CloneOf(sp)[2] = new
  <2> HIDE DEF c
  <2>1. QED
    BY <1>1
<1>3. /\ c.byId = by /\ c.paired = pairs /\ c.symbolic = names
      /\ c.handles = hs
      /\ c.external = <<>> /\ c.internal = <<>> /\ c.placeholders = <<>>
      /\ c = [byId |-> c.byId, paired |-> c.paired, symbolic |-> c.symbolic,
              handles |-> c.handles, external |-> c.external,
              internal |-> c.internal, placeholders |-> c.placeholders]
  OBVIOUS
<1> HIDE DEF c
<1>4. QED
  BY <1>2, <1>3 DEF CopiedAs, by, pairs, names, hs, new

\* The copies, and what their numbers are.
LEMMA CloneCopies ==
  ASSUME Inv, "main" \in DOMAIN spaces, NEW ks,
         ks = SetToSeq(DOMAIN spaces["main"].paired)
  PROVE  LET sp == spaces["main"]
             new == CopiesOf(sp, ks)
             n == Len(heap)
         IN  /\ n \in Nat /\ Made = 1 .. n
             /\ \E m \in Nat : DOMAIN ks = 1 .. m
                               /\ DOMAIN (heap \o new) = 1 .. n + m
             /\ \A k \in DOMAIN sp.paired :
                  \E i \in DOMAIN ks : ks[i] = k /\ Place(ks, k) = n + i
             /\ \A i \in DOMAIN ks : ks[i] \in DOMAIN sp.paired
                                     /\ Place(ks, ks[i]) = n + i
             /\ heap \o new \in Seq(Variable)
             /\ \A o \in Made : (heap \o new)[o] = heap[o]
             /\ \A i \in DOMAIN ks :
                  /\ new[i] = CopyOf(sp.paired[ks[i]], n + i)
                  /\ (heap \o new)[n + i] = new[i]
                  /\ sp.paired[ks[i]] \in Held(sp) /\ new[i] \in Variable
<1> DEFINE sp == spaces["main"]
           D == DOMAIN sp.paired
           new == CopiesOf(sp, ks)
           n == Len(heap)
           m == Cardinality(D)
           cat == heap \o new
<1>1. IsFiniteSet(D)
  BY DEF Inv, TypeOK, IsSpace
<1>2. m \in Nat /\ DOMAIN ks = 1 .. m /\ Range(ks) = D /\ IsInjective(ks)
  BY <1>1, ListsEachOnce
<1>3. /\ \A k \in D : (CHOOSE i \in DOMAIN ks : ks[i] = k) \in DOMAIN ks
                      /\ ks[CHOOSE i \in DOMAIN ks : ks[i] = k] = k
      /\ \A j \in DOMAIN ks : (CHOOSE i \in DOMAIN ks : ks[i] = ks[j]) = j
  BY <1>2, Position
<1>4. \A k \in D : \E i \in DOMAIN ks : ks[i] = k /\ Place(ks, k) = n + i
  BY <1>3, Zenon DEF Place
<1>5. \A i \in DOMAIN ks : Place(ks, ks[i]) = n + i
  BY <1>3, Zenon DEF Place
<1>6. \A i \in DOMAIN ks : ks[i] \in D
  BY <1>2 DEF Range
<1>7. \A i \in DOMAIN ks : /\ sp.paired[ks[i]] \in Held(sp)
                           /\ sp.paired[ks[i]] \in Made
  BY <1>6, PairedIsHeld DEF Inv
<1>8. n \in Nat /\ Made = 1 .. n /\ heap \in Seq(Variable)
  BY NewIs DEF Inv, TypeOK
<1>9. \A o \in Made : \A i \in Nat : CopyOf(o, n + i) \in Variable
  <2> SUFFICES ASSUME NEW o \in Made, NEW i \in Nat
               PROVE  CopyOf(o, n + i) \in Variable
    OBVIOUS
  <2>1. heap[o] \in Variable
    BY HeapTyped DEF Inv
  <2>2. heap[o].placeholder \in BOOLEAN /\ heap[o].name \in Names \cup {""}
    BY <2>1 DEF Variable
  <2>3. n + i \in Nat /\ o \in Nat
    BY <1>8
  <2>4. (IF heap[o].array = 0 THEN 0 ELSE n + i) \in Nat
    BY <2>3
  <2>5. QED
    BY <2>2, <2>3, <2>4, Zenon DEF CopyOf, Variable
<1>10. DOMAIN new = 1 .. m /\ \A i \in DOMAIN ks :
         new[i] = CopyOf(sp.paired[ks[i]], n + i) /\ new[i] \in Variable
  <2> HIDE DEF sp, n
  <2>1. DOMAIN new = 1 .. m /\ \A i \in DOMAIN ks :
          new[i] = CopyOf(sp.paired[ks[i]], n + i)
    BY <1>2 DEF CopiesOf, n
  <2>2. \A i \in DOMAIN ks : i \in Nat
    BY <1>2
  <2>3. QED
    BY <1>7, <1>9, <2>1, <2>2
<1>11. new \in Seq(Variable) /\ Len(new) = m
  <2>1. new = [i \in 1 .. m |-> new[i]]
    BY <1>2 DEF CopiesOf
  <2> HIDE DEF new, Variable, m
  <2>2. \A i \in 1 .. m : new[i] \in Variable
    BY <1>2, <1>10
  <2>3. QED
    BY <1>2, <2>1, <2>2, SeqMade
<1>12. /\ cat \in Seq(Variable) /\ DOMAIN cat = 1 .. n + m
       /\ \A o \in DOMAIN heap : cat[o] = heap[o]
       /\ \A i \in DOMAIN new : cat[n + i] = new[i]
  <2> HIDE DEF new, Variable, m
  <2>0. heap \in Seq(Variable) /\ new \in Seq(Variable)
    BY <1>8, <1>11
  <2>1. /\ heap \o new \in Seq(Variable)
        /\ DOMAIN (heap \o new) = 1 .. Len(heap) + Len(new)
        /\ \A o \in DOMAIN heap : (heap \o new)[o] = heap[o]
        /\ \A i \in DOMAIN new : (heap \o new)[Len(heap) + i] = new[i]
    BY <2>0, SeqConcat
  <2>2. QED
    BY <1>11, <2>1
<1>13. \E q \in Nat : DOMAIN ks = 1 .. q /\ DOMAIN cat = 1 .. n + q
  <2> HIDE DEF m, n, cat
  <2>1. QED
    BY <1>2, <1>12
<1>14. \A i \in DOMAIN ks : cat[n + i] = new[i]
  <2> HIDE DEF new, cat, m, n
  <2>1. QED
    BY <1>2, <1>10, <1>12
<1>15. \A o \in Made : cat[o] = heap[o]
  BY <1>12, Zenon DEF Made
<1> HIDE DEF new, cat, m, n, D
<1>16. QED
  BY <1>4, <1>5, <1>6, <1>7, <1>8, <1>10, <1>12, <1>13, <1>14, <1>15, Zenon
  DEF cat, n, D, new

\* Space c, cloned from sp: each key leads to a copy, made then, of what it
\* leads to in sp, each copy holds its own array, and the other views show
\* the copies too.
IsCloneOf(sp, c) ==
  /\ IsSpace(c)
  /\ IsInjective(c.handles) /\ IsInjective(c.paired)
  /\ Held(c) = Made' \ Made /\ Range(c.paired) = Held(c)
  /\ DOMAIN c.paired = DOMAIN sp.paired
  /\ \A k \in DOMAIN sp.paired :
       LET o == c.paired[k]
           p == sp.paired[k]
       IN  /\ heap'[o].copyOf = p /\ heap'[o].name = heap[p].name
           /\ heap'[o].removable /\ heap'[o].array \in {0, o}
  /\ DOMAIN c.byId = DOMAIN sp.byId
  /\ \A id \in DOMAIN c.byId : c.byId[id] = c.paired[<<id, 0>>]
  /\ \A x \in DOMAIN c.symbolic :
       c.symbolic[x] \in Held(c) /\ heap'[c.symbolic[x]].name = x /\ x # ""
  /\ \A o \in Held(c) : heap'[o].name # "" =>
       /\ heap'[o].name \in DOMAIN c.symbolic
       /\ c.symbolic[heap'[o].name] = o

LEMMA CloneIs ==
  ASSUME Inv, Clone
  PROVE  IsCloneOf(spaces["main"], CloneOf(spaces["main"])[1])
<1> DEFINE sp == spaces["main"]
           c == CloneOf(sp)[1]
           ks == SetToSeq(DOMAIN sp.paired)
           new == CopiesOf(sp, ks)
           n == Len(heap)
           D == DOMAIN sp.paired
<1>1. "main" \in DOMAIN spaces /\ heap' = heap \o CloneOf(sp)[2]
  BY DEF Clone
<1>0. ks = SetToSeq(DOMAIN sp.paired)
  OBVIOUS
<1> HIDE DEF sp, ks
<1>2. CloneOf(sp)[2] = new /\ CopiedAs(sp, ks, new, c)
  BY <1>0, CloneParts
<1> HIDE DEF new, c
<1>a. c.byId = [i \in {k[1] : k \in {q \in D : q[2] = 0}} |->
                  Place(ks, <<i, 0>>)]
  BY <1>2 DEF CopiedAs
<1>b. c.paired = [k \in D |-> Place(ks, k)]
  BY <1>2 DEF CopiedAs
<1>c. c.symbolic = [x \in {new[i].name : i \in DOMAIN ks} \ {""} |->
                      n + (CHOOSE i \in DOMAIN ks : new[i].name = x)]
  BY <1>2 DEF CopiedAs
<1>d. c.handles = [i \in DOMAIN ks |-> n + i]
  BY <1>2 DEF CopiedAs
<1>3. c.external = <<>> /\ c.internal = <<>> /\ c.placeholders = <<>>
  BY <1>2 DEF CopiedAs
<1>4. c = [byId |-> c.byId, paired |-> c.paired, symbolic |-> c.symbolic,
           handles |-> c.handles, external |-> c.external,
           internal |-> c.internal, placeholders |-> c.placeholders]
  BY <1>2 DEF CopiedAs
<1>5. heap' = heap \o new
  BY <1>1, <1>2
<1>6. /\ n \in Nat /\ Made = 1 .. n
      /\ \E m \in Nat : DOMAIN ks = 1 .. m /\ DOMAIN heap' = 1 .. n + m
      /\ \A k \in D : \E i \in DOMAIN ks : ks[i] = k /\ Place(ks, k) = n + i
      /\ \A i \in DOMAIN ks : ks[i] \in D /\ Place(ks, ks[i]) = n + i
      /\ \A i \in DOMAIN ks :
           /\ new[i] = CopyOf(sp.paired[ks[i]], n + i)
           /\ heap'[n + i] = new[i] /\ sp.paired[ks[i]] \in Held(sp)
  BY <1>1, <1>5, CloneCopies DEF sp, ks, new
<1>7. /\ IsFiniteSet(D) /\ IsFiniteSet(DOMAIN sp.byId)
      /\ DOMAIN sp.byId \subseteq NodeIds /\ D \subseteq Keys
      /\ IsInjective(sp.paired) /\ Range(sp.paired) = Held(sp)
      /\ ViewsOf(sp)
  BY <1>1 DEF Inv, TypeOK, IsSpace, HandlesInv, ViewInv, sp
<1> HIDE DEF n, D
<1>8. PICK m \in Nat : DOMAIN ks = 1 .. m /\ Made' = 1 .. n + m
  BY <1>6 DEF Made
<1>e. n \in Nat /\ \A i \in DOMAIN ks : i \in Nat
  BY <1>6, <1>8
<1>f. \A i, j \in DOMAIN ks : n + i = n + j => i = j
  BY <1>e
<1>g. /\ \A i \in DOMAIN ks : n + i \in Made' \ Made
      /\ \A o \in Made' \ Made : o - n \in DOMAIN ks /\ n + (o - n) = o
  <2>1. Made = 1 .. n
    BY <1>6
  <2>2. QED
    BY <1>8, <1>e, <2>1
<1>9. Held(c) = Made' \ Made /\ IsInjective(c.handles)
      /\ c.handles \in Seq(Nat)
  <2>0. DOMAIN c.handles = DOMAIN ks
        /\ \A i \in DOMAIN ks : c.handles[i] = n + i
    BY <1>d
  <2>3. Held(c) = Made' \ Made
    BY <1>g, <2>0 DEF Held, Range
  <2>5. IsInjective(c.handles)
    BY <1>f, <2>0 DEF IsInjective
  <2>6. \A i \in 1 .. m : n + i \in Nat
    BY <1>e
  <2>7. c.handles = [i \in 1 .. m |-> c.handles[i]]
        /\ \A i \in 1 .. m : c.handles[i] \in Nat
    BY <1>8, <1>d, <2>6
  <2>8. c.handles \in Seq(Nat)
    BY <2>7, SeqMade
  <2>9. QED
    BY <2>3, <2>5, <2>8
<1>10. DOMAIN c.paired = D /\ \A k \in D : c.paired[k] = Place(ks, k)
  BY <1>b
<1>11. Range(c.paired) = Made' \ Made
  <2>1. \A k \in D : Place(ks, k) \in Made' \ Made
    BY <1>6, <1>g
  <2>2. \A o \in Made' \ Made : \E k \in D : Place(ks, k) = o
    <3> SUFFICES ASSUME NEW o \in Made' \ Made
                 PROVE  \E k \in D : Place(ks, k) = o
      OBVIOUS
    <3>1. o - n \in DOMAIN ks /\ n + (o - n) = o
      BY <1>g
    <3>2. ks[o - n] \in D /\ Place(ks, ks[o - n]) = n + (o - n)
      BY <1>6, <3>1
    <3>3. QED
      BY <3>1, <3>2
  <2>3. QED
    BY <1>10, <2>1, <2>2 DEF Range
<1>12. IsInjective(c.paired)
  <2>1. \A k, q \in D : Place(ks, k) = Place(ks, q) => k = q
    <3> SUFFICES ASSUME NEW k \in D, NEW q \in D, Place(ks, k) = Place(ks, q)
                 PROVE  k = q
      OBVIOUS
    <3>1. PICK i \in DOMAIN ks : ks[i] = k /\ Place(ks, k) = n + i
      BY <1>6
    <3>2. PICK j \in DOMAIN ks : ks[j] = q /\ Place(ks, q) = n + j
      BY <1>6
    <3>3. i = j
      BY <1>f, <3>1, <3>2
    <3>4. QED
      BY <3>1, <3>2, <3>3
  <2>2. QED
    BY <1>10, <2>1 DEF IsInjective
<1>13. \A k \in D :
         /\ heap'[c.paired[k]].copyOf = sp.paired[k]
         /\ heap'[c.paired[k]].name = heap[sp.paired[k]].name
         /\ heap'[c.paired[k]].removable
         /\ heap'[c.paired[k]].array \in {0, c.paired[k]}
  <2> SUFFICES ASSUME NEW k \in D
               PROVE  LET o == c.paired[k]
                      IN  /\ heap'[o].copyOf = sp.paired[k]
                          /\ heap'[o].name = heap[sp.paired[k]].name
                          /\ heap'[o].removable /\ heap'[o].array \in {0, o}
    OBVIOUS
  <2>1. PICK i \in DOMAIN ks : ks[i] = k /\ c.paired[k] = n + i
    BY <1>6, <1>10
  <2>2. heap'[n + i] = CopyOf(sp.paired[k], n + i)
    BY <1>6, <2>1
  <2>3. QED
    BY <2>1, <2>2 DEF CopyOf
<1>14. DOMAIN c.byId = DOMAIN sp.byId
  <2>1. DOMAIN c.byId = {k[1] : k \in {q \in D : q[2] = 0}}
    BY <1>a
  <2>2. {<<id, 0>> : id \in DOMAIN sp.byId} = {q \in D : q[2] = 0}
    BY <1>7 DEF ViewsOf, D
  <2> DEFINE T == {<<id, 0>> : id \in DOMAIN sp.byId}
  <2>3. ASSUME NEW id \in DOMAIN sp.byId PROVE id \in {k[1] : k \in T}
    <3>1. <<id, 0>> \in T /\ <<id, 0>>[1] = id
      OBVIOUS
    <3> HIDE DEF T
    <3>2. QED
      BY <3>1
  <2>4. ASSUME NEW k \in T PROVE k[1] \in DOMAIN sp.byId
    <3>1. PICK id \in DOMAIN sp.byId : k = <<id, 0>>
      OBVIOUS
    <3>2. QED
      BY <3>1
  <2> HIDE DEF T
  <2>5. {k[1] : k \in T} = DOMAIN sp.byId
    BY <2>3, <2>4
  <2>6. QED
    BY <2>1, <2>2, <2>5 DEF T
<1>15. \A id \in DOMAIN c.byId : c.byId[id] = c.paired[<<id, 0>>]
  <2> SUFFICES ASSUME NEW id \in DOMAIN c.byId
               PROVE  c.byId[id] = c.paired[<<id, 0>>]
    OBVIOUS
  <2>1. <<id, 0>> \in {<<i, 0>> : i \in DOMAIN sp.byId}
    BY <1>14
  <2>2. <<id, 0>> \in D
    BY <1>7, <2>1 DEF ViewsOf, D
  <2>3. c.byId[id] = Place(ks, <<id, 0>>)
    BY <1>a
  <2>4. QED
    BY <1>10, <2>2, <2>3
<1>16. \A x \in DOMAIN c.symbolic :
         c.symbolic[x] \in Held(c) /\ heap'[c.symbolic[x]].name = x /\ x # ""
  <2> SUFFICES ASSUME NEW x \in DOMAIN c.symbolic
               PROVE  /\ c.symbolic[x] \in Held(c)
                      /\ heap'[c.symbolic[x]].name = x /\ x # ""
    OBVIOUS
  <2> DEFINE j == CHOOSE i \in DOMAIN ks : new[i].name = x
  <2>1. x # "" /\ \E i \in DOMAIN ks : new[i].name = x
    <3>1. x \in {new[i].name : i \in DOMAIN ks} \ {""}
      BY <1>c
    <3>2. QED
      BY <3>1
  <2>2. j \in DOMAIN ks /\ new[j].name = x
    BY <2>1
  <2>3. c.symbolic[x] = n + j
    BY <1>c
  <2> HIDE DEF j
  <2>4. n + j \in Made' \ Made
    BY <1>g, <2>2
  <2>5. heap'[n + j].name = x
    BY <1>6, <2>2
  <2>6. QED
    BY <1>9, <2>1, <2>3, <2>4, <2>5
<1>17. \A i \in DOMAIN ks : new[i].name = heap[sp.paired[ks[i]]].name
  <2> SUFFICES ASSUME NEW i \in DOMAIN ks
               PROVE  new[i].name = heap[sp.paired[ks[i]]].name
    OBVIOUS
  <2>1. new[i] = CopyOf(sp.paired[ks[i]], n + i)
    BY <1>6
  <2>2. QED
    BY <2>1 DEF CopyOf
<1>18. \A i, j \in DOMAIN ks :
         new[i].name = new[j].name /\ new[i].name # "" => i = j
  <2> SUFFICES ASSUME NEW i \in DOMAIN ks, NEW j \in DOMAIN ks,
                      new[i].name = new[j].name, new[i].name # ""
               PROVE  i = j
    OBVIOUS
  <2> DEFINE o == sp.paired[ks[i]]
             p == sp.paired[ks[j]]
  <2>1. heap[o].name = heap[p].name /\ heap[o].name # ""
    BY <1>17
  <2>2. o \in Held(sp) /\ p \in Held(sp)
    BY <1>6
  <2> HIDE DEF o, p
  <2>3. o = p
    BY <1>7, <2>1, <2>2 DEF ViewsOf
  <2>4. ks[i] = ks[j]
    BY <1>6, <1>7, <2>3 DEF IsInjective, o, p, D
  <2>5. n + i = n + j
    BY <1>6, <2>4
  <2>6. QED
    BY <1>f, <2>5
<1>19. \A o \in Held(c) : heap'[o].name # "" =>
         /\ heap'[o].name \in DOMAIN c.symbolic
         /\ c.symbolic[heap'[o].name] = o
  <2> SUFFICES ASSUME NEW o \in Held(c), heap'[o].name # ""
               PROVE  /\ heap'[o].name \in DOMAIN c.symbolic
                      /\ c.symbolic[heap'[o].name] = o
    OBVIOUS
  <2> DEFINE i == o - n
  <2>1. i \in DOMAIN ks /\ n + i = o
    BY <1>9, <1>g
  <2> HIDE DEF i
  <2>2. heap'[o].name = new[i].name
    BY <1>6, <2>1
  <2> DEFINE x == new[i].name
             j == CHOOSE q \in DOMAIN ks : new[q].name = x
  <2>3. j \in DOMAIN ks /\ new[j].name = x
    BY <2>1
  <2>4. x \in DOMAIN c.symbolic /\ c.symbolic[x] = n + j
    <3>1. x \in {new[q].name : q \in DOMAIN ks} \ {""}
      BY <2>1, <2>2
    <3>2. c.symbolic[x] = n + (CHOOSE q \in DOMAIN ks : new[q].name = x)
      <4> HIDE DEF x
      <4> QED
        BY <1>c, <3>1
    <3>3. DOMAIN c.symbolic = {new[q].name : q \in DOMAIN ks} \ {""}
      BY <1>c
    <3>4. QED
      BY <3>1, <3>2, <3>3
  <2> HIDE DEF j
  <2>5. j = i
    BY <1>18, <2>1, <2>2, <2>3
  <2>6. QED
    BY <2>1, <2>2, <2>4, <2>5
<1>20. IsSpace(c)
  <2>1. c.external \in Seq(Nat) /\ c.internal \in Seq(Nat)
        /\ c.placeholders \in Seq(Nat)
    BY <1>3
  <2>2. QED
    BY <1>4, <1>7, <1>9, <1>10, <1>14, <2>1, Zenon DEF IsSpace
<1>21. QED
  BY <1>9, <1>10, <1>11, <1>12, <1>13, <1>14, <1>15, <1>16, <1>19, <1>20
  DEF IsCloneOf, sp, c, D

\* What all the parts of the invariant need to know of the step.
LEMMA CloneStep ==
  ASSUME Inv, Clone
  PROVE  /\ "copy" \notin DOMAIN spaces /\ freed' = freed /\ cloned' = TRUE
         /\ DOMAIN spaces' = DOMAIN spaces \cup {"copy"}
         /\ spaces' = [z \in DOMAIN spaces' |-> spaces'[z]]
         /\ \A z \in DOMAIN spaces : z # "copy" /\ spaces'[z] = spaces[z]
         /\ "main" \in DOMAIN spaces
         /\ IsCloneOf(spaces["main"], spaces'["copy"])
         /\ heap' \in Seq(Variable) /\ Made \subseteq Made'
         /\ \A o \in Made : heap'[o] = heap[o]
<1> DEFINE c == CloneOf(spaces["main"])[1]
<1>1. /\ spaces' = With(spaces, "copy", c) /\ freed' = freed /\ cloned' = TRUE
      /\ "copy" \notin DOMAIN spaces /\ "main" \in DOMAIN spaces
  BY DEF Clone, Inv, TypeOK
<1>2. IsCloneOf(spaces["main"], c)
  BY CloneIs
<1> HIDE DEF c
<1>3. /\ DOMAIN spaces' = DOMAIN spaces \cup {"copy"}
      /\ spaces' = [z \in DOMAIN spaces' |-> spaces'[z]]
      /\ \A z \in DOMAIN spaces : z # "copy" /\ spaces'[z] = spaces[z]
      /\ spaces'["copy"] = c
  BY <1>1 DEF With
<1>4. /\ heap' \in Seq(Variable) /\ Made \subseteq Made'
      /\ \A o \in Made : heap'[o] = heap[o]
  <2> DEFINE sp == spaces["main"]
             ks == SetToSeq(DOMAIN sp.paired)
             new == CopiesOf(sp, ks)
             cat == heap \o new
  <2>1. heap' = cat
    <3>1. CloneOf(sp)[2] = new
      <4>1. ks = SetToSeq(DOMAIN sp.paired)
        OBVIOUS
      <4> HIDE DEF ks, sp
      <4>2. QED
        BY <4>1, CloneParts
    <3>2. QED
      BY <3>1 DEF Clone
  <2>2. /\ cat \in Seq(Variable) /\ \A o \in Made : cat[o] = heap[o]
        /\ Len(heap) \in Nat /\ Made = 1 .. Len(heap)
        /\ \E m \in Nat : DOMAIN cat = 1 .. Len(heap) + m
    BY <1>1, CloneCopies
  <2> HIDE DEF cat
  <2>3. Made \subseteq DOMAIN cat
    BY <2>2
  <2>4. QED
    BY <2>1, <2>2, <2>3 DEF Made
<1>5. QED
  BY <1>1, <1>2, <1>3, <1>4

LEMMA CloneKeepsTypes ==
  ASSUME Inv, Clone
  PROVE  TypeOK' /\ HandlesInv' /\ ViewInv' /\ EntryInv'
<1>1. /\ freed' = freed /\ cloned' = TRUE
      /\ DOMAIN spaces' = DOMAIN spaces \cup {"copy"}
      /\ spaces' = [z \in DOMAIN spaces' |-> spaces'[z]]
      /\ \A z \in DOMAIN spaces : z # "copy" /\ spaces'[z] = spaces[z]
      /\ heap' \in Seq(Variable)
      /\ \A o \in Made : heap'[o] = heap[o]
  BY CloneStep
<1> DEFINE sp == spaces["main"]
           c == spaces'["copy"]
<1>2. IsCloneOf(sp, c) /\ "main" \in DOMAIN spaces
  BY CloneStep
<1>3. \A z \in DOMAIN spaces : Held(spaces[z]) \subseteq Made
  BY DEF Inv, OwnersInv
<1> HIDE DEF sp, c
<1>4. TypeOK'
  <2>1. IsSpace(c)
    BY <1>2 DEF IsCloneOf
  <2>2. \A z \in DOMAIN spaces' : IsSpace(spaces'[z])
    BY <1>1, <2>1 DEF Inv, TypeOK, c
  <2>3. QED
    BY <1>1, <2>2 DEF Inv, TypeOK
<1>5. HandlesInv'
  <2>1. IsInjective(c.handles) /\ IsInjective(c.paired)
        /\ Range(c.paired) = Held(c)
    BY <1>2 DEF IsCloneOf
  <2>2. QED
    BY <1>1, <2>1 DEF Inv, HandlesInv, c
<1>6. \A z \in DOMAIN spaces : ViewsOf(spaces[z])'
  <2> SUFFICES ASSUME NEW z \in DOMAIN spaces PROVE ViewsOf(spaces[z])'
    OBVIOUS
  <2> DEFINE sq == spaces[z]
  <2>1. ViewsOf(sq) /\ \A o \in Held(sq) : heap'[o].name = heap[o].name
    BY <1>1, <1>3 DEF Inv, ViewInv
  <2>2. spaces'[z] = sq
    BY <1>1
  <2> HIDE DEF sq
  <2>3. QED
    BY <2>1, <2>2, ViewsStay DEF ViewsOf
<1>7. ViewsOf(spaces["copy"])'
  <2>1. {<<id, 0>> : id \in DOMAIN sp.byId}
          = {k \in DOMAIN sp.paired : k[2] = 0}
    BY <1>2 DEF Inv, ViewInv, ViewsOf, sp
  <2>2. {<<id, 0>> : id \in DOMAIN c.byId} = {k \in DOMAIN c.paired : k[2] = 0}
    BY <1>2, <2>1 DEF IsCloneOf
  <2>3. QED
    BY <1>2, <2>2 DEF IsCloneOf, ViewsOf, c
<1>8. EntryInv'
  <2>1. EntriesOf(sp) /\ Held(sp) \subseteq Made
    BY <1>2, <1>3 DEF Inv, EntryInv, sp
  <2>2. spaces'["main"] = sp
    BY <1>1, <1>2 DEF sp
  <2>3. {o \in Held(sp) : heap[o].placeholder}
          = {o \in Held(sp) : heap'[o].placeholder}
    BY <1>1, <2>1
  <2>4. QED
    BY <2>1, <2>2, <2>3 DEF EntryInv, EntriesOf
<1>9. QED
  BY <1>1, <1>4, <1>5, <1>6, <1>7, <1>8 DEF ViewInv

LEMMA CloneKeepsOwners ==
  ASSUME Inv, Clone
  PROVE  OwnersInv' /\ ArrayInv'
<1>1. /\ freed' = freed
      /\ DOMAIN spaces' = DOMAIN spaces \cup {"copy"}
      /\ \A z \in DOMAIN spaces : z # "copy" /\ spaces'[z] = spaces[z]
      /\ Made \subseteq Made' /\ \A o \in Made : heap'[o] = heap[o]
  BY CloneStep
<1>2. Held(spaces'["copy"]) = Made' \ Made
  BY CloneStep DEF IsCloneOf
<1>3. /\ \A z \in DOMAIN spaces : Held(spaces[z]) \subseteq Made
      /\ \A z, t \in DOMAIN spaces :
           z # t => Held(spaces[z]) \cap Held(spaces[t]) = {}
      /\ \A z \in DOMAIN spaces : \A i \in DOMAIN freed :
           freed[i].variable \notin Held(spaces[z])
      /\ \A i \in DOMAIN freed : freed[i].variable \in Made
      /\ \A i, j \in DOMAIN freed :
           freed[i].variable = freed[j].variable => i = j
  BY DEF Inv, OwnersInv
<1>4. \A o \in Made' \ Made : heap'[o].removable /\ heap'[o].array \in {0, o}
  <2> DEFINE c == spaces'["copy"]
  <2>1. /\ \A k \in DOMAIN c.paired : heap'[c.paired[k]].removable
                /\ heap'[c.paired[k]].array \in {0, c.paired[k]}
        /\ Range(c.paired) = Made' \ Made
    BY CloneStep DEF IsCloneOf
  <2> HIDE DEF c
  <2>2. QED
    BY <2>1 DEF Range
<1>5. 0 \notin Made
  BY NewIs DEF Inv
<1> DEFINE G(z) == Held(spaces'[z])
<1>6. \A z \in DOMAIN spaces' :
        (z = "copy" /\ G(z) = Made' \ Made)
        \/ (z \in DOMAIN spaces /\ z # "copy" /\ G(z) = Held(spaces[z]))
  BY <1>1, <1>2
<1>7. \A z \in DOMAIN spaces' : G(z) \subseteq Made'
  BY <1>1, <1>3, <1>6
<1> HIDE DEF Made
<1>8. \A z, t \in DOMAIN spaces' : z # t => G(z) \cap G(t) = {}
  <2> HIDE DEF G
  <2>1. QED
    BY <1>3, <1>6
<1>9. \A z \in DOMAIN spaces' : \A i \in DOMAIN freed :
        freed[i].variable \notin G(z)
  <2> HIDE DEF G
  <2>1. QED
    BY <1>3, <1>6
<1>10. OwnersInv'
  BY <1>1, <1>3, <1>7, <1>8, <1>9 DEF OwnersInv
<1>11. Owned' = Owned \cup (Made' \ Made)
  <2> DEFINE held == UNION {Held(spaces[z]) : z \in DOMAIN spaces}
             held1 == UNION {Held(spaces'[z]) : z \in DOMAIN spaces'}
             gone == {freed[i].variable : i \in DOMAIN freed}
  <2>1. held1 = held \cup (Made' \ Made)
    BY <1>1, <1>2
  <2>2. Owned = held \cup gone
    BY DEF Owned
  <2>3. Owned' = held1 \cup gone
    BY <1>1 DEF Owned
  <2> HIDE DEF held, held1, gone
  <2>4. QED
    BY <2>1, <2>2, <2>3
<1>12. Owned \subseteq Made
  BY OwnedIsMade DEF Inv
<1>13. /\ \A v \in Made : heap[v].array \in {0, v} \cup (Made \ Owned)
       /\ \A v, w \in Owned :
            heap[v].array = heap[w].array => v = w \/ heap[v].array = 0
       /\ \A i \in DOMAIN freed :
            \/ freed[i].array = 0
            \/ /\ heap[freed[i].variable].removable
               /\ freed[i].array = heap[freed[i].variable].array
       /\ \A o \in Made :
            heap[o].removable \/ (heap[o].array = o /\ o \in Owned)
  BY DEF Inv, ArrayInv
<1> HIDE DEF Owned
<1>14. \A v \in Made' : heap'[v].array \in {0, v} \cup (Made' \ Owned')
  BY <1>1, <1>4, <1>11, <1>13
<1>15. \A v, w \in Owned' :
         heap'[v].array = heap'[w].array => v = w \/ heap'[v].array = 0
  <2>1. \A w \in Owned : heap'[w].array = heap[w].array
                         /\ heap[w].array \in {0} \cup Made
    BY <1>1, <1>12, <1>13
  <2>2. QED
    BY <1>4, <1>11, <1>13, <2>1
<1>16. \A i \in DOMAIN freed :
         \/ freed[i].array = 0
         \/ /\ heap'[freed[i].variable].removable
            /\ freed[i].array = heap'[freed[i].variable].array
  BY <1>1, <1>3, <1>13
<1>17. \A o \in Made' :
         heap'[o].removable \/ (heap'[o].array = o /\ o \in Owned')
  BY <1>1, <1>4, <1>11, <1>13
<1>18. QED
  BY <1>1, <1>10, <1>14, <1>15, <1>16, <1>17 DEF ArrayInv

LEMMA CloneKeepsInv ==
  ASSUME Inv, Clone
  PROVE  Inv'
  BY CloneKeepsTypes, CloneKeepsOwners DEF Inv

-----------------------------------------------------------------------------
(* The invariant, and what it says of the properties.                      *)

LEMMA InitInv == Init => Inv
<1> SUFFICES ASSUME Init PROVE Inv
  OBVIOUS
<1> DEFINE sp == spaces["main"]
<1>1. heap = <<>> /\ freed = <<>> /\ cloned = FALSE
      /\ spaces = [s \in {"main"} |-> EmptySpace]
  BY DEF Init
<1>2. DOMAIN spaces = {"main"} /\ sp = EmptySpace
      /\ spaces = [s \in DOMAIN spaces |-> spaces[s]]
  BY <1>1
<1>3. /\ sp.byId = Empty /\ sp.paired = Empty /\ sp.symbolic = Empty
      /\ sp.handles = <<>> /\ sp.external = <<>> /\ sp.internal = <<>>
      /\ sp.placeholders = <<>>
      /\ sp = [byId |-> sp.byId, paired |-> sp.paired,
               symbolic |-> sp.symbolic, handles |-> sp.handles,
               external |-> sp.external, internal |-> sp.internal,
               placeholders |-> sp.placeholders]
  BY <1>2 DEF EmptySpace
<1>4. \A s \in DOMAIN spaces : spaces[s] = sp
  BY <1>2
<1>5. DOMAIN Empty = {} /\ Range(Empty) = {} /\ IsInjective(Empty)
  BY DEF Empty, Range, IsInjective
<1>6. Range(<<>>) = {} /\ IsInjective(<<>>) /\ Len(<<>>) = 0
      /\ \A R : <<>> \in Seq(R)
  BY DEF Range, IsInjective
<1> HIDE DEF sp
<1>7. IsSpace(sp)
  BY <1>3, <1>5, <1>6, FS_EmptySet DEF IsSpace
<1>8. TypeOK
  BY <1>1, <1>2, <1>4, <1>6, <1>7 DEF TypeOK
<1>9. HandlesInv
  BY <1>3, <1>4, <1>5, <1>6 DEF HandlesInv, Held
<1>10. ViewInv
  <2>1. Held(sp) = {} /\ DOMAIN sp.byId = {} /\ DOMAIN sp.paired = {}
        /\ DOMAIN sp.symbolic = {}
    BY <1>3, <1>5, <1>6 DEF Held
  <2>2. ViewsOf(sp)
    BY <2>1 DEF ViewsOf
  <2>3. QED
    BY <1>4, <2>2 DEF ViewInv
<1>11. Made = {} /\ DOMAIN freed = {} /\ Held(sp) = {}
  BY <1>1, <1>3, <1>6 DEF Made, Held
<1>12. OwnersInv
  BY <1>2, <1>4, <1>11 DEF OwnersInv
<1>13. Owned = {}
  BY <1>12, <1>11, OwnedIsMade
<1>14. ArrayInv
  BY <1>11, <1>13 DEF ArrayInv
<1>15. EntryInv
  <2>1. DOMAIN sp.byId = {}
    BY <1>3, <1>5
  <2>2. {id \in DOMAIN sp.byId : (id < 0) = TRUE} = {}
        /\ {id \in DOMAIN sp.byId : (id < 0) = FALSE} = {}
    BY <2>1
  <2>3. Cardinality({}) = 0
    BY FS_EmptySet
  <2>4. EntriesOf(sp)
    BY <1>3, <1>6, <1>11, <2>2, <2>3 DEF EntriesOf
  <2>5. QED
    BY <1>4, <2>4 DEF EntryInv
<1>16. QED
  BY <1>8, <1>9, <1>10, <1>12, <1>14, <1>15 DEF Inv

LEMMA NextInv == Inv /\ [Next]_vars => Inv'
<1> SUFFICES ASSUME Inv, [Next]_vars PROVE Inv'
  OBVIOUS
<1>1. ASSUME NEW s \in DOMAIN spaces, NEW id \in NodeIds, PutVariable(s, id)
      PROVE  Inv'
  <2>1. CASE id \in DOMAIN spaces[s].byId
    BY <1>1, <2>1, PutVariableTouches, TouchKeepsInv
  <2>2. CASE id \notin DOMAIN spaces[s].byId
    BY <1>1, <2>2, PutVariableEnters, EnterKeepsInv
  <2>3. QED
    BY <2>1, <2>2
<1>2. ASSUME NEW s \in DOMAIN spaces, NEW key \in Keys, PutPair(s, key)
      PROVE  Inv'
  BY <1>2, PutPairEnters, EnterKeepsInv
<1>3. ASSUME NEW s \in DOMAIN spaces, NEW key \in Keys, SetArray(s, key)
      PROVE  Inv'
  BY <1>3, SetArrayTouches, TouchKeepsInv
<1>4. ASSUME NEW s \in DOMAIN spaces, Destroy(s) PROVE Inv'
  BY <1>4, DestroyKeepsInv
<1>5. CASE Clone
  BY <1>5, CloneKeepsInv
<1>6. CASE UNCHANGED vars
  <2>1. spaces' = spaces /\ heap' = heap /\ freed' = freed /\ cloned' = cloned
    BY <1>6 DEF vars
  <2>2. TypeOK' /\ HandlesInv'
    BY <2>1 DEF Inv, TypeOK, HandlesInv
  <2>3. ViewInv' /\ EntryInv'
    <3>1. ASSUME NEW s \in DOMAIN spaces PROVE ViewsOf(spaces[s])'
      <4>1. ViewsOf(spaces[s])
        BY DEF Inv, ViewInv
      <4>2. QED
        BY <2>1, <4>1, ViewsStay DEF ViewsOf
    <3>2. EntryInv'
      BY <2>1 DEF Inv, EntryInv, EntriesOf
    <3>3. QED
      BY <2>1, <3>1, <3>2 DEF ViewInv
  <2>4. Made' = Made /\ Owned' = Owned
    BY <2>1 DEF Made, Owned
  <2>5. OwnersInv'
    BY <2>1, <2>4 DEF Inv, OwnersInv
  <2>6. ArrayInv'
    BY <2>1, <2>4 DEF Inv, ArrayInv
  <2>7. QED
    BY <2>2, <2>3, <2>5, <2>6 DEF Inv
<1>7. QED
  BY <1>1, <1>2, <1>3, <1>4, <1>5, <1>6 DEF Next

\* However variables come in and spaces are cloned and go, a space holds what
\* its pairs lead to, no two spaces hold one variable, and no two of the
\* variables held or deleted have one array.
THEOREM SpaceIsInvariant == Spec => []Inv
<1>1. Init => Inv
  BY InitInv
<1>2. Inv /\ [Next]_vars => Inv'
  BY NextInv
<1>3. QED
  BY <1>1, <1>2, PTL DEF Spec

\* putVariable() by id and by pair, Insert and the clone keep an id and its
\* first output one variable, and every name leads to its bearer.
THEOREM ViewsStayAgreed == Spec => []ViewsAgree
<1>1. Inv => ViewsAgree
  <2> SUFFICES ASSUME Inv, NEW s \in DOMAIN spaces
               PROVE  LET sp == spaces[s] IN
                 /\ {<<id, 0>> : id \in DOMAIN sp.byId} =
                      {key \in DOMAIN sp.paired : key[2] = 0}
                 /\ \A id \in DOMAIN sp.byId :
                      sp.byId[id] = sp.paired[<<id, 0>>]
                 /\ \A x \in DOMAIN sp.symbolic :
                      /\ heap[sp.symbolic[x]].name = x
                      /\ sp.symbolic[x] \in Range(sp.paired)
    BY DEF ViewsAgree
  <2> DEFINE sp == spaces[s]
  <2>1. ViewsOf(sp) /\ Range(sp.paired) = Held(sp)
    BY DEF Inv, ViewInv, HandlesInv
  <2> HIDE DEF sp
  <2>2. QED
    BY <2>1 DEF ViewsOf, sp
<1>2. QED
  BY <1>1, SpaceIsInvariant, PTL

\* What an owned variable deletes, it alone leads to.
LEMMA DeletedArrays ==
  ASSUME Inv, NEW i \in DOMAIN freed, freed[i].array # 0
  PROVE  /\ freed[i].variable \in Owned /\ heap[freed[i].variable].removable
         /\ freed[i].array = heap[freed[i].variable].array
<1>1. freed[i].variable \in {freed[j].variable : j \in DOMAIN freed}
  OBVIOUS
<1>2. freed[i].variable \in Owned
  BY <1>1 DEF Owned
<1>3. QED
  BY <1>2 DEF Inv, ArrayInv

\* ~VariableSpace() runs ~Variable() once for a variable, and no array that
\* was deleted is deleted again.
THEOREM NothingIsDeletedTwice == Spec => []DeletedOnce
<1>1. Inv => DeletedOnce
  <2> SUFFICES ASSUME Inv, NEW i \in DOMAIN freed, NEW j \in DOMAIN freed, i # j
               PROVE  /\ freed[i].variable # freed[j].variable
                      /\ freed[i].array = freed[j].array => freed[i].array = 0
    BY DEF DeletedOnce
  <2>1. freed[i].variable # freed[j].variable
    BY DEF Inv, OwnersInv
  <2>2. ASSUME freed[i].array = freed[j].array, freed[i].array # 0 PROVE FALSE
    <3> DEFINE v == freed[i].variable
               w == freed[j].variable
    <3>1. v \in Owned /\ w \in Owned /\ heap[v].array = heap[w].array
          /\ heap[v].array # 0
      BY <2>2, DeletedArrays
    <3> HIDE DEF v, w
    <3>2. v = w
      BY <3>1 DEF Inv, ArrayInv
    <3>3. QED
      BY <2>1, <3>2 DEF v, w
  <2>3. QED
    BY <2>1, <2>2
<1>2. QED
  BY <1>1, SpaceIsInvariant, PTL

\* No space deletes an array marked markRemovable(false).
THEOREM ClientsKeepTheirArrays == Spec => []ClientArraysKept
<1>1. Inv => ClientArraysKept
  <2> SUFFICES ASSUME Inv, NEW o \in Made, ~heap[o].removable,
                      NEW i \in DOMAIN freed, freed[i].array = heap[o].array
               PROVE  FALSE
    BY DEF ClientArraysKept
  <2>1. heap[o].array = o /\ o \in Owned
    BY DEF Inv, ArrayInv
  <2>2. o # 0
    BY NewIs DEF Inv
  <2> DEFINE v == freed[i].variable
  <2>3. v \in Owned /\ heap[v].removable /\ heap[v].array = heap[o].array
    BY <2>1, <2>2, DeletedArrays
  <2> HIDE DEF v
  <2>4. v = o
    BY <2>1, <2>2, <2>3 DEF Inv, ArrayInv
  <2>5. QED
    BY <2>3, <2>4
<1>2. QED
  BY <1>1, SpaceIsInvariant, PTL

\* What a space that still stands leads to has not been deleted, whichever of
\* the original and its clone goes first.
THEOREM NothingEverDangles == Spec => []NothingDangles
<1>1. Inv => NothingDangles
  <2> SUFFICES ASSUME Inv, NEW s \in DOMAIN spaces,
                      NEW key \in DOMAIN spaces[s].paired,
                      NEW i \in DOMAIN freed
               PROVE  LET o == spaces[s].paired[key]
                      IN  /\ freed[i].variable # o
                          /\ freed[i].array = heap[o].array
                               => freed[i].array = 0
    BY DEF NothingDangles
  <2> DEFINE o == spaces[s].paired[key]
             v == freed[i].variable
  <2>1. o \in Held(spaces[s])
    BY PairedIsHeld DEF Inv
  <2>2. v # o
    BY <2>1 DEF Inv, OwnersInv
  <2>3. o \in Owned
    <3>1. o \in UNION {Held(spaces[z]) : z \in DOMAIN spaces}
      BY <2>1
    <3> HIDE DEF o
    <3>2. QED
      BY <3>1 DEF Owned
  <2> HIDE DEF o
  <2>4. ASSUME freed[i].array = heap[o].array, freed[i].array # 0 PROVE FALSE
    <3>1. v \in Owned /\ heap[v].array = heap[o].array /\ heap[v].array # 0
      BY <2>4, DeletedArrays
    <3> HIDE DEF v
    <3>2. v = o
      BY <2>3, <3>1 DEF Inv, ArrayInv
    <3>3. QED
      BY <2>2, <3>2
  <2>5. QED
    BY <2>2, <2>4 DEF o
<1>2. QED
  BY <1>1, SpaceIsInvariant, PTL

\* externalEntries() and internalEntries() count each id of the main space
\* once, and numberOfPlaceholders() each placeholder.
THEOREM EntriesStayCounted == Spec => []EntriesCountedOnce
<1>1. Inv => EntriesCountedOnce
  <2> SUFFICES ASSUME Inv, "main" \in DOMAIN spaces PROVE EntriesCountedOnce
    BY DEF EntriesCountedOnce
  <2> DEFINE sp == spaces["main"]
  <2>1. EntriesOf(sp) /\ Range(sp.paired) = Held(sp)
    BY DEF Inv, EntryInv, HandlesInv
  <2>2. ToSet(sp.placeholders) = Range(sp.placeholders)
    BY DEF ToSet, Range
  <2> HIDE DEF sp
  <2>3. QED
    BY <2>1, <2>2 DEF EntriesOf, EntriesCountedOnce, sp
<1>2. QED
  BY <1>1, SpaceIsInvariant, PTL

\* clone() finds the copies of what the original finds, by id, by pair and by
\* name.
THEOREM ClonesAreFaithful == Spec => CloneIsFaithful
<1> DEFINE Faithful ==
      ~cloned /\ cloned' =>
        \A view \in {"byId", "paired", "symbolic"} :
          /\ DOMAIN spaces'["copy"][view] = DOMAIN spaces["main"][view]
          /\ \A x \in DOMAIN spaces["main"][view] :
               heap'[spaces'["copy"][view][x]].copyOf
                 = spaces["main"][view][x]
<1>1. Inv /\ [Next]_vars => Faithful \/ UNCHANGED vars
  <2> SUFFICES ASSUME Inv, Next, ~cloned, cloned' PROVE Faithful
    BY DEF vars
  <2>1. Clone
    BY DEF Next, PutVariable, PutPair, SetArray, Destroy, Becomes
  <2> DEFINE sp == spaces["main"]
             c == spaces'["copy"]
  <2>2. IsCloneOf(sp, c)
    BY <2>1, CloneStep
  <2>3. ViewsOf(sp) /\ Range(sp.paired) = Held(sp)
    BY <2>1 DEF Clone, Inv, ViewInv, HandlesInv
  <2> HIDE DEF sp, c
  <2>4. /\ DOMAIN c.paired = DOMAIN sp.paired
        /\ \A k \in DOMAIN sp.paired :
             /\ heap'[c.paired[k]].copyOf = sp.paired[k]
             /\ heap'[c.paired[k]].name = heap[sp.paired[k]].name
    BY <2>2 DEF IsCloneOf
  <2>5. /\ DOMAIN c.byId = DOMAIN sp.byId
        /\ \A id \in DOMAIN sp.byId :
             heap'[c.byId[id]].copyOf = sp.byId[id]
    <3>1. DOMAIN c.byId = DOMAIN sp.byId
          /\ \A id \in DOMAIN c.byId : c.byId[id] = c.paired[<<id, 0>>]
      BY <2>2 DEF IsCloneOf
    <3>2. \A id \in DOMAIN sp.byId : <<id, 0>> \in DOMAIN sp.paired
                                     /\ sp.byId[id] = sp.paired[<<id, 0>>]
      BY <2>3 DEF ViewsOf
    <3>3. QED
      BY <2>4, <3>1, <3>2
  <2>6. \A x \in DOMAIN c.symbolic :
          x \in DOMAIN sp.symbolic
          /\ heap'[c.symbolic[x]].copyOf = sp.symbolic[x]
    <3> SUFFICES ASSUME NEW x \in DOMAIN c.symbolic
                 PROVE  x \in DOMAIN sp.symbolic
                        /\ heap'[c.symbolic[x]].copyOf = sp.symbolic[x]
      OBVIOUS
    <3>1. c.symbolic[x] \in Range(c.paired) /\ heap'[c.symbolic[x]].name = x
          /\ x # ""
      <4>1. Range(c.paired) = Held(c)
        BY <2>2 DEF IsCloneOf
      <4>2. \A y \in DOMAIN c.symbolic :
              c.symbolic[y] \in Held(c) /\ heap'[c.symbolic[y]].name = y
              /\ y # ""
        BY <2>2, Zenon DEF IsCloneOf
      <4>3. QED
        BY <4>1, <4>2, Zenon
    <3>2. PICK k \in DOMAIN sp.paired : c.symbolic[x] = c.paired[k]
      BY <2>4, <3>1 DEF Range
    <3>3. sp.paired[k] \in Held(sp) /\ heap[sp.paired[k]].name = x
      BY <2>3, <2>4, <3>1, <3>2 DEF Range
    <3>4. x \in DOMAIN sp.symbolic /\ sp.symbolic[x] = sp.paired[k]
      BY <2>3, <3>1, <3>3 DEF ViewsOf
    <3>5. QED
      BY <2>4, <3>2, <3>4
  <2>7. \A x \in DOMAIN sp.symbolic : x \in DOMAIN c.symbolic
    <3> SUFFICES ASSUME NEW x \in DOMAIN sp.symbolic
                 PROVE  x \in DOMAIN c.symbolic
      OBVIOUS
    <3>1. sp.symbolic[x] \in Range(sp.paired) /\ x # ""
          /\ heap[sp.symbolic[x]].name = x
      BY <2>3 DEF ViewsOf
    <3>2. PICK k \in DOMAIN sp.paired : sp.symbolic[x] = sp.paired[k]
      BY <3>1 DEF Range
    <3>3. c.paired[k] \in Held(c) /\ heap'[c.paired[k]].name = x
      <4>1. Range(c.paired) = Held(c)
        BY <2>2 DEF IsCloneOf
      <4>2. c.paired[k] \in Range(c.paired)
        BY <2>4 DEF Range
      <4>3. QED
        BY <2>4, <3>1, <3>2, <4>1, <4>2
    <3>4. \A o \in Held(c) :
            heap'[o].name # "" => heap'[o].name \in DOMAIN c.symbolic
      BY <2>2, Zenon DEF IsCloneOf
    <3>5. QED
      BY <3>1, <3>3, <3>4
  <2>8. /\ DOMAIN c.symbolic = DOMAIN sp.symbolic
        /\ \A x \in DOMAIN sp.symbolic :
             heap'[c.symbolic[x]].copyOf = sp.symbolic[x]
    BY <2>6, <2>7
  <2>9. QED
    BY <2>4, <2>5, <2>8 DEF sp, c
<1>2. Inv /\ [Next]_vars => [Faithful]_vars
  BY <1>1
<1>3. QED
  BY <1>2, SpaceIsInvariant, PTL DEF Spec, CloneIsFaithful

=============================================================================
