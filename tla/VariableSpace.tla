---------------------------- MODULE VariableSpace ----------------------------
(***************************************************************************)
(* VariableSpace and Variable of include/graph: one variable may be found  *)
(* by node id, by (id, output index) pair and by name; the space owns its  *)
(* variables through _handles, and each variable owns its array.           *)
(*                                                                         *)
(* Variables are numbered as they are made; an array has the number of the *)
(* variable it was first given to, 0 is the null pointer.  _variables and  *)
(* _temporary, which split the ids by sign, are one function byId.         *)
(* Clients are the callers in src/: addNode(), prepareOutputs() and the    *)
(* two execute() of DeclarableOp, the executor and the loader of a graph.  *)
(***************************************************************************)
EXTENDS Integers, Sequences, FiniteSets, SequencesExt

CONSTANTS
  NodeIds,    \* ids variables are put under
  MaxIndex,   \* largest output index of a pair
  Names,      \* names of variables; "" is no name
  MaxMade     \* bound on the variables made

ASSUME SpaceAssumption ==
  /\ NodeIds \subseteq Int /\ MaxIndex \in Nat /\ MaxMade \in Nat
  /\ "" \notin Names

VARIABLES
  spaces,   \* the spaces that exist, by "main" and "copy"
  heap,     \* every variable made
  freed,    \* the calls of ~Variable(), with the array each one deletes
  cloned    \* was the main space cloned?

vars == <<spaces, heap, freed, cloned>>

Keys == NodeIds \X (0 .. MaxIndex)
Made == DOMAIN heap
Empty == [x \in {} |-> 0]

EmptySpace ==
  [byId |-> Empty, paired |-> Empty, symbolic |-> Empty, handles |-> <<>>,
   external |-> <<>>, internal |-> <<>>, placeholders |-> <<>>]

Init ==
  /\ spaces = [s \in {"main"} |-> EmptySpace]
  /\ heap = <<>>
  /\ freed = <<>>
  /\ cloned = FALSE

\* f with f[x] = y, a map's operator[].
With(f, x, y) == [z \in DOMAIN f \cup {x} |-> IF z = x THEN y ELSE f[z]]

\* _symbolic[name] = variable, unless it has no name.
Named(symbolic, o, h) ==
  IF h[o].name = "" THEN symbolic ELSE With(symbolic, h[o].name, o)

\* A placeholder is remembered, another variable is not.
Remembered(placeholders, o, h) ==
  IF h[o].placeholder THEN Append(placeholders, o) ELSE placeholders

-----------------------------------------------------------------------------
(* putVariable(id, v): space sp and heap h after it, as a pair.            *)

\* Fault: the variable that is dropped is handed to the space all the same.
Update_KeepsBoth(sp, h, id, o) ==
  LET known == sp.byId[id]
  IN  <<[sp EXCEPT !.handles = Append(@, o)],
        IF h[known].array = 0
          THEN [h EXCEPT ![known].array = h[o].array] ELSE h>>

\* The id is known: its variable takes the array of o if it has none, and o
\* itself is dropped.
Update(sp, h, id, o) ==
  LET known == sp.byId[id]
  IN  <<sp, IF h[known].array = 0
              THEN [h EXCEPT ![known].array = h[o].array] ELSE h>>

\* Fault: the (id, 0) view is not asked for and is put, and remembered, anew.
Insert_Again(sp, h, id, o) ==
  LET by == [sp EXCEPT
        !.handles = Append(@, o),
        !.symbolic = Named(@, o, h),
        !.external = IF id < 0 THEN Append(@, o) ELSE @,
        !.internal = IF id < 0 THEN @ ELSE Append(@, o),
        !.byId = With(@, id, o)]
  IN  <<[by EXCEPT !.paired = With(@, <<id, 0>>, o),
                   !.placeholders = Remembered(@, o, h)], h>>

\* Fault: the variable is entered by id only.
Insert_IdOnly(sp, h, id, o) ==
  <<[sp EXCEPT
       !.handles = Append(@, o),
       !.symbolic = Named(@, o, h),
       !.external = IF id < 0 THEN Append(@, o) ELSE @,
       !.internal = IF id < 0 THEN @ ELSE Append(@, o),
       !.byId = With(@, id, o)], h>>

\* The id is new: o is entered under it, and under (id, 0) unless that is there.
Insert(sp, h, id, o) ==
  LET first == <<id, 0>> \notin DOMAIN sp.paired
  IN  <<[byId |-> With(sp.byId, id, o),
         paired |-> IF first THEN With(sp.paired, <<id, 0>>, o) ELSE sp.paired,
         symbolic |-> Named(sp.symbolic, o, h),
         handles |-> Append(sp.handles, o),
         external |-> IF id < 0 THEN Append(sp.external, o) ELSE sp.external,
         internal |-> IF id < 0 THEN sp.internal ELSE Append(sp.internal, o),
         placeholders |-> IF first THEN Remembered(sp.placeholders, o, h)
                                   ELSE sp.placeholders], h>>

PutById(sp, h, id, o) ==
  IF id \in DOMAIN sp.byId THEN Update(sp, h, id, o) ELSE Insert(sp, h, id, o)

\* putVariable(pair, v): the pair's view is replaced; the id's view is filled
\* when it is the first output of an unknown id.
PutByPair(sp, h, key, o) ==
  LET seen == [sp EXCEPT !.paired = With(@, key, o)]
      put == [seen EXCEPT !.placeholders = Remembered(@, o, h)]
      kept == [put EXCEPT !.handles = Append(@, o)]
  IN  IF key[2] = 0 /\ key[1] \notin DOMAIN sp.byId
        THEN PutById(put, h, key[1], o)
        ELSE <<[kept EXCEPT !.symbolic = Named(@, o, h)], h>>

\* getVariable(pair): by pair, or by id for the first output; 0 when unknown.
GetByPair(sp, key) ==
  IF key \in DOMAIN sp.paired THEN sp.paired[key]
  ELSE IF key[2] = 0 /\ key[1] \in DOMAIN sp.byId THEN sp.byId[key[1]]
  ELSE 0

-----------------------------------------------------------------------------

\* A new variable: a placeholder, or one with or without array, whose array
\* may stay its client's (markRemovable(false)); with a name nobody bears, or
\* none.
NewVariables ==
  {v \in [array : {0, Len(heap) + 1}, placeholder : BOOLEAN, copyOf : {0},
          removable : BOOLEAN,
          name : {""} \cup {x \in Names : \A o \in Made : heap[o].name # x}] :
     /\ v.array = 0 => v.removable
     /\ v.placeholder => v.array = 0}

\* Space s and the heap become what put is.
Becomes(s, put) ==
  /\ spaces' = [spaces EXCEPT ![s] = put[1]]
  /\ heap' = put[2]
  /\ UNCHANGED <<freed, cloned>>

\* A client that keeps its array puts it under an id of its own.
PutVariable(s, id) ==
  /\ Len(heap) < MaxMade
  /\ \E v \in NewVariables :
       /\ id \in DOMAIN spaces[s].byId => v.removable
       /\ Becomes(s, PutById(spaces[s], Append(heap, v), id, Len(heap) + 1))

\* Every caller puts a pair it does not find: prepareOutputs() asks first, the
\* others count the pairs of a new node.
PutPair(s, key) ==
  /\ Len(heap) < MaxMade
  /\ GetByPair(spaces[s], key) = 0
  /\ \E v \in NewVariables :
       Becomes(s, PutByPair(spaces[s], Append(heap, v), key, Len(heap) + 1))

\* prepareOutputs(), setNDArray(): a known variable without array gets one.
SetArray(s, key) ==
  LET o == GetByPair(spaces[s], key)
  IN  /\ o # 0
      /\ heap[o].array = 0
      /\ heap' = [heap EXCEPT ![o].array = o]
      /\ UNCHANGED <<spaces, freed, cloned>>

\* Fault: the variables of outputs after the first are not cloned.
CloneOf_FirstOutputs(sp) ==
  LET ks == SetToSeq({k \in DOMAIN sp.paired : k[2] = 0})
      new == [i \in DOMAIN ks |->
                [heap[sp.paired[ks[i]]] EXCEPT !.copyOf = sp.paired[ks[i]],
                   !.removable = TRUE,
                   !.array = IF @ = 0 THEN 0 ELSE Len(heap) + i]]
      num(k) == Len(heap) + (CHOOSE i \in DOMAIN ks : ks[i] = k)
  IN  <<[EmptySpace EXCEPT
           !.paired = [k \in ToSet(ks) |-> num(k)],
           !.byId = [i \in {k[1] : k \in ToSet(ks)} |-> num(<<i, 0>>)],
           !.symbolic = [x \in {new[i].name : i \in DOMAIN ks} \ {""} |->
                 Len(heap) + (CHOOSE i \in DOMAIN ks : new[i].name = x)],
           !.handles = [i \in DOMAIN ks |-> Len(heap) + i]], new>>

\* Fault: Variable::clone() takes the array instead of a dup() of it.
CloneOf_Shallow(sp) ==
  LET ks == SetToSeq(DOMAIN sp.paired)
      new == [i \in DOMAIN ks |->
                [heap[sp.paired[ks[i]]] EXCEPT !.copyOf = sp.paired[ks[i]],
                   !.removable = TRUE]]
      num(k) == Len(heap) + (CHOOSE i \in DOMAIN ks : ks[i] = k)
  IN  <<[EmptySpace EXCEPT
           !.paired = [k \in ToSet(ks) |-> num(k)],
           !.byId = [i \in {k[1] : k \in {q \in ToSet(ks) : q[2] = 0}} |->
                       num(<<i, 0>>)],
           !.symbolic = [x \in {new[i].name : i \in DOMAIN ks} \ {""} |->
                 Len(heap) + (CHOOSE i \in DOMAIN ks : new[i].name = x)],
           !.handles = [i \in DOMAIN ks |-> Len(heap) + i]], new>>

\* Variable::clone() of variable o as variable n, with a dup() of its array.
CopyOf(o, n) ==
  [array |-> IF heap[o].array = 0 THEN 0 ELSE n,
   placeholder |-> heap[o].placeholder, copyOf |-> o, removable |-> TRUE,
   name |-> heap[o].name]

\* clone(): a copy of the variable of each pair of sp; ids and names are found
\* again from the pairs, the other lists stay empty.
CloneOf(sp) ==
  LET ks == SetToSeq(DOMAIN sp.paired)
      new == [i \in DOMAIN ks |-> CopyOf(sp.paired[ks[i]], Len(heap) + i)]
      num(k) == Len(heap) + (CHOOSE i \in DOMAIN ks : ks[i] = k)
  IN  <<[byId |-> [i \in {k[1] : k \in {q \in DOMAIN sp.paired : q[2] = 0}} |->
                     num(<<i, 0>>)],
         paired |-> [k \in DOMAIN sp.paired |-> num(k)],
         symbolic |-> [x \in {new[i].name : i \in DOMAIN ks} \ {""} |->
               Len(heap) + (CHOOSE i \in DOMAIN ks : new[i].name = x)],
         handles |-> [i \in DOMAIN ks |-> Len(heap) + i],
         external |-> <<>>, internal |-> <<>>, placeholders |-> <<>>], new>>

Clone ==
  /\ ~cloned
  /\ "main" \in DOMAIN spaces
  /\ spaces' = With(spaces, "copy", CloneOf(spaces["main"])[1])
  /\ heap' = heap \o CloneOf(spaces["main"])[2]
  /\ cloned' = TRUE
  /\ UNCHANGED freed

\* Fault: ~Variable() deletes its array whoever it belongs to.
ArrayOf_Any(o) == heap[o].array

\* The array that ~Variable() deletes: one marked removable, if it has one.
ArrayOf(o) == IF heap[o].removable THEN heap[o].array ELSE 0

\* ~VariableSpace(): every handle is deleted, and its array with it.
Destroy(s) ==
  /\ freed' = freed \o
       [i \in DOMAIN spaces[s].handles |->
          [variable |-> spaces[s].handles[i],
           array |-> ArrayOf(spaces[s].handles[i])]]
  /\ spaces' = [z \in DOMAIN spaces \ {s} |-> spaces[z]]
  /\ UNCHANGED <<heap, cloned>>

Next ==
  \/ \E s \in DOMAIN spaces :
       \/ \E id \in NodeIds : PutVariable(s, id)
       \/ \E key \in Keys : PutPair(s, key) \/ SetArray(s, key)
       \/ Destroy(s)
  \/ Clone

Spec == Init /\ [][Next]_vars

-----------------------------------------------------------------------------
(* Properties.                                                             *)

\* An id and its first output are one variable, whichever was put first, and
\* a name leads to a variable some pair leads to, in the space and its clones:
\* what EqualityTest1 of VariableSpaceTests.cpp asserts of one call.
ViewsAgree ==
  \A s \in DOMAIN spaces : LET sp == spaces[s] IN
    /\ {<<id, 0>> : id \in DOMAIN sp.byId} =
         {key \in DOMAIN sp.paired : key[2] = 0}
    /\ \A id \in DOMAIN sp.byId : sp.byId[id] = sp.paired[<<id, 0>>]
    /\ \A x \in DOMAIN sp.symbolic : /\ heap[sp.symbolic[x]].name = x
                                     /\ sp.symbolic[x] \in Range(sp.paired)

\* However a space was filled and cloned, and in whatever order spaces go,
\* no variable and no array is deleted twice.
DeletedOnce ==
  \A i, j \in DOMAIN freed : i # j =>
    /\ freed[i].variable # freed[j].variable
    /\ freed[i].array = freed[j].array => freed[i].array = 0

\* An array a client has kept with markRemovable(false) survives every space.
ClientArraysKept ==
  \A o \in Made : ~heap[o].removable =>
    \A i \in DOMAIN freed : freed[i].array # heap[o].array

\* Nothing a space still leads to has been deleted, by it or by its clone.
NothingDangles ==
  \A s \in DOMAIN spaces : \A key \in DOMAIN spaces[s].paired :
    LET o == spaces[s].paired[key]
    IN  \A i \in DOMAIN freed :
          /\ freed[i].variable # o
          /\ freed[i].array = heap[o].array => freed[i].array = 0

\* By whichever way variables come in, externalEntries() and internalEntries()
\* count each id once, by its sign, and numberOfPlaceholders(), which an
\* embedded graph is fed by, each placeholder once.
EntriesCountedOnce ==
  "main" \in DOMAIN spaces =>
    LET sp == spaces["main"]
        Ids(neg) == {id \in DOMAIN sp.byId : (id < 0) = neg}
    IN  /\ Len(sp.external) = Cardinality(Ids(TRUE))
        /\ Len(sp.internal) = Cardinality(Ids(FALSE))
        /\ IsInjective(sp.placeholders)
        /\ ToSet(sp.placeholders) =
             {o \in Range(sp.paired) : heap[o].placeholder}

\* A clone finds, by id, by pair and by name, the copies of what the original
\* finds.
CloneIsFaithful ==
  [][~cloned /\ cloned' =>
       \A view \in {"byId", "paired", "symbolic"} :
         /\ DOMAIN spaces'["copy"][view] = DOMAIN spaces["main"][view]
         /\ \A x \in DOMAIN spaces["main"][view] :
              heap'[spaces'["copy"][view][x]].copyOf =
                spaces["main"][view][x]]_vars

=============================================================================
