--------------------------- MODULE WorkspaceProofs ---------------------------
(***************************************************************************)
(* Proofs about Workspace for every set of threads, every request size and *)
(* every bound, whether or not the scope owner's calls race with the       *)
(* allocations.                                                            *)
(***************************************************************************)
EXTENDS Workspace, FiniteSetTheorems, TLAPS

USE DEF ThreadStates, OwnerStates, Goto

\* malloc() of a heap that is not exhausted returns a block that is not live.
LEMMA FreshBlock ==
  heap # Blocks /\ heap \subseteq Blocks => Fresh \in Blocks \ heap
  BY DEF Fresh

\* The type invariant: no handler of Workspace.cpp drives a counter or a size
\* below zero, or frees or stores anything that is not a block.
THEOREM TypeCorrect == Spec => []TypeOK
<1>1. Init => TypeOK
  BY WorkspaceAssumption DEF Init, TypeOK
<1>2. TypeOK /\ [Next]_vars => TypeOK'
  <2> SUFFICES ASSUME TypeOK, [Next]_vars PROVE TypeOK'
    OBVIOUS
  <2> USE WorkspaceAssumption DEF TypeOK, arenaVars, countVars, threadVars,
        ownerVars
  <2>1. ASSUME NEW t \in Threads, NEW n \in Sizes, Begin(t, n) PROVE TypeOK'
    BY <2>1 DEF Begin
  <2>2. ASSUME NEW t \in Threads, Lock(t) PROVE TypeOK'
    BY <2>2 DEF Lock
  <2>3. ASSUME NEW t \in Threads, CheckFails(t) PROVE TypeOK'
    BY <2>3 DEF CheckFails
  <2>4. ASSUME NEW t \in Threads, CheckFits(t) PROVE TypeOK'
    BY <2>4 DEF CheckFits
  <2>5. ASSUME NEW t \in Threads, Advance(t) PROVE TypeOK'
    BY <2>5 DEF Advance
  <2>6. ASSUME NEW t \in Threads, Point(t) PROVE TypeOK'
    BY <2>6 DEF Point
  <2>7. ASSUME NEW t \in Threads, SpillMalloc(t) PROVE TypeOK'
    BY <2>7, FreshBlock DEF SpillMalloc
  <2>8. ASSUME NEW t \in Threads, SpillPush(t) PROVE TypeOK'
    BY <2>8 DEF SpillPush
  <2>9. ASSUME NEW t \in Threads, SpillCount(t) PROVE TypeOK'
    BY <2>9 DEF SpillCount
  <2>10. CASE OwnerStep
    <3>1. CASE FreeSpills
      BY <3>1 DEF FreeSpills
    <3>2. CASE ClearSpills
      BY <3>2 DEF ClearSpills
    <3>3. CASE LoadCycle
      BY <3>3 DEF LoadCycle
    <3>4. CASE InitReplaces
      BY <3>4 DEF InitReplaces
    <3>5. CASE InitKeeps
      BY <3>5 DEF InitKeeps
    <3>6. CASE InitResizes
      BY <3>6 DEF InitResizes
    <3>7. CASE ResetCycle
      BY <3>7 DEF ResetCycle
    <3>8. QED
      BY <2>10, <3>1, <3>2, <3>3, <3>4, <3>5, <3>6, <3>7 DEF OwnerStep
  <2>11. CASE ScopeIn
    BY <2>11 DEF ScopeIn
  <2>12. CASE ScopeOut
    <3>1. <<>> \in Seq([start : Nat, bytes : Nat])
      OBVIOUS
    <3>2. QED
      BY <2>12, <3>1, Zenon DEF ScopeOut
  <2>13. CASE Destroy
    BY <2>13 DEF Destroy
  <2>14. CASE UNCHANGED vars
    BY <2>14 DEF vars
  <2>15. QED
    BY <2>1, <2>2, <2>3, <2>4, <2>5, <2>6, <2>7, <2>8, <2>9, <2>10, <2>11,
       <2>12, <2>13, <2>14 DEF Next, Allocate
<1>3. QED
  BY <1>1, <1>2, PTL DEF Spec

-----------------------------------------------------------------------------
(* Sums.                                                                   *)

Bytes(size, S) == UNION {{x} \X (1 .. size[x]) : x \in S}

LEMMA TotalOfNothing == \A size : Total(size, {}) = 0
<1>1. \A size : Bytes(size, {}) = {}
  BY DEF Bytes
<1>2. QED
  BY <1>1, FS_EmptySet DEF Total, Bytes

LEMMA TotalIsFinite ==
  ASSUME NEW S, IsFiniteSet(S), NEW size, \A x \in S : size[x] \in Nat
  PROVE  IsFiniteSet(Bytes(size, S)) /\ Total(size, S) \in Nat
<1> DEFINE Of == [x \in S |-> {x} \X (1 .. size[x])]
           parts == {{x} \X (1 .. size[x]) : x \in S}
<1>1. IsFiniteSet(parts)
  <2>1. Of \in Surjection(S, parts)
    BY DEF Surjection
  <2>2. QED
    BY <2>1, FS_Surjection
<1>2. ASSUME NEW x \in S PROVE IsFiniteSet({x} \X (1 .. size[x]))
  <2>1. IsFiniteSet(1 .. size[x])
    BY FS_Interval
  <2>2. QED
    BY <2>1, FS_Singleton, FS_Product
<1>3. IsFiniteSet(UNION parts)
  BY <1>1, <1>2, FS_UNION
<1>4. QED
  BY <1>3, FS_CardinalityType DEF Total, Bytes

\* One more member adds what it counts.
LEMMA TotalAdd ==
  ASSUME NEW S, IsFiniteSet(S), NEW x, x \notin S, NEW size, NEW new,
         \A y \in S : size[y] \in Nat /\ new[y] = size[y], new[x] \in Nat
  PROVE  Total(new, S \cup {x}) = Total(size, S) + new[x]
<1> DEFINE more == {x} \X (1 .. new[x])
<1>1. Bytes(new, S \cup {x}) = Bytes(size, S) \cup more
  BY DEF Bytes
<1>2. Bytes(size, S) \cap more = {}
  BY DEF Bytes
<1>3. IsFiniteSet(more) /\ Cardinality(more) = new[x]
  <2>1. IsFiniteSet(1 .. new[x]) /\ Cardinality(1 .. new[x]) = new[x]
    BY FS_Interval
  <2>2. IsFiniteSet({x}) /\ Cardinality({x}) = 1
    BY FS_Singleton
  <2>3. IsFiniteSet(more) /\ Cardinality(more) = 1 * new[x]
    <3> DEFINE one == {x}
               upTo == 1 .. new[x]
    <3>1. more = one \X upTo
      OBVIOUS
    <3>2. IsFiniteSet(one) /\ IsFiniteSet(upTo)
          /\ Cardinality(one) = 1 /\ Cardinality(upTo) = new[x]
      BY <2>1, <2>2
    <3> HIDE DEF one, upTo, more
    <3>3. QED
      BY <3>1, <3>2, FS_Product
  <2>4. 1 * new[x] = new[x]
    OBVIOUS
  <2>5. QED
    BY <2>3, <2>4
<1>4. IsFiniteSet(Bytes(size, S)) /\ Total(size, S) \in Nat
  BY TotalIsFinite
<1>5. Cardinality(Bytes(size, S) \cup more)
        = Cardinality(Bytes(size, S)) + Cardinality(more)
          - Cardinality(Bytes(size, S) \cap more)
  <2> HIDE DEF more
  <2> QED
    BY <1>3, <1>4, FS_Union
<1>6. /\ Total(size, S) = Cardinality(Bytes(size, S))
      /\ Total(new, S \cup {x}) = Cardinality(Bytes(new, S \cup {x}))
  BY DEF Total, Bytes
<1>7. QED
  <2> HIDE DEF more
  <2>1. Cardinality(Bytes(size, S) \cap more) = 0
    BY <1>2, FS_EmptySet
  <2>2. Total(new, S \cup {x}) = Total(size, S) + new[x] - 0
    BY <2>1, <1>1, <1>3, <1>5, <1>6
  <2>3. QED
    BY <2>2, <1>4

\* One spill more.
LEMMA SpillMore ==
  ASSUME NEW S, IsFiniteSet(S), NEW x, x \notin S,
         \A s \in S : s.bytes \in Nat, x.bytes \in Nat
  PROVE  Total([s \in S \cup {x} |-> s.bytes], S \cup {x})
           = Total([s \in S |-> s.bytes], S) + x.bytes
<1> DEFINE was == [s \in S |-> s.bytes]
           now == [s \in S \cup {x} |-> s.bytes]
<1>1. /\ \A s \in S : was[s] \in Nat /\ now[s] = was[s]
      /\ now[x] = x.bytes /\ now[x] \in Nat
  OBVIOUS
<1> HIDE DEF was, now
<1>2. Total(now, S \cup {x}) = Total(was, S) + now[x]
  BY <1>1, TotalAdd
<1>3. QED
  BY <1>1, <1>2 DEF was, now

\* Only the members count.
LEMMA TotalSame ==
  ASSUME NEW S, NEW size, NEW new, \A y \in S : new[y] = size[y]
  PROVE  Total(new, S) = Total(size, S)
<1>1. Bytes(new, S) = Bytes(size, S)
  BY DEF Bytes
<1>2. QED
  BY <1>1 DEF Total, Bytes

\* A sum is no less than each of its parts.
LEMMA TotalBounds ==
  ASSUME NEW S, IsFiniteSet(S), NEW x \in S, NEW size,
         \A y \in S : size[y] \in Nat
  PROVE  size[x] <= Total(size, S)
<1> DEFINE rest == S \ {x}
<1>1. IsFiniteSet(rest) /\ x \notin rest /\ S = rest \cup {x}
  BY FS_RemoveElement
<1>2. Total(size, rest) \in Nat
  BY <1>1, TotalIsFinite
<1>3. Total(size, rest \cup {x}) = Total(size, rest) + size[x]
  <2> HIDE DEF rest
  <2> QED
    BY <1>1, TotalAdd
<1>4. Total(size, S) = Total(size, rest) + size[x] /\ size[x] \in Nat
  BY <1>1, <1>3
<1>5. QED
  <2> HIDE DEF rest
  <2> QED
    BY <1>2, <1>4

-----------------------------------------------------------------------------
\* The strengthening of OffsetInBuffer that allocateBytes() and scopeIn()
\* preserve: only the mutex holder is between Lock and Point, a thread about
\* to advance the offset has room for it, and while init() has replaced the
\* buffer but not yet _currentSize, the new buffer is the larger one.
HoldsMutex ==
  \A t \in Threads : pc[t] \in {"check", "advance", "point"} => mutex = t

RoomToAdvance ==
  \A t \in Threads : pc[t] = "advance" => offset + req[t] <= currentSize

GrowsOnly ==
  /\ owner = "resize" => (currentSize < bytes /\ bufBytes = bytes)
  /\ owner # "resize" => currentSize <= bufBytes

IInv == TypeOK /\ HoldsMutex /\ RoomToAdvance /\ GrowsOnly /\ OffsetInBuffer

LEMMA ArenaIsInvariant == Spec => []IInv
<1>1. Init => IInv
  <2>1. Init => TypeOK
    BY WorkspaceAssumption DEF Init, TypeOK
  <2>2. Init => HoldsMutex /\ RoomToAdvance /\ GrowsOnly /\ OffsetInBuffer
    BY WorkspaceAssumption DEF Init, HoldsMutex, RoomToAdvance, GrowsOnly,
       OffsetInBuffer
  <2>3. QED
    BY <2>1, <2>2 DEF IInv
<1>2. IInv /\ TypeOK' /\ [Next]_vars => IInv'
  <2> SUFFICES ASSUME IInv, TypeOK', [Next]_vars
               PROVE  (HoldsMutex /\ RoomToAdvance /\ GrowsOnly
                         /\ OffsetInBuffer)'
    BY DEF IInv
  <2> DEFINE Rest == HoldsMutex /\ RoomToAdvance /\ GrowsOnly /\ OffsetInBuffer
  <2> USE WorkspaceAssumption DEF IInv, TypeOK, HoldsMutex, RoomToAdvance,
        GrowsOnly, OffsetInBuffer, arenaVars, countVars, threadVars, ownerVars
  <2>1. ASSUME NEW t \in Threads, NEW n \in Sizes, Begin(t, n) PROVE Rest'
    BY <2>1 DEF Begin
  <2>2. ASSUME NEW t \in Threads, Lock(t) PROVE Rest'
    BY <2>2 DEF Lock
  <2>3. ASSUME NEW t \in Threads, CheckFails(t) PROVE Rest'
    BY <2>3 DEF CheckFails
  <2>4. ASSUME NEW t \in Threads, CheckFits(t) PROVE Rest'
    BY <2>4 DEF CheckFits
  <2>5. ASSUME NEW t \in Threads, Advance(t) PROVE Rest'
    BY <2>5 DEF Advance
  <2>6. ASSUME NEW t \in Threads, Point(t) PROVE Rest'
    BY <2>6 DEF Point
  <2>7. ASSUME NEW t \in Threads, SpillMalloc(t) PROVE Rest'
    BY <2>7 DEF SpillMalloc
  <2>8. ASSUME NEW t \in Threads, SpillPush(t) PROVE Rest'
    BY <2>8 DEF SpillPush
  <2>9. ASSUME NEW t \in Threads, SpillCount(t) PROVE Rest'
    BY <2>9 DEF SpillCount
  <2>10. CASE OwnerStep
    <3>1. CASE FreeSpills
      BY <3>1 DEF FreeSpills
    <3>2. CASE ClearSpills
      BY <3>2 DEF ClearSpills
    <3>3. CASE LoadCycle
      BY <3>3 DEF LoadCycle
    <3>4. CASE InitReplaces
      BY <3>4 DEF InitReplaces
    <3>5. CASE InitKeeps
      BY <3>5 DEF InitKeeps
    <3>6. CASE InitResizes
      BY <3>6 DEF InitResizes
    <3>7. CASE ResetCycle
      BY <3>7 DEF ResetCycle
    <3>8. QED
      BY <2>10, <3>1, <3>2, <3>3, <3>4, <3>5, <3>6, <3>7 DEF OwnerStep
  <2>11. CASE ScopeIn
    BY <2>11 DEF ScopeIn
  <2>12. CASE ScopeOut
    BY <2>12 DEF ScopeOut
  <2>13. CASE Destroy
    BY <2>13 DEF Destroy, Quiet
  <2>14. CASE UNCHANGED vars
    BY <2>14 DEF vars
  <2>15. QED
    BY <2>1, <2>2, <2>3, <2>4, <2>5, <2>6, <2>7, <2>8, <2>9, <2>10, <2>11,
       <2>12, <2>13, <2>14 DEF Next, Allocate
<1>3. QED
  BY <1>1, <1>2, TypeCorrect, PTL DEF Spec

\* However the scope owner's unlocked scopeIn() and scopeOut() interleave with
\* allocateBytes(), _offset never passes _currentSize, and _currentSize never
\* promises more than the block init() or the constructor malloc'ed.
THEOREM OffsetStaysInBuffer == Spec => []OffsetInBuffer
<1>1. IInv => OffsetInBuffer
  BY DEF IInv
<1>2. QED
  BY <1>1, ArenaIsInvariant, PTL

-----------------------------------------------------------------------------
(* What a disciplined owner may rely on.                                   *)

\* It begins and ends a scope while nobody allocates, and nobody allocates
\* outside of one, where the buffer is empty.
Discipline == disciplined =>
  /\ owner # "idle" \/ ~inScope => Quiet
  /\ owner \notin {"idle", "destroyed"} => ~inScope
  /\ ~inScope => offset = 0 /\ granted = <<>>

LEMMA DisciplineIsKept == Spec => []Discipline
<1>1. Init => Discipline
  BY DEF Init, Discipline, Quiet
<1>2. TypeOK /\ Discipline /\ [Next]_vars => Discipline'
  <2> SUFFICES ASSUME TypeOK, Discipline, [Next]_vars PROVE Discipline'
    OBVIOUS
  <2> USE DEF TypeOK, Discipline, Quiet, arenaVars, countVars, threadVars,
        ownerVars
  <2>1. ASSUME NEW t \in Threads, NEW n \in Sizes, Begin(t, n) PROVE Discipline'
    BY <2>1 DEF Begin
  <2>2. ASSUME NEW t \in Threads, Lock(t) PROVE Discipline'
    BY <2>2 DEF Lock
  <2>3. ASSUME NEW t \in Threads, CheckFails(t) PROVE Discipline'
    BY <2>3 DEF CheckFails
  <2>4. ASSUME NEW t \in Threads, CheckFits(t) PROVE Discipline'
    BY <2>4 DEF CheckFits
  <2>5. ASSUME NEW t \in Threads, Advance(t) PROVE Discipline'
    BY <2>5 DEF Advance
  <2>6. ASSUME NEW t \in Threads, Point(t) PROVE Discipline'
    BY <2>6 DEF Point
  <2>7. ASSUME NEW t \in Threads, SpillMalloc(t) PROVE Discipline'
    BY <2>7 DEF SpillMalloc
  <2>8. ASSUME NEW t \in Threads, SpillPush(t) PROVE Discipline'
    BY <2>8 DEF SpillPush
  <2>9. ASSUME NEW t \in Threads, SpillCount(t) PROVE Discipline'
    BY <2>9 DEF SpillCount
  <2>10. CASE OwnerStep
    <3>1. CASE FreeSpills
      BY <3>1 DEF FreeSpills
    <3>2. CASE ClearSpills
      BY <3>2 DEF ClearSpills
    <3>3. CASE LoadCycle
      BY <3>3 DEF LoadCycle
    <3>4. CASE InitReplaces
      BY <3>4 DEF InitReplaces
    <3>5. CASE InitKeeps
      BY <3>5 DEF InitKeeps
    <3>6. CASE InitResizes
      BY <3>6 DEF InitResizes
    <3>7. CASE ResetCycle
      BY <3>7 DEF ResetCycle
    <3>8. QED
      BY <2>10, <3>1, <3>2, <3>3, <3>4, <3>5, <3>6, <3>7 DEF OwnerStep
  <2>11. CASE ScopeIn
    BY <2>11 DEF ScopeIn
  <2>12. CASE ScopeOut
    BY <2>12 DEF ScopeOut
  <2>13. CASE Destroy
    BY <2>13 DEF Destroy
  <2>14. CASE UNCHANGED vars
    BY <2>14 DEF vars
  <2>15. QED
    BY <2>1, <2>2, <2>3, <2>4, <2>5, <2>6, <2>7, <2>8, <2>9, <2>10, <2>11,
       <2>12, <2>13, <2>14 DEF Next, Allocate
<1>3. QED
  BY <1>1, <1>2, TypeCorrect, PTL DEF Spec

-----------------------------------------------------------------------------
(* Reservations.                                                           *)

\* The ranges of a cycle follow each other below the offset; while a thread
\* has advanced it and not taken its pointer, they end before its own range.
InOrder ==
  \A i, j \in DOMAIN granted :
    i < j => granted[i].start <= granted[j].start - granted[j].bytes

BelowOffset ==
  \A i \in DOMAIN granted :
    0 <= granted[i].start - granted[i].bytes /\ granted[i].start <= offset

OwnRange ==
  \A t \in Threads : pc[t] = "point" =>
    /\ req[t] <= offset
    /\ \A i \in DOMAIN granted : granted[i].start <= offset - req[t]

ReserveInv == disciplined => InOrder /\ BelowOffset /\ OwnRange

LEMMA SeqMembers ==
  ASSUME NEW R, NEW s \in Seq(R), NEW i \in DOMAIN s
  PROVE  s[i] \in R /\ i \in Nat /\ i < Len(s) + 1
  OBVIOUS

LEMMA SeqAppend ==
  ASSUME NEW R, NEW s \in Seq(R), NEW e \in R
  PROVE  /\ DOMAIN Append(s, e) = DOMAIN s \cup {Len(s) + 1}
         /\ Append(s, e)[Len(s) + 1] = e
         /\ \A i \in DOMAIN s : Append(s, e)[i] = s[i]
  OBVIOUS

LEMMA Positions ==
  TypeOK => \A i \in DOMAIN granted :
              granted[i].start \in Nat /\ granted[i].bytes \in Nat
<1> SUFFICES ASSUME granted \in Seq([start : Nat, bytes : Nat]),
                    NEW i \in DOMAIN granted
             PROVE  granted[i].start \in Nat /\ granted[i].bytes \in Nat
  BY DEF TypeOK
<1>1. granted[i] \in [start : Nat, bytes : Nat]
  BY SeqMembers
<1>2. QED
  BY <1>1

LEMMA ReserveIsInvariant == Spec => []ReserveInv
<1>1. Init => ReserveInv
  BY DEF Init, ReserveInv, InOrder, BelowOffset, OwnRange
<1>2. IInv /\ Discipline /\ ReserveInv /\ [Next]_vars => ReserveInv'
  <2> SUFFICES ASSUME IInv, Discipline, ReserveInv, [Next]_vars, disciplined'
               PROVE  ReserveInv'
    BY DEF ReserveInv
  <2> USE DEF IInv, TypeOK, HoldsMutex, Discipline, Quiet, ReserveInv,
        InOrder, BelowOffset, OwnRange, arenaVars, countVars, threadVars,
        ownerVars
  <2>1. ASSUME NEW t \in Threads, NEW n \in Sizes, Begin(t, n) PROVE ReserveInv'
    BY <2>1 DEF Begin
  <2>2. ASSUME NEW t \in Threads, Lock(t) PROVE ReserveInv'
    BY <2>2 DEF Lock
  <2>3. ASSUME NEW t \in Threads, CheckFails(t) PROVE ReserveInv'
    BY <2>3 DEF CheckFails
  <2>4. ASSUME NEW t \in Threads, CheckFits(t) PROVE ReserveInv'
    BY <2>4 DEF CheckFits
  <2>5. ASSUME NEW t \in Threads, Advance(t) PROVE ReserveInv'
    <3>1. /\ disciplined /\ granted' = granted /\ req' = req
          /\ offset' = offset + req[t] /\ req[t] \in Nat /\ offset \in Nat
      BY <2>5 DEF Advance
    <3>2. \A u \in Threads : pc'[u] = "point" => u = t
      BY <2>5 DEF Advance
    <3>3. \A i \in DOMAIN granted :
            granted[i].start \in Nat /\ granted[i].bytes \in Nat
      BY Positions
    <3>4. BelowOffset'
      BY <3>1, <3>3
    <3>5. InOrder'
      BY <3>1
    <3>6. OwnRange'
      BY <3>1, <3>2, <3>3
    <3>7. QED
      BY <3>4, <3>5, <3>6
  <2>6. ASSUME NEW t \in Threads, Point(t) PROVE ReserveInv'
    <3> DEFINE new == [start |-> offset, bytes |-> req[t]]
    <3>1. /\ disciplined /\ granted' = Append(granted, new)
          /\ offset' = offset /\ req' = req
      BY <2>6 DEF Point
    <3>2. /\ DOMAIN granted' = DOMAIN granted \cup {Len(granted) + 1}
          /\ granted'[Len(granted) + 1] = new
          /\ \A i \in DOMAIN granted :
               /\ granted'[i] = granted[i]
               /\ granted[i] \in [start : Nat, bytes : Nat]
               /\ i \in Nat /\ i < Len(granted) + 1
      <4>1. new \in [start : Nat, bytes : Nat]
        OBVIOUS
      <4>2. granted \in Seq([start : Nat, bytes : Nat])
        OBVIOUS
      <4> DEFINE R == [start : Nat, bytes : Nat]
      <4> HIDE DEF new, R
      <4>3. /\ DOMAIN Append(granted, new)
                 = DOMAIN granted \cup {Len(granted) + 1}
            /\ Append(granted, new)[Len(granted) + 1] = new
            /\ \A i \in DOMAIN granted : Append(granted, new)[i] = granted[i]
        BY <4>1, <4>2, SeqAppend DEF R
      <4>4. \A i \in DOMAIN granted :
              granted[i] \in R /\ i \in Nat /\ i < Len(granted) + 1
        BY <4>2, SeqMembers DEF R
      <4>5. QED
        BY <3>1, <4>3, <4>4 DEF R
    <3>3. /\ req[t] <= offset
          /\ \A i \in DOMAIN granted : granted[i].start <= offset - req[t]
      BY <2>6, <3>1 DEF Point
    <3>4. \A u \in Threads : pc'[u] # "point"
      BY <2>6 DEF Point
    <3>5. \A i \in DOMAIN granted' :
            /\ 0 <= granted'[i].start - granted'[i].bytes
            /\ granted'[i].start <= offset'
      BY <3>1, <3>2, <3>3
    <3>6. ASSUME NEW i \in DOMAIN granted', NEW j \in DOMAIN granted', i < j
          PROVE  granted'[i].start <= granted'[j].start - granted'[j].bytes
      <4> DEFINE k == Len(granted) + 1
      <4>1. new.start = offset /\ new.bytes = req[t]
        OBVIOUS
      <4>2. /\ DOMAIN granted' = DOMAIN granted \cup {k} /\ granted'[k] = new
            /\ \A l \in DOMAIN granted : granted'[l] = granted[l]
            /\ \A l \in DOMAIN granted : l \in Nat /\ l < k
        BY <3>2
      <4>3. k \in Nat
        OBVIOUS
      <4>4. i \in DOMAIN granted
        <5> HIDE DEF k, new, TypeOK, InOrder, BelowOffset, OwnRange
        <5> QED
          BY <3>6, <4>2, <4>3
      <4>5. CASE j = k
        <5>1. granted[i].start <= offset - req[t]
          BY <3>3, <4>4
        <5> HIDE DEF k, new, TypeOK, InOrder, BelowOffset, OwnRange
        <5> QED
          BY <4>1, <4>2, <4>4, <4>5, <5>1
      <4>6. CASE j \in DOMAIN granted
        <5>1. granted[i].start <= granted[j].start - granted[j].bytes
          BY <3>1, <3>6, <4>4, <4>6
        <5> HIDE DEF k, new, TypeOK, InOrder, BelowOffset, OwnRange
        <5> QED
          BY <4>2, <4>4, <4>6, <5>1
      <4>7. QED
        BY <4>2, <4>5, <4>6
    <3>7. QED
      BY <3>4, <3>5, <3>6
  <2>7. ASSUME NEW t \in Threads, SpillMalloc(t) PROVE ReserveInv'
    BY <2>7 DEF SpillMalloc
  <2>8. ASSUME NEW t \in Threads, SpillPush(t) PROVE ReserveInv'
    BY <2>8 DEF SpillPush
  <2>9. ASSUME NEW t \in Threads, SpillCount(t) PROVE ReserveInv'
    BY <2>9 DEF SpillCount
  <2>10. CASE OwnerStep
    <3>1. CASE FreeSpills
      BY <3>1 DEF FreeSpills
    <3>2. CASE ClearSpills
      BY <3>2 DEF ClearSpills
    <3>3. CASE LoadCycle
      BY <3>3 DEF LoadCycle
    <3>4. CASE InitReplaces
      BY <3>4 DEF InitReplaces
    <3>5. CASE InitKeeps
      BY <3>5 DEF InitKeeps
    <3>6. CASE InitResizes
      BY <3>6 DEF InitResizes
    <3>7. CASE ResetCycle
      BY <3>7 DEF ResetCycle
    <3>8. QED
      BY <2>10, <3>1, <3>2, <3>3, <3>4, <3>5, <3>6, <3>7 DEF OwnerStep
  <2>11. CASE ScopeIn
    BY <2>11 DEF ScopeIn
  <2>12. CASE ScopeOut
    BY <2>12 DEF ScopeOut
  <2>13. CASE Destroy
    BY <2>13 DEF Destroy
  <2>14. CASE UNCHANGED vars
    BY <2>14 DEF vars
  <2>15. QED
    BY <2>1, <2>2, <2>3, <2>4, <2>5, <2>6, <2>7, <2>8, <2>9, <2>10, <2>11,
       <2>12, <2>13, <2>14 DEF Next, Allocate
<1>3. QED
  BY <1>1, <1>2, ArenaIsInvariant, DisciplineIsKept, PTL DEF Spec

\* The ranges allocateBytes() reserves between two scopeOut() calls lie inside
\* the buffer and never overlap, in whatever order threads take the mutex.
THEOREM ReservationsStayDisjoint == Spec => []ReservationsDisjoint
<1>1. IInv /\ ReserveInv => ReservationsDisjoint
  <2> SUFFICES ASSUME IInv, ReserveInv, disciplined
               PROVE  ReservationsDisjoint
    BY DEF ReservationsDisjoint
  <2>1. \A i \in DOMAIN granted :
          granted[i].start \in Nat /\ granted[i].bytes \in Nat
    BY Positions DEF IInv
  <2>2. offset \in Nat /\ currentSize \in Nat /\ offset <= currentSize
    BY DEF IInv, TypeOK, OffsetInBuffer
  <2>3. QED
    BY <2>1, <2>2
       DEF ReserveInv, InOrder, BelowOffset, ReservationsDisjoint
<1>2. QED
  BY <1>1, ArenaIsInvariant, ReserveIsInvariant, PTL

-----------------------------------------------------------------------------
(* Blocks.                                                                 *)

\* A thread holds a block only until it has pushed it, and no two threads,
\* spills or the buffer share one; outside of a scope and once freed, the
\* list of spills is empty.
HeldToPush == \A t \in Threads : mine[t] # NoBlock <=> pc[t] = "push"

HeldOnce ==
  \A t \in Threads : pc[t] = "push" =>
    /\ mine[t] # ptrHost
    /\ \A u \in Threads : mine[u] = mine[t] => u = t

SpillsApart ==
  \A s \in spills :
    /\ s.block \in Blocks \ {ptrHost}
    /\ \A t \in Threads : mine[t] # s.block

NoneListed == owner \notin {"idle", "free", "clear"} => spills = {}

OwnInv ==
  disciplined => HeldToPush /\ HeldOnce /\ SpillsApart /\ NoneListed

\* A step that leaves the blocks where they are.
SameBlocks ==
  /\ UNCHANGED <<disciplined, mine, heap, ptrHost, spills, owner>>
  /\ \A t \in Threads : pc'[t] = "push" <=> pc[t] = "push"

LEMMA SameBlocksKeep ==
  OwnInv /\ BlocksOwned /\ SameBlocks => OwnInv' /\ BlocksOwned'
<1> SUFFICES ASSUME OwnInv, BlocksOwned, SameBlocks, disciplined'
             PROVE  OwnInv' /\ BlocksOwned'
  BY DEF OwnInv, BlocksOwned
<1> USE DEF SameBlocks, OwnInv
<1>1. HeldToPush'
  BY DEF HeldToPush
<1>2. HeldOnce'
  BY DEF HeldOnce
<1>3. SpillsApart' /\ NoneListed'
  BY DEF SpillsApart, NoneListed
<1>4. BlocksOwned'
  BY DEF BlocksOwned
<1>5. QED
  BY <1>1, <1>2, <1>3, <1>4

\* The same while scopeIn() goes on to a step before which, or after which,
\* the list may hold spills that are still allocated.
Relisted ==
  /\ UNCHANGED <<disciplined, mine, pc, heap, ptrHost, spills>>
  /\ owner \notin {"clear", "destroyed"}
  /\ owner' \in {"free", "idle"}

LEMMA RelistedKeeps ==
  OwnInv /\ BlocksOwned /\ Relisted => OwnInv' /\ BlocksOwned'
<1> SUFFICES ASSUME OwnInv, BlocksOwned, Relisted, disciplined'
             PROVE  OwnInv' /\ BlocksOwned'
  BY DEF OwnInv, BlocksOwned
<1> USE DEF Relisted, OwnInv
<1>1. HeldToPush'
  BY DEF HeldToPush
<1>2. HeldOnce'
  BY DEF HeldOnce
<1>3. SpillsApart' /\ NoneListed'
  BY DEF SpillsApart, NoneListed
<1>4. BlocksOwned'
  BY DEF BlocksOwned
<1>5. QED
  BY <1>1, <1>2, <1>3, <1>4

LEMMA BlocksAreInvariant == Spec => [](OwnInv /\ BlocksOwned)
<1> DEFINE Inv == OwnInv /\ BlocksOwned
<1>1. Init => Inv
  BY WorkspaceAssumption DEF Init, OwnInv, BlocksOwned, HeldToPush, HeldOnce,
     SpillsApart, NoneListed
<1>2. TypeOK /\ TypeOK' /\ Discipline /\ Inv /\ [Next]_vars => Inv'
  <2> SUFFICES ASSUME TypeOK, TypeOK', Discipline, Inv, [Next]_vars,
                      disciplined'
               PROVE  Inv'
    BY DEF OwnInv, BlocksOwned
  <2> USE WorkspaceAssumption DEF TypeOK, Discipline, Quiet, OwnInv,
        BlocksOwned, HeldToPush, HeldOnce, SpillsApart, NoneListed,
        arenaVars, countVars, threadVars, ownerVars
  <2>1. ASSUME NEW t \in Threads, NEW n \in Sizes, Begin(t, n) PROVE Inv'
    <3> SameBlocks
      BY <2>1 DEF Begin, SameBlocks
    <3> QED
      BY SameBlocksKeep, Zenon
  <2>2. ASSUME NEW t \in Threads, Lock(t) PROVE Inv'
    <3> SameBlocks
      BY <2>2 DEF Lock, SameBlocks
    <3> QED
      BY SameBlocksKeep, Zenon
  <2>3. ASSUME NEW t \in Threads, CheckFails(t) PROVE Inv'
    <3> SameBlocks
      BY <2>3 DEF CheckFails, SameBlocks
    <3> QED
      BY SameBlocksKeep, Zenon
  <2>4. ASSUME NEW t \in Threads, CheckFits(t) PROVE Inv'
    <3> SameBlocks
      BY <2>4 DEF CheckFits, SameBlocks
    <3> QED
      BY SameBlocksKeep, Zenon
  <2>5. ASSUME NEW t \in Threads, Advance(t) PROVE Inv'
    <3> SameBlocks
      BY <2>5 DEF Advance, SameBlocks
    <3> QED
      BY SameBlocksKeep, Zenon
  <2>6. ASSUME NEW t \in Threads, Point(t) PROVE Inv'
    <3> SameBlocks
      BY <2>6 DEF Point, SameBlocks
    <3> QED
      BY SameBlocksKeep, Zenon
  <2>7. ASSUME NEW t \in Threads, SpillMalloc(t) PROVE Inv'
    <3>1. /\ heap' = heap \cup {Fresh} /\ Fresh \in Blocks \ heap
          /\ mine' = [mine EXCEPT ![t] = Fresh]
          /\ pc' = [pc EXCEPT ![t] = "push"] /\ pc[t] = "malloc"
          /\ UNCHANGED <<ptrHost, spills, owner, disciplined>>
      BY <2>7, FreshBlock DEF SpillMalloc
    <3>2. /\ HeldToPush /\ HeldOnce /\ SpillsApart /\ NoneListed
          /\ BlocksOwned /\ mine \in [Threads -> Blocks \cup {NoBlock}]
          /\ pc \in [Threads -> ThreadStates] /\ NoBlock \notin Blocks
      BY <3>1
    <3>a. disciplined /\ owner = "idle"
      BY <3>1
    <3> HIDE DEF TypeOK, Discipline, Quiet, OwnInv, BlocksOwned,
          HeldToPush, HeldOnce, SpillsApart, NoneListed
    <3> DEFINE A == {s.block : s \in spills}
               B == {mine[u] : u \in Threads}
               C == {mine'[u] : u \in Threads}
    <3>3. heap = ({ptrHost} \cup A \cup B) \ {NoBlock}
      BY <3>2, <3>a DEF BlocksOwned
    <3>4. Fresh # NoBlock /\ Fresh # ptrHost /\ Fresh \notin A /\ Fresh \notin B
      <4> HIDE DEF A, B
      <4> QED
        BY <3>1, <3>2, <3>3
    <3>5. \A u \in Threads : mine'[u] = IF u = t THEN Fresh ELSE mine[u]
      BY <3>1, <3>2
    <3>6. mine[t] = NoBlock
      BY <3>1, <3>2 DEF HeldToPush
    <3>7. HeldToPush'
      <4> SUFFICES ASSUME NEW u \in Threads
                   PROVE  mine'[u] # NoBlock <=> pc'[u] = "push"
        BY DEF HeldToPush
      <4>1. CASE u = t
        BY <3>1, <3>2, <3>4, <3>5, <4>1
      <4>2. CASE u # t
        BY <3>1, <3>2, <3>5, <4>2 DEF HeldToPush
      <4>3. QED
        BY <4>1, <4>2
    <3>8. HeldOnce'
      <4> SUFFICES ASSUME NEW u \in Threads, pc'[u] = "push"
                   PROVE  /\ mine'[u] # ptrHost'
                          /\ \A v \in Threads : mine'[v] = mine'[u] => v = u
        BY DEF HeldOnce
      <4>1. \A v \in Threads : mine[v] # Fresh
        BY <3>4
      <4>2. CASE u = t
        BY <3>1, <3>4, <3>5, <4>1, <4>2
      <4>3. CASE u # t
        <5>1. pc[u] = "push" /\ mine'[u] = mine[u] /\ mine[u] # Fresh
          BY <3>1, <3>2, <3>5, <4>1, <4>3
        <5>2. QED
          BY <3>1, <3>2, <3>5, <5>1 DEF HeldOnce
      <4>4. QED
        BY <4>2, <4>3
    <3>9. SpillsApart'
      <4> SUFFICES ASSUME NEW s \in spills
                   PROVE  /\ s.block \in Blocks \ {ptrHost}
                          /\ \A u \in Threads : mine'[u] # s.block
        BY <3>1 DEF SpillsApart
      <4>1. s.block # Fresh
        BY <3>4
      <4>2. QED
        BY <3>2, <3>5, <4>1 DEF SpillsApart
    <3>10. BlocksOwned'
      <4>1. C \cup {NoBlock} = B \cup {NoBlock, Fresh}
        BY <3>5, <3>6
      <4>2. heap' = ({ptrHost} \cup A \cup C) \ {NoBlock}
        <5> HIDE DEF A, B, C
        <5> QED
          BY <3>1, <3>3, <3>4, <4>1
      <4>3. QED
        BY <3>1, <3>a, <4>2 DEF BlocksOwned
    <3>11. NoneListed'
      BY <3>1, <3>a DEF NoneListed
    <3>12. QED
      BY <3>7, <3>8, <3>9, <3>10, <3>11 DEF OwnInv
  <2>8. ASSUME NEW t \in Threads, SpillPush(t) PROVE Inv'
    <3> DEFINE new == [block |-> mine[t], bytes |-> req[t]]
    <3>1. /\ mine[t] \in Blocks \ {ptrHost} /\ new.block = mine[t]
          /\ spills' = spills \cup {new} /\ owner = "idle" /\ owner' = owner
          /\ heap' = heap /\ ptrHost' = ptrHost
          /\ disciplined /\ pc[t] = "push"
      BY <2>8 DEF SpillPush
    <3>2. /\ mine' = [mine EXCEPT ![t] = NoBlock]
          /\ pc' = [pc EXCEPT ![t] = "count"]
      BY <2>8 DEF SpillPush
    <3>3. HeldToPush /\ HeldOnce /\ SpillsApart /\ NoneListed
          /\ BlocksOwned /\ mine \in [Threads -> Blocks \cup {NoBlock}]
          /\ pc \in [Threads -> ThreadStates] /\ mine[t] # NoBlock
      BY <3>1
    <3> HIDE DEF new, TypeOK, Discipline, Quiet, OwnInv, BlocksOwned,
          HeldToPush, HeldOnce, SpillsApart, NoneListed
    <3>4. HeldToPush'
      BY <3>1, <3>2, <3>3 DEF HeldToPush
    <3>5. HeldOnce'
      <4> SUFFICES ASSUME NEW u \in Threads, pc'[u] = "push"
                   PROVE  /\ mine'[u] # ptrHost'
                          /\ \A v \in Threads : mine'[v] = mine'[u] => v = u
        BY DEF HeldOnce
      <4>1. u # t /\ pc[u] = "push" /\ mine'[u] = mine[u] /\ mine[u] # NoBlock
        BY <3>2, <3>3 DEF HeldToPush
      <4>2. \A v \in Threads : mine'[v] = NoBlock \/ mine'[v] = mine[v]
        BY <3>2, <3>3
      <4>3. QED
        BY <3>1, <3>3, <4>1, <4>2 DEF HeldOnce
    <3>6. \A u \in Threads : mine'[u] # mine[t]
      BY <3>1, <3>2, <3>3 DEF HeldOnce
    <3>7. SpillsApart'
      BY <3>1, <3>2, <3>3, <3>6 DEF SpillsApart
    <3>8. BlocksOwned'
      <4>1. {s.block : s \in spills'} = {s.block : s \in spills} \cup {mine[t]}
        BY <3>1
      <4>2. {mine'[u] : u \in Threads} \cup {NoBlock, mine[t]}
              = {mine[u] : u \in Threads} \cup {NoBlock, mine[t]}
        <5>1. \A u \in Threads : mine'[u] = IF u = t THEN NoBlock ELSE mine[u]
          BY <3>2, <3>3
        <5>2. QED
          BY <5>1
      <4>3. mine[t] \in {mine[u] : u \in Threads}
        OBVIOUS
      <4>4. mine[t] \notin {mine'[u] : u \in Threads}
        BY <3>6
      <4> DEFINE A == {s.block : s \in spills}
                 B == {mine[u] : u \in Threads}
                 C == {mine'[u] : u \in Threads}
      <4>5. heap = ({ptrHost} \cup A \cup B) \ {NoBlock}
        BY <3>1, <3>3 DEF BlocksOwned
      <4> HIDE DEF A, B, C
      <4>6. heap' = ({ptrHost} \cup (A \cup {mine[t]}) \cup C) \ {NoBlock}
        BY <3>1, <4>2, <4>3, <4>5 DEF A, B, C
      <4>7. QED
        BY <3>1, <4>1, <4>6 DEF BlocksOwned, A, C
    <3>9. QED
      BY <3>1, <3>3, <3>4, <3>5, <3>7, <3>8 DEF OwnInv, NoneListed
  <2>9. ASSUME NEW t \in Threads, SpillCount(t) PROVE Inv'
    <3> SameBlocks
      BY <2>9 DEF SpillCount, SameBlocks
    <3> QED
      BY SameBlocksKeep, Zenon
  <2>10. CASE OwnerStep
    <3>1. CASE FreeSpills
      BY <3>1 DEF FreeSpills
    <3>2. CASE ClearSpills
      BY <3>2 DEF ClearSpills
    <3>3. CASE LoadCycle
      BY <3>3 DEF LoadCycle
    <3>4. CASE InitReplaces
      BY <3>4 DEF InitReplaces
    <3>5. CASE InitKeeps
      BY <3>5 DEF InitKeeps
    <3>6. CASE InitResizes
      BY <3>6 DEF InitResizes
    <3>7. CASE ResetCycle
      <4>1. Relisted
        BY <3>7 DEF ResetCycle, Relisted
      <4>2. QED
        BY <4>1, RelistedKeeps, Zenon
    <3>8. QED
      BY <2>10, <3>1, <3>2, <3>3, <3>4, <3>5, <3>6, <3>7 DEF OwnerStep
  <2>11. CASE ScopeIn
    <3>1. Relisted
      BY <2>11 DEF ScopeIn, Relisted
    <3>2. QED
      BY <3>1, RelistedKeeps, Zenon
  <2>12. CASE ScopeOut
    <3> SameBlocks
      BY <2>12 DEF ScopeOut, SameBlocks
    <3> QED
      BY SameBlocksKeep, Zenon
  <2>13. CASE Destroy
    BY <2>13 DEF Destroy
  <2>14. CASE UNCHANGED vars
    BY <2>14 DEF vars
  <2>15. QED
    BY <2>1, <2>2, <2>3, <2>4, <2>5, <2>6, <2>7, <2>8, <2>9, <2>10, <2>11,
       <2>12, <2>13, <2>14 DEF Next, Allocate
<1>3. QED
  BY <1>1, <1>2, TypeCorrect, DisciplineIsKept, PTL DEF Spec

\* Nothing init(), freeSpills() and the destructor free is still in use, and
\* nothing allocateBytes() mallocs is lost: a live block is always the buffer,
\* a listed spill, or one that a thread is about to push.
THEOREM BlocksStayOwned == Spec => []BlocksOwned
  BY BlocksAreInvariant, PTL

-----------------------------------------------------------------------------
(* Bytes.                                                                  *)

\* What the sums range over is finite, and freeSpills() has cleared the
\* counter of spilled bytes before anything else of scopeIn() runs.
Busy == {t \in Threads : pc[t] # "idle"}

CountInv == disciplined =>
  /\ IsFiniteSet(Busy)
  /\ IsFiniteSet(spills)
  /\ owner \notin {"idle", "destroyed"} => spillsSize = 0

LEMMA CountsAreInvariant == Spec => []CountInv
<1>1. Init => CountInv
  <2>1. Init => Busy = {} /\ spills = {} /\ owner = "idle"
    BY DEF Init, Busy
  <2>2. QED
    BY <2>1, FS_EmptySet DEF CountInv
<1>2. TypeOK /\ Discipline /\ CountInv /\ [Next]_vars => CountInv'
  <2> SUFFICES ASSUME TypeOK, Discipline, CountInv, [Next]_vars, disciplined'
               PROVE  CountInv'
    BY DEF CountInv
  <2> USE DEF TypeOK, Discipline, Quiet, CountInv, arenaVars, countVars,
        threadVars, ownerVars
  <2>1. ASSUME NEW t \in Threads, NEW n \in Sizes, Begin(t, n) PROVE CountInv'
    <3>1. Busy' = Busy \cup {t}
      BY <2>1 DEF Begin, Busy
    <3>2. QED
      BY <3>1, <2>1, FS_AddElement DEF Begin
  <2>2. ASSUME NEW t \in Threads, Lock(t) PROVE CountInv'
    <3>1. Busy' \subseteq Busy
      BY <2>2 DEF Lock, Busy
    <3>2. QED
      BY <3>1, <2>2, FS_Subset DEF Lock
  <2>3. ASSUME NEW t \in Threads, CheckFails(t) PROVE CountInv'
    <3>1. Busy' \subseteq Busy
      BY <2>3 DEF CheckFails, Busy
    <3>2. QED
      BY <3>1, <2>3, FS_Subset DEF CheckFails
  <2>4. ASSUME NEW t \in Threads, CheckFits(t) PROVE CountInv'
    <3>1. Busy' \subseteq Busy
      BY <2>4 DEF CheckFits, Busy
    <3>2. QED
      BY <3>1, <2>4, FS_Subset DEF CheckFits
  <2>5. ASSUME NEW t \in Threads, Advance(t) PROVE CountInv'
    <3>1. Busy' \subseteq Busy
      BY <2>5 DEF Advance, Busy
    <3>2. QED
      BY <3>1, <2>5, FS_Subset DEF Advance
  <2>6. ASSUME NEW t \in Threads, Point(t) PROVE CountInv'
    <3>1. Busy' \subseteq Busy
      BY <2>6 DEF Point, Busy
    <3>2. QED
      BY <3>1, <2>6, FS_Subset DEF Point
  <2>7. ASSUME NEW t \in Threads, SpillMalloc(t) PROVE CountInv'
    <3>1. Busy' \subseteq Busy
      BY <2>7 DEF SpillMalloc, Busy
    <3>2. QED
      BY <3>1, <2>7, FS_Subset DEF SpillMalloc
  <2>8. ASSUME NEW t \in Threads, SpillPush(t) PROVE CountInv'
    <3>1. Busy' = Busy
      BY <2>8 DEF SpillPush, Busy
    <3>2. QED
      BY <3>1, <2>8, FS_AddElement DEF SpillPush
  <2>9. ASSUME NEW t \in Threads, SpillCount(t) PROVE CountInv'
    <3>1. Busy' \subseteq Busy
      BY <2>9 DEF SpillCount, Busy
    <3>2. QED
      BY <3>1, <2>9, FS_Subset DEF SpillCount
  <2>10. CASE OwnerStep
    <3>1. CASE FreeSpills
      BY <3>1 DEF FreeSpills, Busy
    <3>2. CASE ClearSpills
      BY <3>2, FS_EmptySet DEF ClearSpills, Busy
    <3>3. CASE LoadCycle
      BY <3>3 DEF LoadCycle, Busy
    <3>4. CASE InitReplaces
      BY <3>4 DEF InitReplaces, Busy
    <3>5. CASE InitKeeps
      BY <3>5 DEF InitKeeps, Busy
    <3>6. CASE InitResizes
      BY <3>6 DEF InitResizes, Busy
    <3>7. CASE ResetCycle
      BY <3>7 DEF ResetCycle, Busy
    <3>8. QED
      BY <2>10, <3>1, <3>2, <3>3, <3>4, <3>5, <3>6, <3>7 DEF OwnerStep
  <2>11. CASE ScopeIn
    BY <2>11 DEF ScopeIn, Busy
  <2>12. CASE ScopeOut
    BY <2>12 DEF ScopeOut, Busy
  <2>13. CASE Destroy
    BY <2>13, FS_EmptySet DEF Destroy, Busy
  <2>14. CASE UNCHANGED vars
    BY <2>14 DEF vars, Busy
  <2>15. QED
    BY <2>1, <2>2, <2>3, <2>4, <2>5, <2>6, <2>7, <2>8, <2>9, <2>10, <2>11,
       <2>12, <2>13, <2>14 DEF Next, Allocate
<1>3. QED
  BY <1>1, <1>2, TypeCorrect, DisciplineIsKept, PTL DEF Spec

\* The threads that are in one of the states S, and the states in which a
\* request is counted and neither in the buffer nor in a spill.
In(S) == {t \in Threads : pc[t] \in S}

Pending == {"lock", "check", "advance", "malloc", "push"}

PendingBytes == Total(req, In(Pending))

UncountedBytes == Total(req, In({"count"}))

\* The two equations of RequestsAccounted, in terms of those.
Balance ==
  (disciplined /\ owner = "idle" /\ inScope) =>
    /\ cycleAllocations = offset + SpilledBytes + PendingBytes
    /\ spillsSize + UncountedBytes = SpilledBytes

LEMMA BalanceIs == Balance <=> RequestsAccounted
  BY DEF Balance, PendingBytes, UncountedBytes, RequestsAccounted, InFlight, In,
     Pending

\* Sums over threads and over spills are natural numbers.
SumsOK == disciplined =>
  /\ SpilledBytes \in Nat
  /\ IsFiniteSet(In(Pending)) /\ PendingBytes \in Nat
  /\ IsFiniteSet(In({"count"})) /\ UncountedBytes \in Nat

LEMMA SumsAreNat == TypeOK /\ CountInv => SumsOK
<1> SUFFICES ASSUME TypeOK, CountInv, disciplined PROVE SumsOK
  BY DEF SumsOK
<1>1. SpilledBytes \in Nat
  <2>1. \A s \in spills : [x \in spills |-> x.bytes][s] \in Nat
    BY DEF TypeOK
  <2>2. QED
    BY <2>1, TotalIsFinite DEF CountInv, SpilledBytes
<1>2. ASSUME NEW S, "idle" \notin S
      PROVE  IsFiniteSet(In(S)) /\ Total(req, In(S)) \in Nat
  <2>1. In(S) \subseteq Busy
    BY <1>2 DEF In, Busy
  <2>2. IsFiniteSet(In(S))
    BY <2>1, FS_Subset DEF CountInv
  <2>3. \A t \in In(S) : req[t] \in Nat
    BY DEF In, TypeOK
  <2>4. QED
    BY <2>2, <2>3, TotalIsFinite
<1>3. "idle" \notin Pending /\ "idle" \notin {"count"}
  BY DEF Pending
<1>4. QED
  BY <1>1, <1>2, <1>3 DEF SumsOK, PendingBytes, UncountedBytes

\* A step of a call that moves no request from one side to another.
SameBytes ==
  /\ UNCHANGED <<disciplined, owner, inScope, cycleAllocations, offset, spills,
                 spillsSize, req>>
  /\ In(Pending)' = In(Pending) /\ In({"count"})' = In({"count"})

LEMMA BalanceIsInvariant == Spec => []Balance
<1>1. Init => Balance
  <2> SUFFICES ASSUME Init PROVE Balance
    OBVIOUS
  <2>1. In(Pending) = {} /\ In({"count"}) = {} /\ spills = {}
    BY DEF Init, In, Pending
  <2>2. SpilledBytes = 0 /\ PendingBytes = 0 /\ UncountedBytes = 0
    BY <2>1, TotalOfNothing, Zenon
       DEF SpilledBytes, PendingBytes, UncountedBytes
  <2>3. QED
    BY <2>2 DEF Init, Balance
<1>2. TypeOK /\ TypeOK' /\ Discipline /\ OwnInv /\ CountInv /\ SumsOK
        /\ SumsOK' /\ Balance /\ [Next]_vars => Balance'
  <2> SUFFICES ASSUME TypeOK, TypeOK', Discipline, OwnInv, CountInv, SumsOK,
                      SumsOK', Balance, [Next]_vars,
                      disciplined', owner' = "idle", inScope'
               PROVE  Balance'
    BY DEF Balance
  <2>a. disciplined' = disciplined
    BY DEF Next, Allocate, OwnerStep, vars, ownerVars, Begin, Lock, CheckFails,
       CheckFits, Advance, Point, SpillMalloc, SpillPush, SpillCount,
       FreeSpills, ClearSpills, LoadCycle, InitReplaces, InitKeeps,
       InitResizes, ResetCycle, ScopeIn, ScopeOut, Destroy
  <2>b. /\ SpilledBytes \in Nat
        /\ IsFiniteSet(In(Pending)) /\ PendingBytes \in Nat
        /\ IsFiniteSet(In({"count"})) /\ UncountedBytes \in Nat
    BY <2>a DEF SumsOK
  <2>c. /\ SpilledBytes' \in Nat
        /\ IsFiniteSet(In(Pending)') /\ PendingBytes' \in Nat
        /\ IsFiniteSet(In({"count"})') /\ UncountedBytes' \in Nat
    BY DEF SumsOK
  <2>d. ASSUME SameBytes PROVE Balance'
    BY <2>d, <2>a
       DEF SameBytes, Balance, SpilledBytes, PendingBytes, UncountedBytes
  <2>e. /\ offset \in Nat /\ cycleAllocations \in Nat /\ spillsSize \in Nat
        /\ \A t \in Threads : req[t] \in Nat /\ req'[t] \in Nat
    BY DEF TypeOK
  <2>1. ASSUME NEW t \in Threads, NEW n \in Sizes, Begin(t, n) PROVE Balance'
    <3>1. /\ In(Pending)' = In(Pending) \cup {t} /\ t \notin In(Pending)
          /\ In({"count"})' = In({"count"}) /\ t \notin In({"count"})
      BY <2>1 DEF Begin, In, Pending, TypeOK
    <3>2. /\ req'[t] = n /\ \A u \in Threads \ {t} : req'[u] = req[u]
          /\ cycleAllocations' = cycleAllocations + n
          /\ UNCHANGED <<offset, spills, spillsSize, owner, inScope>>
      BY <2>1 DEF Begin, TypeOK, arenaVars, ownerVars
    <3>3. /\ \A u \in In(Pending) : req[u] \in Nat /\ req'[u] = req[u]
          /\ \A u \in In({"count"}) : req'[u] = req[u]
      BY <2>e, <3>1, <3>2 DEF In
    <3>4. PendingBytes' = PendingBytes + n
      <4> DEFINE P == In(Pending)
      <4>1. \A u \in P : req[u] \in Nat /\ req'[u] = req[u]
        BY <3>3
      <4>2. IsFiniteSet(P) /\ t \notin P /\ req'[t] \in Nat
        BY <2>b, <2>e, <3>1
      <4>3. /\ PendingBytes' = Total(req', P \cup {t})
            /\ PendingBytes = Total(req, P)
        BY <3>1 DEF PendingBytes
      <4> HIDE DEF P
      <4>4. Total(req', P \cup {t}) = Total(req, P) + req'[t]
        BY <4>1, <4>2, TotalAdd
      <4>5. QED
        BY <3>2, <4>3, <4>4
    <3>5. UncountedBytes' = UncountedBytes
      BY <3>1, <3>3, TotalSame DEF UncountedBytes
    <3>6. SpilledBytes' = SpilledBytes
      BY <3>2 DEF SpilledBytes
    <3>7. n \in Nat
      BY WorkspaceAssumption
    <3>8. QED
      BY <2>a, <2>b, <2>e, <3>2, <3>4, <3>5, <3>6, <3>7 DEF Balance
  <2>2. ASSUME NEW t \in Threads, Lock(t) PROVE Balance'
    <3>1. SameBytes
      BY <2>2 DEF Lock, SameBytes, In, Pending, TypeOK, arenaVars,
         countVars, ownerVars
    <3>2. QED
      BY <3>1, <2>d
  <2>3. ASSUME NEW t \in Threads, CheckFails(t) PROVE Balance'
    <3>1. SameBytes
      BY <2>3 DEF CheckFails, SameBytes, In, Pending, TypeOK, arenaVars,
         countVars, ownerVars
    <3>2. QED
      BY <3>1, <2>d
  <2>4. ASSUME NEW t \in Threads, CheckFits(t) PROVE Balance'
    <3>1. SameBytes
      BY <2>4 DEF CheckFits, SameBytes, In, Pending, TypeOK, arenaVars,
         countVars, ownerVars
    <3>2. QED
      BY <3>1, <2>d
  <2>5. ASSUME NEW t \in Threads, Advance(t) PROVE Balance'
    <3>1. /\ In(Pending) = In(Pending)' \cup {t} /\ t \notin In(Pending)'
          /\ In({"count"})' = In({"count"})
      BY <2>5 DEF Advance, In, Pending, TypeOK
    <3>2. offset' = offset + req[t]
          /\ UNCHANGED <<cycleAllocations, spills, spillsSize, owner, inScope,
                         req>>
      BY <2>5 DEF Advance, countVars, ownerVars
    <3>3. PendingBytes = PendingBytes' + req[t]
      <4> DEFINE P == In(Pending)'
      <4>1. \A u \in P : req[u] \in Nat
        BY <2>e DEF In
      <4>2. IsFiniteSet(P) /\ t \notin P
        BY <2>c, <3>1
      <4>3. /\ PendingBytes = Total(req, P \cup {t})
            /\ PendingBytes' = Total(req, P)
        BY <3>1, <3>2 DEF PendingBytes
      <4> HIDE DEF P
      <4>4. Total(req, P \cup {t}) = Total(req, P) + req[t]
        BY <2>e, <4>1, <4>2, TotalAdd
      <4>5. QED
        BY <4>3, <4>4
    <3>4. SpilledBytes' = SpilledBytes /\ UncountedBytes' = UncountedBytes
      BY <3>1, <3>2 DEF SpilledBytes, UncountedBytes
    <3>5. QED
      BY <2>a, <2>b, <2>c, <2>e, <3>2, <3>3, <3>4 DEF Balance
  <2>6. ASSUME NEW t \in Threads, Point(t) PROVE Balance'
    <3>1. SameBytes
      BY <2>6 DEF Point, SameBytes, In, Pending, TypeOK, arenaVars,
         countVars, ownerVars
    <3>2. QED
      BY <3>1, <2>d
  <2>7. ASSUME NEW t \in Threads, SpillMalloc(t) PROVE Balance'
    <3>1. SameBytes
      BY <2>7 DEF SpillMalloc, SameBytes, In, Pending, TypeOK, arenaVars,
         countVars, ownerVars
    <3>2. QED
      BY <3>1, <2>d
  <2>8. ASSUME NEW t \in Threads, SpillPush(t) PROVE Balance'
    <3> DEFINE new == [block |-> mine[t], bytes |-> req[t]]
               was == [s \in spills |-> s.bytes]
               now == [s \in spills \cup {new} |-> s.bytes]
    <3>1. /\ In(Pending) = In(Pending)' \cup {t} /\ t \notin In(Pending)'
          /\ In({"count"})' = In({"count"}) \cup {t} /\ t \notin In({"count"})
      BY <2>8 DEF SpillPush, In, Pending, TypeOK
    <3>2. spills' = spills \cup {new}
          /\ UNCHANGED <<cycleAllocations, offset, spillsSize, owner, inScope,
                         req>>
      BY <2>8 DEF SpillPush, arenaVars, ownerVars
    <3>3. new \notin spills
      BY <2>a DEF OwnInv, SpillsApart
    <3>4. Total(now, spills \cup {new}) = Total(was, spills) + req[t]
      <4>1. \A s \in spills : s.bytes \in Nat
        BY DEF TypeOK
      <4>2. IsFiniteSet(spills)
        BY <2>a DEF CountInv
      <4>3. new.bytes = req[t] /\ new.bytes \in Nat
        BY <2>e
      <4> HIDE DEF new, TypeOK, CountInv, OwnInv, Discipline
      <4>4. Total(now, spills \cup {new}) = Total(was, spills) + new.bytes
        BY <3>3, <4>1, <4>2, <4>3, SpillMore
      <4>5. QED
        BY <4>3, <4>4
    <3>5. SpilledBytes' = SpilledBytes + req[t]
      BY <3>2, <3>4 DEF SpilledBytes
    <3>6. PendingBytes = PendingBytes' + req[t]
      <4> DEFINE P == In(Pending)'
      <4>1. \A u \in P : req[u] \in Nat
        BY <2>e DEF In
      <4>2. IsFiniteSet(P) /\ t \notin P
        BY <2>c, <3>1
      <4>3. /\ PendingBytes = Total(req, P \cup {t})
            /\ PendingBytes' = Total(req, P)
        BY <3>1, <3>2 DEF PendingBytes
      <4> HIDE DEF P
      <4>4. Total(req, P \cup {t}) = Total(req, P) + req[t]
        BY <2>e, <4>1, <4>2, TotalAdd
      <4>5. QED
        BY <4>3, <4>4
    <3>7. UncountedBytes' = UncountedBytes + req[t]
      <4> DEFINE P == In({"count"})
      <4>1. \A u \in P : req[u] \in Nat
        BY <2>e DEF In
      <4>2. IsFiniteSet(P) /\ t \notin P
        BY <2>b, <3>1
      <4>3. /\ UncountedBytes' = Total(req, P \cup {t})
            /\ UncountedBytes = Total(req, P)
        BY <3>1, <3>2 DEF UncountedBytes
      <4> HIDE DEF P
      <4>4. Total(req, P \cup {t}) = Total(req, P) + req[t]
        BY <2>e, <4>1, <4>2, TotalAdd
      <4>5. QED
        BY <4>3, <4>4
    <3> HIDE DEF new, was, now
    <3>8. QED
      BY <2>a, <2>b, <2>c, <2>e, <3>2, <3>5, <3>6, <3>7 DEF Balance
  <2>9. ASSUME NEW t \in Threads, SpillCount(t) PROVE Balance'
    <3>1. /\ In({"count"}) = In({"count"})' \cup {t}
          /\ t \notin In({"count"})' /\ In(Pending)' = In(Pending)
      BY <2>9 DEF SpillCount, In, Pending, TypeOK
    <3>2. spillsSize' = spillsSize + req[t]
          /\ UNCHANGED <<cycleAllocations, offset, spills, owner, inScope, req>>
      BY <2>9 DEF SpillCount, arenaVars, ownerVars
    <3>3. UncountedBytes = UncountedBytes' + req[t]
      <4> DEFINE P == In({"count"})'
      <4>1. \A u \in P : req[u] \in Nat
        BY <2>e DEF In
      <4>2. IsFiniteSet(P) /\ t \notin P
        BY <2>c, <3>1
      <4>3. /\ UncountedBytes = Total(req, P \cup {t})
            /\ UncountedBytes' = Total(req, P)
        BY <3>1, <3>2 DEF UncountedBytes
      <4> HIDE DEF P
      <4>4. Total(req, P \cup {t}) = Total(req, P) + req[t]
        BY <2>e, <4>1, <4>2, TotalAdd
      <4>5. QED
        BY <4>3, <4>4
    <3>4. SpilledBytes' = SpilledBytes /\ PendingBytes' = PendingBytes
      BY <3>1, <3>2 DEF SpilledBytes, PendingBytes
    <3>5. QED
      BY <2>a, <2>b, <2>c, <2>e, <3>2, <3>3, <3>4 DEF Balance
  <2>10. CASE OwnerStep
    <3>1. CASE FreeSpills
      BY <3>1 DEF FreeSpills
    <3>2. CASE ClearSpills
      BY <3>2 DEF ClearSpills
    <3>3. CASE LoadCycle
      BY <3>3 DEF LoadCycle
    <3>4. CASE InitReplaces
      BY <3>4 DEF InitReplaces
    <3>5. CASE InitKeeps
      BY <3>5 DEF InitKeeps
    <3>6. CASE InitResizes
      BY <3>6 DEF InitResizes
    <3>7. CASE ResetCycle
      <4>1. /\ cycleAllocations' = 0 /\ offset' = 0 /\ spills' = {}
            /\ spillsSize' = 0 /\ \A t \in Threads : pc'[t] = "idle"
        BY <2>a, <3>7 DEF ResetCycle, Discipline, Quiet, OwnInv, NoneListed,
           CountInv, arenaVars, threadVars
      <4>2. In(Pending)' = {} /\ In({"count"})' = {}
        BY <4>1 DEF In, Pending
      <4>3. SpilledBytes' = 0 /\ PendingBytes' = 0 /\ UncountedBytes' = 0
        BY <4>1, <4>2, TotalOfNothing, Zenon
           DEF SpilledBytes, PendingBytes, UncountedBytes
      <4>4. QED
        BY <4>1, <4>3 DEF Balance
    <3>8. QED
      BY <2>10, <3>1, <3>2, <3>3, <3>4, <3>5, <3>6, <3>7 DEF OwnerStep
  <2>11. CASE ScopeIn
    BY <2>11 DEF ScopeIn
  <2>12. CASE ScopeOut
    BY <2>12 DEF ScopeOut
  <2>13. CASE Destroy
    BY <2>13 DEF Destroy
  <2>14. CASE UNCHANGED vars
    <3>1. SameBytes
      BY <2>14 DEF vars, SameBytes, In, Pending, arenaVars, countVars,
         threadVars, ownerVars
    <3>2. QED
      BY <3>1, <2>d
  <2>15. QED
    BY <2>1, <2>2, <2>3, <2>4, <2>5, <2>6, <2>7, <2>8, <2>9, <2>10, <2>11,
       <2>12, <2>13, <2>14 DEF Next, Allocate
<1>3. QED
  <2>1. Spec => []OwnInv
    BY BlocksAreInvariant, PTL
  <2>2. Spec => []SumsOK
    BY SumsAreNat, TypeCorrect, CountsAreInvariant, PTL
  <2>3. QED
    BY <1>1, <1>2, <2>1, <2>2, TypeCorrect, DisciplineIsKept,
       CountsAreInvariant, PTL DEF Spec

\* Whatever the order of the threads' steps, each byte requested in a cycle is
\* in the buffer, in one spill or in flight, and _spillsSize is the size of
\* the spills once every push has been counted.
THEOREM RequestsStayAccounted == Spec => []RequestsAccounted
  BY BalanceIsInvariant, BalanceIs, PTL

-----------------------------------------------------------------------------
(* The peak.                                                               *)

\* What scopeIn() has learned: the buffer holds the largest cycle there was,
\* and a thread on its way to a spill is in a larger one.
PeakInv == disciplined =>
  /\ peak <= currentSize
  /\ \A t \in Threads : pc[t] \in {"malloc", "push"} => cycleAllocations > peak
  /\ owner \in {"init", "resize", "reset"} => bytes = cycleAllocations
  /\ owner = "reset" => bytes <= currentSize

\* Once a cycle has asked for peak bytes, a later cycle spills only after it
\* has asked for more: scopeIn() has sized the buffer to hold that much, and
\* what allocateBytes() finds ahead of a request is part of the same cycle.
THEOREM NoSpillsWithinPeak == Spec => []NoSpillWithinPeak
<1> DEFINE Inv == PeakInv /\ NoSpillWithinPeak
<1>1. Init => Inv
  BY WorkspaceAssumption DEF Init, PeakInv, NoSpillWithinPeak
<1>2. IInv /\ TypeOK' /\ Discipline /\ OwnInv /\ SumsOK /\ Balance /\ Inv
        /\ [Next]_vars => Inv'
  <2> SUFFICES ASSUME TypeOK, GrowsOnly, TypeOK', Discipline, OwnInv, SumsOK,
                      Balance, Inv, [Next]_vars, disciplined'
               PROVE  Inv'
    BY DEF PeakInv, NoSpillWithinPeak, IInv
  <2> USE WorkspaceAssumption DEF TypeOK, GrowsOnly, Discipline, Quiet, PeakInv,
        NoSpillWithinPeak, arenaVars, countVars, threadVars, ownerVars
  <2>1. ASSUME NEW t \in Threads, NEW n \in Sizes, Begin(t, n) PROVE Inv'
    BY <2>1 DEF Begin
  <2>2. ASSUME NEW t \in Threads, Lock(t) PROVE Inv'
    BY <2>2 DEF Lock
  <2>3. ASSUME NEW t \in Threads, CheckFails(t) PROVE Inv'
    <3>1. /\ owner = "idle" /\ inScope /\ disciplined
          /\ t \in In(Pending)
      BY <2>3 DEF CheckFails, In, Pending, ownerVars
    <3>2. req[t] <= PendingBytes
      <4>1. \A u \in In(Pending) : req[u] \in Nat
        BY DEF In
      <4>2. IsFiniteSet(In(Pending)) /\ t \in In(Pending)
        BY <3>1 DEF SumsOK
      <4> DEFINE P == In(Pending)
      <4> HIDE DEF P
      <4>3. req[t] <= Total(req, P)
        BY <4>1, <4>2, TotalBounds DEF P
      <4>4. QED
        BY <4>3 DEF PendingBytes, P
    <3>3. cycleAllocations > peak
      <4>1. /\ cycleAllocations = offset + SpilledBytes + PendingBytes
            /\ SpilledBytes \in Nat /\ PendingBytes \in Nat
        BY <3>1 DEF Balance, SumsOK
      <4>2. /\ offset + req[t] > currentSize /\ peak <= currentSize
            /\ req[t] \in Nat
        BY <2>3, <3>1 DEF CheckFails
      <4>3. offset \in Nat /\ currentSize \in Nat /\ peak \in Nat
        OBVIOUS
      <4> HIDE DEF TypeOK, GrowsOnly, Discipline, Quiet, PeakInv,
            NoSpillWithinPeak
      <4>4. QED
        BY <3>2, <4>1, <4>2, <4>3
    <3>4. QED
      BY <2>3, <3>3 DEF CheckFails
  <2>4. ASSUME NEW t \in Threads, CheckFits(t) PROVE Inv'
    BY <2>4 DEF CheckFits
  <2>5. ASSUME NEW t \in Threads, Advance(t) PROVE Inv'
    BY <2>5 DEF Advance
  <2>6. ASSUME NEW t \in Threads, Point(t) PROVE Inv'
    BY <2>6 DEF Point
  <2>7. ASSUME NEW t \in Threads, SpillMalloc(t) PROVE Inv'
    BY <2>7 DEF SpillMalloc
  <2>8. ASSUME NEW t \in Threads, SpillPush(t) PROVE Inv'
    BY <2>8 DEF SpillPush
  <2>9. ASSUME NEW t \in Threads, SpillCount(t) PROVE Inv'
    BY <2>9 DEF SpillCount
  <2>10. CASE OwnerStep
    <3>1. CASE FreeSpills
      BY <3>1 DEF FreeSpills
    <3>2. CASE ClearSpills
      BY <3>2 DEF ClearSpills
    <3>3. CASE LoadCycle
      BY <3>3 DEF LoadCycle
    <3>4. CASE InitReplaces
      BY <3>4 DEF InitReplaces
    <3>5. CASE InitKeeps
      BY <3>5 DEF InitKeeps
    <3>6. CASE InitResizes
      BY <3>6 DEF InitResizes
    <3>7. CASE ResetCycle
      BY <3>7 DEF ResetCycle, OwnInv, NoneListed
    <3>8. QED
      BY <2>10, <3>1, <3>2, <3>3, <3>4, <3>5, <3>6, <3>7 DEF OwnerStep
  <2>11. CASE ScopeIn
    BY <2>11 DEF ScopeIn
  <2>12. CASE ScopeOut
    BY <2>12 DEF ScopeOut
  <2>13. CASE Destroy
    BY <2>13 DEF Destroy
  <2>14. CASE UNCHANGED vars
    BY <2>14 DEF vars
  <2>15. QED
    BY <2>1, <2>2, <2>3, <2>4, <2>5, <2>6, <2>7, <2>8, <2>9, <2>10, <2>11,
       <2>12, <2>13, <2>14 DEF Next, Allocate
<1>3. QED
  <2>1. Spec => []OwnInv
    BY BlocksAreInvariant, PTL
  <2>2. Spec => []SumsOK
    BY SumsAreNat, TypeCorrect, CountsAreInvariant, PTL
  <2>3. QED
    BY <1>1, <1>2, <2>1, <2>2, TypeCorrect, ArenaIsInvariant, DisciplineIsKept,
       BalanceIsInvariant, PTL DEF Spec

=============================================================================
