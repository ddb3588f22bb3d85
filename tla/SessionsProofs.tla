---------------------------- MODULE SessionsProofs ----------------------------
(***************************************************************************)
(* Proofs about Sessions for any number of threads and of sessions.        *)
(***************************************************************************)
EXTENDS Sessions, TLAPS

USE SessionsAssumption DEF At, Enter, Lock, clientVars

\* What threadSession[tid] = s does to the sessions of the threads.
LEMMA EnteringThread ==
  ASSUME NEW t \in Threads, NEW s, threadSession' = WithSession(t, s)
  PROVE  /\ SessionOf(t)' = s
         /\ \A u \in Threads \ {t} : SessionOf(u)' = SessionOf(u)
         /\ DOMAIN threadSession' = DOMAIN threadSession \cup {t}
BY DEF WithSession, SessionOf

\* What erase(tid) does to them.
LEMMA LeavingThread ==
  ASSUME NEW t \in Threads, threadSession' = WithoutThread(t)
  PROVE  /\ SessionOf(t)' = 0
         /\ \A u \in Threads \ {t} : SessionOf(u)' = SessionOf(u)
         /\ DOMAIN threadSession' = DOMAIN threadSession \ {t}
BY DEF WithoutThread, SessionOf

\* An action of some thread, or none: the cases every proof below splits in.
LEMMA NextCases ==
  ASSUME [Next]_vars
  PROVE  \/ \E t \in Threads :
              \/ StartCount(t) \/ GetSessionId(t)
              \/ \E s \in 0 .. MaxSessions : AskSession(t, s)
              \/ EndTake(t)
              \/ \E s \in 1 .. MaxSessions : EndAsked(t, s)
              \/ StartInsert(t) \/ Lookup(t) \/ LookupThrows(t) \/ EndErase(t)
         \/ UNCHANGED vars
BY DEF Next, CallStep

-----------------------------------------------------------------------------

(* A session is numbered once and belongs to the thread it was numbered    *)
(* for, whatever clients do.                                               *)

Numbering ==
  /\ \A t \in Threads : pc[t] = "starting" => ntid[t] \notin clones \cup {0}
  /\ \A t, u \in Threads :
       t # u /\ pc[t] = "starting" /\ pc[u] = "starting" => ntid[t] # ntid[u]
  /\ \A t \in Threads : SessionOf(t) \in clones \cup {0}
  /\ \A t, u \in Threads :
       t # u /\ SessionOf(t) # 0 => SessionOf(t) # SessionOf(u)
  /\ \A t \in Threads : SessionOf(t) \in {0, mine[t]}
  /\ \A t \in Threads :
       pc[t] = "looking" /\ implicit[t] => ntid[t] = SessionOf(t)

LEMMA TypesNext == TypeOK /\ Numbering /\ [Next]_vars => TypeOK'
<1> SUFFICES ASSUME TypeOK, Numbering, [Next]_vars PROVE TypeOK'
  OBVIOUS
<1> USE DEF TypeOK
<1>0. \A t \in Threads : SessionOf(t) \in 0 .. counter - 1
  BY DEF SessionOf
<1>1. ASSUME NEW t \in Threads, StartCount(t) PROVE TypeOK'
  <2>1. counter' \in 1 .. MaxSessions + 1 /\ counter' = counter + 1
    BY <1>1 DEF StartCount
  <2>2. 0 .. counter - 1 \subseteq 0 .. counter' - 1
        /\ 1 .. counter - 1 \subseteq 1 .. counter' - 1
        /\ counter \in 0 .. counter' - 1
    BY <2>1
  <2>3. QED
    BY <1>1, <2>1, <2>2 DEF StartCount
<1>2. ASSUME NEW t \in Threads, GetSessionId(t) PROVE TypeOK'
  BY <1>0, <1>2 DEF GetSessionId, WithSession
<1>3. ASSUME NEW t \in Threads, NEW s \in 0 .. MaxSessions, AskSession(t, s)
      PROVE  TypeOK'
  <2>1. s \in 0 .. counter - 1
    BY <1>3 DEF AskSession
  <2>2. QED
    BY <1>3, <2>1 DEF AskSession
<1>4. ASSUME NEW t \in Threads, EndTake(t) PROVE TypeOK'
  BY <1>0, <1>4 DEF EndTake, WithoutThread
<1>5. ASSUME NEW t \in Threads, NEW s \in 1 .. MaxSessions, EndAsked(t, s)
      PROVE  TypeOK'
  BY <1>5 DEF EndAsked
<1>6. ASSUME NEW t \in Threads, StartInsert(t) PROVE TypeOK'
  <2>1. ntid[t] \in 1 .. counter - 1
    BY <1>6 DEF StartInsert, Numbering
  <2>2. QED
    BY <1>6, <2>1 DEF StartInsert, WithSession
<1>7. ASSUME NEW t \in Threads, Lookup(t) PROVE TypeOK'
  BY <1>7 DEF Lookup
<1>8. ASSUME NEW t \in Threads, LookupThrows(t) PROVE TypeOK'
  BY <1>8 DEF LookupThrows
<1>9. ASSUME NEW t \in Threads, EndErase(t) PROVE TypeOK'
  BY <1>9 DEF EndErase
<1>10. CASE UNCHANGED vars
  BY <1>10 DEF vars
<1>11. QED
  BY <1>1, <1>2, <1>3, <1>4, <1>5, <1>6, <1>7, <1>8, <1>9, <1>10, NextCases

LEMMA NumberingNext == TypeOK /\ Numbering /\ [Next]_vars => Numbering'
<1> SUFFICES ASSUME TypeOK, Numbering, [Next]_vars PROVE Numbering'
  OBVIOUS
<1>1. ASSUME NEW t \in Threads, StartCount(t) PROVE Numbering'
  <2>1. counter \notin clones \cup {0}
        /\ \A u \in Threads : ntid[u] # counter
    BY DEF TypeOK
  <2>2. \A u \in Threads : SessionOf(u)' = SessionOf(u)
    BY <1>1 DEF StartCount, SessionOf
  <2>3. QED
    BY <1>1, <2>1, <2>2 DEF StartCount, TypeOK, Numbering
<1>2. ASSUME NEW t \in Threads, GetSessionId(t) PROVE Numbering'
  <2>1. \A u \in Threads : SessionOf(u)' = SessionOf(u)
    BY <1>2, EnteringThread DEF GetSessionId
  <2>2. QED
    BY <1>2, <2>1 DEF GetSessionId, TypeOK, Numbering
<1>3. ASSUME NEW t \in Threads, NEW s \in 0 .. MaxSessions, AskSession(t, s)
      PROVE  Numbering'
  BY <1>3 DEF AskSession, SessionOf, TypeOK, Numbering
<1>4. ASSUME NEW t \in Threads, EndTake(t) PROVE Numbering'
  <2>1. SessionOf(t)' = 0
        /\ \A u \in Threads \ {t} : SessionOf(u)' = SessionOf(u)
    BY <1>4, LeavingThread DEF EndTake
  <2>2. QED
    BY <1>4, <2>1 DEF EndTake, TypeOK, Numbering
<1>5. ASSUME NEW t \in Threads, NEW s \in 1 .. MaxSessions, EndAsked(t, s)
      PROVE  Numbering'
  BY <1>5 DEF EndAsked, SessionOf, TypeOK, Numbering
<1>6. ASSUME NEW t \in Threads, StartInsert(t) PROVE Numbering'
  <2>1. SessionOf(t)' = ntid[t]
        /\ \A u \in Threads \ {t} : SessionOf(u)' = SessionOf(u)
    BY <1>6, EnteringThread DEF StartInsert
  <2>2. QED
    BY <1>6, <2>1 DEF StartInsert, TypeOK, Numbering
<1>7. ASSUME NEW t \in Threads, Lookup(t) PROVE Numbering'
  BY <1>7 DEF Lookup, SessionOf, TypeOK, Numbering
<1>8. ASSUME NEW t \in Threads, LookupThrows(t) PROVE Numbering'
  BY <1>8 DEF LookupThrows, SessionOf, TypeOK, Numbering
<1>9. ASSUME NEW t \in Threads, EndErase(t) PROVE Numbering'
  BY <1>9 DEF EndErase, SessionOf, TypeOK, Numbering
<1>10. CASE UNCHANGED vars
  BY <1>10 DEF vars, SessionOf, Numbering
<1>11. QED
  BY <1>1, <1>2, <1>3, <1>4, <1>5, <1>6, <1>7, <1>8, <1>9, <1>10, NextCases

LEMMA NumberingInit == Init => TypeOK /\ Numbering
BY DEF Init, TypeOK, Numbering, SessionOf

\* Both maps stay within the sessions that were counted.
THEOREM TypesHold == Spec => []TypeOK
BY NumberingInit, TypesNext, NumberingNext, PTL DEF Spec

\* Whatever clients do, no two threads are entered with the same session.
THEOREM SessionsAreDistinct == Spec => []SessionsDistinct
<1>1. TypeOK /\ Numbering => SessionsDistinct
  BY DEF TypeOK, Numbering, SessionsDistinct, SessionOf
<1>2. QED
  BY <1>1, NumberingInit, TypesNext, NumberingNext, PTL DEF Spec

\* Whatever clients do, localVariableSpace() returns the space of the caller's
\* last session or throws.
THEOREM LookupReturnsOwnSpace == Spec => ReturnsOwnSpace
<1>1. TypeOK /\ Numbering
        => \A t \in Threads : Lookup(t) /\ implicit[t] => local'[t] = mine[t]
  BY DEF TypeOK, Numbering, Lookup
<1>2. QED
  BY <1>1, NumberingInit, TypesNext, NumberingNext, PTL
  DEF Spec, ReturnsOwnSpace

-----------------------------------------------------------------------------
(* Clients that pair their calls.                                          *)

\* The sessions a thread has to do with: no two threads have one in common.
Own(t) == {mine[t], local[t], ntid[t]} \ {0}

\* Thread t is why session s has a space.
Keeps(t, s) == s # 0 /\ (s = mine[t] \/ (s = ntid[t] /\ pc[t] = "ending"))

PairedInv ==
  /\ \A t \in Threads : SessionOf(t) = mine[t]
  /\ \A s : s \in spaces <=> \E t \in Threads : Keeps(t, s)
  /\ \A t, u \in Threads : t # u => Own(t) \cap Own(u) = {}
  /\ \A t \in Threads :
       /\ pc[t] # "thrown"
       /\ pc[t] \in {"starting", "ending"} => mine[t] = 0
       /\ pc[t] = "ending" => ntid[t] # 0
       /\ pc[t] = "looking" => ntid[t] = mine[t]
       /\ pc[t] = "looking" => mine[t] # 0

LEMMA PairedInit == Init => PairedInv
BY DEF Init, PairedInv, Keeps, Own, SessionOf

\* When only thread t moves and its part of PairedInv is kept, all of it is.
LEMMA OneThreadMoves ==
  ASSUME PairedInv, NEW t \in Threads,
         \A u \in Threads \ {t} : /\ SessionOf(u)' = SessionOf(u)
                                  /\ pc'[u] = pc[u] /\ ntid'[u] = ntid[u]
                                  /\ mine'[u] = mine[u] /\ local'[u] = local[u],
         SessionOf(t)' = mine'[t],
         \A s : s \in spaces'
                  <=> (Keeps(t, s)' \/ (s \in spaces /\ ~Keeps(t, s))),
         \A u \in Threads \ {t} : (Own(t)') \cap Own(u) = {},
         pc'[t] # "thrown",
         pc'[t] \in {"starting", "ending"} => mine'[t] = 0,
         pc'[t] = "ending" => ntid'[t] # 0,
         pc'[t] = "looking" => ntid'[t] = mine'[t] /\ mine'[t] # 0
  PROVE  PairedInv'
<1>1. \A u \in Threads \ {t} : Own(u)' = Own(u)
  BY DEF Own
<1>2. \A u, v \in Threads : u # v => (Own(u)') \cap (Own(v)') = {}
  BY <1>1 DEF PairedInv
<1>3. \A u \in Threads : SessionOf(u)' = mine'[u]
  BY DEF PairedInv
<1>4. \A s : s \in spaces' <=> \E u \in Threads : Keeps(u, s)'
  <2>1. \A s : \A u \in Threads \ {t} : (Keeps(u, s)') <=> Keeps(u, s)
    BY DEF Keeps
  <2>2. \A s : Keeps(t, s) => \A u \in Threads \ {t} : ~Keeps(u, s)
    BY DEF PairedInv, Keeps, Own
  <2>3. \A s : s \in spaces <=> \E u \in Threads : Keeps(u, s)
    BY DEF PairedInv
  <2>4. QED
    BY <2>1, <2>2, <2>3
<1>5. QED
  BY <1>2, <1>3, <1>4 DEF PairedInv

\* How a client uses the storage is settled from the start.
LEMMA PairedForGood == [Next]_vars => paired' = paired
BY NextCases DEF vars, StartCount, GetSessionId, AskSession, EndTake, EndAsked,
                 StartInsert, Lookup, LookupThrows, EndErase

LEMMA PairedNext ==
  ASSUME TypeOK, Numbering, paired, PairedInv, [Next]_vars PROVE PairedInv'
<1>0. /\ \A t \in Threads : SessionOf(t) = mine[t]
      /\ \A t, u \in Threads : t # u => Own(t) \cap Own(u) = {}
  BY DEF PairedInv
<1>1. ASSUME NEW t \in Threads, StartCount(t) PROVE PairedInv'
  <2>1. \A u \in Threads : counter \notin Own(u)
    BY DEF TypeOK, Own
  <2>2. \A u \in Threads : SessionOf(u)' = SessionOf(u)
    BY <1>1 DEF StartCount, SessionOf
  <2>3. (Own(t)') \subseteq Own(t) \cup {counter}
    BY <1>1 DEF StartCount, TypeOK, Own
  <2>4. \A s : ~ (s \in spaces /\ Keeps(t, s)) /\ ~ (Keeps(t, s)')
    BY <1>1 DEF StartCount, TypeOK, Keeps
  <2>5. QED
    BY <1>0, <1>1, <2>1, <2>2, <2>3, <2>4, OneThreadMoves
    DEF StartCount, TypeOK
<1>2. ASSUME NEW t \in Threads, GetSessionId(t) PROVE PairedInv'
  <2>1. \A u \in Threads : SessionOf(u)' = SessionOf(u)
    BY <1>2, EnteringThread DEF GetSessionId
  <2>2. (Own(t)') \subseteq Own(t)
    BY <1>0, <1>2 DEF GetSessionId, TypeOK, Own
  <2>3. \A s : (Keeps(t, s)') <=> Keeps(t, s)
    BY <1>2 DEF GetSessionId, TypeOK, Keeps
  <2>4. mine[t] # 0 /\ ntid'[t] = mine'[t]
    BY <1>0, <1>2 DEF GetSessionId, TypeOK
  <2>5. QED
    BY <1>0, <1>2, <2>1, <2>2, <2>3, <2>4, OneThreadMoves
    DEF GetSessionId, TypeOK, PairedInv
<1>3. ASSUME NEW t \in Threads, NEW s \in 0 .. MaxSessions, AskSession(t, s)
      PROVE  PairedInv'
  <2>1. \A u \in Threads : SessionOf(u)' = SessionOf(u)
    BY <1>3 DEF AskSession, SessionOf
  <2>2. (Own(t)') \subseteq Own(t)
    BY <1>3 DEF AskSession, TypeOK, Own
  <2>3. \A x : (Keeps(t, x)') <=> Keeps(t, x)
    BY <1>3 DEF AskSession, TypeOK, Keeps
  <2>4. mine[t] # 0 /\ ntid'[t] = mine'[t]
    BY <1>3 DEF AskSession, TypeOK
  <2>5. QED
    BY <1>0, <1>3, <2>1, <2>2, <2>3, <2>4, OneThreadMoves
    DEF AskSession, TypeOK, PairedInv
<1>4. ASSUME NEW t \in Threads, EndTake(t) PROVE PairedInv'
  <2>1. SessionOf(t)' = 0
        /\ \A u \in Threads \ {t} : SessionOf(u)' = SessionOf(u)
    BY <1>4, LeavingThread DEF EndTake
  <2>2. (Own(t)') \subseteq Own(t)
    BY <1>0, <1>4 DEF EndTake, TypeOK, Own
  <2>3. \A s : (Keeps(t, s)') <=> Keeps(t, s)
    BY <1>0, <1>4 DEF EndTake, TypeOK, Keeps
  <2>4. QED
    BY <1>0, <1>4, <2>1, <2>2, <2>3, OneThreadMoves
    DEF EndTake, TypeOK, PairedInv
<1>5. ASSUME NEW t \in Threads, NEW s \in 1 .. MaxSessions, EndAsked(t, s)
      PROVE  PairedInv'
  BY <1>5 DEF EndAsked
<1>6. ASSUME NEW t \in Threads, StartInsert(t) PROVE PairedInv'
  <2>1. SessionOf(t)' = ntid[t]
        /\ \A u \in Threads \ {t} : SessionOf(u)' = SessionOf(u)
    BY <1>6, EnteringThread DEF StartInsert
  <2>2. (Own(t)') \subseteq Own(t)
    BY <1>6 DEF StartInsert, TypeOK, Own
  <2>3. ntid[t] # 0 /\ mine[t] = 0
    BY <1>6 DEF StartInsert, Numbering, PairedInv
  <2>4. \A s : ~Keeps(t, s) /\ ((Keeps(t, s)') <=> s = ntid[t])
    BY <1>6, <2>3 DEF StartInsert, TypeOK, Keeps
  <2>5. QED
    BY <1>0, <1>6, <2>1, <2>2, <2>4, OneThreadMoves DEF StartInsert, TypeOK
<1>7. ASSUME NEW t \in Threads, Lookup(t) PROVE PairedInv'
  <2>1. \A u \in Threads : SessionOf(u)' = SessionOf(u)
    BY <1>7 DEF Lookup, SessionOf
  <2>2. (Own(t)') \subseteq Own(t)
    BY <1>7 DEF Lookup, TypeOK, Own
  <2>3. \A s : (Keeps(t, s)') <=> Keeps(t, s)
    BY <1>7 DEF Lookup, TypeOK, Keeps
  <2>4. QED
    BY <1>0, <1>7, <2>1, <2>2, <2>3, OneThreadMoves
    DEF Lookup, TypeOK, PairedInv
<1>8. ASSUME NEW t \in Threads, LookupThrows(t) PROVE FALSE
  <2>1. ntid[t] = mine[t] /\ mine[t] # 0
    BY <1>8 DEF LookupThrows, PairedInv
  <2>2. Keeps(t, ntid[t])
    BY <2>1 DEF Keeps
  <2>3. QED
    BY <1>8, <2>2 DEF LookupThrows, PairedInv
<1>9. ASSUME NEW t \in Threads, EndErase(t) PROVE PairedInv'
  <2>1. \A u \in Threads : SessionOf(u)' = SessionOf(u)
    BY <1>9 DEF EndErase, SessionOf
  <2>2. (Own(t)') \subseteq Own(t)
    BY <1>9 DEF EndErase, TypeOK, Own
  <2>3. mine[t] = 0 /\ pc[t] = "ending"
    BY <1>9 DEF EndErase, PairedInv
  <2>4. \A s : ~ (Keeps(t, s)') /\ (Keeps(t, s) <=> s # 0 /\ s = ntid[t])
    BY <1>9, <2>3 DEF EndErase, TypeOK, Keeps
  <2>5. 0 \notin spaces
    BY DEF PairedInv, Keeps
  <2>6. \A s : s \in spaces' <=> s \in spaces /\ ~Keeps(t, s)
    BY <1>9, <2>4, <2>5 DEF EndErase
  <2>7. QED
    BY <1>0, <1>9, <2>1, <2>2, <2>3, <2>4, <2>6, OneThreadMoves
    DEF EndErase, TypeOK
<1>10. CASE UNCHANGED vars
  BY <1>10 DEF vars, SessionOf, PairedInv, Keeps, Own
<1>11. QED
  BY <1>1, <1>2, <1>3, <1>4, <1>5, <1>6, <1>7, <1>8, <1>9, <1>10, NextCases

\* The maps hold the open sessions and nothing else, whatever the interleaving
\* of the two halves of each call.
THEOREM MapsStayExact == Spec => []MapsExact
<1>1. (paired => PairedInv) => MapsExact
  <2> SUFFICES ASSUME paired, PairedInv PROVE MapsExact
    BY DEF MapsExact
  <2> DEFINE Open == {mine[t] : t \in {u \in Threads : mine[u] # 0}}
             Closing == {ntid[t] : t \in {u \in Threads : pc[u] = "ending"}}
  <2>1. \A s : s \in spaces <=> s \in Open \cup Closing
    BY DEF PairedInv, Keeps
  <2>2. QED
    BY <2>1 DEF PairedInv, MapsExact
<1>2. TypeOK /\ Numbering /\ (paired => PairedInv) /\ [Next]_vars
        => (paired => PairedInv)'
  BY PairedNext, PairedForGood
<1>3. QED
  BY <1>1, <1>2, PairedInit, NumberingInit, TypesNext, NumberingNext, PTL
  DEF Spec

\* No two threads ever hold the same clone.
THEOREM ClonesStayPrivate == Spec => []ClonesPrivate
<1>1. (paired => PairedInv) => ClonesPrivate
  BY DEF PairedInv, ClonesPrivate, Own
<1>2. TypeOK /\ Numbering /\ (paired => PairedInv) /\ [Next]_vars
        => (paired => PairedInv)'
  BY PairedNext, PairedForGood
<1>3. QED
  BY <1>1, <1>2, PairedInit, NumberingInit, TypesNext, NumberingNext, PTL
  DEF Spec

-----------------------------------------------------------------------------
(* The two maps, and the two halves of each call, implement one table.     *)

Sess == [t \in Threads |-> IF paired THEN SessionOf(t) ELSE 0]

LEMMA StepsOfTable ==
  ASSUME TypeOK, Numbering, paired, PairedInv, [Next]_vars
  PROVE  [Table!Next]_(Table!vars)
<1> USE DEF Table!vars, Table!Next
<1>0. paired'
  BY PairedForGood
<1>1. ASSUME \A t \in Threads : SessionOf(t)' = SessionOf(t), clones' = clones
      PROVE  UNCHANGED Table!vars
  BY <1>0, <1>1
<1>2. ASSUME NEW t \in Threads, StartInsert(t) PROVE Table!Start(t)
  <2>1. SessionOf(t)' = ntid[t]
        /\ \A u \in Threads \ {t} : SessionOf(u)' = SessionOf(u)
    BY <1>2, EnteringThread DEF StartInsert
  <2>2. Sess' = [Sess EXCEPT ![t] = ntid[t]]
    BY <1>0, <2>1 DEF Sess
  <2>3. SessionOf(t) = 0
    BY <1>2 DEF StartInsert, PairedInv
  <2>4. ntid[t] \in (1 .. MaxSessions) \ clones
    <3>1. ntid[t] \in 0 .. counter - 1 /\ counter - 1 <= MaxSessions
      BY DEF TypeOK
    <3>2. ntid[t] # 0 /\ ntid[t] \notin clones
      BY <1>2 DEF StartInsert, Numbering
    <3>3. QED
      BY <3>1, <3>2 DEF TypeOK
  <2>5. QED
    BY <1>0, <1>2, <2>2, <2>3, <2>4 DEF StartInsert, Table!Start, Sess
<1>3. ASSUME NEW t \in Threads, EndTake(t) PROVE Table!End(t)
  <2>1. SessionOf(t)' = 0
        /\ \A u \in Threads \ {t} : SessionOf(u)' = SessionOf(u)
    BY <1>3, LeavingThread DEF EndTake
  <2>2. Sess' = [Sess EXCEPT ![t] = 0]
    BY <1>0, <2>1 DEF Sess
  <2>3. SessionOf(t) # 0
    BY <1>3 DEF EndTake, PairedInv
  <2>4. QED
    BY <1>0, <1>3, <2>2, <2>3 DEF EndTake, Table!End, Sess
<1>4. ASSUME NEW t \in Threads, GetSessionId(t) PROVE UNCHANGED Table!vars
  BY <1>1, <1>4, EnteringThread DEF GetSessionId
<1>5. ASSUME NEW t \in Threads,
             \/ StartCount(t) \/ Lookup(t) \/ LookupThrows(t) \/ EndErase(t)
             \/ \E s \in 0 .. MaxSessions : AskSession(t, s)
             \/ \E s \in 1 .. MaxSessions : EndAsked(t, s)
      PROVE  UNCHANGED Table!vars
  BY <1>1, <1>5 DEF StartCount, Lookup, LookupThrows, EndErase, AskSession,
                    EndAsked, SessionOf
<1>6. CASE UNCHANGED vars
  BY <1>1, <1>6 DEF vars, SessionOf
<1>7. QED
  BY <1>2, <1>3, <1>4, <1>5, <1>6, NextCases

\* To clients that pair their calls, SessionLocalStorage is a table in which a
\* thread has at most one session, its own, and never the same one again.
THEOREM SessionsImplementTable == Spec => ImplementsTable
<1>1. Init => Table!Init
  BY DEF Init, Table!Init, SessionOf
<1>2. TypeOK /\ Numbering /\ (paired => PairedInv) /\ [Next]_vars
        => [Table!Next]_(Table!vars)
  <2> SUFFICES ASSUME TypeOK, Numbering, paired => PairedInv, [Next]_vars
               PROVE  [Table!Next]_(Table!vars)
    OBVIOUS
  <2>1. CASE paired
    BY <2>1, StepsOfTable
  <2>2. CASE ~paired
    BY <2>2, PairedForGood DEF Table!vars
  <2>3. QED
    BY <2>1, <2>2
<1>3. TypeOK /\ Numbering /\ (paired => PairedInv) /\ [Next]_vars
        => (paired => PairedInv)'
  BY PairedNext, PairedForGood
<1>4. QED
  BY <1>1, <1>2, <1>3, PairedInit, NumberingInit, TypesNext, NumberingNext, PTL
  DEF Spec, ImplementsTable, Table!Spec

===============================================================================
