------------------------------- MODULE Sessions -------------------------------
(***************************************************************************)
(* SessionLocalStorage of include/graph/SessionLocalStorage.h: each thread *)
(* starts a session of its own and works on that session's clone of one    *)
(* VariableSpace.  A clone is named by the session it was made for.        *)
(*                                                                         *)
(* Each critical section of _mutex is one step, except that of a lookup    *)
(* that throws: std::map::at() leaves the mutex locked for ever.           *)
(***************************************************************************)
EXTENDS Naturals, FiniteSets

CONSTANTS
  Threads,
  NoThread,     \* the holder of a free mutex
  MaxSessions   \* bound on the calls of startSession()

ASSUME SessionsAssumption == NoThread \notin Threads /\ MaxSessions \in Nat

VARIABLES
  counter,        \* _sessionCounter
  threadSession,  \* _threadSession, thread -> session
  spaces,         \* keys of _threadVariableSpace
  clones,         \* the clones on the heap
  held,           \* the thread that holds _mutex between steps
  pc,             \* where each thread is in the storage
  ntid,           \* the session its call works on
  mine,           \* client: the last session startSession() gave it, 0: none
  implicit,       \* client: was the lookup asked without a session id?
  local,          \* client: the space its last lookup returned, 0: none
  paired          \* do clients call the storage only between start and end?

vars == <<counter, threadSession, spaces, clones, held, pc, ntid, mine,
          implicit, local, paired>>
clientVars == <<mine, implicit, local, paired>>

Init ==
  /\ counter = 1
  /\ threadSession = [t \in {} |-> 0]
  /\ spaces = {}
  /\ clones = {}
  /\ held = NoThread
  /\ pc = [t \in Threads |-> "idle"]
  /\ ntid = [t \in Threads |-> 0]
  /\ mine = [t \in Threads |-> 0]
  /\ implicit = [t \in Threads |-> FALSE]
  /\ local = [t \in Threads |-> 0]
  /\ paired \in BOOLEAN

At(t, place) == pc[t] = place
Enter(t, to) == pc' = [pc EXCEPT ![t] = to]
Lock == held = NoThread

\* _threadSession[tid]: a thread without a session is entered with session 0.
SessionOf(t) == IF t \in DOMAIN threadSession THEN threadSession[t] ELSE 0
WithSession(t, s) ==
  [u \in DOMAIN threadSession \cup {t} |->
     IF u = t THEN s ELSE threadSession[u]]
WithoutThread(t) ==
  [u \in DOMAIN threadSession \ {t} |-> threadSession[u]]

\* Fault: the session number is read and stored back by two threads at once.
StartCount_Torn(t) ==
  /\ At(t, "idle")
  /\ paired => mine[t] = 0
  /\ counter <= MaxSessions
  /\ ntid' = [ntid EXCEPT ![t] = counter]
  /\ counter' \in {counter, counter + 1}
  /\ Enter(t, "starting")
  /\ UNCHANGED <<threadSession, spaces, clones, held, clientVars>>

\* startSession(): ntid = _sessionCounter++, atomic but before the lock.
StartCount(t) ==
  /\ At(t, "idle")
  /\ paired => mine[t] = 0
  /\ counter <= MaxSessions
  /\ ntid' = [ntid EXCEPT ![t] = counter]
  /\ counter' = counter + 1
  /\ Enter(t, "starting")
  /\ UNCHANGED <<threadSession, spaces, clones, held, clientVars>>

\* Fault: the session is numbered anew from the counter under the lock.
StartInsert_Recount(t) ==
  /\ At(t, "starting")
  /\ Lock
  /\ threadSession' = WithSession(t, counter - 1)
  /\ spaces' = spaces \cup {counter - 1}
  /\ clones' = clones \cup {counter - 1}
  /\ mine' = [mine EXCEPT ![t] = ntid[t]]
  /\ Enter(t, "idle")
  /\ UNCHANGED <<counter, held, ntid, implicit, local, paired>>

\* Fault: the thread is entered, its clone is not.
StartInsert_NoSpace(t) ==
  /\ At(t, "starting")
  /\ Lock
  /\ threadSession' = WithSession(t, ntid[t])
  /\ clones' = clones \cup {ntid[t]}
  /\ mine' = [mine EXCEPT ![t] = ntid[t]]
  /\ Enter(t, "idle")
  /\ UNCHANGED <<counter, spaces, held, ntid, implicit, local, paired>>

\* ... lock; enter the thread and a clone of the space; unlock; return ntid.
StartInsert(t) ==
  /\ At(t, "starting")
  /\ Lock
  /\ threadSession' = WithSession(t, ntid[t])
  /\ spaces' = spaces \cup {ntid[t]}
  /\ clones' = clones \cup {ntid[t]}
  /\ mine' = [mine EXCEPT ![t] = ntid[t]]
  /\ Enter(t, "idle")
  /\ UNCHANGED <<counter, held, ntid, implicit, local, paired>>

\* Fault: the session of any thread is taken for the caller's.
GetSessionId_Any(t) ==
  /\ At(t, "idle")
  /\ paired => mine[t] # 0
  /\ Lock
  /\ ntid' \in {[ntid EXCEPT ![t] = SessionOf(u)] : u \in Threads}
  /\ threadSession' = WithSession(t, SessionOf(t))
  /\ implicit' = [implicit EXCEPT ![t] = TRUE]
  /\ Enter(t, "looking")
  /\ UNCHANGED <<counter, spaces, clones, held, mine, local, paired>>

\* localVariableSpace(), first half: getSessionId().
GetSessionId(t) ==
  /\ At(t, "idle")
  /\ paired => mine[t] # 0
  /\ Lock
  /\ ntid' = [ntid EXCEPT ![t] = SessionOf(t)]
  /\ threadSession' = WithSession(t, SessionOf(t))
  /\ implicit' = [implicit EXCEPT ![t] = TRUE]
  /\ Enter(t, "looking")
  /\ UNCHANGED <<counter, spaces, clones, held, mine, local, paired>>

\* localVariableSpace(s): a session somebody started, or 0, the one said to
\* hold the original space.
AskSession(t, s) ==
  /\ At(t, "idle")
  /\ s \in IF paired THEN {mine[t]} \ {0} ELSE clones \cup {0}
  /\ ntid' = [ntid EXCEPT ![t] = s]
  /\ implicit' = [implicit EXCEPT ![t] = FALSE]
  /\ Enter(t, "looking")
  /\ UNCHANGED <<counter, threadSession, spaces, clones, held, mine, local,
                 paired>>

\* localVariableSpace(ntid): the space is there and is returned.
Lookup(t) ==
  /\ At(t, "looking")
  /\ Lock
  /\ ntid[t] \in spaces
  /\ local' = [local EXCEPT ![t] = ntid[t]]
  /\ Enter(t, "idle")
  /\ UNCHANGED <<counter, threadSession, spaces, clones, held, ntid, mine,
                 implicit, paired>>

\* localVariableSpace(ntid): at() throws and nobody unlocks the mutex.
LookupThrows(t) ==
  /\ At(t, "looking")
  /\ Lock
  /\ ntid[t] \notin spaces
  /\ held' = t
  /\ Enter(t, "thrown")
  /\ UNCHANGED <<counter, threadSession, spaces, clones, ntid, clientVars>>

\* Fault: the thread is left in _threadSession.
EndTake_KeepsThread(t) ==
  /\ At(t, "idle")
  /\ paired => mine[t] # 0
  /\ Lock
  /\ ntid' = [ntid EXCEPT ![t] = SessionOf(t)]
  /\ mine' = [mine EXCEPT ![t] = 0]
  /\ Enter(t, "ending")
  /\ UNCHANGED <<counter, threadSession, spaces, clones, held, implicit, local,
                 paired>>

\* endSession(), first half: the thread leaves _threadSession.
EndTake(t) ==
  /\ At(t, "idle")
  /\ paired => mine[t] # 0
  /\ Lock
  /\ ntid' = [ntid EXCEPT ![t] = SessionOf(t)]
  /\ threadSession' = WithoutThread(t)
  /\ mine' = [mine EXCEPT ![t] = 0]
  /\ Enter(t, "ending")
  /\ UNCHANGED <<counter, spaces, clones, held, implicit, local, paired>>

\* endSession(s), called by a client with a session somebody started.
EndAsked(t, s) ==
  /\ At(t, "idle")
  /\ ~paired
  /\ s \in clones
  /\ ntid' = [ntid EXCEPT ![t] = s]
  /\ Enter(t, "ending")
  /\ UNCHANGED <<counter, threadSession, spaces, clones, held, clientVars>>

\* endSession(ntid): the space leaves the map and stays on the heap.
EndErase(t) ==
  /\ At(t, "ending")
  /\ Lock
  /\ spaces' = spaces \ {ntid[t]}
  /\ Enter(t, "idle")
  /\ UNCHANGED <<counter, threadSession, clones, held, ntid, clientVars>>

-----------------------------------------------------------------------------

\* The steps of a call that has begun.
CallStep(t) ==
  StartInsert(t) \/ Lookup(t) \/ LookupThrows(t) \/ EndErase(t)

Next == \E t \in Threads :
  \/ StartCount(t)
  \/ GetSessionId(t)
  \/ \E s \in 0 .. MaxSessions : AskSession(t, s)
  \/ EndTake(t)
  \/ \E s \in 1 .. MaxSessions : EndAsked(t, s)
  \/ CallStep(t)

Spec == Init /\ [][Next]_vars

\* Every thread is scheduled; the mutex is free whenever no call has thrown.
FairSpec == Spec /\ \A t \in Threads : WF_vars(CallStep(t))

-----------------------------------------------------------------------------
(* Properties.                                                             *)

\* The maps hold sessions that were counted, by threads that exist.
TypeOK ==
  /\ counter \in 1 .. MaxSessions + 1
  /\ DOMAIN threadSession \subseteq Threads
  /\ \A t \in DOMAIN threadSession : threadSession[t] \in 0 .. counter - 1
  /\ clones \subseteq 1 .. counter - 1
  /\ spaces \subseteq clones
  /\ held \in Threads \cup {NoThread}
  /\ pc \in [Threads -> {"idle", "starting", "looking", "thrown", "ending"}]
  /\ ntid \in [Threads -> 0 .. counter - 1]
  /\ mine \in [Threads -> 0 .. counter - 1]
  /\ implicit \in [Threads -> BOOLEAN]
  /\ local \in [Threads -> 0 .. counter - 1]
  /\ paired \in BOOLEAN

\* startSession() never gives two threads the same session, whatever clients
\* do: numbering happens outside the lock, entering inside.
SessionsDistinct ==
  \A t, u \in DOMAIN threadSession :
    t # u /\ threadSession[t] # 0 => threadSession[t] # threadSession[u]

\* localVariableSpace() takes the mutex twice, once for the session and once
\* for its space: in between, no other thread can make it return the space of
\* a session that is not the caller's last one.
ReturnsOwnSpace ==
  [][\A t \in Threads : Lookup(t) /\ implicit[t] => local'[t] = mine[t]]_vars

\* With paired calls both maps are exact: they hold the sessions that clients
\* have open, and a space outlives its thread's entry only until the second
\* half of endSession().
MapsExact == paired =>
  /\ \A t \in Threads : SessionOf(t) = mine[t]
  /\ spaces = {mine[t] : t \in {u \in Threads : mine[u] # 0}} \cup
              {ntid[t] : t \in {u \in Threads : pc[u] = "ending"}}

\* With paired calls no two threads ever work on the same clone.
ClonesPrivate == paired =>
  \A t, u \in Threads : t # u /\ local[t] # 0 => local[t] # local[u]

\* With paired calls every call returns: no lookup misses, so the mutex is
\* never left locked.
CallsReturn ==
  \A t \in Threads : (paired /\ pc[t] # "idle") ~> (pc[t] = "idle")

\* With paired calls the two maps together are one table of sessions; other
\* clients are promised nothing, and show as an empty table.
Table == INSTANCE SessionTable WITH
  session <- [t \in Threads |-> IF paired THEN SessionOf(t) ELSE 0],
  issued <- IF paired THEN clones ELSE {},
  SessionIds <- 1 .. MaxSessions
ImplementsTable == Table!Spec

\* SessionLocalStorage(): "key 0 holds original VariableSpace".
ZeroIsOriginal == \A t \in Threads : pc[t] = "thrown" => ntid[t] # 0

===============================================================================
