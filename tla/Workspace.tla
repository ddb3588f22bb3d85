------------------------------ MODULE Workspace ------------------------------
(***************************************************************************)
(* The scoped memory arena of include/memory/cpu/Workspace.cpp: one buffer *)
(* that requests are carved from, a list of separately malloc'ed "spills"  *)
(* for the requests that do not fit, and a per-cycle counter from which    *)
(* scopeIn() learns how large the buffer has to be next time.              *)
(*                                                                         *)
(* Threads call allocateBytes() concurrently; each call is split at every  *)
(* atomic access and every lock operation of the source.  One more party,  *)
(* the scope owner, calls scopeIn(), scopeOut() and the destructor, none   *)
(* of which takes a lock.  A disciplined owner makes these calls only      *)
(* while no allocation is in flight, and its clients allocate only between *)
(* scopeIn() and scopeOut(), as the tests do; otherwise the calls race.    *)
(***************************************************************************)
EXTENDS Integers, Sequences, FiniteSets

CONSTANTS
  Threads,      \* threads that call allocateBytes()
  Sizes,        \* request sizes, in bytes
  InitialSize,  \* the constructor's initialSize
  Blocks,       \* addresses malloc() can return: bounds the live heap
  NoBlock,      \* an uninitialised or null pointer
  NoThread,     \* nobody holds the mutex
  MaxDemand,    \* bound: bytes requested in one cycle
  MaxCycles     \* bound: completed scopeIn() calls

ASSUME WorkspaceAssumption ==
  /\ Sizes \subseteq Nat \ {0}
  /\ InitialSize \in Nat
  /\ NoThread \notin Threads
  /\ Blocks # {} /\ NoBlock \notin Blocks
  /\ MaxDemand \in Nat
  /\ MaxCycles \in Nat

VARIABLES
  ptrHost,      \* _ptrHost: the block the buffer lives in
  bufBytes,     \* how many bytes that block really has
  currentSize,  \* _currentSize: how many bytes allocateBytes() believes it has
  offset,       \* _offset
  cycleAllocations,  \* _cycleAllocations
  spills,       \* _spills, with the size of each block
  spillsSize,   \* _spillsSize
  mutex,        \* holder of _mutexAllocation
  pc,           \* where each thread is in allocateBytes()
  req,          \* numBytes of that call
  mine,         \* p of that call, once malloc'ed
  owner,        \* where the scope owner is in scopeIn()
  bytes,        \* the argument of init() in that call
  heap,         \* blocks malloc'ed and not freed
  granted,      \* buffer regions handed out since the last scopeOut(), in order
  inScope,      \* between scopeIn() and scopeOut(), or before the first one
  cycles,       \* completed scopeIn() calls
  peak,         \* history: largest total a finished cycle asked for
  disciplined   \* are scope calls ordered with respect to allocations?

arenaVars == <<ptrHost, bufBytes, currentSize, offset>>
countVars == <<cycleAllocations, spills, spillsSize>>
threadVars == <<mutex, pc, req, mine>>
ownerVars == <<owner, bytes, inScope, cycles, peak, disciplined>>
vars == <<arenaVars, countVars, threadVars, ownerVars, heap, granted>>

ThreadStates == {"idle", "lock", "check", "advance", "point", "malloc",
                 "push", "count"}
OwnerStates == {"idle", "free", "clear", "load", "init", "resize", "reset",
                "destroyed"}

Quiet == \A t \in Threads : pc[t] = "idle"

\* The address malloc() returns next.
Fresh == CHOOSE b \in Blocks : b \notin heap

\* Thread t moves on to state s of allocateBytes().
Goto(t, s) == pc' = [pc EXCEPT ![t] = s]

-----------------------------------------------------------------------------
(* The constructor: no buffer at all when initialSize is 0.               *)

Init ==
  /\ IF InitialSize > 0
       THEN /\ ptrHost = CHOOSE b \in Blocks : TRUE
            /\ heap = {ptrHost}
       ELSE ptrHost = NoBlock /\ heap = {}
  /\ bufBytes = InitialSize
  /\ currentSize = InitialSize
  /\ offset = 0
  /\ cycleAllocations = 0
  /\ spills = {}
  /\ spillsSize = 0
  /\ mutex = NoThread
  /\ pc = [t \in Threads |-> "idle"]
  /\ req = [t \in Threads |-> 0]
  /\ mine = [t \in Threads |-> NoBlock]
  /\ owner = "idle"
  /\ bytes = 0
  /\ granted = <<>>
  /\ inScope = TRUE
  /\ cycles = 0
  /\ peak = 0
  /\ disciplined \in BOOLEAN

-----------------------------------------------------------------------------
(* allocateBytes(numBytes), one action per atomic step.                    *)

\* The call begins: the request is counted before any lock is taken.
Begin(t, n) ==
  /\ pc[t] = "idle"
  /\ owner # "destroyed"
  /\ disciplined => (owner = "idle" /\ inScope)
  /\ cycleAllocations + n <= MaxDemand
  /\ cycleAllocations' = cycleAllocations + n
  /\ req' = [req EXCEPT ![t] = n]
  /\ Goto(t, "lock")
  /\ UNCHANGED <<arenaVars, spills, spillsSize, mutex, mine, ownerVars,
                 heap, granted>>

Lock(t) ==
  /\ pc[t] = "lock"
  /\ mutex = NoThread
  /\ mutex' = t
  /\ Goto(t, "check")
  /\ UNCHANGED <<arenaVars, countVars, req, mine, ownerVars, heap, granted>>

\* Fault: the mutex stays locked on the way to a spill.
CheckFails_KeepsMutex(t) ==
  /\ pc[t] = "check"
  /\ offset + req[t] > currentSize
  /\ Goto(t, "malloc")
  /\ UNCHANGED <<arenaVars, countVars, mutex, req, mine, ownerVars, heap,
                 granted>>

\* The request does not fit: the mutex is released and the call spills.
CheckFails(t) ==
  /\ pc[t] = "check"
  /\ offset + req[t] > currentSize
  /\ mutex' = NoThread
  /\ Goto(t, "malloc")
  /\ UNCHANGED <<arenaVars, countVars, req, mine, ownerVars, heap, granted>>

\* Fault: the mutex is released once the request is known to fit.
CheckFits_Unlocks(t) ==
  /\ pc[t] = "check"
  /\ offset + req[t] <= currentSize
  /\ mutex' = NoThread
  /\ Goto(t, "advance")
  /\ UNCHANGED <<arenaVars, countVars, req, mine, ownerVars, heap, granted>>

\* Fault: only the start of the region is compared with the size.
CheckFits_IgnoresLength(t) ==
  /\ pc[t] = "check"
  /\ offset <= currentSize
  /\ Goto(t, "advance")
  /\ UNCHANGED <<arenaVars, countVars, mutex, req, mine, ownerVars, heap,
                 granted>>


CheckFits(t) ==
  /\ pc[t] = "check"
  /\ offset + req[t] <= currentSize
  /\ Goto(t, "advance")
  /\ UNCHANGED <<arenaVars, countVars, mutex, req, mine, ownerVars, heap,
                 granted>>

Advance(t) ==
  /\ pc[t] = "advance"
  /\ offset' = offset + req[t]
  /\ Goto(t, "point")
  /\ UNCHANGED <<ptrHost, bufBytes, currentSize, countVars, mutex, req, mine,
                 ownerVars, heap, granted>>

\* The pointer is taken after the offset has moved past the request.
Point(t) ==
  /\ pc[t] = "point"
  /\ granted' = Append(granted, [start |-> offset, bytes |-> req[t]])
  /\ mutex' = NoThread
  /\ Goto(t, "idle")
  /\ UNCHANGED <<arenaVars, countVars, req, mine, ownerVars, heap>>

\* malloc() of a spill; an exhausted heap is outside the model.
SpillMalloc(t) ==
  /\ pc[t] = "malloc"
  /\ heap # Blocks
  /\ heap' = heap \cup {Fresh}
  /\ mine' = [mine EXCEPT ![t] = Fresh]
  /\ Goto(t, "push")
  /\ UNCHANGED <<arenaVars, countVars, mutex, req, ownerVars, granted>>

\* _mutexSpills guards only this push, so lock, push and unlock are one step.
SpillPush(t) ==
  /\ pc[t] = "push"
  /\ spills' = spills \cup {[block |-> mine[t], bytes |-> req[t]]}
  /\ mine' = [mine EXCEPT ![t] = NoBlock]
  /\ Goto(t, "count")
  /\ UNCHANGED <<arenaVars, cycleAllocations, spillsSize, mutex, req,
                 ownerVars, heap, granted>>

\* Fault: a spill is pushed and never counted.
SpillCount_Skips(t) ==
  /\ pc[t] = "count"
  /\ Goto(t, "idle")
  /\ UNCHANGED <<arenaVars, countVars, mutex, req, mine, ownerVars, heap,
                 granted>>


SpillCount(t) ==
  /\ pc[t] = "count"
  /\ spillsSize' = spillsSize + req[t]
  /\ Goto(t, "idle")
  /\ UNCHANGED <<arenaVars, cycleAllocations, spills, mutex, req, mine,
                 ownerVars, heap, granted>>

-----------------------------------------------------------------------------
(* scopeIn(): freeSpills(), init(_cycleAllocations), reset.  No locks.     *)

\* freeSpills() begins: the counter is cleared first.
ScopeIn ==
  /\ owner = "idle"
  /\ cycles < MaxCycles
  /\ disciplined => (Quiet /\ ~inScope)
  /\ spillsSize' = 0
  /\ owner' = "free"
  /\ UNCHANGED <<arenaVars, cycleAllocations, spills, threadVars, bytes,
                 inScope, cycles, peak, disciplined, heap, granted>>

FreeSpills ==
  /\ owner = "free"
  /\ heap' = heap \ {s.block : s \in spills}
  /\ owner' = "clear"
  /\ UNCHANGED <<arenaVars, countVars, threadVars, bytes, inScope, cycles,
                 peak, disciplined, granted>>

ClearSpills ==
  /\ owner = "clear"
  /\ spills' = {}
  /\ owner' = "load"
  /\ UNCHANGED <<arenaVars, cycleAllocations, spillsSize, threadVars, bytes,
                 inScope, cycles, peak, disciplined, heap, granted>>

\* Fault: the buffer is sized for the spills instead of the whole cycle.
LoadCycle_SpillsOnly ==
  /\ owner = "load"
  /\ bytes' = spillsSize
  /\ owner' = "init"
  /\ UNCHANGED <<arenaVars, countVars, threadVars, inScope, cycles, peak,
                 disciplined, heap, granted>>


LoadCycle ==
  /\ owner = "load"
  /\ bytes' = cycleAllocations
  /\ owner' = "init"
  /\ UNCHANGED <<arenaVars, countVars, threadVars, inScope, cycles, peak,
                 disciplined, heap, granted>>

\* Fault: the old buffer is not freed.
InitReplaces_Leaks ==
  /\ owner = "init"
  /\ currentSize < bytes
  /\ heap # Blocks
  /\ heap' = heap \cup {Fresh}
  /\ ptrHost' = Fresh
  /\ bufBytes' = bytes
  /\ owner' = "resize"
  /\ UNCHANGED <<currentSize, offset, countVars, threadVars, bytes, inScope,
                 cycles, peak, disciplined, granted>>

\* init(bytes) replaces the buffer, and sets _currentSize only afterwards.
InitReplaces ==
  /\ owner = "init"
  /\ currentSize < bytes
  /\ heap \ {ptrHost} # Blocks
  /\ LET kept == heap \ {ptrHost}
         new == CHOOSE b \in Blocks : b \notin kept
     IN  heap' = kept \cup {new} /\ ptrHost' = new
  /\ bufBytes' = bytes
  /\ owner' = "resize"
  /\ UNCHANGED <<currentSize, offset, countVars, threadVars, bytes, inScope,
                 cycles, peak, disciplined, granted>>

InitKeeps ==
  /\ owner = "init"
  /\ currentSize >= bytes
  /\ owner' = "reset"
  /\ UNCHANGED <<arenaVars, countVars, threadVars, bytes, inScope, cycles,
                 peak, disciplined, heap, granted>>

InitResizes ==
  /\ owner = "resize"
  /\ currentSize' = bytes
  /\ owner' = "reset"
  /\ UNCHANGED <<ptrHost, bufBytes, offset, countVars, threadVars, bytes,
                 inScope, cycles, peak, disciplined, heap, granted>>

ResetCycle ==
  /\ owner = "reset"
  /\ peak' = IF cycleAllocations > peak THEN cycleAllocations ELSE peak
  /\ cycleAllocations' = 0
  /\ owner' = "idle"
  /\ inScope' = TRUE
  /\ cycles' = cycles + 1
  /\ UNCHANGED <<arenaVars, spills, spillsSize, threadVars, bytes, disciplined,
                 heap, granted>>

\* scopeOut(): everything handed out of the buffer is given up.
ScopeOut ==
  /\ owner = "idle"
  /\ disciplined => (Quiet /\ inScope)
  /\ offset' = 0
  /\ granted' = <<>>
  /\ inScope' = FALSE
  /\ UNCHANGED <<ptrHost, bufBytes, currentSize, countVars, threadVars, owner,
                 bytes, cycles, peak, disciplined, heap>>

\* The destructor; destroying a workspace in use is outside the model.
Destroy ==
  /\ owner = "idle"
  /\ Quiet
  /\ heap' = heap \ ({ptrHost} \cup {s.block : s \in spills})
  /\ spills' = {}
  /\ spillsSize' = 0
  /\ owner' = "destroyed"
  /\ UNCHANGED <<arenaVars, cycleAllocations, threadVars, bytes, inScope,
                 cycles, peak, disciplined, granted>>

-----------------------------------------------------------------------------

Allocate(t) ==
  \/ Lock(t) \/ CheckFails(t) \/ CheckFits(t) \/ Advance(t) \/ Point(t)
  \/ SpillMalloc(t) \/ SpillPush(t) \/ SpillCount(t)

OwnerStep ==
  \/ FreeSpills \/ ClearSpills \/ LoadCycle
  \/ InitReplaces \/ InitKeeps \/ InitResizes \/ ResetCycle

Next ==
  \/ \E t \in Threads : (\E n \in Sizes : Begin(t, n)) \/ Allocate(t)
  \/ OwnerStep \/ ScopeIn \/ ScopeOut \/ Destroy

Spec == Init /\ [][Next]_vars

\* A thread inside a call keeps running; nobody is obliged to start a call.
Fairness ==
  /\ \A t \in Threads : WF_vars(Allocate(t))
  /\ WF_vars(OwnerStep)

FairSpec == Spec /\ Fairness

-----------------------------------------------------------------------------
(* Properties.                                                             *)

\* Every field keeps its type: counters and sizes never go negative, the
\* buffer is null or a block, and the heap never outgrows malloc()'s range.
TypeOK ==
  /\ ptrHost \in Blocks \cup {NoBlock}
  /\ bufBytes \in Nat
  /\ currentSize \in Nat
  /\ offset \in Nat
  /\ cycleAllocations \in Nat
  /\ spills \subseteq [block : Blocks \cup {NoBlock}, bytes : Nat]
  /\ spillsSize \in Nat
  /\ mutex \in Threads \cup {NoThread}
  /\ pc \in [Threads -> ThreadStates]
  /\ req \in [Threads -> Nat]
  /\ mine \in [Threads -> Blocks \cup {NoBlock}]
  /\ owner \in OwnerStates
  /\ bytes \in Nat
  /\ heap \subseteq Blocks
  /\ granted \in Seq([start : Nat, bytes : Nat])
  /\ inScope \in BOOLEAN
  /\ cycles \in Nat
  /\ peak \in Nat
  /\ disciplined \in BOOLEAN

\* allocateBytes() tests and advances _offset under the mutex, so whatever
\* the scope owner does meanwhile, the offset stays inside the buffer, and
\* the size it is tested against is one the buffer really has.
OffsetInBuffer == offset <= currentSize /\ currentSize <= bufBytes

\* The sum of size[x] over a finite set S: as many pairs of a member and a
\* byte of it as there are.
Total(size, S) == Cardinality(UNION {{x} \X (1 .. size[x]) : x \in S})

\* Requests of the threads whose allocateBytes() is in one of the states S.
InFlight(S) == Total(req, {t \in Threads : pc[t] \in S})

SpilledBytes == Total([s \in spills |-> s.bytes], spills)

\* Bookkeeping of allocateBytes() and freeSpills(): every byte requested in a
\* cycle is in the buffer, in a spill or still in flight, exactly once, and
\* getSpilledSize() is the size of the spills as soon as no push is pending.
RequestsAccounted ==
  (disciplined /\ owner = "idle" /\ inScope) =>
    /\ cycleAllocations = offset + SpilledBytes +
         InFlight({"lock", "check", "advance", "malloc", "push"})
    /\ spillsSize + InFlight({"count"}) = SpilledBytes

\* What scopeIn() is for: once some cycle has asked for peak bytes, a later
\* cycle spills only after it has itself asked for more than that.
NoSpillWithinPeak ==
  disciplined /\ spills # {} => cycleAllocations > peak

\* The ranges that Advance() reserves for the calls of one cycle, each ending
\* where the offset stood when the pointer was taken, lie inside the buffer
\* and never overlap, in whatever order the threads take the mutex.
ReservationsDisjoint == disciplined =>
  \A i, j \in DOMAIN granted :
    /\ 0 <= granted[i].start - granted[i].bytes
    /\ granted[i].start <= currentSize
    /\ i < j => granted[i].start <= granted[j].start - granted[j].bytes

\* malloc() and free() in init(), freeSpills() and the destructor pair up: a
\* live block is the buffer, a spill, or one a thread is about to push, and
\* the destructor leaves nothing behind.
BlocksOwned == disciplined =>
  LET listed == IF owner = "clear" THEN {} ELSE {s.block : s \in spills}
      buffer == IF owner = "destroyed" THEN {} ELSE {ptrHost}
  IN  heap = (buffer \cup listed \cup {mine[t] : t \in Threads}) \ {NoBlock}

\* Every return path of allocateBytes() gives the mutex back, so every call
\* returns, and a scopeIn() that has begun ends.
CallsReturn ==
  /\ \A t \in Threads : (disciplined /\ pc[t] # "idle") ~> (pc[t] = "idle")
  /\ (disciplined /\ owner \in OwnerStates \ {"idle", "destroyed"})
       ~> (owner = "idle")

\* The tests use what allocateBytes() returns as numBytes bytes of the
\* buffer: StretchTest1 counts the first of ten 128-byte requests as served
\* by the 128-byte buffer.
RegionInBuffer ==
  \A i \in DOMAIN granted :
    granted[i].start + granted[i].bytes <= currentSize

=============================================================================
