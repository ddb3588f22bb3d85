---------------------------- MODULE ParallelLoops ----------------------------
(***************************************************************************)
(* How the kernels of libnd4j share a loop over n elements among the       *)
(* threads of an OpenMP team, and how they put the parts together:         *)
(*                                                                         *)
(*   "reduce"       ReduceFunction::execScalar (include/loops/reduce.h)    *)
(*   "max", "first", "last"  IndexReduce::execScalar                       *)
(*                  (include/loops/indexreduce.h) with IndexMax,           *)
(*                  FirstIndex and LastIndex (include/ops/ops.h)           *)
(*   "ismax"        IsMax::doAll (include/ops/special_ops.h)               *)
(*   "histogram"    Histogram::execSpecial (include/ops/special_ops.h)     *)
(*   "elementwise"  PairWiseTransform::exec                                *)
(*                  (include/loops/pairwise_transform.h)                   *)
(*                                                                         *)
(* A behaviour is one call.  Visiting an element is a step, and so is each *)
(* access to what the threads share.  What an operation computes from      *)
(* numbers is left out: a partial sum is the number of times each element  *)
(* went into it, a written element the number of times it was written.     *)
(***************************************************************************)
EXTENDS Integers, FiniteSets

CONSTANTS
  LoopCalls,         \* the calls: a kind, an array, the values that match
  MaxTeam,           \* omp_get_max_threads()
  ElementThreshold,  \* ELEMENT_THRESHOLD
  Bins,              \* numBins of a histogram
  Lowest             \* -MAX_FLOAT

Indexing == {"max", "first", "last"}
Kinds == Indexing \union {"reduce", "ismax", "histogram", "elementwise"}

IsCall(c) ==
  LET n == Cardinality(DOMAIN c.x)
  IN  /\ c.kind \in Kinds /\ n \in Nat \ {0}
      /\ c.x \in [0 .. n - 1 -> Int]
      /\ \A e \in 0 .. n - 1 : c.x[e] >= Lowest

ASSUME LoopAssumption ==
  /\ \A c \in LoopCalls : IsCall(c)
  /\ MaxTeam \in Nat \ {0} /\ ElementThreshold \in Nat \ {0}
  /\ Bins \in Nat \ {0} /\ Lowest \in Int

VARIABLES
  call,    \* the call
  team,    \* its threads, 0 .. one less than there are
  at,      \* thread -> the step it is at, the chunk and element it is at
  local,   \* thread -> what it has computed
  shared,  \* what the threads combine into
  lock,    \* the thread in the critical section of "ismax", or -1
  output,  \* what is written for the caller
  joined   \* how many threads' parts the call has put together at its end

loopVars == <<call, team, at, local, shared, lock, output, joined>>

Length(c) == Cardinality(DOMAIN c.x)
length == Length(call)
Lesser(a, b) == IF a < b THEN a ELSE b
Greater(a, b) == IF a > b THEN a ELSE b

-----------------------------------------------------------------------------
(* How the elements are shared out.                                        *)

\* The threads a loop asks for.
TeamSizes(c) ==
  CASE c.kind = "histogram" -> {2}
    [] c.kind = "ismax" -> 1 .. MaxTeam
    [] OTHER -> {Lesser(Greater(1, Length(c) \div ElementThreshold), MaxTeam)}

threads == Cardinality(team)

\* BlockInformation: chunks of `items` elements dealt out to the threads in
\* turn, and one more for what is left over.
items == Greater(1, length \div threads)
\* Fault: what is left over gets no chunk.
chunks_WholeOnly == length \div items

chunks == length \div items + (IF length % items > 0 THEN 1 ELSE 0)

\* The other loops: one chunk for each thread, a little longer than its share.
span == length \div threads + 8

Dealt == call.kind \in Indexing \union {"reduce"}
Width == IF Dealt THEN items ELSE span

First(c) == IF call.kind = "ismax" THEN 0 ELSE c * Width
End(c) ==
  IF call.kind = "ismax" THEN length ELSE Lesser(First(c) + Width, length)

\* A thread comes to chunk c.
Goes(t, step, c) ==
  at' = [at EXCEPT ![t] = [step |-> step, chunk |-> c, e |-> First(c)]]
IsAt(t, step) == at[t].step = step

-----------------------------------------------------------------------------

Candidate(v, i) == [value |-> v, index |-> i]

\* startingIndexValue
StartingIndex(kind) == Candidate(Lowest, IF kind = "max" THEN 0 ELSE -1)

None == [e \in DOMAIN call.x |-> 0]
NoBins == [b \in 0 .. Bins - 1 |-> 0]

LoopStart ==
  /\ call \in LoopCalls
  /\ \E k \in TeamSizes(call) : team = 0 .. k - 1
  /\ at = [t \in team |->
             [step |-> IF call.kind = "ismax" THEN "load" ELSE "loop",
              chunk |-> t, e |-> First(t)]]
  /\ local = [t \in team |->
                IF call.kind \in Indexing THEN StartingIndex(call.kind)
                ELSE IF call.kind = "ismax" THEN Candidate(Lowest, -1)
                ELSE IF call.kind = "histogram" THEN NoBins ELSE None]
  /\ shared = IF call.kind = "ismax" THEN Candidate(call.x[0], 0)
              ELSE StartingIndex(call.kind)
  /\ lock = -1
  /\ output = IF call.kind = "histogram" THEN NoBins ELSE None
  /\ joined = 0

\* Update of the three index reductions.
Matches(c) == c.value \in call.matching
Larger(old, new) == new.value > old.value
Earlier(old, new) == Matches(new) /\ (old.index < 0 \/ old.index > new.index)
Later(old, new) == Matches(new) /\ (old.index < 0 \/ old.index < new.index)
Update(old, new) ==
  IF \/ call.kind = "max" /\ Larger(old, new)
     \/ call.kind = "first" /\ Earlier(old, new)
     \/ call.kind = "last" /\ Later(old, new)
  THEN new ELSE old

\* The bin of a value, given in units of the width of a bin.
Bin(v) == IF v < 0 THEN 0 ELSE IF v >= Bins THEN Bins - 1 ELSE v

Once(f, e) == [f EXCEPT ![e] = @ + 1]

-----------------------------------------------------------------------------
(* The loop of a thread.                                                   *)

Is(kind) == call.kind = kind

\* The element thread t visits, while there is one left in its chunk.
Here(t) == at[t].e
HasChunk(t) == IsAt(t, "loop") /\ (Dealt => at[t].chunk < chunks)
Visits(t) ==
  /\ HasChunk(t)
  /\ Here(t) < End(at[t].chunk)
  /\ at' = [at EXCEPT ![t].e = @ + 1]
  /\ UNCHANGED <<call, team, shared, lock, joined>>
Computes(t, v) == local' = [local EXCEPT ![t] = v] /\ UNCHANGED output

Accumulate(t) ==
  Is("reduce") /\ Visits(t) /\ Computes(t, Once(local[t], Here(t)))

Compare(t) ==
  /\ call.kind \in Indexing /\ Visits(t)
  /\ Computes(t, Update(local[t], Candidate(call.x[Here(t)], Here(t))))

Count(t) ==
  /\ Is("histogram") /\ Visits(t)
  /\ Computes(t, Once(local[t], Bin(call.x[Here(t)])))

Apply(t) ==
  /\ Is("elementwise") /\ Visits(t)
  /\ output' = Once(output, Here(t))
  /\ UNCHANGED local

Scan(t) ==
  /\ Is("ismax") /\ Visits(t)
  /\ LET e == Here(t)
     IN  /\ local' = IF local[t].value < call.x[e]
                     THEN [local EXCEPT ![t] = Candidate(call.x[e], e)]
                     ELSE local
         /\ output' = [output EXCEPT ![e] = 0]

AtEnd(t) == HasChunk(t) /\ Here(t) >= End(at[t].chunk)

\* Fault: a thread leaves its own result instead of updating the common one.
NextChunk_Overwrites(t) ==
  /\ Dealt /\ AtEnd(t)
  /\ Goes(t, "loop", at[t].chunk + threads)
  /\ shared' = IF Is("reduce") THEN shared ELSE local[t]
  /\ UNCHANGED <<call, team, local, lock, output, joined>>

\* The end of a chunk: an index reduction updates the common result in a
\* critical section, and both go on with their next chunk.
NextChunk(t) ==
  /\ Dealt /\ AtEnd(t)
  /\ Goes(t, "loop", at[t].chunk + threads)
  /\ shared' = IF Is("reduce") THEN shared ELSE Update(shared, local[t])
  /\ UNCHANGED <<call, team, local, lock, output, joined>>

\* A histogram adds the bins of the thread in a critical section.
MergeBins(t) ==
  /\ Is("histogram") /\ AtEnd(t)
  /\ output' = [b \in 0 .. Bins - 1 |-> output[b] + local[t][b]]
  /\ Goes(t, "done", at[t].chunk)
  /\ UNCHANGED <<call, team, local, shared, lock, joined>>

\* A thread without a further chunk is done.
Leave(t) ==
  /\ \/ IsAt(t, "loop") /\ ~ HasChunk(t)
     \/ Is("elementwise") /\ AtEnd(t)
  /\ Goes(t, "done", at[t].chunk)
  /\ UNCHANGED <<call, team, local, shared, lock, output, joined>>

-----------------------------------------------------------------------------
(* IsMax: every thread scans the whole array, from what it finds in two    *)
(* shared variables that it reads outside of the critical section in which *)
(* they are written.  Neither the reads nor the writes are ordered.        *)

Load(t) ==
  /\ IsAt(t, "load") \/ IsAt(t, "loadValue") \/ IsAt(t, "loadIndex")
  /\ \/ /\ ~ IsAt(t, "loadIndex")
        /\ local' = [local EXCEPT ![t].value = shared.value]
        /\ Goes(t, IF IsAt(t, "load") THEN "loadIndex" ELSE "loop",
                at[t].chunk)
     \/ /\ ~ IsAt(t, "loadValue")
        /\ local' = [local EXCEPT ![t].index = shared.index]
        /\ Goes(t, IF IsAt(t, "load") THEN "loadValue" ELSE "loop",
                at[t].chunk)
  /\ UNCHANGED <<call, team, shared, lock, output, joined>>

\* Fault: an equal value replaces the one found before.
Test_NotStrict(t) ==
  /\ Is("ismax") /\ AtEnd(t)
  /\ lock = -1
  /\ \/ /\ shared.value <= local[t].value
        /\ lock' = t
        /\ Goes(t, "store", at[t].chunk)
     \/ /\ shared.value > local[t].value
        /\ UNCHANGED lock
        /\ Goes(t, "done", at[t].chunk)
  /\ UNCHANGED <<call, team, local, shared, output, joined>>

Test(t) ==
  /\ Is("ismax") /\ AtEnd(t)
  /\ lock = -1
  /\ \/ /\ shared.value < local[t].value
        /\ lock' = t
        /\ Goes(t, "store", at[t].chunk)
     \/ /\ shared.value >= local[t].value
        /\ UNCHANGED lock
        /\ Goes(t, "done", at[t].chunk)
  /\ UNCHANGED <<call, team, local, shared, output, joined>>

Store(t) ==
  /\ \/ /\ IsAt(t, "store") \/ IsAt(t, "storeValue")
        /\ shared' = [shared EXCEPT !.value = local[t].value]
        /\ Goes(t, IF IsAt(t, "store") THEN "storeIndex" ELSE "done",
                at[t].chunk)
     \/ /\ IsAt(t, "store") \/ IsAt(t, "storeIndex")
        /\ shared' = [shared EXCEPT !.index = local[t].index]
        /\ Goes(t, IF IsAt(t, "store") THEN "storeValue" ELSE "done",
                at[t].chunk)
  /\ lock' = IF IsAt(t, "store") THEN lock ELSE -1
  /\ UNCHANGED <<call, team, local, output, joined>>

-----------------------------------------------------------------------------
(* After the barrier.                                                      *)

\* The call combines the partial results one by one, or marks the maximum.
Join ==
  /\ \A t \in team : IsAt(t, "done")
  /\ joined < threads
  /\ joined' = IF Is("reduce") THEN joined + 1 ELSE threads
  /\ output' = IF Is("reduce")
               THEN [e \in DOMAIN output |-> output[e] + local[joined][e]]
               ELSE IF Is("ismax") THEN [output EXCEPT ![shared.index] = 1]
               ELSE output
  /\ UNCHANGED <<call, team, at, local, shared, lock>>

LoopStep(t) ==
  \/ Accumulate(t) \/ Compare(t) \/ Count(t) \/ Apply(t) \/ Scan(t)
  \/ NextChunk(t) \/ MergeBins(t) \/ Leave(t)
  \/ Load(t) \/ Test(t) \/ Store(t)

LoopNext == (\E t \in team : LoopStep(t)) \/ Join

LoopSpec == LoopStart /\ [][LoopNext]_loopVars

-----------------------------------------------------------------------------
(* Properties.                                                             *)

Returned == joined = threads
Elements == 0 .. length - 1

\* Whatever the length and the team, a reduction takes every element exactly
\* once (reduce.h:686), an elementwise operation writes every result exactly
\* once (pairwise_transform.h:636), which matters when it works in place, and a
\* histogram counts every element in one bin, those beyond the ends of the
\* range in the outer ones (special_ops.h:752).
EveryElementOnce ==
  Returned =>
    /\ call.kind \in {"reduce", "elementwise"} =>
         \A e \in Elements : output[e] = 1
    /\ Is("histogram") =>
         \A b \in 0 .. Bins - 1 :
           output[b] = Cardinality({e \in Elements : Bin(call.x[e]) = b})

\* In whatever order the threads update the common result (indexreduce.h:479),
\* it ends up at a maximum, or at the first or last element that matches, as
\* long as the value a search starts with does not match by itself.
IndexIsRight ==
  Returned /\ call.kind \in Indexing /\ Lowest \notin call.matching =>
    LET matching == {e \in Elements : call.x[e] \in call.matching}
        i == shared.index
    IN  /\ Is("max") => i \in Elements /\ \A e \in Elements :
                                            call.x[e] <= call.x[i]
        /\ ~ Is("max") /\ matching = {} => i = -1
        /\ Is("first") /\ matching # {} =>
             i \in matching /\ \A e \in matching : i <= e
        /\ Is("last") /\ matching # {} =>
             i \in matching /\ \A e \in matching : e <= i

\* However the unlocked reads of the best so far fall between the writes
\* (special_ops.h:1897), exactly the first maximum is marked.
FirstMaximumMarked ==
  Returned /\ Is("ismax") =>
    \E m \in Elements :
      /\ \A e \in Elements : call.x[e] <= call.x[m]
      /\ \A e \in 0 .. m - 1 : call.x[e] < call.x[m]
      /\ output = [e \in Elements |-> IF e = m THEN 1 ELSE 0]
=============================================================================
