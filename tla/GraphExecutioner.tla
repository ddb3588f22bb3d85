--------------------------- MODULE GraphExecutioner ---------------------------
(***************************************************************************)
(* execute() and executeFlatNode() of blas/cpu/GraphExecutioner.cpp: the   *)
(* nodes of a built graph run layer by layer on the arrays of a            *)
(* VariableSpace.  Most legacy operations write their result where their   *)
(* input is, so one buffer may be behind the variables of several nodes.   *)
(*                                                                         *)
(* A value is a term: <<"in", e, r>> is what the client stored in external *)
(* variable e before run r, <<"op", n, args>> what node n computes from    *)
(* args.  A variable is identified with the buffer of its array, 0 for the *)
(* null pointer; a view shares the buffer it was taken of.  A client may   *)
(* execute the same graph again, with new contents in the input variables. *)
(* That shapes stay the same is the model's assumption: buffers are never  *)
(* reallocated because a length changed.                                   *)
(***************************************************************************)
EXTENDS Integers, Sequences, FiniteSets, SequencesExt

CONSTANTS
  Ids,        \* node ids, numbered producers first
  InputVars,  \* external variables that hold the client's arrays
  OutputVars, \* external variables nodes name among their outputs
  Graphs,     \* the node definitions, one function each
  IdOrder,    \* do the nodes of a layer run in id order, or in any?
  MaxRuns     \* bound on the calls of execute()

OpTypes == {"TRANSFORM", "SCALAR", "ACCUMULATION", "INDEX_ACCUMULATION",
            "BROADCAST", "CUSTOM"}

\* What executeFlatNode() asks of a node: its type, the variables it reads, the
\* ids it names as outputs.  SUMMARYSTATS handles its arrays as ACCUMULATION.
\* addNode() has given a node that declared no output its own id; that nodes
\* do not declare an output 0 is assumed.
NodeDefs ==
  [op : OpTypes, inputs : Seq(Ids \cup InputVars) \ {<<>>},
   outputs : Seq((Nat \ {0}) \cup OutputVars) \ {<<>>}]

ASSUME ExecutionAssumption ==
  /\ Ids \subseteq Nat \ {0} /\ IsFiniteSet(Ids) /\ IsFiniteSet(InputVars)
  /\ InputVars \cup OutputVars \subseteq {x \in Int : x < 0}
  /\ InputVars \cap OutputVars = {}
  /\ \A g \in Graphs : DOMAIN g = Ids /\ \A n \in Ids :
       /\ g[n] \in NodeDefs
       /\ \A i \in DOMAIN g[n].inputs : g[n].inputs[i] < n
  /\ IdOrder \in BOOLEAN /\ MaxRuns \in Nat

VARIABLES
  graph,   \* the node definitions
  buffer,  \* the buffer behind each variable, 0: no array yet
  memory,  \* the contents of the buffers
  done,    \* nodes executed in this run
  pc,      \* "idle", "running", "finished" or "failed"
  run      \* calls of execute()

vars == <<graph, buffer, memory, done, pc, run>>

Vars == Ids \cup InputVars \cup OutputVars
Inputs(n) == Range(graph[n].inputs)
Readers(v) == {n \in Ids : v \in Inputs(n)}

\* graph->getMapped()->at(v)->output()->size() > 1, in graph g
BranchesIn(g, v) == v > 0 /\ Len(g[v].outputs) > 1
Branches(v) == BranchesIn(graph, v)

\* The onion of Graph.tla for a graph numbered producers first: layer 0 reads
\* external variables only, another node is one below its lowest producer.
Layers(g) ==
  LET layer[n \in Ids] ==
        LET above == {layer[p] + 1 : p \in Range(g[n].inputs) \cap Ids}
        IN  CHOOSE l \in above \cup {0} : \A k \in above : k <= l
  IN  layer

Layer == Layers(graph)

\* The client's arrays are the first buffers.
InputSeq == SetToSeq(InputVars)
FirstBuffer == [v \in Vars |->
  IF v \in InputVars THEN CHOOSE i \in DOMAIN InputSeq : InputSeq[i] = v ELSE 0]

Init ==
  /\ graph \in Graphs
  /\ buffer = FirstBuffer
  /\ memory = [i \in DOMAIN InputSeq |-> <<"in", InputSeq[i], 0>>]
  /\ done = {}
  /\ pc = "idle"
  /\ run = 0

-----------------------------------------------------------------------------
(* The arrays of the variable space, as [buffer, memory] records.          *)

\* v->setNDArray(new NDArray(...)), with contents val.
Allocate(s, v, val) ==
  [buffer |-> [s.buffer EXCEPT ![v] = Len(s.memory) + 1],
   memory |-> Append(s.memory, val)]

\* v->setNDArray(x->getNDArray()->getView()), or another owner of x's array.
ViewOf(s, v, x) == [s EXCEPT !.buffer[v] = s.buffer[x]]

Write(s, v, val) == [s EXCEPT !.memory[s.buffer[v]] = val]

\* An array of the node's own, unless it has one from an earlier run.
Own(s, n) == IF s.buffer[n] = 0 THEN Allocate(s, n, <<>>) ELSE s

\* An array in place of the first input's, unless the node has one.
InPlace(s, n) ==
  IF s.buffer[n] = 0 THEN ViewOf(s, n, graph[n].inputs[1]) ELSE s

\* Fault: an input several nodes read is not duplicated.
TransformTarget_InPlace(s, n) ==
  IF Len(graph[n].inputs) = 1 THEN InPlace(s, n) ELSE Own(s, n)

\* TRANSFORM: in place if it has one input and that goes to no other node.  A
\* pairwise one has an array of its own if it names outputs, and all nodes do.
TransformTarget(s, n) ==
  IF Len(graph[n].inputs) = 1 /\ ~Branches(graph[n].inputs[1])
    THEN InPlace(s, n)
    ELSE Own(s, n)

\* SCALAR: an input that goes to several nodes is duplicated in every run.
ScalarTarget(s, n) ==
  IF Branches(graph[n].inputs[1]) THEN Allocate(s, n, <<>>) ELSE InPlace(s, n)

\* What node n computes from what its inputs hold.
Result(s, n) ==
  <<"op", n, [i \in DOMAIN graph[n].inputs |->
                s.memory[s.buffer[graph[n].inputs[i]]]]>>

\* putVariable(id, z) with a new variable z: its array goes to the node's own
\* variable only if that has none yet.
PutNew(s, n, val) == IF s.buffer[n] = 0 THEN Allocate(s, n, val) ELSE s

\* BROADCAST writes over its first input and hands that array to the node.
Broadcast(s, n, val) ==
  LET x == graph[n].inputs[1]
  IN  InPlace(Write(s, x, val), n)

\* Fault: the operation's own array is not written when it is an old one.
Compute_Once(s, n) ==
  LET val == Result(s, n)
  IN  CASE graph[n].op = "TRANSFORM" -> Write(TransformTarget(s, n), n, val)
        [] graph[n].op = "SCALAR" -> Write(ScalarTarget(s, n), n, val)
        [] graph[n].op \in {"ACCUMULATION", "CUSTOM"} -> PutNew(s, n, val)
        [] graph[n].op = "INDEX_ACCUMULATION" -> PutNew(s, n, val)
        [] graph[n].op = "BROADCAST" -> Broadcast(s, n, val)

\* The arrays after the operation of node n.
Compute(s, n) ==
  LET val == Result(s, n)
  IN  CASE graph[n].op = "TRANSFORM" -> Write(TransformTarget(s, n), n, val)
        [] graph[n].op = "SCALAR" -> Write(ScalarTarget(s, n), n, val)
        [] graph[n].op \in {"ACCUMULATION", "CUSTOM"} ->
             Write(Own(s, n), n, val)
        [] graph[n].op = "INDEX_ACCUMULATION" -> PutNew(s, n, val)
        [] graph[n].op = "BROADCAST" -> Broadcast(s, n, val)

\* One output of a node whose result is val: an external one gets a copy.
PublishTo(s, o, val) ==
  IF o >= 0 THEN s
  ELSE IF s.buffer[o] = 0 THEN Allocate(s, o, val) ELSE Write(s, o, val)

\* Fault: an output variable keeps the result of the first run.
Publish_Once(s, n, val) ==
  LET outputs == graph[n].outputs
      after[k \in 0 .. Len(outputs)] ==
        IF k = 0 THEN s
        ELSE IF outputs[k] < 0 /\ after[k - 1].buffer[outputs[k]] = 0
          THEN Allocate(after[k - 1], outputs[k], val)
          ELSE after[k - 1]
  IN  after[Len(outputs)]

\* The external outputs of node n get a copy of its result; a custom op has
\* returned before.
Publish(s, n, val) ==
  LET outputs == graph[n].outputs
      after[k \in 0 .. Len(outputs)] ==
        IF k = 0 THEN s ELSE PublishTo(after[k - 1], outputs[k], val)
  IN  IF graph[n].op = "CUSTOM" THEN s ELSE after[Len(outputs)]

-----------------------------------------------------------------------------

\* The client stores new inputs and calls execute(): buildGraph() has the onion.
Begin ==
  /\ pc # "running"
  /\ run < MaxRuns
  /\ run' = run + 1
  /\ memory' = [b \in DOMAIN memory |->
                  IF \E e \in InputVars : buffer[e] = b
                    THEN <<"in",
                           CHOOSE e \in InputVars : buffer[e] = b, run + 1>>
                    ELSE memory[b]]
  /\ done' = {}
  /\ pc' = "running"
  /\ UNCHANGED <<graph, buffer>>

\* Nodes of one layer run in the order they came into it: the ids in order for
\* those that buildGraph() placed, the order of the addNode() calls otherwise.
Turn(n) ==
  /\ n \notin done
  /\ \A m \in Ids :
       Layer[m] < Layer[n] \/ (IdOrder /\ Layer[m] = Layer[n] /\ m < n)
         => m \in done

\* executeFlatNode(): the operation, then its external outputs.
ExecuteNode(n) ==
  /\ pc = "running"
  /\ Turn(n)
  /\ LET s == [buffer |-> buffer, memory |-> memory]
         after == Publish(Compute(s, n), n, Result(s, n))
     IN  buffer' = after.buffer /\ memory' = after.memory
  /\ done' = done \cup {n}
  /\ UNCHANGED <<graph, pc, run>>

\* A custom op reports a bad status, with or without having written its
\* output: execute() returns at once.
NodeFails(n) ==
  /\ pc = "running"
  /\ Turn(n)
  /\ graph[n].op = "CUSTOM"
  /\ LET s == [buffer |-> buffer, memory |-> memory]
     IN  \E after \in {Own(s, n), Compute(s, n)} :
           buffer' = after.buffer /\ memory' = after.memory
  /\ pc' = "failed"
  /\ UNCHANGED <<graph, done, run>>

\* The last layer has run.
Finish ==
  /\ pc = "running"
  /\ done = Ids
  /\ pc' = "finished"
  /\ UNCHANGED <<graph, buffer, memory, done, run>>

Next ==
  \/ Begin
  \/ \E n \in Ids : ExecuteNode(n) \/ NodeFails(n)
  \/ Finish

Spec == Init /\ [][Next]_vars

-----------------------------------------------------------------------------
(* Properties.                                                             *)

\* What the graph means: every node's operation applied to its inputs, as if
\* each result had an array of its own.
Meanings(g, r) ==
  LET value[u \in Ids \cup InputVars] ==
        IF u \in InputVars
          THEN <<"in", u, r>>
          ELSE <<"op", u, [i \in DOMAIN g[u].inputs |->
                             value[g[u].inputs[i]]]>>
  IN  value

Meaning(v) == Meanings(graph, run)[v]

Holds(v) == memory[buffer[v]]

\* Operations that do not write the node's own array in a second run.
Stale(n) ==
  run > 1 /\ \E m \in Ids : graph[m].op \in {"INDEX_ACCUMULATION", "BROADCAST"}

\* Does node n of g compute where its first input is, unless it has an array?
WritesInPlace(g, n) ==
  \/ g[n].op = "BROADCAST"
  \/ /\ g[n].op \in {"TRANSFORM", "SCALAR"}
     /\ g[n].op = "SCALAR" \/ Len(g[n].inputs) = 1
     /\ ~BranchesIn(g, g[n].inputs[1])

\* Graphs in which what a node overwrites is read by no other node, and an
\* external output is the output of one node.
Separate(g) ==
  \A n \in Ids : \A m \in Ids \ {n} :
    /\ WritesInPlace(g, n) => g[n].inputs[1] \notin Range(g[m].inputs)
    /\ \A o \in Range(g[n].outputs) : o < 0 => o \notin Range(g[m].outputs)

\* Computing in place is never visible to a node that still has to read: its
\* inputs hold their meaning from the time they are there until it runs.
InputsIntact ==
  pc = "running" => \A n \in Ids \ done : ~Stale(n) =>
    \A v \in Inputs(n) \cap (done \cup InputVars) : Holds(v) = Meaning(v)

\* What an execution returns is what the graph means, for every order within
\* the layers, after earlier runs that succeeded or failed: the variable of
\* every node that no other reads is right when execute() returns OK.
ResultsAreDataflow ==
  pc = "finished" => \A n \in Ids :
    Readers(n) = {} /\ ~Stale(n) => Holds(n) = Meaning(n)

\* An external output holds the result of the node that names it, however
\* many consumers have overwritten that node's own array since.
OutputsAreDataflow ==
  pc = "finished" => \A n \in Ids : \A o \in Range(graph[n].outputs) :
    (o < 0 /\ graph[n].op # "CUSTOM" /\ ~Stale(n)) => Holds(o) = Meaning(n)

===============================================================================
