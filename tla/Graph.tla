-------------------------------- MODULE Graph --------------------------------
(***************************************************************************)
(* The executable graph of include/graph/Graph.h: nodes are added one by   *)
(* one, placed at once in the "onion" of execution layers when addNode()   *)
(* can tell their layer, and kept in _unmapped otherwise; buildGraph()     *)
(* then sweeps _unmapped, in id order, until it is empty.                  *)
(*                                                                         *)
(* buildGraph() erases the element its std::map iterator stands on and     *)
(* then increments that iterator, which is undefined.  EraseOutcomes lists *)
(* what the increment may do: reach the "next" element still in the map,   *)
(* "skip" to some later element or to the end of the sweep, or "crash".    *)
(***************************************************************************)
EXTENDS Integers, Sequences, FiniteSets, SequencesExt

CONSTANTS
  Ids,            \* node ids, positive
  Externals,      \* ids of the external variables, negative
  Graphs,         \* node definitions the client may add, one function each
  Modes,          \* output modes of the configuration
  EraseOutcomes,  \* what it++ may do after erase(it->first)
  WholeGraphs,    \* does the client build only once every node is added?
  MaxAsked        \* bound on the ids given to addOutput()

AllModes == {"IMPLICIT", "EXPLICIT", "EXPLICIT_AND_IMPLICIT", "VARIABLE_SPACE"}

(***************************************************************************)
(* A node: its inputs as (producer, output index) pairs; its outputs; has  *)
(* it a custom op, with how many outputs; were its inputs given as plain   *)
(* ids?  pickInput(int) sets _hasExternalInputs and _hasInternalInputs,    *)
(* pickInput(int, int) sets neither.                                       *)
(***************************************************************************)
NodeDefs ==
  [inputs : Seq((Ids \cup Externals) \X Nat), outputs : Seq(Int),
   custom : BOOLEAN, arity : Nat \ {0}, plain : BOOLEAN]

ASSUME GraphAssumption ==
  /\ Ids \subseteq Nat \ {0}
  /\ Externals \subseteq {x \in Int : x < 0} /\ IsFiniteSet(Externals)
  /\ \A g \in Graphs : DOMAIN g = Ids /\ \A n \in Ids : g[n] \in NodeDefs
  /\ Modes \subseteq AllModes
  /\ EraseOutcomes \subseteq {"next", "skip", "crash"}
  /\ "next" \in EraseOutcomes
  /\ WholeGraphs \in BOOLEAN /\ MaxAsked \in Nat

VARIABLES
  graph,     \* the client's node definitions
  mode,      \* _configuration->_outputMode
  producersFirst,  \* does the client add every producer before its consumers?
  layer,     \* _mapped, as the layer of every mapped node
  onion,     \* _onion: the nodes of each layer, in execution order
  unmapped,  \* keys of _unmapped
  space,     \* keys of _variableSpace, as (id, index) pairs
  block,     \* for each custom node added, the variables its Block holds
  output,    \* _output
  asked,     \* ids given to addOutput() while it recorded them
  built,     \* _built
  orderly,   \* history: has the client numbered its nodes in an order of
             \* execution, named inputs as plain ids and built only complete
             \* graphs, and did the iterator reach the next element so far?
  pc,        \* where buildGraph() is
  cursor     \* the node its iterator stands on

vars == <<graph, mode, producersFirst, layer, onion, unmapped, space, block,
          output, asked, built, orderly, pc, cursor>>
buildVars == <<graph, mode, producersFirst, space, asked>>

Mapped == DOMAIN layer
Added == Mapped \cup unmapped
Inputs(n) == Range(graph[n].inputs)
Producers(n) == {i[1] : i \in Inputs(n)}

HasExternalInputs(n) == graph[n].plain /\ \E p \in Producers(n) : p < 0
HasInternalInputs(n) == graph[n].plain /\ \E p \in Producers(n) : p >= 0
HasInternalOutputs(n) == \E o \in Range(graph[n].outputs) : o >= 0
HasExternalOutputs(n) == \E o \in Range(graph[n].outputs) : o < 0
NoOutputs(n) == graph[n].outputs \in {<<>>, <<0>>}

\* pushToOutputOnce() of each id of s that is wanted, in turn.
PushOnce(out, s, wanted) ==
  LET pushed[k \in 0 .. Len(s)] ==
        IF k = 0 THEN out
        ELSE IF s[k] \in wanted \ Range(pushed[k - 1])
          THEN Append(pushed[k - 1], s[k])
          ELSE pushed[k - 1]
  IN  pushed[Len(s)]

\* Node n joins layer l; expandOnion() creates the layer when it is new.
Place(n, l) ==
  /\ layer' = [m \in Mapped \cup {n} |-> IF m = n THEN l ELSE layer[m]]
  /\ onion' = [k \in DOMAIN onion \cup {l} |->
                 LET old == IF k \in DOMAIN onion THEN onion[k] ELSE <<>>
                 IN  IF k = l THEN Append(old, n) ELSE old]

\* The entries pushed to Block::getVariables(): the key for a variable the
\* space knows, <<>> for the null pointer getVariable() returns otherwise.
FillBlock(n, known) ==
  [i \in DOMAIN graph[n].inputs |->
     IF graph[n].inputs[i] \in known THEN graph[n].inputs[i] ELSE <<>>]

\* Every node of g names its inputs as plain ids, and nodes of lower ids only.
Numbered(g) ==
  \A n \in Ids :
    g[n].plain /\ \A i \in Range(g[n].inputs) : i[1] \in Ids => i[1] < n

-----------------------------------------------------------------------------
(* A graph without nodes; the constructor from a FlatGraph in               *)
(* VARIABLE_SPACE mode has pushed every variable to _output already.        *)

Init ==
  /\ graph \in Graphs
  /\ mode \in Modes
  /\ producersFirst \in BOOLEAN
  /\ layer = [n \in {} |-> 0]
  /\ onion = [l \in {0} |-> <<>>]
  /\ unmapped = {}
  /\ space = Externals \X {0}
  /\ block = [n \in {} |-> <<>>]
  /\ output \in {<<>>} \cup
       (IF mode = "VARIABLE_SPACE" THEN {SetToSeq(Externals)} ELSE {})
  /\ asked = {}
  /\ built = FALSE
  /\ orderly = Numbered(graph)
  /\ pc = "idle"
  /\ cursor = 0

\* Fault: hasInternalOutputs() is not asked.
NodeOutputs_AnyExternal(n) ==
  {x \in {n} : mode = "VARIABLE_SPACE" /\ HasInternalOutputs(n)}
    \cup
  (IF NoOutputs(n)
     THEN {x \in {n} : mode # "EXPLICIT"}
     ELSE {o \in Range(graph[n].outputs) :
             o < 0 /\ mode \in {"IMPLICIT", "EXPLICIT_AND_IMPLICIT"}})

\* The ids addNode(n) pushes to _output: its own, or external ones it declares.
NodeOutputs(n) ==
  {x \in {n} : mode = "VARIABLE_SPACE" /\ HasInternalOutputs(n)}
    \cup
  (IF NoOutputs(n)
     THEN {x \in {n} : mode # "EXPLICIT"}
     ELSE {o \in Range(graph[n].outputs) :
             /\ o < 0 /\ ~HasInternalOutputs(n)
             /\ mode \in {"IMPLICIT", "EXPLICIT_AND_IMPLICIT"}})

\* addNode(n) pushes them in this order.
PushOutputs(n) ==
  output' = PushOnce(output, <<n>> \o graph[n].outputs, NodeOutputs(n))

\* The first output id once pickExternalOutput() has run, if there is one.
FirstOutput(n) == IF graph[n].outputs = <<>> THEN n ELSE graph[n].outputs[1]

\* Can addNode() place n straight under its only parent?
FollowsParent(n) ==
  /\ HasInternalInputs(n) /\ ~HasExternalInputs(n)
  /\ Len(graph[n].inputs) = 1
  /\ graph[n].inputs[1][1] \in Mapped
  /\ FirstOutput(n) \notin Mapped

\* The end of addNode(n): n is mapped to a layer now, or left to buildGraph().
PlaceOrWait(n) ==
  \/ /\ HasExternalInputs(n) /\ ~HasInternalInputs(n)
     /\ Place(n, 0)
     /\ UNCHANGED unmapped
  \/ /\ FollowsParent(n)
     /\ Place(n, layer[graph[n].inputs[1][1]] + 1)
     /\ UNCHANGED unmapped
  \/ /\ ~(HasExternalInputs(n) /\ ~HasInternalInputs(n))
     /\ ~FollowsParent(n)
     /\ unmapped' = unmapped \cup {n}
     /\ UNCHANGED <<layer, onion>>

\* The variables addNode(n) registers: the node's state, and one more for each
\* further output of a custom op.
NewVariables(n) ==
  {<<n, 0>>} \cup
  (IF graph[n].custom THEN {n} \X (1 .. graph[n].arity - 1) ELSE {})

\* Custom op n is given block b.
AttachBlock(n, b) ==
  block' =
    IF graph[n].custom
      THEN [m \in DOMAIN block \cup {n} |-> IF m = n THEN b ELSE block[m]]
      ELSE block

\* Fault: the block of a custom op is left for buildGraph() to fill.
AddNode_LateBlock(n) ==
  /\ pc = "idle"
  /\ n \notin Added
  /\ producersFirst => Producers(n) \cap Ids \subseteq Added
  /\ built' = FALSE
  /\ space' = space \cup NewVariables(n)
  /\ AttachBlock(n, <<>>)
  /\ PushOutputs(n)
  /\ PlaceOrWait(n)
  /\ UNCHANGED <<graph, mode, producersFirst, asked, orderly, pc, cursor>>

\* addNode(n): register its variables, attach its block, record its outputs,
\* and map it or leave it to buildGraph().
AddNode(n) ==
  /\ pc = "idle"
  /\ n \notin Added
  /\ producersFirst => Producers(n) \cap Ids \subseteq Added
  /\ built' = FALSE
  /\ space' = space \cup NewVariables(n)
  /\ AttachBlock(n, FillBlock(n, space \cup {<<n, 0>>}))
  /\ PushOutputs(n)
  /\ PlaceOrWait(n)
  /\ UNCHANGED <<graph, mode, producersFirst, asked, orderly, pc, cursor>>

\* addOutput(id): only the two explicit modes record it.
AddOutput(id) ==
  /\ pc = "idle"
  /\ <<id, 0>> \in space
  /\ Cardinality(asked \cup {id}) <= MaxAsked
  /\ mode \in {"EXPLICIT", "EXPLICIT_AND_IMPLICIT"}
  /\ output' = PushOnce(output, <<id>>, {id})
  /\ asked' = asked \cup {id}
  /\ UNCHANGED <<graph, mode, producersFirst, space, layer, onion, unmapped,
                 block, built, orderly, pc, cursor>>

-----------------------------------------------------------------------------
(* buildGraph(), called by validate(), totalNodes() and execute().         *)

Smallest(S) == CHOOSE x \in S : \A y \in S : x <= y

\* Where a sweep goes from node n when S is what the map still holds.
NextOf(n, S) ==
  LET later == {m \in S : m > n}
  IN  IF later = {} THEN <<"round", 0>> ELSE <<"visit", Smallest(later)>>

\* The sweep moves on: to the next element, or wherever the increment of an
\* erased iterator leads.
MoveOn(n, erased) ==
  LET S == IF erased THEN unmapped \ {n} ELSE unmapped
      places == {NextOf(n, S)} \cup
        (IF erased /\ "skip" \in EraseOutcomes
           THEN {<<"visit", m>> : m \in {x \in S : x > n}} \cup {<<"round", 0>>}
           ELSE {}) \cup
        (IF erased /\ "crash" \in EraseOutcomes
           THEN {<<"crashed", 0>>} ELSE {})
  IN  \E p \in places :
        /\ pc' = p[1] /\ cursor' = p[2]
        /\ orderly' = (orderly /\ p = NextOf(n, S))

\* A Block that holds nothing yet is given the variables of the inputs.
RefillBlock(n) ==
  block' = IF n \in DOMAIN block /\ block[n] = <<>>
             THEN [block EXCEPT ![n] = FillBlock(n, space)]
             ELSE block

BuildBegin ==
  /\ pc = "idle"
  /\ WholeGraphs => Added = Ids
  /\ orderly' = (orderly /\ Added = Ids)
  /\ pc' = "round"
  /\ UNCHANGED <<buildVars, layer, onion, unmapped, block, output, built,
                 cursor>>

\* while (_unmapped.size() > 0): another sweep starts at the smallest id.
Sweep ==
  /\ pc = "round"
  /\ unmapped # {}
  /\ pc' = "visit"
  /\ cursor' = Smallest(unmapped)
  /\ UNCHANGED <<buildVars, layer, onion, unmapped, block, output, built,
                 orderly>>

\* A single-input node whose producer is mapped goes right under it.
VisitSingle ==
  LET n == cursor
  IN  /\ pc = "visit"
      /\ Len(graph[n].inputs) = 1
      /\ graph[n].inputs[1][1] \in Mapped
      /\ Place(n, layer[graph[n].inputs[1][1]] + 1)
      /\ RefillBlock(n)
      /\ unmapped' = unmapped \ {n}
      /\ MoveOn(n, TRUE)
      /\ UNCHANGED <<buildVars, output, built>>

\* Fault: "break" instead of "continue": the sweep ends at a node that waits.
SkipSingle_Break ==
  /\ pc = "visit"
  /\ Len(graph[cursor].inputs) = 1
  /\ graph[cursor].inputs[1][1] \notin Mapped
  /\ pc' = "round" /\ cursor' = 0
  /\ UNCHANGED <<buildVars, layer, onion, unmapped, block, output, built,
                 orderly>>

\* A single-input node whose producer is not mapped waits for another sweep.
SkipSingle ==
  /\ pc = "visit"
  /\ Len(graph[cursor].inputs) = 1
  /\ graph[cursor].inputs[1][1] \notin Mapped
  /\ MoveOn(cursor, FALSE)
  /\ UNCHANGED <<buildVars, layer, onion, unmapped, block, output, built>>

\* Fault: the layer of the highest producer instead of the one above it.
MultiLayer_SameLayer(n) ==
  LET known == {layer[p] : p \in Producers(n) \cap Mapped}
  IN  CHOOSE x \in known \cup {0} : \A y \in known : y <= x

\* Fault: layers are counted from the nodes placed so far.
MultiLayer_CountsNodes(n) ==
  LET known == {layer[p] + 1 : p \in Producers(n) \cap Mapped}
  IN  1 + (CHOOSE x \in known \cup {0} : \A y \in known : y <= x)

\* The layer of a node with no or several inputs: one more than the highest
\* layer among those of its producers that are mapped.
MultiLayer(n) ==
  LET known == {layer[p] : p \in Producers(n) \cap Mapped}
  IN  1 + (CHOOSE x \in known \cup {0} : \A y \in known : y <= x)

\* A node with no or several inputs is placed at its first visit: "continue"
\* leaves the loop over the inputs early for none of them.
VisitMulti ==
  LET n == cursor
  IN  /\ pc = "visit"
      /\ Len(graph[n].inputs) # 1
      /\ Place(n, MultiLayer(n))
      /\ RefillBlock(n)
      /\ unmapped' = unmapped \ {n}
      /\ MoveOn(n, TRUE)
      /\ UNCHANGED <<buildVars, output, built>>

\* Nothing is unmapped any more; VARIABLE_SPACE mode adds the externals.
BuildEnd ==
  /\ pc = "round"
  /\ unmapped = {}
  /\ built' = TRUE
  /\ output' = IF mode = "VARIABLE_SPACE"
                 THEN PushOnce(output, SetToSeq(Externals), Externals)
                 ELSE output
  /\ pc' = "idle"
  /\ UNCHANGED <<buildVars, layer, onion, unmapped, block, orderly, cursor>>

-----------------------------------------------------------------------------

BuildStep == Sweep \/ VisitSingle \/ SkipSingle \/ VisitMulti \/ BuildEnd

Next ==
  \/ \E n \in Ids : AddNode(n)
  \/ \E id \in Ids \cup Externals : AddOutput(id)
  \/ BuildBegin
  \/ BuildStep

Spec == Init /\ [][Next]_vars

\* buildGraph() runs in its caller's thread and is never left half way.
FairSpec == Spec /\ WF_vars(BuildStep)

-----------------------------------------------------------------------------
(* Properties.                                                             *)

\* What the executor's loop over the layers relies on: a node is mapped or
\* waiting, never both; the layers are numbered without a gap; and a mapped
\* node stands exactly once in the onion, in the layer it was given.  Whatever
\* the erased iterator does, the sweep stands on a node that waits.
PlacedOnce ==
  /\ Mapped \cap unmapped = {}
  /\ pc = "visit" => cursor \in unmapped
  /\ \A l \in DOMAIN onion : l > 0 => l - 1 \in DOMAIN onion
  /\ \A n \in Mapped : \E i \in DOMAIN onion[layer[n]] : onion[layer[n]][i] = n
  /\ \A l \in DOMAIN onion : \A i, j \in DOMAIN onion[l] :
       /\ onion[l][i] \in Mapped
       /\ layer[onion[l][i]] = l
       /\ onion[l][i] = onion[l][j] => i = j

\* _built is never stale: while it is set, nothing waits in _unmapped, however
\* addNode() and buildGraph() alternate.
BuiltIsCurrent == built => unmapped = {}

\* The layers order the execution: once the graph of a client that numbers its
\* nodes in an order of execution is built, complete and by an iterator that
\* survived the erasures, every producer is in an earlier layer than each of
\* its consumers, in whatever order addNode() was given them.
LayersRespectInputs ==
  built /\ orderly => \A n \in Mapped : \A p \in Producers(n) \cap Ids :
             p \in Mapped /\ layer[p] < layer[n]

\* buildGraph() of a graph that is all there and has no cycle ends, unless its
\* iterator took the program down: every sweep places at least one node.
BuildEnds ==
  (pc = "round" /\ Added = Ids) ~> (pc \in {"idle", "crashed"})

\* A node that no other one reads.
Final(n) == \A m \in Added : n \notin Producers(m)

\* What a final node returns: its external outputs if it names some, or itself.
FinalOutputs ==
  UNION {IF NoOutputs(n) THEN {n} ELSE {o \in Range(graph[n].outputs) : o < 0} :
           n \in {m \in Added : Final(m)}}

\* Does the client declare an internal output of exactly the nodes that others
\* read?  addNode() knows of consumers only through such declarations.
ConsumersDeclared ==
  \A n \in Ids : (\E m \in Ids : n \in Producers(m))
                  <=> (HasInternalOutputs(n) /\ ~NoOutputs(n))

\* Output modes, as config.fbs words them: IMPLICIT returns the outputs of the
\* final nodes and nothing else, EXPLICIT what was declared, the third both;
\* each once, whatever order nodes and declarations came in, once all have.
OutputsByMode ==
  built /\ Added = Ids =>
    /\ IsInjective(output)
    /\ mode = "EXPLICIT" => Range(output) = asked
    /\ ConsumersDeclared =>
         /\ mode = "IMPLICIT" => Range(output) = FinalOutputs
         /\ mode = "EXPLICIT_AND_IMPLICIT" =>
              Range(output) = asked \cup FinalOutputs

\* What an input can name: an external, or an output of some node.
Variables == Externals \X {0} \cup UNION {NewVariables(m) : m \in Ids}

\* Block b of node n holds an entry for each input, in order, and a null
\* pointer only where the input names an output that no node has.
Filled(n, b) ==
  /\ DOMAIN b = DOMAIN graph[n].inputs
  /\ \A i \in DOMAIN b :
       graph[n].inputs[i] \in Variables => b[i] = graph[n].inputs[i]

\* When producers are added before their consumers, every custom op finds in
\* its Block the variables of all its inputs once the graph is built, and no
\* null pointer among them: addNode() alone fills a Block, for good.
BlocksFilled ==
  producersFirst /\ built => \A n \in DOMAIN block : Filled(n, block[n])

\* buildGraph(): "if input node wasn't mapped yet - we'll have skip it in this
\* round": no node is placed while one of its producers waits.
PlacedAfterInputs ==
  [][\A n \in unmapped \ unmapped' : Producers(n) \cap unmapped = {}]_vars

=============================================================================
