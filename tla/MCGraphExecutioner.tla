-------------------------- MODULE MCGraphExecutioner --------------------------
(***************************************************************************)
(* Graphs of three nodes for TLC: every wiring, every choice of operations *)
(* and of declared outputs that a family below admits.                     *)
(***************************************************************************)
EXTENDS GraphExecutioner

MCIds == {1, 2, 3}
MCInputVars == {-1, -2, -3}
MCOutputVars == {-9}

\* One or two inputs, numbered below the node; each external one has a single
\* reader, -n for node n, unless node 1 reads -2 as well.
InputsOf(n) ==
  IF n = 1 THEN {<<-1>>, <<-1, -2>>}
  ELSE LET from == (1 .. n - 1) \cup {-n}
       IN  {<<p>> : p \in from} \cup
           {<<p[1], p[2]>> : p \in {q \in from \X from : q[1] # q[2]}}

Wirings ==
  {w \in [MCIds -> UNION {InputsOf(n) : n \in MCIds}] :
     /\ \A n \in MCIds : w[n] \in InputsOf(n)
     /\ ~ (-2 \in Range(w[1]) /\ -2 \in Range(w[2]))}

\* Which operations take so many inputs.
OpsOf(k) ==
  IF k = 1 THEN {"TRANSFORM", "SCALAR", "ACCUMULATION", "INDEX_ACCUMULATION",
                 "CUSTOM"}
           ELSE {"TRANSFORM", "ACCUMULATION", "BROADCAST", "CUSTOM"}

ConsumersIn(w, n) == SelectSeq(<<1, 2, 3>>, LAMBDA m : n \in Range(w[m]))

\* Consumers are declared; node named publishes its result.  addNode() gives a
\* node that would declare nothing its own id.
Declared(w, named) ==
  [n \in MCIds |->
     LET declared ==
           ConsumersIn(w, n) \o (IF n = named THEN <<-9>> ELSE <<>>)
     IN  IF declared = <<>> THEN <<n>> ELSE declared]

AllGraphs ==
  UNION {
    {[n \in MCIds |->
        [op |-> f[n], inputs |-> w[n], outputs |-> Declared(w, k)[n]]] :
       f \in {h \in [MCIds -> OpTypes] :
                \A n \in MCIds : h[n] \in OpsOf(Len(w[n]))},
       k \in MCIds} :
    w \in Wirings}

\* Graphs in which nothing that is overwritten has another reader, and others.
SeparateGraphs == {g \in AllGraphs : Separate(g)}
BranchingGraphs == AllGraphs \ SeparateGraphs

===============================================================================
