------------------------------- MODULE MCGraph -------------------------------
(***************************************************************************)
(* Families of graphs for TLC: every graph over the ids that has a given   *)
(* shape, rather than hand-picked examples.                                *)
(***************************************************************************)
EXTENDS Graph, FiniteSetsExt

CONSTANT Custom  \* which nodes carry a custom op (with two outputs)

\* One or two distinct producers taken from S, in id order.
InputChoices(S) ==
  {<<p>> : p \in S} \cup {<<p[1], p[2]>> : p \in {q \in S \X S : q[1] < q[2]}}

\* Producers of every node, each taken from Allowed(n).
Wirings(Allowed(_)) ==
  {w \in [Ids -> InputChoices(Ids \cup {-1})] :
     \A n \in Ids : Range(w[n]) \subseteq Allowed(n)}

\* Any numbering, but no cycle: some ranking puts producers first.
Acyclic ==
  {w \in Wirings(LAMBDA n : {-1} \cup (Ids \ {n})) :
     \E rank \in [Ids -> 1 .. Max(Ids)] : \A n \in Ids :
       \A p \in Range(w[n]) \cap Ids : rank[p] < rank[n]}

\* In the instances Ids is 1 .. k.
Consumers(w, n) ==
  SelectSeq([i \in Ids |-> i], LAMBDA m : n \in Range(w[m]))

\* Outputs name the consumers, and perhaps a variable; a final node names last.
Declared(w, last, extra) ==
  [n \in Ids |-> IF Consumers(w, n) # <<>> THEN Consumers(w, n) \o extra
                                           ELSE last]

\* The function of node definitions for wiring w and outputs out.
Build(w, out, isPlain) ==
  [n \in Ids |->
     [inputs |-> [i \in DOMAIN w[n] |-> <<w[n][i],
                    IF i = 2 /\ w[n][i] \in Custom THEN 1 ELSE 0>>],
      outputs |-> out[n], custom |-> n \in Custom,
      arity |-> IF n \in Custom THEN 2 ELSE 1,
      plain |-> isPlain]]

AcyclicGraphs ==
  {Build(w, Declared(w, last, extra), TRUE) :
     w \in Acyclic, last \in {<<>>, <<-2>>}, extra \in {<<>>, <<-1>>}}

ExternalIds == {-1, -2}
=============================================================================
