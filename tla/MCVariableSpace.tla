--------------------------- MODULE MCVariableSpace ---------------------------
(* VariableSpace with one external and one internal node. *)
EXTENDS VariableSpace, TLC

MCNodeIds == {-1, 1}
MCNames == {"x"}

=============================================================================
