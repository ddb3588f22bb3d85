\* Graphs in which a BROADCAST overwrites an array other nodes read.
SPECIFICATION Spec
CONSTANTS
  Ids <- MCIds
  InputVars <- MCInputVars
  OutputVars <- MCOutputVars
  Graphs <- BranchingGraphs
  IdOrder = TRUE
  MaxRuns = 1
INVARIANT InputsIntact
\* The client may stop after MaxRuns executions.
CHECK_DEADLOCK FALSE
