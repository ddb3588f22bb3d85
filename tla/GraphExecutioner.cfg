\* Operations that overwrite a shared input by design of the graph excluded.
SPECIFICATION Spec
CONSTANTS
  Ids <- MCIds
  InputVars <- MCInputVars
  OutputVars <- MCOutputVars
  Graphs <- SeparateGraphs
  IdOrder = FALSE
  MaxRuns = 2
INVARIANTS InputsIntact ResultsAreDataflow OutputsAreDataflow
\* The client may stop after MaxRuns executions.
CHECK_DEADLOCK FALSE
