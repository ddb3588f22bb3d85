SPECIFICATION Spec
CONSTANTS
  Ids = {1, 2, 3}
  Externals <- ExternalIds
  Graphs <- AcyclicGraphs
  Modes = {"IMPLICIT"}
  EraseOutcomes = {"next"}
  WholeGraphs = TRUE
  MaxAsked = 0
  Custom = {}
PROPERTY PlacedAfterInputs
CHECK_DEADLOCK FALSE
