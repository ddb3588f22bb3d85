SPECIFICATION FairSpec
CONSTANTS
  Ids = {1, 2, 3}
  Externals <- ExternalIds
  Graphs <- AcyclicGraphs
  Modes = {"IMPLICIT", "EXPLICIT", "EXPLICIT_AND_IMPLICIT", "VARIABLE_SPACE"}
  EraseOutcomes = {"next", "skip", "crash"}
  WholeGraphs = FALSE
  MaxAsked = 1
  Custom = {2, 3}
INVARIANT PlacedOnce
INVARIANT OutputsByMode
INVARIANT LayersRespectInputs
INVARIANT BlocksFilled
PROPERTY BuildEnds
CHECK_DEADLOCK FALSE
