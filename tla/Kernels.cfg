CONSTANTS
  SortTeam = {t1, t2}
  SortInputs <- Keys
  SortKinds = {"dense", "coo"}
  Cutoff = 2
  Nobody = nobody
  CodecTeam = {t1, t2}
  Updates <- ManyUpdates
  Threshold = 4
  WordSize = 2
  LoopCalls <- Calls
  MaxTeam = 3
  ElementThreshold = 2
  Bins = 3
  Lowest <- NoFloat
  Size = 7
  Seeds = {2, 5}
  Lengths = {1, 4, 13, 50}
  MaxTrials = 2
  MaxRetries = 1
  MaxThreads = 3
  MaxGeneration = 8
  TadCalls <- Sliced
SPECIFICATION KernelSpec
INVARIANTS
  RangesApart ScansStayInRange InOrder NothingLost
  MessageComplete UpdatesConserved
  EveryElementOnce IndexIsRight FirstMaximumMarked
  ChunksPartition OnlyRetriesReadAhead
  SlicesInOrder
PROPERTIES SortEnds StreamAdvances SplitDrawsAgree
CHECK_DEADLOCK FALSE
