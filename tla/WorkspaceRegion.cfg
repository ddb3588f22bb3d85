\* Is what allocateBytes() returns inside the buffer?
SPECIFICATION Spec
CONSTANTS
  Threads = {t1, t2}
  Sizes = {1, 2}
  InitialSize = 2
  Blocks = {b1, b2, b3, b4, b5}
  NoBlock = NoBlock
  NoThread = NoThread
  MaxDemand = 4
  MaxCycles = 1
INVARIANT RegionInBuffer
\* Once the bounds are reached, or the workspace destroyed, nothing is left to do.
CHECK_DEADLOCK FALSE
