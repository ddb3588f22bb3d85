\* Does session 0 hold the original space?
SPECIFICATION Spec
CONSTANTS
  Threads = {t1, t2}
  NoThread = NoThread
  MaxSessions = 2
INVARIANT ZeroIsOriginal
CHECK_DEADLOCK FALSE
