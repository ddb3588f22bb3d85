\* Clients that pair their calls, and clients that call anything at any time.
SPECIFICATION FairSpec
CONSTANTS
  Threads = {t1, t2}
  NoThread = NoThread
  MaxSessions = 3
INVARIANTS MapsExact SessionsDistinct
PROPERTIES ReturnsOwnSpace ImplementsTable CallsReturn
\* A lookup that throws keeps the mutex: then every thread may be blocked.
CHECK_DEADLOCK FALSE
