\* Both queues against ProcQueue, with procs that can be told apart; without
\* interrupts the engine can always be run again.
SPECIFICATION FairSpec
CHECK_DEADLOCK FALSE
CONSTANTS
  Threads = {t1, t2}
  NoThread = NoThread
  UserProcs = {p1, p2}
  Handles = {}
  Reqs = {}
  Interrupts = {}
  MaxQueued = 2
INVARIANTS Restartable
PROPERTIES NextTickKeepsPromise CallFromOtherThreadKeepsPromise
