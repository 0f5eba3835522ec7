\* Is the engine restartable when an interrupt arrives while it is releasing?
SPECIFICATION Spec
CHECK_DEADLOCK FALSE
CONSTANTS
  Threads = {t1, t2}
  NoThread = NoThread
  UserProcs = {p1}
  Handles = {}
  Reqs = {}
  Interrupts = {"Kill"}
  MaxQueued = 1
INVARIANTS Restartable
