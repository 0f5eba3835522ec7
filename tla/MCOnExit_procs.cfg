CONSTANTS
  Threads = {t1, t2}
  Nobody = Nobody
  Errors = {e1, e2}
  NoError = NoError
  MaxProcs = 3
  MaxRuns = 3
SPECIFICATION Spec
SYMMETRY Symmetry
INVARIANTS
  ErrorOfItsRun
  CalledByTheNextEnd
  EachOnceInOrder
  NotItsOwnMutex
CHECK_DEADLOCK FALSE
