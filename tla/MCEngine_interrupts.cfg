\* Two Ruby threads, user handles and requests, with signals and kills at every
\* point of every run.
SPECIFICATION Spec
CHECK_DEADLOCK FALSE
CONSTANTS
  Threads = {t1, t2}
  NoThread = NoThread
  UserProcs = {p1}
  Handles = {h1, h2}
  Reqs = {r1}
  Interrupts = {"Signal", "Kill"}
  MaxQueued = 2
SYMMETRY Symmetry
INVARIANTS IInv LoopHoldsMutex ReleaseIsFinal HandlesProtected NoLostWakeup
PROPERTIES FirstErrorWins LivesInOrder
