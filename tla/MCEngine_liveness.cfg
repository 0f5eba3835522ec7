\* A stop or a kill takes effect and the loop drains, under the fairness of the
\* loop.
SPECIFICATION FairSpec
CHECK_DEADLOCK FALSE
CONSTANTS
  Threads = {t1, t2}
  NoThread = NoThread
  UserProcs = {p1}
  Handles = {h1}
  Reqs = {r1}
  Interrupts = {"Kill"}
  MaxQueued = 1
PROPERTIES ReleaseCompletes StopTakesEffect InterruptEndsRun
