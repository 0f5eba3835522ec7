\* Two timers whose procs use both, restarts that raise, a clock that jumps and
\* a loop that is late.
CONSTANTS
  Timers = {t1, t2}
  Delays = {0, 2}
  MaxDelay = 2
  MaxLate = 1
  Lapses = {"delayRaises"}
SPECIFICATION FairSpec
INVARIANTS
  OthersAsDocumented
  FiredIsProtected
PROPERTIES
  LivesInOrder
  KeepsRinging
CHECK_DEADLOCK FALSE
