\* Two sockets whose hooks may use both, with destinations that are addresses or
\* references, and a peer that may never answer.
CONSTANTS
  Sockets = {s1, s2}
  DestTypes = {"ip", "ipv6_reference"}
  MaxWrites = 2
SPECIFICATION LiveSpec
INVARIANTS
  NeverAborts
  StoredExactly
  TimeoutIsError
  TcpInv
PROPERTIES
  HooksInOrder
  LivesInOrder
  HooksKeepPromise
  TimerEnds
  GracefulEnds
CHECK_DEADLOCK FALSE
