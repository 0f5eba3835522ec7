\* Two sockets and queries share the table of procs over two runs.
CONSTANTS
  Sockets = {s1, s2}
  Reqs = {r1, r2}
  BindTypes = {"ipv4", "ipv6"}
  UvErrors = {"init", "bind", "recv_start"}
  MaxRuns = 2
SPECIFICATION FairSpec
INVARIANTS
  OwnProc
  WaitingIsOutstanding
  ReqInv
PROPERTIES
  AnswersInOrder
  LivesInOrder
  AnswersKeepPromise
CHECK_DEADLOCK FALSE
