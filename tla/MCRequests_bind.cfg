CONSTANTS
  Sockets = {s1}
  Reqs = {r1}
  BindTypes = {"ipv4", "ipv6"}
  UvErrors = {"init", "bind", "recv_start"}
  MaxRuns = 1
SPECIFICATION Spec
INVARIANT FailureIsRaised
CHECK_DEADLOCK FALSE
