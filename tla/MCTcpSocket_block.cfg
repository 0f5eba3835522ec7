CONSTANTS
  Sockets = {s1}
  DestTypes = {"ip"}
  MaxWrites = 1
SPECIFICATION Spec
INVARIANT NoBlockWhenReleasing
CHECK_DEADLOCK FALSE
