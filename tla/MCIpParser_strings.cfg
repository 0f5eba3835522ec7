SPECIFICATION Spec
INVARIANTS
  MachineIsGrammar
  ExactUnlessIPv6
  FitsInBuffer
CHECK_DEADLOCK FALSE
