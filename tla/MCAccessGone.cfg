SPECIFICATION HSpec
CONSTANTS
  Users = {a, b}
  Capacity = 1
  SessionMs = 4
  IdleMs = 1
  GraceMs = 2
  LockWaitMs = 0
  MaxTime = 1000
  MaxSeq = 1000
INVARIANTS GoneLosesSeat
CHECK_DEADLOCK FALSE
SYMMETRY Symm
