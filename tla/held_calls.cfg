CONSTANTS
  c1 = c1
  c2 = c2
  Holds = {c1, c2}
  Timeouts <- MCTimeouts
  AutoAllow = 1
  AutoBlock = 3
  Values <- MCValues
  MaxFlips = 2
  Horizon = 1
SYMMETRY Symmetric
SPECIFICATION Spec
CHECK_DEADLOCK FALSE
INVARIANTS TypeOK 
