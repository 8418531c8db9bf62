CONSTANTS
  s1 = s1
  s2 = s2
  transfer = transfer
  code = code
  Sessions = {s1}
  Steps = 2
  MaxFeed = 5
  MaxFlips = 1
  MaxCrashes = 1
  Tools = {transfer, code}
  Sandboxed = {code}
SPECIFICATION Spec
CHECK_DEADLOCK FALSE
INVARIANTS RefusedNeverRuns    KillChainStops
PROPERTY EverySessionEnds
