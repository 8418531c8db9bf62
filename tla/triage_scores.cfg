CONSTANTS
  r1 = r1
  Requests = {r1}
  Callers <- MCCallers
  Tools <- ToolNames
  Chains <- MCChains
  RecentWindow = 2
  PriorWindow = 1
  S2Scores <- GridS2
  S4Scores <- GridS4
  OpaFaults <- Faults
SPECIFICATION Spec
INVARIANTS CompositeNeedsTwoVoters DegradationNeverEscalates DeniedIsNeverAllowed
CHECK_DEADLOCK FALSE
 
