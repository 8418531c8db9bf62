CONSTANTS
  r1 = r1
  r2 = r2
  Requests = {r1, r2}
  Callers <- Admin
  Tools <- MCTools
  Chains <- NoChains
  RecentWindow = 2
  PriorWindow = 2
  S2Scores <- BenignS2
  S4Scores <- FewS4
  OpaFaults = {}
SPECIFICATION Spec
INVARIANT EscalationIsFlagged
CHECK_DEADLOCK FALSE
