CONSTANTS
  r1 = r1
  r2 = r2
  Requests = {r1, r2}
  Callers <- Admin
  Tools <- MCTools
  Chains <- MCChains
  RecentWindow = 2
  PriorWindow = 1
  S2Scores <- FewS2
  S4Scores <- FewS4
  OpaFaults = {}
SPECIFICATION Spec
INVARIANTS TypeOK AnswerUsesEveryStage 
CHECK_DEADLOCK FALSE
