CONSTANTS
  j1 = j1
  j2 = j2
  Jobs = {j1, j2}
  Containers <- SixContainers
  PoolSize = 1
SPECIFICATION Spec
CHECK_DEADLOCK FALSE
INVARIANTS NoneForgotten PoolRecovers
PROPERTIES ImplementsSingleUse EveryJobAnswered
