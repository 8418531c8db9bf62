CONSTANTS
  h1 = h1
  h2 = h2
  a1 = a1
  a2 = a2
  Holds = {h1, h2}
  Analysts = {a1, a2}
  Timeouts <- MCTimeouts
  Period = 2
  Slack = 1
  LastPost = 1
  Horizon = 8
SPECIFICATION Spec
CHECK_DEADLOCK FALSE
INVARIANTS TypeOK DecisionStands ExpiryIsPrompt
PROPERTIES ImplementsLifecycle NothingPendsForever
