CONSTANTS
  m1 = m1
  Turns = {m1}
  Tools = {"fetch", "email", "post"}
  MaxSteps = 2
SPECIFICATION Spec
CHECK_DEADLOCK FALSE
INVARIANTS StreamTellsAll  NothingHeldBackLeaves
PROPERTIES StreamEnds
