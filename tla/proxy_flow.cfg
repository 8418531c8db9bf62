CONSTANTS
  f1 = f1
  f2 = f2
  Flows = {f1, f2}
  MaxFlips = 2
  MaxCrashes = 1
SPECIFICATION Spec
CHECK_DEADLOCK FALSE
INVARIANTS TypeOK NothingSlipsThrough FeedIsObeyed OffLetsCallsPass
 
