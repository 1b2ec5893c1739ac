SPECIFICATION Spec
CONSTANTS
  Requests = {r1, r2, r3}
  Capacity = 10
  Rate = 2
  Cost = 5
  MaxTime = 6
  MaxGranted = 4
INVARIANT WithinRate
PROPERTIES ImplementsTokenBucket RetryAfterIsEnough
CHECK_DEADLOCK FALSE
