SPECIFICATION Spec
CONSTANTS
  a = a
  b = b
  c = c
  Nodes = {a, b, c}
  Supersteps <- TwoThenOne
  ApprovalNodes = {c}
  Readers = {r1}
  MaxLegs = 1
  MaxFaults = 1
  EndsElsewhere = FALSE
  Deletes = TRUE
  Retention = TRUE
INVARIANT NothingSkipped
INVARIANT ExecutorEventsKept
CHECK_DEADLOCK FALSE
