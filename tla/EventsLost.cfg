SPECIFICATION Spec
CONSTANTS
  a = a
  b = b
  c = c
  Nodes = {a, b}
  Supersteps <- SideBySide
  ApprovalNodes = {}
  Readers = {r1}
  MaxLegs = 1
  MaxFaults = 0
  EndsElsewhere = FALSE
  Deletes = FALSE
  Retention = FALSE
INVARIANT EveryEventAppended
CHECK_DEADLOCK FALSE
