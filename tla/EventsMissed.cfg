SPECIFICATION Spec
CONSTANTS
  a = a
  b = b
  c = c
  Nodes = {a, b}
  Supersteps <- InARow
  ApprovalNodes = {}
  Readers = {r1}
  MaxLegs = 1
  MaxFaults = 0
  EndsElsewhere = FALSE
  Deletes = FALSE
  Retention = FALSE
INVARIANT NoMissedEvents
CHECK_DEADLOCK FALSE
