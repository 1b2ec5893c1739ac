SPECIFICATION Spec
CONSTANTS
  a = a
  b = b
  c = c
  Nodes = {a, b}
  Supersteps <- InARow
  ApprovalNodes = {a, b}
  Readers = {}
  MaxLegs = 3
  MaxFaults = 0
  EndsElsewhere = FALSE
  Deletes = FALSE
  Retention = TRUE
INVARIANT TerminalEventAfterRetention
CHECK_DEADLOCK FALSE
