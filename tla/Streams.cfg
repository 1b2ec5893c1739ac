SPECIFICATION FairSpec
CONSTANTS
  a = a
  b = b
  c = c
  Nodes = {a}
  Supersteps <- Alone
  ApprovalNodes = {a}
  Readers = {r1}
  MaxLegs = 2
  MaxFaults = 1
  EndsElsewhere = TRUE
  Deletes = FALSE
  Retention = FALSE
PROPERTY StreamIsServed
CHECK_DEADLOCK FALSE
