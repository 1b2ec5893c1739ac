SPECIFICATION FairSpec
CONSTANTS
  a = a
  b = b
  c = c
  Nodes = {a}
  Supersteps <- Alone
  ApprovalNodes = {a}
  Readers = {r1}
  MaxLegs = 1
  MaxFaults = 0
  EndsElsewhere = TRUE
  Deletes = FALSE
  Retention = FALSE
PROPERTY EveryStreamEnds
CHECK_DEADLOCK FALSE
