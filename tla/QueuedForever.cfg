SPECIFICATION FairSpec
CONSTANTS
  Workers = {w1}
  Clients = {c1}
  Sweepers = {s1}
  Nodes = 1
  ApprovalNodes = {}
  ClientOps = {"create"}
  MaxDeliveryAttempts = 1
  QueueAttempts = 1
  MaxPauses = 0
  RequestDeadline = TRUE
  StuckBeforeLease = TRUE
PROPERTY DoubleFailureSettles
