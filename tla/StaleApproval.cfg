SPECIFICATION Spec
CONSTANTS
  Workers = {w1}
  Clients = {c1, c2, c3}
  Sweepers = {}
  Nodes = 2
  ApprovalNodes = {1, 2}
  ClientOps = {"create", "confirm"}
  MaxDeliveryAttempts = 1
  QueueAttempts = 1
  MaxPauses = 2
  RequestDeadline = TRUE
  StuckBeforeLease = TRUE
INVARIANT DecisionReachesItsNode
CHECK_DEADLOCK FALSE
