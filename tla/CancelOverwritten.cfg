SPECIFICATION Spec
CONSTANTS
  Workers = {w1}
  Clients = {c1, c2}
  Sweepers = {}
  Nodes = 1
  ApprovalNodes = {}
  ClientOps = {"create", "cancel"}
  MaxDeliveryAttempts = 1
  QueueAttempts = 1
  MaxPauses = 0
  RequestDeadline = TRUE
  StuckBeforeLease = TRUE
PROPERTY CanceledIsFinal
CHECK_DEADLOCK FALSE
