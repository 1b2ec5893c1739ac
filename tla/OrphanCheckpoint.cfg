SPECIFICATION Spec
CONSTANTS
  Workers = {w1}
  Clients = {c1, c2, c3}
  Sweepers = {}
  Nodes = 1
  ApprovalNodes = {}
  ClientOps = {"create", "cancel", "delete"}
  MaxDeliveryAttempts = 1
  QueueAttempts = 1
  MaxPauses = 0
  RequestDeadline = TRUE
  StuckBeforeLease = TRUE
INVARIANT DeletedLeavesNoCheckpoint
CHECK_DEADLOCK FALSE
