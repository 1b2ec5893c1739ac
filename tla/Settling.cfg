SPECIFICATION SweptSpec
CONSTANTS
  Workers = {w1}
  Clients = {c1, c2}
  Sweepers = {s1}
  Nodes = 1
  ApprovalNodes = {1}
  ClientOps = {"create", "run_external", "confirm"}
  MaxDeliveryAttempts = 2
  QueueAttempts = 1
  MaxPauses = 1
  RequestDeadline = TRUE
  StuckBeforeLease = TRUE
PROPERTY RunningSettles
