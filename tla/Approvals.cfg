SPECIFICATION Spec
CONSTANTS
  Workers = {w1, w2}
  Clients = {c1, c2, c3}
  Sweepers = {}
  Nodes = 2
  ApprovalNodes = {1, 2}
  ClientOps = {"create", "resume", "cancel", "delete"}
  MaxDeliveryAttempts = 2
  QueueAttempts = 1
  MaxPauses = 2
  RequestDeadline = TRUE
  StuckBeforeLease = TRUE
SYMMETRY Symmetry
INVARIANTS TypeOK OneApprovalPerPause DecisionsAreAudited
CHECK_DEADLOCK FALSE
