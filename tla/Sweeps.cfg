SPECIFICATION Spec
CONSTANTS
  Workers = {w1, w2}
  Clients = {c1, c2}
  Sweepers = {s1}
  Nodes = 1
  ApprovalNodes = {1}
  ClientOps = {"create", "run_external", "cancel", "resume", "delete"}
  MaxDeliveryAttempts = 2
  QueueAttempts = 1
  MaxPauses = 1
  RequestDeadline = TRUE
  StuckBeforeLease = FALSE
SYMMETRY Symmetry
INVARIANT OneDriver
PROPERTIES ImplementsContract CanceledQueuedNeverRuns SettledIsFinal
