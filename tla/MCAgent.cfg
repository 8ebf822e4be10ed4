SPECIFICATION MCSpec
CONSTANTS
  c1 = c1
  c2 = c2
  q1 = q1
  q2 = q2
  Clients = {c1, c2}
  ReqIds = {q1, q2}
  Kinds = {"bootstrap-join-worker", "generation-apply", "destructive-reset"}
  MaxOps = 2
  MaxFaults = 1
  PidReuse = TRUE
INVARIANTS OneOperation OperationAccounted BootstrapAttemptsSafe
PROPERTIES AcceptedOnCurrentBase
CHECK_DEADLOCK FALSE
