SPECIFICATION MCSpec
CONSTANTS
  c1 = c1
  c2 = c2
  q1 = q1
  q2 = q2
  Clients = {c1}
  ReqIds = {q1, q2}
  Kinds = {"host-upgrade"}
  MaxOps = 2
  MaxFaults = 1
  PidReuse = FALSE
INVARIANT ResubmitAdmitted
CHECK_DEADLOCK FALSE
