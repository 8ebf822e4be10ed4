SPECIFICATION Spec
CONSTANTS
  MaxGen = 2
  MaxFaults = 2
  MaxRequests = 2
INVARIANT UnstartedTrialReported
CHECK_DEADLOCK FALSE
