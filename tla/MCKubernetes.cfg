SPECIFICATION MCSpec
CONSTANTS
  c1 = c1
  Roles = {"apply", "control-plane", "worker", "external"}
  MaxFaults = 3
  FaultKinds <- Profiles
INVARIANTS UpgradeGated OneNodeAtATime
PROPERTIES UpgradeCommits EtcdChangesSafe ConfigReachesNodes
CHECK_DEADLOCK FALSE
