SPECIFICATION MCSpec
CONSTANTS
  c1 = c1
  c2 = c2
  n1 = n1
  n2 = n2
  w1 = w1
  NoNode = NoNode
  Configs <- VipAll
  MaxFaults = 2
INVARIANTS PlanMeansOneCluster BootstrapInOrder AddressFailsClosed ProxySettles
PROPERTIES TakenWhenHealthy
CHECK_DEADLOCK FALSE
