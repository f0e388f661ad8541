SPECIFICATION Spec
CONSTANTS
  t1 = t1
  t2 = t2
  t3 = t3
  t4 = t4
  ip1 = ip1
  ip2 = ip2
  k1 = k1
  k2 = k2
  k3 = k3
  k4 = k4
  k5 = k5
  Tasks <- MCTasks
  IPs <- MCIPs
  AddressOf <- MCAddressOf
  Counters <- MCCounters
  NoTask = NoTask
  NoCounter = NoCounter
  MaxTotal = 3
  MaxPerIP = 2
SYMMETRY Symmetry
INVARIANTS
  TypeOK
  CountersMatchTasks
  GuardsWithinLimits
PROPERTIES
  CountedKeepsItsEntry
