SPECIFICATION Spec
CONSTANTS
  Nil = Nil
  Cluster <- OneCluster
  Informer <- TwoInformers
  Registration <- NewRole
  MaxTriggers = 1
  MaxChanges = 1
  MaxFaults = 0
  MaxOutages = 0
CHECK_DEADLOCK FALSE
INVARIANT ConnectedAsRegistered
