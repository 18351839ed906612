SPECIFICATION FairSpec
CONSTANTS
  Nil = Nil
  Identity <- OneIdentity
  Cluster <- OneCluster
  Pod <- OnePod
  Listener <- TwoListeners
  Label <- TwoLabels
  IdentitySpec <- OnlyProduction
  Registration <- NewRole
  Home <- AllInC1
  NamespaceOf <- AllInApp
  IgnoredNamespace <- System
  ForeignEntry <- NoEntries
  MaxChanges = 3
  MaxFaults = 1
  MaxQueue = 2
CHECK_DEADLOCK FALSE
PROPERTIES EventuallyConverged Settles
