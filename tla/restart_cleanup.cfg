SPECIFICATION ControllersSpec
CONSTANTS
  Nil = Nil
  Identity <- OneIdentity
  Cluster <- OneCluster
  Pod <- OnePod
  Listener <- OneListener
  Label <- OneLabel
  IdentitySpec <- OnlyBase
  Registration <- OnlyEnabled
  Home <- AllInC1
  NamespaceOf <- AllInApp
  IgnoredNamespace <- System
  ForeignEntry <- NoEntries
  MaxChanges = 0
  MaxFaults = 1
  MaxQueue = 1
CHECK_DEADLOCK FALSE
PROPERTY CleanupDeletesOnlyOrphans
