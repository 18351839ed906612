SPECIFICATION ControllersFairSpec
CONSTANTS
  Nil = Nil
  Identity <- OneIdentity
  Cluster <- OneCluster
  Pod <- OnePod
  Listener <- OneListener
  Label <- OneLabel
  IdentitySpec <- OnlyBase
  Registration <- OnOff
  Home <- AllInC1
  NamespaceOf <- AllInApp
  IgnoredNamespace <- System
  ForeignEntry <- NoEntries
  MaxChanges = 1
  MaxFaults = 1
  MaxQueue = 1
CHECK_DEADLOCK FALSE
PROPERTIES EventuallyConverged ImplementsLedger
