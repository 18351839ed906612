SPECIFICATION Spec
CONSTANTS
  Nil = Nil
  Identity <- TwoIdentities
  Cluster <- OneCluster
  Pod <- TwoPods
  Listener <- OneListener
  Label <- OneLabel
  IdentitySpec <- SelectiveSpecs
  Registration <- ProdOrStaging
  Home <- AllInC1
  NamespaceOf <- P2InSystem
  IgnoredNamespace <- System
  ForeignEntry <- ByHand
  MaxChanges = 0
  MaxFaults = 1
  MaxQueue = 2
CHECK_DEADLOCK FALSE
INVARIANTS PassConverges
