SPECIFICATION Spec
CONSTANTS
  Nil = Nil
  Identity <- OneIdentity
  Cluster <- OneCluster
  Pod <- OnePod
  Listener <- OneListener
  Label <- TwoLabels
  IdentitySpec <- CoreSpecs
  Registration <- OnOff
  Home <- AllInC1
  NamespaceOf <- AllInApp
  IgnoredNamespace <- System
  ForeignEntry <- ByHand
  MaxChanges = 3
  MaxFaults = 1
  MaxQueue = 2
CHECK_DEADLOCK FALSE
INVARIANTS TypeOK ForeignUntouched OnlyForStartedPods PassConverges
PROPERTIES PassKeepsWanted HandlerLossHeals ImplementsLedger
