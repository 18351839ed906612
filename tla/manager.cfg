SPECIFICATION FairSpec
CONSTANTS
  Nil = Nil
  Cluster <- OneCluster
  Informer <- TwoInformers
  Registration <- Registrations
  MaxTriggers = 1
  MaxChanges = 1
  MaxFaults = 1
  MaxOutages = 1
CHECK_DEADLOCK FALSE
INVARIANTS NoLeakedInformer WaitHasInformer
PROPERTIES ConnectionsFollowRegistry EveryTriggerServed ShutdownCompletes
