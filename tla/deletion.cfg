SPECIFICATION FairSpec
CONSTANTS
  Identity <- Identities
  Cluster <- OneCluster
  AtStart <- WebGoing
  Entry <- Entries
  TagContains <- Prefixed
  BatchSize = 1
  MaxChanges = 2
  MaxFaults = 1
CHECK_DEADLOCK FALSE
INVARIANT LiveHasFinalizer
PROPERTIES GoneOnlyCleanedUp DeletionCompletes EntriesConverge
