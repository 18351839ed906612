SPECIFICATION FairSpec
CONSTANTS
  Nil = Nil
  Replica = {a, b}
  Lifetime = 6
  MaxStarts = 4
  MaxFaults = 2
INVARIANT NeverExpired
PROPERTY BundleFollows
