SPECIFICATION FairSpec
CONSTANTS
  s1 = s1
  s2 = s2
  Stopper <- TwoStoppers
  MaxStarts = 2
  MaxLosses = 3
CHECK_DEADLOCK FALSE
INVARIANTS
  ServesWhole
  EndsClean
PROPERTIES
  WelcomeNeverBlocks
  ShutdownEnds
  LinkAsPromised
