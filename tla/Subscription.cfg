SPECIFICATION FairSpec
CONSTANTS
  MaxMsgs = 4
  MaxFaults = 4
  InitDelay = 2
  MaxDelay = 7
CHECK_DEADLOCK FALSE
INVARIANTS
  AckCoversSeen
  NoAckedAgain
  BackoffExact
PROPERTY
  EventuallySeen
