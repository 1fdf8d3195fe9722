SPECIFICATION FairSpec
CONSTANTS
  NoRequest = NoRequest
  r1 = r1
  r2 = r2
  s1 = s1
  s2 = s2
  Request <- OneRequest
  Unencodable <- Nobody
  Stopper <- OneStopper
  MaxConns = 5
  InitDelay = 2
  MaxDelay = 7
  MaxFaults = 3
  MaxChatter = 0
CHECK_DEADLOCK FALSE
INVARIANTS
  BackoffExact
  NoStraySocket
PROPERTIES
  Reconnects
  StopEnds
  RequestsAnswered
