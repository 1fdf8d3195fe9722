SPECIFICATION Spec
CONSTANTS
  NoRequest = NoRequest
  r1 = r1
  r2 = r2
  s1 = s1
  s2 = s2
  Request <- Nobody
  Unencodable <- Nobody
  Stopper <- OneStopper
  MaxConns = 4
  InitDelay = 2
  MaxDelay = 7
  MaxFaults = 2
  MaxChatter = 1
CHECK_DEADLOCK FALSE
INVARIANT
  StopAlwaysFinal
