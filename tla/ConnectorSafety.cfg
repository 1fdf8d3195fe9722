SPECIFICATION Spec
CONSTANTS
  NoRequest = NoRequest
  r1 = r1
  r2 = r2
  s1 = s1
  s2 = s2
  Request <- TwoRequests
  Unencodable <- SecondBad
  Stopper <- TwoStoppers
  MaxConns = 3
  InitDelay = 2
  MaxDelay = 3
  MaxFaults = 1
  MaxChatter = 1
SYMMETRY Stoppers
CHECK_DEADLOCK FALSE
INVARIANTS
  HonestRegistration
  RegisterFirst
  RepliesInOrder
  OneLiveLink
  StopIsFinal
PROPERTY LinkImplemented
