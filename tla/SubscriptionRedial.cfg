SPECIFICATION Spec
CONSTANTS
  MaxMsgs = 2
  MaxFaults = 2
  InitDelay = 2
  MaxDelay = 7
CHECK_DEADLOCK FALSE
INVARIANT
  NoRedialWhenOff
