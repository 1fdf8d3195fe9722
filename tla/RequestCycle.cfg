SPECIFICATION Spec
CONSTANTS
  a = a
  b = b
  c = c
  Agent <- MCAgent
  Op <- MCOp
  At <- MCAt
  Follows <- MCFollows
  Asked <- MCAsked
  Timeouts <- MCTimeouts
  Grace = 1
  Lags = {0, 1}
  MaxCalls = 3
  MaxWork = 1
  MaxLosses = 1
  Unsendable <- MCUnsendable
INVARIANTS
  EnvelopeFirst
  OnlyHeldUpExpire
CHECK_DEADLOCK FALSE
PROPERTIES CallsEnd AgentsFree
