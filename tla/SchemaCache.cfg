SPECIFICATION FairSpec
CONSTANTS
  Absent = Absent
  Failed = Failed
  t1 = t1
  t2 = t2
  o1 = o1
  o2 = o2
  c1 = c1
  c2 = c2
  Type <- Types
  Op <- Ops
  Key <- ThreeKeys
  Caller <- Callers
  Malformed <- SecondMalformed
  MaxVersion = 1
  MaxCalls = 2
CHECK_DEADLOCK FALSE
INVARIANTS
  NoPoison
  StaleOnlyIfCrossed
PROPERTIES
  SlotsImplemented
  CallsEnd
