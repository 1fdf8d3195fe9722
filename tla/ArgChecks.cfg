SPECIFICATION Spec
CONSTANTS
  f1 = f1
  f2 = f2
  Null = Null
  NotObject = NotObject
  Failed = Failed
  Field <- Fields
  Kind <- Kinds
  Declared <- Types
CHECK_DEADLOCK FALSE
INVARIANTS
  TypeOK
  HandlerSafe
  RefusalJustified
  SidesAgree
