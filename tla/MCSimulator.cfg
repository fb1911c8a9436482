SPECIFICATION Spec
CONSTANTS
  MinMult = 1
  MaxMult = 3
  AtrMult = 1
  Fallback = 2
  DefaultRr = 2
  FixedLot = 0
  MaxPrice = 5
  Entry = 3
  Atrs <- MCAtrs
  Rr = 1
  MaxBars = 3
  Data <- MCData
  TriggerR = 5
  BufferMult = 1
INVARIANTS
  FirstTouch
  RiskBounded
CHECK_DEADLOCK FALSE
