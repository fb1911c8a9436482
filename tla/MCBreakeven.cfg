SPECIFICATION FairSpec
CONSTANTS
  l1 = l1
  p1 = p1
  Loops = {l1}
  Positions = {p1}
  MaxPrice = 5
  Buffers = {0, 1, 2}
  Risks = {1, 2}
  TriggerR = 10
  MaxFailures = 5
INVARIANTS
  TypeOK
  TriggerHonoured
  NoLossAfterShift
PROPERTIES
  NeverLoosened
  Protected
