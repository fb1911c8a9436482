SPECIFICATION Spec
CONSTANTS
  l1 = l1
  l2 = l2
  p1 = p1
  Loops = {l1, l2}
  Positions = {p1}
  MaxPrice = 5
  Buffers = {0, 1, 2}
  Risks = {1, 2}
  TriggerR = 10
  MaxFailures = 1
SYMMETRY Symmetry
PROPERTIES
  NeverLoosened
