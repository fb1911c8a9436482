SPECIFICATION JournalSpec
CONSTANTS
  MinMult = 1
  MaxMult = 3
  AtrMult = 2
  Fallback = 4
  DefaultRr = 2
  FixedLot = 0
  Workers = {w1}
  Calls = {c1, c2}
  MaxRows = 2
  MaxFaults = 0
  Databases <- First
  Alerts <- MCAlerts
  Rrs <- MCRrs
  Budget = 30
  Bodies <- MCBodies
INVARIANTS
  MigratedInPlace
