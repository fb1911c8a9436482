SPECIFICATION Spec
CONSTANTS
  Interval = 4
  Threshold = 6
  SendTime = 2
INVARIANTS
  TypeOK
  OncePerSilence
  NoticedInTime
