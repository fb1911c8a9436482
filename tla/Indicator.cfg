SPECIFICATION Spec
CONSTANTS
  ExitMin = 4
  ExitMax = 6
INVARIANTS
  HeldNoLonger
  ExitsAnswerEntries
