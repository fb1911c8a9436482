SPECIFICATION Spec
CONSTANTS
  MaxDailyTrades = 5
  MaxDrawdown <- MCMaxDrawdown
  MaxSpread = 150
  MaxAtr = 50
  AtrPctMode = TRUE
  AtrPctBlock = 80
  NewsBlackout = TRUE
  Chain <- DefaultChain
  Contexts <- MCContexts
INVARIANTS
  TypeOK
  VerdictCorrect
  StrictestReduction
  LossLimitBlocks
