SPECIFICATION FairSpec
CONSTANTS
  w1 = w1
  w2 = w2
  r1 = r1
  r2 = r2
  Workers = {w1}
  Requests = {r1, r2}
  Symbols = {"XAUUSD"}
  Alerts <- MCAlerts
  Cooldown = 1
  LlmConfigured = TRUE
  BrokerEnabled = TRUE
  NotifySkip = TRUE
  NotifyExecute = TRUE
  MaxClock = 3
  MaxBoots = 2
  MinConfidence = 60
  RawConfidences <- MCRawConfidences
  MaxDailyTrades = 5
  MaxDrawdown <- MCMaxDrawdown
  MaxSpread = 150
  MaxAtr = 50
  AtrPctMode = TRUE
  AtrPctBlock = 80
  NewsBlackout = TRUE
INVARIANTS
  TypeOK
  CooldownHolds
  OrdersAuthorised
  NoSilentOrder
  JournalTruthful
  SilenceClockFed
PROPERTIES
  DropJustified
  ImplementsLedger
  AdmittedEnds
