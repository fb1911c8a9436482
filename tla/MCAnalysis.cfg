SPECIFICATION AnalysisFairSpec
CONSTANTS
  MinConfidence = 60
  MaxRetries = 3
  RawConfidences <- MCRawConfidences
INVARIANTS
  TypeOK
  PolicyRespected
  FallbackOnlyWhenExhausted
  ContextHonest
  OnlyMalformedRaises
PROPERTIES
  RequestEnds
