SPECIFICATION FairSpec
CONSTANTS
  r1 = r1
  r2 = r2
  NoValue = NoValue
  Requests <- Pages
  Regions = {"US", "DE"}
  Categories = {10, 20}
  Moments = {1, 2, 3, 4}
  PerSecond = 2
  Readers = {r1, r2}
  TTL = 2
  MaxDelay = 1
INVARIANTS
  BoundedStaleness
  AnswersTheRequest
PROPERTIES
  StaleDataGoes
