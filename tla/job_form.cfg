SPECIFICATION Spec
CONSTANTS
  j1 = j1
  j2 = j2
  j3 = j3
  j4 = j4
  JobIds = {j1, j2, j3, j4}
  MaxStored = 2
  Regions = {"US"}
  Categories = {0, 28}
  PerHour = 2
  FirstTime = 980001
  LastTime = 980003
  MaxRequests = 2
  MaxCalls = 5
SYMMETRY Interchangeable
INVARIANTS
  KeepsTheRecent
  OneJobAnHour
  AnswerIsAsked
