SPECIFICATION Spec
CONSTANTS
  s1 = s1
  s2 = s2
  s3 = s3
  j1 = j1
  k1 = k1
  v1 = v1
  JobIds = {j1}
  Keys = {k1}
  VideoIds = {v1}
  NoKey = NoKey
  MaxAttempts = 3
  Job = j1
  Streams = {s1, s2, s3}
  MaxFaults = 2
SYMMETRY Interchangeable
INVARIANTS
  TypeOK
  SentInOrder
  EndIsSent
  EndIsReal
  LiveIsConnected
PROPERTIES
  PageNeverGoesBack
CHECK_DEADLOCK FALSE
