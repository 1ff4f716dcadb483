SPECIFICATION FairSpec
CONSTANTS
  s1 = s1
  s2 = s2
  s3 = s3
  j1 = j1
  k1 = k1
  v1 = v1
  JobIds = {j1}
  Keys = {k1}
  VideoIds = {v1}
  NoKey = NoKey
  MaxAttempts = 2
  Job = j1
  Streams = {s1, s2}
  MaxFaults = 1
PROPERTIES
  PageLearnsTheEnd
  HandlersReturn
  EndBringsDetails
CHECK_DEADLOCK FALSE
