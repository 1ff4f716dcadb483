SPECIFICATION FairSpecMain
CONSTANTS
  c1 = c1
  w1 = w1
  j1 = j1
  j2 = j2
  j3 = j3
  tab = tab
  Clients = {c1}
  Workers = {w1}
  Watchers = {tab}
  JobIds = {j1, j2, j3}
  Keys = {"k1", "k2", "k3"}
  VideoIds = {"v1"}
  NoKey = NoKey
  NoJob = NoJob
  QueueCap = 1
  MayFail = FALSE
  MayCrash = TRUE
  Requests <- Submissions
  Listings <- NoVideos
ACTION_CONSTRAINT DrawnInOrder
PROPERTIES
  JobsSettle
  CallsReturn
  StopEnds
  StopLosesTheAccepted
