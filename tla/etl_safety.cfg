SPECIFICATION Spec
CONSTANTS
  c1 = c1
  c2 = c2
  w1 = w1
  w2 = w2
  j1 = j1
  j2 = j2
  k1 = k1
  k2 = k2
  v1 = v1
  v2 = v2
  Clients = {c1, c2}
  Workers = {w1, w2}
  JobIds = {j1, j2}
  Keys = {k1, k2}
  VideoIds = {v1}
  NoKey = NoKey
  NoJob = NoJob
  QueueCap = 1
  MayFail = TRUE
  MayCrash = TRUE
  Requests <- Submissions
  Listings <- OneVideo
SYMMETRY Interchangeable
INVARIANTS
  TypeOK
  Inv
  OneJobPerKey
  HeldOnce
  HeldIsLive
  NothingElseLost
  RetrySchedule
  DoneIsComplete
PROPERTIES
  TerminalIsFinal
  AbandonedIsFinal
  ImplementsLifecycle
