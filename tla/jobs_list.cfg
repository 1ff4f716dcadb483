SPECIFICATION FairSpec
CONSTANTS
  j1 = j1
  j2 = j2
  gone = gone
  JobIds = {j1, j2, gone}
  Gone = {gone}
  MaxStored = 2
  MaxChanges = 1
  MaxPolls = 2
  MaxFaults = 1
PROPERTIES
  SinglePollsAdvance
  CatchesUp
