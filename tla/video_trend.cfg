SPECIFICATION Spec
CONSTANTS
  Undefined = Undefined
  NoData = NoData
  VideoId = "v1"
  Limit = 1
  MaxRecent = 3
  Snapshots <- SavedRows
INVARIANTS
  CardFitsChart
