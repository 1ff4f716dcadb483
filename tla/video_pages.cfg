SPECIFICATION Spec
CONSTANTS
  Snapshots <- SavedRows
  Limit = 2
  MaxRecent = 3
INVARIANTS
  PagesCover
