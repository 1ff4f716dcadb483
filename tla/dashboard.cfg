SPECIFICATION Spec
CONSTANTS
  Undefined = Undefined
  NoData = NoData
  Regions <- InAlphabeticalOrder
  Tables <- FillsUp
  MaxInFlight = 2
INVARIANTS
  ChartsAgree
  SettledIsSelected
  RegionIsOffered
PROPERTIES
  ChoiceIsKept
CHECK_DEADLOCK FALSE
