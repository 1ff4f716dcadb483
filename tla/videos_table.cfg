SPECIFICATION Spec
CONSTANTS
  Undefined = Undefined
  AnyWord = AnyWord
  Regions = {"US", "GB"}
  Categories = {0, 24}
  Searches = {AnyWord, "a"}
  Contents <- LastHour
  PageSize = 2
  MaxInFlight = 3
INVARIANTS
  ShownIsSelected
  PagesShowMatches
