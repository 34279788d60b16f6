SPECIFICATION FiltersSpec
CONSTANTS
  Contents = {x, y}
  MaxStored = 3
  MaxPolls = 3
  Filters = {f}
INVARIANTS
  TrackerFollows
  EachBlockOnce
  DelayedByOne
CHECK_DEADLOCK FALSE
