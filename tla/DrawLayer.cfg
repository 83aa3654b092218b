CONSTANTS
  f1 = f1
  Contexts = {map}
  Focus = {f1, f2}
  Zooms = {1, 2}
  Sizes = {s1, s2}
  PrintSizes = {s1}
  Ratios = {1}
  MaxRequests = 3
  NoView = NoView
  NoContext = NoContext
SPECIFICATION FirstSpec
INVARIANTS TypeOK FrontIsWhole RequestHasOwner CompleteShowsLatest
PROPERTIES ImageInUseIsKept RequestServed ViewportRestored
CHECK_DEADLOCK FALSE
