CONSTANTS
  Contexts = {map, gis}
  Focus = {f1}
  Zooms = {1}
  Sizes = {s1, s2}
  PrintSizes = {s1}
  Ratios = {1, 2}
  MaxRequests = 2
  NoView = NoView
  NoContext = NoContext
SPECIFICATION Spec
INVARIANTS LayersAgree RetryIsArmed PrintShowsArea
SYMMETRY Symmetry
CHECK_DEADLOCK FALSE
