CONSTANTS
  f1 = f1
  Contexts = {map}
  Focus = {f1, f2}
  Zooms = {1}
  Sizes = {s1}
  PrintSizes = {}
  Ratios = {1}
  MaxRequests = 2
  NoView = NoView
  NoContext = NoContext
SPECIFICATION Spec
INVARIANT CompleteIsCurrent
CHECK_DEADLOCK FALSE
