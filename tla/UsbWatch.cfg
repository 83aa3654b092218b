\* Two addresses, two devices plugged in (also both at one address), one call into them.
CONSTANTS
  Keys = {k1, k2}
  MaxFailures = 2
  MaxPlugs = 2
  MaxCalls = 1
SPECIFICATION FairSpec
INVARIANTS NothingForgotten OpenedIsShown RetriesMatchItems
PROPERTIES WatchImplements DevicesServed GoneIsRemoved
CHECK_DEADLOCK FALSE
