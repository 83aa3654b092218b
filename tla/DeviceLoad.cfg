\* A device plugged in twice, a file in its folders and one in its Archive.
CONSTANTS
  MaxPlugs = 2
  Files = 1
  MaxClicks = 3
SPECIFICATION Spec
INVARIANTS TypeOK GoneIsIdle RemovalsMatchItems PluggedIsShown CollapsedIsEmpty
PROPERTY Implements
CHECK_DEADLOCK FALSE
