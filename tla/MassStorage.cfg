CONSTANTS
  Files = 2
  MaxEdits = 1
SPECIFICATION Spec
INVARIANT DeletedWhenStopped
CHECK_DEADLOCK FALSE
