\* A device plugged in once, two files, four clicks: what ends in the end.
CONSTANTS
  MaxPlugs = 1
  Files = 2
  MaxClicks = 4
SPECIFICATION FairSpec
PROPERTIES StaleIsRemoved QuitEnds ArchiveSettles
CHECK_DEADLOCK FALSE
