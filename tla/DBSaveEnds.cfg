SPECIFICATION FairSpec
CONSTANTS
  u1 = u1
  u2 = u2
  f = f
  g = g
  Users = {u1, u2}
  Folders = {f}
  FolderOf <- OneProject
  Keys = {k}
  Originals = {k}
  MaxEdits = 1
  MaxPurges = 1
  MaxRequests = 2
  NoItem = NoItem
  NoRow = NoRow
  NoHash = NoHash
INVARIANTS TypeOK UnmarkedWasStored
PROPERTIES NoBlindOverwrite SaveEnds
