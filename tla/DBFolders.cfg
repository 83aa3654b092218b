SPECIFICATION Spec
CONSTANTS
  u1 = u1
  u2 = u2
  f = f
  g = g
  Users = {u1, u2}
  Folders = {f, g}
  FolderOf <- TwoProjects
  Keys = {k, c}
  Originals = {k}
  MaxEdits = 1
  MaxPurges = 0
  MaxRequests = 3
  NoItem = NoItem
  NoRow = NoRow
  NoHash = NoHash
INVARIANTS EditsAccountedFor UnmarkedIsInFolder
