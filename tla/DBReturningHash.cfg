SPECIFICATION Spec
CONSTANTS
  u1 = u1
  u2 = u2
  f = f
  g = g
  Users = {u1, u2}
  Folders = {f}
  FolderOf <- OneProject
  Keys = {k}
  Originals = {k}
  MaxEdits = 2
  MaxPurges = 0
  MaxRequests = 3
  NoItem = NoItem
  NoRow = NoRow
  NoHash = NoHash
SYMMETRY Symmetry
INVARIANT EditsGivenUpByChoice
