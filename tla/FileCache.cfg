CONSTANTS
  Data = {d1, d2}
  Screen = {s1}
  Feeling = {h1}
  Trash <- TrashDirs
  Content = {c1, c2}
  NoFile = NoFile
  Sysop = {p1}
  MaxCached = 2
  DiskFails = TRUE
SPECIFICATION Spec
INVARIANTS FifoIsCache Coherent
PROPERTY ImplementsStore
