SPECIFICATION Spec
CONSTANTS
  home = home branch = branch w1 = w1 w2 = w2 c1 = c1
  Writer = {w1, w2}
  Walker = {c1}
  Entities = {home, branch}
  DefaultEntity = home
  Scopes = {{home}, {home, branch}}
  Limits = {2}
  Days = 0
  Windows <- SomeWindows
  MaxClock = 1
  MaxId = 3
CONSTRAINT Paging
SYMMETRY SymmetricWriters
CHECK_DEADLOCK FALSE
INVARIANTS PagesDescend WalkIsComplete PagesAreFull
