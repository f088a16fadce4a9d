SPECIFICATION Spec
CONSTANTS
  w1 = w1
  w2 = w2
  bare = bare
  t1 = t1
  t2 = t2
  t3 = t3
  Workers = {w1, w2, bare}
  Tasks = {t1, t2, t3}
  Handlers = {h1, h2}
  None = None
  Outer = Outer
  Lent = Lent
  MaxStarts = 2
  Settings <- MCSettings
INVARIANTS
  TypeOK
  OwnClient
  NoClosedClient
  PluggedNeverRefuses
  Restored
PROPERTY
  StopsClean
