\* A manual download and an automatic test with both phases compete for the lock
\* and for two streams.
SPECIFICATION Spec
CONSTANTS
  c1 = c1
  c2 = c2
  s1 = s1
  s2 = s2
  i1 = i1
  i2 = i2
  Control = {c1, c2}
  Stream = {s1, s2}
  Index = {i1, i2}
  Manual = {c1}
  Downloads = {c1, c2}
  Uploads = {c2}
  NoControl = NoControl
  NoStream = NoStream
  NoFigures = NoFigures
SYMMETRY Symmetry
INVARIANTS
  TypeOK
  LockOwner
  Strengthening
PROPERTIES
  LockSpec
CHECK_DEADLOCK FALSE
