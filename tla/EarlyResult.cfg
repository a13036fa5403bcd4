\* A manual upload that is stopped before its upload phase; nothing drops.
SPECIFICATION RunSpec
CONSTANTS
  c1 = c1
  s1 = s1
  s2 = s2
  i1 = i1
  i2 = i2
  Control = {c1}
  Stream = {s1, s2}
  Index = {i1, i2}
  Manual = {c1}
  Downloads = {}
  Uploads = {c1}
  NoControl = NoControl
  NoStream = NoStream
  NoFigures = NoFigures
  Lossy = {}
  Cut = {}
INVARIANTS
  ResultCoversEveryUpload
CHECK_DEADLOCK FALSE
