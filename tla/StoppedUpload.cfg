\* A manual upload whose streams drop.
SPECIFICATION FairRunSpec
CONSTANTS
  c1 = c1
  s1 = s1
  s2 = s2
  i1 = i1
  i2 = i2
  Control = {c1}
  Stream = {s1, s2}
  Index = {i1, i2}
  Manual = {c1}
  Downloads = {}
  Uploads = {c1}
  NoControl = NoControl
  NoStream = NoStream
  NoFigures = NoFigures
  Lossy = {"upload"}
  Cut = {}
PROPERTIES
  StoppedUploadEnds
CHECK_DEADLOCK FALSE
