\* An automatic run that loses a stream while the idle latency is measured.
SPECIFICATION FairRunSpec
CONSTANTS
  c1 = c1
  s1 = s1
  s2 = s2
  i1 = i1
  i2 = i2
  Control = {c1}
  Stream = {s1, s2}
  Index = {i1, i2}
  Manual = {}
  Downloads = {c1}
  Uploads = {c1}
  NoControl = NoControl
  NoStream = NoStream
  NoFigures = NoFigures
  Lossy = {"latency"}
  Cut = {}
PROPERTIES
  DownloadPhaseEnds
CHECK_DEADLOCK FALSE
