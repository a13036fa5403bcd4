\* One run of any of the page's shapes; anything may drop at any moment.
SPECIFICATION RunSpec
CONSTANTS
  manualDown = manualDown
  manualUp = manualUp
  autoBoth = autoBoth
  s1 = s1
  s2 = s2
  i1 = i1
  i2 = i2
  Control = {manualDown, manualUp, autoBoth}
  Stream = {s1, s2}
  Index = {i1, i2}
  Manual = {manualDown, manualUp}
  Downloads = {manualDown, autoBoth}
  Uploads = {manualUp, autoBoth}
  NoControl = NoControl
  NoStream = NoStream
  NoFigures = NoFigures
  Lossy = {"opening", "latency", "download", "upload", "final"}
  Cut = {"opening", "latency", "download", "upload", "final"}
SYMMETRY Symmetry
INVARIANTS
  TestRunTypeOK
  PageKeepsRules
  HeaderListsEveryStream
  ReportIsMeasured
CHECK_DEADLOCK FALSE
