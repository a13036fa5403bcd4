\* A manual download or an automatic run with both phases; streams may drop during
\* the download, the control connection during the upload or while STORED is
\* awaited.
SPECIFICATION LiveRunSpec
CONSTANTS
  manualDown = manualDown
  autoBoth = autoBoth
  s1 = s1
  s2 = s2
  Control = {manualDown, autoBoth}
  Stream = {s1, s2}
  Index = {s1, s2}
  Manual = {manualDown}
  Downloads = {manualDown, autoBoth}
  Uploads = {autoBoth}
  NoControl = NoControl
  NoStream = NoStream
  NoFigures = NoFigures
  Lossy = {"download"}
  Cut = {"upload", "final"}
PROPERTIES
  RunEnds
  RunLeavesNothing
CHECK_DEADLOCK FALSE
