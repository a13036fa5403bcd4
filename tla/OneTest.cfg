\* One test on two streams, of any of the page's shapes.
SPECIFICATION LiveTestSpec
CONSTANTS
  manualDown = manualDown
  manualUp = manualUp
  autoBoth = autoBoth
  s1 = s1
  s2 = s2
  Control = {manualDown, manualUp, autoBoth}
  Stream = {s1, s2}
  Index = {s1, s2}
  Manual = {manualDown, manualUp}
  Downloads = {manualDown, autoBoth}
  Uploads = {manualUp, autoBoth}
  NoControl = NoControl
  NoStream = NoStream
  NoFigures = NoFigures
INVARIANTS
  CountersCount
  OneReporter
  StoredRunMatchesResult
PROPERTIES
  DecidedOnce
  VanishedClientFreesLock
  VanishedStreamsEnd
  ReleaseEndsStreams
  StopEndsDownload
  UploadIsReported
CHECK_DEADLOCK FALSE
