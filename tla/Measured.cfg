\* One run of each direction: uploads and downloads on two streams, both on one.
SPECIFICATION SmallSpec
CONSTANTS
  s1 = s1
  s2 = s2
  Stream = {s1, s2}
  MaxWindow = 5
  MaxFrames = 1
  MaxPings = 2
  WarmupMs = 500
  FrameMbps = 4000
  RttMs = {20, 80, 620}
  LagMs = {0, 200}
SYMMETRY Symmetry
VIEW Read
INVARIANTS
  EveryFrameInItsWindow
  ResultIsExact
  RepliesCountedWhereSent
  DownloadIsComplete
  DropsExplainDifference
  FiguresAreMeasured
  BlameIsBacked
CHECK_DEADLOCK FALSE
