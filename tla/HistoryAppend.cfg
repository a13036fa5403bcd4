\* A full history, a clock that is set back, failing writes, crashes and damage.
SPECIFICATION Spec
CONSTANTS
  r1 = r1
  r2 = r2
  r3 = r3
  r4 = r4
  old = old
  home = home
  office = office
  Run = {r1, r2, r3, r4, old}
  Foreign = {old}
  Time = {1, 2}
  Shape = {home, office}
  MaxRuns = 3
  NoRun = NoRun
SYMMETRY Symmetry
INVARIANTS
  HistoryTypeOK
  WithinBound
  HistoryStrengthening
  StoredIsOnDisk
  ComparedWithLatest
PROPERTIES
  OldestStoredDroppedFirst
  ListSpec
