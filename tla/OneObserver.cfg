\* Two tests one after the other, and a page with one connection at a time.
SPECIFICATION Spec
CONSTANTS
  t1 = t1
  t2 = t2
  p1 = p1
  c1 = c1
  Test = {t1, t2}
  Page = {p1}
  Conn = {c1}
  Window = 1
  NoTest = NoTest
  NoConn = NoConn
INVARIANTS
  ObserversTypeOK
  NoStaleScreen
PROPERTIES
  BroadcastEnds
  TestIsShown
  GoneIsForgotten
