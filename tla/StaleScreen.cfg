\* A page that opens its observer while a test ends.
SPECIFICATION SafetySpec
CONSTANTS
  t1 = t1
  p1 = p1
  c1 = c1
  Test = {t1}
  Page = {p1}
  Conn = {c1}
  Window = 2
  NoTest = NoTest
  NoConn = NoConn
INVARIANT MirrorsTestsOnly
