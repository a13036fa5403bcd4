\* A cable and two radios, one of which is never probed, between two networks.
SPECIFICATION Spec
CONSTANTS
  eth = eth
  wlan = wlan
  dongle = dongle
  home = home
  v6only = v6only
  Wired = {eth}
  Radio = {wlan, dongle}
  Unsafe = {dongle}
  Network = {home, v6only}
  Ipv4 = {home}
  MaxMoves = 2
  NoNetwork = NoNetwork
  Gone = Gone
INVARIANTS
  OneNetworkPerReport
  RunNamesWhereItWas
CHECK_DEADLOCK FALSE
