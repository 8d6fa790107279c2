SPECIFICATION LiveSpec
CONSTANTS
  d1 = d1
  d2 = d2
  d3 = d3
  ip = ip
  domain = domain
  flagtok = flagtok
  x = x
  y = y
  X = X
  Small = {x, y}
  Capitals = {X}
  LowerCase <- Lowered
  Dash = Dash
  Dot = Dot
  Space = Space
  MaxLen = 4
  Reserved <- Taken
  NoToken = NoToken
  Absent = Absent
  Blank = Blank
  Flags <- BothFlags
  MaxStops = 2
  MaxRenewals = 1
  Dialers = {d1, d2, d3}
  Hosts = {ip, domain}
  Own = {ip}
  HostOf <- Resolved
  Ports = {":80", ":443", ":8443"}
  HTTPPort = ":80"
  HTTPSPort = ":443"
  MaxLosses = 1
INVARIANTS TypeOK PinnedRelayIsKnown ServedPairLoads TokenStaysValid ServerUnderstood IdsServed
PROPERTIES ClientsComeBack
CHECK_DEADLOCK FALSE
