SPECIFICATION LiveSpec
CONSTANTS
  v1 = v1
  v2 = v2
  t1 = t1
  t2 = t2
  a = a
  b = b
  Upper = Upper
  Bad = Bad
  Visitors = {v1, v2}
  Ids = {a, b}
  Others = {Upper, Bad}
  Cased = {Upper}
  BaseLabel = b
  Requests <- Asked
  ACME = TRUE
  QueueCap = 1
  Tunnels = {t1, t2}
  NoTunnel = NoTunnel
  NoId = NoId
INVARIANTS TypeOK SplicedToWhatIsNamed SteadyTunnelIsReached PathArrives
PROPERTY EveryRequestEnds
CHECK_DEADLOCK FALSE
