SPECIFICATION LiveSpec
CONSTANTS
  Conns = {c1, c2}
  a = a
  Names = {a, long}
  Vanity = {a}
  Hellos <- AllHellos
  Unnamed = Unnamed
  Blank = Blank
  Invalid = Invalid
  NoConn = NoConn
  NoName = NoName
  Open = TRUE
  HasToken = TRUE
  MaxTunnels = 2
  TCPMin = 1
  TCPMax = 2
  ForeignPorts = {2}
PROPERTIES
  ImplementsNameService ImplementsTunnelTable PortsReachOwners SessionEndReleases RemovedSessionEnds DroppedPortReturns
CHECK_DEADLOCK FALSE
