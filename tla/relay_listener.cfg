SPECIFICATION Spec
CONSTANTS
  Conns = {c1, c2}
  a = a
  Names = {a, long}
  Vanity = {a}
  Hellos <- AllHellos
  Unnamed = Unnamed
  Blank = Blank
  Invalid = Invalid
  NoConn = NoConn
  NoName = NoName
  Open = TRUE
  HasToken = TRUE
  MaxTunnels = 2
  TCPMin = 1
  TCPMax = 1
  ForeignPorts = {}
PROPERTY ListenerSurvivesVisitors
CHECK_DEADLOCK FALSE
