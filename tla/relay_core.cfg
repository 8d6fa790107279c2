SPECIFICATION Spec
CONSTANTS
  Conns = {c1, c2, c3}
  a = a
  Names = {a, long1, long2}
  Vanity = {a}
  Hellos <- AllHellos
  Unnamed = Unnamed
  Blank = Blank
  Invalid = Invalid
  NoConn = NoConn
  NoName = NoName
  Open = TRUE
  HasToken = TRUE
  MaxTunnels = 2
  TCPMin = 1
  TCPMax = 1
  ForeignPorts = {}
SYMMETRY RelaySymmetry
INVARIANTS
  TypeOK NameIsolation NoGhostEntry PortExclusive Capacity OneUndertaker NoOrphanSocket
PROPERTY PortsAccountedFor
CHECK_DEADLOCK FALSE
