SPECIFICATION Spec
CONSTANTS
  a = a
  b = b
  A = A
  s = s
  t = t
  Words = {a, b, s, t}
  Default = "8080"
  Clients = {c1, c2}
  Ups = {u1}
  Names = {a, b}
  Norm <- Canonical
  Random = {b}
  Services = {s, t}
  Wants <- Moved
  Saved <- One
  NoName = NoName
  NoOne = NoOne
  MaxKills = 0
PROPERTY AlreadyRunningIsTrue
