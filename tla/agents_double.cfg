SPECIFICATION Spec
CONSTANTS
  a = a
  b = b
  A = A
  s = s
  t = t
  Words = {a, b, s, t}
  Default = "8080"
  Clients = {c1, c2}
  Ups = {u1}
  Names = {a, A}
  Norm <- Lowered
  Random = {}
  Services = {s, t}
  Wants <- Capital
  Saved <- One
  NoName = NoName
  NoOne = NoOne
  MaxKills = 0
PROPERTY NoLocalTakeOver
