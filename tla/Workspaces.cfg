CONSTANTS
  a = a
  b = b
  p1 = p1
  ta = ta
  tb = tb
  c1 = c1
  c2 = c2
  w1 = w1
  w2 = w2
  Users = {a, b}
  NoUser = NoUser
  Payloads = {p1}
  NoPayload = NoPayload
  Tokens = {ta, tb}
  NoToken = NoToken
  FailCap = 2
  NoRow = NoRow
  MaxId = 3
  Old = {1, 2}
  InitRows <- Pools
  Calls = {c1, c2}
  Logins <- Switched
  UserOf <- Owner
  Pasted <- Curls
  Spaces = {w1, w2}
  Absent = Absent
SYMMETRY Alike
SPECIFICATION Spec
INVARIANTS OneSpacePerAccount 
PROPERTY BoundImportOwnRow
CHECK_DEADLOCK FALSE
