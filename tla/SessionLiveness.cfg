CONSTANTS
  a = a
  b = b
  p1 = p1
  p2 = p2
  p3 = p3
  t1 = t1
  t2 = t2
  t3 = t3
  c1 = c1
  c2 = c2
  desktop = desktop
  server = server
  Users = {a}
  NoUser = NoUser
  Payloads = {p1}
  NoPayload = NoPayload
  Tokens = {t1, t2}
  NoToken = NoToken
  FailCap = 2
  Callers = {c1, c2}
  Procs = {server, desktop}
  ProcOf <- TwoProcesses
  CrashProcs = {desktop}
  Nobody = Nobody
  Orphan = Orphan
  Opaque = {}
  InitRows <- BoundRow
SPECIFICATION FairSpec
PROPERTIES CallReturns
