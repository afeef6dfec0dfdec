CONSTANTS
  a = a
  b = b
  p1 = p1
  p2 = p2
  p3 = p3
  t1 = t1
  t2 = t2
  t3 = t3
  c1 = c1
  c2 = c2
  server = server
  Users = {a, b}
  NoUser = NoUser
  Payloads = {p1}
  NoPayload = NoPayload
  Tokens = {t1, t2}
  NoToken = NoToken
  FailCap = 2
  Callers = {c1, c2}
  Procs = {server}
  ProcOf <- OneProcess
  CrashProcs = {}
  Nobody = Nobody
  Orphan = Orphan
  Opaque = {t2}
  InitRows <- BoundRow
  FlowsOf <- JobAndSweeps
  UserActs = {}
  NamesUser = TRUE
SPECIFICATION FlowSpec
INVARIANTS NoForeignJob
 
SYMMETRY Interchangeable
CHECK_DEADLOCK FALSE
