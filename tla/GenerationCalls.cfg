SPECIFICATION Spec
INVARIANT TypeOK
INVARIANT DeliveredInLibrary
INVARIANT OncePerAccount
PROPERTY NoResubmission
CONSTANTS
  Calls = {c1}
  Requests = {r1, r2}
  Videos = {r2}
  Accounts = {a, b}
  Generations = {g1, g2, g3}
  NoRequest = NoRequest
  NoAccount = NoAccount
  NoGen = NoGen
  Syncs = TRUE
SYMMETRY Interchangeable
CHECK_DEADLOCK FALSE
