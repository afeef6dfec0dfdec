CONSTANTS
  Procs = {desktop, server}
  Nobody = Nobody
  Orphan = Orphan
  LeaseTTL = 3
  HttpTimeout = 2
  DbWait = 1
  MaxNow = 10
SPECIFICATION Spec
INVARIANTS TypeOK GetSessionExclusive
PROPERTIES ReleasesOwnLease 
SYMMETRY Interchangeable
