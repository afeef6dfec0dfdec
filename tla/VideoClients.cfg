CONSTANTS
  Handlers = {h1, h2}
  Requests = {r1, r2}
  NoRequest = NoRequest
  Jobs = {j1, j2, j3, j4}
  NoJob = NoJob
  Capacity = 2
  Endpoints = {"task", "image", "sync"}
  Patient = {r1}
  Restarts = TRUE
SPECIFICATION Spec
INVARIANTS TypeOK IndexFaithful RunningKept FailureRepeatable
 
SYMMETRY Interchangeable
