SPECIFICATION MCSpec
CONSTANTS
  h1 = h1
  h2 = h2
  r1 = r1
  i1 = i1
  i2 = i2
  c1 = c1
  p1 = p1
  p2 = p2
  Handlers = {h1, h2}
  Requests = {r1}
  NoRequest = NoRequest
  Asks <- VideosAndImages
  Jobs = {i1, i2}
  NoJob = NoJob
  Capacity = 1
  Callers = {c1}
  Pids = {p1, p2}
  NoPid = NoPid
  Prompt = TRUE
  StatusInTime = TRUE
  Listings <- UpToThreeVariants
  Wishes <- SomeWishes
  Seconds = {0, 1, 5, 7, 8, 30}
  Aspects = {"16:9", "9:16", "9:21"}
SYMMETRY Symmetry
INVARIANTS
  ErrorRepeatable
  SidecarKillable
  SelectionFaithful
  AdvertisedIsSubmitted
PROPERTY
  RestartSpares
CHECK_DEADLOCK FALSE
