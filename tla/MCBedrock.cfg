CONSTANTS
  s1 = s1
  h1 = h1
  h2 = h2
  c1 = c1
  d1 = d1
  Sessions = {s1}
  Handlers = {h1, h2}
  Clients = {c1}
  Dockerds = {d1}
  NoSession = NoSession
  NoDockerd = NoDockerd
  MaxEvents = 1
  Runtime = "simulator"
  Failures = {"command"}
  MaxCrashes = 1
  MaxRestarts = 1
  Requests = {"stopped"}
SPECIFICATION SystemSpec
SYMMETRY HandlerSymmetry
INVARIANTS
  SystemTypeOK
  FinishedIsSilent
