CONSTANTS
  s1 = s1
  Sessions = {s1}
  Runtime = "docker"
  Failures = {}
  MaxCrashes = 0
  NoSession = NoSession
SPECIFICATION Spec
INVARIANTS
  ReportCoversTargets
