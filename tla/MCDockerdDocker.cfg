CONSTANTS
  s1 = s1
  s2 = s2
  Sessions = {s1, s2}
  Runtime = "docker"
  Failures = {"command", "files", "list", "inspect", "create", "start", "stop", "remove"}
  MaxCrashes = 2
  NoSession = NoSession
SPECIFICATION Spec
SYMMETRY Symmetry
INVARIANTS
  TypeOK
  RunsAtMostOnce
  CleanedStaysClean
