CONSTANTS
  s1 = s1
  s2 = s2
  Sessions = {s1, s2}
  Runtime = "simulator"
  Failures = {"command"}
  MaxCrashes = 2
  NoSession = NoSession
SPECIFICATION Spec
SYMMETRY Symmetry
INVARIANTS
  LockedWhileTargetRuns
  EndedIsUnlocked
  ReportCoversTargets
