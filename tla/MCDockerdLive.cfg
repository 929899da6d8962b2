CONSTANTS
  s1 = s1
  Sessions = {s1}
  Runtime = "docker"
  Failures = {"command", "files", "create", "start", "inspect", "stop", "remove"}
  MaxCrashes = 2
  NoSession = NoSession
SPECIFICATION FairSpec
PROPERTIES
  StopStops
  CleanupRemoves
  WantedIsStarted
  KeepsSyncing
