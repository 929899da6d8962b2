CONSTANTS
  MaxFaults = 1
SPECIFICATION Spec
INVARIANTS
  TypeOK
  DeletedIsStored
  HalfReadIsExposed
PROPERTIES
  OnlyLateFilesAreLost
  ReadyIsHandedOver
CHECK_DEADLOCK FALSE
