SPECIFICATION Spec
CONSTANTS
  Sources = {"command", "rules"}
  Migratable = {"command", "rules"}
  Entrypoints = {"rules"}
  Contents = {c1, c2}
  Rendered = Rendered
  Own = Own
  Absent = Absent
  Keep = Keep
  MaxRuns = 4
  MaxEdits = 1
  MaxStops = 1
INVARIANTS
  TypeOK
  RemovedIsRestorable
PROPERTIES
  OwnImportPrecedesRemoval
  UserWorkKept
  AppliedIsClean
  BlockedIsUndone
CHECK_DEADLOCK FALSE
