SPECIFICATION Spec
CONSTANTS
  Targets = {1, 2}
  a = a
  b = b
  c = c
  u = u
  Contents = {a, b, c, u}
  Absent = Absent
  Keep = Keep
  a1 = a1
  a2 = a2
  Appliers = {a1, a2}
  Rollbackers = {r1}
  NoProc = NoProc
  Plans <- FreshPlans
  InitialData = {a}
  EditData = {u}
  EditsInWindow = FALSE
  MaxEdits = 1
  MaxFaults = 0
  MaxStops = 1
INVARIANTS
  TypeOK
  LockHeld
  NoOrphanLock
  InstalledIsJournaled
PROPERTIES
  OverwritesOnlyApproved
  LaterWorkSurvives
  ImplementsContract
CHECK_DEADLOCK FALSE
