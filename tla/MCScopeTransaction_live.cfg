SPECIFICATION FairSpec
CONSTANTS
  Targets = {1, 2}
  a = a
  b = b
  c = c
  u = u
  Contents = {a, b, c, u}
  Absent = Absent
  Keep = Keep
  a1 = a1
  a2 = a2
  Appliers = {a1}
  Rollbackers = {r1}
  NoProc = NoProc
  Plans <- FreshPlans
  InitialData = {a, Absent}
  EditData = {u, Absent}
  EditsInWindow = TRUE
  MaxEdits = 1
  MaxFaults = 2
  MaxStops = 1
INVARIANTS
  BackupPrecedesInstall
  NoPartialState
  CommittedIsComplete
  PartialIsFlagged
PROPERTY InvocationsEnd
CHECK_DEADLOCK FALSE
