SPECIFICATION Spec
CONSTANTS
  Targets = {1, 2}
  a = a
  b = b
  c = c
  u = u
  Contents = {a, b, c, u}
  Absent = Absent
  Keep = Keep
  a1 = a1
  a2 = a2
  Appliers = {a1}
  Rollbackers = {r1}
  NoProc = NoProc
  Plans <- FreshPlans
  InitialData = {a}
  EditData = {u, Absent}
  EditsInWindow = TRUE
  MaxEdits = 0
  MaxFaults = 1
  MaxStops = 0
PROPERTY RolledBackIsFinal
CHECK_DEADLOCK FALSE
