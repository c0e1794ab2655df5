SPECIFICATION Spec
CONSTANTS
  rules = rules
  memory = memory
  head = head
  aux = aux
  wrapper = wrapper
  ignore = ignore
  skill = skill
  claude = claude
  codex = codex
  v1 = v1
  v2 = v2
  w1 = w1
  w2 = w2
  n1 = n1
  n2 = n2
  u = u
  ub = ub
  first = first
  second = second
  Keep = Keep
  Absent = Absent
  Empty = Empty
  Always = Always
  NoSkill = NoSkill
  Paths = {rules, head, wrapper}
  Kind <- Kinds
  Options = {skill}
  OptionOf <- InSkill
  SkillFile <- SkillFiles
  Core <- CoreFiles
  Releases = {1}
  Layouts = {claude}
  Contents = {v1, v2, w1, w2, n1, n2, u, ub, Empty}
  UserContents = {u, n1}
  Shipped <- Changes
  Norm <- Normal
  Merge <- Block
  Slots = {1}
  RecoverFirst = TRUE
  MaxPreviews = 3
  MaxInits = 1
  MaxApplies = 3
  MaxEdits = 0
  MaxStops = 0
  MaxUpgrades = 0
INVARIANTS
  BlockedByUserOnly
CHECK_DEADLOCK FALSE
