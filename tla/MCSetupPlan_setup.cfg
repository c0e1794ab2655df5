SPECIFICATION Spec
CONSTANTS
  rules = rules
  memory = memory
  head = head
  aux = aux
  wrapper = wrapper
  ignore = ignore
  skill = skill
  claude = claude
  codex = codex
  v1 = v1
  v2 = v2
  w1 = w1
  w2 = w2
  n1 = n1
  n2 = n2
  u = u
  ub = ub
  first = first
  second = second
  Keep = Keep
  Absent = Absent
  Empty = Empty
  Always = Always
  NoSkill = NoSkill
  Paths = {rules, memory, head, wrapper}
  Kind <- Kinds
  Options = {skill}
  OptionOf <- InSkill
  SkillFile <- SkillFiles
  Core <- CoreFiles
  Releases = {1, 2}
  Layouts = {claude}
  Contents = {v1, v2, w1, w2, n1, n2, u, ub, Empty}
  UserContents = {}
  Shipped <- Changes
  Norm <- Normal
  Merge <- Block
  Slots = {first, second}
  RecoverFirst = TRUE
  MaxPreviews = 4
  MaxInits = 0
  MaxApplies = 4
  MaxEdits = 1
  MaxStops = 0
  MaxUpgrades = 1
INVARIANTS
  TypeOK
  ManifestTruthful
  NoOrphans
  BlockedByUserOnly
  DoctorBlamesUser
SYMMETRY Symmetry
CHECK_DEADLOCK FALSE
