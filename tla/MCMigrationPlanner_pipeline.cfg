CONSTANTS
  Sources = {1, 2, 3, 4, 5, 6, 7, 8, 9}
  AgentOf <- MCAgentOf
  KindOf <- MCKindOf
  NameOf <- MCNameOf
  PartnerOf <- MCPartnerOf
  EntrypointOf <- MCEntrypointOf
  InNeutral <- MCInNeutral
  Hosts <- MCHosts
  Variants <- MCVariants
  Options <- MCOptions
  Targets <- MCClaude
  Times <- MCOnce
  Caches = {TRUE}
  OwnPaths <- MCOwnPaths
  Own <- MCOwn
  OwnMarks <- MCOwnMarks
  Strays = {}
  Absent = Absent
  None = None
  MaxEdits = 1
SPECIFICATION Spec
INVARIANTS
  TypeOK
  OneWritePerPath
  SensitiveNotPlanned
  AskedIsDecided
  EntrypointsListed
PROPERTIES
  RepeatedIsQuiet
  ImportsCurrent
  NothingLost
  PreservedIsPreserved
