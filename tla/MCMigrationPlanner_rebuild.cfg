CONSTANTS
  Sources = {3}
  AgentOf <- MCAgentOf
  KindOf <- MCKindOf
  NameOf <- MCNameOf
  PartnerOf <- MCPartnerOf
  EntrypointOf <- MCEntrypointOf
  InNeutral <- MCInNeutral
  Hosts <- MCHost
  Variants <- MCVariants
  Options <- MCOverlayOption
  Targets <- MCClaude
  Times <- MCTwice
  Caches <- MCNoCache
  OwnPaths <- MCNoPaths
  Own <- MCOwn
  OwnMarks <- MCOwnMarks
  Strays = {}
  Absent = Absent
  None = None
  MaxEdits = 0
SPECIFICATION Spec
PROPERTIES
  RebuildNotBlocked
