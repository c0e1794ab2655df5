CONSTANTS
  Sources = {1}
  AgentOf <- MCAgentOf
  KindOf <- MCKindOf
  NameOf <- MCNameOf
  PartnerOf <- MCPartnerOf
  EntrypointOf <- MCEntrypointOf
  InNeutral <- MCInNeutral
  Hosts <- MCHost
  Variants <- MCVariants
  Options <- MCOverlayOption
  Targets <- MCClaude
  Times <- MCOnce
  Caches <- MCNoCache
  OwnPaths <- MCNoPaths
  Own <- MCOwn
  OwnMarks <- MCOwnMarks
  Strays = {}
  Absent = Absent
  None = None
  MaxEdits = 0
SPECIFICATION Spec
PROPERTIES
  OverlayLoaded
