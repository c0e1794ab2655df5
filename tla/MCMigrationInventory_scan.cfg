CONSTANTS
  Names <- MCNames
  Rank <- MCRank
  Roots <- MCRoots
  NeutralRoots <- MCNeutralRoots
  Generated <- MCGenerated
  Trees <- MCTrees
  Variants <- MCVariants
  MaxDepth = 3
  MaxEdits = 1
SPECIFICATION Spec
INVARIANTS
  TypeOK
  ScanIsComplete
  OneRecordPerFile
PROPERTIES
  ManagedLeftOut
  ScanEnds
CHECK_DEADLOCK FALSE
