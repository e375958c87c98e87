SPECIFICATION Spec
CONSTANTS
  Trees <- MCTrees
  Start <- MCStart
  Surfaces <- MCSurfaces
  Files <- MCFiles
  Models <- MCModels
  MaxDay = 2
  MaxRuns = 2
  MaxMoves = 2
  NoTag = NoTag
  NoWriter = NoWriter
INVARIANTS
  CompleteMeansWhole
  TestedIsTagged
PROPERTIES
  TagsFollowAllChecks
CHECK_DEADLOCK FALSE
