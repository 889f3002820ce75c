SPECIFICATION Spec
CONSTANTS
  Nodes <- Four
  Rels <- Pairs
  Ends <- PairEnds
  Views <- Lists
  Shown <- ListsShown
  Anchors <- SomeAnchors
  MaxIterations = 2
  Timelines <- GapTimelines
  Splits <- SomeSplits
  Manifests <- SomeManifests
  FoldOptions <- SomeFolds
  Invalid <- Unreadable
  NoNumber = NoNumber
  Fields <- GateFields
  Scenarios = {"smurfing"}
  MaxRank <- SmurfingRank
  MaxCalibration = 12
INVARIANTS
  FindsShortestPath LabelsFollowComponents SplitsFollowTheRows
  FoldsNeverLookAhead BiasIsHeldBack
PROPERTIES
  SearchEnds
CHECK_DEADLOCK FALSE
