SPECIFICATION Spec
CONSTANTS
  n1 = n1  n2 = n2  r = r  wide = wide  narrow = narrow
  NoSnapshot = NoSnapshot
  Nodes = {n1, n2}
  Rels = {r}
  Views = {wide, narrow}
  Ends <- OneEnds
  Shown <- OneShown
  Queries <- OneQuery
  Matches <- OneMatches
  NodeTypes = {{n1, n2}}
  Communities = {{r}}
  Labels <- OneLabel
  StatusChoices = {"done", ""}
  ReviewChoices = {"in-review", ""}
  Snapshots <- EarlierSession
  HistoryLimit = 1
  MaxCommits = 3
INVARIANTS
  EdgesAnchored RedactedEntitiesAreThere PathsStayConnected ItemsAreAudited
PROPERTIES
  KeepsTheTimeline
