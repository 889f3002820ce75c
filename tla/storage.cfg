SPECIFICATION Spec
CONSTANTS
  None = None
  x = x  y = y  text = text  pdf = pdf  plain = plain  tagged = tagged
  Callers = {c1, c2}
  Contents = {x, y}
  Media = {text, pdf}
  Metadata = {plain}
  Plain = plain
  Reports <- OneReport
  Markers <- TwoMarkers
INVARIANTS
  ReturnedStands ReportsReconstruct OneMarkerPerId
PROPERTIES
  NothingIsReplaced
SYMMETRY Alike
