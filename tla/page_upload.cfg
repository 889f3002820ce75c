SPECIFICATION Spec
CONSTANTS
  first = first  other = other  n1 = n1  n2 = n2  api = api
  NoNode = NoNode  NoLayout = NoLayout  NoApi = NoApi
  Cases = {first, other}
  FirstCase = first
  CaseNodes <- OneNodeEach
  Turns = 1
  LayoutLimit = 1
  Apis = {api}
INVARIANTS
  VisualsBelongToCase
