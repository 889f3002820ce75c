SPECIFICATION Spec
CONSTANTS
  None = None
  j1 = j1  j2 = j2  j3 = j3  j4 = j4  c1 = c1  c2 = c2
  analysis = analysis  report = report
  Jobs = {j1}
  Cases = {c1}
  CaseOf <- OneCase
  KindOf <- OneKind
  MaxAttempts <- TwoAttempts
  Deadlines = {1}
  LeaseTimes = {2}
  RetryDelays = {0}
  Lag = 0
  Names = {n1}
  Contents = {x}
  ResultKeys = {r}
  CompletionKeys = {k}
  Sources = {}
  Corrections = {}
  MaxDependencies = 0
PROPERTIES
  RetryWithinDeadline
