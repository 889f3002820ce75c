SPECIFICATION Spec
CONSTANTS
  None = None
  j1 = j1  j2 = j2  j3 = j3  j4 = j4  c1 = c1  c2 = c2
  analysis = analysis  report = report
  Jobs = {j1, j2, j3}
  Cases = {c1, c2}
  CaseOf <- OneCase
  KindOf <- OneKind
  MaxAttempts <- OneAttempt
  Deadlines = {None}
  LeaseTimes = {1}
  RetryDelays = {0}
  Lag = 0
  Names = {n1}
  Contents = {x}
  ResultKeys = {r}
  CompletionKeys = {k}
  Sources = {s1}
  Corrections = {d1, d2}
  MaxDependencies = 2
INVARIANTS
  HeadChain ImpactEvidence
PROPERTIES
  StalenessIsPermanent CorrectionReachesAll
SYMMETRY Alike
