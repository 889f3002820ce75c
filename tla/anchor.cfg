SPECIFICATION Spec
CONSTANTS
  None = None
  a = a  b = b  d = d  x = x  y = y
  Callers = {c1, c2}
  Checkpoints <- Stream
INVARIANTS
  AnswersVerify AnswersStand CallersConverge PredecessorsAreOlder
PROPERTIES
  KeepsTheLog
SYMMETRY Alike
