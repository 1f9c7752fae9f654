SPECIFICATION Spec
CONSTANTS
  c1 = c1
  c2 = c2
  s1 = s1
  Callers = {c1, c2}
  Stoppers = {s1}
  Classes = {}
  Sizes = {TRUE, FALSE}
  QueueSize = 1
  MaxToken = 2
  MaxPipe = 0
SYMMETRY CallerSymmetry
INVARIANTS
  OwnAnswer
CHECK_DEADLOCK FALSE
