SPECIFICATION Spec
CONSTANTS
  c1 = c1
  s1 = s1
  s2 = s2
  Callers = {c1}
  Stoppers = {s1, s2}
  Classes = {"stopped", "running", "notify"}
  Sizes = {TRUE, FALSE}
  QueueSize = 2
  MaxToken = 1
  MaxPipe = 1
INVARIANTS
  TypeOK
  ClosedMeansSettled
  QueueEndsInState
PROPERTIES
  ExitedIsFinal
CHECK_DEADLOCK FALSE
