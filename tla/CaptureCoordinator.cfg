SPECIFICATION Spec
CONSTANTS
  c1 = c1
  c2 = c2
  Clients = {c1, c2}
  Kinds <- Both
  Analyzers <- OneDecodes
  MaxCaptures = 2
  MaxConnects = 2
INVARIANTS TypeOK StopIsCovered NoCaptureLeft ExtractionComplete
PROPERTY CaptureEnds
CHECK_DEADLOCK FALSE
