SPECIFICATION Spec
CONSTANTS
  a = a
  b = b
  Clients = {a, b}
  Ops <- RunnerAndHelper
  Timeouts = {}
  MaxCommands = 4
  MaxStops = 3
INVARIANTS
  TypeOK
  FreshStop
  NoLostStop
  StateIsGdbs
  BreakpointsMatch
  HitsMatch
CHECK_DEADLOCK FALSE
