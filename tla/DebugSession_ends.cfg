SPECIFICATION FairSpec
CONSTANTS
  a = a
  b = b
  Clients = {a, b}
  Ops <- Waiters
  Timeouts = {"send", "stop"}
  MaxCommands = 2
  MaxStops = 2
PROPERTY EveryToolEnds
CHECK_DEADLOCK FALSE
