SPECIFICATION Spec
CONSTANTS
  c1 = c1
  c2 = c2
  i1 = i1
  i2 = i2
  Clients = {c1, c2}
  Ids = {i1, i2}
  Uses <- SharedId
  MaxObjects = 4
INVARIANTS TypeOK NoOrphan SavedIsRegistered LeavesNoTrace
CHECK_DEADLOCK FALSE
