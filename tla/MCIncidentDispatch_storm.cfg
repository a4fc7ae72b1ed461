SPECIFICATION Spec
CONSTANTS
  d1 = d1
  d2 = d2
  snow = snow
  hook = hook
  f1 = f1
  Dispatchers = {d1, d2}
  Connectors = {snow, hook}
  Fingerprints = {f1}
  OnDuplicate <- MCBoth
  Window = 1
  MaxTime = 2
  MaxTickets = 4
  MaxNotes = 1
  MaxFaults = 1
SYMMETRY Handlers
INVARIANTS IncidentInv StormBounded
CHECK_DEADLOCK FALSE
