CONSTANTS
  Gateway = {"g"}
  Agent = {"a"}
  Flow = "f"
  Ext = {x}
  Awaits = TRUE
  Job = {j1, j2}
  MaxMsg = 3
  MaxAsked = 2
  MaxFaults = 1
  MaxClock = 3
  MaxSent = 2
  x = x
  j1 = j1
  j2 = j2
SYMMETRY Symmetry
SPECIFICATION MCSpec
INVARIANTS
  TypesOK
  EventsInOrder
  
  HandedToAll
PROPERTIES
  ReadNeverBack
CHECK_DEADLOCK FALSE
