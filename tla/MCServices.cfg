CONSTANTS
  Task = {t1, t2}
  Party = {p1, p2}
  CastRequest <- Requests
  Node = {"n1", "n2"}
  Key = {"k1", "k2"}
  MaxFails = 1
  Licence = 1
  MaxObj = 2
  MaxReq = 4
SPECIFICATION MCSpec
SYMMETRY Symmetry
INVARIANTS
  TypeOK
  GatewaysAsStored
  CustomersKnown
  
  
  ListsComplete
\* Bounded requests: a component with nothing left to do rests.
CHECK_DEADLOCK FALSE
