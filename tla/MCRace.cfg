\* Three requests at a time about one invitation, one failure or restart.
CONSTANTS
  Conv = {c1}
  User = {u1}
  Token = {t1}
  Job = {j1, j2, j3}
  MaxFaults = 1
  c1 = c1
  u1 = u1
  t1 = t1
  j1 = j1
  j2 = j2
  j3 = j3
SPECIFICATION Spec
INVARIANTS
  TypeOK
  InviteSettledOnce
  
  SessionMembersDistinct
PROPERTIES
  FirstCloseIsFinal
  ImplementsSeat
\* A server with no request to serve rests.
CHECK_DEADLOCK FALSE
