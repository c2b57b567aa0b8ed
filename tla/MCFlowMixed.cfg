\* One server, every control request, one failure or restart.
CONSTANTS
  Node = {n1}
  Obj = {o1, o2, o3, o4}
  Token = {t1, t2}
  Sender = {s1}
  Caller = {c1}
  Waiter = {w1, w2}
  Control = {"close", "schema", "user", "bridge"}
  MaxFaults = 1
  NoObj = NoObj
  NoTok = NoTok
  n1 = n1
  o1 = o1
  o2 = o2
  o3 = o3
  o4 = o4
  t1 = t1
  t2 = t2
  s1 = s1
  c1 = c1
  w1 = w1
  w2 = w2
SPECIFICATION Spec
SYMMETRY Symmetry
INVARIANTS
  TypeOK
PROPERTIES
  AwaitedTokenKept
\* A chat that is closed, or has no token left, rests.
CHECK_DEADLOCK FALSE
