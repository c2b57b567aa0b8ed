\* Two requests at a time, no failure: ClosedChatIsEmpty does not hold.
CONSTANTS
  Conv = {c1}
  User = {u1}
  Token = {t1}
  Job = {j1, j2}
  MaxFaults = 0
  c1 = c1
  u1 = u1
  t1 = t1
  j1 = j1
  j2 = j2
SPECIFICATION Spec
INVARIANTS
  ClosedChatIsEmpty
CHECK_DEADLOCK FALSE
