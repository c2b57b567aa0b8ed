\* Two messages at a time: AwaitedTokenFound does not hold.
CONSTANTS
  Node = {n1}
  Obj = {o1, o2, o3, o4}
  Token = {t1, t2}
  Sender = {s1, s2}
  Caller = {c1}
  Waiter = {w1}
  Control = {}
  MaxFaults = 0
  NoObj = NoObj
  NoTok = NoTok
  n1 = n1
  o1 = o1
  o2 = o2
  o3 = o3
  o4 = o4
  t1 = t1
  t2 = t2
  s1 = s1
  s2 = s2
  c1 = c1
  w1 = w1
SPECIFICATION Spec
SYMMETRY Symmetry
INVARIANTS
  AwaitedTokenFound
\* A chat that is closed, or has no token left, rests.
CHECK_DEADLOCK FALSE
