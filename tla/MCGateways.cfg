CONSTANTS
  Task = {t1, t2}
  Party = {p1, p2}
  Note = {"n1"}
  MaxRoom = 2
  MaxMsg = 2
  MaxClose = 1
  Limit = 2
  Buf = 2
  MaxPart = 2
  MaxSize = 4
  Page = {"p1"}
  Gram = {"g1"}
  MaxBegun = 3
  MaxMoves = 1
  Author = {"u1", "u2"}
  Home <- Platform
  MaxObj = 3
  MaxBoots = 1
  Account = {"a1", "a2"}
  Number = {"n1", "n2", "n3"}
  Customer = {"c1"}
  FirstOffer <- Offers
  MaxJobs = 2
  MaxOffers = 1
  MaxTalk = 3
  Happening <- Happenings
  MaxSettings = 1
  To <- Peers
  KindOf <- Kinds
  Speaker = {"s1", "s2"}
  MaxCasts = 2
  MaxChanges = 1
  MaxFails = 1
SPECIFICATION MCSpec
SYMMETRY Symmetry
INVARIANTS
  TypeOK
  
  
  
  
\* Bounded requests: a component with nothing left to do rests.
CHECK_DEADLOCK FALSE
