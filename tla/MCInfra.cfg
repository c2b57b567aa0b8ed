CONSTANTS
  Token = {"short", "long"}
  Owner <- OneOwner
  Ends <- ShortLong
  Size = 1
  Expiry = 1
  Call = {"c1", "c2"}
  MaxClock = 2
  MaxEpoch = 1
  Node = {"n1", "n2"}
  Version = {"v1", "v2"}
  MaxPlan = 2
  MaxChange = 4
  Sub = {"s1", "s2"}
  MaxFaults = 2
SPECIFICATION MCSpec
INVARIANTS TypeOK SessionsCurrent ViewFollows
PROPERTIES SubscriptionsFollow
CHECK_DEADLOCK FALSE
