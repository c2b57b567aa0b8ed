\* Two webhook requests and one request of the server at a time, one failure or restart, fair goroutines.
CONSTANTS
  MaxConv = 2
  MaxObj = 4
  Webhook = {w1, w2}
  Server = {s1}
  Ops = {"text", "command", "notice", "close"}
  MaxFaults = 1
  NoJob = NoJob
  w1 = w1
  w2 = w2
  s1 = s1
SPECIFICATION FairSpec
INVARIANTS
  TypeOK
PROPERTIES
  ReadReturns
\* A gateway that has no conversation left to start rests.
CHECK_DEADLOCK FALSE
