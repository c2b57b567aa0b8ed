\* Two requests about an invitation; one message, one WaitMessage; one message, one request of the server.
CONSTANTS
  Dialog = {c1}
  User = {u1}
  Token = {t1}
  Task = {j1, j2}
  FlowObj = {o1, o2, o3, o4}
  FlowToken = {k1, k2}
  NoFlowObj = NoFlowObj
  NoTok = NoTok
  MaxConv = 3
  MaxObj = 3
  NoJob = NoJob
SPECIFICATION MCSpec
INVARIANTS
  OneConversation
PROPERTIES
  InviteEventuallySettled
  AwaitedMessageDelivered
  
\* A server with no request to serve rests.
CHECK_DEADLOCK FALSE
