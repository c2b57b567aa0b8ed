-------------------------------- MODULE MCLive --------------------------------
(***************************************************************************)
(* What eventually happens to an invitation (Membership), to a message the *)
(* schema waits for (FlowAgent) and to the command "/close" (BotChannel),  *)
(* with few requests at a time and nothing failing.  The three share no    *)
(* state here: a behaviour is one of them at work and the others as they   *)
(* began, where no request is in progress and fairness asks for nothing.   *)
(***************************************************************************)
EXTENDS Naturals

CONSTANTS
  Dialog, User, Token, Task,             \* Membership: conversations, users, tokens, requests
  FlowObj, FlowToken, NoFlowObj, NoTok,  \* FlowAgent: channel objects and tokens
  MaxConv, MaxObj, NoJob                 \* BotChannel

VARIABLES
  part,
  conv, invite, channel, timer, job, told, broke, faults,
  chat, flow, issued, cached, pending, store, flowJob, flowFaults,
  row, link, obj, loadMx, recvMx, botJob, botFaults

M == INSTANCE Membership WITH Conv <- Dialog, Job <- Task, MaxFaults <- 0
F == INSTANCE FlowAgent
       WITH Node <- {"node"}, Token <- FlowToken, Sender <- {"sender"}, Caller <- {"caller"}, Waiter <- {"waiter"},
            Control <- {}, Obj <- FlowObj, NoObj <- NoFlowObj, MaxFaults <- 0,
            job <- flowJob, faults <- flowFaults
B == INSTANCE BotChannel
       WITH Webhook <- {"webhook"}, Server <- {"server"}, Ops <- {"text", "command", "notice", "close"},
            MaxFaults <- 0, job <- botJob, faults <- botFaults

memberVars == <<conv, invite, channel, timer, job, told, broke, faults>>
flowVars   == <<chat, flow, issued, cached, pending, store, flowJob, flowFaults>>
botVars    == <<row, link, obj, loadMx, recvMx, botJob, botFaults>>
vars       == <<part, memberVars, flowVars, botVars>>

MCInit == part \in {"invite", "flow", "bot"} /\ M!Init /\ F!Init /\ B!Init

MCNext ==
  \/ part = "invite" /\ M!Next /\ UNCHANGED <<part, flowVars, botVars>>
  \/ part = "flow"   /\ F!Next /\ UNCHANGED <<part, memberVars, botVars>>
  \/ part = "bot"    /\ B!Next /\ UNCHANGED <<part, memberVars, flowVars>>

MCFairness ==
  /\ M!Fairness
  /\ \A j \in F!Job : WF_flowVars(F!JobStep(j))
  /\ \A j \in B!Job : WF_botVars(B!Steps(j)) /\ SF_botVars(B!Waits(j))

MCSpec == MCInit /\ [][MCNext]_vars /\ MCFairness

(* An invitation with a timeout that the user was told of does not stay open. *)
InviteEventuallySettled == M!InviteEventuallySettled

(* A message sent while the schema waits ends that wait. *)
AwaitedMessageDelivered == F!AwaitedMessageDelivered

(* One message and one request of the server at a time: the customer never has two open conversations. *)
OneConversation == B!OneConversation

(* "/close" closes the conversation of the object it is received on. *)
CommandHonoured == B!CommandHonoured
===============================================================================
