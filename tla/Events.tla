------------------------------- MODULE Events -------------------------------
(***************************************************************************)
(* How the members of a chat learn who is invited, joins and leaves:       *)
(* internal/event_router, called by the handlers of cmd/chat/service.go    *)
(* once their statement is committed.  An operator's seat is one invite    *)
(* and the channel made of it, both of the same id.  The router reads the  *)
(* open channels again and tells one after another: operators by an event  *)
(* of the broker, the customer by a call of the gateway that has the chat. *)
(* Several gateway nodes serve one profile; the channel's row remembers    *)
(* the node that served it last, and the next call prefers that node.      *)
(***************************************************************************)
EXTENDS Naturals, FiniteSets

CONSTANTS
  Seat,      \* seats of operators in the chat
  Leg,       \* the customer's channel at a text gateway
  Node,      \* nodes of the gateway service
  Key,       \* variables a gateway binds to the customer's channel
  Task,      \* announcements: as many handlers run in a behaviour
  MaxFails   \* bound on failed publishes and calls

VARIABLES
  seat,      \* seat[s]: rows of chat.invite and chat.channel
  view,      \* view[s]: what the owner of s knows of it from the events
  task,      \* task[t]: what handler t has still to announce
  up,        \* gateway nodes the registry lists
  host,      \* chat.channel.host of Leg; "none" when not set
  served,    \* the node that served Leg last
  props,     \* chat.channel.props of Leg
  wrote,     \* wrote[k]: the value given to variable k last
  crossed,   \* seats announced by two handlers at one time
  shared,    \* have two handlers called the gateway at one time?
  failsEv    \* failures so far

eventVars == <<seat, view, task, up, host, served, props, wrote, crossed, shared, failsEv>>

State == {"none", "invited", "in", "out"}
Value == {"", "x"}              \* "": the variable is not set
Idle  == [kind |-> "idle"]

(* own: is the seat's owner still to be told by name?  to: channels read and not told. *)
TaskRow == [kind : {"invite", "join", "leave", "decline", "timeout", "action"}, about : Seat,
            own : BOOLEAN, unread : BOOLEAN, to : SUBSET (Seat \cup {Leg}),
            asked : Node \cup {"none"}, node : Node \cup {"none"},
            must : SUBSET Seat, told : [Seat -> 0 .. 2], failed : BOOLEAN]

Running(t) == task[t] # Idle
Done(t)    == Running(t) /\ ~task[t].own /\ ~task[t].unread /\ task[t].to = {} /\ task[t].node = "none"
Busy(t)    == Running(t) /\ ~Done(t)

(* A handler has read the customer's channel and is not done with its gateway. *)
Calling == \E t \in Task : Busy(t) /\ (Leg \in task[t].to \/ task[t].node # "none")

(* The open channels of operators. *)
Open == {s \in Seat : seat[s] = "in"}

(* Types; one handler tells no channel twice of one change, if handlers about a seat do not overlap. *)
TypeOK ==
  /\ seat \in [Seat -> State] /\ view \in [Seat -> State]
  /\ task \in [Task -> TaskRow \cup {Idle}]
  /\ \A t \in Task : Running(t) /\ task[t].about \notin crossed => task[t].told \in [Seat -> 0 .. 1]
  /\ up \subseteq Node /\ host \in Node \cup {"none"} /\ served \in Node \cup {"none"}
  /\ props \in [Key -> Value] /\ wrote \in [Key -> Value]
  /\ crossed \subseteq Seat /\ shared \in BOOLEAN /\ failsEv \in 0 .. MaxFails

Init ==
  /\ seat \in [Seat -> {"none", "in"}] /\ view = seat
  /\ task = [t \in Task |-> Idle]
  /\ up = Node /\ host = "none" /\ served = "none"
  /\ props = [k \in Key |-> ""] /\ wrote = props
  /\ crossed = {} /\ shared = FALSE /\ failsEv = 0

(***************************************************************************)
(* The commits.  What each handler announces after it: an invitation to    *)
(* the invited and, at the same time, to the members; a join to all open   *)
(* channels, the new one with them; a leave to the one who left and then   *)
(* to the channels still open; a decline as an invitation; the end of an   *)
(* unanswered invitation to the invited alone.                             *)
(***************************************************************************)
Commit(t, k, s, from, into) ==
  /\ task[t] = Idle /\ seat[s] = from
  /\ seat' = [seat EXCEPT ![s] = into]
  /\ task' = [task EXCEPT ![t] =
       [kind |-> k, about |-> s, own |-> k # "join", unread |-> k # "timeout", to |-> {},
        asked |-> "none", node |-> "none", must |-> {m \in Seat \ {s} : seat[m] = "in"},
        told |-> [m \in Seat |-> 0], failed |-> FALSE]]
  /\ crossed' = IF \E o \in Task : Busy(o) /\ task[o].about = s THEN crossed \cup {s} ELSE crossed
  /\ UNCHANGED <<view, up, host, served, props, wrote, shared, failsEv>>

InviteToConversation(t, s) == Commit(t, "invite", s, "none", "invited")
JoinConversation(t, s)     == Commit(t, "join", s, "invited", "in")
LeaveConversation(t, s)    == Commit(t, "leave", s, "in", "out")
DeclineInvitation(t, s)    == Commit(t, "decline", s, "invited", "out")

(* The timer is set when both announcements of the invitation are over. *)
InviteTimeout(t, s) ==
  /\ \E o \in Task : Done(o) /\ task[o].kind = "invite" /\ task[o].about = s /\ ~task[o].failed
  /\ Commit(t, "timeout", s, "invited", "out")

(* SendUserAction changes nothing: an operator types, the customer's gateway is told. *)
SendUserAction(t, s) ==
  /\ task[t] = Idle /\ seat[s] = "in"
  /\ task' = [task EXCEPT ![t] =
       [kind |-> "action", about |-> s, own |-> FALSE, unread |-> FALSE, to |-> {Leg},
        asked |-> host, node |-> "none", must |-> {}, told |-> [m \in Seat |-> 0], failed |-> FALSE]]
  /\ shared' = (shared \/ Calling)
  /\ UNCHANGED <<seat, view, up, host, served, props, wrote, crossed, failsEv>>

(***************************************************************************)
(* GetChannels: the open channels now, not those of the commit, as long as *)
(* there are no more than DefaultSearchSize, which is the page the search  *)
(* has when no size is asked for.  Invites and declines are not for        *)
(* gateways.                                                               *)
(***************************************************************************)
(* Mutant: the one who joined is left out, as the name otherChannels suggests. *)
OthersOnly(t) == (Open \ {task[t].about}) \cup (IF task[t].kind \in {"join", "leave"} THEN {Leg} ELSE {})

(* Mutant: the last entry is cropped, as if it stood for a next page, though there is no limit. *)
LastCropped(t) ==
  {s \in Open : s = task[t].about} \cup (IF task[t].kind \in {"join", "leave"} THEN {Leg} ELSE {})

Recipients(t) == Open \cup (IF task[t].kind \in {"join", "leave"} THEN {Leg} ELSE {})

GetChannels(t) ==
  /\ Busy(t) /\ task[t].unread
  /\ task[t].kind = "leave" => ~task[t].own
  /\ task' = [task EXCEPT ![t].unread = FALSE, ![t].to = Recipients(t), ![t].asked = host]
  /\ shared' = (shared \/ (Calling /\ Leg \in Recipients(t)))
  /\ UNCHANGED <<seat, view, up, host, served, props, wrote, crossed, failsEv>>

(* The owner's client keys what it knows by the id of the invite or channel. *)
Seen(k) == CASE k = "invite" -> "invited" [] k = "join" -> "in" [] OTHER -> "out"

Counted(t, s) == [task[t].told EXCEPT ![s] = @ + 1]

(* SendInviteToWebitelUser, SendDeclineInviteToWebitelUser, the first event of RouteLeaveConversation. *)
TellOwner(t) ==
  /\ Busy(t) /\ task[t].own
  /\ task' = [task EXCEPT ![t].own = FALSE, ![t].told = Counted(t, task[t].about)]
  /\ view' = [view EXCEPT ![task[t].about] = Seen(task[t].kind)]
  /\ UNCHANGED <<seat, up, host, served, props, wrote, crossed, shared, failsEv>>

(* sendEventToWebitelUser for a channel of the list. *)
TellMember(t, s) ==
  /\ Busy(t) /\ s \in task[t].to \cap Seat
  /\ task' = [task EXCEPT ![t].to = @ \ {s}, ![t].told = Counted(t, s)]
  /\ view' = IF s = task[t].about /\ task[t].kind = "join" THEN [view EXCEPT ![s] = Seen(task[t].kind)] ELSE view
  /\ UNCHANGED <<seat, up, host, served, props, wrote, crossed, shared, failsEv>>

(* A publish that fails is logged; the others are told all the same. *)
TellFails(t) ==
  /\ Busy(t) /\ failsEv < MaxFails
  /\ \/ task[t].own /\ task' = [task EXCEPT ![t].own = FALSE, ![t].failed = TRUE]
     \/ \E c \in task[t].to :
          /\ task[t].node = "none"
          /\ task' = [task EXCEPT ![t].to = @ \ {c}, ![t].failed = TRUE]
  /\ failsEv' = failsEv + 1
  /\ UNCHANGED <<seat, view, up, host, served, props, wrote, crossed, shared>>

(* GetChannels fails: nobody of the list is told. *)
ReadFails(t) ==
  /\ Busy(t) /\ task[t].unread /\ failsEv < MaxFails
  /\ task[t].kind = "leave" => ~task[t].own
  /\ task' = [task EXCEPT ![t].unread = FALSE, ![t].failed = TRUE]
  /\ failsEv' = failsEv + 1
  /\ UNCHANGED <<seat, view, up, host, served, props, wrote, crossed, shared>>

(* channelLookup.Select: the remembered node while it is listed, else any. *)
Select(wanted) == IF wanted \in up THEN {wanted} ELSE up

(* sendMessageToBotUser, SendUserActionToGateway: the call is served by a node. *)
CallGateway(t, n) ==
  /\ Busy(t) /\ Leg \in task[t].to /\ n \in Select(task[t].asked)
  /\ task' = [task EXCEPT ![t].to = @ \ {Leg}, ![t].node = n]
  /\ served' = n
  /\ UNCHANGED <<seat, view, up, host, props, wrote, crossed, shared, failsEv>>

(* Mutant: the node is stored only where none was. *)
FirstHostStays(t) == IF task[t].asked = "none" THEN task[t].node ELSE host

(* UpdateChannelHost when another node answered than the one wanted. *)
Relocated(t) == IF task[t].node # task[t].asked THEN task[t].node ELSE host

(* Mutant: the variables given replace the row's. *)
VarsReplaced(vars) == [k \in Key |-> IF k \in DOMAIN vars THEN vars[k] ELSE ""]

(* BindChannel: "" removes a variable, other values replace it, the rest stay. *)
BindChannel(vars) == [k \in Key |-> IF k \in DOMAIN vars THEN vars[k] ELSE props[k]]

Bind(vars) ==
  /\ props' = BindChannel(vars)
  /\ wrote' = [k \in Key |-> IF k \in DOMAIN vars THEN vars[k] ELSE wrote[k]]

(* The answer: variables for the channel, if the call was an announcement, and the node. *)
GatewayAnswers(t) ==
  /\ Busy(t) /\ task[t].node # "none"
  /\ \/ UNCHANGED <<props, wrote>>
     \/ task[t].kind # "action" /\ \E k \in Key, v \in Value : Bind([x \in {k} |-> v])
  /\ host' = Relocated(t)
  /\ task' = [task EXCEPT ![t].node = "none"]
  /\ UNCHANGED <<seat, view, up, served, crossed, shared, failsEv>>

(* SetVariables, of the workflow or an operator. *)
SetVariables ==
  /\ \E k \in Key, v \in Value : Bind([x \in {k} |-> v])
  /\ UNCHANGED <<seat, view, task, up, host, served, crossed, shared, failsEv>>

(* The registry loses and finds nodes. *)
NodeChange ==
  /\ \E n \in Node : up' = IF n \in up THEN up \ {n} ELSE up \cup {n}
  /\ UNCHANGED <<seat, view, task, host, served, props, wrote, crossed, shared, failsEv>>

Next ==
  \/ \E t \in Task, s \in Seat :
       \/ InviteToConversation(t, s) \/ JoinConversation(t, s) \/ LeaveConversation(t, s)
       \/ DeclineInvitation(t, s) \/ InviteTimeout(t, s) \/ SendUserAction(t, s)
       \/ TellMember(t, s)
  \/ \E t \in Task :
       \/ GetChannels(t) \/ TellOwner(t) \/ TellFails(t) \/ ReadFails(t)
       \/ GatewayAnswers(t)
       \/ \E n \in Node : CallGateway(t, n)
  \/ SetVariables \/ NodeChange

Spec == Init /\ [][Next]_eventVars

(***************************************************************************)
(* Properties.                                                             *)
(***************************************************************************)

(* An operator's client, which learns of its own invitation, join and leave from the events of
   the router alone, ends up with the state of the seat when handlers about it do not overlap. *)
OwnViewRight ==
  \A s \in Seat \ crossed :
    (\A t \in Task : Running(t) /\ task[t].about = s => Done(t) /\ ~task[t].failed) => view[s] = seat[s]

(* A handler that announces a change to the members leaves out no operator who was in the chat
   at the commit and still is, although the list is read later. *)
ToldAll ==
  \A t \in Task : Done(t) /\ task[t].kind \notin {"timeout", "action"} /\ ~task[t].failed =>
    \A s \in task[t].must \cap Open : task[t].told[s] = 1

(* With no call under way, and none that overlapped another, the channel's host is the node
   that served it last (UpdateChannelHost is called only when the node changed). *)
HostServed ==
  (~shared /\ \A t \in Task : Running(t) => task[t].node = "none") => host = served

(* A channel's variables are those written last, by whomever, name by name (BindChannel). *)
VarsKept == props = wrote

=============================================================================
