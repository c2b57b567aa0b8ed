-------------------------------- MODULE Custom --------------------------------
(***************************************************************************)
(* The custom gateway, bot/custom: a customer's own server talks to the    *)
(* bot with signed webhooks.  Two queues join the two directions.          *)
(*   closeQueue     chats the customer's server asked to close: the notice *)
(*                  of their end is not sent back to it;                   *)
(*   broadcastSync  a channel for every broadcast that waits for the       *)
(*                  server's report, until a timeout.                      *)
(* closeQueue is changed under a read lock, so two requests may change it  *)
(* at once; a channel is found in broadcastSync under no lock at all.      *)
(***************************************************************************)
EXTENDS Naturals, Sequences, FiniteSets, Functions

CONSTANTS
  ChatId,       \* chats of the customer's server
  Hook,         \* its webhooks served at one time
  Cast,         \* broadcasts
  MaxAsked,     \* bound on the requests to close a chat
  MaxChats,     \* bound on the conversations started
  MaxReports    \* bound on the reports about broadcasts

VARIABLES
  conv,         \* the conversation of a chat, 0: none
  chats,        \* conversations started so far
  ends,         \* notices of an end on their way: <<chat, who works on it, the queue it read>>
  closeQueue,   \* CustomGateway.closeQueue
  hook,         \* the webhooks
  asked,        \* requests to close, by chat
  withheld,     \* ends the server was not told of, by chat
  overlapped,   \* two changes of closeQueue overlapped
  cast,         \* the broadcasts: pc of the call, state of the timer, report received
  inSync,       \* broadcastSync: events with a channel
  shut,         \* channels closed
  reports, died

customVars == <<conv, chats, ends, closeQueue, hook, asked, withheld, overlapped, cast, inSync, shut, reports, died>>

Rest   == [pc |-> "idle", c |-> "none", k |-> 0, q |-> <<>>]
Report == {"nothing", "failures"}

TypeOK ==
  /\ conv \in [ChatId -> 0 .. MaxChats] /\ chats \in 0 .. MaxChats
  /\ Range(closeQueue) \subseteq ChatId
  /\ \A h \in Hook : hook[h].pc \in {"idle", "close", "append", "found", "sending", "sent"}
  /\ \A e \in Cast : cast[e].pc \in {"idle", "posted", "waiting", "returned"}
                     /\ cast[e].timer \in {"off", "armed", "found", "sending", "sent", "ended"}
                     /\ (cast[e].pc = "returned") = (cast[e].got \in Report)
  /\ inSync \subseteq Cast /\ shut \subseteq Cast /\ died \in BOOLEAN
  /\ reports \in 0 .. MaxReports

Init ==
  /\ conv = [c \in ChatId |-> 0] /\ chats = 0 /\ ends = [c \in ChatId |-> <<>>]
  /\ closeQueue = <<>> /\ hook = [h \in Hook |-> Rest]
  /\ asked = [c \in ChatId |-> 0] /\ withheld = [c \in ChatId |-> 0] /\ overlapped = FALSE
  /\ cast = [e \in Cast |-> [pc |-> "idle", timer |-> "off", got |-> "none"]]
  /\ inSync = {} /\ shut = {} /\ reports = 0 /\ died = FALSE
-----------------------------------------------------------------------------
(* Faulty variants: an entry found is left; the timer ends without a word; a report ends a wait twice. *)
Leave(s, i)       == s
FiresSilently(e)  == [cast[e] EXCEPT !.timer = "ended"]
Unreceived(e, r)  == [cast[e] EXCEPT !.pc = "returned"]
-----------------------------------------------------------------------------
(* remove: the last entry takes the place of the one removed. *)
Removed(s, i) == SubSeq([s EXCEPT ![i] = s[Len(s)]], 1, Len(s) - 1)

closing == <<conv, chats, ends, closeQueue, asked, withheld, overlapped>>
casting == <<cast, inSync, shut, reports, died>>

(* The end of the conversation k: the chat service sends the gateway a notice. *)
Ended(c) == conv' = [conv EXCEPT ![c] = 0] /\ ends' = [ends EXCEPT ![c] = Append(@, [pc |-> "text", q |-> <<>>])]

(* handleMessage: the first message of a chat starts a conversation. *)
HandleMessage(c) ==
  /\ conv[c] = 0 /\ chats < MaxChats
  /\ chats' = chats + 1 /\ conv' = [conv EXCEPT ![c] = chats + 1]
  /\ UNCHANGED <<ends, closeQueue, hook, asked, withheld, overlapped, casting>>

AgentCloses(c) ==
  /\ conv[c] # 0
  /\ Ended(c)
  /\ UNCHANGED <<chats, closeQueue, hook, asked, withheld, overlapped, casting>>

(* handleChatClose: the chat's channel is looked up, and the queue read, *)
HandleClose(h, c) ==
  /\ hook[h].pc = "idle" /\ asked[c] < MaxAsked
  /\ asked' = [asked EXCEPT ![c] = @ + 1]
  /\ hook' = [hook EXCEPT ![h] = [pc |-> "append", c |-> c, k |-> conv[c], q |-> closeQueue]]
  /\ UNCHANGED <<conv, chats, ends, closeQueue, withheld, overlapped, casting>>

(* the chat is appended to what was read, *)
AppendClose(h) ==
  /\ hook[h].pc = "append"
  /\ closeQueue' = Append(hook[h].q, hook[h].c)
  /\ overlapped' = (overlapped \/ closeQueue # hook[h].q)
  /\ hook' = [hook EXCEPT ![h].pc = "close"]
  /\ UNCHANGED <<conv, chats, ends, asked, withheld, casting>>

(* and the channel is closed, if there was a conversation and the call does not fail. *)
CloseChannel(h, ok) ==
  /\ hook[h].pc = "close"
  /\ IF ok /\ hook[h].k # 0 /\ conv[hook[h].c] = hook[h].k THEN Ended(hook[h].c) ELSE UNCHANGED <<conv, ends>>
  /\ hook' = [hook EXCEPT ![h] = Rest]
  /\ UNCHANGED <<chats, closeQueue, asked, withheld, overlapped, casting>>

(* SendNotify of an end: the farewell is posted, or the call fails and so does the notice; *)
NotifyClosed(c, ok) ==
  /\ ends[c] # <<>> /\ Head(ends[c]).pc = "text"
  /\ ends' = [ends EXCEPT ![c] = IF ok THEN <<[pc |-> "queue", q |-> closeQueue]>> \o Tail(@) ELSE Tail(@)]
  /\ UNCHANGED <<conv, chats, closeQueue, hook, asked, withheld, overlapped, casting>>

(* then processCloseQueueByChatId: if the server asked for it, it is not told. *)
ProcessCloseQueue(c) ==
  LET q == Head(ends[c]).q
      I == {i \in DOMAIN q : q[i] = c}
      i == CHOOSE x \in I : \A y \in I : x <= y
  IN
  /\ ends[c] # <<>> /\ Head(ends[c]).pc = "queue"
  /\ IF I # {}
     THEN /\ closeQueue' = Removed(q, i)
          /\ withheld' = [withheld EXCEPT ![c] = @ + 1]
          /\ overlapped' = (overlapped \/ closeQueue # q)
     ELSE UNCHANGED <<closeQueue, withheld, overlapped>>
  /\ ends' = [ends EXCEPT ![c] = Tail(@)]
  /\ UNCHANGED <<conv, chats, hook, asked, casting>>
-----------------------------------------------------------------------------
(* BroadcastMessage: the broadcast is posted to the server, *)
PostBroadcast(e) ==
  /\ cast[e].pc = "idle"
  /\ cast' = [cast EXCEPT ![e].pc = "posted"]
  /\ UNCHANGED <<closing, hook, inSync, shut, reports, died>>

(* and only then its channel is made, and its timer started. *)
AwaitReport(e) ==
  /\ cast[e].pc = "posted"
  /\ cast' = [cast EXCEPT ![e].pc = "waiting", ![e].timer = "armed"]
  /\ inSync' = inSync \cup {e}
  /\ UNCHANGED <<closing, hook, shut, reports, died>>

(* handleBroadcast: the server's report finds the channel, or is dropped. *)
HandleBroadcast(h, e) ==
  /\ hook[h].pc = "idle" /\ cast[e].pc # "idle" /\ reports < MaxReports
  /\ reports' = reports + 1
  /\ hook' = IF e \in inSync THEN [hook EXCEPT ![h] = [Rest EXCEPT !.pc = "sending", !.c = e]] ELSE hook
  /\ UNCHANGED <<closing, cast, inSync, shut, died>>

(* What a receive does to the call: it returns the failures reported. *)
Received(e, r) == [cast[e] EXCEPT !.pc = "returned", !.got = r]

ReportReceived(h) ==
  LET e == hook[h].c IN
  /\ hook[h].pc = "sending" /\ cast[e].pc = "waiting"
  /\ cast' = [cast EXCEPT ![e] = Received(e, "failures")]
  /\ hook' = [hook EXCEPT ![h].pc = "sent"]
  /\ UNCHANGED <<closing, inSync, shut, reports, died>>

(* The channel is taken out of the map and closed; who is blocked on it panics:  *)
(* a webhook's panic is recovered by the server, the timer's ends the process.   *)
ShutChannel(e) ==
  /\ inSync' = inSync \ {e} /\ shut' = shut \cup {e}
  /\ died' = (died \/ cast[e].timer = "sending")

CloseReported(h) ==
  /\ hook[h].pc = "sent"
  /\ ShutChannel(hook[h].c)
  /\ hook' = [x \in Hook |-> IF x = h \/ (hook[x].pc = "sending" /\ hook[x].c = hook[h].c) THEN Rest ELSE hook[x]]
  /\ UNCHANGED <<closing, cast, reports>>

(* The timer fires: if the channel is still in the map it is taken out, *)
Timeout(e) ==
  /\ cast[e].timer = "armed"
  /\ cast' = [cast EXCEPT ![e].timer = IF e \in inSync THEN "found" ELSE "ended"]
  /\ UNCHANGED <<closing, hook, inSync, shut, reports, died>>

TimerFound(e) == [cast[e] EXCEPT !.timer = "sending"]

TimerDeletes(e) ==
  /\ cast[e].timer = "found"
  /\ cast' = [cast EXCEPT ![e] = TimerFound(e)]
  /\ inSync' = inSync \ {e}
  /\ died' = (died \/ e \in shut)
  /\ UNCHANGED <<closing, hook, shut, reports>>

(* an empty report is sent, and the channel closed. *)
TimerReceived(e) ==
  /\ cast[e].timer = "sending" /\ cast[e].pc = "waiting"
  /\ cast' = [cast EXCEPT ![e] = [Received(e, "nothing") EXCEPT !.timer = "sent"]]
  /\ UNCHANGED <<closing, hook, inSync, shut, reports, died>>

TimerCloses(e) ==
  /\ cast[e].timer = "sent"
  /\ cast' = [cast EXCEPT ![e].timer = "ended"]
  /\ ShutChannel(e)
  /\ hook' = [x \in Hook |-> IF hook[x].pc = "sending" /\ hook[x].c = e THEN Rest ELSE hook[x]]
  /\ UNCHANGED <<closing, reports>>

Next ==
  /\ ~ died
  /\ \/ \E c \in ChatId :
          \/ HandleMessage(c) \/ AgentCloses(c) \/ ProcessCloseQueue(c)
          \/ \E h \in Hook : HandleClose(h, c)
          \/ \E ok \in BOOLEAN : NotifyClosed(c, ok)
     \/ \E h \in Hook : AppendClose(h) \/ (\E ok \in BOOLEAN : CloseChannel(h, ok))
                        \/ ReportReceived(h) \/ CloseReported(h)
     \/ \E e \in Cast : \/ PostBroadcast(e) \/ AwaitReport(e) \/ Timeout(e) \/ TimerDeletes(e)
                        \/ TimerReceived(e) \/ TimerCloses(e)
                        \/ \E h \in Hook : HandleBroadcast(h, e)

Spec == Init /\ [][Next]_customVars
-----------------------------------------------------------------------------
(***************************************************************************)
(* The server is not told of the end of a chat at most as often as it      *)
(* asked to close it, as long as no two changes of closeQueue overlapped.  *)
(***************************************************************************)
WithheldOnlyAsked == ~ overlapped => \A c \in ChatId : withheld[c] <= asked[c]

(***************************************************************************)
(* A broadcast that waits for the server's report always has someone who   *)
(* will end the wait: its timer, or a webhook that holds its channel.      *)
(***************************************************************************)
WaitHasEnd ==
  \A e \in Cast : cast[e].pc = "waiting" =>
    \/ cast[e].timer \in {"armed", "found", "sending"}
    \/ \E h \in Hook : hook[h].pc = "sending" /\ hook[h].c = e

(***************************************************************************)
(* The timer deletes the channel so that the "webhook method will not be   *)
(* able to find eventId and send possible response to it": from then on    *)
(* nobody else sends on the channel, or closes it.                         *)
(***************************************************************************)
TimerAlone ==
  \A e \in Cast : cast[e].timer \in {"sending", "sent"} =>
    e \notin shut /\ \A h \in Hook : ~ (hook[h].pc \in {"sending", "sent"} /\ hook[h].c = e)
--------------------------------------------------------------------------------
(* Why it holds.  Of the requests to close a chat, some are about to be queued, some are queued, the rest served. *)
Queued(c)  == {i \in DOMAIN closeQueue : closeQueue[i] = c}
Pending(c) == {h \in Hook : hook[h].pc = "append" /\ hook[h].c = c}

Counted ==
  /\ closeQueue \in Seq(ChatId) /\ overlapped \in BOOLEAN
  /\ hook \in [Hook -> [pc : {"idle", "close", "append", "sending", "sent"}, c : ChatId \cup Cast \cup {"none"}, k : Nat, q : Seq(ChatId)]]
  /\ ends \in [ChatId -> Seq([pc : {"text", "queue"}, q : Seq(ChatId)])]
  /\ \A h \in Hook : /\ hook[h].pc \in {"append", "close"} => hook[h].c \in ChatId
                     /\ hook[h].pc \in {"sending", "sent"} => hook[h].c \in Cast
  /\ asked \in [ChatId -> Nat] /\ withheld \in [ChatId -> Nat]
  /\ ~ overlapped => \A c \in ChatId : withheld[c] + Cardinality(Queued(c)) + Cardinality(Pending(c)) <= asked[c]

(* A channel in the map has a timer; one is taken out by a webhook only when its wait has ended. *)
Awaited ==
  /\ cast \in [Cast -> [pc : {"idle", "posted", "waiting", "returned"}, timer : {"off", "armed", "found", "sending", "sent", "ended"},
                        got : Report \cup {"none"}]]
  /\ \A e \in Cast : cast[e].pc = "waiting" => /\ cast[e].timer \in {"armed", "found", "sending"}
                                               /\ cast[e].timer = "armed" => e \in inSync
  /\ \A h \in Hook : hook[h].pc = "sent" => cast[hook[h].c].pc = "returned"

IInv == TypeOK /\ Counted /\ Awaited
================================================================================
