------------------------------ MODULE Delivery ------------------------------
(***************************************************************************)
(* How a message of a chat is stored and handed to its members: the        *)
(* handlers SendMessage, SendServiceMessage and DeleteMessage of           *)
(* chatService (cmd/chat/service.go), the statements of                    *)
(* internal/repo/sqlx/message.go and the calls of internal/event_router.   *)
(* One chat: the customers' channels at text gateways, the workflow, the   *)
(* operators.  A handler reads the session first and works on that         *)
(* snapshot; every statement and every call to another service is a step   *)
(* of its own, and other handlers run between them.                        *)
(***************************************************************************)
EXTENDS Naturals, Sequences, FiniteSets

CONSTANTS
  Gateway,    \* members whose channel is a text gateway: customers
  Agent,      \* members at a websocket: operators
  Flow,       \* the workflow; its channel id is the conversation's
  Ext,        \* external message ids: key and value of one message variable
  Awaits,     \* do the clients await an answer before their next request?
  Job,        \* requests the server can be serving at one time
  MaxMsg,     \* bound on stored messages
  MaxAsked,   \* bound on requests in all
  MaxFaults   \* bound on failed calls

(* A chat begins with a message. *)
ASSUME DeliveryAssumption == /\ MaxMsg \in Nat \ {0}
                             /\ MaxAsked \in Nat /\ MaxFaults \in Nat
                             /\ Awaits \in BOOLEAN

VARIABLES
  member,     \* member[c]: row of chat.channel (chat.conversation of Flow)
  msg,        \* msg[m]: row of chat.message
  lastId,     \* sequence of chat.message.id
  job,        \* job[j]: the request a goroutine is serving
  inbox,      \* inbox[c][m]: events about m handed to c, in order
  acked,      \* acked[m]: external ids the gateways answered with for m
  asked,      \* requests so far
  faults      \* failures so far

vars == <<member, msg, lastId, job, inbox, acked, asked, faults>>

Member == Gateway \cup Agent \cup {Flow}
Msg    == 1 .. MaxMsg
Idle   == [pc |-> "idle"]
NoMsg  == [st |-> "none"]
None   == 0

(***************************************************************************)
(* A request: what is sent, how it refers to an older message (find: its   *)
(* id or an external id it is bound to) and the variables it carries,      *)
(* which in an edit are the reference.                                     *)
(***************************************************************************)
Request ==
  [ref : {"new"}, kind : {"text", "file"}, find : {None}, ext : {{}} \cup {{x} : x \in Ext}]
    \cup [ref : {"edit"}, kind : {"text"}, find : Msg, ext : {{}}]
    \cup {[ref |-> "edit", kind |-> "text", find |-> x, ext |-> {x}] : x \in Ext}
    \cup [ref : {"forward", "reply"}, kind : {"text"}, find : Msg \cup Ext, ext : {{}}]

Row == [st : {"stored", "deleted"}, from : Member, kind : {"text", "file"},
        ext : SUBSET Ext, bare : BOOLEAN, service : BOOLEAN, forward : 0 .. MaxMsg]

(* snap: the members open when the session was read; left: who is still to be told. *)
JobRow == [pc : {"lookup", "upload", "store", "deliver", "delete", "route"}, by : Member,
           ref : {"new", "edit", "forward", "reply"}, kind : {"text", "file"},
           find : Msg \cup Ext \cup {None}, mid : 0 .. MaxMsg, snap : SUBSET Member,
           left : SUBSET Member, ext : SUBSET Ext, rebind : BOOLEAN,
           service : {"no", "full", "marker"}]

Event == {"new", "edit", "deleted"}

At(j, pc) == job[j].pc = pc

(* Types; nobody is told who was not open at the start, and no row 0 is edited (SaveMessage panics). *)
TypeOK ==
  /\ member \in [Member -> {"none", "open", "closed"}]
  /\ msg \in [Msg -> Row \cup {NoMsg}]
  /\ lastId \in Msg
  /\ job \in [Job -> JobRow \cup {Idle}]
  /\ \A j \in Job : job[j] # Idle =>
       /\ job[j].left \subseteq job[j].snap
       /\ (At(j, "store") /\ job[j].ref = "edit") => job[j].mid # 0
  /\ \A c \in Member, m \in Msg : inbox[c][m] \in Seq(Event)
  /\ acked \in [Msg -> SUBSET Ext]
  /\ asked \in 0 .. MaxAsked /\ faults \in 0 .. MaxFaults

(* The customer and the workflow are there from the start, and a first message of one of them. *)
Init ==
  /\ member \in {[c \in Member |-> IF c \in Agent THEN st ELSE "open"] : st \in {"none", "open"}}
  /\ msg \in {[m \in Msg |-> IF m = 1 THEN r ELSE NoMsg] :
               r \in {r \in Row : /\ r.st = "stored" /\ r.forward = 0 /\ ~ r.service /\ r.kind = "text"
                                  /\ member[r.from] = "open" /\ (r.bare <=> r.ext = {})}}
  /\ lastId = 1
  /\ job = [j \in Job |-> Idle]
  /\ inbox = [c \in Member |-> [m \in Msg |-> IF m = 1 /\ member[c] = "open" THEN <<"new">> ELSE <<>>]]
  /\ acked = [m \in Msg |-> {}]
  /\ asked = 0
  /\ faults = 0
-----------------------------------------------------------------------------
(***************************************************************************)
(* Faulty variants: an edit that goes on although no message was found, an  *)
(* editor who need not be the author, bindings that are not marked as      *)
(* changed, a loop that ends with the first gateway.                       *)
(***************************************************************************)
EditUnchecked(m)    == m = 0 \/ msg[m].forward = 0
AuthorAny(m, by)    == TRUE
RebindNever(j, B)   == job[j].rebind
RestReturns(j)      == {c \in job[j].left : job[j].left \cap Gateway = {} /\ c # job[j].by}
-----------------------------------------------------------------------------
Goto(j, pc)  == job' = [job EXCEPT ![j].pc = pc]
Return(j)    == job' = [job EXCEPT ![j] = Idle]
Stored(m)    == m \in Msg /\ msg[m].st = "stored"
Fault        == faults < MaxFaults /\ faults' = faults + 1

PlainText == [ref |-> "new", kind |-> "text", find |-> None, ext |-> {}]

(* GetSession lists every channel, the closed ones too; the loops skip those. *)
GetSession == {c \in Member : member[c] = "open"}

Started(j, pc, by, req, mid, service) ==
  /\ asked' = asked + 1
  /\ job' = [job EXCEPT ![j] =
               [pc |-> pc, by |-> by, ref |-> req.ref, kind |-> req.kind, find |-> req.find,
                mid |-> mid, snap |-> GetSession, left |-> {}, ext |-> req.ext,
                rebind |-> FALSE, service |-> service]]

(* A client with a request under way sends no other one, if it awaits answers. *)
MayStart(j, c) ==
  /\ At(j, "idle") /\ asked < MaxAsked
  /\ Awaits => \A k \in Job : job[k] # Idle => (job[k].service # "no" \/ job[k].by # c)

(* Clients refer to ids they have been given, and to external ids. *)
Known(find) == find \in 0 .. lastId \cup Ext

(***************************************************************************)
(* GetMessage: by id or by binding, and by the author when the caller      *)
(* names one.  It finds one row: none, or several, are no answer.          *)
(***************************************************************************)
Author(m, by) == msg[m].from = by

GetMessage(find, own, by) ==
  {m \in Msg : /\ Stored(m)
               /\ find = m \/ find \in msg[m].ext
               /\ own => Author(m, by)}

FindOne(S) == IF Cardinality(S) = 1 THEN CHOOSE m \in S : TRUE ELSE 0

(* A document is first fetched, or linked, by the storage service. *)
Payload(kind) == IF kind = "file" THEN "upload" ELSE "store"

SendMessage(j, c, req) ==
  /\ MayStart(j, c)
  /\ member[c] = "open"
  /\ Known(req.find)
  /\ Started(j, IF req.ref = "new" THEN Payload(req.kind) ELSE "lookup", c, req, 0, "no")
  /\ UNCHANGED <<member, msg, lastId, inbox, acked, faults>>

(* A forwarded message cannot be edited. *)
EditFound(m) == m # 0 /\ msg[m].forward = 0

(***************************************************************************)
(* saveMessage, first part: which message a request is about.  An edit     *)
(* fails without it; forward and reply go on as a plain message.           *)
(***************************************************************************)
EditLookup(j) ==
  LET m == FindOne(GetMessage(job[j].find, TRUE, job[j].by)) IN
  /\ At(j, "lookup") /\ job[j].ref = "edit"
  /\ IF EditFound(m)
     THEN job' = [job EXCEPT ![j].pc = Payload(job[j].kind), ![j].mid = m, ![j].find = None]
     ELSE Return(j)
  /\ UNCHANGED <<member, msg, lastId, inbox, acked, asked, faults>>

(* A forwarded message brings its own payload. *)
ForwardLookup(j) ==
  LET m    == FindOne(GetMessage(job[j].find, FALSE, job[j].by))
      kind == IF m = 0 THEN job[j].kind ELSE msg[m].kind
  IN
  /\ At(j, "lookup") /\ job[j].ref = "forward"
  /\ job' = [job EXCEPT ![j].pc = Payload(kind), ![j].kind = kind, ![j].mid = m, ![j].find = None,
                        ![j].ref = IF m = 0 THEN "new" ELSE "forward"]
  /\ UNCHANGED <<member, msg, lastId, inbox, acked, asked, faults>>

(* A reply keeps the id it replies to, which nothing here reads again. *)
ReplyLookup(j) ==
  /\ At(j, "lookup") /\ job[j].ref = "reply"
  /\ job' = [job EXCEPT ![j].pc = Payload(job[j].kind), ![j].find = None, ![j].ref = "new"]
  /\ UNCHANGED <<member, msg, lastId, inbox, acked, asked, faults>>

UploadFile(j) ==
  /\ At(j, "upload")
  /\ Goto(j, "store")
  /\ UNCHANGED <<member, msg, lastId, inbox, acked, asked, faults>>

UploadFails(j) ==
  /\ At(j, "upload")
  /\ Fault
  /\ Return(j)
  /\ UNCHANGED <<member, msg, lastId, inbox, acked, asked>>

(***************************************************************************)
(* SaveMessage.  An edit updates the row of its author's channel: nothing  *)
(* is found when the row was deleted since, nor for the workflow, whose    *)
(* channel_id is stored as NULL.                                           *)
(***************************************************************************)
NewRow(j) ==
  [st |-> "stored", from |-> job[j].by, kind |-> job[j].kind, ext |-> job[j].ext,
   bare |-> job[j].ext = {}, service |-> job[j].service # "no",
   forward |-> IF job[j].ref = "forward" THEN job[j].mid ELSE 0]

(* Whom sendMessage hands it to: everyone in the snapshot, of the sender's own only browser tabs. *)
Audience(j) == {c \in job[j].snap : c = job[j].by => c \in Agent}

(* sendSystemLevelMessage leaves out the workflow, and with a blank marker the gateways. *)
Recipients(j) ==
  CASE job[j].service = "no"     -> Audience(j)
    [] job[j].service = "full"   -> Audience(j) \ {Flow}
    [] job[j].service = "marker" -> Audience(j) \cap Agent

Delivering(j, m) == job' = [job EXCEPT ![j].pc = "deliver", ![j].mid = m, ![j].left = Recipients(j)]

StoreNew(j) ==
  LET m == lastId + 1 IN
  /\ At(j, "store") /\ job[j].ref # "edit"
  /\ m \in Msg
  /\ lastId' = m
  /\ msg' = [msg EXCEPT ![m] = NewRow(j)]
  /\ Delivering(j, m)
  /\ UNCHANGED <<member, inbox, acked, asked, faults>>

StoreEdit(j) ==
  LET m == job[j].mid IN
  /\ At(j, "store") /\ job[j].ref = "edit"
  /\ IF Stored(m) /\ job[j].by # Flow
     THEN /\ msg' = [msg EXCEPT ![m].bare = @ /\ job[j].ext = {}]
          /\ Delivering(j, m)
     ELSE Return(j) /\ UNCHANGED msg
  /\ UNCHANGED <<member, lastId, inbox, acked, asked, faults>>

(***************************************************************************)
(* sendMessage: one member after the other, the sender first, then in the  *)
(* order their channels were created.  A failed member is skipped, except  *)
(* by a service message, which stops there.                                *)
(***************************************************************************)
First(j) ==
  LET left == job[j].left IN
  IF job[j].by \in left          THEN job[j].by
  ELSE IF left \cap Gateway # {} THEN CHOOSE c \in left : c \in Gateway
  ELSE IF Flow \in left          THEN Flow
  ELSE CHOOSE c \in left : c \in Agent

EventOf(j)     == IF job[j].ref = "edit" THEN "edit" ELSE "new"
Received(c, j) == inbox' = [inbox EXCEPT ![c][job[j].mid] = Append(@, EventOf(j))]
Rest(j)        == job[j].left \ {First(j)}

(* An operator's browser tabs get an event of the broker, the workflow a call. *)
DeliverInternal(j) ==
  /\ At(j, "deliver") /\ job[j].left # {} /\ First(j) \notin Gateway
  /\ Received(First(j), j)
  /\ job' = [job EXCEPT ![j].left = Rest(j)]
  /\ UNCHANGED <<member, msg, lastId, acked, asked, faults>>

(***************************************************************************)
(* SendMessageToGateway: the answer binds the message to external ids.     *)
(* message.Variables is one map for the handler and for the call: into a   *)
(* map that is there the call writes itself, and the handler's comparison  *)
(* afterwards finds no difference; only ids that come when there is no map *)
(* yet count as new.  A service message does not compare at all.           *)
(***************************************************************************)
Rebind(j, B) == job[j].rebind \/ (B # {} /\ job[j].ext = {} /\ job[j].service = "no")

DeliverGateway(j, B) ==
  LET c == First(j) IN
  /\ At(j, "deliver") /\ job[j].left # {} /\ c \in Gateway
  /\ Received(c, j)
  /\ acked' = [acked EXCEPT ![job[j].mid] = @ \cup B]
  /\ job' = [job EXCEPT ![j].left = Rest(j), ![j].ext = @ \cup B, ![j].rebind = Rebind(j, B)]
  /\ UNCHANGED <<member, msg, lastId, asked, faults>>

DeliverFails(j) ==
  /\ At(j, "deliver") /\ job[j].left # {}
  /\ Fault
  /\ job' = [job EXCEPT ![j].left = IF job[j].service # "no" THEN {} ELSE Rest(j)]
  /\ UNCHANGED <<member, msg, lastId, inbox, acked, asked>>

(* BindMessage: the ids are merged into the row's variables, if it is there. *)
BindMessage(j) ==
  LET m == job[j].mid IN
  /\ At(j, "deliver") /\ job[j].left = {}
  /\ msg' = IF job[j].rebind /\ Stored(m) THEN [msg EXCEPT ![m].ext = @ \cup job[j].ext] ELSE msg
  /\ Return(j)
  /\ UNCHANGED <<member, lastId, inbox, acked, asked, faults>>
-----------------------------------------------------------------------------
(***************************************************************************)
(* SendServiceMessage, which a gateway asks for: the sender is the         *)
(* operator, the workflow if there is none open or the gateway says so     *)
(* (from: bot).  A marker is a bot's message without text.                 *)
(***************************************************************************)
ServiceSender(bot) ==
  LET live   == GetSession
      agents == live \cap Agent
  IN IF bot /\ Flow \in live THEN {Flow}
     ELSE IF agents # {}     THEN {CHOOSE c \in agents : TRUE}
     ELSE live \cap {Flow}

SendServiceMessage(j, bot, service) ==
  /\ At(j, "idle") /\ asked < MaxAsked
  /\ service = "marker" => bot
  /\ \E c \in ServiceSender(bot) : Started(j, "store", c, PlainText, 0, service)
  /\ UNCHANGED <<member, msg, lastId, inbox, acked, faults>>

(***************************************************************************)
(* DeleteMessage: the author's message is found by id or binding, also by  *)
(* an author whose channel is closed, then the row is deleted.  Only if    *)
(* this request deleted it the operators are told, members of the past     *)
(* included, but nobody if the author's channel was closed.                *)
(***************************************************************************)
DeleteMessage(j, c, find) ==
  LET m == FindOne(GetMessage(find, TRUE, c)) IN
  /\ MayStart(j, c)
  /\ Known(find) /\ m # 0
  /\ Started(j, "delete", c, PlainText, m, "no")
  /\ UNCHANGED <<member, msg, lastId, inbox, acked, faults>>

DeletedRow(j) == Stored(job[j].mid)

DeleteRow(j) ==
  LET m == job[j].mid IN
  /\ At(j, "delete")
  /\ msg' = [msg EXCEPT ![m].st = "deleted"]
  /\ IF DeletedRow(j) THEN Goto(j, "route") ELSE Return(j)
  /\ UNCHANGED <<member, lastId, inbox, acked, asked, faults>>

RouteMessageDeleted(j) ==
  LET told == {c \in Agent : job[j].by \in job[j].snap /\ c # job[j].by /\ member[c] # "none"} IN
  /\ At(j, "route")
  /\ inbox' = [c \in Member |->
                 IF c \in told THEN [inbox[c] EXCEPT ![job[j].mid] = Append(@, "deleted")] ELSE inbox[c]]
  /\ Return(j)
  /\ UNCHANGED <<member, msg, lastId, acked, asked, faults>>
-----------------------------------------------------------------------------
(* Membership, as far as this module sees it: an operator joins, a channel is closed. *)
Join(c) ==
  /\ asked < MaxAsked
  /\ c \in Agent /\ member[c] = "none"
  /\ member' = [member EXCEPT ![c] = "open"]
  /\ asked' = asked + 1
  /\ UNCHANGED <<msg, lastId, job, inbox, acked, faults>>

(* The workflow's channel is closed with the customer's. *)
Leave(c) ==
  /\ asked < MaxAsked
  /\ c # Flow /\ member[c] = "open"
  /\ member' = [d \in Member |-> IF d = c \/ (c \in Gateway /\ d = Flow) THEN "closed" ELSE member[d]]
  /\ asked' = asked + 1
  /\ UNCHANGED <<msg, lastId, job, inbox, acked, faults>>

JobStep(j) ==
  \/ EditLookup(j) \/ ForwardLookup(j) \/ ReplyLookup(j)
  \/ UploadFile(j) \/ StoreNew(j) \/ StoreEdit(j)
  \/ DeliverInternal(j)
  \/ \E B \in {{}} \cup {{x} : x \in Ext} : DeliverGateway(j, B)
  \/ BindMessage(j)
  \/ DeleteRow(j) \/ RouteMessageDeleted(j)

Next ==
  \/ \E j \in Job :
       \/ \E c \in Member : \/ \E req \in Request : SendMessage(j, c, req)
                            \/ \E find \in Msg \cup Ext : DeleteMessage(j, c, find)
       \/ \E bot \in BOOLEAN, service \in {"full", "marker"} : SendServiceMessage(j, bot, service)
       \/ JobStep(j)
       \/ UploadFails(j) \/ DeliverFails(j)
  \/ \E c \in Member : Join(c) \/ Leave(c)

Spec == Init /\ [][Next]_vars
-----------------------------------------------------------------------------
(***************************************************************************)
(* If clients await their answers, a member sees the life of a message in  *)
(* order: it appears before its edits, once, and nothing comes after its   *)
(* deletion, which is told once.  Every request tells its own snapshot of  *)
(* members at its own pace, so this rests on edit and delete being the     *)
(* author's alone, and on the count of rows the DELETE returns.            *)
(***************************************************************************)
EventsInOrder ==
  Awaits => \A c \in Member, m \in Msg :
    LET s == inbox[c][m] IN
    (msg[m] # NoMsg /\ ~ msg[m].service) =>
      \A i \in DOMAIN s : /\ s[i] = "new" => i = 1
                          /\ s[i] = "deleted" => i = Len(s)

(***************************************************************************)
(* Of a message sent without variables, every external id its gateways     *)
(* answered with ends up in the row (BindMessage), where later edits,      *)
(* replies and deletions of the customer look for it.                      *)
(***************************************************************************)
BareBindingsKept ==
  \A m \in Msg :
    (Stored(m) /\ msg[m].bare /\ ~ msg[m].service /\ ~ \E j \in Job : At(j, "deliver") /\ job[j].mid = m)
      => acked[m] \subseteq msg[m].ext

(***************************************************************************)
(* Members that leave or join while a message is on its way change nothing *)
(* for the others: when sendMessage is through, without a failed call,     *)
(* everyone who was open when the session was read has the message.        *)
(***************************************************************************)
HandedToAll ==
  faults = 0 => \A j \in Job :
    (At(j, "deliver") /\ job[j].left = {} /\ job[j].service = "no") =>
      \A c \in job[j].snap \ {job[j].by} :
        \E i \in DOMAIN inbox[c][job[j].mid] : inbox[c][job[j].mid][i] = EventOf(j)
=============================================================================
