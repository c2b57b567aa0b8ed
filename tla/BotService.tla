------------------------------ MODULE BotService ------------------------------
(***************************************************************************)
(* The service of the bots' gateways: bot/service.go, bot/api.go,          *)
(* bot/bot.go and the registration half of bot/gateway.go.  A bot is a row *)
(* in the table and, once it is wanted, a Gateway object in the cache      *)
(* srv.profiles with the route of its webhook in srv.gateways.  An update  *)
(* makes a new object that takes over the map of open channels of the one  *)
(* it replaces; a channel keeps the object it was opened on.  The requests *)
(* of the API are not serialized: each reads the row, sets a gateway up,   *)
(* writes the row and registers in steps of its own.                       *)
(***************************************************************************)
EXTENDS Naturals, Sequences, FiniteSets

CONSTANTS
  Bot,
  Req,        \* requests at one time
  Limit,      \* limit of the CHAT product's licence
  MaxObj,     \* bound on the gateway objects of a bot
  MaxReq,     \* bound on the requests begun
  MaxFails    \* bound on failed calls of a provider

VARIABLES
  row,        \* row[b]: chat.bot; st is "none" before its creation, "gone" after its deletion
  objs,       \* objs[b]: the Gateway objects made for b so far
  run,        \* srv.profiles: the number of the object, 0: none
  route,      \* srv.gateways has the URI of b
  hook,       \* hook[b]: the provider calls our webhook (external)
  chan,       \* chan[b]: the open channels: the object each was opened on
  req,        \* req[r]: the request's state
  mixed,      \* mixed[b]: another request on b ran beside an update or a load
  outdated,   \* outdated[b]: an update or a load brought its object in after the deletion of the row
  older,      \* older[b]: the deletion met a channel of an object that had been replaced
  overlap,    \* a bot was found to be in the limit while another one was about to be enabled
  begun,      \* the requests begun
  fails

botVars == <<row, objs, run, route, hook, chan, req, mixed, outdated, older, overlap, begun, fails>>

Settings == [enabled : BOOLEAN, meta : {0, 1}]
Row      == [st : {"none", "stored", "gone"}, set : Settings]
Gateway  == [enabled : BOOLEAN, meta : {0, 1}, deleted : BOOLEAN, map : 1 .. MaxObj]
Idle     == [pc |-> "idle"]
Op       == {"create", "update", "delete", "load", "self"}

TypeOK ==
  /\ row \in [Bot -> Row]
  /\ objs \in [Bot -> UNION {[1 .. n -> Gateway] : n \in 0 .. MaxObj}]
  /\ \A b \in Bot : /\ run[b] \in 0 .. Len(objs[b])
                    /\ chan[b] \in SUBSET (1 .. Len(objs[b]))
  /\ route \in [Bot -> BOOLEAN] /\ hook \in [Bot -> BOOLEAN]
  /\ req \in [Req -> {Idle} \cup
       [pc : {"setup", "store", "meta", "index", "provider", "stop"}, op : Op, bot : Bot,
        want : Settings, field : {"enabled", "meta", "all"}, obj : 0 .. MaxObj, force : BOOLEAN]]
  /\ mixed \in [Bot -> BOOLEAN] /\ outdated \in [Bot -> BOOLEAN] /\ older \in [Bot -> BOOLEAN]
  /\ overlap \in BOOLEAN /\ begun \in 0 .. MaxReq /\ fails \in 0 .. MaxFails

Init ==
  /\ row = [b \in Bot |-> [st |-> "none", set |-> [enabled |-> FALSE, meta |-> 0]]] /\ objs = [b \in Bot |-> <<>>]
  /\ run = [b \in Bot |-> 0] /\ route = [b \in Bot |-> FALSE] /\ hook = [b \in Bot |-> FALSE]
  /\ chan = [b \in Bot |-> {}] /\ req = [r \in Req |-> Idle]
  /\ mixed = [b \in Bot |-> FALSE] /\ outdated = [b \in Bot |-> FALSE] /\ older = [b \in Bot |-> FALSE] /\ overlap = FALSE /\ begun = 0 /\ fails = 0
-----------------------------------------------------------------------------
(* Faulty variants: a limit one too high, an update that swaps no object, a deletion that marks nothing. *)
LimitOff(r)       == Cardinality({b \in Bot : row[b].st = "stored" /\ row[b].set.enabled}) <= Limit
KeepsOld(b, o)    == IF run[b] = 0 THEN o ELSE run[b]
NotMarked(g)      == [g EXCEPT !.enabled = FALSE]
-----------------------------------------------------------------------------
Stored(b)  == row[b].st = "stored"
Created(b, want)  == [row EXCEPT ![b] = [st |-> "stored", set |-> want]]
Updated(b, field, value) == IF Stored(b) THEN [row EXCEPT ![b].set[field] = value] ELSE row
Deleted(b)        == [row EXCEPT ![b].st = "gone"]
ActiveBotsCount   == Cardinality({b \in Bot : Stored(b) /\ row[b].set.enabled})

Busy(b)    == \E r \in Req : req[r] # Idle /\ req[r].bot = b
Open(b, m) == {o \in chan[b] : objs[b][o].map = m}

Begin(r, op, b, pc, want, field, obj) ==
  /\ req[r] = Idle /\ begun < MaxReq
  /\ begun' = begun + 1
  /\ req' = [req EXCEPT ![r] = [pc |-> pc, op |-> op, bot |-> b, want |-> want, field |-> field,
                                obj |-> obj, force |-> FALSE]]
  /\ mixed' = [mixed EXCEPT ![b] = @ \/ Busy(b)]

(* constraintChatBotsLimit: the enabled bots are counted before one more is written. *)
InLimit(r) == ActiveBotsCount + 1 <= Limit

(* A request found its bot within the limit and has still to write it. *)
Enabling(r) ==
  /\ req[r] # Idle
  /\ req[r].pc \in {"setup", "store"} /\ req[r].want.enabled
  /\ req[r].op = "create" \/ (req[r].op = "update" /\ req[r].field = "enabled")

CheckLimit(r, enable) ==
  /\ enable => InLimit(r)
  /\ overlap' = (overlap \/ (enable /\ \E q \in Req : Enabling(q)))

(* CreateBot *)
CreateBot(r, b, want) ==
  /\ row[b].st = "none" /\ ~ Busy(b)
  /\ CheckLimit(r, want.enabled)
  /\ Begin(r, "create", b, "setup", want, "all", 0)
  /\ UNCHANGED <<row, objs, run, route, hook, chan, outdated, older, fails>>

(* UpdateBot: the row is read and merged with the fields of the request. *)
UpdateBot(r, b, field) ==
  /\ Stored(b)
  /\ LET want == [row[b].set EXCEPT ![field] = IF field = "enabled" THEN ~ @ ELSE 1 - @] IN
     /\ CheckLimit(r, field = "enabled" /\ want.enabled)
     /\ Begin(r, "update", b, "setup", want, field, 0)
  /\ UNCHANGED <<row, objs, run, route, hook, chan, outdated, older, fails>>

(* Gateway, by a webhook or a message to send: a miss is loaded from the table, one at a time (loadMx). *)
LoadGateway(r, b) ==
  /\ Stored(b) /\ (run[b] = 0 \/ ~ route[b])
  /\ \A q \in Req : req[q] # Idle => req[q].op # "load"
  /\ Begin(r, "load", b, "setup", row[b].set, "all", 0)
  /\ UNCHANGED <<row, objs, run, route, hook, chan, outdated, older, overlap, fails>>

(* SetMetadata, by the provider in the course of a webhook of the gateway that runs. *)
SetMetadata(r, b) ==
  /\ Stored(b) /\ run[b] # 0
  /\ Begin(r, "self", b, "meta", row[b].set, "meta", run[b])
  /\ UNCHANGED <<row, objs, run, route, hook, chan, outdated, older, overlap, fails>>

(* It is merged into the object's own copy, which is then written; a failed write takes it back. *)
SaveMetadata(r) ==
  LET b == req[r].bot
      o == req[r].obj
  IN
  /\ req[r].pc = "meta"
  /\ IF Stored(b) THEN /\ objs' = [objs EXCEPT ![b][o].meta = 1 - @]
                       /\ row' = Updated(b, "meta", 1 - objs[b][o].meta)
                  ELSE UNCHANGED <<objs, row>>
  /\ req' = [req EXCEPT ![r] = Idle]
  /\ UNCHANGED <<run, route, hook, chan, mixed, outdated, older, overlap, begun, fails>>

(* setup: the new object shares the map of channels of the one that runs. *)
NewGateway(b, want) ==
  [enabled |-> want.enabled, meta |-> want.meta, deleted |-> FALSE,
   map |-> IF run[b] = 0 THEN Len(objs[b]) + 1 ELSE objs[b][run[b]].map]

Setup(r) ==
  LET b == req[r].bot IN
  /\ req[r].pc = "setup"
  /\ Len(objs[b]) < MaxObj
  /\ objs' = [objs EXCEPT ![b] = Append(@, NewGateway(b, req[r].want))]
  /\ req' = [req EXCEPT ![r].pc = IF req[r].op = "load" THEN "index" ELSE "store", ![r].obj = Len(objs[b]) + 1]
  /\ UNCHANGED <<row, run, route, hook, chan, mixed, outdated, older, overlap, begun, fails>>

(* The provider refuses the settings. *)
SetupFails(r) ==
  /\ req[r].pc = "setup" /\ fails < MaxFails
  /\ fails' = fails + 1
  /\ req' = [req EXCEPT ![r] = Idle]
  /\ UNCHANGED <<row, objs, run, route, hook, chan, mixed, outdated, older, overlap, begun>>

(***************************************************************************)
(* The INSERT of CreateBot, which registers an enabled bot only, or the    *)
(* UPDATE of the fields of UpdateBot, which fails when the row is gone.    *)
(* The provider is told of a bot that is enabled by this request.          *)
(***************************************************************************)
Store(r) ==
  LET b == req[r].bot
      q == req[r]
  IN
  /\ q.pc = "store"
  /\ row' = CASE q.op = "create" -> Created(b, q.want)
              [] q.op = "update" -> Updated(b, q.field, q.want[q.field])
  /\ req' = [req EXCEPT ![r] =
       IF (q.op = "create" /\ ~ q.want.enabled) \/ (q.op = "update" /\ ~ Stored(b))
       THEN Idle
       ELSE [@ EXCEPT !.pc = "index", !.force = q.want.enabled /\ (q.op = "create" \/ q.field = "enabled")]]
  /\ UNCHANGED <<objs, run, route, hook, chan, mixed, outdated, older, overlap, begun, fails>>

(* The object that runs from here on. *)
Current(b, o) == o

(***************************************************************************)
(* Register: the object enters the indexes, and the one it replaces is     *)
(* enabled or disabled as it is.  With force the provider is told next.    *)
(***************************************************************************)
Index(r) ==
  LET b == req[r].bot
      o == req[r].obj
      e == run[b]
  IN
  /\ req[r].pc = "index"
  /\ run' = [run EXCEPT ![b] = Current(b, o)]
  /\ route' = [route EXCEPT ![b] = TRUE]
  /\ objs' = IF e = 0 THEN objs ELSE [objs EXCEPT ![b][e].enabled = objs[b][o].enabled]
  /\ outdated' = [outdated EXCEPT ![b] = @ \/ ~ Stored(b)]
  /\ req' = [req EXCEPT ![r] = IF @.force THEN [@ EXCEPT !.pc = "provider"] ELSE Idle]
  /\ UNCHANGED <<row, hook, chan, mixed, older, overlap, begun, fails>>

Register(r) ==
  /\ req[r].pc = "provider"
  /\ hook' = [hook EXCEPT ![req[r].bot] = TRUE]
  /\ req' = [req EXCEPT ![r] = Idle]
  /\ UNCHANGED <<row, objs, run, route, chan, mixed, outdated, older, overlap, begun, fails>>

(* Remove, if it is still the object that runs. *)
Remove(b, o) ==
  /\ run' = [run EXCEPT ![b] = IF @ = o THEN 0 ELSE @]
  /\ route' = [route EXCEPT ![b] = IF run[b] = o THEN FALSE ELSE @]

RegisterFails(r) ==
  /\ req[r].pc = "provider" /\ fails < MaxFails
  /\ fails' = fails + 1
  /\ Remove(req[r].bot, req[r].obj)
  /\ objs' = IF req[r].op = "update" THEN [objs EXCEPT ![req[r].bot][req[r].obj].enabled = FALSE] ELSE objs
  /\ req' = [req EXCEPT ![r] = Idle]
  /\ UNCHANGED <<row, hook, chan, mixed, outdated, older, overlap, begun>>

(* DeleteBot deletes the row, then stops the gateway, at once or with its last channel. *)
DeleteBot(r, b) ==
  /\ Stored(b)
  /\ row' = Deleted(b)
  /\ Begin(r, "delete", b, "stop", row[b].set, "all", 0)
  /\ UNCHANGED <<objs, run, route, hook, chan, outdated, older, overlap, fails>>

Marked(g) == [g EXCEPT !.enabled = FALSE, !.deleted = TRUE]

(* Deregister takes the route and, if it was there, the webhook; Remove takes the object. *)
Dispose(b, o) ==
  /\ hook' = [hook EXCEPT ![b] = @ /\ ~ route[b]]
  /\ run' = [run EXCEPT ![b] = IF @ = o THEN 0 ELSE @]
  /\ route' = [route EXCEPT ![b] = FALSE]

Stop(r) ==
  LET b == req[r].bot
      o == run[b]
  IN
  /\ req[r].pc = "stop"
  /\ req' = [req EXCEPT ![r] = Idle]
  /\ objs' = IF o = 0 THEN objs ELSE [objs EXCEPT ![b][o] = Marked(@)]
  /\ older' = [older EXCEPT ![b] = \E c \in chan[b] : c # o]
  /\ IF o # 0 /\ Open(b, objs[b][o].map) = {} THEN Dispose(b, o) ELSE UNCHANGED <<hook, run, route>>
  /\ UNCHANGED <<row, chan, mixed, outdated, overlap, begun, fails>>
-----------------------------------------------------------------------------
(* A chat is opened on the gateway that runs, if it is enabled. *)
OpenChannel(b) ==
  /\ run[b] # 0 /\ objs[b][run[b]].enabled
  /\ chan' = [chan EXCEPT ![b] = @ \cup {run[b]}]
  /\ UNCHANGED <<row, objs, run, route, hook, req, mixed, outdated, older, overlap, begun, fails>>

(* Channel.Close: the last channel of a deleted gateway disposes of it. *)
CloseChannel(b, o) ==
  /\ o \in chan[b]
  /\ chan' = [chan EXCEPT ![b] = @ \ {o}]
  /\ IF Open(b, objs[b][o].map) = {o} /\ objs[b][o].deleted
     THEN Dispose(b, o) ELSE UNCHANGED <<hook, run, route>>
  /\ UNCHANGED <<row, objs, req, mixed, outdated, older, overlap, begun, fails>>

(***************************************************************************)
(* The service stops, or dies in the middle of requests: the rows stay,    *)
(* and gateways and chats are loaded again when they are next wanted       *)
(* (onStart loads the ones of the provider "gotd" at once).                *)
(***************************************************************************)
Restart ==
  /\ fails < MaxFails
  /\ fails' = fails + 1
  /\ objs' = [b \in Bot |-> <<>>] /\ run' = [b \in Bot |-> 0] /\ route' = [b \in Bot |-> FALSE]
  /\ chan' = [b \in Bot |-> {}] /\ req' = [r \in Req |-> Idle]
  /\ UNCHANGED <<row, hook, mixed, outdated, older, overlap, begun>>

Next ==
  \/ \E r \in Req, b \in Bot :
       \/ \E want \in [enabled : BOOLEAN, meta : {0}] : CreateBot(r, b, want)
       \/ \E field \in {"enabled", "meta"} : UpdateBot(r, b, field)
       \/ LoadGateway(r, b) \/ DeleteBot(r, b) \/ SetMetadata(r, b)
  \/ \E r \in Req : Setup(r) \/ SetupFails(r) \/ Store(r) \/ SaveMetadata(r)
                    \/ Index(r) \/ Register(r) \/ RegisterFails(r) \/ Stop(r)
  \/ \E b \in Bot : OpenChannel(b) \/ \E o \in 1 .. MaxObj : CloseChannel(b, o)
  \/ Restart

Spec == Init /\ [][Next]_botVars
-----------------------------------------------------------------------------
(***************************************************************************)
(* The bots enabled at one time are within the limit of the licence, as    *)
(* long as no two requests overlap between their check and their write     *)
(* (nothing but the count, taken before, guards the table).                *)
(***************************************************************************)
LimitKept ==
  ~ overlap => ActiveBotsCount <= Limit

(***************************************************************************)
(* When no request is on its way a gateway that runs is configured as the  *)
(* row says, whatever creations, updates, failed registrations and loads   *)
(* came before, as long as they did not overlap.                           *)
(***************************************************************************)
RunsAsStored ==
  \A b \in Bot : ~ Busy(b) /\ ~ mixed[b] /\ Stored(b) /\ run[b] # 0 =>
    /\ objs[b][run[b]].enabled = row[b].set.enabled
    /\ objs[b][run[b]].meta = row[b].set.meta

(***************************************************************************)
(* Gateway.deleted "indicate[s] whether we need to dispose this bot        *)
(* gateway after last channel closed": when a bot is deleted and has no    *)
(* channel left its gateway does not run, unless a request brought an      *)
(* object of the deleted bot in, or a channel was open on an object older  *)
(* than the one that ran at the deletion.                                  *)
(***************************************************************************)
DeletedStops ==
  \A b \in Bot : row[b].st = "gone" /\ ~ Busy(b) /\ chan[b] = {} /\ ~ outdated[b] /\ ~ older[b] => run[b] = 0
===============================================================================
