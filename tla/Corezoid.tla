------------------------------- MODULE Corezoid -------------------------------
(***************************************************************************)
(* The gateway to Corezoid, bot/corezoid: one chat of a customer.  Every   *)
(* reply carries the state of the chat: the customer's latest request and  *)
(* the operator's name.  The state is an object hung on the channel; each  *)
(* webhook replaces it, taking over the operator of the one before, and    *)
(* each notice of the chat service works on the object it found.  The      *)
(* operator is also stored with the channel, for a process that has to     *)
(* recover it.                                                             *)
(***************************************************************************)
EXTENDS Integers, Sequences, FiniteSets

CONSTANTS
  Agent,       \* operators
  Notify,      \* notices served at one time
  MaxState,    \* bound on the state objects made
  MaxNotices,  \* bound on the notices
  MaxCrash     \* bound on restarts

VARIABLES
  states,      \* the state objects: the request, and the operator replies are from
  props,       \* Channel.Properties: none, an object, or what is stored
  started,     \* a conversation is open
  stored,      \* what is stored with the channel: the request, the operator
  incoming,    \* the webhook served
  notice,      \* the notices served
  here,        \* operators whose coming the gateway was told of, and not their leaving
  said,        \* the last reply: its type, who it names
  crossed,     \* a webhook or a notice was served while another one was, or a binding was lost
  made, noticed, crashes

czVars == <<states, props, started, stored, incoming, notice, here, said, crossed, made, noticed, crashes>>

Nobody   == "nobody"
None     == 0
AsStored == -1
Bot      == "bot"
Request  == {"chat", "offer"}
Action   == Request \cup {"closeChat", "other"}
Quiet    == [pc |-> "idle", t |-> "none", a |-> Nobody, o |-> 0]
Silent   == [pc |-> "idle", ev |-> "chat", o |-> 0, copy |-> [id |-> Nobody, name |-> ""], empty |-> FALSE]
Unnamed  == [id |-> Nobody, name |-> ""]

TypeOK ==
  /\ \A o \in DOMAIN states :
       /\ states[o].ev \in Action /\ states[o].id \in Agent \cup {Nobody}
       /\ states[o].name \in Agent \cup {"", Bot}
  /\ props \in -1 .. Len(states) /\ started \in BOOLEAN
  /\ stored.op \in Agent \cup {Nobody} /\ here \subseteq Agent
  /\ made \in 0 .. MaxState /\ noticed \in 0 .. MaxNotices /\ crashes \in 0 .. MaxCrash

Init ==
  /\ states = <<>> /\ props = None /\ started = FALSE /\ stored = [ev |-> "chat", op |-> Nobody]
  /\ incoming = Silent /\ notice = [n \in Notify |-> Quiet]
  /\ here = {} /\ said = [t |-> "none", name |-> "", here |-> {}] /\ crossed = FALSE
  /\ made = 0 /\ noticed = 0 /\ crashes = 0
-----------------------------------------------------------------------------
(* Faulty variants: the name stays when the operator leaves; a new request takes over nothing. *)
NameStays(s, a) == IF s.id = a THEN [s EXCEPT !.id = Nobody] ELSE s
Forgets(latest) == Unnamed
-----------------------------------------------------------------------------
Busy == incoming.pc # "idle" \/ \E n \in Notify : notice[n].pc # "idle"

(* corezoidChannelState with no new request: the object, or one made of what is stored. *)
Recovered == [ev |-> stored.ev, id |-> stored.op, name |-> IF stored.op = Nobody THEN "" ELSE stored.op]

(* The part of the latest state a new request takes over. *)
TakeOver(latest) == [id |-> latest.id, name |-> latest.name]

Latest == IF props = AsStored THEN Recovered ELSE IF props = None THEN Unnamed ELSE states[props]

(* WebHook: a request; the channel is found, the operator of its state is read, *)
WebHook(ev, empty) ==
  /\ incoming.pc = "idle" /\ made < MaxState
  /\ made' = made + 1
  /\ incoming' = [pc |-> "set", ev |-> ev, o |-> Len(states) + 1, copy |-> TakeOver(Latest), empty |-> empty]
  /\ crossed' = (crossed \/ Busy)
  /\ states' = Append(states, [ev |-> ev, id |-> Nobody, name |-> ""])
  /\ UNCHANGED <<props, started, stored, notice, here, said, noticed, crashes>>

(* An answer names the operator, or the bot. *)
Answer(s) == [s EXCEPT !.name = IF @ = "" THEN Bot ELSE @]

(* A request with no text is answered when it is done, with an excuse. *)
Excuse(st, o) ==
  IF incoming.empty /\ st[o].ev \in Request
  THEN LET s == IF st[o].ev = "chat" THEN Answer(st[o]) ELSE st[o] IN
       /\ states' = [st EXCEPT ![o] = s]
       /\ said' = [t |-> "text", name |-> s.name, here |-> here]
  ELSE states' = st /\ UNCHANGED said

(* and the new state takes the place of the old one.  With no text and no conversation, that is all. *)
SetState ==
  LET o  == incoming.o
      st == [states EXCEPT ![o] = [ev |-> incoming.ev, id |-> incoming.copy.id, name |-> incoming.copy.name]]
      goesOn == IF incoming.ev \in Request THEN started \/ ~ incoming.empty ELSE incoming.ev = "closeChat" /\ started
  IN
  /\ incoming.pc = "set"
  /\ props' = o
  /\ IF goesOn THEN states' = st /\ UNCHANGED said ELSE Excuse(st, o)
  /\ incoming' = IF goesOn THEN [incoming EXCEPT !.pc = IF incoming.ev \in Request THEN "read" ELSE "close"] ELSE Silent
  /\ UNCHANGED <<started, stored, notice, here, crossed, made, noticed, crashes>>

(* Gateway.Read: the first message starts a conversation, with the request stored. *)
Read(ok) ==
  /\ incoming.pc = "read"
  /\ started' = (started \/ ok)
  /\ stored' = IF ok /\ ~ started THEN [ev |-> incoming.ev, op |-> Nobody] ELSE stored
  /\ incoming' = Silent
  /\ Excuse(states, incoming.o)
  /\ UNCHANGED <<props, notice, here, crossed, made, noticed, crashes>>

(* Channel.Close at the customer's request: the chat service sends the notice of the end. *)
CloseRequest ==
  /\ incoming.pc = "close"
  /\ incoming' = Silent
  /\ UNCHANGED <<states, props, started, stored, notice, here, said, crossed, made, noticed, crashes>>
-----------------------------------------------------------------------------
(* SendNotify: a notice of the chat service works on the state it finds, *)
Receive(n, t, a) ==
  /\ notice[n].pc = "idle" /\ noticed < MaxNotices /\ started
  /\ t = "left" => a \in here
  /\ noticed' = noticed + 1
  /\ crossed' = (crossed \/ Busy)
  /\ IF props = None THEN UNCHANGED <<states, props, notice>>
     ELSE LET o == IF props = AsStored THEN Len(states) + 1 ELSE props IN
          /\ states' = IF props = AsStored THEN Append(states, Recovered) ELSE states
          /\ props' = o
          /\ notice' = [notice EXCEPT ![n] = [pc |-> "send", t |-> t, a |-> a, o |-> o]]
  /\ UNCHANGED <<started, stored, incoming, here, said, made, crashes>>

(* The first operator to come is the one named, *)
Joined(s, a) == IF s.id # Nobody THEN s ELSE [s EXCEPT !.id = a, !.name = a]

(* until he leaves. *)
Left(s, a) == IF s.id = a THEN [s EXCEPT !.id = Nobody, !.name = ""] ELSE s

Reply(t, s) == said' = [t |-> t, name |-> s.name, here |-> here']

(* The binding of the notice, stored by the chat service unless the call is lost. *)
Bind(op, kept) == /\ stored' = IF kept THEN [stored EXCEPT !.op = op] ELSE stored
                  /\ crossed' = (crossed \/ ~ kept)

(* and sends a reply, as the type of the notice and the latest request ask for. *)
SendNotify(n, kept) ==
  LET w == notice[n] s == states[w.o] IN
  /\ w.pc = "send"
  /\ notice' = [notice EXCEPT ![n] = Quiet]
  /\ here' = IF w.t = "joined" THEN here \cup {w.a} ELSE IF w.t = "left" THEN here \ {w.a} ELSE here
  /\ states' = [states EXCEPT ![w.o] =
       CASE w.t = "text" /\ s.ev = "chat" -> Answer(s)
         [] w.t = "joined"                -> Joined(s, w.a)
         [] w.t = "left"                  -> Left(s, w.a)
         [] w.t = "closed" /\ s.ev \in {"chat", "closeChat"} -> [s EXCEPT !.id = Nobody, !.name = ""]
         [] OTHER                         -> s]
  /\ IF \/ w.t = "text" /\ s.ev \in Request
        \/ w.t = "joined" /\ s.id = Nobody
        \/ w.t = "closed" /\ s.ev \in {"chat", "closeChat"}
     THEN Reply(w.t, states'[w.o]) ELSE UNCHANGED said
  /\ IF w.t = "joined" /\ s.id = Nobody THEN Bind(w.a, kept)
     ELSE IF w.t = "left" /\ s.id = w.a THEN Bind(Nobody, kept)
     ELSE kept /\ UNCHANGED <<stored, crossed>>
  /\ IF w.t = "closed" THEN started' = FALSE /\ props' = None ELSE UNCHANGED <<started, props>>
  /\ UNCHANGED <<incoming, made, noticed, crashes>>

(* Another process: the channel is recovered with what is stored. *)
Restart ==
  /\ crashes < MaxCrash /\ crashes' = crashes + 1
  /\ props' = IF started THEN AsStored ELSE None
  /\ incoming' = Silent /\ notice' = [n \in Notify |-> Quiet]
  /\ UNCHANGED <<states, started, stored, here, said, crossed, made, noticed>>

Next ==
  \/ \E ev \in Action, empty \in BOOLEAN : WebHook(ev, empty)
  \/ SetState \/ CloseRequest
  \/ \E ok \in BOOLEAN : Read(ok)
  \/ \E n \in Notify :
       \/ \E t \in {"text", "closed", "other"} : Receive(n, t, Nobody)
       \/ \E t \in {"joined", "left"}, a \in Agent : Receive(n, t, a)
       \/ \E kept \in BOOLEAN : SendNotify(n, kept)
  \/ Restart

Spec == Init /\ [][Next]_czVars
-----------------------------------------------------------------------------
(***************************************************************************)
(* The operator a reply names is one the gateway was told of and who has   *)
(* not left since, through requests, recoveries and other operators,       *)
(* unless two requests met or a binding was lost.                          *)
(***************************************************************************)
NamedIsHere == ~ crossed => said.name \in {"", Bot} \cup said.here

(***************************************************************************)
(* While an operator is named, the binding stored with the channel is his, *)
(* so that a recovery goes on with the same name.                          *)
(***************************************************************************)
OperatorStored ==
  ~ crossed /\ ~ Busy /\ props > 0 /\ started => states[props].id = stored.op
--------------------------------------------------------------------------------
(* Why it holds.  States, requests and notices are where they are looked for. *)
Placed ==
  /\ states \in Seq([ev : Action, id : Agent \cup {Nobody}, name : Agent \cup {"", Bot}])
  /\ stored \in [ev : Action, op : Agent \cup {Nobody}] /\ crossed \in BOOLEAN
  /\ incoming \in [pc : {"idle", "set", "read", "close"}, ev : Action, o : Nat,
                   copy : [id : Agent \cup {Nobody}, name : Agent \cup {"", Bot}], empty : BOOLEAN]
  /\ notice \in [Notify -> [pc : {"idle", "send"}, t : {"none", "text", "closed", "other", "joined", "left"},
                            a : Agent \cup {Nobody}, o : Nat]]
  /\ incoming.pc # "idle" => incoming.o \in DOMAIN states
  /\ \A n \in Notify : notice[n].pc # "idle" => /\ notice[n].o \in DOMAIN states
                                                /\ notice[n].t \in {"joined", "left"} => notice[n].a \in Agent

(* Of requests that do not meet, one is served at a time, with the latest state. *)
Alone ==
  ~ crossed =>
    /\ incoming.pc = "set" => props # incoming.o /\ incoming.copy = TakeOver(Latest)
    /\ incoming.pc \in {"read", "close"} => props = incoming.o
    /\ \A n \in Notify : notice[n].pc # "idle" =>
         /\ incoming.pc = "idle" /\ props = notice[n].o /\ started
         /\ \A m \in Notify : notice[m].pc # "idle" => m = n

(* The latest state names an operator who is here, the one stored; without a conversation, nobody. *)
Named ==
  ~ crossed =>
    /\ IF Latest.id = Nobody THEN Latest.name \in {"", Bot} ELSE Latest.id \in here /\ Latest.name = Latest.id
    /\ IF started THEN props # None /\ Latest.id = stored.op ELSE props # AsStored /\ Latest.id = Nobody

IInv == TypeOK /\ Placed /\ Alone /\ Named /\ NamedIsHere
================================================================================
