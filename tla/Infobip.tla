-------------------------------- MODULE Infobip --------------------------------
(***************************************************************************)
(* WhatsApp through Infobip (bot/whatsapp/infobip).  Infobip posts batches *)
(* of messages written by customers to any of the numbers of the business, *)
(* and posts a batch again unless 200 is answered.  The number a new chat  *)
(* was opened with is kept in the channel's properties, which are stored   *)
(* with the chat, and answers go out from it: the channel is found in      *)
(* memory, or made again from the stored chat after a restart.             *)
(***************************************************************************)
EXTENDS Naturals, Sequences, FiniteSets

CONSTANTS
  Customer, Number,
  Batch,     \* posts: sequences of updates [from, to, kind]
  MaxObj,    \* bound on channel objects
  MaxPosts,  \* bound on requests of Infobip
  MaxFailsIb \* bound on failed calls

None   == "none"
NoChat == [id |-> 0, num |-> None]

VARIABLES
  number,    \* App.number: the sender set in the bot's profile
  hook,      \* hook[b]: the request that brings b
  ackedIb,   \* batches answered with 200
  againIb,   \* batches posted again after some of it was read
  obj,       \* Channel objects: [who, num, conv]
  external,  \* Gateway.external: the object of a customer, 0 when there is none
  conv,      \* the open chat of a customer with its stored number
  opened,    \* the number to which the message that opened the chat was written
  convs,     \* chats made so far
  stale,     \* customers whose chat was opened with an object of an earlier one
  readIb,    \* messages stored: batch, place in it, chat and form
  sentIb,    \* answers: customer, number, and the number that opened the chat
  postsIb, failsIb

infobipVars == <<number, hook, ackedIb, againIb, obj, external, conv, opened, convs, stale,
                 readIb, sentIb, postsIb, failsIb>>

Idle == [pc |-> "away"]
Row  == [pc : {"lookup", "media", "read"}, i : Nat, o : 0 .. MaxObj, form : {"text", "file", "contact"}]
Obj  == [who : Customer, num : Number \cup {None}, conv : Nat]

(* Types; an object in the map is the one of the customer under whom it is found. *)
TypeOK ==
  /\ number \in Number \cup {None}
  /\ hook \in [Batch -> Row \cup {Idle}] /\ ackedIb \subseteq Batch /\ againIb \subseteq Batch
  /\ \A o \in DOMAIN obj : obj[o] \in Obj
  /\ external \in [Customer -> 0 .. Len(obj)]
  /\ \A c \in Customer : external[c] # 0 => obj[external[c]].who = c
  /\ conv \in [Customer -> [id : 1 .. convs, num : Number] \cup {NoChat}]
  /\ opened \in [Customer -> Number \cup {None}] /\ stale \subseteq Customer
  /\ \A s \in sentIb : s \in [who : Customer, from : Number, opened : Number]
  /\ postsIb \in 0 .. MaxPosts /\ failsIb \in 0 .. MaxFailsIb

Init ==
  /\ number = None /\ hook = [b \in Batch |-> Idle] /\ ackedIb = {} /\ againIb = {}
  /\ obj = <<>> /\ external = [c \in Customer |-> 0]
  /\ conv = [c \in Customer |-> NoChat] /\ opened = [c \in Customer |-> None]
  /\ convs = 0 /\ stale = {} /\ readIb = <<>> /\ sentIb = {} /\ postsIb = 0 /\ failsIb = 0

(* New with the running App as state: the profile was changed, the App is used on. *)
New(n) ==
  /\ number' = n /\ number # n
  /\ UNCHANGED <<hook, ackedIb, againIb, obj, external, conv, opened, convs, stale,
                 readIb, sentIb, postsIb, failsIb>>

(***************************************************************************)
(* WebHook.                                                                *)
(***************************************************************************)

Posted(b) ==
  /\ hook[b] = Idle /\ b \notin ackedIb /\ postsIb < MaxPosts
  /\ hook' = [hook EXCEPT ![b] = [pc |-> "lookup", i |-> 1, o |-> 0, form |-> "text"]]
  /\ againIb' = IF \E k \in DOMAIN readIb : readIb[k].b = b THEN againIb \cup {b} ELSE againIb
  /\ postsIb' = postsIb + 1
  /\ UNCHANGED <<number, ackedIb, obj, external, conv, opened, convs, stale, readIb, sentIb, failsIb>>

At(b, pc) == hook[b] # Idle /\ hook[b].pc = pc /\ hook[b].i <= Len(b)
Upd(b)    == b[hook[b].i]

(* The object a lookup ends with: the one in memory, one made again from the stored chat, a new one. *)
Looked(c) ==
  IF external[c] # 0 THEN obj[external[c]]
  ELSE IF conv[c] # NoChat THEN [who |-> c, num |-> conv[c].num, conv |-> conv[c].id]
  ELSE [who |-> c, num |-> None, conv |-> 0]

(* Mutant: every message sets the number. *)
BoundEach(ob, to) == [ob EXCEPT !.num = to]

(* A channel without a chat gets the number the message was written to. *)
Bound(ob, to) == IF ob.conv = 0 THEN [ob EXCEPT !.num = to] ELSE ob

(* An update without message and one of a type not handled are passed over. *)
Skipped(u) == u.kind \in {"none", "odd"}

FormOf(u) == CASE u.kind \in {"text", "place", "button"} -> "text"
               [] u.kind = "contact" -> "contact"
               [] OTHER -> "file"

(* The channel is found and bound; then a file has to be fetched first. *)
GetChannel(b) ==
  /\ At(b, "lookup") /\ Upd(b).kind # "none"
  /\ LET c  == Upd(b).from
         ob == Bound(Looked(c), Upd(b).to)
         o  == IF external[c] # 0 THEN external[c] ELSE Len(obj) + 1 IN
     /\ o <= MaxObj
     /\ obj' = IF o \in DOMAIN obj THEN [obj EXCEPT ![o] = ob] ELSE Append(obj, ob)
     /\ external' = [external EXCEPT ![c] = o]
     /\ hook' = IF Skipped(Upd(b)) THEN [hook EXCEPT ![b].i = @ + 1]
                ELSE [hook EXCEPT ![b].o = o, ![b].form = FormOf(Upd(b)),
                                  ![b].pc = IF FormOf(Upd(b)) = "file" THEN "media" ELSE "read"]
  /\ UNCHANGED <<number, ackedIb, againIb, conv, opened, convs, stale, readIb, sentIb, postsIb, failsIb>>

NoMessage(b) ==
  /\ At(b, "lookup") /\ Upd(b).kind = "none"
  /\ hook' = [hook EXCEPT ![b].i = @ + 1]
  /\ UNCHANGED <<number, ackedIb, againIb, obj, external, conv, opened, convs, stale,
                 readIb, sentIb, postsIb, failsIb>>

(* forwardFile: the file is stored, or the message becomes a text that says why it was not. *)
ForwardFile(b, ok) ==
  /\ At(b, "media")
  /\ hook' = [hook EXCEPT ![b].pc = "read", ![b].form = IF ok THEN "file" ELSE "text"]
  /\ UNCHANGED <<number, ackedIb, againIb, obj, external, conv, opened, convs, stale,
                 readIb, sentIb, postsIb, failsIb>>

(* Gateway.Read: the chat is started for a channel without one and for one whose chat was closed. *)
Read(b) ==
  /\ At(b, "read")
  /\ LET o  == hook[b].o
         c  == obj[o].who
         on == obj[o].conv # 0 /\ conv[c] # NoChat /\ conv[c].id = obj[o].conv
         id == IF on THEN conv[c].id ELSE convs + 1 IN
     /\ obj' = [obj EXCEPT ![o].conv = id]
     /\ conv' = [conv EXCEPT ![c] = [id |-> id, num |-> IF on THEN conv[c].num ELSE obj[o].num]]
     /\ opened' = IF on THEN opened ELSE [opened EXCEPT ![c] = Upd(b).to]
     /\ convs' = IF on THEN convs ELSE convs + 1
     /\ external' = IF on THEN external ELSE [external EXCEPT ![c] = o]
     /\ stale' = IF on THEN stale
                 ELSE IF obj[o].conv # 0 \/ obj[o].num # Upd(b).to THEN stale \cup {c} ELSE stale \ {c}
     /\ readIb' = Append(readIb, [b |-> b, i |-> hook[b].i, form |-> hook[b].form])
  /\ hook' = [hook EXCEPT ![b].i = @ + 1, ![b].pc = "lookup"]
  /\ UNCHANGED <<number, ackedIb, againIb, sentIb, postsIb, failsIb>>

(* Mutant: a message that cannot be delivered is passed over. *)
GoesOn(b) == [hook EXCEPT ![b].i = @ + 1, ![b].pc = "lookup"]

(* 502: the rest of the batch is left, and Infobip posts all of it again. *)
BadGateway(b) == [hook EXCEPT ![b] = Idle]

Fails(b) ==
  /\ At(b, "lookup") \/ At(b, "read")
  /\ failsIb < MaxFailsIb /\ failsIb' = failsIb + 1
  /\ hook' = BadGateway(b)
  /\ UNCHANGED <<number, ackedIb, againIb, obj, external, conv, opened, convs, stale, readIb, sentIb, postsIb>>

StatusOK(b) ==
  /\ hook[b] # Idle /\ hook[b].i > Len(b)
  /\ hook' = [hook EXCEPT ![b] = Idle] /\ ackedIb' = ackedIb \cup {b}
  /\ UNCHANGED <<number, againIb, obj, external, conv, opened, convs, stale, readIb, sentIb, postsIb, failsIb>>

(***************************************************************************)
(* SendNotify.                                                             *)
(***************************************************************************)

(* quickReplies: the first three buttons that reply, the others have no use here. *)
QuickReplies(n) == IF n > 3 THEN 3 ELSE n

(* What is sent of a note with a file, a text and n reply buttons; nothing when buttons have no text. *)
Content(file, text, n) ==
  IF QuickReplies(n) # 0 THEN (IF text THEN "buttons" ELSE "ignored")
  ELSE IF file THEN "media" ELSE IF text THEN "text" ELSE "ignored"

(* The number of the channel's properties; that of the profile is for a channel without any. *)
From(ob) == ob.num

(* The open chat has something to send: the gateway finds the channel or makes it again. *)
SendNotify(c, file, text, n) ==
  /\ conv[c] # NoChat /\ Content(file, text, n) # "ignored"
  /\ LET o == IF external[c] # 0 THEN external[c] ELSE Len(obj) + 1 IN
     /\ o <= MaxObj
     /\ obj' = IF o \in DOMAIN obj THEN obj ELSE Append(obj, Looked(c))
     /\ external' = [external EXCEPT ![c] = o]
  /\ sentIb' = sentIb \cup (IF c \in stale THEN {} ELSE
                {[who |-> c, from |-> From(Looked(c)), opened |-> opened[c]]})
  /\ UNCHANGED <<number, hook, ackedIb, againIb, conv, opened, convs, stale, readIb, postsIb, failsIb>>

(***************************************************************************)
(* The chat and the gateway's process.                                     *)
(***************************************************************************)

(* The chat is closed; the notice takes the channel from the map, unless it is lost. *)
CloseConversation(c, lost) ==
  /\ conv[c] # NoChat /\ conv' = [conv EXCEPT ![c] = NoChat]
  /\ IF lost THEN failsIb < MaxFailsIb /\ failsIb' = failsIb + 1 /\ UNCHANGED external
     ELSE external' = [external EXCEPT ![c] = 0] /\ UNCHANGED failsIb
  /\ UNCHANGED <<number, hook, ackedIb, againIb, obj, opened, convs, stale, readIb, sentIb, postsIb>>

(* The process ends and starts again with nothing in memory. *)
Restart ==
  /\ failsIb < MaxFailsIb /\ failsIb' = failsIb + 1
  /\ external' = [c \in Customer |-> 0] /\ hook' = [b \in Batch |-> Idle]
  /\ UNCHANGED <<number, ackedIb, againIb, obj, conv, opened, convs, stale, readIb, sentIb, postsIb>>

Next ==
  \/ \E n \in Number : New(n)
  \/ \E b \in Batch : Posted(b) \/ GetChannel(b) \/ NoMessage(b) \/ Read(b) \/ Fails(b) \/ StatusOK(b)
  \/ \E b \in Batch, ok \in BOOLEAN : ForwardFile(b, ok)
  \/ \E c \in Customer, file, text \in BOOLEAN, n \in {0, 1, 4} : SendNotify(c, file, text, n)
  \/ \E c \in Customer, lost \in BOOLEAN : CloseConversation(c, lost)
  \/ Restart

Spec == Init /\ [][Next]_infobipVars
--------------------------------------------------------------------------------
TimesRead(b, i) == Cardinality({k \in DOMAIN readIb : readIb[k].b = b /\ readIb[k].i = i})

(* A batch answered with 200 has every message that can be handled in the chats, whichever call of the
   WebHook failed before; and a message is there twice only if its batch was posted again. *)
BatchWhole ==
  \A b \in Batch : \A i \in {j \in DOMAIN b : ~Skipped(b[j])} :
    /\ b \in ackedIb => TimesRead(b, i) >= 1
    /\ b \notin againIb => TimesRead(b, i) <= 1

(* A customer who writes to several numbers of the business is answered from the one with which he
   opened the chat, also after the gateway was restarted or its profile changed. *)
AnsweredFromOpened == \A s \in sentIb : s.from = s.opened
--------------------------------------------------------------------------------
(* Why it holds.  A chat is open with an object of its own, bound to the number that opened it. *)
Bindings ==
  /\ obj \in Seq([who : Customer, num : Number, conv : Nat]) /\ Len(obj) <= MaxObj /\ convs \in Nat
  /\ \A b \in Batch : hook[b] # Idle => /\ hook[b].i >= 1
                                        /\ hook[b].pc \in {"media", "read"} => hook[b].o \in DOMAIN obj
  /\ \A c \in Customer : conv[c] # NoChat =>
       /\ opened[c] \in Number /\ (external[c] # 0 => obj[external[c]].conv # 0)
       /\ c \notin stale => /\ conv[c].num = opened[c]
                            /\ external[c] # 0 => obj[external[c]].num = opened[c]

IsRead(b, i) == \E k \in DOMAIN readIb : readIb[k].b = b /\ readIb[k].i = i

(* The messages before the one at work are read, *)
Behind ==
  /\ \A b \in Batch : hook[b] # Idle => \A i \in 1 .. hook[b].i - 1 : i \in DOMAIN b /\ ~Skipped(b[i]) => IsRead(b, i)
  /\ \A b \in ackedIb : \A i \in DOMAIN b : ~Skipped(b[i]) => IsRead(b, i)

(* once, and no other, unless the batch was posted again. *)
Once ==
  /\ readIb \in Seq([b : Batch, i : Nat, form : {"text", "file", "contact"}])
  /\ \A b \in Batch \ againIb :
       /\ \A j, k \in DOMAIN readIb : readIb[j].b = b /\ readIb[k].b = b /\ readIb[j].i = readIb[k].i => j = k
       /\ hook[b] # Idle => \A j \in DOMAIN readIb : readIb[j].b = b => readIb[j].i < hook[b].i

IInv == TypeOK /\ Bindings /\ AnsweredFromOpened /\ Behind /\ Once
================================================================================
