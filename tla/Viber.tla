-------------------------------- MODULE Viber --------------------------------
(***************************************************************************)
(* The Viber provider (bot/viber): the events of one customer's dialog     *)
(* with the bot, what the chat sends to him, and broadcasts.  Viber posts  *)
(* each event as a request of its own; requests are served in parallel and *)
(* always answered with 200, so a failed one is not repeated.  The chat of *)
(* the customer behind the provider is the gateway's (BotChannel): here    *)
(* it is open or not, and holds what was read into it.                     *)
(***************************************************************************)
EXTENDS Naturals, Sequences, FiniteSets

CONSTANTS
  Event,     \* events under way at one time
  Peer,      \* peers of a broadcast
  MaxEvents, \* bound on events of the customer
  MaxSends,  \* bound on messages sent to him
  MaxFailsVb \* bound on failed calls

VARIABLES
  subscribed, \* may the bot write to the customer?
  open,       \* has he an open chat?
  talk,       \* what was read into it
  ev,         \* ev[e]: the event a request brings
  mixed,      \* was something read between the lookup and the welcome of a new dialog?
  gone,       \* since he left, the chat should be closed: nothing failed or was read since
  cast,       \* a broadcast
  events, sends, failsVb

viberVars == <<subscribed, open, talk, ev, mixed, gone, cast, events, sends, failsVb>>

Kind  == {"started", "message", "left"}
Quiet == [pc |-> "none"]
Row   == [pc : {"post", "hook"}, kind : Kind]

(* What a file is for Viber: its type and size decide how it is sent. *)
Media == {"text", "image", "large", "webp", "document"}

CastRow == [pc : {"caption", "body", "done"}, media : Media, said : BOOLEAN, tried : BOOLEAN,
            caption : SUBSET Peer, body : SUBSET Peer, shown : SUBSET Peer, bodyOk : BOOLEAN, fail : SUBSET Peer, err : BOOLEAN]

TypeOK ==
  /\ subscribed \in BOOLEAN /\ open \in BOOLEAN
  /\ talk \in Seq({"welcome", "message"}) /\ (~open => talk = <<>>)
  /\ ev \in [Event -> Row \cup {Quiet}]
  /\ mixed \in BOOLEAN /\ gone \in BOOLEAN
  /\ cast \in CastRow \cup {Quiet}
  /\ events \in 0 .. MaxEvents /\ sends \in 0 .. MaxSends /\ failsVb \in 0 .. MaxFailsVb

Init ==
  /\ subscribed = FALSE /\ open = FALSE /\ talk = <<>>
  /\ ev = [e \in Event |-> Quiet]
  /\ mixed = FALSE /\ gone = FALSE /\ cast = Quiet
  /\ events = 0 /\ sends = 0 /\ failsVb = 0

(***************************************************************************)
(* The customer opens the dialog, writes (which subscribes him) or leaves. *)
(***************************************************************************)
Post(e, k) ==
  /\ ev[e] = Quiet /\ events < MaxEvents
  /\ k = "left" => subscribed
  /\ ev' = [ev EXCEPT ![e] = [pc |-> "post", kind |-> k]]
  /\ subscribed' = IF k = "started" THEN subscribed ELSE k = "message"
  /\ gone' = (k = "left")
  /\ events' = events + 1
  /\ UNCHANGED <<open, talk, mixed, cast, sends, failsVb>>

(* Channel.IsNew: no conversation has begun. *)
IsNew == ~open

Over(e) == [ev EXCEPT ![e] = Quiet]

(* Mutant: a dialog that is opened again is welcomed again. *)
WelcomeAgain(k) == k = "left" => ~IsNew

(* onNewDialog goes on only with a new channel, onLeftMember with an old one. *)
Wanted(k) ==
  CASE k = "started" -> IsNew
    [] k = "left"    -> ~IsNew
    [] k = "message" -> TRUE

(* Gateway.GetChannel at the start of every handler. *)
GetChannel(e) ==
  /\ ev[e] # Quiet /\ ev[e].pc = "post"
  /\ ev' = IF Wanted(ev[e].kind) THEN [ev EXCEPT ![e].pc = "hook"] ELSE Over(e)
  /\ UNCHANGED <<subscribed, open, talk, mixed, gone, cast, events, sends, failsVb>>

(* onNewDialog, onNewMessage: Gateway.Read starts the conversation, or goes on with it. *)
Read(e) ==
  /\ ev[e] # Quiet /\ ev[e].pc = "hook" /\ ev[e].kind # "left"
  /\ open' = TRUE
  /\ talk' = Append(talk, IF ev[e].kind = "started" THEN "welcome" ELSE "message")
  /\ mixed' = (mixed \/ \E o \in Event \ {e} :
                          ev[o] # Quiet /\ ev[o].kind = "started" /\ ev[o].pc = "hook")
  /\ gone' = FALSE
  /\ ev' = Over(e)
  /\ UNCHANGED <<subscribed, cast, events, sends, failsVb>>

(* onLeftMember: the chat is closed. *)
Close(e) ==
  /\ ev[e] # Quiet /\ ev[e].pc = "hook" /\ ev[e].kind = "left"
  /\ open' = FALSE /\ talk' = <<>>
  /\ ev' = Over(e)
  /\ UNCHANGED <<subscribed, mixed, gone, cast, events, sends, failsVb>>

(* A handler's error is logged and the request answered with 200: the event is lost. *)
HookFails(e) ==
  /\ ev[e] # Quiet /\ failsVb < MaxFailsVb
  /\ ev' = Over(e) /\ gone' = FALSE
  /\ failsVb' = failsVb + 1
  /\ UNCHANGED <<subscribed, open, talk, mixed, cast, events, sends>>

(***************************************************************************)
(* SendNotify: Viber refuses to send to one who is not subscribed (code 6) *)
(* and the chat is then closed.                                            *)
(***************************************************************************)

(* Mutant: the code is not looked at. *)
NeverRefused == FALSE

Refused == ~subscribed

SendNotify ==
  /\ open /\ sends < MaxSends
  /\ IF Refused THEN open' = FALSE /\ talk' = <<>> ELSE UNCHANGED <<open, talk>>
  /\ gone' = (gone \/ ~subscribed)
  /\ sends' = sends + 1
  /\ UNCHANGED <<subscribed, ev, mixed, cast, events, failsVb>>

(* The chat is closed by the others: the customer is told, the gateway forgets it. *)
CloseConversation ==
  /\ open /\ open' = FALSE /\ talk' = <<>>
  /\ UNCHANGED <<subscribed, ev, mixed, gone, cast, events, sends, failsVb>>

(***************************************************************************)
(* BroadcastMessage: a text in one call.  A file's caption goes with the   *)
(* file where Media puts it there, or in a call of its own before it.      *)
(***************************************************************************)
(* Mutant: the size is not compared. *)
AnySize(m) == m \in {"image", "webp", "large"}

Within(m)   == m \in {"image", "webp"}  \* sendFile: main type image or video, size in the limit
WithText(m) == m = "image"              \* Media: one of the types it lists, size in the limit

BroadcastMessage(m, said) ==
  /\ cast = Quiet
  /\ cast' = [pc |-> IF m # "text" /\ said /\ ~Within(m) THEN "caption" ELSE "body",
              media |-> m, said |-> said, tried |-> FALSE, caption |-> {}, body |-> {}, shown |-> {}, bodyOk |-> FALSE,
              fail |-> {}, err |-> FALSE]
  /\ UNCHANGED <<subscribed, open, talk, ev, mixed, gone, events, sends, failsVb>>

(* Viber reaches some peers and lists the others. *)
CastCaption(reached) ==
  /\ cast # Quiet /\ cast.pc = "caption"
  /\ cast' = [cast EXCEPT !.pc = "body", !.tried = TRUE, !.caption = reached, !.fail = Peer \ reached]
  /\ UNCHANGED <<subscribed, open, talk, ev, mixed, gone, events, sends, failsVb>>

(* Mutant: only the first answer is kept. *)
FirstFailures(reached) == cast.fail

(* The answer to the second call is decoded over that to the first. *)
Failures(reached) == Peer \ reached

CastBody(reached) ==
  /\ cast # Quiet /\ cast.pc = "body"
  /\ cast' = [cast EXCEPT !.pc = "done", !.body = reached, !.bodyOk = TRUE, !.fail = Failures(reached),
                !.shown = IF cast.said /\ WithText(cast.media) THEN reached ELSE {}]
  /\ UNCHANGED <<subscribed, open, talk, ev, mixed, gone, events, sends, failsVb>>

(* A call fails: an error, except for a file that follows its caption. *)
CastFails ==
  /\ cast # Quiet /\ cast.pc # "done" /\ failsVb < MaxFailsVb
  /\ cast' = [cast EXCEPT !.pc = "done",
                !.err = (cast.pc = "caption" \/ cast.media = "text" \/ Within(cast.media) \/ ~cast.said)]
  /\ failsVb' = failsVb + 1
  /\ UNCHANGED <<subscribed, open, talk, ev, mixed, gone, events, sends>>

Next ==
  \/ \E e \in Event : (\E k \in Kind : Post(e, k)) \/ GetChannel(e) \/ Read(e) \/ Close(e) \/ HookFails(e)
  \/ SendNotify \/ CloseConversation
  \/ \E m \in Media, said \in BOOLEAN : BroadcastMessage(m, said)
  \/ \E r \in SUBSET Peer : CastCaption(r) \/ CastBody(r)
  \/ CastFails

Spec == Init /\ [][Next]_viberVars
-----------------------------------------------------------------------------
(* A welcome opens a chat and never comes into one that goes on, however often the customer
   opens the dialog, unless another event was read while the welcome was under way. *)
WelcomeFirst == ~mixed => \A i \in DOMAIN talk : talk[i] = "welcome" => i = 1

(* Once a customer has left, his chat ends: by the event, or, when a message of his was read
   after it, by the first message Viber refuses. *)
GoneIsClosed == gone /\ ~subscribed /\ (\A e \in Event : ev[e] = Quiet) => ~open

(* A broadcast that returns no error names every peer its text or file did not reach, if that call
   was answered; those a caption did not reach are named no more. *)
UnreachedNamed == cast # Quiet /\ cast.pc = "done" /\ cast.bodyOk => cast.fail = Peer \ cast.body

(* Every peer of a broadcast whom the file reached sees its caption once, with the file or before it,
   unless the caption's own call did not reach him; but a caption of a small image or video of a type
   that Media does not list is sent to nobody. *)
CaptionOnce ==
  cast # Quiet /\ cast.pc = "done" /\ cast.said /\ cast.media \notin {"text", "webp"} =>
    \A p \in cast.body : (cast.tried \/ p \in cast.shown) /\ ~(p \in cast.caption /\ p \in cast.shown)
-----------------------------------------------------------------------------
(* Why it holds.  A welcome under way finds the chat closed still, as long as nothing is read beside it. *)
Welcomes ==
  ~mixed => /\ \A i \in DOMAIN talk : talk[i] = "welcome" => i = 1
            /\ \A e \in Event : ev[e] # Quiet /\ ev[e].pc = "hook" /\ ev[e].kind = "started" => ~open

(* The event of his leaving is under way while the chat of one who left is open. *)
Leaves == gone /\ ~subscribed /\ open => \E e \in Event : ev[e] # Quiet /\ ev[e].kind = "left"

(* Where the caption goes is settled before the file is sent. *)
Sending ==
  cast # Quiet /\ cast.pc # "done" =>
    /\ cast.body = {} /\ cast.shown = {} /\ ~cast.bodyOk
    /\ cast.pc = "caption" => cast.said /\ ~Within(cast.media)
    /\ cast.pc = "body" /\ cast.said /\ cast.media # "text" =>
         IF Within(cast.media) THEN cast.caption = {} ELSE cast.tried

IInv == TypeOK /\ Welcomes /\ Leaves /\ Sending /\ UnreachedNamed /\ CaptionOnce
=============================================================================
