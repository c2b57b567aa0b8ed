------------------------------ MODULE ReadMark ------------------------------
(***************************************************************************)
(* Until when a member has read: chat.channel.updated_at of one member.    *)
(* UpdateChannel (cmd/chat/service.go), the "read" notice of saveMessage,  *)
(* and the statements that store or edit a message, which set the same     *)
(* column.  A handler reads the clock and the row first; what it writes    *)
(* may be older than what is there by then.                                *)
(***************************************************************************)
EXTENDS Naturals

CONSTANTS
  Req,        \* requests of the member the server can be serving
  MaxClock,   \* bound on the clock
  MaxSent     \* bound on the member's own messages

VARIABLES
  seen,       \* updated_at of the member's channel
  told,       \* the last date published to the member's browser tabs, 0: none
  sent,       \* messages of the member in chat.message
  req,        \* req[r]: what the request is about to do
  clock       \* app.CurrentTime

vars == <<seen, told, sent, req, clock>>

Free == [pc |-> "free", till |-> 0]

TypeOK ==
  /\ seen \in 0 .. MaxClock /\ told \in 0 .. MaxClock /\ clock \in 0 .. MaxClock
  /\ sent \in 0 .. MaxSent
  /\ req \in [Req -> [pc : {"free", "store", "edit", "mark", "mark_tell", "tell"}, till : 0 .. MaxClock]]

Init ==
  /\ seen = 0 /\ told = 0 /\ sent = 0 /\ clock = 1
  /\ req = [r \in Req |-> Free]

(* Faulty variant: the statement without its date. *)
AlwaysOlder(till) == TRUE
-----------------------------------------------------------------------------
Go(r, pc, till) == req' = [req EXCEPT ![r] = [pc |-> pc, till |-> till]]
Done(r)        == req' = [req EXCEPT ![r] = Free]

(* Dates a client may ask for: not before what it has read, not in the future; 0 is now. *)
Valid(till)     == till \in seen .. clock
Until(till)     == IF till = 0 THEN clock ELSE till

(* UpdateChannel of the handlers. *)
UpdateChannel(r, till) ==
  /\ req[r] = Free
  /\ till = 0 \/ Valid(till)
  /\ Go(r, "mark_tell", Until(till))
  /\ UNCHANGED <<seen, told, sent, clock>>

(***************************************************************************)
(* A read notice through SendMessage.  A date makes it an edit: it goes on *)
(* only if the lookup without id or binding finds one message, so a member *)
(* with no message or several cannot send one.                             *)
(***************************************************************************)
ReadNotice(r, till) ==
  /\ req[r] = Free
  /\ till = 0 \/ (Valid(till) /\ sent = 1)
  /\ Go(r, "mark", Until(till))
  /\ UNCHANGED <<seen, told, sent, clock>>

(* The statement of UpdateChannel (sqlx/channel.go) moves the mark forward only. *)
Older(till)  == seen < till
Marked(till) == IF Older(till) THEN till ELSE seen

Mark(r) ==
  /\ req[r].pc \in {"mark", "mark_tell"}
  /\ seen' = Marked(req[r].till)
  /\ IF req[r].pc = "mark" THEN Done(r) ELSE Go(r, "tell", req[r].till)
  /\ UNCHANGED <<told, sent, clock>>

(* SendUpdateChannel publishes the date asked for, whatever the row holds. *)
SendUpdateChannel(r) ==
  /\ req[r].pc = "tell"
  /\ told' = req[r].till
  /\ Done(r)
  /\ UNCHANGED <<seen, sent, clock>>

(* saveMessage takes the time, then looks messages up and uploads, then stores. *)
SendMessage(r) ==
  /\ req[r] = Free /\ sent < MaxSent
  /\ Go(r, "store", clock)
  /\ UNCHANGED <<seen, told, sent, clock>>

SaveMessage(r) ==
  /\ req[r].pc = "store"
  /\ seen' = req[r].till
  /\ sent' = IF sent < MaxSent THEN sent + 1 ELSE sent
  /\ Done(r)
  /\ UNCHANGED <<told, clock>>

EditMessage(r) ==
  /\ req[r] = Free /\ sent > 0
  /\ Go(r, "edit", clock)
  /\ UNCHANGED <<seen, told, sent, clock>>

(* The common table expressions mark the channel even if the row is gone. *)
SaveEdit(r) ==
  /\ req[r].pc = "edit"
  /\ seen' = req[r].till
  /\ Done(r)
  /\ UNCHANGED <<told, sent, clock>>

DeleteMessage ==
  /\ sent > 0
  /\ sent' = sent - 1
  /\ UNCHANGED <<seen, told, req, clock>>

Tick ==
  /\ clock < MaxClock
  /\ clock' = clock + 1
  /\ UNCHANGED <<seen, told, sent, req>>

Next ==
  \/ \E r \in Req :
       \/ \E till \in 0 .. MaxClock : UpdateChannel(r, till) \/ ReadNotice(r, till)
       \/ Mark(r) \/ SendUpdateChannel(r)
       \/ SendMessage(r) \/ SaveMessage(r) \/ EditMessage(r) \/ SaveEdit(r)
  \/ DeleteMessage
  \/ Tick

Spec == Init /\ [][Next]_vars
-----------------------------------------------------------------------------
(***************************************************************************)
(* A read mark never goes back, however the requests of a member race; the *)
(* one exception is a message, dated before its upload, that is stored.    *)
(***************************************************************************)
ReadNeverBack ==
  [][seen' >= seen \/ \E r \in Req : req[r].pc \in {"store", "edit"} /\ req'[r] = Free]_vars
=============================================================================
