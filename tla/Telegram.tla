------------------------------- MODULE Telegram -------------------------------
(***************************************************************************)
(* The gateway to a Telegram bot, bot/telegram/http: one customer's chat.  *)
(* Telegram delivers an update until the webhook answers 200, several at   *)
(* one time; the customer edits what he sent.  In the other direction the  *)
(* notices of the chat service are sent with the bot API, which may ask    *)
(* to wait, or say that the customer blocked the bot.                      *)
(***************************************************************************)
EXTENDS Naturals, Sequences, FiniteSets

CONSTANTS
  Does,        \* kinds of updates the customer causes
  Hook,        \* webhook requests served at one time
  MaxUpdates,  \* bound on the updates of the customer
  MaxNotices,  \* bound on the notices sent to him
  MaxWaits,    \* bound on the times Telegram asks to wait for one notice
  MaxLost      \* bound on answers of the webhook that are lost, and on failed calls

VARIABLES
  updates,     \* what the customer did: the kind of update, the message, its version
  pending,     \* updates not acknowledged
  webhook,     \* the requests served
  open,        \* a conversation is open, and how many there were
  history,     \* messages stored: of which update, message, version and conversation
  dropped,     \* updates acknowledged though they hold a message that is not stored
  redone,      \* updates stored whose answer was lost
  disturbed,   \* messages of which two updates were on their way at once
  letters,     \* the notices: how far, the error left over, times sent, times waited
  lost

telegramVars == <<updates, pending, webhook, open, history, dropped, redone, disturbed, letters, lost>>

Media   == {"file"}                                \* animation, document, photo, audio, voice, video, note, sticker
Plain   == {"text", "edit", "callback", "contact"} \* a location is a text
Kind    == Media \cup Plain \cup {"other", "member", "kicked", "none"}
Idle    == [pc |-> "idle", u |-> 0]
NoError == "no"
Error   == {NoError, "flood", "blocked", "other", "expired"}

Letter  == [type : {"text", "file", "joined", "closed", "other"}, pc : {"send", "wait", "sent", "failed", "done"},
            err : Error, sent : Nat, waits : Nat]

TypeOK ==
  /\ \A i \in DOMAIN updates : updates[i].kind \in Kind /\ updates[i].mid \in 0 .. MaxUpdates
  /\ pending \subseteq DOMAIN updates /\ dropped \subseteq DOMAIN updates /\ redone \subseteq DOMAIN updates
  /\ \A h \in Hook : webhook[h].u \in DOMAIN updates \cup {0}
  /\ \A i \in DOMAIN history : history[i].u \in DOMAIN updates /\ history[i].conv \in 1 .. open.conv
  /\ \A i \in DOMAIN letters : letters[i] \in Letter
  /\ lost \in 0 .. MaxLost

Init ==
  /\ updates = <<>> /\ pending = {} /\ webhook = [h \in Hook |-> Idle]
  /\ open = [is |-> FALSE, conv |-> 0] /\ history = <<>>
  /\ dropped = {} /\ redone = {} /\ disturbed = {} /\ letters = <<>> /\ lost = 0
-----------------------------------------------------------------------------
(* Faulty variants: a stored message is answered with an error, an edit is stored as a new
   message, a message is sent again whatever the error. *)
AlwaysFails(stored)   == FALSE
EditAppended(u, conv) == history' = Append(history, [u |-> u, mid |-> updates[u].mid, ver |-> updates[u].ver, conv |-> conv])
ResendsAll(l, e)      == IF e = NoError THEN "sent" ELSE IF l.waits < MaxWaits THEN "wait" ELSE "failed"
-----------------------------------------------------------------------------
Serving(u)  == \E h \in Hook : webhook[h].u = u
SameAs(u)   == {v \in DOMAIN updates : updates[v].mid = updates[u].mid /\ updates[v].kind \in {"text", "edit"}}

(* The customer writes, edits his latest text, presses a button, blocks the bot or comes back. *)
Do(kind) ==
  LET n == Len(updates) + 1
      texts == {i \in DOMAIN updates : updates[i].kind = "text"}
      last == CHOOSE i \in texts : \A j \in texts : j <= i IN
  /\ n <= MaxUpdates
  /\ kind = "edit" => texts # {}
  /\ LET mid == IF kind = "edit" THEN updates[last].mid ELSE n IN
     updates' = Append(updates, [kind |-> kind, mid |-> mid, ver |-> n])
  /\ pending' = pending \cup {n}
  /\ disturbed' = IF kind = "edit" /\ \E v \in SameAs(last) : v \in pending THEN disturbed \cup {updates[last].mid} ELSE disturbed
  /\ UNCHANGED <<webhook, open, history, dropped, redone, letters, lost>>

(* Telegram delivers an update that is not acknowledged. *)
Deliver(h, u) ==
  /\ webhook[h].pc = "idle" /\ u \in pending /\ ~ Serving(u)
  /\ webhook' = [webhook EXCEPT ![h] = [pc |-> "decode", u |-> u]]
  /\ UNCHANGED <<updates, pending, open, history, dropped, redone, disturbed, letters, lost>>

Ack(h, u) == pending' = pending \ {u} /\ webhook' = [webhook EXCEPT ![h] = Idle]

(* onMyChatMember "kicked": an open chat is closed. *)
Kicked == [open EXCEPT !.is = FALSE]

(* WebHook: a change of membership, and an update without a message, end here. *)
Decode(h) ==
  LET u == webhook[h].u k == updates[u].kind IN
  /\ webhook[h].pc = "decode"
  /\ IF k \in {"member", "kicked", "none"}
     THEN Ack(h, u) /\ open' = IF k = "kicked" THEN Kicked ELSE open
     ELSE /\ webhook' = [webhook EXCEPT ![h].pc = "channel"]
          /\ UNCHANGED <<pending, open>>
  /\ UNCHANGED <<updates, history, dropped, redone, disturbed, letters, lost>>

(* Answered 200, and not stored. *)
Drop(h, u) == Ack(h, u) /\ dropped' = dropped \cup {u}

(* getChannel: without a channel the customer is told so, and the update acknowledged. *)
GetChannel(h, found) ==
  LET u == webhook[h].u IN
  /\ webhook[h].pc = "channel"
  /\ IF found THEN webhook' = [webhook EXCEPT ![h].pc = "convert"] /\ UNCHANGED <<pending, dropped, lost>>
     ELSE lost < MaxLost /\ lost' = lost + 1 /\ Drop(h, u)
  /\ UNCHANGED <<updates, open, history, redone, disturbed, letters>>

(* The message by its kind: the link of a file is asked for, and a failure ignores the update;
   so does a kind that is not supported. *)
Convert(h, ok) ==
  LET u == webhook[h].u k == updates[u].kind IN
  /\ webhook[h].pc = "convert"
  /\ ~ ok => k \in Media \cup {"other"}
  /\ k = "other" => ~ ok
  /\ IF ok THEN webhook' = [webhook EXCEPT ![h].pc = "read"] /\ UNCHANGED <<pending, dropped, lost>>
     ELSE /\ Drop(h, u)
          /\ IF k = "other" THEN UNCHANGED lost ELSE lost < MaxLost /\ lost' = lost + 1
  /\ UNCHANGED <<updates, open, history, redone, disturbed, letters>>

(* An edit is of the message with its binding in the conversation. *)
Edited(u, conv) == history' = [i \in DOMAIN history |->
  IF history[i].mid = updates[u].mid /\ history[i].conv = conv THEN [history[i] EXCEPT !.ver = updates[u].ver] ELSE history[i]]

(* The code of the answer when Gateway.Read returned: 200, or 500. *)
Answered(stored) == stored

(* Gateway.Read: the first message opens a conversation; an edit of a message that is not in
   the conversation is refused.  An answer that is lost acknowledges nothing. *)
Read(h, ok, heard) ==
  LET u == webhook[h].u
      isEdit == updates[u].kind = "edit"
      conv == IF open.is THEN open.conv ELSE open.conv + 1
      found == \E i \in DOMAIN history : history[i].mid = updates[u].mid /\ history[i].conv = conv
      stored == ok /\ (isEdit => found)
  IN
  /\ webhook[h].pc = "read"
  /\ (~ ok \/ ~ heard) => lost < MaxLost
  /\ lost' = IF ~ ok \/ ~ heard THEN lost + 1 ELSE lost
  /\ open' = IF stored THEN [is |-> TRUE, conv |-> conv] ELSE open
  /\ IF ~ stored THEN UNCHANGED history
     ELSE IF isEdit THEN Edited(u, conv)
     ELSE history' = Append(history, [u |-> u, mid |-> updates[u].mid, ver |-> updates[u].ver, conv |-> conv])
  /\ IF Answered(stored) /\ heard THEN Ack(h, u) ELSE webhook' = [webhook EXCEPT ![h] = Idle] /\ UNCHANGED pending
  /\ redone' = IF stored /\ ~ heard THEN redone \cup {u} ELSE redone
  /\ UNCHANGED <<updates, dropped, disturbed, letters>>
-----------------------------------------------------------------------------
(* SendNotify: a notice is made into a message of the bot; "joined" is stored as a message of
   the service instead, and other types are ignored. *)
SendNotify(type) ==
  /\ Len(letters) < MaxNotices /\ open.is
  /\ letters' = Append(letters, [type |-> type, pc |-> IF type \in {"joined", "other"} THEN "done" ELSE "send",
                                 err |-> NoError, sent |-> 0, waits |-> 0])
  /\ open' = IF type = "closed" THEN [open EXCEPT !.is = FALSE] ELSE open
  /\ UNCHANGED <<updates, pending, webhook, history, dropped, redone, disturbed, lost>>

(* What an error of the API leads to: Telegram says how long to wait, or the notice fails. *)
OnError(l, e) ==
  CASE e = NoError                          -> "sent"
    [] e = "flood" /\ l.waits < MaxWaits    -> "wait"
    [] OTHER                                -> "failed"

(* 403: the channel is closed. *)
Blocked == [open EXCEPT !.is = FALSE]

(* One turn of the loop: a file is announced with an action first, whose error takes the place
   of the one left over; a text is not, and is sent only if no error is left over. *)
Try(n, actionErr, sendErr) ==
  LET l == letters[n]
      err == IF l.type = "file" THEN actionErr ELSE l.err
      e == IF err = NoError THEN sendErr ELSE err
  IN
  /\ l.pc = "send"
  /\ l.type # "file" => actionErr = NoError
  /\ err # NoError => sendErr = NoError
  /\ e = "flood" => l.waits < MaxWaits
  /\ letters' = [letters EXCEPT ![n] = [l EXCEPT !.pc = OnError(l, e), !.err = e, !.sent = IF err = NoError /\ sendErr \in {NoError, "other"} THEN @ + 1 ELSE @]]
  /\ open' = IF e = "blocked" THEN Blocked ELSE open
  /\ UNCHANGED <<updates, pending, webhook, history, dropped, redone, disturbed, lost>>

(* The wait ends, or the request's time does. *)
Waited(n, inTime) ==
  LET l == letters[n] IN
  /\ l.pc = "wait"
  /\ letters' = [letters EXCEPT ![n] = IF inTime THEN [l EXCEPT !.pc = "send", !.waits = @ + 1]
                                                 ELSE [l EXCEPT !.pc = "failed", !.err = "expired"]]
  /\ UNCHANGED <<updates, pending, webhook, open, history, dropped, redone, disturbed, lost>>

Next ==
  \/ \E k \in Does : Do(k)
  \/ \E h \in Hook :
       \/ \E u \in pending : Deliver(h, u)
       \/ Decode(h)
       \/ \E ok \in BOOLEAN : GetChannel(h, ok) \/ Convert(h, ok)
       \/ \E ok, heard \in BOOLEAN : Read(h, ok, heard)
  \/ \E type \in {"text", "file", "joined", "closed", "other"} : SendNotify(type)
  \/ \E n \in DOMAIN letters :
       \/ \E a, s \in {NoError, "flood", "blocked", "other"} : Try(n, a, s)
       \/ \E inTime \in BOOLEAN : Waited(n, inTime)

Spec == Init /\ [][Next]_telegramVars
-----------------------------------------------------------------------------
Copies(u) == {i \in DOMAIN history : history[i].u = u}

(***************************************************************************)
(* An update the webhook acknowledged is in the history once, however many *)
(* times it was delivered; twice only if the answer to it was lost, not at *)
(* all only if it was dropped on purpose.                                  *)
(***************************************************************************)
AckedStoredOnce ==
  \A u \in DOMAIN updates : updates[u].kind \in {"text", "callback", "contact", "file"} =>
    /\ u \notin pending => Copies(u) # {} \/ u \in dropped
    /\ u \notin redone => Cardinality(Copies(u)) <= 1

(***************************************************************************)
(* The history shows a message with the newest text Telegram was told is   *)
(* taken, unless two versions of it were under way at once.                *)
(***************************************************************************)
NewestShown ==
  \A i \in DOMAIN history : LET m == history[i].mid IN
    updates[history[i].u].kind = "text" /\ m \notin disturbed /\ history[i].u \notin redone =>
      \A v \in SameAs(history[i].u) : v \notin pending /\ v \notin dropped => history[i].ver >= updates[v].ver

(***************************************************************************)
(* A notice reaches the customer at most once, through the waits Telegram  *)
(* asks for: an error that leaves it open whether the message was sent     *)
(* ends the attempts.                                                      *)
(***************************************************************************)
SentAtMostOnce == \A n \in DOMAIN letters : letters[n].sent <= 1
--------------------------------------------------------------------------------
(* Why it holds.  An update under way is pending, and served once at a time. *)
Serves ==
  /\ webhook \in [Hook -> [pc : {"idle", "decode", "channel", "convert", "read"}, u : Nat]]
  /\ \A h \in Hook : webhook[h].pc # "idle" => /\ webhook[h].u \in pending
                                               /\ \A g \in Hook : webhook[g].u = webhook[h].u => g = h
  /\ \A h \in Hook : webhook[h].pc = "idle" => webhook[h].u = 0

(* Edits are of a text before them; what is stored is of no edit. *)
Numbered ==
  /\ updates \in Seq([kind : Kind, mid : Nat, ver : Nat])
  /\ \A i \in DOMAIN updates :
       /\ updates[i].ver = i /\ updates[i].mid \in 1 .. i
       /\ updates[i].kind # "edit" => updates[i].mid = i
       /\ updates[i].kind = "edit" => updates[updates[i].mid].kind = "text"
  /\ history \in Seq([u : Nat, mid : Nat, ver : Nat, conv : Nat])
  /\ \A i \in DOMAIN history : history[i].mid = updates[history[i].u].mid /\ updates[history[i].u].kind # "edit"
  /\ open \in [is : BOOLEAN, conv : Nat]

(* A message stored is acknowledged, and not stored again, unless the answer was lost. *)
Settled ==
  /\ \A u \in DOMAIN updates : updates[u].kind \in {"text", "callback", "contact", "file"} /\ u \notin pending =>
       u \in dropped \/ \E i \in DOMAIN history : history[i].u = u
  /\ \A i \in DOMAIN history : history[i].u \notin redone =>
       history[i].u \notin pending /\ \A j \in DOMAIN history : history[j].u = history[i].u => j = i

(* Of the versions of an undisturbed message only the newest is under way. *)
InOrder ==
  \A v, w \in DOMAIN updates : v < w /\ updates[v].mid = updates[w].mid /\ updates[v].mid \notin disturbed => v \notin pending

(* A notice that will be tried again did not reach the customer. *)
Unsent ==
  /\ letters \in Seq(Letter)
  /\ \A n \in DOMAIN letters : letters[n].sent <= 1 /\ (letters[n].pc \in {"send", "wait"} => letters[n].sent = 0)

IInv == TypeOK /\ Serves /\ Numbered /\ Settled /\ InOrder /\ NewestShown /\ Unsent
================================================================================
