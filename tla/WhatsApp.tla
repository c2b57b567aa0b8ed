------------------------------- MODULE WhatsApp -------------------------------
(***************************************************************************)
(* WhatsApp in a Facebook bot: the business accounts and their phone       *)
(* numbers (bot/facebook/whatsapp/manager.go), the requests that set up,   *)
(* subscribe, unsubscribe and remove accounts, and the dialogs of          *)
(* customers with the numbers (bot/facebook/whatsapp.go).  The manager     *)
(* keeps an index of accounts and one of the numbers of all of them; the   *)
(* bot's metadata keeps only the ids of the accounts, whose numbers are    *)
(* fetched again from Facebook when the bot is set up.                     *)
(***************************************************************************)
EXTENDS Naturals, Sequences, FiniteSets, SequencesExt

CONSTANTS
  Account,    \* WhatsApp business accounts
  Number,     \* phone numbers
  Customer,   \* WhatsApp users
  Job,        \* requests served at one time
  FirstOffer, \* Facebook: the numbers of each account at first
  MaxJobs,    \* bound on the requests made
  MaxOffers,  \* bound on changes of the numbers of an account
  MaxTalk,    \* bound on messages and replies
  MaxFailsWa  \* bound on failed calls and restarts

VARIABLES
  offer,      \* Facebook: the numbers of an account
  hooked,     \* Facebook: accounts that send us their messages
  accts,      \* Manager.Accounts: id -> the account as fetched last
  nums,       \* Manager.PhoneNumbers: number -> its account
  listed,     \* metadata "wa": the ids saved
  job,        \* the requests
  dialog,     \* the conversations: the number bound and how the channel holds it
  first,      \* the number a conversation's first message was sent to
  from,       \* <<customer, number, number of the first message>> of the last reply
  takenWa, savedWa, \* numbers of the snapshots taken and last saved
  disorderWa, \* an older snapshot was saved over a newer one, or a renewal of the token met another request
  skipped,    \* an eviction loop skipped a number, or stopped in a panic
  jobs, offers, talk, failsWa

waVars == <<offer, hooked, accts, nums, listed, job, dialog, first, from, takenWa, savedWa, disorderWa,
            skipped, jobs, offers, talk, failsWa>>

NoAcct  == "none"
Free    == [pc |-> "idle", op |-> NoAcct, todo |-> {}, got |-> <<>>, snap |-> {}, n |-> 0]
NoTalk  == [num |-> NoAcct, as |-> "none"]
Nobody  == [customer |-> NoAcct, num |-> NoAcct, first |-> NoAcct]
Fetched(a, offers_) == [nums |-> offers_[a], sub |-> a \in hooked]

TypeOK ==
  /\ offer \in [Account -> Seq(Number)] /\ hooked \subseteq Account
  /\ DOMAIN accts \subseteq Account /\ \A a \in DOMAIN accts : Range(accts[a].nums) \subseteq Number
  /\ DOMAIN nums \subseteq Number /\ \A n \in DOMAIN nums : nums[n] \in Account
  /\ listed \subseteq Account
  /\ \A c \in Customer : dialog[c] = NoTalk \/ (dialog[c].num \in Number /\ dialog[c].as \in {"map", "number"})
  /\ jobs \in 0 .. MaxJobs /\ offers \in 0 .. MaxOffers /\ talk \in 0 .. MaxTalk /\ failsWa \in 0 .. MaxFailsWa

Init ==
  /\ offer = FirstOffer /\ hooked = {} /\ accts = <<>> /\ nums = <<>> /\ listed = {}
  /\ job = [j \in Job |-> Free]
  /\ dialog = [c \in Customer |-> NoTalk] /\ first = [c \in Customer |-> NoAcct] /\ from = Nobody
  /\ takenWa = 0 /\ savedWa = 0 /\ disorderWa = FALSE /\ skipped = FALSE
  /\ jobs = 0 /\ offers = 0 /\ talk = 0 /\ failsWa = 0

Without(f, S) == [x \in DOMAIN f \ S |-> f[x]]
-----------------------------------------------------------------------------
(* Faulty variants: numbers stay when their account goes; every message    *)
(* binds the dialog to the number it was sent to; the accounts of the      *)
(* request are saved instead of all.                                       *)
NumbersStay(st, a) == [st EXCEPT !.accts = Without(@, {a})]
BoundAnew(c, n)       == [num |-> n, as |-> "map"]
OnlyAsked(j)         == DOMAIN job[j].got
-----------------------------------------------------------------------------
(***************************************************************************)
(* One round of the loop that evicts the numbers a known account has lost: *)
(* the loop runs over the slice as it was, the deletion moves its items.   *)
(* A number found in the slice but no longer in the account is a nil       *)
(* pointer, and a panic.                                                   *)
(***************************************************************************)
Evict(st, i, keep) ==
  LET n == st.arr[i]
      e == CHOOSE k \in 1 .. st.len : st.arr[k] = n
  IN
  IF st.panic \/ n \in keep THEN st
  ELSE IF \A k \in 1 .. st.len : st.arr[k] # n THEN [st EXCEPT !.panic = TRUE]
  ELSE [st EXCEPT !.arr = [k \in DOMAIN @ |-> IF k >= e /\ k < st.len THEN @[k + 1] ELSE @[k]],
                  !.len = @ - 1, !.nums = Without(@, {n})]

(* register: the account a as fetched, x, replaces the one known. *)
Registered(st, a, x) ==
  LET old == st.accts[a].nums
      ev  == IF a \notin DOMAIN st.accts THEN [nums |-> st.nums, arr |-> <<>>, len |-> 0, panic |-> FALSE]
             ELSE FoldLeft(LAMBDA s, i : Evict(s, i, Range(x.nums)),
                           [arr |-> old, len |-> Len(old), nums |-> st.nums, panic |-> FALSE],
                           [i \in 1 .. Len(old) |-> i])
      left == {ev.arr[k] : k \in 1 .. ev.len} \ Range(x.nums)
  IN
  IF st.panic THEN st
  ELSE IF ev.panic
  THEN [st EXCEPT !.panic = TRUE, !.skipped = TRUE, !.nums = ev.nums,
                  !.accts = (a :> [@[a] EXCEPT !.nums = SubSeq(ev.arr, 1, ev.len)]) @@ @]
  ELSE [st EXCEPT !.nums = [n \in Range(x.nums) |-> a] @@ ev.nums, !.accts = (a :> x) @@ @,
                  !.skipped = @ \/ left # {}]

(* deregister *)
Deregister(st, a) ==
  [st EXCEPT !.nums = Without(@, Range(st.accts[a].nums)), !.accts = Without(@, {a})]

Manager == [accts |-> accts, nums |-> nums, panic |-> FALSE, skipped |-> skipped]

(* whatsAppBackupAccounts: the ids of the accounts registered. *)
Backup(j) == DOMAIN accts

(* whatsAppRestoreAccounts: the accounts saved are fetched, all of them or none. *)
Restored(ok) == IF ok THEN [a \in listed |-> Fetched(a, offer)] ELSE <<>>
-----------------------------------------------------------------------------
Begin(j, rec) ==
  /\ job[j].pc = "idle" /\ jobs < MaxJobs
  /\ jobs' = jobs + 1
  /\ job' = [job EXCEPT ![j] = rec @@ Free]
  /\ disorderWa' = (disorderWa \/ \E i \in Job : job[i].pc # "idle" /\ "renew" \in {rec.op, job[i].op})

(* SetupWhatsAppBusinessAccounts: a user shares the accounts S, which are fetched. *)
Setup(j, S) ==
  /\ Begin(j, [pc |-> "register", op |-> "setup", got |-> [a \in S |-> Fetched(a, offer)]])
  /\ UNCHANGED <<offer, hooked, accts, nums, listed, dialog, first, from, takenWa, savedWa, skipped,
                 offers, talk, failsWa>>

(* Register, in some order of the accounts; a panic ends the request. *)
Register(j) ==
  LET got == job[j].got IN
  /\ job[j].pc = "register"
  /\ \E order \in SetToSeqs(DOMAIN got) :
       LET st == FoldLeft(LAMBDA s, a : Registered(s, a, got[a]), Manager, order) IN
       /\ accts' = st.accts /\ nums' = st.nums /\ skipped' = st.skipped
       /\ job' = [job EXCEPT ![j] = IF st.panic \/ @.op = "renew" THEN Free ELSE [@ EXCEPT !.pc = "backup"]]
  /\ UNCHANGED <<offer, hooked, listed, dialog, first, from, takenWa, savedWa, disorderWa, jobs, offers, talk, failsWa>>

(* The accounts a request names are looked up; none named: all. *)
Sought(ids) == IF ids = {} THEN DOMAIN accts ELSE ids \cap DOMAIN accts

(* RemoveWhatsAppAccounts and the handlers that subscribe and unsubscribe. *)
Ask(j, op, ids) ==
  /\ op = "remove" => ids \subseteq DOMAIN accts
  /\ Sought(ids) # {}
  /\ Begin(j, [pc |-> "post", op |-> op, todo |-> Sought(ids)])
  /\ UNCHANGED <<offer, hooked, accts, nums, listed, dialog, first, from, takenWa, savedWa, skipped,
                 offers, talk, failsWa>>

(* The batch of the accounts that have no subscription yet, or of all to unsubscribe. *)
Batch(j) == IF job[j].op # "subscribe" THEN job[j].todo
            ELSE {a \in job[j].todo : a \in DOMAIN accts => ~ accts[a].sub}

(* The answer: each account has its own result, ok are the ones confirmed. *)
Posted(j, ok) ==
  LET op == job[j].op IN
  /\ job[j].pc = "post" /\ ok \subseteq Batch(j)
  /\ hooked' = IF op = "subscribe" THEN hooked \cup ok ELSE hooked \ ok
  /\ accts' = [a \in DOMAIN accts |-> IF a \in ok THEN [accts[a] EXCEPT !.sub = (op = "subscribe")] ELSE accts[a]]
  /\ job' = [job EXCEPT ![j].pc = IF op = "remove" THEN "deregister" ELSE "backup"]
  /\ UNCHANGED <<offer, nums, listed, dialog, first, from, takenWa, savedWa, disorderWa, skipped,
                 jobs, offers, talk, failsWa>>

(* The batch fails as a whole: nothing is removed; the other requests save all the same. *)
PostFails(j) ==
  /\ job[j].pc = "post" /\ failsWa < MaxFailsWa
  /\ failsWa' = failsWa + 1
  /\ job' = [job EXCEPT ![j] = IF @.op = "remove" THEN Free ELSE [@ EXCEPT !.pc = "backup"]]
  /\ UNCHANGED <<offer, hooked, accts, nums, listed, dialog, first, from, takenWa, savedWa, disorderWa, skipped,
                 jobs, offers, talk>>

Removes(j) ==
  LET st == FoldSet(LAMBDA a, s : Deregister(s, a), Manager, job[j].todo \cap DOMAIN accts) IN
  /\ job[j].pc = "deregister"
  /\ accts' = st.accts /\ nums' = st.nums
  /\ job' = [job EXCEPT ![j].pc = "backup"]
  /\ UNCHANGED <<offer, hooked, listed, dialog, first, from, takenWa, savedWa, disorderWa, skipped,
                 jobs, offers, talk, failsWa>>

TakeBackup(j) ==
  /\ job[j].pc = "backup"
  /\ takenWa' = takenWa + 1
  /\ job' = [job EXCEPT ![j] = [@ EXCEPT !.pc = "save", !.n = takenWa + 1, !.snap = Backup(j)]]
  /\ UNCHANGED <<offer, hooked, accts, nums, listed, dialog, first, from, savedWa, disorderWa, skipped,
                 jobs, offers, talk, failsWa>>

(* Gateway.SetMetadata; its error is not looked at. *)
Save(j, ok) ==
  /\ job[j].pc = "save"
  /\ IF ok
     THEN /\ listed' = job[j].snap /\ savedWa' = job[j].n
          /\ disorderWa' = (disorderWa \/ savedWa > job[j].n) /\ UNCHANGED failsWa
     ELSE /\ failsWa < MaxFailsWa /\ failsWa' = failsWa + 1
          /\ UNCHANGED <<listed, savedWa, disorderWa>>
  /\ job' = [job EXCEPT ![j] = Free]
  /\ UNCHANGED <<offer, hooked, accts, nums, dialog, first, from, takenWa, skipped, jobs, offers, talk>>

(* New with another access token: all accounts are given up, those saved are fetched again. *)
RenewToken(j, ok) ==
  LET st == FoldSet(LAMBDA a, s : Deregister(s, a), Manager, DOMAIN accts) IN
  /\ Begin(j, [pc |-> "register", op |-> "renew", got |-> Restored(ok)])
  /\ IF ok THEN UNCHANGED failsWa ELSE failsWa < MaxFailsWa /\ failsWa' = failsWa + 1
  /\ accts' = st.accts /\ nums' = st.nums
  /\ UNCHANGED <<offer, hooked, listed, dialog, first, from, takenWa, savedWa, skipped, offers, talk>>

(* The process ends and the bot is set up by another; its channels are recovered when needed. *)
Restart(ok) ==
  LET empty == [accts |-> <<>>, nums |-> <<>>, panic |-> FALSE, skipped |-> FALSE]
      got   == Restored(ok)
      st    == FoldSet(LAMBDA a, s : Registered(s, a, got[a]), empty, DOMAIN got)
  IN
  /\ failsWa < MaxFailsWa /\ failsWa' = failsWa + 1
  /\ accts' = st.accts /\ nums' = st.nums /\ skipped' = FALSE
  /\ job' = [j \in Job |-> Free]
  /\ dialog' = [c \in Customer |-> IF dialog[c] = NoTalk THEN NoTalk ELSE [dialog[c] EXCEPT !.as = "map"]]
  /\ UNCHANGED <<offer, hooked, listed, first, from, takenWa, savedWa, disorderWa, jobs, offers, talk>>

(* At Facebook the numbers S leave the account a, for b if that is another one. *)
Reassign(S, a, b) ==
  /\ offers < MaxOffers /\ offers' = offers + 1
  /\ S # {} /\ S \subseteq Range(offer[a])
  /\ offer' = [x \in Account |-> IF x = a THEN SelectSeq(offer[a], LAMBDA n : n \notin S)
                                 ELSE IF x = b THEN offer[b] \o SetToSeq(S) ELSE offer[x]]
  /\ UNCHANGED <<hooked, accts, nums, listed, job, dialog, first, from, takenWa, savedWa, disorderWa, skipped,
                 jobs, talk, failsWa>>
-----------------------------------------------------------------------------
(* whatsAppOnMessages: the number written to, among those registered. *)
Recipient(n) == n \in DOMAIN nums

(* The types of messages looked at. *)
Handled(t) == t \in {"text", "media", "reply", "order"}

(* The call that fails, if any: the media is found, fetched, stored and found to be whole; the message is read. *)
RetrieveMediaURL(bad) == bad # "link"
DownloadMedia(bad)    == RetrieveMediaURL(bad) /\ bad \notin {"fetch", "store", "size"}
MediaRead(t, bad)     == t = "media" /\ DownloadMedia(bad)
ReplyRead(t)          == t = "reply"
Readable(t, bad)      == t = "text" \/ MediaRead(t, bad) \/ ReplyRead(t)
Calls(t) == {"none", "read"} \cup IF t = "media" THEN {"link", "fetch", "store", "size"} ELSE {}

(* What a new conversation stores: the number written to; an old one keeps its own. *)
Bound(c, n) == IF dialog[c] = NoTalk THEN [num |-> n, as |-> "map"] ELSE dialog[c]

(* A message of the customer c to the number n. *)
OnMessage(c, n, t, bad) ==
  /\ talk < MaxTalk /\ talk' = talk + 1
  /\ \E a \in hooked : n \in Range(offer[a])
  /\ IF Recipient(n) /\ Handled(t) /\ Readable(t, bad) /\ bad # "read"
     THEN /\ dialog' = [dialog EXCEPT ![c] = Bound(c, n)]
          /\ first' = IF dialog[c] = NoTalk THEN [first EXCEPT ![c] = n] ELSE first
     ELSE UNCHANGED <<dialog, first>>
  /\ UNCHANGED <<offer, hooked, accts, nums, listed, job, from, takenWa, savedWa, disorderWa, skipped,
                 jobs, offers, failsWa>>

(* whatsAppDialogPhoneNumber: the number held, or the one the stored id leads to. *)
Sender(c) == IF dialog[c].as = "number" \/ dialog[c].num \in DOMAIN nums THEN dialog[c].num ELSE NoAcct

(* The file goes to Facebook first, then the message. *)
UploadMedia(t, bad) == t = "file" /\ bad # "upload"
SendMessage(bad)    == bad # "send"

(* Updates that leave as a message: a greeting is stored as a service message instead. *)
Sent(t, bad) == (t \in {"text", "left", "closed"} \/ UploadMedia(t, bad)) /\ SendMessage(bad)

(* whatsAppSendUpdate *)
SendUpdate(c, t, bad) ==
  /\ talk < MaxTalk /\ talk' = talk + 1
  /\ dialog[c] # NoTalk
  /\ IF Sender(c) = NoAcct THEN UNCHANGED <<dialog, from>>
     ELSE /\ dialog' = [dialog EXCEPT ![c].as = "number"]
          /\ from' = IF Sent(t, bad) THEN [customer |-> c, num |-> Sender(c), first |-> first[c]] ELSE from
  /\ UNCHANGED <<offer, hooked, accts, nums, listed, job, first, takenWa, savedWa, disorderWa, skipped,
                 jobs, offers, failsWa>>

(* The conversation ends. *)
Closed(c) ==
  /\ dialog[c] # NoTalk
  /\ dialog' = [dialog EXCEPT ![c] = NoTalk]
  /\ first' = [first EXCEPT ![c] = NoAcct]
  /\ UNCHANGED <<offer, hooked, accts, nums, listed, job, from, takenWa, savedWa, disorderWa, skipped,
                 jobs, offers, talk, failsWa>>

Next ==
  \/ \E j \in Job :
       \/ \E S \in SUBSET Account : Setup(j, S)
       \/ \E op \in {"subscribe", "unsubscribe", "remove"}, ids \in SUBSET Account : Ask(j, op, ids)
       \/ \E ok \in SUBSET Account : Posted(j, ok)
       \/ \E ok \in BOOLEAN : Save(j, ok) \/ RenewToken(j, ok)
       \/ Register(j) \/ PostFails(j) \/ Removes(j) \/ TakeBackup(j)
  \/ \E ok \in BOOLEAN : Restart(ok)
  \/ \E S \in SUBSET Number, a, b \in Account : Reassign(S, a, b)
  \/ \E c \in Customer :
       \/ \E n \in Number, t \in {"text", "media", "reply", "order", "other"} :
            \E bad \in Calls(t) : OnMessage(c, n, t, bad)
       \/ \E t \in {"text", "file", "joined", "left", "closed", "other"}, bad \in {"none", "upload", "send"} : SendUpdate(c, t, bad)
       \/ Closed(c)

Spec == Init /\ [][Next]_waVars
-----------------------------------------------------------------------------
(***************************************************************************)
(* A number served belongs to an account that is registered and lists it,  *)
(* whatever was shared, fetched again, removed or moved between accounts,  *)
(* as long as no eviction went wrong (see skipped).                        *)
(***************************************************************************)
ServedIsListed ==
  ~ skipped => \A n \in DOMAIN nums : nums[n] \in DOMAIN accts /\ n \in Range(accts[nums[n]].nums)

(***************************************************************************)
(* With no request under way the accounts registered are those saved, so   *)
(* that a restart finds them: unless a call failed, an older snapshot was  *)
(* saved over a newer one, or a new token met another request.             *)
(***************************************************************************)
RegisteredIsSaved ==
  (\A j \in Job : job[j].pc = "idle") /\ failsWa = 0 /\ ~ disorderWa /\ ~ skipped => listed = DOMAIN accts

(***************************************************************************)
(* A reply leaves from the number the customer first wrote to, though the  *)
(* customer may have written to others since, the number may have moved to *)
(* another account, and the process may have been restarted.               *)
(***************************************************************************)
RepliesFromFirst == from.num = from.first

(* Why it holds: a dialog is bound to the number of its first message. *)
BoundToFirst ==
  /\ dialog \in [Customer -> [num : Number \cup {NoAcct}, as : {"none", "map", "number"}]]
  /\ DOMAIN first = Customer
  /\ \A c \in Customer : dialog[c] # NoTalk => dialog[c].num = first[c]

ReplyInv == BoundToFirst /\ RepliesFromFirst
================================================================================
