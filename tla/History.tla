-------------------------------- MODULE History --------------------------------
(***************************************************************************)
(* Reading of messages: Catalog.GetHistory (backward), Catalog.GetUpdates  *)
(* (forward), the history of a case's chat and of a contact, while others  *)
(* write.  One client asks page after page, as the answers tell it.        *)
(* Messages are numbered by the sequence of chat.message when inserted and *)
(* seen by others once their transaction commits.                          *)
(***************************************************************************)
EXTENDS Naturals, Integers, Sequences, FiniteSets, SequencesExt

CONSTANTS
  Form,       \* the messages that may be written: chat, sender, kind, seconds after the one before
  Ask,        \* the requests that a client may begin with
  MaxMsg,     \* bound on the messages
  MaxPage,    \* bound on the pages asked for
  Default     \* DefaultSearchSize

VARIABLES
  msgs,       \* chat.message
  closed,     \* the conversations whose customer's channel is closed
  ask,        \* the request; offset, page and number of calls as they change
  got,        \* ids of the messages received, in their order
  answer,     \* the last answer
  begin,      \* ids of the messages the client shall read: stored at its first call
  late,       \* ids not committed yet when a page passed over them
  shrunk      \* a message has been deleted since the first call

historyVars == <<msgs, closed, ask, got, answer, begin, late, shrunk>>

Chat     == {f.chat : f \in Form}
Who      == {f.who : f \in Form}
Methods  == {"history", "updates", "case", "contact", "contactChat"}
NoAsk    == [method |-> "none", by |-> "id", size |-> 0, peer |-> "none", skip |-> FALSE, from |-> 0, page |-> 0, calls |-> 0]
NoAnswer == [messages |-> <<>>, peers |-> <<>>, chats |-> <<>>, next |-> FALSE, status |-> "none"]

(* What a client may ask for: the ways of the five methods that the proto and the handlers accept. *)
Request ==
  {r \in [method : Methods, by : {"id", "date"}, size : Int, peer : {"chat", "user"}, skip : BOOLEAN,
          from : {0, 1}, page : {1}, calls : {0}] :
     /\ r.method = "case" => r.size = -1 /\ r.peer = "chat" /\ r.by = "id"
     /\ (r.from > 0) <=> (r.method = "updates")
     /\ r.method \in {"contact", "contactChat"} => ~ r.skip /\ r.by = "id"
     /\ r.method = "contactChat" => r.peer = "chat"
     /\ r.method = "contact" => r.peer = "user"}

TypeOK ==
  /\ Len(msgs) <= MaxMsg /\ \A i \in 1 .. Len(msgs) : msgs[i].chat \in Chat /\ msgs[i].state \in {"sent", "stored", "deleted"}
  /\ closed \subseteq Chat
  /\ ask.method \in Methods \cup {"none"} /\ ask.from \in Nat /\ ask.page \in 0 .. MaxPage + 1 /\ ask.calls \in 0 .. MaxPage
  /\ \A i \in 1 .. Len(got) : got[i] \in 1 .. Len(msgs)
  /\ answer.status \in {"none", "ok", "panic", "end"} /\ answer.next \in BOOLEAN
  /\ Len(answer.messages) = Len(answer.chats)
  /\ begin \subseteq 1 .. MaxMsg /\ late \subseteq 1 .. MaxMsg /\ shrunk \in BOOLEAN

Init ==
  /\ Ask \subseteq Request
  /\ msgs = <<>> /\ closed = {}
  /\ ask = NoAsk /\ got = <<>> /\ answer = NoAnswer /\ begin = {} /\ late = {} /\ shrunk = FALSE
-----------------------------------------------------------------------------
(* SearchOptions.GetSize *)
Size(r) == IF r.size < 0 THEN -1 ELSE IF r.size = 0 THEN Default ELSE r.size

(* Faulty variants of the definitions below. *)
BeyondOrAt(r, i)    == r.from = 0 \/ (IF r.method = "updates" THEN i >= r.from ELSE i <= r.from)
LimitExact(r)       == IF r.size < 0 THEN MaxMsg ELSE IF r.size = 0 THEN Default ELSE r.size
AliasFromZero(s, x) == (CHOOSE i \in 1 .. Len(s) : s[i] = x) - 1
PageAll(r)          == IF r.page > 1 /\ r.size > 0 THEN r.page * Size(r) ELSE 0
-----------------------------------------------------------------------------
Stored == {i \in 1 .. Len(msgs) : msgs[i].state = "stored"}

(* thread: the conversations of the peer, each once (GROUP BY). *)
Threads(r) == IF r.peer = "chat" THEN {CHOOSE c \in Chat : \A d \in Chat : c <= d} ELSE Chat

(* thread of a contact: all closed ones, or the one that is asked for. *)
ContactThreads(r) == IF r.method = "contactChat" THEN Threads(r) ELSE closed

(* The messages beyond the offset, by id or by date, backward or for updates forward. *)
Beyond(r, i) ==
  \/ r.from = 0
  \/ r.by = "id"   /\ (IF r.method = "updates" THEN i > r.from ELSE i < r.from)
  \/ r.by = "date" /\ (IF r.method = "updates" THEN msgs[i].date > r.from ELSE msgs[i].date < r.from)

(* exclude.kind *)
Kept(r, i) == r.skip => msgs[i].kind # "k"

(* LIMIT: one more than the page, to learn if there are more; none for all. *)
Limit(r) == IF Size(r) < 0 THEN MaxMsg ELSE Size(r) + 1

(* LIMIT of a contact: none either if a chat is given and no size. *)
ContactLimit(r) == IF r.method = "contactChat" /\ r.size <= 0 THEN MaxMsg ELSE Limit(r)

(* OFFSET of a contact's page. *)
ContactOffset(r) ==
  IF r.page > 1 /\ Size(r) > 0 /\ (r.method = "contactChat" => r.size > 0) THEN (r.page - 1) * Size(r) ELSE 0

(* message: the rows in the order of the answer. *)
Matching(r) == {i \in Stored : msgs[i].chat \in Threads(r) /\ Beyond(r, i) /\ Kept(r, i)}
Ordered(r)  == SetToSortSeq(Matching(r), LAMBDA a, b : IF r.method = "updates" THEN a < b ELSE a > b)
First(s, n) == SubSeq(s, 1, IF Len(s) < n THEN Len(s) ELSE n)
Rows(r)     == First(Ordered(r), Limit(r))

(* message of a contact: the newest conversation first, its messages newest first. *)
ContactOrdered(r) ==
  SetToSortSeq({i \in Stored : msgs[i].chat \in ContactThreads(r)},
               LAMBDA a, b : msgs[a].chat > msgs[b].chat \/ (msgs[a].chat = msgs[b].chat /\ a > b))
ContactRows(r) ==
  LET s == ContactOrdered(r) IN First(SubSeq(s, ContactOffset(r) + 1, Len(s)), ContactLimit(r))

(* sender: one peer for all its channels in the chats of the rows. *)
Peers(rows) == SetToSeq({msgs[i].who : i \in Range(rows)})

(* sender of a contact: all members of the chats of the rows, the bot too. *)
ContactPeers(rows) == IF rows = <<>> THEN <<>> ELSE SetToSeq(Who)

(* The place of a peer in the list of peers, counted from one. *)
Alias(s, x) == CHOOSE i \in 1 .. Len(s) : s[i] = x

(* Each message refers to its sender in the list of peers. *)
Referred(rows, peers) == [k \in 1 .. Len(rows) |-> Alias(peers, msgs[rows[k]].who)]

(* chatMessagesQuery.scanRows *)
ScanRows(rows) ==
  [messages |-> rows, peers |-> Peers(rows), chats |-> Referred(rows, Peers(rows)), next |-> FALSE, status |-> "ok"]

(* The same of a contact's messages. *)
ContactReferred(rows, peers) == [k \in 1 .. Len(rows) |-> Alias(peers, msgs[rows[k]].who)]

(* contactChatMessagesQuery.scanRows *)
ContactScanRows(rows) ==
  [messages |-> rows, peers |-> ContactPeers(rows), chats |-> ContactReferred(rows, ContactPeers(rows)),
   next |-> FALSE, status |-> "ok"]

CutTo(a, n) == [a EXCEPT !.messages = First(@, n), !.chats = First(@, n), !.next = TRUE]

(* Catalog.GetHistory *)
GetHistory(r) ==
  LET a == ScanRows(Rows(r))
  IN IF Size(r) > 0 /\ Len(a.messages) > Size(r) THEN CutTo(a, Size(r)) ELSE a

(* Catalog.GetUpdates leaves the answer as it is, the row beyond the page too. *)
GetUpdates(r) == ScanRows(Rows(r))

(* GetCaseChatHistory asks for all. *)
GetCaseChatHistory(r) == ScanRows(Rows(r))

(* GetContactChatHistory cuts the last message whenever there are more than the size, -1 too. *)
GetContactChatHistory(r) ==
  LET rows == ContactRows(r)
      a    == ContactScanRows(rows)
  IN IF Len(rows) <= Size(r) THEN a
     ELSE IF rows = <<>> THEN [NoAnswer EXCEPT !.status = "panic"]
     ELSE CutTo(a, Len(rows) - 1)
-----------------------------------------------------------------------------
(* A message takes the next number; others do not see it until it is committed. *)
Insert(f) ==
  LET last == IF msgs = <<>> THEN 1 ELSE msgs[Len(msgs)].date
  IN
  /\ Len(msgs) < MaxMsg /\ f.chat \notin closed
  /\ msgs' = Append(msgs, [chat |-> f.chat, who |-> f.who, kind |-> f.kind, date |-> last + f.tick, state |-> "sent"])
  /\ UNCHANGED <<closed, ask, got, answer, begin, late, shrunk>>

Commit(i) ==
  /\ msgs[i].state = "sent"
  /\ msgs' = [msgs EXCEPT ![i].state = "stored"]
  /\ UNCHANGED <<closed, ask, got, answer, begin, late, shrunk>>

DeleteMessage(i) ==
  /\ msgs[i].state = "stored"
  /\ msgs' = [msgs EXCEPT ![i].state = "deleted"]
  /\ begin' = begin \ {i} /\ shrunk' = (ask # NoAsk)
  /\ UNCHANGED <<closed, ask, got, answer, late>>

Close(c) ==
  /\ c \notin closed
  /\ closed' = closed \cup {c}
  /\ UNCHANGED <<msgs, ask, got, answer, begin, late, shrunk>>

(* All that a reading by this request is about. *)
About(r) ==
  {i \in Stored : /\ msgs[i].chat \in IF r.method \in {"contact", "contactChat"} THEN ContactThreads(r) ELSE Threads(r)
                  /\ Beyond(r, i) /\ Kept(r, i)}

Start(r) ==
  /\ ask = NoAsk
  /\ ask' = r
  /\ begin' = About(r)
  /\ UNCHANGED <<msgs, closed, got, answer, late, shrunk>>

(* The offset or the page that the client asks for after an answer. *)
Advance(r, a) ==
  LET last == a.messages[Len(a.messages)]
  IN
  IF r.method \in {"contact", "contactChat"} THEN [r EXCEPT !.page = @ + 1, !.calls = @ + 1]
  ELSE [r EXCEPT !.from = IF a.messages = <<>> THEN @ ELSE IF r.by = "id" THEN last ELSE msgs[last].date,
                 !.page = @ + 1, !.calls = @ + 1]

(* Numbers below the last one that this page could not see. *)
Passed(a) ==
  IF a.messages = <<>> THEN {}
  ELSE {i \in 1 .. Len(msgs) : msgs[i].state = "sent" /\ i < a.messages[Len(a.messages)]}

Call ==
  LET a == CASE ask.method = "history" -> GetHistory(ask)
             [] ask.method = "updates" -> GetUpdates(ask)
             [] ask.method = "case"    -> GetCaseChatHistory(ask)
             [] OTHER                  -> GetContactChatHistory(ask)
  IN
  /\ ask # NoAsk /\ answer.status \notin {"end", "panic"} /\ ask.calls < MaxPage
  /\ got' = got \o a.messages
  /\ answer' = IF a.status = "ok" /\ ~ a.next /\ ask.method # "updates" THEN [a EXCEPT !.status = "end"] ELSE a
  /\ ask' = Advance(ask, a)
  /\ late' = IF ask.method = "updates" THEN late \cup Passed(a) ELSE late
  /\ UNCHANGED <<msgs, closed, begin, shrunk>>

Next ==
  \/ \E f \in Form : Insert(f)
  \/ \E i \in 1 .. Len(msgs) : Commit(i) \/ DeleteMessage(i)
  \/ \E c \in Chat : Close(c)
  \/ \E r \in Ask : Start(r)
  \/ Call

Spec == Init /\ [][Next]_historyVars
-----------------------------------------------------------------------------
(***************************************************************************)
(* A client that has followed GetHistory to the end, or has read a case's  *)
(* chat, has every message that was stored when it began and is not        *)
(* deleted since, whatever was written meanwhile, and none twice.  By      *)
(* dates it may miss those of the very date where a page ends.             *)
(***************************************************************************)
HistoryWhole ==
  ask.method \in {"history", "case"} =>
    /\ IsInjective(got)
    /\ answer.status = "end" =>
         \A i \in begin \ Range(got) : ask.by = "date" /\ \E j \in Range(got) : msgs[j].date = msgs[i].date

(***************************************************************************)
(* A client that polls GetUpdates by ids misses a message only if that was *)
(* not committed yet when a page went beyond its number.                   *)
(***************************************************************************)
MissedOnlyLate ==
  ask.method = "updates" /\ ask.by = "id" =>
    /\ IsInjective(got)
    /\ \A i \in Stored :
         1 < i /\ i <= ask.from /\ msgs[i].chat \in Threads(ask) /\ Kept(ask, i) => i \in Range(got) \cup late

(***************************************************************************)
(* A contact's closed chats, read page by page to the end, are read whole  *)
(* if nothing was deleted meanwhile: the pages are offsets into            *)
(* the rows, and a chat that closes only pushes them further.              *)
(***************************************************************************)
ContactWhole ==
  ask.method = "contact" /\ ask.size >= 0 /\ answer.status = "end" /\ ~ shrunk => begin \subseteq Range(got)

(* Every message of an answer refers to its own sender. *)
SenderNamed ==
  \A k \in 1 .. Len(answer.messages) :
    /\ answer.chats[k] \in 1 .. Len(answer.peers)
    /\ answer.peers[answer.chats[k]] = msgs[answer.messages[k]].who
===============================================================================
