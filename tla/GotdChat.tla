------------------------------- MODULE GotdChat -------------------------------
(***************************************************************************)
(* The chats of a Telegram application, bot/telegram/gotd: messages of     *)
(* customers, whose files are fetched from Telegram part by part and       *)
(* streamed to the storage service, and broadcasts, whose recipients are   *)
(* resolved first and sent to after that.  Telegram answers any call with  *)
(* the answer, an error, a request to wait (flood) or a timeout; the last  *)
(* two are tried again.                                                    *)
(***************************************************************************)
EXTENDS Naturals, Sequences, FiniteSets, Functions

CONSTANTS
  Letter,       \* messages that may come: what they hold and the size of it
  Cast,         \* broadcasts: sequences of recipients as asked for
  PeerOf,       \* Telegram: the peer of a recipient, "none" for nobody
  Part,         \* size of a part (512 KB)
  MaxLetters, MaxNotes, MaxWaits

VARIABLES
  letters,      \* messages so far
  cur,          \* the message being handled
  chat,         \* messages the chat service has, with the bytes of their files
  readTo,       \* messages marked read, up to this one
  told,         \* files refused by the policy of which the chat was told
  notes,        \* notices for customers: what, where, shown to the customer, made of which
  cast,         \* the broadcast: recipients, where it is, resolved, sent, failures
  waits

gotdVars == <<letters, cur, chat, readTo, told, notes, cast, waits>>

Idle  == [pc |-> "idle", m |-> 0, what |-> "none", size |-> 0, off |-> 0, up |-> 0]
NoCast == [peers |-> <<>>, pc |-> "idle", id |-> 1, tries |-> 0, input |-> <<>>, sent |-> <<>>, failure |-> <<>>]

TypeOK ==
  /\ letters \in 0 .. MaxLetters /\ readTo \in 0 .. letters /\ waits \in 0 .. MaxWaits
  /\ cur.pc \in {"idle", "peer", "channel", "convert", "fetch", "push", "close", "read"}
  /\ cur.up <= cur.off /\ (cur.pc # "push" => cur.up = cur.off)
  /\ \A c \in chat : c.m \in 1 .. letters
  /\ \A i \in DOMAIN notes : notes[i].pc \in {"resolve", "upload", "send", "done", "failed", "passed"}
  /\ cast.pc \in {"idle", "resolve", "send", "done"}

Init == letters = 0 /\ cur = Idle /\ chat = {} /\ readTo = 0 /\ told = 0 /\ notes = <<>> /\ cast = NoCast /\ waits = 0

(* A flood, waited for, or a timeout. *)
Wait == waits < MaxWaits /\ waits' = waits + 1
-----------------------------------------------------------------------------
(* Faulty variants: a full part is taken for the last; a failure is not reported; a new member is saved and sent. *)
LastIfAny(got)  == got <= Part
NotReported(c)  == [c EXCEPT !.id = @ + 1, !.tries = 0]
SentToo(i)      == Append([notes EXCEPT ![i].pc = "done", ![i].shown = TRUE],
                          [what |-> "text", pc |-> "resolve", shown |-> FALSE, of |-> i])
-----------------------------------------------------------------------------
outward == <<notes, cast, waits>>

(* onNewMessage: a message of the account itself, or of no user, is passed over. *)
OnNewMessage(l) ==
  /\ cur.pc = "idle" /\ letters < MaxLetters
  /\ letters' = letters + 1
  /\ cur' = IF l.what = "out" THEN cur
            ELSE [Idle EXCEPT !.pc = "peer", !.m = letters + 1, !.what = l.what, !.size = l.size]
  /\ UNCHANGED <<chat, readTo, told, outward>>

(* The sender may be unknown, or a bot; *)
ResolvePeer(ok) == /\ cur.pc = "peer"
                   /\ cur' = IF ok THEN [cur EXCEPT !.pc = "channel"] ELSE Idle
                   /\ UNCHANGED <<letters, chat, readTo, told, outward>>

(* its channel may not be there; *)
GetChannel(ok) == /\ cur.pc = "channel"
                  /\ cur' = IF ok THEN [cur EXCEPT !.pc = "convert"] ELSE Idle
                  /\ UNCHANGED <<letters, chat, readTo, told, outward>>

(* from here on the message is marked read whatever becomes of it. *)
Leave == cur' = Idle /\ readTo' = cur.m

(* A photo or a document is fetched; other content is a text, or not known. *)
Convert == /\ cur.pc = "convert"
           /\ \/ cur.what = "file" /\ cur' = [cur EXCEPT !.pc = "fetch"] /\ UNCHANGED readTo
              \/ cur.what \in {"text", "contact"} /\ cur' = [cur EXCEPT !.pc = "read"] /\ UNCHANGED readTo
              \/ cur.what = "poll" /\ Leave
           /\ UNCHANGED <<letters, chat, told, outward>>

LastPart(got)     == got < Part
Fetched(c, got)   == [c EXCEPT !.pc = "push", !.off = @ + got]
FetchAgain(c)     == c

(* getFile: the part at the offset, *)
GetPart ==
  /\ cur.pc = "fetch"
  /\ \/ LET left == cur.size - cur.off
            got  == IF left < Part THEN left ELSE Part
        IN left >= 0 /\ cur' = Fetched(cur, got) /\ UNCHANGED <<readTo, waits>>
     \/ Wait /\ cur' = FetchAgain(cur) /\ UNCHANGED readTo
     \/ Leave /\ UNCHANGED waits
  /\ UNCHANGED <<letters, chat, told, notes, cast>>

(* is sent to the storage.  Refused before the first part the chat is told; refused *)
(* later the storage's own error is not recognised.                                 *)
PushPart ==
  /\ cur.pc = "push"
  /\ \/ /\ cur' = [cur EXCEPT !.up = cur.off, !.pc = IF LastPart(cur.off - cur.up) THEN "close" ELSE "fetch"]
        /\ UNCHANGED <<readTo, told>>
     \/ Leave /\ told' = told + (IF cur.up = 0 THEN 1 ELSE 0)
     \/ Leave /\ UNCHANGED told
  /\ UNCHANGED <<letters, chat, outward>>

(* The storage answers with the file's number, or an error. *)
CloseFile == /\ cur.pc = "close"
             /\ \/ cur' = [cur EXCEPT !.pc = "read"] /\ UNCHANGED readTo
                \/ Leave
             /\ UNCHANGED <<letters, chat, told, outward>>

(* Gateway.Read: the chat service takes the message, or fails. *)
Read == /\ cur.pc = "read" /\ Leave
        /\ \/ chat' = chat \cup {[m |-> cur.m, what |-> cur.what, size |-> cur.size, up |-> cur.up]}
           \/ UNCHANGED chat
        /\ UNCHANGED <<letters, told, outward>>
-----------------------------------------------------------------------------
inward == <<letters, cur, chat, readTo, told>>

(* SendNotify: the chat service's notice for a customer, who may not be found. *)
SendNotify(w) == /\ Len(notes) < MaxNotes
                 /\ notes' = Append(notes, [what |-> w, pc |-> "resolve", shown |-> FALSE, of |-> 0])
                 /\ UNCHANGED <<inward, cast, waits>>

Note(i, pc) == [notes EXCEPT ![i].pc = pc]

(* A new member is a message of the chat, saved by the chat service; that comes back as a text. *)
SavedJoin(i) == Append(Note(i, "done"), [what |-> "text", pc |-> "resolve", shown |-> FALSE, of |-> i])

(* A text is sent, a file uploaded first; a member's arrival or departure and the end *)
(* of the chat are told by a template, if there is one; others are passed over.       *)
Compose(i) ==
  /\ notes[i].pc = "resolve"
  /\ \/ notes' = Note(i, "failed")
     \/ notes[i].what \in {"text", "left", "closed"} /\ notes' = Note(i, "send")
     \/ notes[i].what = "file" /\ notes' = Note(i, "upload")
     \/ notes[i].what = "joined" /\ notes' = SavedJoin(i)
     \/ notes[i].what \in {"left", "joined", "closed", "contact"} /\ notes' = Note(i, "passed")
  /\ UNCHANGED <<inward, cast, waits>>

Upload(i) == /\ notes[i].pc = "upload"
             /\ \E pc \in {"send", "failed"} : notes' = Note(i, pc)
             /\ UNCHANGED <<inward, cast, waits>>

Send(i) == /\ notes[i].pc = "send"
           /\ \/ notes' = [notes EXCEPT ![i].pc = "done", ![i].shown = TRUE]
              \/ notes' = Note(i, "failed")
           /\ UNCHANGED <<inward, cast, waits>>

(* BroadcastMessage: refused while nobody is signed in. *)
BroadcastMessage(peers) == /\ cast.pc = "idle"
                           /\ cast' = [NoCast EXCEPT !.peers = peers, !.pc = "resolve"]
                           /\ UNCHANGED <<inward, notes, waits>>

(* resolvedError: the recipient's failure is reported. *)
ResolvedError(c) == [c EXCEPT !.failure = Append(@, c.id), !.id = @ + 1, !.tries = 0]

(* resolvedPeer: nobody, or one who is already among the recipients, is a failure. *)
ResolvedPeer(c, p) ==
  IF p = "none" \/ \E i \in DOMAIN c.input : c.input[i].peer = p THEN ResolvedError(c)
  ELSE [c EXCEPT !.input = Append(@, [id |-> c.id, peer |-> p]), !.id = @ + 1, !.tries = 0]

(* resolve: a name is asked for until Telegram answers, a phone number not known *)
(* is asked for twice, and found to be nobody's then.                            *)
Resolve ==
  LET p == PeerOf[cast.peers[cast.id]] IN
  /\ cast.pc = "resolve" /\ cast.id <= Len(cast.peers)
  /\ \/ cast' = ResolvedPeer(cast, p) /\ UNCHANGED waits
     \/ cast' = ResolvedError(cast) /\ UNCHANGED waits
     \/ Wait /\ UNCHANGED cast
     \/ Wait /\ cast' = IF cast.tries = 0 THEN [cast EXCEPT !.tries = 1] ELSE ResolvedPeer(cast, "none")
  /\ UNCHANGED <<inward, notes>>

Resolved == /\ cast.pc = "resolve" /\ cast.id > Len(cast.peers)
            /\ cast' = [cast EXCEPT !.pc = "send", !.id = 1, !.tries = 0]
            /\ UNCHANGED <<inward, notes, waits>>

(* The text is sent to everyone resolved; a failure names the recipient as asked for. *)
SendTo ==
  LET to == cast.input[cast.id] IN
  /\ cast.pc = "send" /\ cast.id <= Len(cast.input)
  /\ \/ cast' = [cast EXCEPT !.sent = Append(@, to.peer), !.id = @ + 1] /\ UNCHANGED waits
     \/ cast' = [ResolvedError([cast EXCEPT !.id = to.id]) EXCEPT !.id = cast.id + 1] /\ UNCHANGED waits
     \/ Wait /\ UNCHANGED cast
  /\ UNCHANGED <<inward, notes>>

Answer == /\ cast.pc = "send" /\ cast.id > Len(cast.input)
          /\ cast' = [cast EXCEPT !.pc = "done"]
          /\ UNCHANGED <<inward, notes, waits>>

Next ==
  \/ \E l \in Letter : OnNewMessage(l)
  \/ \E ok \in BOOLEAN : ResolvePeer(ok) \/ GetChannel(ok)
  \/ Convert \/ GetPart \/ PushPart \/ CloseFile \/ Read
  \/ \E w \in {"text", "file", "left", "joined", "closed", "contact"} : SendNotify(w)
  \/ \E i \in DOMAIN notes : Compose(i) \/ Upload(i) \/ Send(i)
  \/ \E ps \in Cast : BroadcastMessage(ps)
  \/ Resolve \/ Resolved \/ SendTo \/ Answer

Spec == Init /\ [][Next]_gotdVars
-----------------------------------------------------------------------------
(* A message's file is the customer's file to the last byte, however often a     *)
(* part had to be asked for again, and also when its size is a multiple of a     *)
(* part's.                                                                       *)
FileWhole == \A c \in chat : c.what = "file" => c.up = c.size

(* A notice is shown to the customer once at most, and a text, a file or a new   *)
(* member exactly once unless a failure is reported, although a new member comes *)
(* back as a message of the chat.                                                *)
NoticeOnce ==
  \A i \in DOMAIN notes :
    LET its == {j \in DOMAIN notes : j = i \/ notes[j].of = i}
        n   == Cardinality({j \in its : notes[j].shown})
    IN /\ n <= 1
       /\ (\A j \in its : notes[j].pc = "done") => n = 1

(* A broadcast's answer speaks of every recipient: whoever it does not report as *)
(* a failure was sent the message, no peer twice, and a recipient is reported    *)
(* once, although it may fail while resolved and while sent to.                  *)
AnswerComplete ==
  cast.pc = "done" =>
    LET named == Range(cast.failure) IN
    /\ Cardinality(named) = Len(cast.failure) /\ IsInjective(cast.sent)
    /\ {PeerOf[cast.peers[i]] : i \in DOMAIN cast.peers \ named} = Range(cast.sent)
-----------------------------------------------------------------------------
(* Why it holds.  What is pushed is what was fetched, and it ends with the file. *)
Fetching ==
  /\ cur \in [pc : {"idle", "peer", "channel", "convert", "fetch", "push", "close", "read"}, m : 0 .. letters,
              what : {"none", "out", "text", "file", "contact", "poll"}, size : Nat, off : Nat, up : Nat]
  /\ cur.off <= cur.size /\ told \in Nat
  /\ chat \subseteq [m : 1 .. letters, what : {"text", "file", "contact"}, size : Nat, up : Nat]
  /\ cur.pc = "push" /\ cur.off - cur.up < Part => cur.off = cur.size
  /\ cur.what = "file" /\ cur.pc \in {"close", "read"} => cur.up = cur.size
  /\ cur.pc \in {"push", "fetch", "close"} => cur.what = "file"

(* A notice done is shown, or it was saved and comes back once. *)
Showing ==
  /\ notes \in Seq([what : {"text", "file", "left", "joined", "closed", "contact"},
                    pc : {"resolve", "upload", "send", "done", "failed", "passed"}, shown : BOOLEAN, of : Nat])
  /\ \A i \in DOMAIN notes :
       /\ notes[i].shown => notes[i].pc = "done"
       /\ notes[i].pc = "done" => notes[i].shown \/ \E j \in DOMAIN notes : notes[j].of = i
       /\ notes[i].of # 0 => /\ notes[i].of \in DOMAIN notes /\ notes[i].what = "text"
                             /\ notes[notes[i].of].pc = "done" /\ ~ notes[notes[i].of].shown
                             /\ \A j \in DOMAIN notes : notes[j].of = notes[i].of => j = i

(* The recipients asked for are resolved or failed one after the other, then sent to or failed. *)
Reporting ==
  /\ cast \in [peers : Seq(DOMAIN PeerOf), pc : {"idle", "resolve", "send", "done"}, id : Nat \ {0}, tries : 0 .. 1,
               input : Seq([id : Nat, peer : Range(PeerOf)]), sent : Seq(Range(PeerOf)), failure : Seq(Nat)]
  /\ \A i \in DOMAIN cast.input :
       /\ cast.input[i].id \in DOMAIN cast.peers /\ cast.input[i].peer = PeerOf[cast.peers[cast.input[i].id]]
       /\ \A j \in DOMAIN cast.input : cast.input[i].id = cast.input[j].id \/ cast.input[i].peer = cast.input[j].peer => i = j
  /\ IsInjective(cast.failure) /\ IsInjective(cast.sent)
  /\ LET resolved == {cast.input[i].id : i \in DOMAIN cast.input}
         at == IF cast.pc = "send" THEN cast.id - 1 ELSE Len(cast.input) IN
     /\ cast.pc = "idle" => cast.peers = <<>>
     /\ cast.pc \in {"idle", "resolve"} => /\ cast.id <= Len(cast.peers) + 1 /\ cast.sent = <<>>
                                           /\ resolved \cup Range(cast.failure) = 1 .. cast.id - 1
                                           /\ resolved \cap Range(cast.failure) = {}
     /\ cast.pc \in {"send", "done"} =>
          /\ at <= Len(cast.input) /\ Range(cast.failure) \subseteq DOMAIN cast.peers
          /\ resolved \cup Range(cast.failure) = DOMAIN cast.peers
          /\ \A i \in DOMAIN cast.input : IF cast.input[i].id \in Range(cast.failure)
                                             THEN i <= at /\ cast.input[i].peer \notin Range(cast.sent)
                                             ELSE i <= at <=> cast.input[i].peer \in Range(cast.sent)
          /\ \A p \in Range(cast.sent) : \E i \in DOMAIN cast.input : cast.input[i].peer = p

IInv == TypeOK /\ Fetching /\ FileWhole /\ Showing /\ Reporting
=============================================================================
