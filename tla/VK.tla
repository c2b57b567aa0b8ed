---------------------------------- MODULE VK ----------------------------------
(***************************************************************************)
(* The VK provider (bot/vk).  VK posts every message of a user, written to *)
(* the group alone or in a conversation of several, and posts it again     *)
(* until "ok" is answered.  A message is forwarded to the chat part by     *)
(* part: each attachment, the place, the text; a part that fails ends the  *)
(* request.  The chat of a peer is found through the provider's map of     *)
(* contacts and the maps of the gateway.  What the chat sends is converted *)
(* first, a file by uploading it, and sent in one call.                    *)
(***************************************************************************)
EXTENDS Naturals, Sequences, FiniteSets

CONSTANTS
  User,      \* users: each is the peer of his own dialog
  Talk,      \* conversations of several users
  Letter,    \* messages: [from, peer, atts, geo, text]
  MaxPosts,  \* bound on requests of VK
  MaxNotes,  \* bound on what the chat sends
  MaxFailsVk \* bound on failed calls

Peer == User \cup Talk
None == "none"

VARIABLES
  post,     \* post[l]: the request that brings l
  acked,    \* letters answered with "ok"
  contacts, \* VKBot.contacts: for a peer, the account whose Contact is ...
  internal, \* Gateway.internal: the chat in which an account is
  known,    \* has one known from his own dialog written in a conversation?
  read,     \* parts read: letter, part, chat
  again,    \* letters posted more than once
  note,     \* what the chat sends
  posts, notes, failsVk

vkVars == <<post, acked, contacts, internal, known, read, again, note, posts, notes, failsVk>>

Away  == [pc |-> "away"]
Row   == [pc : {"lookup", "read"}, i : Nat, who : Peer \cup {None}, chat : Peer \cup {None}]
Quiet == [pc |-> "quiet"]
NoteRow == [pc : {"photo", "doc", "send", "sent", "silent", "failed", "died"},
            type : {"text", "image", "file", "joined", "left", "closed"},
            uploads : 0 .. 1, saved : BOOLEAN]

(* Types; a note goes out with the one attachment it has, if it is a file. *)
TypeOK ==
  /\ post \in [Letter -> Row \cup {Away}]
  /\ acked \subseteq Letter /\ again \subseteq Letter
  /\ contacts \in [Peer -> Peer \cup {None}]
  /\ internal \in [Peer -> Peer \cup {None}] /\ known \in BOOLEAN
  /\ read \in Seq([l : Letter, i : Nat, chat : Peer])
  /\ note \in NoteRow \cup {Quiet}
  /\ (note # Quiet /\ note.pc = "sent") => (note.uploads = 1 <=> note.type \in {"image", "file"})
  /\ posts \in 0 .. MaxPosts /\ notes \in 0 .. MaxNotes /\ failsVk \in 0 .. MaxFailsVk

Init ==
  /\ post = [l \in Letter |-> Away] /\ acked = {} /\ again = {}
  /\ contacts = [p \in Peer |-> None] /\ internal = [p \in Peer |-> None] /\ known = FALSE
  /\ read = <<>> /\ note = Quiet
  /\ posts = 0 /\ notes = 0 /\ failsVk = 0

(***************************************************************************)
(* WebHook.                                                                *)
(***************************************************************************)

(* VK posts a letter, again if it was not answered with "ok". *)
Post(l) ==
  /\ post[l] = Away /\ l \notin acked /\ posts < MaxPosts
  /\ post' = [post EXCEPT ![l] = [pc |-> "lookup", i |-> 1, who |-> None, chat |-> None]]
  /\ again' = IF \E i \in DOMAIN read : read[i].l = l THEN again \cup {l} ELSE again
  /\ posts' = posts + 1
  /\ UNCHANGED <<acked, contacts, internal, known, read, note, notes, failsVk>>

(* Mutant: a contact is remembered as the one who wrote. *)
BySender(l) == l.from

(* A contact is looked for as the one who wrote, but remembered as the peer. *)
Remembered(l) == l.peer

(* getChannel: the account of the contact, a new one being that of the peer. *)
Account(l) == IF contacts[l.from] # None THEN contacts[l.from] ELSE l.peer

(* Gateway.GetChannel: the chat the account is in, else the peer's, else a new one. *)
Found(l) == LET a == Account(l) IN IF internal[a] # None THEN internal[a] ELSE l.peer

GetChannel(l) ==
  /\ post[l] # Away /\ post[l].pc = "lookup"
  /\ contacts' = IF contacts[l.from] # None THEN contacts
                 ELSE [contacts EXCEPT ![Remembered(l)] = l.peer]
  /\ post' = [post EXCEPT ![l].pc = "read", ![l].who = Account(l), ![l].chat = Found(l)]
  /\ known' = (known \/ (l.peer \in Talk /\ contacts[l.from] # None))
  /\ UNCHANGED <<acked, internal, read, again, note, posts, notes, failsVk>>

(* The attachments that can be decoded. *)
Decoded(l) == SelectSeq(l.atts, LAMBDA a : a # "broken")

(* Mutant: the text that goes with attachments is left out, as it may be their caption. *)
NoTextBeside(l) ==
  Decoded(l) \o (IF l.geo THEN <<"geo">> ELSE <<>>) \o (IF l.text /\ l.atts = <<>> THEN <<"text">> ELSE <<>>)

(* The parts in order: the attachments, the place, the text. *)
Parts(l) ==
  Decoded(l) \o (IF l.geo THEN <<"geo">> ELSE <<>>) \o (IF l.text THEN <<"text">> ELSE <<>>)

(* Channel.Start: the gateway remembers the account, unless it has a channel for that chat. *)
Started(who, chat) ==
  IF \E p \in Peer : internal[p] = chat THEN internal ELSE [internal EXCEPT ![who] = chat]

(* Gateway.Read of the next part; an attachment of unknown type has no content and is refused. *)
Read(l) ==
  /\ post[l] # Away /\ post[l].pc = "read" /\ post[l].i <= Len(Parts(l))
  /\ Parts(l)[post[l].i] # "odd"
  /\ read' = Append(read, [l |-> l, i |-> post[l].i, chat |-> post[l].chat])
  /\ post' = [post EXCEPT ![l].i = @ + 1]
  /\ internal' = Started(post[l].who, post[l].chat)
  /\ UNCHANGED <<acked, contacts, known, again, note, posts, notes, failsVk>>

(* 500, or 200 without "ok" when no channel was found: VK will post the letter again. *)
Refuse(l) == [post EXCEPT ![l] = Away]

ReadFails(l) ==
  /\ post[l] # Away /\ post[l].pc = "read" /\ post[l].i <= Len(Parts(l))
  /\ \/ Parts(l)[post[l].i] = "odd" /\ UNCHANGED failsVk
     \/ failsVk < MaxFailsVk /\ failsVk' = failsVk + 1
  /\ post' = Refuse(l)
  /\ UNCHANGED <<acked, contacts, internal, known, read, again, note, posts, notes>>

GetChannelFails(l) ==
  /\ post[l] # Away /\ post[l].pc = "lookup"
  /\ failsVk < MaxFailsVk /\ failsVk' = failsVk + 1
  /\ post' = [post EXCEPT ![l] = Away]
  /\ UNCHANGED <<acked, contacts, internal, known, read, again, note, posts, notes>>

Ok(l) ==
  /\ post[l] # Away /\ post[l].pc = "read" /\ post[l].i > Len(Parts(l))
  /\ post' = [post EXCEPT ![l] = Away] /\ acked' = acked \cup {l}
  /\ UNCHANGED <<contacts, internal, known, read, again, note, posts, notes, failsVk>>

(* A chat is closed: the gateway forgets the account. *)
CloseConversation(p) ==
  /\ internal[p] # None /\ internal' = [internal EXCEPT ![p] = None]
  /\ UNCHANGED <<post, acked, contacts, known, read, again, note, posts, notes, failsVk>>

(***************************************************************************)
(* SendNotify.  "joined" is stored as a message of the chat, which sends   *)
(* it; the conversion then returns no message and no error, and the next   *)
(* line of SendNotify uses the message.                                    *)
(***************************************************************************)

(* Where a note goes first: a notice the template has no words for is not sent. *)
Begins(t) ==
  CASE t = "image" -> {"photo"} [] t = "file" -> {"doc"} [] t = "text" -> {"send"}
    [] t = "joined" -> {"died", "failed"} [] OTHER -> {"send", "silent"}

SendNotify(t) ==
  /\ notes < MaxNotes /\ notes' = notes + 1
  /\ \E pc \in Begins(t) :
       note' = [pc |-> pc, type |-> t, uploads |-> 0, saved |-> pc = "died"]
  /\ UNCHANGED <<post, acked, contacts, internal, known, read, again, posts, failsVk>>

(* An image that cannot be sent as a photo is sent as a document. *)
SentPhoto(ok) == IF ok THEN [note EXCEPT !.pc = "send", !.uploads = 1] ELSE [note EXCEPT !.pc = "doc"]

SendPhoto(ok) ==
  /\ note # Quiet /\ note.pc = "photo"
  /\ note' = SentPhoto(ok)
  /\ UNCHANGED <<post, acked, contacts, internal, known, read, again, posts, notes, failsVk>>

SendDoc(ok) ==
  /\ note # Quiet /\ note.pc = "doc"
  /\ note' = IF ok THEN [note EXCEPT !.pc = "send", !.uploads = 1] ELSE [note EXCEPT !.pc = "failed"]
  /\ UNCHANGED <<post, acked, contacts, internal, known, read, again, posts, notes, failsVk>>

MessagesSend(ok) ==
  /\ note # Quiet /\ note.pc = "send"
  /\ note' = [note EXCEPT !.pc = IF ok THEN "sent" ELSE "failed"]
  /\ UNCHANGED <<post, acked, contacts, internal, known, read, again, posts, notes, failsVk>>

Next ==
  \/ \E l \in Letter : Post(l) \/ GetChannel(l) \/ GetChannelFails(l) \/ Read(l) \/ ReadFails(l) \/ Ok(l)
  \/ \E p \in Peer : CloseConversation(p)
  \/ \E t \in {"text", "image", "file", "joined", "left", "closed"} : SendNotify(t)
  \/ \E ok \in BOOLEAN : SendPhoto(ok) \/ SendDoc(ok) \/ MessagesSend(ok)

Spec == Init /\ [][Next]_vkVars
-----------------------------------------------------------------------------
Wanted(l) == Len(Decoded(l)) + (IF l.geo THEN 1 ELSE 0) + (IF l.text THEN 1 ELSE 0)
Times(l, k) == Cardinality({i \in DOMAIN read : read[i].l = l /\ read[i].i = k})

(* A message answered with "ok" has every part in the chat; and a part is there twice only if the
   message was posted again after some of it had been read. *)
AckedWhole ==
  /\ \A l \in acked : \A k \in 1 .. Wanted(l) : Times(l, k) >= 1
  /\ \A l \in Letter \ again : \A k \in 1 .. Wanted(l) : Times(l, k) <= 1

(* Every message is read into the chat of its peer, in whatever order a user writes to the group alone
   and in conversations, until one known from his own dialog writes in a conversation: his contact is
   then taken for the peer's, and what he writes here and there comes into one chat. *)
OwnChat == ~known => \A i \in DOMAIN read : read[i].chat = read[i].l.peer
-----------------------------------------------------------------------------
(* Why it holds.  A letter that is read has an account and a chat, *)
Looked == \A l \in Letter : post[l] # Away /\ post[l].pc = "read" => post[l].who \in Peer /\ post[l].chat \in Peer

(* and until then contacts, accounts and lookups are all of the peer. *)
Own ==
  ~known =>
    /\ \A p \in Peer : contacts[p] \in {None, p} /\ internal[p] \in {None, p}
    /\ \A l \in Letter : post[l] # Away /\ post[l].pc = "read" => post[l].who = l.peer /\ post[l].chat = l.peer

IsRead(l, k) == \E j \in DOMAIN read : read[j].l = l /\ read[j].i = k

(* The parts before the one at work are read, *)
Behind ==
  /\ \A l \in Letter : post[l] # Away => /\ post[l].i >= 1
                                         /\ \A k \in 1 .. post[l].i - 1 : IsRead(l, k)
  /\ \A l \in acked : \A k \in 1 .. Wanted(l) : IsRead(l, k)

(* once, and no other, unless the message was posted again. *)
Once ==
  \A l \in Letter \ again :
    /\ \A j, k \in DOMAIN read : read[j].l = l /\ read[k].l = l /\ read[j].i = read[k].i => j = k
    /\ post[l] # Away => \A j \in DOMAIN read : read[j].l = l => read[j].i < post[l].i

(* A photo or a document is uploaded before it is sent. *)
Uploading ==
  note # Quiet =>
    /\ note.pc = "photo" => note.type = "image" /\ note.uploads = 0
    /\ note.pc = "doc"   => note.type \in {"image", "file"} /\ note.uploads = 0
    /\ note.pc = "send"  => (note.uploads = 1 <=> note.type \in {"image", "file"})

IInv == TypeOK /\ Looked /\ Own /\ OwnChat /\ Behind /\ Once /\ Uploading
=============================================================================
