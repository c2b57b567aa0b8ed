----------------------------- MODULE FacebookChat ------------------------------
(***************************************************************************)
(* The chats of a Facebook bot, bot/facebook: webhook.go, the hooks of     *)
(* instagram.go, getChat in client.go, SendNotify in provider.go, send.go. *)
(* One page of Facebook with one Instagram account, installed for either   *)
(* platform or for both (see FacebookPages).  A user writes to one of the  *)
(* two.  The bot keeps the thread of every user it met, with the page, and *)
(* a channel of the chat with the thread or with the properties stored in  *)
(* the database.                                                           *)
(***************************************************************************)
EXTENDS Naturals, Sequences, FiniteSets

CONSTANTS
  User,       \* users, by their page-scoped id
  Home,       \* the platform a user writes on
  MaxObj,     \* bound on the page objects made
  MaxBoots    \* bound on restarts

VARIABLES
  pobj,       \* the page objects: platform they are installed for, has a token
  at,         \* the object of the page in each index, 0: none
  chats,      \* c.chats: the page of a known user's thread, 0: unknown
  dlg,        \* the channel of the user's chat
  reply,      \* the last notification of the user's chat: the page it left from, its fate
  both,       \* the page has been installed for both platforms, at one time or another
  aborted,    \* the handler of a webhook panicked
  boots

fbChatVars == <<pobj, at, chats, dlg, reply, both, aborted, boots>>

Plat == {"facebook", "instagram"}
Dlg  == [st : {"none", "open"}, props : {"none", "thread", "map"}, page : 0 .. MaxObj, type : Plat \cup {"none"}]
NoDlg == [st |-> "none", props |-> "none", page |-> 0, type |-> "none"]

TypeOK ==
  /\ Len(pobj) <= MaxObj
  /\ \A o \in DOMAIN pobj : pobj[o].plat \in Plat /\ pobj[o].auth \in BOOLEAN
  /\ at \in [Plat -> 0 .. Len(pobj)]
  /\ \A f \in Plat : at[f] # 0 => pobj[at[f]].plat = f /\ pobj[at[f]].auth
  /\ chats \in [User -> 0 .. Len(pobj)]
  /\ dlg \in [User -> Dlg]
  /\ \A u \in User : dlg[u].st = "none" => dlg[u].type = "none"
  /\ reply \in [User -> [page : 0 .. Len(pobj), fate : {"none", "sent", "refused", "lost"}]]
  /\ both \in BOOLEAN /\ aborted \in BOOLEAN /\ boots \in 0 .. MaxBoots

Init ==
  /\ pobj = <<>> /\ at = [f \in Plat |-> 0]
  /\ chats = [u \in User |-> 0] /\ dlg = [u \in User |-> NoDlg]
  /\ reply = [u \in User |-> [page |-> 0, fate |-> "none"]]
  /\ both = FALSE /\ aborted = FALSE /\ boots = 0
-----------------------------------------------------------------------------
(* Faulty variant: a chat type from the wrong comparison. *)
TypeOfPage(u, o) == IF pobj[o].plat = "instagram" THEN "facebook" ELSE "instagram"
-----------------------------------------------------------------------------
(* FacebookPages: the page is installed for a platform, or the last access to it is withdrawn. *)
Install(f) ==
  /\ at[f] = 0 /\ Len(pobj) < MaxObj
  /\ pobj' = Append(pobj, [plat |-> f, auth |-> TRUE])
  /\ at' = [at EXCEPT ![f] = Len(pobj) + 1]
  /\ both' = (both \/ \E o \in DOMAIN pobj : pobj[o].plat # f)
  /\ UNCHANGED <<chats, dlg, reply, aborted, boots>>

Uninstall(f) ==
  /\ at[f] # 0
  /\ pobj' = [pobj EXCEPT ![at[f]].auth = FALSE]
  /\ at' = [at EXCEPT ![f] = 0]
  /\ UNCHANGED <<chats, dlg, reply, both, aborted, boots>>
-----------------------------------------------------------------------------
(* getPage by the page's own id: among the Facebook pages, then the Instagram ones. *)
ByPageId == IF at["facebook"] # 0 THEN at["facebook"] ELSE at["instagram"]

(* getPage by the id of the recipient: only the Instagram index knows the id of the account. *)
ByRecipient(f) == IF f = "instagram" THEN at["instagram"] ELSE ByPageId

(* getChat: the thread of a known user, whatever its page; else a new one (a failed lookup of the name is kept). *)
Thread(u, o) == IF chats[u] # 0 THEN chats[u] ELSE o

(* GetChannel: is the recipient's id the one of the thread's Instagram account? *)
ChatType(u, o) == IF Home[u] = "instagram" /\ pobj[o].plat = "instagram" THEN "instagram" ELSE "facebook"

(* The user's channel: the one there, or a new one of the type found; a new chat keeps the page's properties. *)
Channel(u, o, started) ==
  IF dlg[u].st = "open" THEN [dlg[u] EXCEPT !.props = "thread", !.page = IF dlg[u].props = "thread" THEN @ ELSE o]
  ELSE IF started THEN [st |-> "open", props |-> "map", page |-> 0, type |-> ChatType(u, o)]
  ELSE dlg[u]

(***************************************************************************)
(* WebhookMessage, WebhookPostback, WebhookReferral: the update of a user  *)
(* to a page we know is read into the chat, which starts or not; the parts *)
(* of a message with several attachments are read one by one.  Nothing is  *)
(* kept of an update for another page, and Facebook is told "200" anyway.  *)
(***************************************************************************)
WebhookMessage(u, started) ==
  LET page == ByRecipient(Home[u]) o == Thread(u, page) IN
  /\ page # 0
  /\ chats' = [chats EXCEPT ![u] = o]
  /\ dlg' = [dlg EXCEPT ![u] = Channel(u, o, started)]
  /\ UNCHANGED <<pobj, at, reply, both, aborted, boots>>

(* The echo of a message of ours; nobody looked whether the page is still known. *)
WebhookEcho(f) ==
  /\ aborted' = (aborted \/ ByRecipient(f) = 0)
  /\ UNCHANGED <<pobj, at, chats, dlg, reply, both, boots>>

(* onIGMediaComment and onIGMediaMention, where they are enabled: no thread is looked up. *)
WebhookComment(u, started) ==
  /\ Home[u] = "instagram" /\ at["instagram"] # 0
  /\ dlg[u].st = "none" /\ started
  /\ dlg' = [dlg EXCEPT ![u] = [st |-> "open", props |-> "map", page |-> 0, type |-> "instagram"]]
  /\ UNCHANGED <<pobj, at, chats, reply, both, aborted, boots>>
-----------------------------------------------------------------------------
(* getExternalThread: the thread of the channel, or the one of the page named in its properties. *)
External(u) ==
  IF dlg[u].props = "thread" THEN dlg[u].page
  ELSE IF ByPageId = 0 THEN 0
  ELSE Thread(u, ByPageId)

(* SendNotify with no page for the chat: the channel is closed. *)
GiveUp(u) == dlg' = [dlg EXCEPT ![u] = NoDlg]

NotifyNoPage(u) ==
  /\ dlg[u].st = "open" /\ External(u) = 0
  /\ reply' = [reply EXCEPT ![u] = [page |-> 0, fate |-> "lost"]]
  /\ GiveUp(u)
  /\ UNCHANGED <<pobj, at, chats, both, aborted, boots>>

(* SendNotify: Facebook refuses a message that comes with no token. *)
SendNotify(u) ==
  LET o == External(u) IN
  /\ dlg[u].st = "open" /\ o # 0
  /\ reply' = [reply EXCEPT ![u] = [page |-> o, fate |-> IF pobj[o].auth THEN "sent" ELSE "refused"]]
  /\ chats' = IF dlg[u].props = "thread" THEN chats ELSE [chats EXCEPT ![u] = o]
  /\ dlg' = [dlg EXCEPT ![u].props = "thread", ![u].page = o]
  /\ UNCHANGED <<pobj, at, both, aborted, boots>>

(* The chat ends. *)
CloseChat(u) ==
  /\ dlg[u].st = "open"
  /\ dlg' = [dlg EXCEPT ![u] = NoDlg]
  /\ UNCHANGED <<pobj, at, chats, reply, both, aborted, boots>>

(* A new process: the pages are restored, the threads are not, open chats come with their stored properties. *)
Reboot ==
  LET on  == {f \in Plat : at[f] # 0}
      num == [f \in Plat |-> IF f \notin on THEN 0 ELSE IF f = "instagram" /\ "facebook" \in on THEN 2 ELSE 1]
  IN
  /\ boots < MaxBoots /\ boots' = boots + 1
  /\ at' = num
  /\ pobj' = [o \in 1 .. Cardinality(on) |-> [plat |-> CHOOSE f \in on : num[f] = o, auth |-> TRUE]]
  /\ chats' = [u \in User |-> 0]
  /\ dlg' = [u \in User |-> IF dlg[u].st = "open" THEN [dlg[u] EXCEPT !.props = "map", !.page = 0] ELSE NoDlg]
  /\ reply' = [u \in User |-> [page |-> 0, fate |-> "none"]]
  /\ UNCHANGED <<both, aborted>>

Next ==
  \/ \E f \in Plat : Install(f) \/ Uninstall(f) \/ WebhookEcho(f)
  \/ \E u \in User :
       \/ \E started \in BOOLEAN : WebhookMessage(u, started) \/ WebhookComment(u, started)
       \/ NotifyNoPage(u) \/ SendNotify(u) \/ CloseChat(u)
  \/ Reboot

Spec == Init /\ [][Next]_fbChatVars
-----------------------------------------------------------------------------
(***************************************************************************)
(* A chat has the type of the platform its user writes on, however threads *)
(* are met, forgotten by restarts and restored for notices (of a page that *)
(* was ever on both platforms, the restored thread may be the wrong one).  *)
(***************************************************************************)
TypeKept == ~ both => \A u \in User : dlg[u].st = "open" => dlg[u].type = Home[u]
-----------------------------------------------------------------------------
(* Why it holds: all pages met so far are of one platform, and so are the threads. *)
Typed ==
  /\ pobj \in Seq([plat : Plat, auth : BOOLEAN]) /\ Len(pobj) <= MaxObj
  /\ at \in [Plat -> 0 .. Len(pobj)]
  /\ chats \in [User -> 0 .. Len(pobj)]
  /\ dlg \in [User -> [st : {"none", "open"}, props : {"none", "thread", "map"}, page : 0 .. Len(pobj),
                       type : Plat \cup {"none"}]]
  /\ reply \in [User -> [page : 0 .. Len(pobj), fate : {"none", "sent", "refused", "lost"}]]
  /\ both \in BOOLEAN /\ aborted \in BOOLEAN /\ boots \in 0 .. MaxBoots

Indexed   == \A f \in Plat : at[f] # 0 => pobj[at[f]].plat = f /\ pobj[at[f]].auth
NoChatType == \A u \in User : dlg[u].st = "none" => dlg[u].type = "none"
OnePlat   == ~ both => \A o, q \in DOMAIN pobj : pobj[o].plat = pobj[q].plat

IInv == Typed /\ Indexed /\ NoChatType /\ OnePlat /\ TypeKept
================================================================================
