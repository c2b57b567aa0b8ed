------------------------------ MODULE Instagram ------------------------------
(***************************************************************************)
(* Comments and mentions on Instagram (bot/facebook/instagram.go).  Where  *)
(* the bot's settings ask for them, they come to the webhook, are fetched  *)
(* with the token of the page, and are read as messages of the author's    *)
(* chat; Instagram is always answered 200.  Nothing says who mentions a    *)
(* page when Instagram withholds the owner: then the media, or the         *)
(* comment, is taken for the contact.                                      *)
(***************************************************************************)
EXTENDS Naturals, FiniteSets

CONSTANTS
  Author, Account,
  Happening, \* what is posted: [id, field, account, author, linked], author "none" where withheld
  MaxSettings, \* bound on changes of the settings
  MaxFailsIg   \* bound on failed calls, and on pages removed

None  == "none"
Field == {"comments", "mentions"}

VARIABLES
  wanted,   \* fields the current settings ask for
  pages,    \* messengerPages: the accounts served
  hap,      \* hap[h]: the webhook's work on h
  wantedAt, \* was h's field asked for when it was posted?
  threads,  \* the chat of a contact: not there, made with a page, or started with one
  openedBy, \* the page of what opened the chat
  mixedIg,  \* contacts new to two pages at once
  readIg,   \* what was read, and in whose chat
  spoiled,  \* happenings whose page or a call of which failed
  settings, failsIg

igVars == <<wanted, pages, hap, wantedAt, threads, openedBy, mixedIg, readIg, spoiled, settings, failsIg>>

Contact == Author \cup {h.id : h \in Happening}
NoChat  == [pc |-> "none", page |-> None]

(* Types. *)
TypeOK ==
  /\ wanted \subseteq Field /\ pages \subseteq Account
  /\ hap \in [Happening -> {"new", "called", "paged", "fetched", "found", "over"}]
  /\ wantedAt \subseteq Happening /\ spoiled \subseteq Happening /\ mixedIg \subseteq Contact
  /\ threads \in [Contact -> [pc : {"made", "started"}, page : Account] \cup {NoChat}]
  /\ openedBy \in [Contact -> Account \cup {None}]
  /\ readIg \subseteq [h : Happening, chat : Contact]
  /\ settings \in 0 .. MaxSettings /\ failsIg \in 0 .. MaxFailsIg

Init ==
  /\ wanted = {"comments"} /\ pages = Account /\ hap = [h \in Happening |-> "new"]
  /\ wantedAt = {} /\ threads = [c \in Contact |-> NoChat] /\ openedBy = [c \in Contact |-> None]
  /\ mixedIg = {} /\ readIg = {} /\ spoiled = {} /\ settings = 0 /\ failsIg = 0

(* New: the settings were changed and there is another client, with hooks of its own and the same pages. *)
New(f) ==
  /\ settings < MaxSettings /\ settings' = settings + 1
  /\ wanted' = IF f \in wanted THEN wanted \ {f} ELSE wanted \cup {f}
  /\ UNCHANGED <<pages, hap, wantedAt, threads, openedBy, mixedIg, readIg, spoiled, failsIg>>

(* A page is removed; what is at work for it has its account already or finds none. *)
DelPage(a) ==
  /\ a \in pages /\ failsIg < MaxFailsIg /\ failsIg' = failsIg + 1
  /\ pages' = pages \ {a}
  /\ spoiled' = spoiled \cup {h \in Happening : h.account = a /\ hap[h] \in {"new", "called"}}
  /\ UNCHANGED <<wanted, hap, wantedAt, threads, openedBy, mixedIg, readIg, settings>>

(* Mutant: comments switch mentions on too. *)
AnyHook(h) == wanted # {}

(* The hook of the field; the client that took the post keeps it to the end. *)
Hooked(h) == h.field \in wanted

WebhookInstagram(h) ==
  /\ hap[h] = "new"
  /\ wantedAt' = IF h.field \in wanted THEN wantedAt \cup {h} ELSE wantedAt
  /\ hap' = [hap EXCEPT ![h] = IF Hooked(h) THEN "called" ELSE "over"]
  /\ UNCHANGED <<wanted, pages, threads, openedBy, mixedIg, readIg, spoiled, settings, failsIg>>

GetPage(h) ==
  /\ hap[h] = "called"
  /\ hap' = [hap EXCEPT ![h] = IF h.account \in pages THEN "paged" ELSE "over"]
  /\ UNCHANGED <<wanted, pages, wantedAt, threads, openedBy, mixedIg, readIg, spoiled, settings, failsIg>>

(* A comment without a link is left; a mention is read without one. *)
Linked(h) == h.linked \/ h.field = "mentions"

(* The comment, the media or the comment of the mention is fetched. *)
Fetch(h) ==
  /\ hap[h] = "paged"
  /\ hap' = [hap EXCEPT ![h] = IF Linked(h) THEN "fetched" ELSE "over"]
  /\ UNCHANGED <<wanted, pages, wantedAt, threads, openedBy, mixedIg, readIg, spoiled, settings, failsIg>>

(* Mutant: the name of the account stands in for an author withheld. *)
AccountFor(h) == IF h.author # None THEN h.author ELSE CHOOSE a \in Author : TRUE

(* The sender, or the subject in his place. *)
Sender(h) == IF h.author # None THEN h.author ELSE h.id

(* Mutant: every post of an author sets the page. *)
PageEach(c, a) == [threads[c] EXCEPT !.pc = IF @ = "none" THEN "made" ELSE @, !.page = a]

(* A channel without a chat takes the page into its properties. *)
Bound(c, a) == IF threads[c].pc = "started" THEN threads[c] ELSE [pc |-> "made", page |-> a]

GetChannel(h) ==
  /\ hap[h] = "fetched"
  /\ threads' = [threads EXCEPT ![Sender(h)] = Bound(Sender(h), h.account)]
  /\ mixedIg' = IF threads[Sender(h)].pc = "made" THEN mixedIg \cup {Sender(h)} ELSE mixedIg
  /\ hap' = [hap EXCEPT ![h] = "found"]
  /\ UNCHANGED <<wanted, pages, wantedAt, openedBy, readIg, spoiled, settings, failsIg>>

Read(h) ==
  /\ hap[h] = "found"
  /\ threads' = [threads EXCEPT ![Sender(h)].pc = "started"]
  /\ openedBy' = IF threads[Sender(h)].pc = "started" THEN openedBy ELSE [openedBy EXCEPT ![Sender(h)] = h.account]
  /\ readIg' = readIg \cup {[h |-> h, chat |-> Sender(h)]}
  /\ hap' = [hap EXCEPT ![h] = "over"]
  /\ UNCHANGED <<wanted, pages, wantedAt, mixedIg, spoiled, settings, failsIg>>

(* A call fails: logged, and the post is answered 200. *)
Fails(h) ==
  /\ hap[h] \in {"paged", "fetched", "found"}
  /\ failsIg < MaxFailsIg /\ failsIg' = failsIg + 1
  /\ hap' = [hap EXCEPT ![h] = "over"] /\ spoiled' = spoiled \cup {h}
  /\ UNCHANGED <<wanted, pages, wantedAt, threads, openedBy, mixedIg, readIg, settings>>

Next ==
  \/ \E f \in Field : New(f)
  \/ \E a \in Account : DelPage(a)
  \/ \E h \in Happening : WebhookInstagram(h) \/ GetPage(h) \/ Fetch(h) \/ GetChannel(h) \/ Read(h) \/ Fails(h)

Spec == Init /\ [][Next]_igVars
------------------------------------------------------------------------------
(* What the settings asked for when it was posted is read in the end, unless its page is removed or a
   call fails, or it is a comment that cannot be linked to; and nothing else is read, however the
   settings change meanwhile. *)
ReadWhenWanted ==
  \A h \in Happening : hap[h] = "over" /\ h \notin spoiled =>
    ((\E r \in readIg : r.h = h) <=> (h \in wantedAt /\ (h.linked \/ h.field = "mentions")))

(* The words of one author never come into the chat of another: those of one withheld have a chat
   of their own. *)
NobodyElses == \A r \in readIg : r.chat \in Author => r.chat = r.h.author

(* The chat keeps the page of what opened it, through which answers go out, unless the author came new
   to two pages at once. *)
FirstPage == \A c \in Contact \ mixedIg : threads[c].pc = "started" => threads[c].page = openedBy[c]
------------------------------------------------------------------------------
(* Why it holds: what is still at work was asked for and is served, or its page is spoiled. *)
Linkable(h) == h.linked \/ h.field = "mentions"
AtWork ==
  \A h \in Happening :
    /\ hap[h] # "over" => ~ \E r \in readIg : r.h = h
    /\ hap[h] = "new" => h \notin wantedAt
    /\ hap[h] \in {"called", "paged", "fetched", "found"} => h \in wantedAt
    /\ hap[h] \in {"fetched", "found"} => Linkable(h)
    /\ hap[h] \in {"new", "called"} /\ h.account \notin pages => h \in spoiled

(* Who is found has a chat, with the page unless another came between. *)
Found ==
  \A h \in Happening : hap[h] = "found" =>
    /\ threads[Sender(h)] # NoChat
    /\ threads[Sender(h)].pc = "made" /\ Sender(h) \notin mixedIg => threads[Sender(h)].page = h.account

OwnChat == \A r \in readIg : r.chat = Sender(r.h)

IInv == TypeOK /\ AtWork /\ Found /\ OwnChat /\ ReadWhenWanted /\ FirstPage
==============================================================================
