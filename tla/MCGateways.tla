-------------------------------- MODULE MCGateways --------------------------------
(***************************************************************************)
(* The gateways with most state of their own: the web chat and its files,  *)
(* and the Meta platforms. They share no state: a behaviour is one of them *)
(* at work, and v1, v2 ... are its variables, 0 where it has fewer.        *)
(***************************************************************************)
EXTENDS Integers, Sequences, TLC

CONSTANTS
  Task, Party,              \* requests under way at one time; users of the pages
  Note, MaxRoom, MaxMsg, MaxClose,              \* the web chat
  Limit, Buf, MaxPart, MaxSize,                 \* its files
  Page, Gram, MaxBegun, MaxMoves,               \* Facebook pages
  Author, Home, MaxObj, MaxBoots,               \* their chats
  Account, Number, Customer, FirstOffer, MaxJobs, MaxOffers, MaxTalk,   \* WhatsApp
  Happening, MaxSettings,                       \* Instagram
  To, KindOf, Speaker, MaxCasts, MaxChanges,     \* broadcasts
  MaxFails                  \* bound on failures, of each

ASSUME WebAssumption == MaxRoom \in Nat /\ MaxMsg \in Nat /\ MaxClose \in Nat

(* The buffer a file is read into is not empty. *)
ASSUME MediaAssumption == Limit \in Nat /\ Buf \in Nat \ {0} /\ MaxPart \in Nat /\ MaxSize \in Nat

(* A user writes on one platform. *)
ASSUME ThreadsAssumption == Home \in [Author -> {"facebook", "instagram"}] /\ MaxObj \in Nat /\ MaxBoots \in Nat

(* Comments and mentions have an id that is not a user's, and their author may be withheld. *)
ASSUME GramsAssumption ==
  /\ \A h \in Happening : h.account \in Account /\ h.author \in Author \cup {"none"} /\ h.id \notin Author
  /\ MaxSettings \in Nat /\ MaxFails \in Nat

(* The peers of a broadcast are listed in order. *)
ASSUME CastAssumption ==
  /\ Len(To) \in Nat /\ DOMAIN To = 1 .. Len(To) /\ MaxCasts \in Nat /\ MaxChanges \in Nat /\ MaxFails \in Nat

VARIABLES
  part,    \* the component at work
  v1, v2, v3, v4, v5, v6, v7, v8, v9, v10, v11, v12, v13, v14, v15, v16, v17

vars == <<part, v1, v2, v3, v4, v5, v6, v7, v8, v9, v10, v11, v12, v13, v14, v15, v16, v17>>

(* One user on each platform. *)
Platform == [u \in {"u1", "u2"} |-> IF u = "u1" THEN "facebook" ELSE "instagram"]

(* An account with three numbers, one with none. *)
Offers == [a \in {"a1", "a2"} |-> IF a = "a1" THEN <<"n1", "n2", "n3">> ELSE <<>>]

(* Comments and mentions at two accounts, by two authors and by one who is withheld. *)
Happen(i, f, a, u, l) == [id |-> i, field |-> f, account |-> a, author |-> u, linked |-> l]
Happenings == {Happen("m1", "comments", "a1", "u1", TRUE), Happen("m2", "comments", "a2", "u1", TRUE),
               Happen("m3", "mentions", "a1", "none", FALSE), Happen("m4", "mentions", "a2", "u2", TRUE),
               Happen("m5", "comments", "a1", "u2", FALSE)}

(* Three peers of a broadcast. *)
Peers == <<"x1", "x2", "x3">>
Kinds == <<"facebook", "whatsapp", "other">>

Web == INSTANCE WebChat
  WITH Tab <- Task, chat <- v1, room <- v2, tab <- v3, note <- v4, sent <- v5, shuts <- v6, raced <- v7,
       crashed <- v8

Files == INSTANCE Media
  WITH form <- v1, length <- v2, parts <- v3, pc <- v4, i <- v5, n <- v6, off <- v7, err <- v8, files <- v9,
       stored <- v10

Pages == INSTANCE FacebookPages
  WITH User <- Party, Call <- Task, objs <- v1, idx <- v2, meta <- v3, linked <- v4, fields <- v5, ask <- v6,
       granted <- v7, taken <- v8, saved <- v9, disorder <- v10, unsaved <- v11, raced <- v12, begunFb <- v13,
       moves <- v14, failsFb <- v15

Threads == INSTANCE FacebookChat
  WITH User <- Author, pobj <- v1, at <- v2, chats <- v3, dlg <- v4, reply <- v5, both <- v6, aborted <- v7,
       boots <- v8

Numbers == INSTANCE WhatsApp
  WITH Job <- Task, MaxFailsWa <- MaxFails, offer <- v1, hooked <- v2, accts <- v3, nums <- v4, listed <- v5,
       job <- v6, dialog <- v7, first <- v8, from <- v9, takenWa <- v10, savedWa <- v11, disorderWa <- v12,
       skipped <- v13, jobs <- v14, offers <- v15, talk <- v16, failsWa <- v17

Grams == INSTANCE Instagram
  WITH MaxFailsIg <- MaxFails, wanted <- v1, pages <- v2, hap <- v3, wantedAt <- v4, threads <- v5,
       openedBy <- v6, mixedIg <- v7, readIg <- v8, spoiled <- v9, settings <- v10, failsIg <- v11

Casts == INSTANCE MessengerCast
  WITH Sender <- Speaker, MaxFailsMc <- MaxFails, channelOf <- v1, peerCache <- v2, senders <- v3, body <- v4,
       place <- v5, stage <- v6, got <- v7, named <- v8, bindings <- v9, casts <- v10, changes <- v11, failsMc <- v12

MCInit ==
  \/ part = "web" /\ Web!Init
       /\ v9 = 0 /\ v10 = 0 /\ v11 = 0 /\ v12 = 0 /\ v13 = 0 /\ v14 = 0 /\ v15 = 0 /\ v16 = 0 /\ v17 = 0
  \/ part = "media" /\ Files!Init /\ v11 = 0 /\ v12 = 0 /\ v13 = 0 /\ v14 = 0 /\ v15 = 0 /\ v16 = 0 /\ v17 = 0
  \/ part = "pages" /\ Pages!Init /\ v16 = 0 /\ v17 = 0
  \/ part = "threads" /\ Threads!Init
       /\ v9 = 0 /\ v10 = 0 /\ v11 = 0 /\ v12 = 0 /\ v13 = 0 /\ v14 = 0 /\ v15 = 0 /\ v16 = 0 /\ v17 = 0
  \/ part = "whatsapp" /\ Numbers!Init
  \/ part = "instagram" /\ Grams!Init /\ v12 = 0 /\ v13 = 0 /\ v14 = 0 /\ v15 = 0 /\ v16 = 0 /\ v17 = 0
  \/ part = "cast" /\ Casts!Init /\ v13 = 0 /\ v14 = 0 /\ v15 = 0 /\ v16 = 0 /\ v17 = 0

MCNext ==
  \/ part = "web" /\ Web!Next /\ UNCHANGED <<part, v9, v10, v11, v12, v13, v14, v15, v16, v17>>
  \/ part = "media" /\ Files!Next /\ UNCHANGED <<part, v11, v12, v13, v14, v15, v16, v17>>
  \/ part = "pages" /\ Pages!Next /\ UNCHANGED <<part, v16, v17>>
  \/ part = "threads" /\ Threads!Next /\ UNCHANGED <<part, v9, v10, v11, v12, v13, v14, v15, v16, v17>>
  \/ part = "whatsapp" /\ Numbers!Next /\ UNCHANGED part
  \/ part = "instagram" /\ Grams!Next /\ UNCHANGED <<part, v12, v13, v14, v15, v16, v17>>
  \/ part = "cast" /\ Casts!Next /\ UNCHANGED <<part, v13, v14, v15, v16, v17>>

MCSpec == MCInit /\ [][MCNext]_vars

Symmetry == Permutations(Task) \cup Permutations(Party)

-----------------------------------------------------------------------------
(* The state of the component at work is well formed. *)
TypeOK ==
  /\ part = "web" => Web!TypeOK
  /\ part = "media" => Files!TypeOK
  /\ part = "pages" => Pages!TypeOK
  /\ part = "threads" => Threads!TypeOK
  /\ part = "whatsapp" => Numbers!TypeOK
  /\ part = "instagram" => Grams!TypeOK
  /\ part = "cast" => Casts!TypeOK

(***************************************************************************)
(* The web chat. Every tab that is listed and connected shows the room's   *)
(* history, complete and in order. A listed room has a writePump or is     *)
(* about to start one (see WebChat for the exception).                     *)
(***************************************************************************)
RoomsInStep ==
  part = "web" => Web!TabsInStep /\ Web!ListedIsServed

(***************************************************************************)
(* Facebook pages and WhatsApp numbers. The users a page holds tokens of   *)
(* are those who granted access and did not withdraw it. With no request   *)
(* under way, every page served is saved with its users. A number served   *)
(* belongs to a registered account that lists it. With no request under    *)
(* way, the accounts registered are those saved.                           *)
(***************************************************************************)
SavedAsServed ==
  /\ part = "pages" => Pages!AccountsAsGranted /\ Pages!ServedIsSaved
  /\ part = "whatsapp" => Numbers!ServedIsListed /\ Numbers!RegisteredIsSaved

(***************************************************************************)
(* Chats of the Meta platforms. A chat has the type of the platform its    *)
(* user writes on, across restarts. A reply leaves from the number the     *)
(* customer first wrote to. The words of one author never come into the    *)
(* chat of another. A chat keeps the page of what opened it, unless its    *)
(* author came new to two at once.                                         *)
(***************************************************************************)
ThreadsKept ==
  /\ part = "threads" => Threads!TypeKept
  /\ part = "whatsapp" => Numbers!RepliesFromFirst
  /\ part = "instagram" => Grams!NobodyElses /\ Grams!FirstPage

(***************************************************************************)
(* Uploads, posts and broadcasts. Every file of an answer is stored whole, *)
(* and within the limit where one applies. A part is refused only if it is *)
(* larger than the limit. What the settings asked for when it was posted   *)
(* is read, and nothing else. Every peer of a broadcast has the whole      *)
(* message and is bound, or is named once.                                 *)
(***************************************************************************)
AnsweredAsDone ==
  /\ part = "media" => Files!AnsweredWhole /\ Files!RefusedOnlyLarger
  /\ part = "instagram" => Grams!ReadWhenWanted
  /\ part = "cast" => Casts!NamedOrWhole
===================================================================================
