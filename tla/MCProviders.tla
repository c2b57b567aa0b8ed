-------------------------------- MODULE MCProviders --------------------------------
(***************************************************************************)
(* The other messengers: Telegram, Telegram by a user's account, Viber,    *)
(* VK, WhatsApp by Infobip, Corezoid, the custom gateway, and the          *)
(* keyboards of all. They share no state: a behaviour is one of them at    *)
(* work, and v1, v2 ... are its variables, 0 where it has fewer.           *)
(***************************************************************************)
EXTENDS Integers, Sequences, FiniteSets, TLC

CONSTANTS
  Task, Party,              \* requests under way at one time; users, agents, bots or peers
  Inward, Outward,          \* Telegram: what a customer does who only writes, and one who is written to
  MaxUpdates, MaxUpdatesOut, MaxNotices, MaxWaits,
  MaxTokens, MaxLogins, MaxKeys,                \* an account signed in
  Written, Listed, WhoIs, Part, MaxLetters, MaxNotes, MaxFloods,   \* its chats and broadcasts
  MaxEvents, MaxSends,                          \* Viber
  Writer, Group, Wall, MaxPosts, MaxPostsOut,   \* VK
  Customer, Number, Batched, MaxObj, MaxBatches,   \* Infobip
  ChatId, Occasion, MaxEnds, MaxChats, MaxReports,   \* the custom gateway
  MaxState, MaxTold,                            \* Corezoid
  MaxFails                  \* bound on failures and restarts, of each

VARIABLES
  part,    \* the component at work
  v1, v2, v3, v4, v5, v6, v7, v8, v9, v10, v11, v12, v13, v14

vars == <<part, v1, v2, v3, v4, v5, v6, v7, v8, v9, v10, v11, v12, v13, v14>>

(* Keyboards of every kind of button, with a second code for one; long ones of two kinds. *)
Buttons == [type : {"reply", "postback", "switch", "url", "badurl", "contact", "phone", "location", "email", "clear",
                    "remove"}, code : {"x"}]
             \cup {[type |-> "reply", code |-> "y"]}
Fillers == [type : {"reply", "email"}, code : {"x"}]

(* What a customer does who only writes, and one who is written to. *)
Writes == {"text", "edit", "file", "callback", "kicked"}
Rarely == {"text", "kicked"}

(* Letters of the customer, files around the size of a part; broadcasts to known and unknown names. *)
Letters == {[what |-> w, size |-> 0] : w \in {"out", "text", "poll"}} \cup {[what |-> "file", size |-> s] : s \in 1 .. 4}
PeerOf  == [x \in {"a", "b", "c", "x"} |->
              CASE x \in {"a", "c"} -> "p1" [] x = "b" -> "p2" [] OTHER -> "none"]
Casts   == {<<"a", "b", "c">>, <<"x", "a">>, <<"b">>}

(* A letter with files, one of which cannot be had, and one with something unknown, in a conversation. *)
Posts == {[from |-> "u1", peer |-> "u1", atts |-> <<"broken", "file">>, geo |-> TRUE, text |-> TRUE],
          [from |-> "u1", peer |-> "g1", atts |-> <<"file", "odd">>, geo |-> FALSE, text |-> TRUE],
          [from |-> "u1", peer |-> "g1", atts |-> <<>>, geo |-> FALSE, text |-> TRUE]}

(* Batches of messages to two numbers of the business, with kinds that are passed over. *)
Message(n, k) == [from |-> "c1", to |-> n, kind |-> k]
Batches == {<<Message("n1", "text"), Message("n2", "file")>>, <<Message("n2", "odd"), Message("n2", "text")>>,
            <<Message("n1", "none")>>}

Tg(Deed, U, N) == INSTANCE Telegram
  WITH Does <- Deed, Hook <- Task, MaxUpdates <- U, MaxNotices <- N, MaxLost <- MaxFails, updates <- v1,
       pending <- v2, webhook <- v3, open <- v4, history <- v5, dropped <- v6, redone <- v7, disturbed <- v8,
       letters <- v9, lost <- v10

Login == INSTANCE GotdLogin
  WITH User <- Party, MaxAsked <- MaxLogins, MaxFaults <- MaxFails, authz <- v1, data <- v2,
       meta <- v3, login <- v4, issued <- v5, sub <- v6, buf <- v7, rt <- v8, peersOf <- v9, op <- v10,
       askedTg <- v11, keys <- v12, faultsTg <- v13, overtaken <- v14

Gotd == INSTANCE GotdChat
  WITH Letter <- Written, Cast <- Listed, PeerOf <- WhoIs, MaxWaits <- MaxFloods, letters <- v1, cur <- v2,
       chat <- v3, readTo <- v4, told <- v5, notes <- v6, cast <- v7, waits <- v8

Vb == INSTANCE Viber
  WITH Event <- Task, Peer <- Party, MaxFailsVb <- MaxFails, subscribed <- v1, open <- v2, talk <- v3, ev <- v4,
       mixed <- v5, gone <- v6, cast <- v7, events <- v8, sends <- v9, failsVb <- v10

Vk(P, N) == INSTANCE VK
  WITH User <- Writer, Talk <- Group, Letter <- Wall, MaxPosts <- P, MaxNotes <- N, MaxFailsVk <- MaxFails,
       post <- v1, acked <- v2, contacts <- v3, internal <- v4, known <- v5, read <- v6, again <- v7,
       note <- v8, posts <- v9, notes <- v10, failsVk <- v11

Ib == INSTANCE Infobip
  WITH Batch <- Batched, MaxPosts <- MaxBatches, MaxFailsIb <- MaxFails, number <- v1, hook <- v2, ackedIb <- v3,
       againIb <- v4, obj <- v5, external <- v6, conv <- v7, opened <- v8, convs <- v9, stale <- v10,
       readIb <- v11, sentIb <- v12, postsIb <- v13, failsIb <- v14

Customs == INSTANCE Custom
  WITH Hook <- Task, Cast <- Occasion, MaxAsked <- MaxEnds, conv <- v1, chats <- v2, ends <- v3, closeQueue <- v4,
       hook <- v5, asked <- v6, withheld <- v7, overlapped <- v8, cast <- v9, inSync <- v10, shut <- v11,
       reports <- v12, died <- v13

Cz == INSTANCE Corezoid
  WITH Agent <- Party, Notify <- Task, MaxNotices <- MaxTold, MaxCrash <- MaxFails, states <- v1, props <- v2,
       started <- v3, stored <- v4, incoming <- v5, notice <- v6, here <- v7, said <- v8, crossed <- v9, made <- v10,
       noticed <- v11, crashes <- v12

Kb == INSTANCE Keyboards
  WITH Button <- Buttons, Filler <- Fillers, MaxMixed <- 3, MaxButtons <- 6, grid <- v1

(***************************************************************************)
(* What the proofs take for granted: bounds are numbers, a list of tokens  *)
(* has room for one, names differ from the marks for "nobody", a letter is *)
(* from a user, in his own chat or in a conversation, and a message of a   *)
(* batch is from a customer to a number.                                   *)
(***************************************************************************)
ASSUME LoginAssumption ==
  MaxTokens \in Nat \ {0} /\ MaxLogins \in Nat /\ MaxKeys \in Nat /\ MaxFails \in Nat

ASSUME ViberAssumption == MaxEvents \in Nat /\ MaxSends \in Nat /\ MaxFails \in Nat

ASSUME VkAssumption ==
  /\ MaxPosts \in Nat /\ MaxPostsOut \in Nat /\ MaxNotes \in Nat /\ MaxFails \in Nat
  /\ "none" \notin Writer \cup Group /\ Writer \cap Group = {}
  /\ \A l \in Wall : /\ l.from \in Writer /\ l.peer \in {l.from} \cup Group
                     /\ l.geo \in BOOLEAN /\ l.text \in BOOLEAN /\ Vk(0, 0)!Decoded(l) \in Seq(STRING)

ASSUME InfobipAssumption ==
  /\ MaxObj \in Nat /\ MaxBatches \in Nat /\ MaxFails \in Nat
  /\ "none" \notin Number
  /\ \A b \in Batched : b \in Seq([from : Customer, to : Number, kind : STRING])

ASSUME CorezoidAssumption ==
  /\ MaxState \in Nat /\ MaxTold \in Nat /\ MaxFails \in Nat
  /\ "nobody" \notin Party /\ "" \notin Party /\ "bot" \notin Party

ASSUME CustomAssumption ==
  /\ MaxEnds \in Nat /\ MaxChats \in Nat /\ MaxReports \in Nat
  /\ IsFiniteSet(Task)

MCInit ==
  \/ part = "telegram" /\ Tg(Inward, MaxUpdates, 0)!Init /\ v11 = 0 /\ v12 = 0 /\ v13 = 0 /\ v14 = 0
  \/ part = "notices" /\ Tg(Outward, MaxUpdatesOut, MaxNotices)!Init /\ v11 = 0 /\ v12 = 0 /\ v13 = 0 /\ v14 = 0
  \/ part = "login" /\ Login!Init
  \/ part = "gotd" /\ Gotd!Init /\ v9 = 0 /\ v10 = 0 /\ v11 = 0 /\ v12 = 0 /\ v13 = 0 /\ v14 = 0
  \/ part = "viber" /\ Vb!Init /\ v11 = 0 /\ v12 = 0 /\ v13 = 0 /\ v14 = 0
  \/ part = "vk" /\ Vk(MaxPosts, 0)!Init /\ v12 = 0 /\ v13 = 0 /\ v14 = 0
  \/ part = "vkNotes" /\ Vk(MaxPostsOut, MaxNotes)!Init /\ v12 = 0 /\ v13 = 0 /\ v14 = 0
  \/ part = "infobip" /\ Ib!Init
  \/ part = "custom" /\ Customs!Init /\ v14 = 0
  \/ part = "corezoid" /\ Cz!Init /\ v13 = 0 /\ v14 = 0
  \/ part = "keyboard" /\ Kb!Init
       /\ v2 = 0 /\ v3 = 0 /\ v4 = 0 /\ v5 = 0 /\ v6 = 0 /\ v7 = 0 /\ v8 = 0 /\ v9 = 0 /\ v10 = 0 /\ v11 = 0 /\ v12 = 0 /\ v13 = 0 /\ v14 = 0

MCNext ==
  \/ part = "telegram" /\ Tg(Inward, MaxUpdates, 0)!Next /\ UNCHANGED <<part, v11, v12, v13, v14>>
  \/ part = "notices" /\ Tg(Outward, MaxUpdatesOut, MaxNotices)!Next /\ UNCHANGED <<part, v11, v12, v13, v14>>
  \/ part = "login" /\ Login!Next /\ UNCHANGED part
  \/ part = "gotd" /\ Gotd!Next /\ UNCHANGED <<part, v9, v10, v11, v12, v13, v14>>
  \/ part = "viber" /\ Vb!Next /\ UNCHANGED <<part, v11, v12, v13, v14>>
  \/ part = "vk" /\ Vk(MaxPosts, 0)!Next /\ UNCHANGED <<part, v12, v13, v14>>
  \/ part = "vkNotes" /\ Vk(MaxPostsOut, MaxNotes)!Next /\ UNCHANGED <<part, v12, v13, v14>>
  \/ part = "infobip" /\ Ib!Next /\ UNCHANGED part
  \/ part = "custom" /\ Customs!Next /\ UNCHANGED <<part, v14>>
  \/ part = "corezoid" /\ Cz!Next /\ UNCHANGED <<part, v13, v14>>
  \/ part = "keyboard" /\ Kb!Next /\ UNCHANGED <<part, v2, v3, v4, v5, v6, v7, v8, v9, v10, v11, v12, v13, v14>>

MCSpec == MCInit /\ [][MCNext]_vars

Symmetry == Permutations(Task) \cup Permutations(Party)

-----------------------------------------------------------------------------
(* The state of the component at work is well formed. *)
TypeOK ==
  /\ part = "telegram" => Tg(Inward, MaxUpdates, 0)!TypeOK
  /\ part = "notices" => Tg(Outward, MaxUpdatesOut, MaxNotices)!TypeOK
  /\ part = "login" => Login!TypeOK
  /\ part = "gotd" => Gotd!TypeOK
  /\ part = "viber" => Vb!TypeOK
  /\ part = "vk" => Vk(MaxPosts, 0)!TypeOK
  /\ part = "vkNotes" => Vk(MaxPostsOut, MaxNotes)!TypeOK
  /\ part = "infobip" => Ib!TypeOK
  /\ part = "custom" => Customs!TypeOK
  /\ part = "corezoid" => Cz!TypeOK
  /\ part = "keyboard" => Kb!TypeOK

(***************************************************************************)
(* What the customer sends. An update acknowledged is in the history once  *)
(* (see Telegram for the exceptions). The history shows the newest text    *)
(* that was taken, unless two versions were under way. A message's file is *)
(* the customer's to the last byte. A message answered with "ok" is in the *)
(* chat whole, and twice only if posted again. A batch answered with 200   *)
(* is in the chats whole, and twice only if posted again.                  *)
(***************************************************************************)
AckedIsRead ==
  /\ part = "telegram" => Tg(Inward, MaxUpdates, 0)!AckedStoredOnce /\ Tg(Inward, MaxUpdates, 0)!NewestShown
  /\ part = "notices" => Tg(Outward, MaxUpdatesOut, MaxNotices)!AckedStoredOnce /\ Tg(Outward, MaxUpdatesOut, MaxNotices)!NewestShown
  /\ part = "gotd" => Gotd!FileWhole
  /\ part = "vk" => Vk(MaxPosts, 0)!AckedWhole
  /\ part = "vkNotes" => Vk(MaxPostsOut, MaxNotes)!AckedWhole
  /\ part = "infobip" => Ib!BatchWhole

(***************************************************************************)
(* What is sent to customers. A notice reaches the customer at most once,  *)
(* through the waits Telegram asks for. A notice is shown once, although a *)
(* new member comes back as a message. A broadcast's answer reports        *)
(* whoever was not sent the message, once. A broadcast names every peer    *)
(* its text or file did not reach. Every peer whom the file reached sees   *)
(* its caption once (see Viber for the exceptions). The server is not told *)
(* of an end at most as often as it asked for one. A broadcast that waits  *)
(* for a report has someone who will end the wait.                         *)
(***************************************************************************)
SentOnce ==
  /\ part = "telegram" => Tg(Inward, MaxUpdates, 0)!SentAtMostOnce
  /\ part = "notices" => Tg(Outward, MaxUpdatesOut, MaxNotices)!SentAtMostOnce
  /\ part = "gotd" => Gotd!NoticeOnce /\ Gotd!AnswerComplete
  /\ part = "viber" => Vb!UnreachedNamed /\ Vb!CaptionOnce
  /\ part = "custom" => Customs!WithheldOnlyAsked /\ Customs!WaitHasEnd

(***************************************************************************)
(* Chats, peers and numbers. A message is read into the chat of its peer   *)
(* (see VK for the exception). A customer is answered from the number with *)
(* which he opened the chat. A welcome opens a chat and never comes into   *)
(* one that goes on. The chat of a customer who left ends, at the latest   *)
(* with the first refusal. The operator a reply names is in the chat,      *)
(* unless two requests met. While an operator is named, the binding stored *)
(* is his.                                                                 *)
(***************************************************************************)
ChatsKept ==
  /\ part = "viber" => Vb!WelcomeFirst /\ Vb!GoneIsClosed
  /\ part = "vk" => Vk(MaxPosts, 0)!OwnChat
  /\ part = "vkNotes" => Vk(MaxPostsOut, MaxNotes)!OwnChat
  /\ part = "infobip" => Ib!AnsweredFromOpened
  /\ part = "corezoid" => Cz!NamedIsHere /\ Cz!OperatorStored

(***************************************************************************)
(* The account of a Telegram gateway. The key an account is signed in with *)
(* is in the database, for the next start. The cached peers are those of   *)
(* the account that is signed in. The logout tokens kept are the newest,   *)
(* newest first.                                                           *)
(***************************************************************************)
LoginKept ==
  part = "login" => Login!LoginSaved /\ Login!PeersOfUser /\ Login!TokensNewestFirst

(***************************************************************************)
(* Keyboards. What a keyboard lets the customer send back is in the stored *)
(* keyboard. The stored keyboard has no empty row, unless a button has a   *)
(* wrong address. "clear" takes the keyboard away in the stored message,   *)
(* on Telegram, Viber and VK alike. Viber's lines are the rows of the      *)
(* layout, less the buttons it does not know.                              *)
(***************************************************************************)
KeyboardsAgree ==
  part = "keyboard" => Kb!OfferedIsStored /\ Kb!StoredRowsFull /\ Kb!ClearAgrees /\ Kb!LinesAreRows
====================================================================================
