-------------------------------- MODULE MCServices --------------------------------
(***************************************************************************)
(* The services around the chats: the bot service, the rows of clients,    *)
(* the router of events, broadcasts, and what is read from the chats. They *)
(* share no state here: a behaviour is one of them at work and the others  *)
(* at rest.                                                                *)
(***************************************************************************)
EXTENDS Integers, Sequences, FiniteSets, TLC

CONSTANTS
  Task,     \* requests under way at one time
  Party,    \* users, agents, bots or peers
  CastRequest,  \* broadcasts asked for
  Node, Key, MaxFails,      \* gateways' nodes, names of variables, failures
  Licence, MaxObj, MaxReq   \* bots of the licence, gateways of a bot, requests

ASSUME ServicesAssumption ==
  /\ Licence \in Nat /\ MaxObj \in Nat /\ MaxReq \in Nat /\ MaxFails \in Nat
  /\ IsFiniteSet(Party) /\ "leg" \notin Party /\ "none" \notin Node

VARIABLES
  part,    \* the component at work
  row, objs, run, route, hook, chan, req, mixed, outdated, older, overlap, begun, fails,
  home, moved, client, open, objC, map, op, reads, strayed, remade, astray, moves, failsCo,
  seat, view, task, up, host, served, props, wrote, crossed, shared, failsEv,
  request, body, at, step, txn, rows, uploads, sentTo, failure, lastId,
  msgs, closed, ask, got, answer, begin, late, shrunk,
  threads, legs, now, owed

botVars       == <<row, objs, run, route, hook, chan, req, mixed, outdated, older, overlap, begun, fails>>
contactVars   == <<home, moved, client, open, objC, map, op, reads, strayed, remade, astray, moves, failsCo>>
eventVars     == <<seat, view, task, up, host, served, props, wrote, crossed, shared, failsEv>>
broadcastVars == <<request, body, at, step, txn, rows, uploads, sentTo, failure, lastId>>
historyVars   == <<msgs, closed, ask, got, answer, begin, late, shrunk>>
catalogVars   == <<threads, legs, now, owed>>
vars == <<part, botVars, contactVars, eventVars, broadcastVars, historyVars, catalogVars>>

(* Two persons and their numbers. *)
FirstNumber == [p \in {"a", "b"} |-> IF p = "a" THEN "e1" ELSE "e2"]

(* Messages of two chats; requests of every method, by id and by date, and of every kind of size. *)
Form == {[chat |-> 1, who |-> "bot", kind |-> "", tick |-> 0], [chat |-> 1, who |-> "ext", kind |-> "k", tick |-> 1],
         [chat |-> 2, who |-> "ext", kind |-> "", tick |-> 1]}
Get(m, b, s, p, k) ==
  [method |-> m, by |-> b, size |-> s, peer |-> p, skip |-> k, from |-> IF m = "updates" THEN 1 ELSE 0,
   page |-> 1, calls |-> 0]
Gets == {Get("history", "id", 1, "user", FALSE), Get("history", "id", 0, "chat", TRUE),
         Get("history", "date", 1, "user", FALSE), Get("updates", "id", 1, "user", FALSE),
         Get("updates", "id", 0, "user", TRUE), Get("case", "id", -1, "chat", FALSE),
         Get("contact", "id", 1, "user", FALSE), Get("contactChat", "id", 0, "chat", FALSE)}

(* Two customers with the same name; dialogs of everybody, of an agent, and by state, member and gateway. *)
Names    == [c \in {"x", "y", "z"} |-> IF c = "z" THEN 2 ELSE 1]
Arrivals == {<<"x", "g1">>, <<"y", "g1">>, <<"z", "g2">>}
Find(s, o, p, v) == [self |-> s, online |-> o, peer |-> p, via |-> v]
Finds == {Find("all", "all", "all", "all"), Find("a1", "all", "all", "all"), Find("a1", "yes", "a2", "all"),
          Find("all", "no", "all", "g1")}

(* Two peers of every pair of types, three of some, with a file or without; and what is refused at once. *)
To(t)  == [type |-> t, valid |-> TRUE]
Peers  == {To("gotd"), To("social"), To("custom"), To("portal"), [To("portal") EXCEPT !.valid = FALSE], To("unknown")}
Cast(p, u, f) == [peers |-> p, user |-> u, text |-> TRUE, file |-> f, vars |-> TRUE]
Requests ==
  {Cast(p, u, f) : p \in Peers \X Peers, u \in BOOLEAN, f \in {"none", "url", "id", "zero"}}
  \cup {Cast(p, FALSE, f) : p \in {<<To("social"), To("portal"), To("social")>>, <<To("gotd"), To("custom"), To("portal")>>},
                            f \in {"url", "id"}}
  \cup {Cast(<<To("social")>>, FALSE, f) : f \in {"both", "badId", "badSource"}}
  \cup {[Cast(<<To("social")>>, FALSE, "none") EXCEPT !.text = FALSE]}

Bots == INSTANCE BotService WITH Bot <- Party, Req <- Task, Limit <- Licence

Persons == INSTANCE Contacts
  WITH Person <- {"a", "b"}, Phone <- {"e1", "e2", "e3"}, Bot <- {"g1"}, Home <- FirstNumber, MaxClient <- 3,
       MaxObj <- 3, MaxMoves <- 2, MaxReads <- 3, MaxFailsCo <- 1

Gateways == INSTANCE Contacts
  WITH Person <- {"a"}, Phone <- {"e1", "e2"}, Bot <- {"g1", "g2"}, Home <- [p \in {"a"} |-> "e1"],
       MaxClient <- 2, MaxObj <- 3, MaxMoves <- 1, MaxReads <- 3, MaxFailsCo <- 1

Events == INSTANCE Events WITH Seat <- Party, Leg <- "leg"

Broadcasts == INSTANCE Broadcast WITH Request <- CastRequest

Histories == INSTANCE History
  WITH Form <- Form, Ask <- Gets, MaxMsg <- 3, MaxPage <- 3, Default <- 2

Catalogs == INSTANCE Catalog
  WITH Agent <- {"a1", "a2"}, Arrival <- Arrivals, Name <- Names, Ask <- Finds, Size <- 1, MaxThread <- 3,
       MaxLeg <- 2, MaxNow <- 5

ASSUME RequestAssumption == CastRequest \subseteq Broadcasts!InputRequest

MCInit ==
  /\ part \in {"bots", "persons", "gateways", "events", "broadcast", "history", "catalog"}
  /\ Bots!Init /\ Events!Init /\ Broadcasts!Init /\ Histories!Init /\ Catalogs!Init
  /\ part # "gateways" => Persons!Init
  /\ part = "gateways" => Gateways!Init
  /\ part # "events" => seat = [s \in Party |-> "none"]

MCNext ==
  \/ /\ part = "bots" /\ Bots!Next
     /\ UNCHANGED <<part, contactVars, eventVars, broadcastVars, historyVars, catalogVars>>
  \/ /\ \/ part = "persons" /\ Persons!Next
        \/ part = "gateways" /\ Gateways!Next
     /\ UNCHANGED <<part, botVars, eventVars, broadcastVars, historyVars, catalogVars>>
  \/ /\ part = "events" /\ Events!Next
     /\ UNCHANGED <<part, botVars, contactVars, broadcastVars, historyVars, catalogVars>>
  \/ /\ part = "broadcast" /\ Broadcasts!Next
     /\ UNCHANGED <<part, botVars, contactVars, eventVars, historyVars, catalogVars>>
  \/ /\ part = "history" /\ Histories!Next
     /\ UNCHANGED <<part, botVars, contactVars, eventVars, broadcastVars, catalogVars>>
  \/ /\ part = "catalog" /\ Catalogs!Next
     /\ UNCHANGED <<part, botVars, contactVars, eventVars, broadcastVars, historyVars>>

MCSpec == MCInit /\ [][MCNext]_vars

Symmetry == Permutations(Task) \cup Permutations(Party)

-----------------------------------------------------------------------------
(* The state of the component at work is well formed. *)
TypeOK ==
  /\ part = "bots" => Bots!TypeOK
  /\ part = "persons" => Persons!TypeOK
  /\ part = "gateways" => Gateways!TypeOK
  /\ part = "events" => Events!TypeOK
  /\ part = "broadcast" => Broadcasts!TypeOK
  /\ part = "history" => Histories!TypeOK
  /\ part = "catalog" => Catalogs!TypeOK

(***************************************************************************)
(* The bot service. The bots enabled are within the licence, unless two    *)
(* requests overlap between their check and their write. With no request   *)
(* about it, a gateway runs as its row says, unless requests overlapped. A *)
(* deleted bot without channels does not run (see BotService for the two   *)
(* exceptions).                                                            *)
(***************************************************************************)
GatewaysAsStored ==
  part = "bots" => Bots!LimitKept /\ Bots!RunsAsStored /\ Bots!DeletedStops

(***************************************************************************)
(* Rows of clients, with two customers and with two bots. A person's       *)
(* messages to all the bots come under one row, also after a change of his *)
(* number. No two persons are taken for one when a number changes hands.   *)
(* Once a change has been handled, answers go to the new number.           *)
(***************************************************************************)
CustomersKnown ==
  /\ part = "persons" => Persons!OneRow /\ Persons!OneOwner /\ Persons!AnswersFollow
  /\ part = "gateways" => Gateways!OneRow /\ Gateways!OneOwner /\ Gateways!AnswersFollow

(***************************************************************************)
(* The router of events. An operator's client ends with the state of his   *)
(* seat, unless handlers about it overlapped. A change is announced to     *)
(* every operator who was in the chat at the commit and still is. The      *)
(* channel's host is the node that served it last, unless calls            *)
(* overlapped. A channel's variables are those written last, name by name. *)
(***************************************************************************)
MembersInformed ==
  part = "events" => Events!OwnViewRight /\ Events!ToldAll /\ Events!HostServed /\ Events!VarsKept

(***************************************************************************)
(* Broadcasts. A peer of a broadcast that the answer does not name was     *)
(* sent the message, and none is named twice. What a peer with a history   *)
(* was sent is in it, committed before the message left. A conversation    *)
(* made for a broadcast is stored whole or not at all, each with a message *)
(* of its own. The file of a broadcast is put into the storage once.       *)
(***************************************************************************)
BroadcastAnswered ==
  part = "broadcast" => /\ Broadcasts!AnswerComplete
                        /\ Broadcasts!SentIsStored
                        /\ Broadcasts!StoredWhole
                        /\ Broadcasts!UploadedOnce

(***************************************************************************)
(* What is read from the chats. A history followed to the end has every    *)
(* message stored at its start, and none twice. Updates polled by ids miss *)
(* only what was committed after a page had gone beyond it. A contact's    *)
(* closed chats, read to the end, are read whole unless something was      *)
(* deleted. Every message of an answer refers to its own sender. Who asks  *)
(* for his own dialogs gets none he never was in. The first page of        *)
(* dialogs is all that match, or is full and says that there are more. The *)
(* pages of customers have each of them once, unless two have one name. A  *)
(* dialog shows the members that GetMembers lists as joined. The counter   *)
(* of an agent's chats counts what the list shows. A chat that ended for   *)
(* an agent is among those to be processed until it is marked.             *)
(***************************************************************************)
ListsComplete ==
  /\ part = "history" => /\ Histories!HistoryWhole
                         /\ Histories!MissedOnlyLate
                         /\ Histories!ContactWhole
                         /\ Histories!SenderNamed
  /\ part = "catalog" => /\ Catalogs!OwnDialogsOnly
                         /\ Catalogs!FirstPageRight
                         /\ Catalogs!CustomersOnce
                         /\ Catalogs!MembersAgree
                         /\ Catalogs!CounterAgrees
                         /\ Catalogs!OwedListed
===================================================================================
