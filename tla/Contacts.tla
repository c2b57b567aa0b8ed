------------------------------- MODULE Contacts -------------------------------
(***************************************************************************)
(* Who a customer is: Gateway.GetChannel, by which every provider finds    *)
(* the chat of a customer, CheckSession behind it, which finds or makes    *)
(* the customer's row, and the change of a WhatsApp number.  The customers *)
(* are shared by all the bots; each bot has a map of channels in memory.   *)
(* A customer keeps his row when he changes his number only through that   *)
(* map: the notice gives the old number as the chat and the new one as the *)
(* contact.                                                                *)
(***************************************************************************)
EXTENDS Naturals, Sequences, FiniteSets

CONSTANTS
  Person, Phone, Bot,
  Home,      \* numbers the persons have at first
  MaxClient, \* bound on rows
  MaxObj,    \* bound on channel objects
  MaxMoves,  \* bound on changes of numbers
  MaxReads,  \* bound on messages
  MaxFailsCo \* bound on failed updates and restarts

None == "none"

VARIABLES
  home,    \* the number of a person
  moved,   \* notices of changes on their way: bot, person, old number, new number
  client,  \* chat.client: the external_id of every row
  open,    \* open chats: bot and row, with the stored externalChatID
  objC,    \* Channel objects: [bot, chatId, row, made]
  map,     \* Gateway.external of each bot
  op,      \* the GetChannel at work in a bot, which holds its loadMx
  reads,   \* messages read: person and row
  strayed, \* persons whose change of number could not be followed
  remade,  \* persons whose channel was made again by an answer after a change
  astray,  \* has an answer gone to a number that is not the customer's?
  moves, failsCo

contactVars == <<home, moved, client, open, objC, map, op, reads, strayed, remade, astray, moves, failsCo>>

Rest == [pc |-> "rest"]
Call == [pc : {"check", "create", "update", "done"}, kind : {"message", "changed", "send"}, who : Person,
         chatId : Phone, contact : Phone, o : 0 .. MaxObj]
Obj  == [bot : Bot, chatId : Phone, row : 1 .. MaxClient, made : Phone]

(* Types. *)
TypeOK ==
  /\ home \in [Person -> Phone] /\ strayed \subseteq Person /\ remade \subseteq Person
  /\ moved \subseteq Bot \X Person \X Phone \X Phone
  /\ \A i \in DOMAIN client : client[i] \in Phone
  /\ \A k \in open : k \in [bot : Bot, row : DOMAIN client, ext : Phone]
  /\ \A o \in DOMAIN objC : objC[o] \in Obj
  /\ map \in [Bot -> [Phone -> 0 .. Len(objC)]] /\ op \in [Bot -> Call \cup {Rest}]
  /\ \A g \in Bot, e \in Phone : map[g][e] # 0 => objC[map[g][e]].bot = g
  /\ astray \in BOOLEAN /\ moves \in 0 .. MaxMoves /\ failsCo \in 0 .. MaxFailsCo

Init ==
  /\ home = Home /\ moved = {} /\ client = <<>> /\ open = {} /\ objC = <<>>
  /\ map = [g \in Bot |-> [e \in Phone |-> 0]] /\ op = [g \in Bot |-> Rest]
  /\ reads = {} /\ strayed = {} /\ remade = {} /\ astray = FALSE /\ moves = 0 /\ failsCo = 0

OpenOf(g, i) == {k \in open : k.bot = g /\ k.row = i}
Owners(i)    == {r.who : r \in {x \in reads : x.row = i}}

(* A person takes another number, free and, where it was another's, told of; where he has written, the
   bots will be told. *)
Move(p, e) ==
  /\ moves < MaxMoves /\ moves' = moves + 1
  /\ \A q \in Person : home[q] # e
  /\ \A m \in moved : m[2] # p /\ m[3] # e
  /\ home' = [home EXCEPT ![p] = e]
  /\ moved' = IF \E r \in reads : r.who = p THEN moved \cup {<<g, p, home[p], e>> : g \in Bot} ELSE moved
  /\ strayed' = IF \E g \in Bot : op[g] # Rest /\ op[g].who = p THEN strayed \cup {p} ELSE strayed
  /\ UNCHANGED <<client, open, objC, map, op, reads, remade, astray, failsCo>>

(* The first lines of GetChannel: the lock, and the map looked up by the chat. *)
Locked(g, kind, p, chatId, contact) ==
  /\ op[g] = Rest
  /\ op' = [op EXCEPT ![g] =
       [pc |-> IF map[g][chatId] # 0 THEN "update" ELSE "check", kind |-> kind, who |-> p,
        chatId |-> chatId, contact |-> contact, o |-> map[g][chatId]]]

(* A customer's message, read before the notice of his change where that is still on its way. *)
Message(g, p) ==
  /\ Cardinality(reads) < MaxReads
  /\ Locked(g, "message", p, home[p], home[p])
  /\ strayed' = IF \E m \in moved : m[2] = p THEN strayed \cup {p} ELSE strayed
  /\ UNCHANGED <<home, moved, client, open, objC, map, reads, remade, astray, moves, failsCo>>

(* whatsAppOnSystemMsg: with the channel not in memory, the old row is not looked for. *)
Changed(g, m) ==
  /\ m \in moved /\ m[1] = g
  /\ Locked(g, "changed", m[2], m[3], m[4])
  /\ moved' = moved \ {m}
  /\ strayed' = IF map[g][m[3]] = 0 \/ \E i \in DOMAIN client : client[i] = m[4] THEN strayed \cup {m[2]}
                ELSE strayed
  /\ UNCHANGED <<home, client, open, objC, map, reads, remade, astray, moves, failsCo>>

(* Gateway.Send: an answer of the chat goes to the row's number. *)
Send(g, i) ==
  /\ OpenOf(g, i) # {} /\ Owners(i) # {}
  /\ \E p \in Owners(i) : Locked(g, "send", p, client[i], client[i])
  /\ UNCHANGED <<home, moved, client, open, objC, map, reads, strayed, remade, astray, moves, failsCo>>

AtOp(g, pc) == op[g] # Rest /\ op[g].pc = pc

MakeObj(g, ob) ==
  /\ Len(objC) < MaxObj
  /\ objC' = Append(objC, ob)
  /\ map' = [map EXCEPT ![g][ob.chatId] = Len(objC) + 1]
  /\ op' = [op EXCEPT ![g].pc = "update", ![g].o = Len(objC) + 1, ![g].chatId = ob.chatId]

Fresh(g, i) == [bot |-> g, chatId |-> op[g].chatId, row |-> i, made |-> op[g].chatId]

(* The channel made again from the open chat of row i takes the chat's externalChatID; a new one the
   chat that was asked for. *)
Found(g, i) ==
  IF OpenOf(g, i) = {} THEN Fresh(g, i)
  ELSE LET k == CHOOSE k \in OpenOf(g, i) : TRUE IN [bot |-> g, chatId |-> k.ext, row |-> i, made |-> k.ext]

(* Mutant: only rows with an open chat are looked for. *)
RowsOpen(g) == {i \in DOMAIN client : client[i] = op[g].contact /\ OpenOf(g, i) # {}}

(* GetClientByExternalID: the rows of the contact, of which the first read is taken. *)
RowsOf(g) == {i \in DOMAIN client : client[i] = op[g].contact}

(* CheckSession: the row of the contact and the open chat it has with this bot, or a new row. *)
CheckSession(g) ==
  /\ AtOp(g, "check")
  /\ \/ /\ RowsOf(g) = {}
        /\ op' = [op EXCEPT ![g].pc = "create"]
        /\ strayed' = strayed \cup {op[h].who : h \in {x \in Bot : AtOp(x, "create") /\ op[x].contact = op[g].contact}}
        /\ UNCHANGED <<objC, map, remade>>
     \/ \E i \in RowsOf(g) :
          /\ MakeObj(g, Found(g, i))
          /\ remade' = IF op[g].kind = "send" /\ Found(g, i).chatId # op[g].contact
                       THEN remade \cup {op[g].who} ELSE remade
          /\ UNCHANGED strayed
  /\ UNCHANGED <<home, moved, client, open, reads, astray, moves, failsCo>>

(* createClient: nothing keeps two bots from making the same one. *)
CreateClient(g) ==
  /\ AtOp(g, "create") /\ Len(client) < MaxClient
  /\ client' = Append(client, op[g].contact)
  /\ MakeObj(g, Fresh(g, Len(client) + 1))
  /\ UNCHANGED <<home, moved, open, reads, strayed, remade, astray, moves, failsCo>>

(* Mutant: the channel is found under the new number and the old. *)
BothNumbers(g) == [map[g] EXCEPT ![op[g].contact] = op[g].o]

(* The channel moves from the old number to the new one. *)
Moved(g) == [map[g] EXCEPT ![op[g].chatId] = 0, ![op[g].contact] = op[g].o]

(* Mutant: the row keeps the old number. *)
RowStays(g) == client

(* UpdateContact: the row takes the new number. *)
UpdateContact(g) == [client EXCEPT ![objC[op[g].o].row] = op[g].contact]

(* The end of GetChannel: the contact is not the chat, so the channel and the row change; an error of
   the store is ignored.  The account of an answer names the provider, not "whatsapp", and nothing is
   changed. *)
Update(g, ok) ==
  /\ AtOp(g, "update")
  /\ op' = [op EXCEPT ![g].pc = "done"]
  /\ IF op[g].contact # op[g].chatId /\ op[g].kind # "send"
     THEN /\ objC' = [objC EXCEPT ![op[g].o].chatId = op[g].contact]
          /\ map' = [map EXCEPT ![g] = Moved(g)]
          /\ client' = IF ok THEN UpdateContact(g) ELSE client
          /\ IF ok THEN UNCHANGED <<strayed, failsCo>>
             ELSE failsCo < MaxFailsCo /\ failsCo' = failsCo + 1 /\ strayed' = strayed \cup {op[g].who}
     ELSE ok /\ UNCHANGED <<objC, map, client, strayed, failsCo>>
  /\ UNCHANGED <<home, moved, open, reads, remade, astray, moves>>

(* What the caller does with the channel: a message is read into its chat, started if there is none, an
   answer is sent to its number, a change needs nothing more. *)
Done(g) ==
  /\ AtOp(g, "done")
  /\ LET ob == objC[op[g].o] IN
     /\ open' = IF op[g].kind = "message" /\ OpenOf(g, ob.row) = {}
                THEN open \cup {[bot |-> g, row |-> ob.row, ext |-> ob.made]} ELSE open
     /\ reads' = IF op[g].kind = "message" THEN reads \cup {[who |-> op[g].who, row |-> ob.row]} ELSE reads
     /\ astray' = (astray \/ (/\ op[g].kind = "send" /\ ob.chatId # home[op[g].who]
                              /\ op[g].who \notin strayed /\ remade = {}
                              /\ \A m \in moved : m[2] # op[g].who))
  /\ op' = [op EXCEPT ![g] = Rest]
  /\ UNCHANGED <<home, moved, client, objC, map, strayed, remade, moves, failsCo>>

(* The chat is closed: the bot's channel is taken from the map. *)
Close(k) ==
  /\ k \in open /\ op[k.bot] = Rest /\ open' = open \ {k}
  /\ map' = [map EXCEPT ![k.bot] = [e \in Phone |->
               IF @[e] # 0 /\ objC[@[e]].row = k.row THEN 0 ELSE @[e]]]
  /\ UNCHANGED <<home, moved, client, objC, op, reads, strayed, remade, astray, moves, failsCo>>

Restart(g) ==
  /\ failsCo < MaxFailsCo /\ failsCo' = failsCo + 1
  /\ op[g] = Rest /\ map' = [map EXCEPT ![g] = [e \in Phone |-> 0]]
  /\ UNCHANGED <<home, moved, client, open, objC, op, reads, strayed, remade, astray, moves>>

Next ==
  \/ \E p \in Person, e \in Phone : Move(p, e)
  \/ \E g \in Bot, p \in Person : Message(g, p)
  \/ \E g \in Bot : \E m \in moved : Changed(g, m)
  \/ \E g \in Bot : \E i \in DOMAIN client : Send(g, i)
  \/ \E g \in Bot : CheckSession(g) \/ CreateClient(g) \/ Done(g) \/ Restart(g)
  \/ \E g \in Bot, ok \in BOOLEAN : Update(g, ok)
  \/ \E k \in open : Close(k)

Spec == Init /\ [][Next]_contactVars
-------------------------------------------------------------------------------
(* A person's messages to all the bots come under one row, also after he changed his number, except for
   one whose change could not be followed: it met no channel in memory, crossed a message of his, was not
   stored, or found the new number known; or whose row two bots made at once.  An answer that makes a
   channel again puts it under the old number, which may be another's by then: nobody is told apart
   with certainty after that. *)
OneRow == remade = {} => \A r, s \in reads : r.who = s.who /\ r.who \notin strayed => r.row = s.row

(* And no two persons are taken for one, when a number left by one is taken by another. *)
OneOwner == remade = {} => \A r, s \in reads : r.row = s.row /\ {r.who, s.who} \cap strayed = {} => r.who = s.who

(* Once a change has been handled, answers go to the new number. *)
AnswersFollow == ~astray
===============================================================================
