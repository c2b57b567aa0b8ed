-------------------------------- MODULE Catalog --------------------------------
(***************************************************************************)
(* The lists that are read from the chats: dialogs, their members,         *)
(* customers and an agent's chats with their counter, over the rows that   *)
(* the chats write.  An answer is computed from the rows by one statement, *)
(* so the lists are operators on the state; a list whose ORDER BY leaves   *)
(* rows equal has several answers.                                         *)
(***************************************************************************)
EXTENDS Naturals, Sequences, FiniteSets, SequencesExt

CONSTANTS
  Agent,       \* users that chat
  Arrival,     \* who may start a chat: a customer (chat.client) and a gateway
  Name,        \* the name of a customer, a number in its place in the alphabet
  Ask,         \* the requests for dialogs and customers that are looked at
  Size,        \* the size of a page
  MaxThread,   \* bound on the conversations
  MaxLeg,      \* bound on the agents' legs
  MaxNow       \* bound on the events

Customer == {a[1] : a \in Arrival}
Gate     == {a[2] : a \in Arrival}

(* What may be asked for: one's own dialogs or all, by state, peer or gateway. *)
All   == "all"
Query == [self : Agent \cup {All}, online : {"all", "yes", "no"}, peer : Agent \cup {All}, via : Gate \cup {All}]

VARIABLES
  threads,     \* chat.conversation with the customer's channel, by creation
  legs,        \* chat.invite and chat.channel of agents, joined by their id
  now,         \* the time
  owed         \* legs ended for an agent by others and not processed since

catalogVars == <<threads, legs, now, owed>>

Live == 0

TypeOK ==
  /\ Len(threads) <= MaxThread
  /\ \A t \in 1 .. Len(threads) :
       threads[t].cust \in Customer /\ threads[t].via \in Gate /\ {threads[t].last, threads[t].closed} \subseteq 0 .. MaxNow
  /\ Len(legs) <= MaxLeg
  /\ \A l \in 1 .. Len(legs) :
       /\ legs[l].thread \in 1 .. Len(threads) /\ legs[l].user \in Agent
       /\ legs[l].refused \in BOOLEAN /\ legs[l].join \in BOOLEAN /\ legs[l].left \in BOOLEAN
       /\ legs[l].need => legs[l].left
       /\ legs[l].left => legs[l].join
  /\ now \in 0 .. MaxNow /\ owed \subseteq 1 .. Len(legs)

Init == Ask \subseteq Query /\ threads = <<>> /\ legs = <<>> /\ now = 0 /\ owed = {}
-----------------------------------------------------------------------------
Threads == 1 .. Len(threads)
Legs    == 1 .. Len(legs)

Online(q, closed) == q.online = "all" \/ (q.online = "no" <=> closed)

(* Faulty variants of the definitions below. *)
SelfIgnored(q, l)       == q.via = All /\ q.peer \in {All, legs[l].user} /\ Online(q, legs[l].refused \/ legs[l].join)
CreatedOnly(a, b)       == a > b
LimitExact(s, p)        == SubSeq(s, (p - 1) * Size + 1, IF Len(s) < p * Size THEN Len(s) ELSE p * Size)
CountsBusy(a, c, u)     == Cardinality({l \in Legs : legs[l].user = a /\ legs[l].join /\ legs[l].left = c /\ legs[l].need = u})
NeverNeeds(cause)       == FALSE
InvitedToo(t, j)        == {l \in Legs : legs[l].thread = t}
-----------------------------------------------------------------------------
(* selectChatMember: the channels of a dialog that match, the customer's or an agent's ... *)
SelfIn(q, t) == q.self = All \/ \E l \in Legs : legs[l].thread = t /\ legs[l].user = q.self /\ legs[l].join

CustomerMatches(q, t) ==
  /\ q.peer = All /\ q.via \in {All, threads[t].via}
  /\ SelfIn(q, t) /\ Online(q, threads[t].closed # Live)

MemberMatches(q, l) ==
  /\ legs[l].join /\ q.peer \in {All, legs[l].user} /\ q.via = All
  /\ SelfIn(q, legs[l].thread) /\ Online(q, legs[l].left)

(* ... and the invitations, of any leg that began as one; none if a gateway is asked for. *)
InviteMatches(q, l) ==
  /\ q.via = All /\ q.peer \in {All, legs[l].user}
  /\ Online(q, legs[l].refused \/ legs[l].join)
  /\ q.self = All \/ \E k \in Legs : legs[k].thread = legs[l].thread /\ legs[k].user = q.self

(* selectChatThread, joined with the threads found *)
DialogMatches(q, t) ==
  /\ Online(q, threads[t].closed # Live)
  /\ \/ CustomerMatches(q, t)
     \/ \E l \in Legs : legs[l].thread = t /\ (MemberMatches(q, l) \/ InviteMatches(q, l))

(* ORDER BY of the threads: online first, newest first. *)
ThreadOrder(a, b) ==
  IF (threads[a].closed = Live) = (threads[b].closed = Live) THEN a > b ELSE threads[a].closed = Live

(* ORDER BY of the dialogs: online first, by the close or the last message. *)
DialogDate(t)     == IF threads[t].closed # Live THEN threads[t].closed ELSE threads[t].last
DialogOrder(a, b) ==
  IF (threads[a].closed = Live) = (threads[b].closed = Live) THEN DialogDate(a) > DialogDate(b) ELSE threads[a].closed = Live

(* OFFSET (page - 1) * size and LIMIT size + 1 *)
Page(s, p) == SubSeq(s, (p - 1) * Size + 1, IF Len(s) < p * Size + 1 THEN Len(s) ELSE p * Size + 1)

(* fetchDialogRows: up to the size, and whether there is one more. *)
Fetch(rows) == [data |-> SubSeq(rows, 1, IF Len(rows) < Size THEN Len(rows) ELSE Size), next |-> Len(rows) > Size]

(* Catalog.GetDialogs: the page of the threads found, and of that the page again. *)
GetDialogs(q, p) ==
  LET found == Page(SetToSortSeq({t \in Threads : DialogMatches(q, t)}, ThreadOrder), p)
  IN Fetch(Page(SetToSortSeq(ToSet(found), DialogOrder), p))

(* The members in a dialog: whoever has joined, the bot aside. *)
DialogMembers(t) == {l \in Legs : legs[l].thread = t /\ legs[l].join}

(* Catalog.GetMembers: channels LEFT JOIN invitations for joined, RIGHT JOIN for not joined, else FULL JOIN. *)
GetMembers(t, j) ==
  LET member == {l \in Legs : legs[l].thread = t /\ legs[l].join}
      invite == {l \in Legs : legs[l].thread = t}
  IN IF j = "yes" THEN member ELSE IF j = "no" THEN invite ELSE member \cup invite

(* Catalog.GetCustomers: each customer once, the gateways where he has written; by name. *)
CustomerVias(x) == {threads[t].via : t \in {u \in Threads : threads[u].cust = x}}
CustomersFound(q) == {x \in Customer : CustomerVias(x) # {} /\ (q.via = All \/ q.via \in CustomerVias(x))}
CustomerOrders(q) ==
  {s \in SetToSeqs(CustomersFound(q)) : \A i, j \in DOMAIN s : i < j => Name[s[i]] <= Name[s[j]]}
CustomerPage(s, p) == SubSeq(s, (p - 1) * Size + 1, IF Len(s) < p * Size + 1 THEN Len(s) ELSE p * Size + 1)
GetCustomers(q, p) == {Fetch(CustomerPage(s, p)) : s \in CustomerOrders(q)}

(* GetAgentChats, all pages at once: the agent's channels, closed or not and to be processed or not. *)
GetAgentChats(a, c, u) ==
  {l \in Legs : /\ legs[l].user = a /\ legs[l].join
                /\ legs[l].left = c /\ (c => ~ legs[l].busy)
                /\ legs[l].need = u}

(* GetAgentChatsCounter, a statement of its own. *)
GetAgentChatsCounter(a, c, u) ==
  Cardinality({l \in Legs : /\ legs[l].user = a /\ legs[l].join
                            /\ legs[l].left = c /\ (c => ~ legs[l].busy)
                            /\ legs[l].need = u})
-----------------------------------------------------------------------------
Tick == now < MaxNow /\ now' = now + 1

(* chatService.StartConversation: the conversation and the customer's channel. *)
Open(x, g) ==
  /\ Tick /\ Len(threads) < MaxThread
  /\ threads' = Append(threads, [cust |-> x, via |-> g, last |-> now + 1, closed |-> Live])
  /\ UNCHANGED <<legs, owed>>

(* chatService.SendMessage: the last message of the dialog. *)
Say(t) ==
  /\ Tick /\ threads[t].closed = Live
  /\ threads' = [threads EXCEPT ![t].last = now + 1]
  /\ UNCHANGED <<legs, owed>>

(* chatService.InviteToConversation; an attempt of the call center may be behind. *)
Invite(t, a, busy) ==
  /\ Tick /\ threads[t].closed = Live /\ Len(legs) < MaxLeg
  /\ legs' = Append(legs, [thread |-> t, user |-> a, refused |-> FALSE, join |-> FALSE, left |-> FALSE, need |-> FALSE, busy |-> busy])
  /\ UNCHANGED <<threads, owed>>

Pending(l) == ~ legs[l].join /\ ~ legs[l].refused

(* chatService.JoinConversation closes the invitation and makes the channel, of the same id. *)
JoinConversation(l) ==
  /\ Tick /\ Pending(l)
  /\ legs' = [legs EXCEPT ![l].join = TRUE]
  /\ UNCHANGED <<threads, owed>>

DeclineInvitation(l) ==
  /\ Tick /\ Pending(l)
  /\ legs' = [legs EXCEPT ![l].refused = TRUE]
  /\ UNCHANGED <<threads, owed>>

(* The agent did not end this himself. *)
LeaveNeeds(cause) == cause = "timeout"
CloseNeeds(cause) == cause = "client_leave"

(* sqlxRepository.CloseChannel *)
CloseChannel(l, cause) ==
  /\ Tick /\ legs[l].join /\ ~ legs[l].left
  /\ legs' = [legs EXCEPT ![l].left = TRUE, ![l].need = @ \/ LeaveNeeds(cause)]
  /\ owed' = IF cause = "timeout" THEN owed \cup {l} ELSE owed
  /\ UNCHANGED threads

(* sqlxRepository.CloseConversation: the invitations and the open channels with it. *)
CloseConversation(t, cause) ==
  LET open == {l \in Legs : legs[l].thread = t /\ legs[l].join /\ ~ legs[l].left}
  IN
  /\ Tick /\ threads[t].closed = Live
  /\ threads' = [threads EXCEPT ![t].closed = now + 1]
  /\ legs' = [l \in Legs |->
       IF l \in open THEN [legs[l] EXCEPT !.left = TRUE, !.need = @ \/ CloseNeeds(cause)]
       ELSE IF legs[l].thread = t /\ Pending(l) THEN [legs[l] EXCEPT !.refused = TRUE] ELSE legs[l]]
  /\ owed' = IF cause = "client_leave" THEN owed \cup open ELSE owed

(* The call center is done with the attempt. *)
AttemptLeaves(l) ==
  /\ Tick /\ legs[l].busy
  /\ legs' = [legs EXCEPT ![l].busy = FALSE]
  /\ UNCHANGED <<threads, owed>>

(* MarkChatProcessed by an agent that has a channel there: the marks of all channels go. *)
MarkChatProcessed(t, a) ==
  /\ Tick
  /\ \E l \in Legs : legs[l].thread = t /\ legs[l].user = a /\ legs[l].join
  /\ \E l \in Legs : legs[l].thread = t /\ legs[l].need
  /\ legs' = [l \in Legs |-> IF legs[l].thread = t THEN [legs[l] EXCEPT !.need = FALSE] ELSE legs[l]]
  /\ owed' = {l \in owed : legs[l].thread # t}
  /\ UNCHANGED threads

Next ==
  \/ \E a \in Arrival : Open(a[1], a[2])
  \/ \E t \in Threads : Say(t)
  \/ \E t \in Threads, a \in Agent, busy \in BOOLEAN : Invite(t, a, busy)
  \/ \E l \in Legs : JoinConversation(l) \/ DeclineInvitation(l) \/ AttemptLeaves(l)
  \/ \E l \in Legs, cause \in {"agent_leave", "timeout"} : CloseChannel(l, cause)
  \/ \E t \in Threads, cause \in {"agent_leave", "client_leave"} : CloseConversation(t, cause)
  \/ \E t \in Threads, a \in Agent : MarkChatProcessed(t, a)

Spec == Init /\ [][Next]_catalogVars
-----------------------------------------------------------------------------
(***************************************************************************)
(* Who asks for his own dialogs gets, on any page, only those where he has *)
(* been a member or been invited.                                          *)
(***************************************************************************)
OwnDialogsOnly ==
  \A q \in Ask, p \in {1, 2} : q.self # All =>
    \A t \in ToSet(GetDialogs(q, p).data) : \E l \in Legs : legs[l].thread = t /\ legs[l].user = q.self

(***************************************************************************)
(* The first page of dialogs has all that match unless it says that there  *)
(* are more, and then it is full; no closed one is there for an open one.  *)
(***************************************************************************)
FirstPageRight ==
  \A q \in Ask :
    LET a     == GetDialogs(q, 1)
        match == {t \in Threads : DialogMatches(q, t)}
    IN /\ a.next <=> Cardinality(match) > Size
       /\ ~ a.next => ToSet(a.data) = match
       /\ a.next => Len(a.data) = Size
       /\ (\E t \in ToSet(a.data) : threads[t].closed # Live) =>
            \A t \in match : threads[t].closed = Live => t \in ToSet(a.data)

(***************************************************************************)
(* The pages of customers have each of them once; only one whose name      *)
(* another one has too may be there twice or be left out.                  *)
(***************************************************************************)
CustomersOnce ==
  \A q \in Ask :
    \A a \in GetCustomers(q, 1) : \A b \in IF a.next THEN GetCustomers(q, 2) ELSE {Fetch(<<>>)} :
      LET once  == {x \in CustomersFound(q) : \A y \in CustomersFound(q) \ {x} : Name[x] # Name[y]}
          pages == a.data \o b.data
      IN /\ ~ b.next => once \subseteq ToSet(pages)
         /\ \A i, j \in DOMAIN pages : pages[i] = pages[j] /\ pages[i] \in once => i = j

(* A dialog shows the members that GetMembers lists as joined. *)
MembersAgree == \A t \in Threads : DialogMembers(t) = GetMembers(t, "yes")

(* The counter of an agent's chats counts what the list shows. *)
CounterAgrees ==
  \A a \in Agent, c, u \in BOOLEAN : GetAgentChatsCounter(a, c, u) = Cardinality(GetAgentChats(a, c, u))

(***************************************************************************)
(* A chat that ended for an agent by a timeout or the customer's leaving   *)
(* is among his chats to be processed until somebody marks it, as soon as  *)
(* the call center is done with it.                                        *)
(***************************************************************************)
OwedListed == \A l \in owed : ~ legs[l].busy => l \in GetAgentChats(legs[l].user, TRUE, TRUE)
===============================================================================
