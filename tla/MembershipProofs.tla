-------------------------- MODULE MembershipProofs --------------------------
(***************************************************************************)
(* Proofs about Membership, for any number of conversations, users, tokens *)
(* and concurrent requests.                                                *)
(***************************************************************************)
EXTENDS Membership, TLAPS

-----------------------------------------------------------------------------
(* Facts about the types: what a request or a row is, seen from its pc or st. *)

JobType     == TokenJob \cup CloseJob \cup {Idle}
InviteType  == InviteRow \cup {NoRow}
ChannelType == ChannelRow \cup {NoRow}

Types ==
  /\ conv \in [Conv -> {"none", "open", "closed"}]
  /\ invite \in [Token -> InviteType]
  /\ channel \in [Token -> ChannelType]
  /\ timer \in [Token -> {"off", "armed", "fired"}]
  /\ job \in [Job -> JobType]
  /\ told \in [Token -> [Event -> Nat]]
  /\ broke \in [Token -> [BreakCause -> Nat]]
  /\ faults \in Nat

(* A request about a token carries a token and the flag of its caller. *)
LEMMA TokenJobs ==
  ASSUME NEW r \in JobType, r.pc \in TokenPC
  PROVE  r.t \in Token /\ r.xfer \in BOOLEAN
  BY DEF JobType, TokenJob, CloseJob, Idle, TokenPC

(* A request that closes a conversation carries it and the members it read. *)
LEMMA CloseJobs ==
  ASSUME NEW r \in JobType, r.pc \in {"closeNotify", "close"}
  PROVE  /\ r \in CloseJob
         /\ r.c \in Conv /\ r.rcpt \in SUBSET Token
         /\ [r EXCEPT !.pc = "close"] \in JobType
  BY DEF JobType, TokenJob, CloseJob, Idle, TokenPC

(* Requests that are built are requests. *)
LEMMA NewJobs ==
  /\ Idle \in JobType /\ Idle.pc = "idle"
  /\ \A pc \in TokenPC, t \in Token, xfer \in BOOLEAN :
       /\ [pc |-> pc, t |-> t, xfer |-> xfer] \in JobType
       /\ [pc |-> pc, t |-> t, xfer |-> xfer].pc = pc
       /\ [pc |-> pc, t |-> t, xfer |-> xfer].t = t
       /\ [pc |-> pc, t |-> t, xfer |-> xfer].xfer = xfer
  BY DEF JobType, TokenJob, Idle

(* Closing an invite that exists changes its st and nothing else. *)
LEMMA InviteCloses ==
  ASSUME NEW r \in InviteType, r.st # "none"
  PROVE  /\ r.conv \in Conv /\ r.user \in User /\ r.flow \in BOOLEAN /\ r.ttl \in BOOLEAN
         /\ r.st \in {"open", "closed"}
         /\ [r EXCEPT !.st = "closed"] \in InviteType
         /\ [r EXCEPT !.st = "closed"].st = "closed"
         /\ [r EXCEPT !.st = "closed"].conv = r.conv
         /\ [r EXCEPT !.st = "closed"].user = r.user
         /\ [r EXCEPT !.st = "closed"].flow = r.flow
         /\ r.st = "closed" => [r EXCEPT !.st = "closed"] = r
  BY DEF InviteType, InviteRow, NoRow

(* Closing a channel that exists changes its st and its cause. *)
LEMMA ChannelCloses ==
  ASSUME NEW r \in ChannelType, r.st # "none",
         NEW k \in {"leave", "transfer", "close"}
  PROVE  /\ r.st \in {"open", "closed"}
         /\ [r EXCEPT !.st = "closed", !.cause = k] \in ChannelType
         /\ [r EXCEPT !.st = "closed", !.cause = k].st = "closed"
         /\ [r EXCEPT !.st = "closed", !.cause = k].cause = k
         /\ [r EXCEPT !.st = "closed", !.cause = k].conv = r.conv
         /\ [r EXCEPT !.st = "closed", !.cause = k].user = r.user
<1>1. r \in ChannelRow
  BY DEF ChannelType, NoRow
<1>2. [r EXCEPT !.st = "closed", !.cause = k] \in ChannelRow
  BY <1>1 DEF ChannelRow
<1>3. /\ [r EXCEPT !.st = "closed", !.cause = k].st = "closed"
      /\ [r EXCEPT !.st = "closed", !.cause = k].cause = k
      /\ [r EXCEPT !.st = "closed", !.cause = k].conv = r.conv
      /\ [r EXCEPT !.st = "closed", !.cause = k].user = r.user
  BY <1>1 DEF ChannelRow
<1> QED
  BY <1>1, <1>2, <1>3 DEF ChannelType, ChannelRow

-----------------------------------------------------------------------------
(* What the handlers' assignments do to the tables. *)

(* A request moves on with a token it has. *)
LEMMA GotoTyped ==
  ASSUME job \in [Job -> JobType], NEW j \in Job, NEW pc \in TokenPC,
         NEW t \in Token, NEW xfer \in BOOLEAN, Goto(j, pc, t, xfer)
  PROVE  /\ job' \in [Job -> JobType]
         /\ job'[j].pc = pc /\ job'[j].t = t /\ job'[j].xfer = xfer
         /\ \A i \in Job : i # j => job'[i] = job[i]
<1> DEFINE r == [pc |-> pc, t |-> t, xfer |-> xfer]
<1>1. r \in JobType /\ r.pc = pc /\ r.t = t /\ r.xfer = xfer
  BY NewJobs
<1>2. job' = [job EXCEPT ![j] = r]
  BY DEF Goto
<1> HIDE DEF r
<1> QED
  BY <1>1, <1>2

(* A request that returns leaves the others alone. *)
LEMMA ReturnTyped ==
  ASSUME job \in [Job -> JobType], NEW j \in Job, Return(j)
  PROVE  /\ job' \in [Job -> JobType]
         /\ job'[j].pc = "idle"
         /\ \A i \in Job : i # j => job'[i] = job[i]
  BY NewJobs DEF Return

(* CloseInvite changes the st of the one row. *)
LEMMA InviteClosedTyped ==
  ASSUME invite \in [Token -> InviteType], NEW t \in Token, invite[t].st # "none",
         invite' = InviteClosed(t)
  PROVE  /\ invite' \in [Token -> InviteType]
         /\ invite'[t].st = "closed"
         /\ invite'[t].conv = invite[t].conv
         /\ invite'[t].user = invite[t].user
         /\ invite'[t].flow = invite[t].flow
         /\ \A s \in Token : s # t => invite'[s] = invite[s]
<1>1. invite[t] \in InviteType
  OBVIOUS
<1>2. invite'[t] = [invite[t] EXCEPT !.st = "closed"]
  BY DEF InviteClosed
<1>3. invite' = [invite EXCEPT ![t] = [invite[t] EXCEPT !.st = "closed"]]
  BY DEF InviteClosed
<1> QED
  BY <1>1, <1>2, <1>3, InviteCloses

(* CloseChannel changes the st and the cause of the one row. *)
LEMMA ChannelClosedTyped ==
  ASSUME channel \in [Token -> ChannelType], NEW t \in Token, channel[t].st # "none",
         NEW k \in {"leave", "transfer", "close"}, channel' = ChannelClosed(t, k)
  PROVE  /\ channel' \in [Token -> ChannelType]
         /\ channel'[t].st = "closed"
         /\ channel'[t].cause = k
         /\ channel'[t].conv = channel[t].conv
         /\ channel'[t].user = channel[t].user
         /\ \A s \in Token : s # t => channel'[s] = channel[s]
<1>0. PICK c \in ChannelType : c = channel[t]
  OBVIOUS
<1> DEFINE r == [c EXCEPT !.st = "closed", !.cause = k]
<1>a. c.st # "none"
  BY <1>0
<1>b. /\ r \in ChannelType /\ r.st = "closed" /\ r.cause = k
      /\ r.conv = c.conv /\ r.user = c.user
  BY <1>a, ChannelCloses, Zenon
<1>1. /\ r \in ChannelType /\ r.st = "closed" /\ r.cause = k
      /\ r.conv = channel[t].conv /\ r.user = channel[t].user
  BY <1>0, <1>b, Zenon
<1>2. channel' = [channel EXCEPT ![t] = r]
  BY <1>0 DEF ChannelClosed
<1> HIDE DEF r
<1> QED
  BY <1>1, <1>2

(* The channel a join inserts is open, of the invite's user, in its conversation. *)
LEMMA NewChannelTyped ==
  ASSUME invite \in [Token -> InviteType], channel \in [Token -> ChannelType],
         NEW t \in Token, invite[t].st # "none", channel' = NewChannel(t)
  PROVE  /\ channel' \in [Token -> ChannelType]
         /\ channel'[t].st = "open"
         /\ channel'[t].conv = invite[t].conv
         /\ channel'[t].user = invite[t].user
         /\ \A s \in Token : s # t => channel'[s] = channel[s]
<1> DEFINE r == [st |-> "open", conv |-> invite[t].conv, user |-> invite[t].user,
                 bridge |-> invite[t].flow, cause |-> ""]
<1>1. invite[t].conv \in Conv /\ invite[t].user \in User /\ invite[t].flow \in BOOLEAN
  BY InviteCloses
<1>2. /\ r \in ChannelType /\ r.st = "open"
      /\ r.conv = invite[t].conv /\ r.user = invite[t].user
  BY <1>1 DEF ChannelType, ChannelRow
<1>3. channel' = [channel EXCEPT ![t] = r]
  BY DEF NewChannel
<1> HIDE DEF r
<1> QED
  BY <1>2, <1>3

(* The closing statement closes open rows of the conversation and no others. *)
LEMMA InvitesOfTyped ==
  ASSUME invite \in [Token -> InviteType], NEW c, invite' = InvitesOf(c)
  PROVE  /\ invite' \in [Token -> InviteType]
         /\ \A t \in Token :
              \/ invite'[t] = invite[t]
              \/ /\ invite[t].st = "open" /\ invite'[t].st = "closed"
                 /\ invite'[t].conv = invite[t].conv
                 /\ invite'[t].user = invite[t].user
                 /\ invite'[t].flow = invite[t].flow
<1> DEFINE r(t) == [invite[t] EXCEPT !.st = "closed"]
<1>1. ASSUME NEW t \in Token, invite[t].st # "none"
      PROVE  /\ r(t) \in InviteType /\ r(t).st = "closed"
             /\ r(t).conv = invite[t].conv /\ r(t).user = invite[t].user
             /\ r(t).flow = invite[t].flow
  BY <1>1, InviteCloses
<1>2. invite' = [t \in Token |-> IF Pending(t, c) THEN r(t) ELSE invite[t]]
  BY DEF InvitesOf
<1>3. \A t \in Token : Pending(t, c) => invite[t].st = "open"
  BY DEF Pending
<1> HIDE DEF r
<1> QED
  BY <1>1, <1>2, <1>3

(* The same for the channels, which also get the cause of the closing. *)
LEMMA ChannelsOfTyped ==
  ASSUME channel \in [Token -> ChannelType], NEW c, channel' = ChannelsOf(c)
  PROVE  /\ channel' \in [Token -> ChannelType]
         /\ \A t \in Token :
              \/ channel'[t] = channel[t]
              \/ /\ channel[t].st = "open" /\ channel'[t].st = "closed"
                 /\ channel'[t].conv = channel[t].conv
                 /\ channel'[t].user = channel[t].user
<1> DEFINE r(t) == [channel[t] EXCEPT !.st = "closed", !.cause = "close"]
<1>1. ASSUME NEW t \in Token, channel[t].st # "none"
      PROVE  /\ r(t) \in ChannelType /\ r(t).st = "closed"
             /\ r(t).conv = channel[t].conv /\ r(t).user = channel[t].user
  BY <1>1, ChannelCloses
<1>2. channel' = [t \in Token |-> IF Seated(t, c) THEN r(t) ELSE channel[t]]
  BY DEF ChannelsOf
<1>3. \A t \in Token : Seated(t, c) => channel[t].st = "open"
  BY DEF Seated
<1> HIDE DEF r
<1> QED
  BY <1>1, <1>2, <1>3

(* After a decline the request returns, or goes on to leaveChat for BlindTransfer. *)
LEMMA AfterDeclineTyped ==
  ASSUME job \in [Job -> JobType], NEW j \in Job, job[j].pc \in TokenPC, AfterDecline(j)
  PROVE  /\ job' \in [Job -> JobType]
         /\ \/ job'[j].pc = "idle"
            \/ job'[j].pc = "leave" /\ job'[j].t = job[j].t /\ job'[j].xfer = TRUE
         /\ \A i \in Job : i # j => job'[i] = job[i]
<1>1. job[j].t \in Token
  BY TokenJobs
<1>2. "leave" \in TokenPC
  BY DEF TokenPC
<1>3. Return(j) \/ Goto(j, "leave", job[j].t, TRUE)
  BY DEF AfterDecline
<1> QED
  BY <1>1, <1>2, <1>3, GotoTyped, ReturnTyped

(* Counting a notice or a BreakBridge keeps the counters numbers. *)
LEMMA TellTyped ==
  ASSUME told \in [Token -> [Event -> Nat]], NEW t \in Token, NEW e \in Event, Tell(t, e)
  PROVE  /\ told' \in [Token -> [Event -> Nat]]
         /\ told'[t][e] = told[t][e] + 1
         /\ \A s \in Token, f \in Event : s # t \/ f # e => told'[s][f] = told[s][f]
  BY DEF Tell

(* The same for the calls of BreakBridge. *)
LEMMA BreakBridgeTyped ==
  ASSUME broke \in [Token -> [BreakCause -> Nat]], NEW t \in Token, NEW k \in BreakCause,
         BreakBridge(t, k)
  PROVE  /\ broke' \in [Token -> [BreakCause -> Nat]]
         /\ broke'[t][k] = broke[t][k] + 1
         /\ \A s \in Token, f \in BreakCause : s # t \/ f # k => broke'[s][f] = broke[s][f]
  BY DEF BreakBridge

-----------------------------------------------------------------------------
(***************************************************************************)
(* The inductive invariant of the rows.  A request or a goroutine that     *)
(* carries a token has seen its invite, whose row is never deleted; this   *)
(* is why every CloseInvite, NewChannel and CloseChannel finds the row it  *)
(* is about, and why a channel always has the closed invite it came from.  *)
(***************************************************************************)
InviteSeen ==
  /\ \A j \in Job : job[j].pc \in TokenPC => invite[job[j].t].st # "none"
  /\ \A t \in Token : timer[t] # "off" => invite[t].st # "none"

RowInv == Types /\ InviteSeen /\ SessionMembersDistinct

(* Before the first request the tables are empty. *)
LEMMA InitRows == Init => RowInv
<1> SUFFICES ASSUME Init PROVE RowInv
  OBVIOUS
<1>1. Types
  BY DEF Init, Types, InviteType, ChannelType, JobType
<1>2. \A t \in Token : invite[t].st = "none" /\ channel[t].st = "none" /\ timer[t] = "off"
  BY DEF Init, NoRow
<1>3. \A j \in Job : job[j].pc \notin TokenPC
  BY DEF Init, Idle, TokenPC
<1> QED
  BY <1>1, <1>2, <1>3 DEF RowInv, InviteSeen, SessionMembersDistinct

(* Every statement of every handler keeps the rows as RowInv says. *)
LEMMA NextRows == RowInv /\ [Next]_vars => RowInv'
<1> SUFFICES ASSUME RowInv, [Next]_vars PROVE RowInv'
  OBVIOUS
<1> USE DEF RowInv
<1>a. "idle" \notin TokenPC
  BY DEF TokenPC
<1>b. \A i \in Job : job[i].pc \in TokenPC => job[i].t \in Token
  BY TokenJobs DEF Types
<1>1. ASSUME NEW c \in Conv, StartConversation(c)
      PROVE  RowInv'
  <2> QED
    BY <1>1 DEF StartConversation, Types, InviteSeen, SessionMembersDistinct
<1>2. ASSUME NEW j \in Job, NEW c \in Conv, NEW u \in User, NEW t \in Token,
             NEW flow \in BOOLEAN, NEW ttl \in BOOLEAN,
             InviteToConversation(j, c, u, t, flow, ttl)
      PROVE  RowInv'
  <2>1. /\ invite' \in [Token -> InviteType] /\ invite'[t].st = "open"
        /\ \A s \in Token : s # t => invite'[s] = invite[s]
    BY <1>2 DEF InviteToConversation, InviteType, InviteRow, Types
  <2>2. invite[t].st = "none"
    BY <1>2 DEF InviteToConversation
  <2>3. /\ job' \in [Job -> JobType]
        /\ job'[j].pc = "inviteNotify" /\ job'[j].t = t
        /\ \A i \in Job : i # j => job'[i] = job[i]
    BY <1>2, GotoTyped DEF InviteToConversation, TokenPC, Types
  <2>4. UNCHANGED <<conv, channel, timer, told, broke, faults>>
    BY <1>2 DEF InviteToConversation
  <2>5. Types'
    BY <2>1, <2>2, <2>3, <2>4 DEF Types
  <2>6. InviteSeen'
    BY <1>2, <2>1, <2>3, <2>4, <1>b DEF InviteSeen
  <2>7. SessionMembersDistinct'
    BY <2>1, <2>2, <2>3, <2>4 DEF SessionMembersDistinct
  <2> QED
    BY <2>5, <2>6, <2>7
<1>3. ASSUME NEW j \in Job, InviteNotify(j)
      PROVE  RowInv'
  <2>1. job[j].pc \in TokenPC
    BY <1>3 DEF InviteNotify, At, TokenPC
  <2>2. job[j].t \in Token /\ job[j].xfer \in BOOLEAN
    BY <2>1, TokenJobs DEF Types
  <2>3. invite[job[j].t].st # "none"
    BY <2>1, <2>2 DEF InviteSeen
  <2>4. told' \in [Token -> [Event -> Nat]]
    BY <1>3, <2>2, TellTyped DEF InviteNotify, Event, Types
  <2>5. /\ job' \in [Job -> JobType]
        /\ job'[j].pc = "idle"
        /\ \A i \in Job : i # j => job'[i] = job[i]
    BY <1>3, ReturnTyped DEF InviteNotify, Types
  <2>6. /\ timer' \in [Token -> {"off", "armed", "fired"}]
        /\ \A s \in Token : s # job[j].t => timer'[s] = timer[s]
    BY <1>3, <2>2 DEF InviteNotify, ArmTimer, Types
  <2>7. UNCHANGED <<conv, invite, channel, broke, faults>>
    BY <1>3 DEF InviteNotify
  <2>8. Types'
    BY <2>1, <2>2, <2>3, <2>4, <2>5, <2>6, <2>7 DEF Types
  <2>9. InviteSeen'
    BY <1>3, <2>2, <2>3, <2>5, <2>6, <2>7, <1>a, <1>b DEF InviteSeen
  <2>10. SessionMembersDistinct'
    BY <2>1, <2>2, <2>3, <2>4, <2>5, <2>6, <2>7 DEF SessionMembersDistinct
  <2> QED
    BY <2>8, <2>9, <2>10
<1>4. ASSUME NEW j \in Job, NEW t \in Token, JoinLookup(j, t)
      PROVE  RowInv'
  <2>1. invite[t].st # "none"
    BY <1>4 DEF JoinLookup, GetInviteByID
  <2>2. /\ job' \in [Job -> JobType]
        /\ job'[j].pc = "join" /\ job'[j].t = t
        /\ \A i \in Job : i # j => job'[i] = job[i]
    BY <1>4, GotoTyped DEF JoinLookup, TokenPC, Types
  <2>3. UNCHANGED <<conv, invite, channel, timer, told, broke, faults>>
    BY <1>4 DEF JoinLookup
  <2> QED
    BY <1>4, <2>1, <2>2, <2>3, <1>a, <1>b
    DEF Types, InviteSeen, SessionMembersDistinct
<1>5. ASSUME NEW j \in Job, JoinCommit(j)
      PROVE  RowInv'
  <2>1. job[j].pc \in TokenPC
    BY <1>5 DEF JoinCommit, At, TokenPC
  <2>2. job[j].t \in Token
    BY <2>1, TokenJobs DEF Types
  <2>3. invite[job[j].t].st # "none"
    BY <2>1, <2>2 DEF InviteSeen
  <2>4. UNCHANGED <<conv, timer, told, broke, faults>>
    BY <1>5 DEF JoinCommit
  <2>5. CASE NewChannelAccepted(job[j].t)
    <3>1. channel' = NewChannel(job[j].t) /\ invite' = InviteClosed(job[j].t)
      BY <1>5, <2>5 DEF JoinCommit, JoinInvite
    <3>2. Goto(j, "joinNotify", job[j].t, FALSE)
      BY <1>5, <2>5 DEF JoinCommit
    <3>a. "joinNotify" \in TokenPC /\ job \in [Job -> JobType]
      BY DEF TokenPC, Types
    <3>3. /\ job' \in [Job -> JobType]
          /\ job'[j].t = job[j].t
          /\ \A i \in Job : i # j => job'[i] = job[i]
      BY <2>2, <3>2, <3>a, GotoTyped
    <3>4. /\ channel' \in [Token -> ChannelType]
          /\ channel'[job[j].t].conv = invite[job[j].t].conv
          /\ channel'[job[j].t].user = invite[job[j].t].user
          /\ \A s \in Token : s # job[j].t => channel'[s] = channel[s]
      BY <2>2, <2>3, <3>1, NewChannelTyped DEF Types
    <3>5. /\ invite' \in [Token -> InviteType]
          /\ invite'[job[j].t].st = "closed"
          /\ invite'[job[j].t].conv = invite[job[j].t].conv
          /\ invite'[job[j].t].user = invite[job[j].t].user
          /\ \A s \in Token : s # job[j].t => invite'[s] = invite[s]
      BY <2>2, <2>3, <3>1, InviteClosedTyped DEF Types
    <3>b. Types'
      BY <2>4, <3>3, <3>4, <3>5 DEF Types
    <3>c. SessionMembersDistinct'
      BY <2>2, <3>4, <3>5 DEF Types, SessionMembersDistinct
    <3>6. Types' /\ SessionMembersDistinct'
      BY <3>b, <3>c
    <3>7. InviteSeen'
      BY <2>2, <2>4, <3>3, <3>5, <1>b DEF InviteSeen
    <3> QED
      BY <3>6, <3>7
  <2>6. CASE ~ NewChannelAccepted(job[j].t)
    <3>1. UNCHANGED <<invite, channel>> /\ Return(j)
      BY <1>5, <2>6 DEF JoinCommit
    <3>2. /\ job' \in [Job -> JobType]
          /\ job'[j].pc = "idle"
          /\ \A i \in Job : i # j => job'[i] = job[i]
      BY <3>1, ReturnTyped DEF Types
    <3> QED
      BY <2>4, <3>1, <3>2 DEF Types, InviteSeen, SessionMembersDistinct, TokenPC
  <2> QED
    BY <2>5, <2>6
<1>6. ASSUME NEW j \in Job, JoinNotify(j)
      PROVE  RowInv'
  <2>1. job[j].pc \in TokenPC
    BY <1>6 DEF JoinNotify, At, TokenPC
  <2>2. job[j].t \in Token /\ job[j].xfer \in BOOLEAN
    BY <2>1, TokenJobs DEF Types
  <2>3. told' \in [Token -> [Event -> Nat]]
    BY <1>6, <2>2, TellTyped DEF JoinNotify, Event, Types
  <2>4. /\ job' \in [Job -> JobType]
        /\ job'[j].pc = "idle"
        /\ \A i \in Job : i # j => job'[i] = job[i]
    BY <1>6, ReturnTyped DEF JoinNotify, Types
  <2>5. UNCHANGED <<conv, invite, channel, timer, broke, faults>>
    BY <1>6 DEF JoinNotify
  <2>6. Types'
    BY <2>1, <2>2, <2>3, <2>4, <2>5 DEF Types
  <2>7. InviteSeen'
    BY <2>1, <2>2, <2>3, <2>4, <2>5, <1>a, <1>b DEF InviteSeen, Types
  <2>8. SessionMembersDistinct'
    BY <2>1, <2>2, <2>3, <2>4, <2>5 DEF SessionMembersDistinct
  <2> QED
    BY <2>6, <2>7, <2>8
<1>7. ASSUME NEW j \in Job, NEW t \in Token, DeclineLookup(j, t)
      PROVE  RowInv'
  <2>1. invite[t].st # "none"
    BY <1>7 DEF DeclineLookup, GetInviteByID
  <2>2. /\ job' \in [Job -> JobType]
        /\ job'[j].pc = "decline" /\ job'[j].t = t
        /\ \A i \in Job : i # j => job'[i] = job[i]
    BY <1>7, GotoTyped DEF DeclineLookup, TokenPC, Types
  <2>3. UNCHANGED <<conv, invite, channel, timer, told, broke, faults>>
    BY <1>7 DEF DeclineLookup
  <2> QED
    BY <1>7, <2>1, <2>2, <2>3, <1>a, <1>b
    DEF Types, InviteSeen, SessionMembersDistinct
<1>8. ASSUME NEW j \in Job, DeclineClose(j)
      PROVE  RowInv'
  <2>1. job[j].pc \in TokenPC
    BY <1>8 DEF DeclineClose, At, TokenPC
  <2>2. job[j].t \in Token /\ job[j].xfer \in BOOLEAN
    BY <2>1, TokenJobs DEF Types
  <2>3. invite[job[j].t].st # "none"
    BY <2>1, <2>2 DEF InviteSeen
  <2>4. UNCHANGED <<conv, channel, timer, told, broke, faults>>
    BY <1>8 DEF DeclineClose
  <2>5. CASE CloseInviteHit(job[j].t)
    <3>1. /\ invite' = InviteClosed(job[j].t)
          /\ Goto(j, "declineNotify", job[j].t, job[j].xfer)
      BY <1>8, <2>5 DEF DeclineClose
    <3>2. /\ job' \in [Job -> JobType]
          /\ job'[j].t = job[j].t
          /\ \A i \in Job : i # j => job'[i] = job[i]
      BY <2>2, <3>1, GotoTyped DEF TokenPC, Types
    <3>a. invite \in [Token -> InviteType] /\ invite' = InviteClosed(job[j].t)
      BY <3>1 DEF Types
    <3>3. /\ invite' \in [Token -> InviteType]
          /\ invite'[job[j].t].st = "closed"
          /\ invite'[job[j].t].conv = invite[job[j].t].conv
          /\ invite'[job[j].t].user = invite[job[j].t].user
          /\ \A s \in Token : s # job[j].t => invite'[s] = invite[s]
      BY <2>2, <2>3, <3>a, InviteClosedTyped, Zenon
    <3>4. Types' /\ SessionMembersDistinct'
      <4>1. Types'
        BY <2>4, <3>2, <3>3 DEF Types
      <4>2. SessionMembersDistinct'
        BY <2>2, <2>4, <3>3 DEF Types, SessionMembersDistinct
      <4> QED
        BY <4>1, <4>2
    <3>5. InviteSeen'
      BY <2>2, <2>4, <3>2, <3>3, <1>b DEF InviteSeen
    <3> QED
      BY <3>4, <3>5
  <2>6. CASE ~ CloseInviteHit(job[j].t)
    <3>1. UNCHANGED invite /\ AfterDecline(j)
      BY <1>8, <2>6 DEF DeclineClose
    <3>2. /\ job' \in [Job -> JobType]
          /\ job'[j].pc = "idle" \/ job'[j].t = job[j].t
          /\ \A i \in Job : i # j => job'[i] = job[i]
      BY <2>1, <3>1, AfterDeclineTyped DEF Types
    <3> QED
      BY <2>3, <2>4, <3>1, <3>2 DEF Types, InviteSeen, SessionMembersDistinct, TokenPC
  <2> QED
    BY <2>5, <2>6
<1>9. ASSUME NEW j \in Job, DeclineNotify(j)
      PROVE  RowInv'
  <2>1. job[j].pc \in TokenPC
    BY <1>9 DEF DeclineNotify, At, TokenPC
  <2>2. job[j].t \in Token /\ job[j].xfer \in BOOLEAN
    BY <2>1, TokenJobs DEF Types
  <2>3. invite[job[j].t].st # "none"
    BY <2>1, <2>2 DEF InviteSeen
  <2>4. told' \in [Token -> [Event -> Nat]]
    BY <1>9, <2>2, TellTyped DEF DeclineNotify, Event, Types
  <2>5. broke' \in [Token -> [BreakCause -> Nat]]
    BY <1>9, <2>2, BreakBridgeTyped DEF DeclineNotify, BreakCause, Types
  <2>6. /\ job' \in [Job -> JobType]
        /\ job'[j].pc = "idle" \/ job'[j].t = job[j].t
        /\ \A i \in Job : i # j => job'[i] = job[i]
    BY <1>9, <2>1, AfterDeclineTyped DEF DeclineNotify, Types
  <2>7. UNCHANGED <<conv, invite, channel, timer, faults>>
    BY <1>9 DEF DeclineNotify
  <2> QED
    BY <2>3, <2>4, <2>5, <2>6, <2>7
    DEF Types, InviteSeen, SessionMembersDistinct, TokenPC
<1>10. ASSUME NEW t \in Token, TimerFire(t)
      PROVE  RowInv'
  <2>1. invite[t].st # "none"
    BY <1>10 DEF TimerFire, InviteSeen
  <2>2. UNCHANGED <<conv, channel, job, told, broke, faults>>
    BY <1>10 DEF TimerFire
  <2>3. /\ timer' \in [Token -> {"off", "armed", "fired"}]
        /\ \A s \in Token : s # t => timer'[s] = timer[s]
    BY <1>10 DEF TimerFire, Types
  <2>4. CASE UNCHANGED invite
    BY <2>1, <2>2, <2>3, <2>4 DEF Types, InviteSeen, SessionMembersDistinct
  <2>5. CASE invite' = InviteClosed(t)
    <3>1. /\ invite' \in [Token -> InviteType]
          /\ invite'[t].st = "closed"
          /\ invite'[t].conv = invite[t].conv
          /\ invite'[t].user = invite[t].user
          /\ \A s \in Token : s # t => invite'[s] = invite[s]
      BY <2>1, <2>5, InviteClosedTyped DEF Types
    <3>a. Types'
      BY <2>2, <2>3, <3>1 DEF Types
    <3>b. SessionMembersDistinct'
      BY <2>2, <3>1 DEF Types, SessionMembersDistinct
    <3>2. Types' /\ SessionMembersDistinct'
      BY <3>a, <3>b
    <3>3. InviteSeen'
      BY <2>2, <2>3, <3>1, <1>b DEF InviteSeen
    <3> QED
      BY <3>2, <3>3
  <2> QED
    BY <1>10, <2>4, <2>5 DEF TimerFire
<1>11. ASSUME NEW t \in Token, TimeoutNotify(t)
      PROVE  RowInv'
  <2>1. told' \in [Token -> [Event -> Nat]]
    BY <1>11, TellTyped DEF TimeoutNotify, Event, Types
  <2>2. broke' \in [Token -> [BreakCause -> Nat]]
    BY <1>11, BreakBridgeTyped DEF TimeoutNotify, BreakCause, Types
  <2>3. /\ timer' \in [Token -> {"off", "armed", "fired"}]
        /\ \A s \in Token : timer'[s] # "off" => timer'[s] = timer[s]
    BY <1>11 DEF TimeoutNotify, Types
  <2>4. UNCHANGED <<conv, invite, channel, job, faults>>
    BY <1>11 DEF TimeoutNotify
  <2> QED
    BY <2>1, <2>2, <2>3, <2>4 DEF Types, InviteSeen, SessionMembersDistinct
<1>12. ASSUME NEW j \in Job, NEW t \in Token, LeaveConversation(j, t)
      PROVE  RowInv'
  <2>1. channel[t].st # "none" /\ invite[t].st # "none"
    BY <1>12 DEF LeaveConversation, CloseChannelHit, SessionMembersDistinct
  <2>2. /\ channel' \in [Token -> ChannelType]
        /\ channel'[t].conv = channel[t].conv
        /\ channel'[t].user = channel[t].user
        /\ \A s \in Token : s # t => channel'[s] = channel[s]
    BY <1>12, <2>1, ChannelClosedTyped DEF LeaveConversation, LeaveCause, Types
  <2>3. /\ job' \in [Job -> JobType]
        /\ job'[j].t = t
        /\ \A i \in Job : i # j => job'[i] = job[i]
    BY <1>12, GotoTyped DEF LeaveConversation, TokenPC, Types
  <2>4. UNCHANGED <<conv, invite, timer, told, broke, faults>>
    BY <1>12 DEF LeaveConversation
  <2>5. Types'
    BY <2>1, <2>2, <2>3, <2>4 DEF Types
  <2>6. InviteSeen'
    BY <2>1, <2>2, <2>3, <2>4, <1>a, <1>b DEF InviteSeen, Types
  <2>7. SessionMembersDistinct'
    BY <2>1, <2>2, <2>3, <2>4 DEF SessionMembersDistinct
  <2> QED
    BY <2>5, <2>6, <2>7
<1>13. ASSUME NEW j \in Job, LeaveNotify(j)
      PROVE  RowInv'
  <2>1. job[j].pc \in TokenPC
    BY <1>13 DEF LeaveNotify, At, TokenPC
  <2>2. job[j].t \in Token /\ job[j].xfer \in BOOLEAN
    BY <2>1, TokenJobs DEF Types
  <2>3. invite[job[j].t].st # "none"
    BY <2>1, <2>2 DEF InviteSeen
  <2>4. told' \in [Token -> [Event -> Nat]]
    BY <1>13, <2>2, TellTyped DEF LeaveNotify, Event, Types
  <2>5. broke' \in [Token -> [BreakCause -> Nat]]
    BY <1>13, <2>2, BreakBridgeTyped DEF LeaveNotify, LeaveBreak, BreakCause, Types
  <2>6. Goto(j, "transferTo", job[j].t, TRUE) \/ Return(j)
    BY <1>13 DEF LeaveNotify
  <2>7. /\ job' \in [Job -> JobType]
        /\ job'[j].pc = "idle" \/ job'[j].t = job[j].t
        /\ \A i \in Job : i # j => job'[i] = job[i]
    BY <2>2, <2>6, GotoTyped, ReturnTyped DEF TokenPC, Types
  <2>8. UNCHANGED <<conv, invite, channel, timer, faults>>
    BY <1>13 DEF LeaveNotify
  <2> QED
    BY <2>3, <2>4, <2>5, <2>7, <2>8
    DEF Types, InviteSeen, SessionMembersDistinct, TokenPC
<1>14. ASSUME NEW j \in Job, NEW t \in Token, BlindTransfer(j, t)
      PROVE  RowInv'
  <2>1. invite[t].st # "none"
    BY <1>14 DEF BlindTransfer, GetInviteByID, SessionMembersDistinct
  <2>2. Goto(j, "decline", t, TRUE) \/ Goto(j, "leave", t, TRUE)
    BY <1>14 DEF BlindTransfer
  <2>3. /\ job' \in [Job -> JobType]
        /\ job'[j].t = t
        /\ \A i \in Job : i # j => job'[i] = job[i]
    BY <2>2, GotoTyped DEF TokenPC, Types
  <2>4. UNCHANGED <<conv, invite, channel, timer, told, broke, faults>>
    BY <1>14 DEF BlindTransfer
  <2> QED
    BY <2>1, <2>3, <2>4 DEF Types, InviteSeen, SessionMembersDistinct
<1>15. ASSUME NEW j \in Job, TransferLeave(j)
      PROVE  RowInv'
  <2>1. job[j].pc \in TokenPC
    BY <1>15 DEF TransferLeave, At, TokenPC
  <2>2. job[j].t \in Token /\ job[j].xfer \in BOOLEAN
    BY <2>1, TokenJobs DEF Types
  <2>3. invite[job[j].t].st # "none"
    BY <2>1, <2>2 DEF InviteSeen
  <2>4. UNCHANGED <<conv, invite, timer, told, broke, faults>>
    BY <1>15 DEF TransferLeave
  <2>5. Goto(j, "leaveNotify", job[j].t, TRUE) \/ Goto(j, "transferTo", job[j].t, TRUE)
    BY <1>15 DEF TransferLeave
  <2>6. /\ job' \in [Job -> JobType]
        /\ job'[j].t = job[j].t
        /\ \A i \in Job : i # j => job'[i] = job[i]
    BY <2>2, <2>5, GotoTyped DEF TokenPC, Types
  <2>7. InviteSeen'
    BY <2>2, <2>3, <2>4, <2>6, <1>b DEF InviteSeen
  <2>8. CASE CloseChannelHit(job[j].t)
    <3>1. channel' = ChannelClosed(job[j].t, LeaveCause(TRUE))
      BY <1>15, <2>8 DEF TransferLeave
    <3>2. channel[job[j].t].st # "none"
      BY <2>8 DEF CloseChannelHit
    <3>3. /\ channel' \in [Token -> ChannelType]
          /\ channel'[job[j].t].conv = channel[job[j].t].conv
          /\ channel'[job[j].t].user = channel[job[j].t].user
          /\ \A s \in Token : s # job[j].t => channel'[s] = channel[s]
      BY <2>2, <3>1, <3>2, ChannelClosedTyped DEF LeaveCause, Types
    <3> QED
      BY <2>2, <2>4, <2>6, <2>7, <3>2, <3>3 DEF Types, SessionMembersDistinct
  <2>9. CASE ~ CloseChannelHit(job[j].t)
    <3>1. UNCHANGED channel
      BY <1>15, <2>9 DEF TransferLeave
    <3> QED
      BY <2>4, <2>6, <2>7, <3>1 DEF Types, SessionMembersDistinct
  <2> QED
    BY <2>8, <2>9
<1>16. ASSUME NEW j \in Job, TransferTo(j)
      PROVE  RowInv'
  <2>1. /\ job' \in [Job -> JobType]
        /\ job'[j].pc = "idle"
        /\ \A i \in Job : i # j => job'[i] = job[i]
    BY <1>16, ReturnTyped DEF TransferTo, Types
  <2>2. UNCHANGED <<conv, invite, channel, timer, told, broke, faults>>
    BY <1>16 DEF TransferTo
  <2>3. Types'
    BY <2>1, <2>2 DEF Types
  <2>4. InviteSeen'
    BY <2>1, <2>2, <1>a, <1>b DEF InviteSeen, Types
  <2>5. SessionMembersDistinct'
    BY <2>1, <2>2 DEF SessionMembersDistinct
  <2> QED
    BY <2>3, <2>4, <2>5
<1>17. ASSUME NEW j \in Job, NEW c \in Conv, CloseConversation(j, c)
      PROVE  RowInv'
  <2> DEFINE r == [pc |-> "closeNotify", c |-> c, rcpt |-> Members(c)]
  <2>1. Members(c) \in SUBSET Token
    BY DEF Members
  <2>2. r \in JobType /\ r.pc \notin TokenPC
    BY <2>1 DEF JobType, CloseJob, TokenPC
  <2>3. job' = [job EXCEPT ![j] = r]
    BY <1>17 DEF CloseConversation
  <2>4. UNCHANGED <<conv, invite, channel, timer, told, broke, faults>>
    BY <1>17 DEF CloseConversation
  <2> HIDE DEF r
  <2> QED
    BY <2>2, <2>3, <2>4 DEF Types, InviteSeen, SessionMembersDistinct
<1>18. ASSUME NEW j \in Job, CloseNotify(j)
      PROVE  RowInv'
  <2> DEFINE r == [job[j] EXCEPT !.pc = "close"]
  <2>1. job[j].pc \in {"closeNotify", "close"}
    BY <1>18 DEF CloseNotify, At
  <2>2. job[j] \in CloseJob /\ r \in JobType
    BY <2>1, CloseJobs DEF Types
  <2>3. r.pc \notin TokenPC
    BY <2>2 DEF CloseJob, TokenPC
  <2>4. job' = [job EXCEPT ![j] = r]
    BY <1>18 DEF CloseNotify
  <2>5. told' \in [Token -> [Event -> Nat]]
    BY <1>18 DEF CloseNotify, Event, Types
  <2>6. UNCHANGED <<conv, invite, channel, timer, broke, faults>>
    BY <1>18 DEF CloseNotify
  <2> HIDE DEF r
  <2> QED
    BY <2>2, <2>3, <2>4, <2>5, <2>6 DEF Types, InviteSeen, SessionMembersDistinct
<1>19. ASSUME NEW j \in Job, CloseCommit(j)
      PROVE  RowInv'
  <2>1. job[j].pc \in {"closeNotify", "close"}
    BY <1>19 DEF CloseCommit, At
  <2>2. conv' \in [Conv -> {"none", "open", "closed"}]
    BY <1>19, <2>1, CloseJobs DEF CloseCommit, Types
  <2>3. invite' = InvitesOf(job[j].c) /\ channel' = ChannelsOf(job[j].c)
    BY <1>19 DEF CloseCommit
  <2>4. /\ invite' \in [Token -> InviteType]
        /\ \A t \in Token :
             \/ invite'[t] = invite[t]
             \/ /\ invite[t].st = "open" /\ invite'[t].st = "closed"
                /\ invite'[t].conv = invite[t].conv
                /\ invite'[t].user = invite[t].user
    BY <2>3, InvitesOfTyped DEF Types
  <2>5. /\ channel' \in [Token -> ChannelType]
        /\ \A t \in Token :
             \/ channel'[t] = channel[t]
             \/ /\ channel[t].st = "open" /\ channel'[t].st = "closed"
                /\ channel'[t].conv = channel[t].conv
                /\ channel'[t].user = channel[t].user
    BY <2>3, ChannelsOfTyped DEF Types
  <2>6. /\ job' \in [Job -> JobType]
        /\ job'[j].pc = "idle"
        /\ \A i \in Job : i # j => job'[i] = job[i]
    BY <1>19, ReturnTyped DEF CloseCommit, Types
  <2>7. UNCHANGED <<timer, told, broke, faults>>
    BY <1>19 DEF CloseCommit
  <2>8. Types'
    BY <2>2, <2>4, <2>5, <2>6, <2>7 DEF Types
  <2>9. SessionMembersDistinct'
    BY <2>4, <2>5 DEF SessionMembersDistinct
  <2>10. InviteSeen'
    BY <2>4, <2>6, <2>7, <1>a, <1>b DEF InviteSeen
  <2> QED
    BY <2>8, <2>9, <2>10
<1>20. ASSUME NEW j \in Job, StatementFails(j)
      PROVE  RowInv'
  <2>1. faults' \in Nat /\ UNCHANGED <<conv, invite, channel, timer, told, broke>>
    BY <1>20 DEF StatementFails, Fault, Types
  <2>2. CASE Return(j)
    BY <2>1, <2>2, ReturnTyped DEF Types, InviteSeen, SessionMembersDistinct, TokenPC
  <2>3. CASE \/ At(j, "decline") /\ AfterDecline(j)
             \/ At(j, "leave") /\ Goto(j, "transferTo", job[j].t, TRUE)
    <3>1. job[j].pc \in TokenPC
      BY <2>3 DEF At, TokenPC
    <3>2. job[j].t \in Token
      BY <3>1, TokenJobs DEF Types
    <3>3. /\ job' \in [Job -> JobType]
          /\ job'[j].pc = "idle" \/ job'[j].t = job[j].t
          /\ \A i \in Job : i # j => job'[i] = job[i]
      BY <2>3, <3>1, <3>2, AfterDeclineTyped, GotoTyped DEF Types, TokenPC
    <3> QED
      BY <2>1, <3>1, <3>3 DEF Types, InviteSeen, SessionMembersDistinct, TokenPC
  <2> QED
    BY <1>20, <2>2, <2>3 DEF StatementFails
<1>21. ASSUME NEW t \in Token, TimerFails(t)
      PROVE  RowInv'
  BY <1>21 DEF TimerFails, Fault, Types, InviteSeen, SessionMembersDistinct
<1>22. CASE Restart
  BY <1>22, NewJobs DEF Restart, Fault, Types, InviteSeen, SessionMembersDistinct, TokenPC
<1>23. CASE UNCHANGED vars
  BY <1>23 DEF vars, Types, InviteSeen, SessionMembersDistinct
<1> QED
  BY <1>1, <1>2, <1>3, <1>4, <1>5, <1>6, <1>7, <1>8, <1>9, <1>10, <1>11, <1>12,
     <1>13, <1>14, <1>15, <1>16, <1>17, <1>18, <1>19, <1>20, <1>21, <1>22, <1>23
     DEF Next, Request, JobStep, TimerStep

(***************************************************************************)
(* Every table row, request and counter has its type, whatever requests,   *)
(* failures and restarts the server of cmd/chat/service.go goes through.   *)
(***************************************************************************)
THEOREM TypeCorrect == Spec => []TypeOK
<1>1. RowInv => TypeOK
  BY DEF RowInv, Types, TypeOK, InviteType, ChannelType, JobType
<1> QED
  BY <1>1, InitRows, NextRows, PTL DEF Spec

(***************************************************************************)
(* GetSession never lists a member twice: a channel's invite is closed and *)
(* of the same user and conversation, for any number of racing requests.   *)
(***************************************************************************)
THEOREM MembersDistinct == Spec => []SessionMembersDistinct
<1>1. RowInv => SessionMembersDistinct
  BY DEF RowInv
<1> QED
  BY <1>1, InitRows, NextRows, PTL DEF Spec

-----------------------------------------------------------------------------
(***************************************************************************)
(* The tables chat.invite and chat.channel, with all the handlers of       *)
(* cmd/chat/service.go writing them concurrently, implement Seat.          *)
(***************************************************************************)
SeatMap == [t \in Token |-> SeatOf(t)]

(* A row is absent, open or closed. *)
LEMMA RowStates ==
  /\ \A r \in ChannelType : r.st \in {"none", "open", "closed"}
  /\ \A r \in InviteType : r.st \in {"none", "open", "closed"}
  BY ChannelCloses, InviteCloses

(* How far a token has come, read off its two rows c and i. *)
Read(s, c, i) == /\ c = "open" => s = "taken"
                 /\ c = "closed" => s = "left"
                 /\ c = "none" => /\ i = "none" => s = "none"
                                  /\ i = "open" => s = "offered"
                                  /\ i = "closed" => s = "withdrawn"

(***************************************************************************)
(* A step that at most closes rows of t vacates its seat or leaves it.     *)
(***************************************************************************)
OnlyCloses(t) ==
  /\ channel'[t].st = channel[t].st \/ (channel[t].st = "open" /\ channel'[t].st = "closed")
  /\ invite'[t].st = invite[t].st \/ (invite[t].st = "open" /\ invite'[t].st = "closed")

(* The mapping reads the rows as Read says, before and after a step. *)
LEMMA SeatsRead ==
  ASSUME Types, Types', NEW t \in Token
  PROVE  /\ Read(SeatOf(t), channel[t].st, invite[t].st)
         /\ Read(SeatOf(t)', channel'[t].st, invite'[t].st)
         /\ channel[t].st \in {"none", "open", "closed"}
         /\ invite[t].st \in {"none", "open", "closed"}
<1>1. /\ channel[t].st \in {"none", "open", "closed"}
      /\ invite[t].st \in {"none", "open", "closed"}
      /\ channel'[t].st \in {"none", "open", "closed"}
      /\ invite'[t].st \in {"none", "open", "closed"}
  BY RowStates DEF Types
<1>2. Read(SeatOf(t), channel[t].st, invite[t].st)
  BY <1>1 DEF Read, SeatOf
<1>3. Read(SeatOf(t)', channel'[t].st, invite'[t].st)
  BY <1>1 DEF Read, SeatOf
<1> QED
  BY <1>1, <1>2, <1>3

(* Closing rows is a vacating: an open invite has no channel beside it. *)
LEMMA ClosingVacates ==
  ASSUME RowInv, RowInv', NEW t \in Token, OnlyCloses(t)
  PROVE  SeatOf(t)' = SeatOf(t) \/ SeatOf(t)' = Seats!Vacated(SeatOf(t))
<1>1. channel[t].st # "none" => invite[t].st = "closed"
  BY DEF RowInv, SessionMembersDistinct
<1>2. /\ Read(SeatOf(t), channel[t].st, invite[t].st)
      /\ Read(SeatOf(t)', channel'[t].st, invite'[t].st)
      /\ channel[t].st \in {"none", "open", "closed"}
      /\ invite[t].st \in {"none", "open", "closed"}
  BY SeatsRead DEF RowInv
<1> QED
  BY <1>1, <1>2 DEF Read, OnlyCloses, Seats!Vacated

(* A step that only closes rows, of any number of tokens, is one Vacate of Seat. *)
LEMMA ClosingImplements ==
  ASSUME RowInv, RowInv', \A t \in Token : OnlyCloses(t)
  PROVE  Seats!Next
<1> DEFINE S == {t \in Token : SeatOf(t)' # SeatOf(t)}
<1>1. \A t \in Token : SeatOf(t)' = SeatOf(t) \/ SeatOf(t)' = Seats!Vacated(SeatOf(t))
  BY ClosingVacates
<1>2. \A t \in Token : SeatOf(t)' = IF t \in S THEN Seats!Vacated(SeatMap[t]) ELSE SeatMap[t]
  BY <1>1 DEF SeatMap
<1>3. SeatMap' = [t \in Token |-> IF t \in S THEN Seats!Vacated(SeatMap[t]) ELSE SeatMap[t]]
  BY <1>2 DEF SeatMap
<1>4. Seats!Vacate(S)
  BY <1>3 DEF Seats!Vacate, SeatMap
<1>5. S \in SUBSET Token
  OBVIOUS
<1> HIDE DEF S
<1> QED
  BY <1>4, <1>5 DEF Seats!Next

(* Every step of the handlers is a step of Seat. *)
LEMMA StepImplements ==
  ASSUME RowInv, RowInv', [Next]_vars
  PROVE  Seats!Next
<1> USE DEF RowInv
<1>a. \A i \in Job : job[i].pc \in TokenPC =>
        job[i].t \in Token /\ invite[job[i].t].st # "none"
  BY TokenJobs DEF Types, InviteSeen
<1>1. ASSUME NEW j \in Job, NEW c \in Conv, NEW u \in User, NEW t \in Token,
             NEW flow \in BOOLEAN, NEW ttl \in BOOLEAN,
             InviteToConversation(j, c, u, t, flow, ttl)
      PROVE  Seats!Next
  <2>1. /\ invite[t].st = "none" /\ invite'[t].st = "open"
        /\ \A s \in Token : s # t => invite'[s] = invite[s]
        /\ UNCHANGED channel
    BY <1>1 DEF InviteToConversation, Types
  <2>2. channel[t].st = "none"
    BY <2>1 DEF SessionMembersDistinct
  <2>3. SeatOf(t) = "none" /\ SeatOf(t)' = "offered"
    BY <2>1, <2>2, SeatsRead DEF Read
  <2>4. \A s \in Token : s # t => SeatOf(s)' = SeatOf(s)
    BY <2>1 DEF SeatOf
  <2>5. SeatMap' = [SeatMap EXCEPT ![t] = "offered"]
    BY <2>3, <2>4 DEF SeatMap
  <2>6. Seats!Offer(t)
    BY <2>3, <2>5 DEF Seats!Offer, Seats!Move, SeatMap
  <2> QED
    BY <2>6 DEF Seats!Next
<1>2. ASSUME NEW j \in Job, JoinCommit(j), NewChannelAccepted(job[j].t)
      PROVE  Seats!Next
  <2>1. PICK t \in Token : t = job[j].t /\ invite[t].st # "none"
    BY <1>2, <1>a DEF JoinCommit, At, TokenPC
  <2>2. channel[t].st = "none" /\ channel' = NewChannel(t) /\ invite' = InviteClosed(t)
    BY <1>2, <2>1 DEF JoinCommit, JoinInvite, NewChannelAccepted
  <2>3. channel'[t].st = "open" /\ \A s \in Token : s # t => channel'[s] = channel[s]
    BY <2>1, <2>2, NewChannelTyped DEF Types
  <2>4. \A s \in Token : s # t => invite'[s] = invite[s]
    BY <2>1, <2>2, InviteClosedTyped DEF Types
  <2>5. SeatOf(t) \in {"offered", "withdrawn"} /\ SeatOf(t)' = "taken"
    BY <2>1, <2>2, <2>3, SeatsRead DEF Read
  <2>6. \A s \in Token : s # t => SeatOf(s)' = SeatOf(s)
    BY <2>3, <2>4 DEF SeatOf
  <2>7. SeatMap' = [SeatMap EXCEPT ![t] = "taken"]
    BY <2>5, <2>6 DEF SeatMap
  <2>8. Seats!Take(t)
    BY <2>1, <2>5, <2>7 DEF Seats!Take, Seats!Move, SeatMap
  <2> QED
    BY <2>1, <2>8 DEF Seats!Next
<1>3. ASSUME UNCHANGED <<invite, channel>>
      PROVE  Seats!Next
  BY <1>3, ClosingImplements DEF OnlyCloses
<1>4. ASSUME NEW t \in Token, CloseInviteHit(t), invite' = InviteClosed(t), UNCHANGED channel
      PROVE  Seats!Next
  <2>1. invite[t].st = "open"
    BY <1>4 DEF CloseInviteHit
  <2>2. invite'[t].st = "closed" /\ \A s \in Token : s # t => invite'[s] = invite[s]
    BY <1>4, <2>1, InviteClosedTyped DEF Types
  <2> QED
    BY <1>4, <2>1, <2>2, ClosingImplements DEF OnlyCloses
<1>5. ASSUME NEW t \in Token, NEW xfer \in BOOLEAN, CloseChannelHit(t),
             channel' = ChannelClosed(t, LeaveCause(xfer)), UNCHANGED invite
      PROVE  Seats!Next
  <2>1. channel[t].st = "open"
    BY <1>5 DEF CloseChannelHit
  <2>2. channel'[t].st = "closed" /\ \A s \in Token : s # t => channel'[s] = channel[s]
    BY <1>5, <2>1, ChannelClosedTyped DEF LeaveCause, Types
  <2> QED
    BY <1>5, <2>1, <2>2, ClosingImplements DEF OnlyCloses
<1>6. ASSUME NEW j \in Job, JoinCommit(j)
      PROVE  Seats!Next
  BY <1>2, <1>3, <1>6 DEF JoinCommit
<1>7. ASSUME NEW j \in Job, DeclineClose(j)
      PROVE  Seats!Next
  <2>1. job[j].t \in Token
    BY <1>7, <1>a DEF DeclineClose, At, TokenPC
  <2> QED
    BY <1>3, <1>4, <1>7, <2>1 DEF DeclineClose
<1>8. ASSUME NEW t \in Token, TimerFire(t)
      PROVE  Seats!Next
  BY <1>3, <1>4, <1>8 DEF TimerFire
<1>9. ASSUME NEW j \in Job, TransferLeave(j)
      PROVE  Seats!Next
  <2>1. job[j].t \in Token
    BY <1>9, <1>a DEF TransferLeave, At, TokenPC
  <2> QED
    BY <1>3, <1>5, <1>9, <2>1 DEF TransferLeave
<1>10. ASSUME NEW j \in Job, NEW t \in Token, LeaveConversation(j, t)
      PROVE  Seats!Next
  BY <1>5, <1>10 DEF LeaveConversation
<1>11. ASSUME NEW j \in Job, CloseCommit(j)
      PROVE  Seats!Next
  <2>1. invite' = InvitesOf(job[j].c) /\ channel' = ChannelsOf(job[j].c)
    BY <1>11 DEF CloseCommit
  <2>2. \A t \in Token : OnlyCloses(t)
    BY <2>1, InvitesOfTyped, ChannelsOfTyped DEF Types, OnlyCloses
  <2> QED
    BY <2>2, ClosingImplements
<1>12. ASSUME NEW j \in Job,
              \/ \E t \in Token : \/ JoinLookup(j, t) \/ DeclineLookup(j, t)
                                  \/ BlindTransfer(j, t)
              \/ \E c \in Conv : CloseConversation(j, c)
              \/ InviteNotify(j) \/ JoinNotify(j) \/ DeclineNotify(j) \/ LeaveNotify(j)
              \/ TransferTo(j) \/ CloseNotify(j) \/ StatementFails(j)
      PROVE  Seats!Next
  BY <1>3, <1>12
  DEF JoinLookup, DeclineLookup, BlindTransfer, CloseConversation, InviteNotify,
      JoinNotify, DeclineNotify, LeaveNotify, TransferTo, CloseNotify, StatementFails
<1>13. ASSUME \/ \E c \in Conv : StartConversation(c)
              \/ \E t \in Token : TimeoutNotify(t) \/ TimerFails(t)
              \/ Restart \/ UNCHANGED vars
      PROVE  Seats!Next
  BY <1>3, <1>13 DEF StartConversation, TimeoutNotify, TimerFails, Restart, vars
<1> QED
  BY <1>1, <1>6, <1>7, <1>8, <1>9, <1>10, <1>11, <1>12, <1>13
  DEF Next, Request, JobStep, TimerStep

(***************************************************************************)
(* The handlers implement Seat: whatever requests race, fail or are lost,  *)
(* a token is offered once and taken at most once, and a seat that was     *)
(* left is never taken again.                                              *)
(***************************************************************************)
THEOREM RowsImplementSeat == Spec => ImplementsSeat
<1>1. Init => Seats!Init
  <2> SUFFICES ASSUME Init PROVE Seats!Init
    OBVIOUS
  <2>1. \A t \in Token : SeatOf(t) = "none"
    BY DEF Init, SeatOf, NoRow
  <2> QED
    BY <2>1 DEF Seats!Init
<1>2. RowInv /\ RowInv' /\ [Next]_vars => [Seats!Next]_SeatMap
  BY StepImplements
<1>3. ImplementsSeat <=> Seats!Init /\ [][Seats!Next]_SeatMap
  BY PTL DEF ImplementsSeat, Seats!Spec, SeatMap
<1> QED
  BY <1>1, <1>2, <1>3, InitRows, NextRows, PTL DEF Spec

-----------------------------------------------------------------------------
(***************************************************************************)
(* Each invitation is refused at most once, each departure is announced at *)
(* most once, and the first close of a row is final, for any number of     *)
(* racing requests.  The rows of chat.invite and chat.channel are the      *)
(* only thing the handlers share: the one whose UPDATE hit the open row    *)
(* owns the announcement until it has been made, or is lost in a restart.  *)
(***************************************************************************)

(* Who is about to tell the users that the invitation t is declined. *)
Refusing(j, t) == job[j].pc = "declineNotify" /\ job[j].t = t

Unrefused(t) == /\ told[t]["decline"] = 0 /\ told[t]["timeout"] = 0
                /\ broke[t]["DECLINE_INVITATION"] = 0 /\ broke[t]["TIMEOUT"] = 0

RefusedOnce(t) == /\ told[t]["decline"] + told[t]["timeout"] <= 1
                  /\ broke[t]["DECLINE_INVITATION"] + broke[t]["TIMEOUT"] <= 1

(***************************************************************************)
(* The inductive invariant.  An invite that is not closed has not been     *)
(* refused and nobody is about to; of the requests and the goroutine only  *)
(* one can be about to refuse it, and then nobody has done so before.      *)
(***************************************************************************)
RefusalInvOf(t) ==
  /\ invite[t].st # "closed" =>
       Unrefused(t) /\ timer[t] # "fired" /\ \A j \in Job : ~ Refusing(j, t)
  /\ timer[t] = "fired" => Unrefused(t) /\ \A j \in Job : ~ Refusing(j, t)
  /\ \A j \in Job : Refusing(j, t) =>
       Unrefused(t) /\ \A i \in Job : Refusing(i, t) => i = j
  /\ RefusedOnce(t)

RefusalInv == \A t \in Token : RefusalInvOf(t)

(***************************************************************************)
(* What a step can do to the refusal of t: nothing, claim it for a request *)
(* or for the goroutine by closing the invite, or make it.                 *)
(***************************************************************************)
SameRefusals(t) == /\ told'[t]["decline"] = told[t]["decline"]
                   /\ told'[t]["timeout"] = told[t]["timeout"]
                   /\ broke'[t]["DECLINE_INVITATION"] = broke[t]["DECLINE_INVITATION"]
                   /\ broke'[t]["TIMEOUT"] = broke[t]["TIMEOUT"]

NoNewRefusing(t) == \A i \in Job : Refusing(i, t)' => Refusing(i, t)

RefusalKept(t) ==
  /\ SameRefusals(t) /\ NoNewRefusing(t)
  /\ invite[t].st = "closed" => invite'[t].st = "closed"
  /\ timer'[t] = "fired" => timer[t] = "fired"

RefusalClaimed(t) ==
  /\ SameRefusals(t)
  /\ invite[t].st = "open" /\ invite'[t].st = "closed"
  /\ timer'[t] = timer[t]
  /\ \E j \in Job : \A i \in Job : Refusing(i, t)' => Refusing(i, t) \/ i = j

RefusalTimed(t) ==
  /\ SameRefusals(t) /\ NoNewRefusing(t)
  /\ invite[t].st = "open" /\ invite'[t].st = "closed"

RefusalDeclined(t) ==
  /\ invite'[t].st = invite[t].st /\ timer'[t] = timer[t]
  /\ \E j \in Job : /\ Refusing(j, t) /\ ~ Refusing(j, t)'
                    /\ \A i \in Job : i # j => job'[i] = job[i]
  /\ told'[t]["decline"] = told[t]["decline"] + 1
  /\ told'[t]["timeout"] = told[t]["timeout"]
  /\ broke'[t]["DECLINE_INVITATION"] \in {broke[t]["DECLINE_INVITATION"], broke[t]["DECLINE_INVITATION"] + 1}
  /\ broke'[t]["TIMEOUT"] = broke[t]["TIMEOUT"]

RefusalTimedOut(t) ==
  /\ invite'[t].st = invite[t].st /\ timer[t] = "fired" /\ timer'[t] = "off"
  /\ NoNewRefusing(t)
  /\ told'[t]["decline"] = told[t]["decline"]
  /\ told'[t]["timeout"] = told[t]["timeout"] + 1
  /\ broke'[t]["DECLINE_INVITATION"] = broke[t]["DECLINE_INVITATION"]
  /\ broke'[t]["TIMEOUT"] \in {broke[t]["TIMEOUT"], broke[t]["TIMEOUT"] + 1}

(* Whatever a step does to the refusal of t keeps the invariant. *)
LEMMA RefusalPreserved ==
  ASSUME NEW t \in Token, RefusalInvOf(t), Types,
         \/ RefusalKept(t) \/ RefusalClaimed(t) \/ RefusalTimed(t)
         \/ RefusalDeclined(t) \/ RefusalTimedOut(t)
  PROVE  RefusalInvOf(t)'
<1>1. CASE RefusalKept(t)
  BY <1>1 DEF RefusalKept, SameRefusals, NoNewRefusing, RefusalInvOf, Unrefused, RefusedOnce
<1>2. CASE RefusalClaimed(t)
  BY <1>2 DEF RefusalClaimed, SameRefusals, RefusalInvOf, Unrefused, RefusedOnce
<1>3. CASE RefusalTimed(t)
  BY <1>3 DEF RefusalTimed, SameRefusals, NoNewRefusing, RefusalInvOf, Unrefused, RefusedOnce
<1>4. CASE RefusalDeclined(t)
  <2>1. PICK j \in Job : /\ Refusing(j, t) /\ ~ Refusing(j, t)'
                         /\ \A i \in Job : i # j => job'[i] = job[i]
    BY <1>4 DEF RefusalDeclined
  <2>2. \A i \in Job : ~ Refusing(i, t)'
    BY <2>1 DEF RefusalInvOf, Refusing
  <2>3. Unrefused(t) /\ invite[t].st = "closed" /\ timer[t] # "fired"
    BY <2>1 DEF RefusalInvOf
  <2> QED
    BY <1>4, <2>2, <2>3 DEF RefusalDeclined, RefusalInvOf, Unrefused, RefusedOnce
<1>5. CASE RefusalTimedOut(t)
  BY <1>5 DEF RefusalTimedOut, NoNewRefusing, RefusalInvOf, Unrefused, RefusedOnce
<1> QED
  BY <1>1, <1>2, <1>3, <1>4, <1>5

(***************************************************************************)
(* A request that moves to another pc, or returns, changes no other        *)
(* request, and is about to refuse only if it moves to declineNotify.      *)
(***************************************************************************)
Moves(j) == \A i \in Job : i # j => job'[i] = job[i]

(* A step that moves a request elsewhere brings no new refusal. *)
LEMMA ElsewhereNotRefusing ==
  ASSUME NEW j \in Job, Moves(j), job'[j].pc # "declineNotify", NEW t \in Token
  PROVE  NoNewRefusing(t)
  BY DEF Moves, NoNewRefusing, Refusing

(* Nothing is refused by a step that leaves the counters, the invites and the goroutines alone. *)
LEMMA UntouchedRefusal ==
  ASSUME NEW t \in Token, NoNewRefusing(t), UNCHANGED <<told, broke>>,
         invite[t].st = "closed" => invite'[t].st = "closed",
         timer'[t] = "fired" => timer[t] = "fired"
  PROVE  RefusalKept(t)
  BY DEF RefusalKept, SameRefusals

(* Every step does one of the five things to the refusal of every token. *)
LEMMA RefusalSteps ==
  ASSUME RowInv, [Next]_vars, NEW t \in Token
  PROVE  \/ RefusalKept(t) \/ RefusalClaimed(t) \/ RefusalTimed(t)
         \/ RefusalDeclined(t) \/ RefusalTimedOut(t)
<1> USE DEF RowInv
<1>a. \A i \in Job : job[i].pc \in TokenPC => job[i].t \in Token /\ job[i].xfer \in BOOLEAN
  BY TokenJobs DEF Types
<1>1. ASSUME NEW c \in Conv, StartConversation(c)
      PROVE  RefusalKept(t)
  BY <1>1, UntouchedRefusal DEF StartConversation, NoNewRefusing, Refusing
<1>2. ASSUME NEW j \in Job, NEW c \in Conv, NEW u \in User, NEW s \in Token,
             NEW flow \in BOOLEAN, NEW ttl \in BOOLEAN,
             InviteToConversation(j, c, u, s, flow, ttl)
      PROVE  RefusalKept(t)
  <2>1. Moves(j) /\ job'[j].pc # "declineNotify"
    BY <1>2, GotoTyped DEF InviteToConversation, TokenPC, Types, Moves
  <2>2. invite[t].st = "closed" => invite'[t].st = "closed"
    BY <1>2 DEF InviteToConversation, Types
  <2> QED
    BY <1>2, <2>1, <2>2, UntouchedRefusal, ElsewhereNotRefusing DEF InviteToConversation
<1>3. ASSUME NEW j \in Job, InviteNotify(j)
      PROVE  RefusalKept(t)
  <2>1. job[j].t \in Token
    BY <1>3, <1>a DEF InviteNotify, At, TokenPC
  <2>2. Moves(j) /\ job'[j].pc # "declineNotify"
    BY <1>3, ReturnTyped DEF InviteNotify, Types, Moves
  <2>3. told'[t]["decline"] = told[t]["decline"] /\ told'[t]["timeout"] = told[t]["timeout"]
    BY <1>3, <2>1, TellTyped DEF InviteNotify, Event, Types
  <2>4. timer'[t] = "fired" => timer[t] = "fired"
    BY <1>3, <2>1 DEF InviteNotify, ArmTimer, Types
  <2> QED
    BY <1>3, <2>2, <2>3, <2>4, ElsewhereNotRefusing
    DEF InviteNotify, RefusalKept, SameRefusals
<1>4. ASSUME NEW j \in Job, NEW s \in Token,
             \/ JoinLookup(j, s) \/ DeclineLookup(j, s)
             \/ LeaveConversation(j, s) \/ BlindTransfer(j, s)
      PROVE  RefusalKept(t)
  <2>1. \E pc \in {"join", "decline", "leaveNotify", "leave"}, xfer \in BOOLEAN :
           Goto(j, pc, s, xfer)
    BY <1>4 DEF JoinLookup, DeclineLookup, LeaveConversation, BlindTransfer
  <2>2. Moves(j) /\ job'[j].pc # "declineNotify"
    BY <2>1, GotoTyped DEF TokenPC, Types, Moves
  <2>3. UNCHANGED <<invite, timer, told, broke>>
    BY <1>4 DEF JoinLookup, DeclineLookup, LeaveConversation, BlindTransfer
  <2> QED
    BY <2>2, <2>3, UntouchedRefusal, ElsewhereNotRefusing
<1>5. ASSUME NEW j \in Job, JoinCommit(j)
      PROVE  RefusalKept(t)
  <2>1. job[j].t \in Token /\ invite[job[j].t].st # "none"
    BY <1>5, <1>a DEF JoinCommit, At, TokenPC, InviteSeen
  <2>2. Goto(j, "joinNotify", job[j].t, FALSE) \/ Return(j)
    BY <1>5 DEF JoinCommit
  <2>3. Moves(j) /\ job'[j].pc # "declineNotify"
    BY <2>1, <2>2, GotoTyped, ReturnTyped DEF TokenPC, Types, Moves
  <2>4. invite' = InviteClosed(job[j].t) \/ UNCHANGED invite
    BY <1>5 DEF JoinCommit, JoinInvite
  <2>5. invite[t].st = "closed" => invite'[t].st = "closed"
    BY <2>1, <2>4, InviteClosedTyped DEF Types
  <2> QED
    BY <1>5, <2>3, <2>5, UntouchedRefusal, ElsewhereNotRefusing DEF JoinCommit
<1>6. ASSUME NEW j \in Job, JoinNotify(j)
      PROVE  RefusalKept(t)
  <2>1. job[j].t \in Token
    BY <1>6, <1>a DEF JoinNotify, At, TokenPC
  <2>2. Moves(j) /\ job'[j].pc # "declineNotify"
    BY <1>6, ReturnTyped DEF JoinNotify, Types, Moves
  <2>3. told'[t]["decline"] = told[t]["decline"] /\ told'[t]["timeout"] = told[t]["timeout"]
    BY <1>6, <2>1, TellTyped DEF JoinNotify, Event, Types
  <2> QED
    BY <1>6, <2>2, <2>3, ElsewhereNotRefusing DEF JoinNotify, RefusalKept, SameRefusals
<1>7. ASSUME NEW j \in Job, DeclineClose(j)
      PROVE  RefusalKept(t) \/ RefusalClaimed(t)
  <2>1. job[j].pc \in TokenPC
    BY <1>7 DEF DeclineClose, At, TokenPC
  <2>2. job[j].t \in Token /\ job[j].xfer \in BOOLEAN /\ invite[job[j].t].st # "none"
    BY <2>1, <1>a DEF InviteSeen
  <2>3. UNCHANGED <<timer, told, broke>>
    BY <1>7 DEF DeclineClose
  <2>4. CASE CloseInviteHit(job[j].t)
    <3>1. /\ invite' = InviteClosed(job[j].t)
          /\ Goto(j, "declineNotify", job[j].t, job[j].xfer)
      BY <1>7, <2>4 DEF DeclineClose
    <3>2. Moves(j) /\ job'[j].t = job[j].t
      BY <2>2, <3>1, GotoTyped DEF TokenPC, Types, Moves
    <3>3. /\ invite'[job[j].t].st = "closed"
          /\ \A s \in Token : s # job[j].t => invite'[s] = invite[s]
      BY <2>2, <3>1, InviteClosedTyped DEF Types
    <3>4. CASE t = job[j].t
      BY <2>3, <2>4, <3>2, <3>3, <3>4
      DEF CloseInviteHit, RefusalClaimed, SameRefusals, Moves, Refusing
    <3>5. CASE t # job[j].t
      <4>1. NoNewRefusing(t)
        BY <3>2, <3>5 DEF Moves, NoNewRefusing, Refusing
      <4> QED
        BY <2>3, <3>3, <3>5, <4>1, UntouchedRefusal
    <3> QED
      BY <3>4, <3>5
  <2>5. CASE ~ CloseInviteHit(job[j].t)
    <3>1. UNCHANGED invite /\ AfterDecline(j)
      BY <1>7, <2>5 DEF DeclineClose
    <3>2. Moves(j) /\ job'[j].pc # "declineNotify"
      BY <2>1, <3>1, AfterDeclineTyped DEF Types, Moves
    <3> QED
      BY <2>3, <3>1, <3>2, UntouchedRefusal, ElsewhereNotRefusing
  <2> QED
    BY <2>4, <2>5
<1>8. ASSUME NEW j \in Job, DeclineNotify(j)
      PROVE  RefusalKept(t) \/ RefusalDeclined(t)
  <2>1. job[j].pc \in TokenPC /\ job[j].pc = "declineNotify"
    BY <1>8 DEF DeclineNotify, At, TokenPC
  <2>2. job[j].t \in Token
    BY <2>1, <1>a
  <2>3. Moves(j) /\ job'[j].pc # "declineNotify"
    BY <1>8, <2>1, AfterDeclineTyped DEF DeclineNotify, Types, Moves
  <2>4. UNCHANGED <<invite, timer>>
    BY <1>8 DEF DeclineNotify
  <2>5. /\ told'[job[j].t]["decline"] = told[job[j].t]["decline"] + 1
        /\ \A s \in Token, f \in Event :
             s # job[j].t \/ f # "decline" => told'[s][f] = told[s][f]
    BY <1>8, <2>2, TellTyped DEF DeclineNotify, Event, Types
  <2>6. UNCHANGED broke \/ BreakBridge(job[j].t, "DECLINE_INVITATION")
    BY <1>8 DEF DeclineNotify
  <2>7. /\ broke'[job[j].t]["DECLINE_INVITATION"] \in
             {broke[job[j].t]["DECLINE_INVITATION"], broke[job[j].t]["DECLINE_INVITATION"] + 1}
        /\ \A s \in Token, f \in BreakCause :
             s # job[j].t \/ f # "DECLINE_INVITATION" => broke'[s][f] = broke[s][f]
    BY <2>2, <2>6, BreakBridgeTyped DEF BreakCause, Types
  <2>8. CASE t = job[j].t
    BY <2>1, <2>3, <2>4, <2>5, <2>7, <2>8
    DEF RefusalDeclined, Refusing, Moves, Event, BreakCause
  <2>9. CASE t # job[j].t
    BY <2>3, <2>4, <2>5, <2>7, <2>9, ElsewhereNotRefusing
    DEF RefusalKept, SameRefusals, Event, BreakCause
  <2> QED
    BY <2>8, <2>9
<1>9. ASSUME NEW s \in Token, TimerFire(s)
      PROVE  RefusalKept(t) \/ RefusalTimed(t)
  <2>1. UNCHANGED <<job, told, broke>> /\ invite[s].st # "none"
    BY <1>9 DEF TimerFire, InviteSeen
  <2>2. NoNewRefusing(t) /\ SameRefusals(t)
    BY <2>1 DEF NoNewRefusing, Refusing, SameRefusals
  <2>3. \A q \in Token : q # s => timer'[q] = timer[q]
    BY <1>9 DEF TimerFire, Types
  <2>4. CASE CloseInviteHit(s)
    <3>1. invite' = InviteClosed(s)
      BY <1>9, <2>4 DEF TimerFire
    <3>2. invite'[s].st = "closed" /\ \A q \in Token : q # s => invite'[q] = invite[q]
      BY <2>1, <3>1, InviteClosedTyped DEF Types
    <3>3. CASE t = s
      BY <2>2, <2>4, <3>2, <3>3 DEF CloseInviteHit, RefusalTimed
    <3>4. CASE t # s
      BY <2>2, <2>3, <3>2, <3>4 DEF RefusalKept
    <3> QED
      BY <3>3, <3>4
  <2>5. CASE ~ CloseInviteHit(s)
    <3>1. UNCHANGED invite /\ timer' = [timer EXCEPT ![s] = "off"]
      BY <1>9, <2>5 DEF TimerFire
    <3> QED
      BY <2>2, <3>1 DEF RefusalKept, Types
  <2> QED
    BY <2>4, <2>5
<1>10. ASSUME NEW s \in Token, TimeoutNotify(s)
      PROVE  RefusalKept(t) \/ RefusalTimedOut(t)
  <2>1. UNCHANGED <<job, invite>> /\ timer[s] = "fired" /\ timer' = [timer EXCEPT ![s] = "off"]
    BY <1>10 DEF TimeoutNotify
  <2>2. NoNewRefusing(t)
    BY <2>1 DEF NoNewRefusing, Refusing
  <2>3. /\ told'[s]["timeout"] = told[s]["timeout"] + 1
        /\ \A q \in Token, f \in Event :
             q # s \/ f # "timeout" => told'[q][f] = told[q][f]
    BY <1>10, TellTyped DEF TimeoutNotify, Event, Types
  <2>4. UNCHANGED broke \/ BreakBridge(s, "TIMEOUT")
    BY <1>10 DEF TimeoutNotify
  <2>5. /\ broke'[s]["TIMEOUT"] \in {broke[s]["TIMEOUT"], broke[s]["TIMEOUT"] + 1}
        /\ \A q \in Token, f \in BreakCause :
             q # s \/ f # "TIMEOUT" => broke'[q][f] = broke[q][f]
    BY <2>4, BreakBridgeTyped DEF BreakCause, Types
  <2>6. CASE t = s
    BY <2>1, <2>2, <2>3, <2>5, <2>6 DEF RefusalTimedOut, Event, BreakCause, Types
  <2>7. CASE t # s
    BY <2>1, <2>2, <2>3, <2>5, <2>7 DEF RefusalKept, SameRefusals, Event, BreakCause, Types
  <2> QED
    BY <2>6, <2>7
<1>11. ASSUME NEW j \in Job, LeaveNotify(j)
      PROVE  RefusalKept(t)
  <2>1. job[j].t \in Token /\ job[j].xfer \in BOOLEAN
    BY <1>11, <1>a DEF LeaveNotify, At, TokenPC
  <2>2. Goto(j, "transferTo", job[j].t, TRUE) \/ Return(j)
    BY <1>11 DEF LeaveNotify
  <2>3. Moves(j) /\ job'[j].pc # "declineNotify"
    BY <2>1, <2>2, GotoTyped, ReturnTyped DEF TokenPC, Types, Moves
  <2>4. told'[t]["decline"] = told[t]["decline"] /\ told'[t]["timeout"] = told[t]["timeout"]
    BY <1>11, <2>1, TellTyped DEF LeaveNotify, Event, Types
  <2>5. /\ broke'[t]["DECLINE_INVITATION"] = broke[t]["DECLINE_INVITATION"]
        /\ broke'[t]["TIMEOUT"] = broke[t]["TIMEOUT"]
    BY <1>11, <2>1, BreakBridgeTyped DEF LeaveNotify, LeaveBreak, BreakCause, Types
  <2> QED
    BY <1>11, <2>3, <2>4, <2>5, ElsewhereNotRefusing
    DEF LeaveNotify, RefusalKept, SameRefusals
<1>12. ASSUME NEW j \in Job, TransferLeave(j) \/ TransferTo(j)
      PROVE  RefusalKept(t)
  <2>1. job[j].t \in Token
    BY <1>12, <1>a DEF TransferLeave, TransferTo, At, TokenPC
  <2>2. \/ Goto(j, "leaveNotify", job[j].t, TRUE) \/ Goto(j, "transferTo", job[j].t, TRUE)
        \/ Return(j)
    BY <1>12 DEF TransferLeave, TransferTo
  <2>3. Moves(j) /\ job'[j].pc # "declineNotify"
    BY <2>1, <2>2, GotoTyped, ReturnTyped DEF TokenPC, Types, Moves
  <2>4. UNCHANGED <<invite, timer, told, broke>>
    BY <1>12 DEF TransferLeave, TransferTo
  <2> QED
    BY <2>3, <2>4, UntouchedRefusal, ElsewhereNotRefusing
<1>13. ASSUME NEW j \in Job, NEW c \in Conv, CloseConversation(j, c)
      PROVE  RefusalKept(t)
  <2>1. Moves(j) /\ job'[j].pc # "declineNotify"
    BY <1>13 DEF CloseConversation, Types, Moves
  <2> QED
    BY <1>13, <2>1, UntouchedRefusal, ElsewhereNotRefusing DEF CloseConversation
<1>14. ASSUME NEW j \in Job, CloseNotify(j)
      PROVE  RefusalKept(t)
  <2> DEFINE r == [job[j] EXCEPT !.pc = "close"]
  <2>1. r.pc = "close"
    <3>1. job[j] \in CloseJob
      BY <1>14, CloseJobs DEF CloseNotify, At, Types
    <3> QED
      BY <3>1 DEF CloseJob
  <2>2. Moves(j) /\ job'[j].pc # "declineNotify"
    <3>1. job' = [job EXCEPT ![j] = r]
      BY <1>14 DEF CloseNotify
    <3> HIDE DEF r
    <3> QED
      BY <2>1, <3>1 DEF Types, Moves
  <2>3. told'[t]["decline"] = told[t]["decline"] /\ told'[t]["timeout"] = told[t]["timeout"]
    BY <1>14 DEF CloseNotify, Event, Types
  <2> QED
    BY <1>14, <2>2, <2>3, ElsewhereNotRefusing DEF CloseNotify, RefusalKept, SameRefusals
<1>15. ASSUME NEW j \in Job, CloseCommit(j)
      PROVE  RefusalKept(t)
  <2>1. Moves(j) /\ job'[j].pc # "declineNotify"
    BY <1>15, ReturnTyped DEF CloseCommit, Types, Moves
  <2>2. invite[t].st = "closed" => invite'[t].st = "closed"
    BY <1>15, InvitesOfTyped DEF CloseCommit, Types
  <2> QED
    BY <1>15, <2>1, <2>2, UntouchedRefusal, ElsewhereNotRefusing DEF CloseCommit
<1>16. ASSUME NEW j \in Job, StatementFails(j)
      PROVE  RefusalKept(t)
  <2>1. Moves(j) /\ job'[j].pc # "declineNotify"
    <3>1. CASE Return(j)
      BY <3>1, ReturnTyped DEF Types, Moves
    <3>2. CASE \/ At(j, "decline") /\ AfterDecline(j)
               \/ At(j, "leave") /\ Goto(j, "transferTo", job[j].t, TRUE)
      <4>1. job[j].pc \in TokenPC
        BY <3>2 DEF At, TokenPC
      <4> QED
        BY <3>2, <4>1, <1>a, AfterDeclineTyped, GotoTyped DEF Types, TokenPC, Moves
    <3> QED
      BY <1>16, <3>1, <3>2 DEF StatementFails
  <2> QED
    BY <1>16, <2>1, UntouchedRefusal, ElsewhereNotRefusing DEF StatementFails
<1>17. ASSUME NEW s \in Token, TimerFails(s)
      PROVE  RefusalKept(t)
  BY <1>17, UntouchedRefusal DEF TimerFails, Types, NoNewRefusing, Refusing
<1>18. ASSUME Restart
      PROVE  RefusalKept(t)
  BY <1>18, UntouchedRefusal, NewJobs DEF Restart, NoNewRefusing, Refusing
<1>19. ASSUME UNCHANGED vars
      PROVE  RefusalKept(t)
  BY <1>19, UntouchedRefusal DEF vars, NoNewRefusing, Refusing
<1> QED
  BY <1>1, <1>2, <1>3, <1>4, <1>5, <1>6, <1>7, <1>8, <1>9, <1>10, <1>11, <1>12,
     <1>13, <1>14, <1>15, <1>16, <1>17, <1>18, <1>19
     DEF Next, Request, JobStep, TimerStep

(***************************************************************************)
(* An invitation is refused at most once, however many DeclineInvitation   *)
(* and BlindTransfer requests race with the auto-decline goroutine, and    *)
(* whichever statements fail.                                              *)
(***************************************************************************)
THEOREM RefusedAtMostOnce == Spec => []InviteSettledOnce
<1>1. Init => RefusalInv
  <2> SUFFICES ASSUME Init PROVE RefusalInv
    OBVIOUS
  <2>1. \A t \in Token : /\ Unrefused(t) /\ timer[t] = "off"
                         /\ \A j \in Job : ~ Refusing(j, t)
    BY DEF Init, Unrefused, Refusing, Event, BreakCause, Idle
  <2> QED
    BY <2>1 DEF RefusalInv, RefusalInvOf, RefusedOnce, Unrefused
<1>2. RowInv /\ RefusalInv /\ [Next]_vars => RefusalInv'
  BY RefusalSteps, RefusalPreserved DEF RowInv, RefusalInv
<1>3. RefusalInv => InviteSettledOnce
  BY DEF RefusalInv, RefusalInvOf, RefusedOnce, InviteSettledOnce
<1> QED
  BY <1>1, <1>2, <1>3, InitRows, NextRows, PTL DEF Spec

-----------------------------------------------------------------------------
(* Who is about to tell the users that the operator of channel t has left. *)
Leaving(j, t) == job[j].pc = "leaveNotify" /\ job[j].t = t

Unannounced(t) == /\ told[t]["leave"] = 0
                  /\ broke[t]["LEAVE_CONVERSATION"] = 0 /\ broke[t]["TRANSFER"] = 0

AnnouncedOnce(t) ==
  /\ told[t]["leave"] = broke[t]["LEAVE_CONVERSATION"] + broke[t]["TRANSFER"]
  /\ told[t]["leave"] <= 1
  /\ broke[t]["LEAVE_CONVERSATION"] = 1 => channel[t].cause = "leave"
  /\ broke[t]["TRANSFER"] = 1 => channel[t].cause = "transfer"

(***************************************************************************)
(* The inductive invariant.  Nobody announces or has announced the leaving *)
(* of a channel that is not closed; of the requests at most one is about   *)
(* to announce it, and then the row keeps the cause that request wrote.    *)
(***************************************************************************)
DepartureInvOf(t) ==
  /\ channel[t].st # "closed" => Unannounced(t) /\ \A j \in Job : ~ Leaving(j, t)
  /\ \A j \in Job : Leaving(j, t) =>
       /\ Unannounced(t)
       /\ channel[t].cause = LeaveCause(job[j].xfer)
       /\ \A i \in Job : Leaving(i, t) => i = j
  /\ AnnouncedOnce(t)

DepartureInv == \A t \in Token : DepartureInvOf(t)

(***************************************************************************)
(* What a step can do to the departure of t: nothing, claim it by closing  *)
(* the channel, or announce it.                                            *)
(***************************************************************************)
SameDepartures(t) ==
  /\ told'[t]["leave"] = told[t]["leave"]
  /\ broke'[t]["LEAVE_CONVERSATION"] = broke[t]["LEAVE_CONVERSATION"]
  /\ broke'[t]["TRANSFER"] = broke[t]["TRANSFER"]

NoNewLeaving(t) == \A i \in Job : Leaving(i, t)' => job'[i] = job[i]

ClosedChannelKept(t) == channel[t].st = "closed" => channel'[t] = channel[t]

DepartureKept(t) == SameDepartures(t) /\ NoNewLeaving(t) /\ ClosedChannelKept(t)

DepartureClaimed(t) ==
  /\ SameDepartures(t)
  /\ channel[t].st = "open" /\ channel'[t].st = "closed"
  /\ \E j \in Job : /\ Moves(j)
                    /\ channel'[t].cause = LeaveCause(job'[j].xfer)

DepartureAnnounced(t) ==
  /\ channel'[t] = channel[t]
  /\ \E j \in Job :
       /\ Leaving(j, t) /\ ~ Leaving(j, t)' /\ Moves(j)
       /\ told'[t]["leave"] = told[t]["leave"] + 1
       /\ broke'[t]["LEAVE_CONVERSATION"] =
            IF job[j].xfer THEN broke[t]["LEAVE_CONVERSATION"]
                           ELSE broke[t]["LEAVE_CONVERSATION"] + 1
       /\ broke'[t]["TRANSFER"] =
            IF job[j].xfer THEN broke[t]["TRANSFER"] + 1 ELSE broke[t]["TRANSFER"]

(* Whatever a step does to the departure of t keeps the invariant. *)
LEMMA DeparturePreserved ==
  ASSUME NEW t \in Token, DepartureInvOf(t), Types,
         DepartureKept(t) \/ DepartureClaimed(t) \/ DepartureAnnounced(t)
  PROVE  DepartureInvOf(t)'
<1>1. CASE DepartureKept(t)
  <2>1. \A i \in Job : Leaving(i, t)' => Leaving(i, t) /\ job'[i] = job[i]
    BY <1>1 DEF DepartureKept, NoNewLeaving, Leaving
  <2>2. CASE channel[t].st = "closed"
    <3>1. channel'[t] = channel[t]
      BY <1>1, <2>2 DEF DepartureKept, ClosedChannelKept
    <3> QED
      BY <1>1, <2>1, <3>1
      DEF DepartureKept, SameDepartures, DepartureInvOf, Unannounced, AnnouncedOnce, LeaveCause
  <2>3. CASE channel[t].st # "closed"
    BY <1>1, <2>1, <2>3
    DEF DepartureKept, SameDepartures, DepartureInvOf, Unannounced, AnnouncedOnce
  <2> QED
    BY <2>2, <2>3
<1>2. CASE DepartureClaimed(t)
  <2>1. PICK j \in Job : Moves(j) /\ channel'[t].cause = LeaveCause(job'[j].xfer)
    BY <1>2 DEF DepartureClaimed
  <2>2. \A i \in Job : ~ Leaving(i, t)
    BY <1>2 DEF DepartureClaimed, DepartureInvOf
  <2>3. \A i \in Job : Leaving(i, t)' => i = j
    BY <2>1, <2>2 DEF Moves, Leaving
  <2>4. Unannounced(t)'
    BY <1>2 DEF DepartureClaimed, SameDepartures, DepartureInvOf, Unannounced
  <2> QED
    BY <1>2, <2>1, <2>3, <2>4
    DEF DepartureClaimed, DepartureInvOf, Unannounced, AnnouncedOnce, LeaveCause
<1>3. CASE DepartureAnnounced(t)
  <2>1. PICK j \in Job :
          /\ Leaving(j, t) /\ ~ Leaving(j, t)' /\ Moves(j)
          /\ told'[t]["leave"] = told[t]["leave"] + 1
          /\ broke'[t]["LEAVE_CONVERSATION"] =
               IF job[j].xfer THEN broke[t]["LEAVE_CONVERSATION"]
                              ELSE broke[t]["LEAVE_CONVERSATION"] + 1
          /\ broke'[t]["TRANSFER"] =
               IF job[j].xfer THEN broke[t]["TRANSFER"] + 1 ELSE broke[t]["TRANSFER"]
    BY <1>3 DEF DepartureAnnounced
  <2>2. \A i \in Job : ~ Leaving(i, t)'
    BY <2>1 DEF DepartureInvOf, Leaving, Moves
  <2>3. /\ Unannounced(t) /\ channel[t].st = "closed" /\ channel'[t] = channel[t]
        /\ channel[t].cause = LeaveCause(job[j].xfer)
    BY <1>3, <2>1 DEF DepartureInvOf, DepartureAnnounced
  <2>4. AnnouncedOnce(t)'
    BY <2>1, <2>3 DEF AnnouncedOnce, Unannounced, LeaveCause
  <2> QED
    BY <2>2, <2>3, <2>4 DEF DepartureInvOf
<1> QED
  BY <1>1, <1>2, <1>3

(* A step that moves a request elsewhere brings no new announcement. *)
LEMMA ElsewhereNotLeaving ==
  ASSUME NEW j \in Job, Moves(j), job'[j].pc # "leaveNotify", NEW t \in Token
  PROVE  NoNewLeaving(t)
  BY DEF Moves, NoNewLeaving, Leaving

(* Nothing is announced by a step that leaves the counters and the closed channels alone. *)
LEMMA UntouchedDeparture ==
  ASSUME NEW t \in Token, NoNewLeaving(t), UNCHANGED <<told, broke>>, ClosedChannelKept(t)
  PROVE  DepartureKept(t)
  BY DEF DepartureKept, SameDepartures

(* A notice of another kind announces no departure. *)
LEMMA OtherNotice ==
  ASSUME Types, NEW t \in Token, NEW s \in Token, NEW e \in Event \ {"leave"}, Tell(s, e)
  PROVE  told'[t]["leave"] = told[t]["leave"]
  BY TellTyped DEF Event, Types

(* Every step does one of the three things to the departure of every token. *)
LEMMA DepartureSteps ==
  ASSUME RowInv, [Next]_vars, NEW t \in Token
  PROVE  DepartureKept(t) \/ DepartureClaimed(t) \/ DepartureAnnounced(t)
<1> USE DEF RowInv
<1>a. \A i \in Job : job[i].pc \in TokenPC => job[i].t \in Token /\ job[i].xfer \in BOOLEAN
  BY TokenJobs DEF Types
<1>b. UNCHANGED channel => ClosedChannelKept(t)
  BY DEF ClosedChannelKept
<1>1. ASSUME NEW c \in Conv, StartConversation(c)
      PROVE  DepartureKept(t)
  BY <1>1, <1>b, UntouchedDeparture DEF StartConversation, NoNewLeaving, Leaving
<1>2. ASSUME NEW j \in Job, NEW c \in Conv, NEW u \in User, NEW s \in Token,
             NEW flow \in BOOLEAN, NEW ttl \in BOOLEAN,
             InviteToConversation(j, c, u, s, flow, ttl)
      PROVE  DepartureKept(t)
  <2>1. Moves(j) /\ job'[j].pc # "leaveNotify"
    BY <1>2, GotoTyped DEF InviteToConversation, TokenPC, Types, Moves
  <2> QED
    BY <1>2, <1>b, <2>1, UntouchedDeparture, ElsewhereNotLeaving DEF InviteToConversation
<1>3. ASSUME NEW j \in Job, InviteNotify(j) \/ JoinNotify(j)
      PROVE  DepartureKept(t)
  <2>1. job[j].t \in Token
    BY <1>3, <1>a DEF InviteNotify, JoinNotify, At, TokenPC
  <2>2. Moves(j) /\ job'[j].pc # "leaveNotify"
    BY <1>3, ReturnTyped DEF InviteNotify, JoinNotify, Types, Moves
  <2>3. told'[t]["leave"] = told[t]["leave"]
    BY <1>3, <2>1, OtherNotice DEF InviteNotify, JoinNotify, Event
  <2>4. UNCHANGED <<channel, broke>>
    BY <1>3 DEF InviteNotify, JoinNotify
  <2> QED
    BY <1>b, <2>2, <2>3, <2>4, ElsewhereNotLeaving DEF DepartureKept, SameDepartures
<1>4. ASSUME NEW j \in Job, NEW s \in Token,
             JoinLookup(j, s) \/ DeclineLookup(j, s) \/ BlindTransfer(j, s)
      PROVE  DepartureKept(t)
  <2>1. \E pc \in {"join", "decline", "leave"}, xfer \in BOOLEAN : Goto(j, pc, s, xfer)
    BY <1>4 DEF JoinLookup, DeclineLookup, BlindTransfer
  <2>2. Moves(j) /\ job'[j].pc # "leaveNotify"
    BY <2>1, GotoTyped DEF TokenPC, Types, Moves
  <2>3. UNCHANGED <<channel, told, broke>>
    BY <1>4 DEF JoinLookup, DeclineLookup, BlindTransfer
  <2> QED
    BY <1>b, <2>2, <2>3, UntouchedDeparture, ElsewhereNotLeaving
<1>5. ASSUME NEW j \in Job, JoinCommit(j)
      PROVE  DepartureKept(t)
  <2>1. job[j].t \in Token /\ invite[job[j].t].st # "none"
    BY <1>5, <1>a DEF JoinCommit, At, TokenPC, InviteSeen
  <2>2. Goto(j, "joinNotify", job[j].t, FALSE) \/ Return(j)
    BY <1>5 DEF JoinCommit
  <2>3. Moves(j) /\ job'[j].pc # "leaveNotify"
    BY <2>1, <2>2, GotoTyped, ReturnTyped DEF TokenPC, Types, Moves
  <2>4. \/ channel[job[j].t].st = "none" /\ channel' = NewChannel(job[j].t)
        \/ UNCHANGED channel
    BY <1>5 DEF JoinCommit, NewChannelAccepted
  <2>5. ClosedChannelKept(t)
    BY <2>1, <2>4, NewChannelTyped DEF ClosedChannelKept, Types
  <2> QED
    BY <1>5, <2>3, <2>5, UntouchedDeparture, ElsewhereNotLeaving DEF JoinCommit
<1>6. ASSUME NEW j \in Job, DeclineClose(j)
      PROVE  DepartureKept(t)
  <2>1. job[j].pc \in TokenPC
    BY <1>6 DEF DeclineClose, At, TokenPC
  <2>2. Goto(j, "declineNotify", job[j].t, job[j].xfer) \/ AfterDecline(j)
    BY <1>6 DEF DeclineClose
  <2>3. Moves(j) /\ job'[j].pc # "leaveNotify"
    <3>1. CASE Goto(j, "declineNotify", job[j].t, job[j].xfer)
      BY <2>1, <3>1, <1>a, GotoTyped DEF TokenPC, Types, Moves
    <3>2. CASE AfterDecline(j)
      BY <2>1, <3>2, AfterDeclineTyped DEF Types, Moves
    <3> QED
      BY <2>2, <3>1, <3>2
  <2> QED
    BY <1>6, <1>b, <2>3, UntouchedDeparture, ElsewhereNotLeaving DEF DeclineClose
<1>7. ASSUME NEW j \in Job, DeclineNotify(j)
      PROVE  DepartureKept(t)
  <2>1. job[j].pc \in TokenPC
    BY <1>7 DEF DeclineNotify, At, TokenPC
  <2>2. Moves(j) /\ job'[j].pc # "leaveNotify"
    BY <1>7, <2>1, AfterDeclineTyped DEF DeclineNotify, Types, Moves
  <2>3. told'[t]["leave"] = told[t]["leave"]
    BY <1>7, <2>1, <1>a, OtherNotice DEF DeclineNotify, Event
  <2>4. UNCHANGED broke \/ BreakBridge(job[j].t, "DECLINE_INVITATION")
    BY <1>7 DEF DeclineNotify
  <2>5. /\ broke'[t]["LEAVE_CONVERSATION"] = broke[t]["LEAVE_CONVERSATION"]
        /\ broke'[t]["TRANSFER"] = broke[t]["TRANSFER"]
    BY <2>1, <2>4, <1>a, BreakBridgeTyped DEF BreakCause, Types
  <2> QED
    BY <1>7, <1>b, <2>2, <2>3, <2>5, ElsewhereNotLeaving
    DEF DeclineNotify, DepartureKept, SameDepartures
<1>8. ASSUME NEW s \in Token, TimerFire(s) \/ TimerFails(s)
      PROVE  DepartureKept(t)
  BY <1>8, <1>b, UntouchedDeparture DEF TimerFire, TimerFails, NoNewLeaving, Leaving
<1>9. ASSUME NEW s \in Token, TimeoutNotify(s)
      PROVE  DepartureKept(t)
  <2>1. told'[t]["leave"] = told[t]["leave"]
    BY <1>9, OtherNotice DEF TimeoutNotify, Event
  <2>2. UNCHANGED broke \/ BreakBridge(s, "TIMEOUT")
    BY <1>9 DEF TimeoutNotify
  <2>3. /\ broke'[t]["LEAVE_CONVERSATION"] = broke[t]["LEAVE_CONVERSATION"]
        /\ broke'[t]["TRANSFER"] = broke[t]["TRANSFER"]
    BY <2>2, BreakBridgeTyped DEF BreakCause, Types
  <2> QED
    BY <1>9, <1>b, <2>1, <2>3
    DEF TimeoutNotify, DepartureKept, SameDepartures, NoNewLeaving, Leaving
<1>10. ASSUME NEW j \in Job, NEW s \in Token, NEW xfer \in BOOLEAN,
              CloseChannelHit(s), channel' = ChannelClosed(s, LeaveCause(xfer)),
              Goto(j, "leaveNotify", s, xfer), UNCHANGED <<told, broke>>
      PROVE  DepartureKept(t) \/ DepartureClaimed(t)
  <2>1. Moves(j) /\ job'[j].t = s /\ job'[j].xfer = xfer
    BY <1>10, GotoTyped DEF TokenPC, Types, Moves
  <2>2. channel[s].st = "open"
    BY <1>10 DEF CloseChannelHit
  <2>3. /\ channel'[s].st = "closed" /\ channel'[s].cause = LeaveCause(xfer)
        /\ \A q \in Token : q # s => channel'[q] = channel[q]
    BY <1>10, <2>2, ChannelClosedTyped DEF LeaveCause, Types
  <2>4. CASE t = s
    BY <1>10, <2>1, <2>2, <2>3, <2>4 DEF DepartureClaimed, SameDepartures
  <2>5. CASE t # s
    <3>1. NoNewLeaving(t)
      BY <2>1, <2>5 DEF Moves, NoNewLeaving, Leaving
    <3> QED
      BY <1>10, <2>3, <2>5, <3>1, UntouchedDeparture DEF ClosedChannelKept
  <2> QED
    BY <2>4, <2>5
<1>11. ASSUME NEW j \in Job, NEW s \in Token, LeaveConversation(j, s)
      PROVE  DepartureKept(t) \/ DepartureClaimed(t)
  BY <1>10, <1>11 DEF LeaveConversation
<1>12. ASSUME NEW j \in Job, LeaveNotify(j)
      PROVE  DepartureKept(t) \/ DepartureAnnounced(t)
  <2>1. job[j].t \in Token /\ job[j].xfer \in BOOLEAN /\ job[j].pc = "leaveNotify"
    BY <1>12, <1>a DEF LeaveNotify, At, TokenPC
  <2>2. Goto(j, "transferTo", job[j].t, TRUE) \/ Return(j)
    BY <1>12 DEF LeaveNotify
  <2>3. Moves(j) /\ job'[j].pc # "leaveNotify"
    BY <2>1, <2>2, GotoTyped, ReturnTyped DEF TokenPC, Types, Moves
  <2>4. UNCHANGED channel
    BY <1>12 DEF LeaveNotify
  <2>5. /\ told'[job[j].t]["leave"] = told[job[j].t]["leave"] + 1
        /\ \A s \in Token : s # job[j].t => told'[s]["leave"] = told[s]["leave"]
    BY <1>12, <2>1, TellTyped DEF LeaveNotify, Event, Types
  <2>6. BreakBridge(job[j].t, IF job[j].xfer THEN "TRANSFER" ELSE "LEAVE_CONVERSATION")
    BY <1>12 DEF LeaveNotify, LeaveBreak
  <2>7. /\ \A s \in Token : s # job[j].t =>
             /\ broke'[s]["LEAVE_CONVERSATION"] = broke[s]["LEAVE_CONVERSATION"]
             /\ broke'[s]["TRANSFER"] = broke[s]["TRANSFER"]
        /\ broke'[job[j].t]["LEAVE_CONVERSATION"] =
             IF job[j].xfer THEN broke[job[j].t]["LEAVE_CONVERSATION"]
                            ELSE broke[job[j].t]["LEAVE_CONVERSATION"] + 1
        /\ broke'[job[j].t]["TRANSFER"] =
             IF job[j].xfer THEN broke[job[j].t]["TRANSFER"] + 1
                            ELSE broke[job[j].t]["TRANSFER"]
    <3>1. CASE job[j].xfer
      BY <2>1, <2>6, <3>1, BreakBridgeTyped DEF BreakCause, Types
    <3>2. CASE ~ job[j].xfer
      BY <2>1, <2>6, <3>2, BreakBridgeTyped DEF BreakCause, Types
    <3> QED
      BY <3>1, <3>2
  <2>8. CASE t = job[j].t
    BY <2>1, <2>3, <2>4, <2>5, <2>7, <2>8 DEF DepartureAnnounced, Leaving
  <2>9. CASE t # job[j].t
    BY <1>b, <2>3, <2>4, <2>5, <2>7, <2>9, ElsewhereNotLeaving
    DEF DepartureKept, SameDepartures
  <2> QED
    BY <2>8, <2>9
<1>13. ASSUME NEW j \in Job, TransferLeave(j)
      PROVE  DepartureKept(t) \/ DepartureClaimed(t)
  <2>1. job[j].t \in Token
    BY <1>13, <1>a DEF TransferLeave, At, TokenPC
  <2>2. CASE CloseChannelHit(job[j].t)
    BY <1>10, <1>13, <2>1, <2>2 DEF TransferLeave
  <2>3. CASE ~ CloseChannelHit(job[j].t)
    <3>1. Goto(j, "transferTo", job[j].t, TRUE) /\ UNCHANGED <<channel, told, broke>>
      BY <1>13, <2>3 DEF TransferLeave
    <3>2. Moves(j) /\ job'[j].pc # "leaveNotify"
      BY <2>1, <3>1, GotoTyped DEF TokenPC, Types, Moves
    <3> QED
      BY <1>b, <3>1, <3>2, UntouchedDeparture, ElsewhereNotLeaving
  <2> QED
    BY <2>2, <2>3
<1>14. ASSUME NEW j \in Job, TransferTo(j)
      PROVE  DepartureKept(t)
  <2>1. Moves(j) /\ job'[j].pc # "leaveNotify"
    BY <1>14, ReturnTyped DEF TransferTo, Types, Moves
  <2> QED
    BY <1>14, <1>b, <2>1, UntouchedDeparture, ElsewhereNotLeaving DEF TransferTo
<1>15. ASSUME NEW j \in Job, NEW c \in Conv, CloseConversation(j, c)
      PROVE  DepartureKept(t)
  <2>1. Moves(j) /\ job'[j].pc # "leaveNotify"
    BY <1>15 DEF CloseConversation, Types, Moves
  <2> QED
    BY <1>15, <1>b, <2>1, UntouchedDeparture, ElsewhereNotLeaving DEF CloseConversation
<1>16. ASSUME NEW j \in Job, CloseNotify(j)
      PROVE  DepartureKept(t)
  <2> DEFINE r == [job[j] EXCEPT !.pc = "close"]
  <2>1. r.pc = "close"
    <3>1. job[j] \in CloseJob
      BY <1>16, CloseJobs DEF CloseNotify, At, Types
    <3> QED
      BY <3>1 DEF CloseJob
  <2>2. Moves(j) /\ job'[j].pc # "leaveNotify"
    <3>1. job' = [job EXCEPT ![j] = r]
      BY <1>16 DEF CloseNotify
    <3> HIDE DEF r
    <3> QED
      BY <2>1, <3>1 DEF Types, Moves
  <2>3. told'[t]["leave"] = told[t]["leave"]
    BY <1>16 DEF CloseNotify, Event, Types
  <2> QED
    BY <1>16, <1>b, <2>2, <2>3, ElsewhereNotLeaving
    DEF CloseNotify, DepartureKept, SameDepartures
<1>17. ASSUME NEW j \in Job, CloseCommit(j)
      PROVE  DepartureKept(t)
  <2>1. Moves(j) /\ job'[j].pc # "leaveNotify"
    BY <1>17, ReturnTyped DEF CloseCommit, Types, Moves
  <2>2. ClosedChannelKept(t)
    BY <1>17, ChannelsOfTyped DEF CloseCommit, Types, ClosedChannelKept
  <2> QED
    BY <1>17, <2>1, <2>2, UntouchedDeparture, ElsewhereNotLeaving DEF CloseCommit
<1>18. ASSUME NEW j \in Job, StatementFails(j)
      PROVE  DepartureKept(t)
  <2>1. Moves(j) /\ job'[j].pc # "leaveNotify"
    <3>1. CASE Return(j)
      BY <3>1, ReturnTyped DEF Types, Moves
    <3>2. CASE \/ At(j, "decline") /\ AfterDecline(j)
               \/ At(j, "leave") /\ Goto(j, "transferTo", job[j].t, TRUE)
      <4>1. job[j].pc \in TokenPC
        BY <3>2 DEF At, TokenPC
      <4> QED
        BY <3>2, <4>1, <1>a, AfterDeclineTyped, GotoTyped DEF Types, TokenPC, Moves
    <3> QED
      BY <1>18, <3>1, <3>2 DEF StatementFails
  <2> QED
    BY <1>18, <1>b, <2>1, UntouchedDeparture, ElsewhereNotLeaving DEF StatementFails
<1>19. ASSUME Restart \/ UNCHANGED vars
      PROVE  DepartureKept(t)
  BY <1>19, <1>b, UntouchedDeparture, NewJobs DEF Restart, vars, NoNewLeaving, Leaving
<1> QED
  BY <1>1, <1>2, <1>3, <1>4, <1>5, <1>6, <1>7, <1>8, <1>9, <1>11, <1>12, <1>13,
     <1>14, <1>15, <1>16, <1>17, <1>18, <1>19
     DEF Next, Request, JobStep, TimerStep

(***************************************************************************)
(* A departure is announced at most once, by the leaveChat whose           *)
(* CloseChannel closed the row and with the cause the row keeps, however   *)
(* many leaves, transfers and closings race.                               *)
(***************************************************************************)
THEOREM DepartedAtMostOnce == Spec => []DepartureAnnouncedOnce
<1>1. Init => DepartureInv
  <2> SUFFICES ASSUME Init PROVE DepartureInv
    OBVIOUS
  <2>1. \A t \in Token : Unannounced(t) /\ \A j \in Job : ~ Leaving(j, t)
    BY DEF Init, Unannounced, Leaving, Event, BreakCause, Idle
  <2> QED
    BY <2>1 DEF DepartureInv, DepartureInvOf, AnnouncedOnce, Unannounced
<1>2. RowInv /\ DepartureInv /\ [Next]_vars => DepartureInv'
  BY DepartureSteps, DeparturePreserved DEF RowInv, DepartureInv
<1>3. DepartureInv => DepartureAnnouncedOnce
  BY DEF DepartureInv, DepartureInvOf, AnnouncedOnce, DepartureAnnouncedOnce
<1> QED
  BY <1>1, <1>2, <1>3, InitRows, NextRows, PTL DEF Spec

-----------------------------------------------------------------------------
(* No step of any handler changes an invite that is closed. *)
LEMMA ClosedInviteKept ==
  ASSUME RowInv, [Next]_vars, NEW t \in Token, invite[t].st = "closed"
  PROVE  invite'[t] = invite[t]
<1> USE DEF RowInv
<1>1. ASSUME NEW s \in Token, invite' = InviteClosed(s)
      PROVE  invite'[t] = invite[t]
  <2>1. CASE t = s
    <3>1. invite'[t] = [invite[t] EXCEPT !.st = "closed"]
      BY <1>1, <2>1 DEF InviteClosed, Types
    <3> QED
      BY <3>1, InviteCloses DEF Types
  <2>2. CASE t # s
    BY <1>1, <2>2 DEF InviteClosed, Types
  <2> QED
    BY <2>1, <2>2
<1>2. \A i \in Job : job[i].pc \in TokenPC => job[i].t \in Token
  BY TokenJobs DEF Types
<1>3. ASSUME NEW j \in Job, NEW c \in Conv, NEW u \in User, NEW s \in Token,
             NEW flow \in BOOLEAN, NEW ttl \in BOOLEAN,
             InviteToConversation(j, c, u, s, flow, ttl)
      PROVE  invite'[t] = invite[t]
  BY <1>3 DEF InviteToConversation, Types
<1>4. ASSUME NEW j \in Job, JoinCommit(j) \/ DeclineClose(j)
      PROVE  invite'[t] = invite[t]
  <2>1. job[j].t \in Token
    BY <1>2, <1>4 DEF JoinCommit, DeclineClose, At, TokenPC
  <2>2. invite' = InviteClosed(job[j].t) \/ UNCHANGED invite
    BY <1>4 DEF JoinCommit, JoinInvite, DeclineClose
  <2> QED
    BY <1>1, <2>1, <2>2
<1>5. ASSUME NEW s \in Token, TimerFire(s)
      PROVE  invite'[t] = invite[t]
  BY <1>1, <1>5 DEF TimerFire
<1>6. ASSUME NEW j \in Job, CloseCommit(j)
      PROVE  invite'[t] = invite[t]
  BY <1>6, InvitesOfTyped DEF CloseCommit, Types
<1>7. ASSUME NEW j \in Job,
             \/ \E s \in Token : \/ JoinLookup(j, s) \/ DeclineLookup(j, s)
                                 \/ LeaveConversation(j, s) \/ BlindTransfer(j, s)
             \/ \E c \in Conv : CloseConversation(j, c)
             \/ InviteNotify(j) \/ JoinNotify(j) \/ DeclineNotify(j) \/ LeaveNotify(j)
             \/ TransferLeave(j) \/ TransferTo(j) \/ CloseNotify(j) \/ StatementFails(j)
      PROVE  invite'[t] = invite[t]
  BY <1>7 DEF JoinLookup, DeclineLookup, LeaveConversation, BlindTransfer,
              CloseConversation, InviteNotify, JoinNotify, DeclineNotify, LeaveNotify,
              TransferLeave, TransferTo, CloseNotify, StatementFails
<1>8. ASSUME \/ \E c \in Conv : StartConversation(c)
             \/ \E s \in Token : TimeoutNotify(s) \/ TimerFails(s)
             \/ Restart \/ UNCHANGED vars
      PROVE  invite'[t] = invite[t]
  BY <1>8 DEF StartConversation, TimeoutNotify, TimerFails, Restart, vars
<1> QED
  BY <1>3, <1>4, <1>5, <1>6, <1>7, <1>8 DEF Next, Request, JobStep, TimerStep

(***************************************************************************)
(* The first close of an invite or a channel is final: no later leave,     *)
(* transfer, timeout, join or CloseConversation rewrites the row.          *)
(***************************************************************************)
THEOREM FirstCloseFinal == Spec => FirstCloseIsFinal
<1> DEFINE Final == \A t \in Token : /\ channel[t].st = "closed" => channel'[t] = channel[t]
                                     /\ invite[t].st = "closed" => invite'[t] = invite[t]
<1>1. RowInv /\ [Next]_vars => Final
  <2> SUFFICES ASSUME RowInv, [Next]_vars, NEW t \in Token
               PROVE  /\ channel[t].st = "closed" => channel'[t] = channel[t]
                      /\ invite[t].st = "closed" => invite'[t] = invite[t]
    OBVIOUS
  <2>1. DepartureKept(t) \/ DepartureClaimed(t) \/ DepartureAnnounced(t)
    BY DepartureSteps
  <2>2. channel[t].st = "closed" => channel'[t] = channel[t]
    BY <2>1 DEF DepartureKept, DepartureClaimed, DepartureAnnounced, ClosedChannelKept
  <2> QED
    BY <2>2, ClosedInviteKept
<1> HIDE DEF Final
<1>2. FirstCloseIsFinal <=> [][Final]_vars
  BY PTL DEF FirstCloseIsFinal, Final
<1> QED
  BY <1>1, <1>2, InitRows, NextRows, PTL DEF Spec
=============================================================================
