----------------------------- MODULE Membership -----------------------------
(***************************************************************************)
(* Who sits in a chat: the rows of chat.conversation, chat.invite and      *)
(* chat.channel, and the handlers of chatService (cmd/chat/service.go)     *)
(* that open and close them.  The handlers run concurrently, one goroutine *)
(* per request, and each of them is several database statements with other *)
(* handlers' statements in between; a statement (or a transaction) is one  *)
(* atomic action here, and job[j] is where request j stands.               *)
(*                                                                         *)
(* A token is a UUID: the primary key of an invite, and of the channel the *)
(* invited operator gets by joining (the channel is created with the id of *)
(* its invite).  The customer's own channel is created and closed together *)
(* with the conversation and has no row of its own here.                   *)
(***************************************************************************)
EXTENDS Naturals

CONSTANTS
  Conv,       \* conversation ids
  User,       \* operators (directory.wbt_user ids)
  Token,      \* invite and channel ids
  Job,        \* requests the server can be serving at one time
  MaxFaults   \* bound on failed statements, failed notices and restarts

ASSUME MaxFaultsAssumption == MaxFaults \in Nat

VARIABLES
  conv,       \* conv[c]: chat.conversation.closed_at, "none" before the row exists
  invite,     \* invite[t]: row of chat.invite
  channel,    \* channel[t]: row of chat.channel of an operator
  timer,      \* timer[t]: goroutine that auto-declines the invite
  job,        \* job[j]: the request a goroutine is serving
  told,       \* told[t][e]: how often event e about t was routed to the users
  broke,      \* broke[t][k]: BreakBridge(k) calls made to workflow about t
  faults      \* failures so far

vars == <<conv, invite, channel, timer, job, told, broke, faults>>

NoRow == [st |-> "none"]
Idle  == [pc |-> "idle"]

Event      == {"invite", "join", "leave", "decline", "timeout", "close"}
BreakCause == {"DECLINE_INVITATION", "LEAVE_CONVERSATION", "TRANSFER", "TIMEOUT"}

(***************************************************************************)
(* Rows.  flow: no inviter_channel_id, that is invited by the workflow;    *)
(* ttl: timeout_sec > 0; cause: closed_cause.                              *)
(***************************************************************************)
InviteRow  == [st : {"open", "closed"}, conv : Conv, user : User,
               flow : BOOLEAN, ttl : BOOLEAN]
ChannelRow == [st : {"open", "closed"}, conv : Conv, user : User,
               bridge : BOOLEAN, cause : {"", "leave", "transfer", "close"}]

(***************************************************************************)
(* Requests in progress, named after what the goroutine does next.         *)
(***************************************************************************)
TokenPC  == {"inviteNotify", "join", "joinNotify", "decline", "declineNotify",
             "leave", "leaveNotify", "transferTo"}
TokenJob == [pc : TokenPC, t : Token, xfer : BOOLEAN]
CloseJob == [pc : {"closeNotify", "close"}, c : Conv, rcpt : SUBSET Token]

TypeOK ==
  /\ conv \in [Conv -> {"none", "open", "closed"}]
  /\ invite \in [Token -> InviteRow \cup {NoRow}]
  /\ channel \in [Token -> ChannelRow \cup {NoRow}]
  /\ timer \in [Token -> {"off", "armed", "fired"}]
  /\ job \in [Job -> TokenJob \cup CloseJob \cup {Idle}]
  /\ told \in [Token -> [Event -> Nat]]
  /\ broke \in [Token -> [BreakCause -> Nat]]
  /\ faults \in Nat

Init ==
  /\ conv = [c \in Conv |-> "none"]
  /\ invite = [t \in Token |-> NoRow]
  /\ channel = [t \in Token |-> NoRow]
  /\ timer = [t \in Token |-> "off"]
  /\ job = [j \in Job |-> Idle]
  /\ told = [t \in Token |-> [e \in Event |-> 0]]
  /\ broke = [t \in Token |-> [k \in BreakCause |-> 0]]
  /\ faults = 0

-----------------------------------------------------------------------------
(***************************************************************************)
(* Faulty variants of definitions below, with which the properties fail:   *)
(* an UPDATE without its closed_at ISNULL, or whose result is not looked   *)
(* at, a join that leaves its invite open, a channel table without its     *)
(* primary key, an invitation whose auto-decline goroutine is forgotten.   *)
(***************************************************************************)
CloseInviteAny(t)   == invite[t].st # "none"
CloseChannelBlind(t) == TRUE
CloseChannelAny(t)  == channel[t].st # "none"
JoinInviteKept(t)   == invite
NewChannelAnyId(t)  == ~ \E s \in Token : /\ channel[s].st = "open"
                                         /\ channel[s].conv = invite[t].conv
                                         /\ channel[s].user = invite[t].user
ChannelsOfAll(c)    == [t \in Token |-> IF channel[t].st # "none" /\ channel[t].conv = c
                                        THEN [channel[t] EXCEPT !.st = "closed", !.cause = "close"]
                                        ELSE channel[t]]
TimerForgotten(t)   == timer

-----------------------------------------------------------------------------
(* Steps of a request. *)

Goto(j, pc, t, xfer) == job' = [job EXCEPT ![j] = [pc |-> pc, t |-> t, xfer |-> xfer]]
Return(j)            == job' = [job EXCEPT ![j] = Idle]
At(j, pc)            == job[j].pc = pc

Tell(t, e)       == told' = [told EXCEPT ![t][e] = @ + 1]
BreakBridge(t, k) == broke' = [broke EXCEPT ![t][k] = @ + 1]

(***************************************************************************)
(* Rows a query finds.  GetInviteByID reads only invites that are not      *)
(* closed; the partial unique indexes allow one open invite per user and   *)
(* conversation, and one open channel.                                     *)
(***************************************************************************)
GetInviteByID(t) == invite[t].st = "open"

InvitedTo(c, u) == \E t \in Token : /\ invite[t].st = "open"
                                    /\ invite[t].conv = c
                                    /\ invite[t].user = u
SeatedIn(c, u)  == \E t \in Token : /\ channel[t].st = "open"
                                    /\ channel[t].conv = c
                                    /\ channel[t].user = u

(***************************************************************************)
(* CloseInvite: UPDATE ... WHERE id = t AND closed_at ISNULL RETURNING     *)
(* true.  Its result is whether this call closed the row.                  *)
(***************************************************************************)
CloseInviteHit(t) == invite[t].st = "open"

InviteClosed(t) == [invite EXCEPT ![t].st = "closed"]

(* CloseChannel: the same for a channel, recording the cause. *)
CloseChannelHit(t) == channel[t].st = "open"

ChannelClosed(t, k) == [channel EXCEPT ![t].st = "closed", ![t].cause = k]

-----------------------------------------------------------------------------
(* StartConversation: conversation, customer channel and first message are *)
(* one transaction. *)
StartConversation(c) ==
  /\ conv[c] = "none"
  /\ conv' = [conv EXCEPT ![c] = "open"]
  /\ UNCHANGED <<invite, channel, timer, job, told, broke, faults>>

(***************************************************************************)
(* InviteToConversation.  Either the workflow invites, or a user on behalf *)
(* of a channel of his, which CheckUserChannel only looks up (it may be    *)
(* closed).  CreateInvite inserts under a fresh id; the foreign key needs  *)
(* the conversation's row, and nobody asks whether it is still open.       *)
(***************************************************************************)
InviteToConversation(j, c, u, t, flow, ttl) ==
  /\ At(j, "idle")
  /\ conv[c] # "none"
  /\ flow \/ \E i \in Token : channel[i].st # "none"
  /\ invite[t].st = "none"
  /\ ~ InvitedTo(c, u)
  /\ invite' = [invite EXCEPT ![t] = [st |-> "open", conv |-> c, user |-> u,
                                      flow |-> flow, ttl |-> ttl]]
  /\ Goto(j, "inviteNotify", t, FALSE)
  /\ UNCHANGED <<conv, channel, timer, told, broke, faults>>

(* The notices are sent, and only then the auto-decline goroutine starts. *)
ArmTimer(t) == IF invite[t].ttl THEN [timer EXCEPT ![t] = "armed"] ELSE timer

InviteNotify(j) ==
  /\ At(j, "inviteNotify")
  /\ Tell(job[j].t, "invite")
  /\ timer' = ArmTimer(job[j].t)
  /\ Return(j)
  /\ UNCHANGED <<conv, invite, channel, broke, faults>>

-----------------------------------------------------------------------------
(* JoinConversation: the invite is read before the transaction. *)
JoinLookup(j, t) ==
  /\ At(j, "idle")
  /\ GetInviteByID(t)
  /\ Goto(j, "join", t, FALSE)
  /\ UNCHANGED <<conv, invite, channel, timer, told, broke, faults>>

(***************************************************************************)
(* The transaction inserts the channel and closes the invite; whether this *)
(* CloseInvite hit an open row is not looked at.  A unique index refuses a *)
(* second row of the id and a second open channel of the user: rollback.   *)
(***************************************************************************)
NewChannel(t) == [channel EXCEPT ![t] =
                    [st |-> "open", conv |-> invite[t].conv, user |-> invite[t].user,
                     bridge |-> invite[t].flow, cause |-> ""]]

NewChannelAccepted(t) == /\ channel[t].st = "none"
                         /\ ~ SeatedIn(invite[t].conv, invite[t].user)

JoinInvite(t) == InviteClosed(t)

JoinCommit(j) ==
  LET t == job[j].t IN
  /\ At(j, "join")
  /\ \/ /\ NewChannelAccepted(t)
        /\ channel' = NewChannel(t)
        /\ invite' = JoinInvite(t)
        /\ Goto(j, "joinNotify", t, FALSE)
     \/ /\ ~ NewChannelAccepted(t)
        /\ Return(j)
        /\ UNCHANGED <<invite, channel>>
  /\ UNCHANGED <<conv, timer, told, broke, faults>>

JoinNotify(j) ==
  /\ At(j, "joinNotify")
  /\ Tell(job[j].t, "join")
  /\ Return(j)
  /\ UNCHANGED <<conv, invite, channel, timer, broke, faults>>

-----------------------------------------------------------------------------
(***************************************************************************)
(* DeclineInvitation.  BlindTransfer calls it and then leaveChat, ignoring *)
(* the errors of both: AfterDecline is where the caller goes on.           *)
(***************************************************************************)
AfterDecline(j) == IF job[j].xfer THEN Goto(j, "leave", job[j].t, TRUE) ELSE Return(j)

DeclineLookup(j, t) ==
  /\ At(j, "idle")
  /\ GetInviteByID(t)
  /\ Goto(j, "decline", t, FALSE)
  /\ UNCHANGED <<conv, invite, channel, timer, told, broke, faults>>

DeclineClose(j) ==
  LET t == job[j].t IN
  /\ At(j, "decline")
  /\ \/ /\ CloseInviteHit(t)
        /\ invite' = InviteClosed(t)
        /\ Goto(j, "declineNotify", t, job[j].xfer)
     \/ /\ ~ CloseInviteHit(t)
        /\ AfterDecline(j)
        /\ UNCHANGED invite
  /\ UNCHANGED <<conv, channel, timer, told, broke, faults>>

(* The workflow's bridge is broken when the workflow invited; then the users are told. *)
DeclineNotify(j) ==
  LET t == job[j].t IN
  /\ At(j, "declineNotify")
  /\ IF invite[t].flow THEN BreakBridge(t, "DECLINE_INVITATION") ELSE UNCHANGED broke
  /\ Tell(t, "decline")
  /\ AfterDecline(j)
  /\ UNCHANGED <<conv, invite, channel, timer, faults>>

-----------------------------------------------------------------------------
(***************************************************************************)
(* The goroutine InviteToConversation leaves behind: it closes the invite  *)
(* when timeout_sec have passed.                                           *)
(***************************************************************************)
TimerFire(t) ==
  /\ timer[t] = "armed"
  /\ \/ /\ CloseInviteHit(t)
        /\ invite' = InviteClosed(t)
        /\ timer' = [timer EXCEPT ![t] = "fired"]
     \/ /\ ~ CloseInviteHit(t)
        /\ timer' = [timer EXCEPT ![t] = "off"]
        /\ UNCHANGED invite
  /\ UNCHANGED <<conv, channel, job, told, broke, faults>>

TimeoutNotify(t) ==
  /\ timer[t] = "fired"
  /\ IF invite[t].flow THEN BreakBridge(t, "TIMEOUT") ELSE UNCHANGED broke
  /\ Tell(t, "timeout")
  /\ timer' = [timer EXCEPT ![t] = "off"]
  /\ UNCHANGED <<conv, invite, channel, job, faults>>

-----------------------------------------------------------------------------
(***************************************************************************)
(* leaveChat.  The lookup only asks whether the channel exists, and a row  *)
(* is never deleted, so lookup and CloseChannel are one step.              *)
(***************************************************************************)
LeaveCause(xfer)  == IF xfer THEN "transfer" ELSE "leave"
LeaveBreak(xfer)  == IF xfer THEN "TRANSFER" ELSE "LEAVE_CONVERSATION"

LeaveConversation(j, t) ==
  /\ At(j, "idle")
  /\ CloseChannelHit(t)
  /\ channel' = ChannelClosed(t, LeaveCause(FALSE))
  /\ Goto(j, "leaveNotify", t, FALSE)
  /\ UNCHANGED <<conv, invite, timer, told, broke, faults>>

LeaveNotify(j) ==
  LET t == job[j].t IN
  /\ At(j, "leaveNotify")
  /\ BreakBridge(t, LeaveBreak(job[j].xfer))
  /\ Tell(t, "leave")
  /\ IF job[j].xfer THEN Goto(j, "transferTo", t, TRUE) ELSE Return(j)
  /\ UNCHANGED <<conv, invite, channel, timer, faults>>

(***************************************************************************)
(* BlindTransfer on behalf of operator channel (or pending invite) t:      *)
(* DeclineInvitation, leaveChat, then the workflow's TransferTo.           *)
(***************************************************************************)
BlindTransfer(j, t) ==
  /\ At(j, "idle")
  /\ channel[t].st # "none" \/ GetInviteByID(t)
  /\ IF GetInviteByID(t) THEN Goto(j, "decline", t, TRUE) ELSE Goto(j, "leave", t, TRUE)
  /\ UNCHANGED <<conv, invite, channel, timer, told, broke, faults>>

TransferLeave(j) ==
  LET t == job[j].t IN
  /\ At(j, "leave")
  /\ \/ /\ CloseChannelHit(t)
        /\ channel' = ChannelClosed(t, LeaveCause(TRUE))
        /\ Goto(j, "leaveNotify", t, TRUE)
     \/ /\ ~ CloseChannelHit(t)
        /\ Goto(j, "transferTo", t, TRUE)
        /\ UNCHANGED channel
  /\ UNCHANGED <<conv, invite, timer, told, broke, faults>>

TransferTo(j) ==
  /\ At(j, "transferTo")
  /\ Return(j)
  /\ UNCHANGED <<conv, invite, channel, timer, told, broke, faults>>

-----------------------------------------------------------------------------
(***************************************************************************)
(* CloseConversation.  GetSession finds the conversation and its members:  *)
(* the operators' channels, and the invites not closed yet.  The closer is *)
(* the customer or the workflow, whose membership ends with the            *)
(* conversation, or an operator; a closer that is closed already gets OK   *)
(* and nothing happens.  sendChatClosed then tells the members read here,  *)
(* and only after that the closing statement runs.                         *)
(***************************************************************************)
Pending(t, c) == invite[t].st = "open" /\ invite[t].conv = c
Seated(t, c)  == channel[t].st = "open" /\ channel[t].conv = c
Members(c)    == {t \in Token : Pending(t, c) \/ Seated(t, c)}

CloseConversation(j, c) ==
  /\ At(j, "idle")
  /\ conv[c] = "open" \/ Members(c) # {}
  /\ job' = [job EXCEPT ![j] = [pc |-> "closeNotify", c |-> c, rcpt |-> Members(c)]]
  /\ UNCHANGED <<conv, invite, channel, timer, told, broke, faults>>

CloseNotify(j) ==
  /\ At(j, "closeNotify")
  /\ told' = [t \in Token |-> IF t \in job[j].rcpt
                              THEN [told[t] EXCEPT !["close"] = @ + 1] ELSE told[t]]
  /\ job' = [job EXCEPT ![j].pc = "close"]
  /\ UNCHANGED <<conv, invite, channel, timer, broke, faults>>

(* psqlSessionCloseQ closes the conversation, its open invites and its open channels. *)
InvitesOf(c)  == [t \in Token |-> IF Pending(t, c)
                                  THEN [invite[t] EXCEPT !.st = "closed"] ELSE invite[t]]
ChannelsOf(c) == [t \in Token |-> IF Seated(t, c)
                                  THEN [channel[t] EXCEPT !.st = "closed", !.cause = "close"]
                                  ELSE channel[t]]

CloseCommit(j) ==
  LET c == job[j].c IN
  /\ At(j, "close")
  /\ conv' = [conv EXCEPT ![c] = "closed"]
  /\ invite' = InvitesOf(c)
  /\ channel' = ChannelsOf(c)
  /\ Return(j)
  /\ UNCHANGED <<timer, told, broke, faults>>

-----------------------------------------------------------------------------
(***************************************************************************)
(* Failures.  A statement that fails ends its request, except inside       *)
(* BlindTransfer, which ignores it; a failed notice ends an invitation     *)
(* before its goroutine is started.  A restart of the server loses the     *)
(* requests in progress and the sleeping goroutines; the rows stay.        *)
(***************************************************************************)
Fault == faults < MaxFaults /\ faults' = faults + 1

StatementFails(j) ==
  /\ Fault
  /\ \/ /\ At(j, "join") \/ At(j, "close") \/ At(j, "inviteNotify")
        /\ Return(j)
     \/ At(j, "decline") /\ AfterDecline(j)
     \/ At(j, "leave") /\ Goto(j, "transferTo", job[j].t, TRUE)
  /\ UNCHANGED <<conv, invite, channel, timer, told, broke>>

TimerFails(t) ==
  /\ Fault
  /\ timer[t] = "armed"
  /\ timer' = [timer EXCEPT ![t] = "off"]
  /\ UNCHANGED <<conv, invite, channel, job, told, broke>>

Restart ==
  /\ Fault
  /\ job' = [j \in Job |-> Idle]
  /\ timer' = [t \in Token |-> "off"]
  /\ UNCHANGED <<conv, invite, channel, told, broke>>

-----------------------------------------------------------------------------
(* What a goroutine does by itself once it has been started. *)
JobStep(j) ==
  \/ InviteNotify(j)
  \/ JoinCommit(j)
  \/ JoinNotify(j)
  \/ DeclineClose(j)
  \/ DeclineNotify(j)
  \/ LeaveNotify(j)
  \/ TransferLeave(j)
  \/ TransferTo(j)
  \/ CloseNotify(j)
  \/ CloseCommit(j)

TimerStep(t) == TimerFire(t) \/ TimeoutNotify(t)

Request(j) ==
  \/ \E c \in Conv, u \in User, t \in Token, flow, ttl \in BOOLEAN :
        InviteToConversation(j, c, u, t, flow, ttl)
  \/ \E t \in Token : \/ JoinLookup(j, t)
                      \/ DeclineLookup(j, t)
                      \/ LeaveConversation(j, t)
                      \/ BlindTransfer(j, t)
  \/ \E c \in Conv : CloseConversation(j, c)

Next ==
  \/ \E c \in Conv : StartConversation(c)
  \/ \E j \in Job : Request(j) \/ JobStep(j) \/ StatementFails(j)
  \/ \E t \in Token : TimerStep(t) \/ TimerFails(t)
  \/ Restart

Spec == Init /\ [][Next]_vars

(* A goroutine that has been started runs on, and a sleep ends. *)
Fairness == /\ \A j \in Job : WF_vars(JobStep(j))
            /\ \A t \in Token : WF_vars(TimerStep(t))

FairSpec == Spec /\ Fairness

-----------------------------------------------------------------------------
(***************************************************************************)
(* An invitation is refused at most once: of DeclineInvitation (also the   *)
(* one inside BlindTransfer) and the auto-decline goroutine, racing for    *)
(* the same invite, only the one whose CloseInvite hit the open row tells  *)
(* the users and breaks the workflow's bridge.                             *)
(***************************************************************************)
InviteSettledOnce ==
  \A t \in Token :
    /\ told[t]["decline"] + told[t]["timeout"] <= 1
    /\ broke[t]["DECLINE_INVITATION"] + broke[t]["TIMEOUT"] <= 1

(***************************************************************************)
(* GetSession never lists a member twice.  It returns the channels and the *)
(* open invites of a conversation, and a channel has the id of its invite: *)
(* whoever has a channel has no open invite under that id, and both rows   *)
(* are of one user in one conversation.                                    *)
(***************************************************************************)
SessionMembersDistinct ==
  \A t \in Token : channel[t].st # "none" =>
    /\ invite[t].st = "closed"
    /\ channel[t].conv = invite[t].conv
    /\ channel[t].user = invite[t].user

(***************************************************************************)
(* A departure is announced once, by the request whose CloseChannel closed *)
(* the channel, and with the cause the row keeps: a leave that lost to a   *)
(* transfer, to another leave or to the closing of the conversation        *)
(* announces nothing and breaks no bridge.                                 *)
(***************************************************************************)
DepartureAnnouncedOnce ==
  \A t \in Token :
    /\ told[t]["leave"] = broke[t]["LEAVE_CONVERSATION"] + broke[t]["TRANSFER"]
    /\ told[t]["leave"] <= 1
    /\ broke[t]["LEAVE_CONVERSATION"] = 1 => channel[t].cause = "leave"
    /\ broke[t]["TRANSFER"] = 1 => channel[t].cause = "transfer"

(***************************************************************************)
(* The first close of a row is final: no later leave, transfer, timeout or *)
(* CloseConversation reopens it or rewrites its closed_cause.              *)
(***************************************************************************)
FirstCloseIsFinal ==
  [][\A t \in Token : /\ channel[t].st = "closed" => channel'[t] = channel[t]
                      /\ invite[t].st = "closed" => invite'[t] = invite[t]]_vars

(***************************************************************************)
(* What the tables promise about a token, as the abstract machine Seat.    *)
(***************************************************************************)
SeatOf(t) == CASE channel[t].st = "open"   -> "taken"
               [] channel[t].st = "closed" -> "left"
               [] OTHER -> CASE invite[t].st = "none"   -> "none"
                             [] invite[t].st = "open"   -> "offered"
                             [] invite[t].st = "closed" -> "withdrawn"

Seats == INSTANCE Seat WITH seat <- [t \in Token |-> SeatOf(t)]

(* The rows of invite and channel, written by all the handlers, implement Seat. *)
ImplementsSeat == Seats!Spec

(***************************************************************************)
(* An invitation with a timeout does not stay open: once the invited user  *)
(* has been told, the invite is eventually joined, declined, timed out or  *)
(* closed with its conversation, if no statement fails and the server is   *)
(* not restarted.                                                          *)
(***************************************************************************)
InviteEventuallySettled ==
  \A t \in Token :
    (told[t]["invite"] > 0 /\ invite[t].ttl) ~> (invite[t].st = "closed")

-----------------------------------------------------------------------------
(***************************************************************************)
(* What a comment of the code says, and concurrent requests break.         *)
(* CloseConversation: "Mark ALL chat members as CLOSED !"                  *)
(***************************************************************************)
ClosedChatIsEmpty ==
  \A c \in Conv : conv[c] = "closed" => \A t \in Token : ~ Seated(t, c)
=============================================================================
