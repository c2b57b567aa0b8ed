----------------------------- MODULE BotChannel -----------------------------
(***************************************************************************)
(* How the messages of one customer find his conversation: a gateway       *)
(* (bot/gateway.go) and its cache of bot.Channel objects (bot/channel.go), *)
(* in front of the chat server.  Webhook requests bring the customer's     *)
(* messages; the server's requests bring him what the others say, and last *)
(* that the conversation is closed.                                        *)
(*                                                                         *)
(* Gateway.loadMx serialises GetChannel, Channel.recvMx the messages of    *)
(* one object; Gateway.RWMutex covers only the reads and writes of the     *)
(* cache, each of which is one action here, as is each RPC.  An object     *)
(* that was evicted may still be in the hands of a request, so objects     *)
(* have an identity.                                                       *)
(***************************************************************************)
EXTENDS Naturals, FiniteSets

CONSTANTS
  MaxConv,    \* bound on conversations, each with its customer's channel
  MaxObj,     \* bound on Channel objects, reused once nothing refers to them
  Webhook,    \* requests from the provider
  Server,     \* requests the chat server serves
  Ops,        \* kinds of requests that are made
  MaxFaults,  \* bound on failed calls
  NoJob       \* a free mutex; a request nobody waits for

ASSUME BotAssumption == /\ MaxConv \in Nat /\ MaxObj \in Nat /\ MaxFaults \in Nat
                        /\ Ops \subseteq {"text", "command", "notice", "close"}
                        /\ NoJob \notin Webhook \cup Server
                        /\ Webhook \cap Server = {}

Conv   == 1..MaxConv
NoConv == 0             \* ChannelID == ""
Obj    == 1..MaxObj
NoObj  == 0             \* nothing is cached

VARIABLES
  row,        \* row[k]: the customer's row of chat.channel in conversation k
  link,       \* Gateway.external[chatID] and Gateway.internal[account]
  obj,        \* obj[o]: ChannelID, and whether Closed # 0
  loadMx,     \* holder of Gateway.loadMx
  recvMx,     \* recvMx[o]: holder of Channel.recvMx
  job,        \* job[j]: the request a goroutine is serving
  faults      \* failures so far

vars == <<row, link, obj, loadMx, recvMx, job, faults>>

Job  == Webhook \cup Server
Idle == [pc |-> "idle"]

(* op: what is asked for; o: the object in hand; k: the conversation; by: who waits. *)
PC   == {"load", "check", "link", "recv", "send", "start", "restart", "started", "relink",
         "mark", "close", "closing", "request", "await", "evict", "commit"}
Call == [pc : PC, op : {"text", "command", "notice", "close"}, o : Obj \cup {NoObj},
         k : Conv \cup {NoConv}, by : Job \cup {NoJob}]

TypeOK ==
  /\ row \in [Conv -> {"none", "open", "closed"}]
  /\ link \in Obj \cup {NoObj}
  /\ obj \in [Obj -> [chan : Conv \cup {NoConv}, closed : BOOLEAN]]
  /\ loadMx \in Job \cup {NoJob}
  /\ recvMx \in [Obj -> Webhook \cup {NoJob}]
  /\ job \in [Job -> Call \cup {Idle}]
  /\ \A j \in Job : job[j] # Idle /\ job[j].pc \notin {"load", "check", "commit"}
                      => job[j].o # NoObj
  /\ \A j \in Webhook : job[j] # Idle /\ job[j].pc \notin {"load", "check", "link", "recv"}
                          => recvMx[job[j].o] = j
  /\ \A o \in Obj : recvMx[o] # NoJob => job[recvMx[o]] # Idle /\ job[recvMx[o]].o = o
  /\ faults \in 0..MaxFaults

Init ==
  /\ row = [k \in Conv |-> "none"]
  /\ link = NoObj
  /\ obj = [o \in Obj |-> [chan |-> NoConv, closed |-> FALSE]]
  /\ loadMx = NoJob
  /\ recvMx = [o \in Obj |-> NoJob]
  /\ job = [j \in Job |-> Idle]
  /\ faults = 0

-----------------------------------------------------------------------------
(***************************************************************************)
(* Faulty variants of definitions below, with which the properties fail:   *)
(* a recvMx that is not given back, a CheckSession that finds no channel,  *)
(* a Send that takes any message for the last one.                         *)
(***************************************************************************)
NeverUnlocked(j) == recvMx
NoSession        == {}
AnySaysClosed(j) == TRUE

-----------------------------------------------------------------------------
(* Steps of a request. *)
At(j, pc)   == job[j].pc = pc
Goto(j, pc) == [job EXCEPT ![j].pc = pc]

(* Where a request goes when GetChannel has returned, and when Close has. *)
First(j)    == IF j \in Webhook THEN "recv" ELSE "mark"
Finished(j) == IF j \in Server /\ job[j].op = "close" THEN Goto(j, "commit")
               ELSE [job EXCEPT ![j] = Idle]

(* The deferred recvMx.Unlock of Recv. *)
Unlocked(j) == IF j \in Webhook THEN [recvMx EXCEPT ![job[j].o] = NoJob] ELSE recvMx

Return(j) == job' = Finished(j) /\ recvMx' = Unlocked(j)

(* A new object: the first one neither cached nor in the hands of a request. *)
Unused(o) == link # o /\ \A j \in Job : job[j] # Idle => job[j].o # o
New(o)    == Unused(o) /\ \A p \in Obj : p < o => ~ Unused(p)

(* A new conversation of the server: the first id not used yet. *)
Fresh(k) == row[k] = "none" /\ \A m \in Conv : m < k => row[m] # "none"

-----------------------------------------------------------------------------
(* Requests arrive. *)
Ask(j, op, k, by) == [pc |-> "load", op |-> op, o |-> NoObj, k |-> k, by |-> by]

(* Bound: a message is taken only while every message in work could start a conversation. *)
Room == Cardinality({j \in Webhook : job[j] # Idle}) < Cardinality({k \in Conv : row[k] = "none"})

(* The provider calls the webhook with a message, or with the command "/close". *)
Read(j, op) ==
  /\ job[j] = Idle
  /\ op \in {"text", "command"} \cap Ops
  /\ op = "text" => Room
  /\ job' = [job EXCEPT ![j] = Ask(j, op, NoConv, NoJob)]
  /\ UNCHANGED <<row, link, obj, loadMx, recvMx, faults>>

(* The server has a message of a member for the customer of an open conversation. *)
SendMessage(j, k) ==
  /\ job[j] = Idle
  /\ "notice" \in Ops
  /\ row[k] = "open"
  /\ job' = [job EXCEPT ![j] = Ask(j, "notice", k, NoJob)]
  /\ UNCHANGED <<row, link, obj, loadMx, recvMx, faults>>

(* A member or the workflow closes: the customer is told first, the rows are closed last. *)
CloseConversation(j, k) ==
  /\ job[j] = Idle
  /\ "close" \in Ops
  /\ row[k] = "open"
  /\ job' = [job EXCEPT ![j] = Ask(j, "close", k, NoJob)]
  /\ UNCHANGED <<row, link, obj, loadMx, recvMx, faults>>

-----------------------------------------------------------------------------
(***************************************************************************)
(* Gateway.GetChannel, under loadMx: the cached object, or a new one for   *)
(* the open channel CheckSession finds, or a new one without a channel.    *)
(***************************************************************************)
LoadFree == loadMx = NoJob

CheckSession == {k \in Conv : row[k] = "open"}

LoadHit(j) ==
  /\ At(j, "load")
  /\ LoadFree
  /\ link # NoObj
  /\ job' = [job EXCEPT ![j].o = link, ![j].pc = First(j)]
  /\ UNCHANGED <<row, link, obj, loadMx, recvMx, faults>>

LoadMiss(j) ==
  /\ At(j, "load")
  /\ LoadFree
  /\ link = NoObj
  /\ loadMx' = j
  /\ job' = Goto(j, "check")
  /\ UNCHANGED <<row, link, obj, recvMx, faults>>

Check(j) ==
  /\ At(j, "check")
  /\ \E o \in Obj, k \in Conv \cup {NoConv} :
       /\ New(o)
       /\ IF CheckSession = {} THEN k = NoConv ELSE k \in CheckSession
       /\ obj' = [obj EXCEPT ![o] = [chan |-> k, closed |-> FALSE]]
       /\ job' = [job EXCEPT ![j].o = o, ![j].pc = "link"]
  /\ UNCHANGED <<row, link, loadMx, recvMx, faults>>

Link(j) ==
  /\ At(j, "link")
  /\ link' = job[j].o
  /\ loadMx' = NoJob
  /\ job' = Goto(j, First(j))
  /\ UNCHANGED <<row, obj, recvMx, faults>>

-----------------------------------------------------------------------------
(***************************************************************************)
(* Channel.Recv, under recvMx.  IsNew: the object has no ChannelID.        *)
(***************************************************************************)
IsNew(o) == obj[o].chan = NoConv

RecvFree(o) == recvMx[o] = NoJob

Recv(j) ==
  LET o == job[j].o IN
  /\ At(j, "recv")
  /\ RecvFree(o)
  /\ \/ /\ IsNew(o) /\ job[j].op = "command"
        /\ job' = Finished(j)
        /\ UNCHANGED recvMx
     \/ /\ IsNew(o) /\ job[j].op = "text"
        /\ recvMx' = [recvMx EXCEPT ![o] = j]
        /\ job' = Goto(j, "start")
     \/ /\ ~ IsNew(o)
        /\ recvMx' = [recvMx EXCEPT ![o] = j]
        /\ job' = Goto(j, IF job[j].op = "command" THEN "close" ELSE "send")
  /\ UNCHANGED <<row, link, obj, loadMx, faults>>

(* The RPC SendMessage; a channel the server has closed is started again. *)
Send(j) ==
  LET o == job[j].o IN
  /\ At(j, "send")
  /\ \/ /\ row[obj[o].chan] = "open"
        /\ Return(j)
        /\ UNCHANGED obj
     \/ /\ row[obj[o].chan] # "open"
        /\ obj' = [obj EXCEPT ![o] = [chan |-> NoConv, closed |-> FALSE]]
        /\ job' = Goto(j, "restart")
        /\ UNCHANGED recvMx
  /\ UNCHANGED <<row, link, loadMx, faults>>

(* Channel.Start: the RPC StartConversation, the object's fields, the cache. *)
Start(j) ==
  /\ At(j, "start") \/ At(j, "restart")
  /\ \E k \in Conv :
       /\ Fresh(k)
       /\ row' = [row EXCEPT ![k] = "open"]
       /\ job' = [job EXCEPT ![j].k = k, ![j].pc = "started"]
  /\ UNCHANGED <<link, obj, loadMx, recvMx, faults>>

Started(j) ==
  /\ At(j, "started")
  /\ obj' = [obj EXCEPT ![job[j].o] = [chan |-> job[j].k, closed |-> FALSE]]
  /\ job' = Goto(j, "relink")
  /\ UNCHANGED <<row, link, loadMx, recvMx, faults>>

Relink(j) ==
  /\ At(j, "relink")
  /\ link' = job[j].o
  /\ Return(j)
  /\ UNCHANGED <<row, obj, loadMx, faults>>

-----------------------------------------------------------------------------
(***************************************************************************)
(* Gateway.Send delivers a message of the server.  When it says "closed",  *)
(* the object is marked, the provider is called, and then Close evicts it. *)
(***************************************************************************)
SaysClosed(j) == job[j].op = "close"

Mark(j) ==
  LET o == job[j].o IN
  /\ At(j, "mark")
  /\ IF SaysClosed(j) /\ ~ IsNew(o)
     THEN obj' = [obj EXCEPT ![o].closed = TRUE] /\ job' = Goto(j, "close")
     ELSE job' = Finished(j) /\ UNCHANGED obj
  /\ UNCHANGED <<row, link, loadMx, recvMx, faults>>

(***************************************************************************)
(* Channel.Close.  Under the lock: not the cached object, nothing to do;   *)
(* cached and marked, evicted.  Otherwise it marks the object itself and   *)
(* asks the server to close the conversation.                              *)
(***************************************************************************)
Close(j) ==
  LET o == job[j].o IN
  /\ At(j, "close")
  /\ \/ /\ link # o
        /\ Return(j)
        /\ UNCHANGED link
     \/ /\ link = o /\ obj[o].closed
        /\ link' = NoObj
        /\ Return(j)
     \/ /\ link = o /\ ~ obj[o].closed
        /\ job' = Goto(j, "closing")
        /\ UNCHANGED <<link, recvMx>>
  /\ UNCHANGED <<row, obj, loadMx, faults>>

Closing(j) ==
  LET o == job[j].o IN
  /\ At(j, "closing")
  /\ \/ /\ obj[o].closed
        /\ Return(j)
        /\ UNCHANGED obj
     \/ /\ ~ obj[o].closed
        /\ obj' = [obj EXCEPT ![o].closed = TRUE]
        /\ job' = Goto(j, "request")
        /\ UNCHANGED recvMx
  /\ UNCHANGED <<row, link, loadMx, faults>>

(* The RPC CloseConversation, served by another request while this one waits. *)
Request(j) ==
  LET k == obj[job[j].o].chan IN
  /\ At(j, "request")
  /\ \/ /\ k = NoConv
        /\ job' = Goto(j, "evict")
        /\ UNCHANGED recvMx
     \/ /\ k # NoConv /\ row[k] # "open"
        /\ Return(j)
     \/ /\ k # NoConv /\ row[k] = "open"
        /\ \E s \in Server : /\ job[s] = Idle
                             /\ job' = [job EXCEPT ![s] = Ask(s, "close", k, j),
                                                   ![j].pc = "await"]
        /\ UNCHANGED recvMx
  /\ UNCHANGED <<row, link, obj, loadMx, faults>>

(* The call failed: the object is evicted. *)
Evict(j) ==
  /\ At(j, "evict")
  /\ link' = IF link = job[j].o THEN NoObj ELSE link
  /\ Return(j)
  /\ UNCHANGED <<row, obj, loadMx, faults>>

(* CloseConversation ends on the server, and with it whoever waits for it. *)
Commit(j) ==
  LET by == job[j].by IN
  /\ At(j, "commit")
  /\ row' = [row EXCEPT ![job[j].k] = "closed"]
  /\ IF by = NoJob
     THEN job' = [job EXCEPT ![j] = Idle] /\ UNCHANGED recvMx
     ELSE job' = [Finished(by) EXCEPT ![j] = Idle] /\ recvMx' = Unlocked(by)
  /\ UNCHANGED <<link, obj, loadMx, faults>>

-----------------------------------------------------------------------------
(***************************************************************************)
(* Failures.  A call that reports an error may have had its effect:        *)
(* StartConversation fails after its rows are committed when the workflow  *)
(* cannot be reached, and CloseConversation goes on when its caller stops  *)
(* waiting.  A restart of the gateway loses the cache and the requests it  *)
(* serves; for the server that is an error it ignores.                     *)
(***************************************************************************)
Fault == faults < MaxFaults /\ faults' = faults + 1

CheckFails(j) ==
  /\ Fault
  /\ At(j, "check")
  /\ loadMx' = NoJob
  /\ job' = Finished(j)
  /\ UNCHANGED <<row, link, obj, recvMx>>

SendFails(j) ==
  /\ Fault
  /\ At(j, "send")
  /\ Return(j)
  /\ UNCHANGED <<row, link, obj, loadMx>>

StartFails(j) ==
  /\ Fault
  /\ At(j, "start") \/ At(j, "restart")
  /\ \/ UNCHANGED row
     \/ \E k \in Conv : Fresh(k) /\ row' = [row EXCEPT ![k] = "open"]
  /\ IF At(j, "start") THEN Return(j) ELSE job' = Goto(j, "evict") /\ UNCHANGED recvMx
  /\ UNCHANGED <<link, obj, loadMx>>

RequestFails(j) ==
  /\ Fault
  /\ \/ At(j, "request") /\ job' = Goto(j, "evict")
     \/ /\ At(j, "await")
        /\ job' = [i \in Job |-> IF i = j THEN [job[i] EXCEPT !.pc = "evict"]
                                 ELSE IF job[i] # Idle /\ job[i].by = j
                                 THEN [job[i] EXCEPT !.by = NoJob] ELSE job[i]]
  /\ UNCHANGED <<row, link, obj, loadMx, recvMx>>

CommitFails(j) ==
  /\ Fault
  /\ At(j, "commit")
  /\ job' = [i \in Job |-> IF i = j THEN Idle
                           ELSE IF i = job[j].by THEN [job[i] EXCEPT !.pc = "evict"]
                           ELSE job[i]]
  /\ UNCHANGED <<row, link, obj, loadMx, recvMx>>

Restart ==
  /\ Fault
  /\ link' = NoObj
  /\ loadMx' = NoJob
  /\ recvMx' = [o \in Obj |-> NoJob]
  /\ job' = [j \in Job |-> IF j \in Server /\ job[j] # Idle /\ job[j].op = "close"
                           THEN [job[j] EXCEPT !.pc = "commit", !.by = NoJob] ELSE Idle]
  /\ UNCHANGED <<row, obj>>

-----------------------------------------------------------------------------
Waits(j) == LoadHit(j) \/ LoadMiss(j) \/ Recv(j) \/ Request(j)

Steps(j) ==
  \/ Check(j) \/ Link(j)
  \/ Send(j) \/ Start(j) \/ Started(j) \/ Relink(j)
  \/ Mark(j) \/ Close(j) \/ Closing(j) \/ Evict(j) \/ Commit(j)

Fails(j) ==
  \/ CheckFails(j) \/ SendFails(j) \/ StartFails(j) \/ RequestFails(j) \/ CommitFails(j)

Next ==
  \/ \E j \in Webhook, op \in {"text", "command"} : Read(j, op)
  \/ \E j \in Server, k \in Conv : SendMessage(j, k) \/ CloseConversation(j, k)
  \/ \E j \in Job : Waits(j) \/ Steps(j) \/ Fails(j)
  \/ Restart

Spec == Init /\ [][Next]_vars

(***************************************************************************)
(* A goroutine runs on, and sync.Mutex starves nobody: a goroutine that    *)
(* waited a millisecond gets the mutex next.  The server starts a          *)
(* goroutine for every call, so the call of Request is taken, whatever     *)
(* else it is serving.                                                     *)
(***************************************************************************)
FairSpec == Spec /\ \A j \in Job : WF_vars(Steps(j)) /\ SF_vars(Waits(j))

-----------------------------------------------------------------------------
(***************************************************************************)
(* GetChannel returns the customer's "unique channel state": his messages  *)
(* never open a second conversation while one is open.                     *)
(***************************************************************************)
OneConversation ==
  \A k, m \in Conv : row[k] = "open" /\ row[m] = "open" => k = m

(***************************************************************************)
(* A webhook request returns.  "/close" holds recvMx over an RPC whose     *)
(* handler calls the gateway back to say "closed" before it answers, and   *)
(* GetChannel holds loadMx over another: nobody waits on everybody.        *)
(***************************************************************************)
ReadReturns == \A j \in Webhook : job[j] # Idle ~> job[j] = Idle

(***************************************************************************)
(* "/close" is honoured: the conversation of the object it is received on  *)
(* gets closed, also when messages of the server and the end of the        *)
(* conversation reach the gateway meanwhile.                               *)
(***************************************************************************)
CommandHonoured ==
  \A j \in Webhook, k \in Conv :
    (At(j, "close") /\ obj[job[j].o].chan = k) ~> (row[k] = "closed")
=============================================================================
