----------------------------- MODULE FlowAgent ------------------------------
(***************************************************************************)
(* How a message of a chat reaches the workflow schema that serves it: the *)
(* flow.Agent of every chat server (internal/flow/client.go), its cache of *)
(* flow.Channel objects (internal/flow/channel.go) and the table           *)
(* chat.conversation_confirmation, for one conversation.                   *)
(*                                                                         *)
(* The schema asks for the next message by WaitMessage with a token; the   *)
(* server keeps the token in the memory of a Channel object and in the     *)
(* table, and Send hands a message over by ConfirmationMessage(token).     *)
(* Each lock region, each SQL statement and each RPC is one action.  A     *)
(* Channel object that was dropped from the cache may still be in the      *)
(* hands of a request, so objects have an identity.                        *)
(***************************************************************************)
EXTENDS Naturals

CONSTANTS
  Node,       \* chat servers
  Obj,        \* Channel objects, reused once nothing refers to them
  Token,      \* confirmation ids the workflow can issue
  Sender,     \* requests that send messages, one message each at a time
  Caller,     \* requests that close, transfer or break the bridge
  Waiter,     \* requests that serve WaitMessage
  Control,    \* kinds of control requests that are made
  MaxFaults,  \* bound on failures and restarts
  NoObj,      \* no object is cached
  NoTok       \* the empty token

ASSUME FlowAssumption == /\ MaxFaults \in Nat
                         /\ Control \subseteq {"close", "schema", "user", "bridge"}
                         /\ NoObj \notin Obj
                         /\ NoTok \notin Token

VARIABLES
  chat,       \* chat.conversation: "new", "open", "closed"
  flow,       \* external: the workflow session and the token it waits for
  issued,     \* external: tokens the workflow has issued
  cached,     \* cached[n]: Agent.channel[conversation] of server n
  pending,    \* pending[o]: Channel.pending
  store,      \* chat.conversation_confirmation
  job,        \* job[j]: the request a goroutine is serving
  faults      \* failures so far

vars == <<chat, flow, issued, cached, pending, store, job, faults>>

Job == Sender \cup Caller \cup Waiter

Op == {"init", "send", "wait", "close", "schema", "user", "bridge"}
PC == {"get", "put", "pending", "read", "deliver", "clear", "erase", "unused",
       "drop", "forget", "forgetStore", "start", "set", "write", "break",
       "stopClear", "stopErase", "stopDrop", "commit", "bridge"}

Idle == [pc |-> "idle"]
Call == [pc : PC, op : Op, n : Node, o : Obj \cup {NoObj}, tok : Token \cup {NoTok}]

Session(st, tok) == [st |-> st, tok |-> tok]

TypeOK ==
  /\ chat \in {"new", "open", "closed"}
  /\ flow \in [st : {"none", "busy", "wait"}, tok : Token \cup {NoTok}]
  /\ issued \subseteq Token
  /\ cached \in [Node -> Obj \cup {NoObj}]
  /\ pending \in [Obj -> Token \cup {NoTok}]
  /\ store \in Token \cup {NoTok}
  /\ job \in [Job -> Call \cup {Idle}]
  /\ \A j \in Job : job[j].pc = "deliver" => job[j].tok # NoTok
  /\ \A j \in Job : job[j] # Idle /\ job[j].pc \notin {"get", "commit"} => job[j].o # NoObj
  /\ faults \in 0..MaxFaults

Init ==
  /\ chat = "new"
  /\ flow = Session("none", NoTok)
  /\ issued = {}
  /\ cached = [n \in Node |-> NoObj]
  /\ pending = [o \in Obj |-> NoTok]
  /\ store = NoTok
  /\ job = [j \in Job |-> Idle]
  /\ faults = 0

-----------------------------------------------------------------------------
(***************************************************************************)
(* Faulty variants of definitions below, with which the properties fail:   *)
(* a token removed without being compared, a Send that does not look into  *)
(* the table, a Send that does not ask whether there is a token.             *)
(***************************************************************************)
DelPendingAny(o, used) == [pending EXCEPT ![o] = NoTok]
SendFromMemory(j)      == /\ job[j].pc = "pending"
                          /\ LET tok == pending[job[j].o] IN
                             job' = [job EXCEPT ![j] = IF tok = NoTok THEN Idle
                                       ELSE [@ EXCEPT !.tok = tok, !.pc = "deliver"]]
                          /\ UNCHANGED <<chat, flow, issued, cached, pending, store, faults>>
SendReadUnchecked(j)   == /\ job[j].pc = "read"
                          /\ job' = [job EXCEPT ![j].tok = store, ![j].pc = "deliver"]
                          /\ UNCHANGED <<chat, flow, issued, cached, pending, store, faults>>

-----------------------------------------------------------------------------
(* Steps of a request. *)
At(j, pc)    == job[j].pc = pc
Goto(j, pc)  == job' = [job EXCEPT ![j].pc = pc]
Return(j)    == job' = [job EXCEPT ![j] = Idle]
Begin(j, op, n, tok) == /\ job[j] = Idle
                        /\ job' = [job EXCEPT ![j] = [pc |-> "get", op |-> op, n |-> n,
                                                      o |-> NoObj, tok |-> tok]]

(* An object neither cached nor in the hands of a request. *)
Unused(o) == /\ \A n \in Node : cached[n] # o
             /\ \A j \in Job : job[j] # Idle => job[j].o # o

(* The pc after GetChannel, by request. *)
First(op) == CASE op = "send"   -> "pending"
               [] op = "wait"   -> "set"
               [] op = "bridge" -> "bridge"
               [] OTHER         -> "break"

(* setPending(next, "*") is unconditional; delPending(used) compares first. *)
SetPending(o, tok)  == [pending EXCEPT ![o] = tok]
DelPending(o, used) == IF pending[o] = used THEN [pending EXCEPT ![o] = NoTok] ELSE pending

WriteConfirmation(tok) == tok

-----------------------------------------------------------------------------
(***************************************************************************)
(* Agent.Init, called by StartConversation once its rows are written: a    *)
(* new object, Start, and then the object replaces whatever is cached.     *)
(***************************************************************************)
InitConversation(j, n, o) ==
  /\ job[j] = Idle
  /\ chat = "new"
  /\ Unused(o)
  /\ chat' = "open"
  /\ pending' = SetPending(o, NoTok)
  /\ job' = [job EXCEPT ![j] = [pc |-> "start", op |-> "init", n |-> n, o |-> o, tok |-> NoTok]]
  /\ UNCHANGED <<flow, issued, cached, store, faults>>

(* External: the running schema asks for a message under a fresh token. *)
WaitMessage(j, n, tok) ==
  /\ flow.st = "busy"
  /\ tok \in Token \ issued
  /\ issued' = issued \cup {tok}
  /\ flow' = Session("wait", tok)
  /\ Begin(j, "wait", n, tok)
  /\ UNCHANGED <<chat, cached, pending, store, faults>>

(* External: the schema ends by itself, or its server forgets the session. *)
FlowEnds ==
  /\ flow.st # "none"
  /\ flow' = Session("none", NoTok)
  /\ UNCHANGED <<chat, issued, cached, pending, store, job, faults>>

(***************************************************************************)
(* sendMessage to the schema of an open conversation.  The gateway takes   *)
(* the customer's next message only after StartConversation has returned   *)
(* (bot.Channel.Recv holds its mutex over Start).                          *)
(***************************************************************************)
Starting == \E i \in Caller : job[i] # Idle /\ job[i].op = "init"

SendMessage(j, n) ==
  /\ chat = "open"
  /\ ~ Starting
  /\ Begin(j, "send", n, NoTok)
  /\ UNCHANGED <<chat, flow, issued, cached, pending, store, faults>>

CloseConversation(j, n) ==
  /\ chat = "open"
  /\ "close" \in Control
  /\ Begin(j, "close", n, NoTok)
  /\ UNCHANGED <<chat, flow, issued, cached, pending, store, faults>>

(* The schema has ended and closes the chat itself: the agent is not called. *)
CloseByFlow(j, n) ==
  /\ chat = "open"
  /\ "close" \in Control
  /\ flow.st = "busy"
  /\ job[j] = Idle
  /\ job' = [job EXCEPT ![j] = [pc |-> "commit", op |-> "close", n |-> n,
                                o |-> NoObj, tok |-> NoTok]]
  /\ flow' = Session("none", NoTok)
  /\ UNCHANGED <<chat, issued, cached, pending, store, faults>>

TransferTo(j, n, op) ==
  /\ chat = "open"
  /\ op \in Control
  /\ Begin(j, op, n, NoTok)
  /\ UNCHANGED <<chat, flow, issued, cached, pending, store, faults>>

TransferToSchema(j, n) == TransferTo(j, n, "schema")
TransferToUser(j, n)   == TransferTo(j, n, "user")

BreakBridge(j, n) ==
  /\ chat # "new"
  /\ "bridge" \in Control
  /\ Begin(j, "bridge", n, NoTok)
  /\ UNCHANGED <<chat, flow, issued, cached, pending, store, faults>>

-----------------------------------------------------------------------------
(***************************************************************************)
(* Agent.GetChannel: a read-locked lookup; on a miss a new object, which a *)
(* write-locked assignment puts in the cache (over one put there since).   *)
(***************************************************************************)
GetHit(j) ==
  /\ At(j, "get")
  /\ cached[job[j].n] # NoObj
  /\ job' = [job EXCEPT ![j].pc = First(job[j].op), ![j].o = cached[job[j].n]]
  /\ UNCHANGED <<chat, flow, issued, cached, pending, store, faults>>

GetMiss(j) ==
  /\ At(j, "get")
  /\ cached[job[j].n] = NoObj
  /\ \E o \in Obj :
       /\ Unused(o)
       /\ pending' = SetPending(o, NoTok)
       /\ job' = [job EXCEPT ![j].pc = "put", ![j].o = o]
  /\ UNCHANGED <<chat, flow, issued, cached, store, faults>>

Put(j) ==
  /\ At(j, "put")
  /\ cached' = [cached EXCEPT ![job[j].n] = job[j].o]
  /\ IF job[j].op = "init" THEN Return(j) ELSE Goto(j, First(job[j].op))
  /\ UNCHANGED <<chat, flow, issued, pending, store, faults>>

(* Agent.delChannel, on the way out of a request that met an error. *)
Drop(j) ==
  /\ At(j, "drop")
  /\ cached' = [cached EXCEPT ![job[j].n] = NoObj]
  /\ Return(j)
  /\ UNCHANGED <<chat, flow, issued, pending, store, faults>>

-----------------------------------------------------------------------------
(* Agent.WaitMessage: the token in memory, then in the table. *)
WaitSet(j) ==
  /\ At(j, "set")
  /\ pending' = SetPending(job[j].o, job[j].tok)
  /\ Goto(j, "write")
  /\ UNCHANGED <<chat, flow, issued, cached, store, faults>>

WaitWrite(j) ==
  /\ At(j, "write")
  /\ store' = WriteConfirmation(job[j].tok)
  /\ Return(j)
  /\ UNCHANGED <<chat, flow, issued, cached, pending, faults>>

-----------------------------------------------------------------------------
(* Channel.Send: the token from memory, else from the table, else nothing. *)
SendPending(j) ==
  /\ At(j, "pending")
  /\ LET tok == pending[job[j].o] IN
     job' = [job EXCEPT ![j].tok = tok, ![j].pc = IF tok = NoTok THEN "read" ELSE "deliver"]
  /\ UNCHANGED <<chat, flow, issued, cached, pending, store, faults>>

SendRead(j) ==
  /\ At(j, "read")
  /\ IF store = NoTok THEN Return(j)
     ELSE job' = [job EXCEPT ![j].tok = store, ![j].pc = "deliver"]
  /\ UNCHANGED <<chat, flow, issued, cached, pending, store, faults>>

(* ConfirmationMessage(tok): taken, no such token, or no such session. *)
Confirms(tok) == flow = Session("wait", tok)

SendDeliver(j) ==
  /\ At(j, "deliver")
  /\ \/ /\ Confirms(job[j].tok)
        /\ flow' = Session("busy", NoTok)
        /\ Goto(j, "clear")
     \/ /\ ~ Confirms(job[j].tok)
        /\ Goto(j, IF flow.st = "none" THEN "forget" ELSE "unused")
        /\ UNCHANGED flow
  /\ UNCHANGED <<chat, issued, cached, pending, store, faults>>

(* Taken: the token is removed from memory if still there, and from the table. *)
SendClear(j) ==
  /\ At(j, "clear")
  /\ pending' = DelPending(job[j].o, job[j].tok)
  /\ Goto(j, "erase")
  /\ UNCHANGED <<chat, flow, issued, cached, store, faults>>

SendErase(j) ==
  /\ At(j, "erase")
  /\ store' = NoTok
  /\ Return(j)
  /\ UNCHANGED <<chat, flow, issued, cached, pending, faults>>

(* No such token: removed from memory, and the object from the cache. *)
SendUnused(j) ==
  /\ At(j, "unused")
  /\ pending' = DelPending(job[j].o, job[j].tok)
  /\ Goto(j, "drop")
  /\ UNCHANGED <<chat, flow, issued, cached, store, faults>>

(* No such session: everything is forgotten and the schema started again. *)
SendForget(j) ==
  /\ At(j, "forget")
  /\ pending' = SetPending(job[j].o, NoTok)
  /\ Goto(j, "forgetStore")
  /\ UNCHANGED <<chat, flow, issued, cached, store, faults>>

SendForgetStore(j) ==
  /\ At(j, "forgetStore")
  /\ store' = NoTok
  /\ Goto(j, "start")
  /\ UNCHANGED <<chat, flow, issued, cached, pending, faults>>

(***************************************************************************)
(* Channel.Start clears the token and starts a session on any workflow     *)
(* node, which from then on is the one the conversation's host row names;  *)
(* startUser does not clear.                                               *)
(***************************************************************************)
Start(j) ==
  /\ At(j, "start")
  /\ job[j].op # "user"
  /\ pending' = SetPending(job[j].o, NoTok)
  /\ flow' = Session("busy", NoTok)
  /\ IF job[j].op = "init" THEN Goto(j, "put") ELSE Return(j)
  /\ UNCHANGED <<chat, issued, cached, store, faults>>

StartUser(j) ==
  /\ At(j, "start")
  /\ job[j].op = "user"
  /\ flow' = Session("busy", NoTok)
  /\ Return(j)
  /\ UNCHANGED <<chat, issued, cached, pending, store, faults>>

-----------------------------------------------------------------------------
(***************************************************************************)
(* Channel.Close: the RPC Break, then the token is removed from memory and *)
(* from the table.  Agent.CloseConversation then drops the object, and the *)
(* handler closes the rows; a transfer goes on to Start.                   *)
(***************************************************************************)
Break(j) ==
  /\ At(j, "break")
  /\ flow' = Session("none", NoTok)
  /\ Goto(j, "stopClear")
  /\ UNCHANGED <<chat, issued, cached, pending, store, faults>>

StopClear(j) ==
  /\ At(j, "stopClear")
  /\ pending' = SetPending(job[j].o, NoTok)
  /\ Goto(j, "stopErase")
  /\ UNCHANGED <<chat, flow, issued, cached, store, faults>>

StopErase(j) ==
  /\ At(j, "stopErase")
  /\ store' = NoTok
  /\ Goto(j, IF job[j].op = "close" THEN "stopDrop" ELSE "start")
  /\ UNCHANGED <<chat, flow, issued, cached, pending, faults>>

StopDrop(j) ==
  /\ At(j, "stopDrop")
  /\ cached' = [cached EXCEPT ![job[j].n] = NoObj]
  /\ Goto(j, "commit")
  /\ UNCHANGED <<chat, flow, issued, pending, store, faults>>

(* psqlSessionCloseQ closes the conversation and deletes the token. *)
Commit(j) ==
  /\ At(j, "commit")
  /\ chat' = "closed"
  /\ store' = NoTok
  /\ Return(j)
  /\ UNCHANGED <<flow, issued, cached, pending, faults>>

(* The RPC BreakBridge changes nothing here. *)
Bridge(j) ==
  /\ At(j, "bridge")
  /\ Return(j)
  /\ UNCHANGED <<chat, flow, issued, cached, pending, store, faults>>

-----------------------------------------------------------------------------
(***************************************************************************)
(* Failures.  An RPC that reports an error may have had its effect.  A     *)
(* deletion that fails is not noticed.  A restart empties a server's cache *)
(* and loses its requests.                                                 *)
(***************************************************************************)
Fault == faults < MaxFaults /\ faults' = faults + 1

RpcFails(j) ==
  /\ Fault
  /\ \/ /\ At(j, "deliver")
        /\ \/ UNCHANGED flow
           \/ Confirms(job[j].tok) /\ flow' = Session("busy", NoTok)
        /\ Goto(j, "drop")
     \/ /\ At(j, "start")
        /\ UNCHANGED flow \/ flow' = Session("busy", NoTok)
        /\ IF job[j].op = "send" THEN Goto(j, "drop") ELSE Return(j)
     \/ /\ At(j, "break")
        /\ UNCHANGED flow \/ flow' = Session("none", NoTok)
        /\ IF job[j].op = "close" THEN Goto(j, "commit") ELSE Return(j)
  /\ UNCHANGED <<chat, issued, cached, pending, store>>

StoreFails(j) ==
  /\ Fault
  /\ \/ At(j, "read") /\ Goto(j, "drop") /\ UNCHANGED flow
     \/ /\ At(j, "write")
        /\ flow' = IF Confirms(job[j].tok) THEN Session("busy", NoTok) ELSE flow
        /\ Return(j)
     \/ At(j, "erase") /\ Return(j) /\ UNCHANGED flow
     \/ At(j, "forgetStore") /\ Goto(j, "start") /\ UNCHANGED flow
     \/ At(j, "commit") /\ Return(j) /\ UNCHANGED flow
  /\ UNCHANGED <<chat, issued, cached, pending, store>>

Restart(n) ==
  /\ Fault
  /\ cached' = [cached EXCEPT ![n] = NoObj]
  /\ job' = [j \in Job |-> IF job[j] # Idle /\ job[j].n = n THEN Idle ELSE job[j]]
  /\ UNCHANGED <<chat, flow, issued, pending, store>>

-----------------------------------------------------------------------------
JobStep(j) ==
  \/ GetHit(j) \/ GetMiss(j) \/ Put(j) \/ Drop(j)
  \/ WaitSet(j) \/ WaitWrite(j)
  \/ SendPending(j) \/ SendRead(j) \/ SendDeliver(j) \/ SendClear(j) \/ SendErase(j)
  \/ SendUnused(j) \/ SendForget(j) \/ SendForgetStore(j)
  \/ Start(j) \/ StartUser(j)
  \/ Break(j) \/ StopClear(j) \/ StopErase(j) \/ StopDrop(j) \/ Commit(j) \/ Bridge(j)

Request(n) ==
  \/ \E j \in Caller : \/ \E o \in Obj : InitConversation(j, n, o)
                       \/ CloseConversation(j, n)
                       \/ CloseByFlow(j, n)
                       \/ TransferToSchema(j, n)
                       \/ TransferToUser(j, n)
                       \/ BreakBridge(j, n)
  \/ \E j \in Sender : SendMessage(j, n)
  \/ \E j \in Waiter, tok \in Token : WaitMessage(j, n, tok)

Next ==
  \/ \E n \in Node : Request(n) \/ Restart(n)
  \/ \E j \in Job : JobStep(j) \/ RpcFails(j) \/ StoreFails(j)
  \/ FlowEnds

Spec == Init /\ [][Next]_vars

(* A goroutine that has been started runs on. *)
FairSpec == Spec /\ \A j \in Job : WF_vars(JobStep(j))

-----------------------------------------------------------------------------
Quiet == \A j \in Job : job[j] = Idle

(* The token the next message on server n would be sent with. *)
NextToken(n) == IF cached[n] # NoObj /\ pending[cached[n]] # NoTok
                THEN pending[cached[n]] ELSE store

(***************************************************************************)
(* WaitMessage sets up the token "for the next message delivery": when the *)
(* requests are done and the schema waits, a message finds its token.  The *)
(* schema's next WaitMessage overtakes the end of the Send that woke it,   *)
(* and must survive that Send's removal of the old token.                  *)
(***************************************************************************)
AwaitedTokenFound ==
  Quiet /\ chat = "open" /\ flow.st = "wait" => \A n \in Node : NextToken(n) = flow.tok

(***************************************************************************)
(* Whatever fails and whoever else is sending, a message that was refused  *)
(* or delivered with an older token never takes the token the schema waits *)
(* for out of memory.  Only requests that stop or start the schema do, and *)
(* a WaitMessage handler so late that the schema has been started anew and *)
(* waits under another token: setPending does not compare.                 *)
(***************************************************************************)
Overtaken(j) == At(j, "set") /\ job[j].tok # flow.tok

AwaitedTokenKept ==
  [][\A o \in Obj :
       /\ flow.st = "wait" /\ pending[o] = flow.tok
       /\ pending'[o] # pending[o]
       /\ ~ Unused(o)
       => \E j \in Job : /\ job'[j] # job[j]
                         /\ job[j].pc \in {"forget", "start", "stopClear"} \/ Overtaken(j)]_vars

(***************************************************************************)
(* A message sent while the schema waits is delivered: a schema whose      *)
(* token has been set up does not wait on through a message.               *)
(***************************************************************************)
AwaitedMessageDelivered ==
  \A j \in Sender, t \in Token :
    (At(j, "pending") /\ flow = Session("wait", t) /\ \A w \in Waiter : job[w] = Idle)
      ~> (flow # Session("wait", t))
=============================================================================
