-------------------------- MODULE FlowAgentProofs --------------------------
(***************************************************************************)
(* Proofs about FlowAgent, for any number of servers, Channel objects,     *)
(* tokens, concurrent requests and failures: a message is never sent under *)
(* the empty token, and no late message takes the token the schema waits   *)
(* for out of memory.                                                      *)
(***************************************************************************)
EXTENDS FlowAgent, TLAPS

-----------------------------------------------------------------------------
(* Facts about the requests, seen from their pc. *)

JobType == Call \cup {Idle}

(* What TypeOK says of one request. *)
WellFormed(r) == /\ r.pc = "deliver" => r.tok # NoTok
                 /\ r # Idle /\ r.pc \notin {"get", "commit"} => r.o # NoObj

(* A request that is doing something is a Call. *)
LEMMA Working ==
  ASSUME NEW r \in JobType, r.pc # "idle"
  PROVE  /\ r \in Call /\ r # Idle
         /\ r.pc \in PC /\ r.op \in Op /\ r.n \in Node
         /\ r.o \in Obj \cup {NoObj} /\ r.tok \in Token \cup {NoTok}
  BY DEF JobType, Call, Idle

(* A Call is not Idle: their pcs differ. *)
LEMMA CallNotIdle ==
  ASSUME NEW r \in Call
  PROVE  r \in JobType /\ r # Idle /\ r.pc # "idle"
  BY DEF JobType, Call, Idle, PC

(* Moving a request on changes its pc and nothing else. *)
LEMMA Moved ==
  ASSUME NEW r \in Call, NEW pc \in PC
  PROVE  /\ [r EXCEPT !.pc = pc] \in Call
         /\ [r EXCEPT !.pc = pc].pc = pc
         /\ [r EXCEPT !.pc = pc].op = r.op
         /\ [r EXCEPT !.pc = pc].n = r.n
         /\ [r EXCEPT !.pc = pc].o = r.o
         /\ [r EXCEPT !.pc = pc].tok = r.tok
  BY DEF Call

-----------------------------------------------------------------------------
(***************************************************************************)
(* The inductive invariant.  Tokens in memory, in the table and in the     *)
(* hands of requests were issued; the token a Send is about to remove is   *)
(* not the one the schema waits for: it was taken, or refused while the    *)
(* schema waited for another, and a token is issued only once.             *)
(***************************************************************************)
Sound(r, f, i) ==
  /\ r # Idle => r.tok \in i \cup {NoTok}
  /\ r.pc \in {"clear", "unused"} => r.tok \in i /\ (f.st = "wait" => f.tok # r.tok)

ChatInv ==
  /\ chat \in {"new", "open", "closed"}
  /\ issued \subseteq Token
  /\ flow \in [st : {"none", "busy", "wait"}, tok : Token \cup {NoTok}]
  /\ flow.st = "wait" => flow.tok \in issued
  /\ faults \in 0..MaxFaults

MemoryInv ==
  /\ cached \in [Node -> Obj \cup {NoObj}]
  /\ pending \in [Obj -> issued \cup {NoTok}]
  /\ store \in issued \cup {NoTok}

JobInv ==
  /\ job \in [Job -> JobType]
  /\ \A j \in Job : WellFormed(job[j]) /\ Sound(job[j], flow, issued)

IInv == ChatInv /\ MemoryInv /\ JobInv

LEMMA InvTyped == IInv => TypeOK
  BY DEF IInv, ChatInv, MemoryInv, JobInv, JobType, WellFormed, TypeOK

LEMMA InitInv == Init => IInv
<1> SUFFICES ASSUME Init PROVE IInv
  OBVIOUS
<1>1. WellFormed(Idle) /\ Sound(Idle, flow, issued)
  BY DEF WellFormed, Sound, Idle
<1>2. ChatInv /\ MemoryInv
  BY FlowAssumption DEF Init, ChatInv, MemoryInv, Session
<1> QED
  BY <1>1, <1>2 DEF Init, IInv, JobInv, JobType

(* What a session is: a schema that is not waiting refutes no removal. *)
LEMMA Sessions ==
  /\ \A st \in {"none", "busy"} :
       /\ Session(st, NoTok) \in [st : {"none", "busy", "wait"}, tok : Token \cup {NoTok}]
       /\ Session(st, NoTok).st # "wait"
  /\ \A tok \in Token :
       /\ Session("wait", tok) \in [st : {"none", "busy", "wait"}, tok : Token \cup {NoTok}]
       /\ Session("wait", tok).st = "wait" /\ Session("wait", tok).tok = tok
  BY DEF Session

(* A step of one request, in which the schema does at most stop waiting. *)
FlowStep == flow' = flow \/ flow' = Session("none", NoTok) \/ flow' = Session("busy", NoTok)

LEMMA RequestMoves ==
  ASSUME JobInv, FlowStep, issued' = issued, NEW j \in Job, NEW r \in JobType,
         WellFormed(r), Sound(r, flow', issued), job' = [job EXCEPT ![j] = r]
  PROVE  JobInv'
<1>1. \A i \in Job : job'[i] = IF i = j THEN r ELSE job[i]
  BY DEF JobInv
<1>2. \A i \in Job : Sound(job[i], flow', issued)
  BY Sessions DEF JobInv, Sound, FlowStep
<1> QED
  BY <1>1, <1>2 DEF JobInv

LEMMA IdleSound == \A f, i : WellFormed(Idle) /\ Sound(Idle, f, i) /\ Idle \in JobType
  BY DEF WellFormed, Sound, Idle, JobType

(* A request returns. *)
LEMMA RequestReturns ==
  ASSUME JobInv, FlowStep, issued' = issued, NEW j \in Job, Return(j)
  PROVE  JobInv'
  BY IdleSound, RequestMoves DEF Return

(* A request goes to a pc other than those of a Send with a token. *)
LEMMA RequestGoes ==
  ASSUME JobInv, FlowStep, issued' = issued, NEW j \in Job,
         job[j].pc \notin {"idle", "get", "commit"},
         NEW pc \in PC \ {"deliver", "clear", "unused"}, Goto(j, pc)
  PROVE  JobInv'
<1> DEFINE r == [job[j] EXCEPT !.pc = pc]
<1>1. job[j] \in Call /\ job[j] # Idle
  BY Working DEF JobInv
<1>2. r \in Call /\ r.pc = pc /\ r.o = job[j].o /\ r.tok = job[j].tok
  BY <1>1, Moved
<1>3. r \in JobType /\ r # Idle
  BY <1>2, CallNotIdle
<1>4. WellFormed(r) /\ Sound(r, flow', issued)
  BY <1>1, <1>2 DEF WellFormed, Sound, JobInv
<1>5. job' = [job EXCEPT ![j] = r]
  BY DEF Goto
<1> HIDE DEF r
<1> QED
  BY <1>3, <1>4, <1>5, RequestMoves

(* A request begins. *)
LEMMA RequestBegins ==
  ASSUME JobInv, FlowStep, issued' = issued, NEW j \in Job, NEW op \in Op, NEW n \in Node,
         Begin(j, op, n, NoTok)
  PROVE  JobInv'
<1> DEFINE r == [pc |-> "get", op |-> op, n |-> n, o |-> NoObj, tok |-> NoTok]
<1>1. r \in Call /\ r.pc = "get" /\ r.tok = NoTok
  BY DEF Call, PC, Op
<1>2. r \in JobType /\ r # Idle
  BY <1>1, CallNotIdle
<1>3. WellFormed(r) /\ Sound(r, flow', issued)
  BY <1>1 DEF WellFormed, Sound
<1>4. job' = [job EXCEPT ![j] = r]
  BY DEF Begin
<1> HIDE DEF r
<1> QED
  BY <1>2, <1>3, <1>4, RequestMoves

(* Memory and table are given only tokens that were issued, or none. *)
LEMMA MemoryKept ==
  ASSUME MemoryInv, issued' = issued, cached' \in [Node -> Obj \cup {NoObj}],
         store' \in issued \cup {NoTok},
         \/ pending' = pending
         \/ \E o \in Obj, tok \in issued \cup {NoTok} : pending' = SetPending(o, tok)
         \/ \E o \in Obj, tok \in issued \cup {NoTok} : pending' = DelPending(o, tok)
  PROVE  MemoryInv'
  BY DEF MemoryInv, SetPending, DelPending

LEMMA ChatKept ==
  ASSUME ChatInv, FlowStep, issued' = issued, faults' = faults,
         chat' \in {"new", "open", "closed"}
  PROVE  ChatInv'
  BY Sessions DEF ChatInv, FlowStep

LEMMA FaultKept ==
  ASSUME ChatInv, FlowStep, issued' = issued, Fault, chat' = chat
  PROVE  ChatInv'
<1>1. faults' \in 0..MaxFaults
  BY FlowAssumption DEF ChatInv, Fault
<1> QED
  BY <1>1, Sessions DEF ChatInv, FlowStep

-----------------------------------------------------------------------------
(* Every step keeps the invariant: requests that arrive, *)
LEMMA RequestsKeepInv ==
  ASSUME IInv, NEW n \in Node, Request(n)
  PROVE  IInv'
<1> USE DEF IInv
<1>1. ASSUME NEW j \in Job, NEW o \in Obj, InitConversation(j, n, o)
      PROVE  IInv'
  <2> DEFINE r == [pc |-> "start", op |-> "init", n |-> n, o |-> o, tok |-> NoTok]
  <2>1. r \in Call /\ r.pc = "start" /\ r.o = o /\ r.tok = NoTok
    BY DEF Call, PC, Op
  <2>2. r \in JobType /\ r # Idle /\ WellFormed(r) /\ Sound(r, flow', issued)
    BY <2>1, CallNotIdle, FlowAssumption DEF WellFormed, Sound
  <2>3. job' = [job EXCEPT ![j] = r]
    BY <1>1 DEF InitConversation
  <2> HIDE DEF r
  <2>4. JobInv'
    BY <1>1, <2>2, <2>3, RequestMoves DEF InitConversation, FlowStep
  <2>5. MemoryInv' /\ ChatInv'
    BY <1>1, MemoryKept, ChatKept DEF InitConversation, FlowStep, MemoryInv
  <2> QED
    BY <2>4, <2>5
<1>2. ASSUME NEW j \in Job, CloseConversation(j, n)
      PROVE  IInv'
  BY <1>2, RequestBegins, MemoryKept, ChatKept
  DEF CloseConversation, FlowStep, MemoryInv, ChatInv, Op
<1>3. ASSUME NEW j \in Job, CloseByFlow(j, n)
      PROVE  IInv'
  <2> DEFINE r == [pc |-> "commit", op |-> "close", n |-> n, o |-> NoObj, tok |-> NoTok]
  <2>1. r \in Call /\ r.pc = "commit" /\ r.tok = NoTok
    BY DEF Call, PC, Op
  <2>2. r \in JobType /\ WellFormed(r) /\ Sound(r, flow', issued)
    BY <2>1, CallNotIdle DEF WellFormed, Sound
  <2>3. job' = [job EXCEPT ![j] = r]
    BY <1>3 DEF CloseByFlow
  <2> HIDE DEF r
  <2>4. JobInv'
    BY <1>3, <2>2, <2>3, RequestMoves DEF CloseByFlow, FlowStep
  <2>5. MemoryInv' /\ ChatInv'
    BY <1>3, MemoryKept, ChatKept DEF CloseByFlow, FlowStep, MemoryInv, ChatInv
  <2> QED
    BY <2>4, <2>5
<1>4. ASSUME NEW j \in Job, NEW op \in {"schema", "user"}, TransferTo(j, n, op)
      PROVE  IInv'
  BY <1>4, RequestBegins, MemoryKept, ChatKept DEF TransferTo, FlowStep, MemoryInv, ChatInv, Op
<1>5. ASSUME NEW j \in Job, BreakBridge(j, n)
      PROVE  IInv'
  BY <1>5, RequestBegins, MemoryKept, ChatKept DEF BreakBridge, FlowStep, MemoryInv, ChatInv, Op
<1>6. ASSUME NEW j \in Job, SendMessage(j, n)
      PROVE  IInv'
  BY <1>6, RequestBegins, MemoryKept, ChatKept DEF SendMessage, FlowStep, MemoryInv, ChatInv, Op
<1>7. ASSUME NEW j \in Job, NEW tok \in Token, WaitMessage(j, n, tok)
      PROVE  IInv'
  <2> DEFINE r == [pc |-> "get", op |-> "wait", n |-> n, o |-> NoObj, tok |-> tok]
  <2>1. r \in Call /\ r.pc = "get" /\ r.tok = tok
    BY DEF Call, PC, Op
  <2>2. job' = [job EXCEPT ![j] = r]
    BY <1>7 DEF WaitMessage, Begin
  <2>3. /\ tok \in Token \ issued /\ issued' = issued \cup {tok} /\ flow' = Session("wait", tok)
        /\ UNCHANGED <<chat, cached, pending, store, faults>>
    BY <1>7 DEF WaitMessage
  <2>4. r \in JobType /\ WellFormed(r) /\ Sound(r, flow', issued')
    BY <2>1, <2>3, CallNotIdle DEF WellFormed, Sound
  <2> HIDE DEF r
  <2>5. \A i \in Job : Sound(job[i], flow', issued')
    BY <2>3, Sessions, FlowAssumption DEF JobInv, Sound
  <2>6. JobInv'
    BY <2>2, <2>4, <2>5 DEF JobInv
  <2>7. MemoryInv' /\ ChatInv'
    BY <2>3, Sessions DEF MemoryInv, ChatInv
  <2> QED
    BY <2>6, <2>7
<1> QED
  BY <1>1, <1>2, <1>3, <1>4, <1>5, <1>6, <1>7 DEF Request, TransferToSchema, TransferToUser, Job

(* the steps of a request, *)
LEMMA StepsKeepInv ==
  ASSUME IInv, NEW j \in Job, JobStep(j)
  PROVE  IInv'
<1> USE DEF IInv
<1>0. /\ job[j].pc # "idle" => job[j] \in Call /\ job[j].tok \in issued \cup {NoTok}
      /\ job[j].pc \notin {"idle", "get", "commit"} => job[j].o \in Obj /\ job[j].o # NoObj
      /\ job[j].pc # "idle" => job[j].n \in Node
  BY Working DEF JobInv, WellFormed, Sound
<1>1. CASE GetHit(j)
  <2> DEFINE pc == First(job[j].op)
             r  == [job[j] EXCEPT !.pc = pc, !.o = cached[job[j].n]]
  <2>1. job[j].pc = "get" /\ cached[job[j].n] \in Obj
    BY <1>1, <1>0 DEF GetHit, At, MemoryInv
  <2>2. pc \in PC \ {"deliver", "clear", "unused"}
    BY DEF First, PC
  <2>3. r \in Call /\ r.pc = pc /\ r.o = cached[job[j].n] /\ r.tok = job[j].tok
    BY <1>0, <2>1, <2>2 DEF Call
  <2>4. r \in JobType /\ WellFormed(r) /\ Sound(r, flow', issued)
    BY <1>0, <2>1, <2>2, <2>3, CallNotIdle, FlowAssumption DEF WellFormed, Sound
  <2>5. job' = [job EXCEPT ![j] = r]
    BY <1>1 DEF GetHit, JobInv
  <2> HIDE DEF r, pc
  <2> QED
    BY <1>1, <2>4, <2>5, RequestMoves, MemoryKept, ChatKept
    DEF GetHit, FlowStep, MemoryInv, ChatInv
<1>2. CASE GetMiss(j)
  <2>1. PICK o \in Obj : /\ Unused(o) /\ pending' = SetPending(o, NoTok)
                         /\ job' = [job EXCEPT ![j].pc = "put", ![j].o = o]
    BY <1>2 DEF GetMiss
  <2> DEFINE r == [job[j] EXCEPT !.pc = "put", !.o = o]
  <2>2. r \in Call /\ r.pc = "put" /\ r.o = o /\ r.tok = job[j].tok
    BY <1>0, <1>2 DEF GetMiss, At, PC, Call
  <2>3. r \in JobType /\ WellFormed(r) /\ Sound(r, flow', issued)
    BY <1>0, <1>2, <2>2, CallNotIdle, FlowAssumption DEF WellFormed, Sound, GetMiss, At
  <2>4. job' = [job EXCEPT ![j] = r]
    BY <2>1 DEF JobInv
  <2> HIDE DEF r
  <2> QED
    BY <1>2, <2>1, <2>3, <2>4, RequestMoves, MemoryKept, ChatKept
    DEF GetMiss, FlowStep, MemoryInv, ChatInv
<1>3. CASE Put(j)
  <2>1. First(job[j].op) \in PC \ {"deliver", "clear", "unused"}
    BY DEF First, PC
  <2>2. JobInv'
    BY <1>3, <2>1, RequestReturns, RequestGoes DEF Put, At, FlowStep
  <2>3. cached' \in [Node -> Obj \cup {NoObj}]
    BY <1>3, <1>0 DEF Put, At, MemoryInv
  <2> QED
    BY <1>3, <2>2, <2>3, MemoryKept, ChatKept DEF Put, FlowStep, MemoryInv, ChatInv
<1>4. CASE Drop(j)
  <2>1. cached' \in [Node -> Obj \cup {NoObj}]
    BY <1>4 DEF Drop, MemoryInv
  <2> QED
    BY <1>4, <2>1, RequestReturns, MemoryKept, ChatKept DEF Drop, FlowStep, MemoryInv, ChatInv
<1>5. CASE WaitSet(j)
  BY <1>5, <1>0, RequestGoes, MemoryKept, ChatKept
  DEF WaitSet, At, PC, FlowStep, MemoryInv, ChatInv
<1>6. CASE WaitWrite(j)
  BY <1>6, <1>0, RequestReturns, MemoryKept, ChatKept
  DEF WaitWrite, WriteConfirmation, At, FlowStep, MemoryInv, ChatInv
<1> DEFINE found(tok, pc) == [job[j] EXCEPT !.tok = tok, !.pc = pc]
<1>7. ASSUME job[j].pc \in {"pending", "read"}, NEW tok \in issued \cup {NoTok},
             NEW pc \in {"read", "deliver"}, pc = "deliver" => tok # NoTok,
             job' = [job EXCEPT ![j] = found(tok, pc)], flow' = flow, issued' = issued
      PROVE  JobInv'
  <2>1. tok \in Token \cup {NoTok}
    BY DEF ChatInv
  <2>2. LET r == found(tok, pc) IN r \in Call /\ r.pc = pc /\ r.o = job[j].o /\ r.tok = tok
    BY <1>0, <1>7, <2>1 DEF PC, Call
  <2> HIDE DEF found
  <2>3. LET r == found(tok, pc) IN r \in JobType /\ WellFormed(r) /\ Sound(r, flow', issued)
    BY <1>0, <1>7, <2>2, CallNotIdle DEF WellFormed, Sound
  <2> QED
    BY <1>7, <2>3, RequestMoves DEF FlowStep
<1>8. CASE SendPending(j)
  <2> DEFINE tok == pending[job[j].o]
             pc  == IF tok = NoTok THEN "read" ELSE "deliver"
  <2>1. tok \in issued \cup {NoTok} /\ job[j].pc = "pending"
    BY <1>8, <1>0 DEF SendPending, At, MemoryInv
  <2>2. job' = [job EXCEPT ![j] = found(tok, pc)]
    BY <1>8 DEF SendPending, JobInv
  <2>3. pc \in {"read", "deliver"} /\ (pc = "deliver" => tok # NoTok)
    OBVIOUS
  <2> HIDE DEF found, tok, pc
  <2>4. JobInv'
    BY <1>7, <1>8, <2>1, <2>2, <2>3 DEF SendPending
  <2> QED
    BY <1>8, <2>4, MemoryKept, ChatKept DEF SendPending, FlowStep, MemoryInv, ChatInv
<1>9. CASE SendRead(j)
  <2>1. CASE store = NoTok
    BY <1>9, <2>1, RequestReturns, MemoryKept, ChatKept
    DEF SendRead, FlowStep, MemoryInv, ChatInv
  <2>2. CASE store # NoTok
    <3>1. job' = [job EXCEPT ![j] = found(store, "deliver")] /\ job[j].pc = "read"
      BY <1>9, <2>2 DEF SendRead, At, JobInv
    <3> HIDE DEF found
    <3>2. JobInv'
      BY <1>7, <1>9, <2>2, <3>1 DEF SendRead, MemoryInv
    <3> QED
      BY <1>9, <3>2, MemoryKept, ChatKept DEF SendRead, FlowStep, MemoryInv, ChatInv
  <2> QED
    BY <2>1, <2>2
<1>10. CASE SendDeliver(j)
  <2>0. job[j].pc = "deliver" /\ job[j] \in Call /\ job[j].o # NoObj /\ job[j].tok \in issued
    BY <1>0, <1>10 DEF SendDeliver, At, JobInv, WellFormed
  <2> DEFINE r(pc) == [job[j] EXCEPT !.pc = pc]
  <2>1. \A pc \in {"clear", "unused", "forget"} :
          /\ r(pc) \in JobType /\ r(pc) # Idle
          /\ r(pc).pc = pc /\ r(pc).o = job[j].o /\ r(pc).tok = job[j].tok
    BY <2>0, CallNotIdle DEF PC, Call
  <2>2. Confirms(job[j].tok) => flow.st = "wait"
    BY Sessions DEF Confirms, Session
  <2>3. ~ Confirms(job[j].tok) /\ flow.st = "wait" => flow.tok # job[j].tok
    BY DEF Confirms, Session, ChatInv
  <2>4. PICK pc \in {"clear", "unused", "forget"} :
          /\ job' = [job EXCEPT ![j] = r(pc)] /\ FlowStep
          /\ pc = "unused" => flow' = flow /\ ~ Confirms(job[j].tok)
          /\ pc = "clear" => flow' = Session("busy", NoTok)
    BY <1>10 DEF SendDeliver, Goto, FlowStep
  <2> HIDE DEF r
  <2>5. WellFormed(r(pc)) /\ Sound(r(pc), flow', issued)
    BY <2>0, <2>1, <2>3, <2>4, Sessions DEF WellFormed, Sound
  <2>6. JobInv'
    BY <1>10, <2>1, <2>4, <2>5, RequestMoves DEF SendDeliver
  <2> QED
    BY <1>10, <2>4, <2>6, MemoryKept, ChatKept DEF SendDeliver, MemoryInv, ChatInv
<1>11. CASE SendClear(j)
  BY <1>11, <1>0, RequestGoes, MemoryKept, ChatKept
  DEF SendClear, At, PC, FlowStep, MemoryInv, ChatInv
<1>12. CASE SendErase(j)
  BY <1>12, RequestReturns, MemoryKept, ChatKept DEF SendErase, FlowStep, MemoryInv, ChatInv
<1>13. CASE SendUnused(j)
  BY <1>13, <1>0, RequestGoes, MemoryKept, ChatKept
  DEF SendUnused, At, PC, FlowStep, MemoryInv, ChatInv
<1>14. CASE SendForget(j)
  BY <1>14, <1>0, RequestGoes, MemoryKept, ChatKept
  DEF SendForget, At, PC, FlowStep, MemoryInv, ChatInv
<1>15. CASE SendForgetStore(j)
  BY <1>15, RequestGoes, MemoryKept, ChatKept
  DEF SendForgetStore, At, PC, FlowStep, MemoryInv, ChatInv
<1>16. CASE Start(j)
  BY <1>16, <1>0, RequestGoes, RequestReturns, MemoryKept, ChatKept
  DEF Start, At, PC, FlowStep, MemoryInv, ChatInv
<1>17. CASE StartUser(j)
  BY <1>17, RequestReturns, MemoryKept, ChatKept DEF StartUser, FlowStep, MemoryInv, ChatInv
<1>18. CASE Break(j)
  BY <1>18, RequestGoes, MemoryKept, ChatKept DEF Break, At, PC, FlowStep, MemoryInv, ChatInv
<1>19. CASE StopClear(j)
  BY <1>19, <1>0, RequestGoes, MemoryKept, ChatKept
  DEF StopClear, At, PC, FlowStep, MemoryInv, ChatInv
<1>20. CASE StopErase(j)
  BY <1>20, RequestGoes, MemoryKept, ChatKept DEF StopErase, At, PC, FlowStep, MemoryInv, ChatInv
<1>21. CASE StopDrop(j)
  <2>1. cached' \in [Node -> Obj \cup {NoObj}]
    BY <1>21 DEF StopDrop, MemoryInv
  <2> QED
    BY <1>21, <2>1, RequestGoes, MemoryKept, ChatKept
    DEF StopDrop, At, PC, FlowStep, MemoryInv, ChatInv
<1>22. CASE Commit(j)
  BY <1>22, RequestReturns, MemoryKept, ChatKept DEF Commit, FlowStep, MemoryInv, ChatInv
<1>23. CASE Bridge(j)
  BY <1>23, RequestReturns, MemoryKept, ChatKept DEF Bridge, FlowStep, MemoryInv, ChatInv
<1> QED
  BY <1>1, <1>2, <1>3, <1>4, <1>5, <1>6, <1>8, <1>9, <1>10, <1>11, <1>12, <1>13, <1>14, <1>15,
     <1>16, <1>17, <1>18, <1>19, <1>20, <1>21, <1>22, <1>23 DEF JobStep

(* failures, *)
LEMMA RpcFailsKeepsInv ==
  ASSUME IInv, NEW j \in Job, RpcFails(j)
  PROVE  IInv'
<1> USE DEF IInv
<1>1. FlowStep
  BY DEF RpcFails, FlowStep
<1>2. MemoryInv' /\ ChatInv'
  BY <1>1, MemoryKept, FaultKept DEF RpcFails, MemoryInv
<1>3. \/ Return(j)
      \/ /\ job[j].pc \in {"deliver", "start", "break"}
         /\ \E pc \in {"drop", "commit"} : Goto(j, pc)
  BY DEF RpcFails, At
<1>4. JobInv'
  BY <1>1, <1>3, RequestReturns, RequestGoes DEF RpcFails, PC
<1> QED
  BY <1>2, <1>4

LEMMA StoreFailsKeepsInv ==
  ASSUME IInv, NEW j \in Job, StoreFails(j)
  PROVE  IInv'
<1> USE DEF IInv
<1>1. FlowStep
  BY DEF StoreFails, FlowStep
<1>2. MemoryInv' /\ ChatInv'
  BY <1>1, MemoryKept, FaultKept DEF StoreFails, MemoryInv
<1>3. \/ Return(j)
      \/ /\ job[j].pc \in {"read", "forgetStore"}
         /\ \E pc \in {"drop", "start"} : Goto(j, pc)
  BY DEF StoreFails, At
<1>4. JobInv'
  BY <1>1, <1>3, RequestReturns, RequestGoes DEF StoreFails, PC
<1> QED
  BY <1>2, <1>4

LEMMA RestartKeepsInv ==
  ASSUME IInv, NEW n \in Node, Restart(n)
  PROVE  IInv'
<1> USE DEF IInv
<1>1. FlowStep
  BY DEF Restart, FlowStep
<1>2. cached' \in [Node -> Obj \cup {NoObj}]
  BY DEF Restart, MemoryInv
<1>3. MemoryInv' /\ ChatInv'
  BY <1>1, <1>2, MemoryKept, FaultKept DEF Restart, MemoryInv
<1>4. JobInv'
  BY IdleSound DEF Restart, JobInv
<1> QED
  BY <1>3, <1>4

(* and the end of the schema. *)
LEMMA NextKeepsInv == IInv /\ [Next]_vars => IInv'
<1> SUFFICES ASSUME IInv, [Next]_vars
             PROVE  IInv'
  OBVIOUS
<1>1. CASE FlowEnds
  <2>1. FlowStep /\ MemoryInv' /\ ChatInv'
    BY <1>1, MemoryKept, ChatKept DEF FlowEnds, FlowStep, IInv, MemoryInv, ChatInv
  <2>2. JobInv'
    BY <1>1, Sessions DEF FlowEnds, IInv, JobInv, Sound
  <2> QED
    BY <2>1, <2>2 DEF IInv
<1>2. CASE UNCHANGED vars
  BY <1>2 DEF vars, IInv, ChatInv, MemoryInv, JobInv
<1> QED
  BY <1>1, <1>2, RequestsKeepInv, StepsKeepInv, RpcFailsKeepsInv, StoreFailsKeepsInv,
     RestartKeepsInv DEF Next

LEMMA InvHolds == Spec => []IInv
  BY InitInv, NextKeepsInv, PTL DEF Spec

(***************************************************************************)
(* Whatever fails, and however many requests race: ConfirmationMessage is  *)
(* never called with the empty token, and a request works on an object     *)
(* from GetChannel to its return.                                          *)
(***************************************************************************)
THEOREM FlowAgentTyped == Spec => []TypeOK
  BY InvHolds, InvTyped, PTL

-----------------------------------------------------------------------------
(***************************************************************************)
(* A step that changes pending[o] of an object in use is one of these.     *)
(***************************************************************************)
MemorySteps(j, o) ==
  \/ WaitSet(j) /\ o = job[j].o
  \/ (SendClear(j) \/ SendUnused(j)) /\ o = job[j].o
  \/ SendForget(j) \/ Start(j) \/ StopClear(j)

(* SetPending and delPending leave every other object alone. *)
LEMMA OtherObjects ==
  ASSUME MemoryInv, NEW o \in Obj, NEW p \in Obj, NEW tok, pending'[p] # pending[p],
         pending' = SetPending(o, tok) \/ pending' = DelPending(o, tok)
  PROVE  p = o
  BY DEF MemoryInv, SetPending, DelPending

LEMMA WhoChangesMemory ==
  ASSUME IInv, [Next]_vars, NEW o \in Obj, pending'[o] # pending[o], ~ Unused(o)
  PROVE  \E j \in Job : MemorySteps(j, o)
<1>0. \A j \in Job : job[j].pc \notin {"idle", "get", "commit"} => job[j].o \in Obj
  BY Working DEF IInv, JobInv, WellFormed
<1>1. ASSUME NEW n \in Node, Request(n)
      PROVE  FALSE
  <2>1. PICK j \in Caller, p \in Obj : InitConversation(j, n, p)
    BY <1>1 DEF Request, CloseConversation, CloseByFlow, TransferToSchema, TransferToUser,
                TransferTo, BreakBridge, SendMessage, WaitMessage
  <2> QED
    BY <2>1, OtherObjects DEF InitConversation, IInv
<1>2. ASSUME NEW j \in Job, JobStep(j)
      PROVE  MemorySteps(j, o)
  <2>1. CASE GetMiss(j)
    BY <2>1, OtherObjects DEF GetMiss, IInv
  <2>2. CASE WaitSet(j) \/ SendClear(j) \/ SendUnused(j)
    BY <2>2, <1>0, OtherObjects DEF WaitSet, SendClear, SendUnused, At, IInv, MemorySteps
  <2> QED
    BY <1>2, <2>1, <2>2
    DEF JobStep, MemorySteps, GetHit, Put, Drop, WaitWrite, SendPending, SendRead, SendDeliver,
        SendErase, SendForgetStore, StartUser, Break, StopErase, StopDrop, Commit, Bridge
<1>3. ASSUME NEW j \in Job, RpcFails(j) \/ StoreFails(j)
      PROVE  FALSE
  BY <1>3 DEF RpcFails, StoreFails
<1>4. ASSUME NEW n \in Node, Restart(n)
      PROVE  FALSE
  BY <1>4 DEF Restart
<1> QED
  BY <1>1, <1>2, <1>3, <1>4 DEF Next, FlowEnds, vars

(* One step: only a stop, a start or an overtaken WaitMessage takes the awaited token. *)
LEMMA AwaitedTokenStep ==
  ASSUME IInv, [Next]_vars, NEW o \in Obj, flow.st = "wait", pending[o] = flow.tok,
         pending'[o] # pending[o], ~ Unused(o)
  PROVE  \E j \in Job : /\ job'[j] # job[j]
                        /\ job[j].pc \in {"forget", "start", "stopClear"} \/ Overtaken(j)
<1>1. PICK j \in Job : MemorySteps(j, o)
  BY WhoChangesMemory
<1>2. job[j].pc # "idle" => job[j] \in Call
  BY Working DEF IInv, JobInv
<1>3. ASSUME NEW pc \in PC, job[j].pc # "idle", job[j].pc # pc, Goto(j, pc)
      PROVE  job'[j] # job[j]
  <2>1. job'[j] = [job[j] EXCEPT !.pc = pc]
    BY <1>3 DEF Goto, IInv, JobInv
  <2>2. [job[j] EXCEPT !.pc = pc].pc = pc
    BY <1>2, <1>3, Moved
  <2> QED
    BY <1>3, <2>1, <2>2
<1>4. Return(j) /\ job[j].pc # "idle" => job'[j] # job[j]
  BY DEF Return, Idle, IInv, JobInv
<1>5. CASE WaitSet(j) /\ o = job[j].o
  <2>1. job'[j] # job[j]
    BY <1>3, <1>5 DEF WaitSet, At, PC
  <2>2. pending'[o] = job[j].tok
    BY <1>5 DEF WaitSet, SetPending, IInv, MemoryInv
  <2> QED
    BY <1>5, <2>1, <2>2 DEF WaitSet, Overtaken
<1>6. CASE (SendClear(j) \/ SendUnused(j)) /\ o = job[j].o
  <2>1. pending[o] = job[j].tok
    BY <1>6 DEF SendClear, SendUnused, DelPending, IInv, MemoryInv
  <2>2. flow.tok # job[j].tok
    BY <1>6 DEF SendClear, SendUnused, At, IInv, JobInv, Sound
  <2> QED
    BY <2>1, <2>2
<1>7. CASE SendForget(j)
  BY <1>3, <1>7 DEF SendForget, At, PC
<1>8. CASE Start(j)
  BY <1>3, <1>4, <1>8 DEF Start, At, PC
<1>9. CASE StopClear(j)
  BY <1>3, <1>9 DEF StopClear, At, PC
<1> QED
  BY <1>1, <1>5, <1>6, <1>7, <1>8, <1>9 DEF MemorySteps

(***************************************************************************)
(* Agent.WaitMessage, Channel.Send and the requests that stop or start the *)
(* schema may race in any number: the token the schema waits for leaves    *)
(* memory only through a stop, a start, or a handler of an older           *)
(* WaitMessage that writes its own token last.                             *)
(***************************************************************************)
THEOREM AwaitedTokenIsKept == Spec => AwaitedTokenKept
<1>1. IInv /\ [Next]_vars =>
        [\A o \in Obj :
           /\ flow.st = "wait" /\ pending[o] = flow.tok
           /\ pending'[o] # pending[o]
           /\ ~ Unused(o)
           => \E j \in Job : /\ job'[j] # job[j]
                             /\ job[j].pc \in {"forget", "start", "stopClear"} \/ Overtaken(j)]_vars
  BY AwaitedTokenStep
<1> QED
  BY <1>1, InvHolds, PTL DEF Spec, AwaitedTokenKept
=============================================================================
