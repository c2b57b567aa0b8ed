-------------------------- MODULE BotChannelProofs --------------------------
(***************************************************************************)
(* Proofs about BotChannel, for any number of conversations, objects,      *)
(* webhook requests, requests of the server and failures: the two mutexes  *)
(* of a gateway are held by exactly the requests that are in their         *)
(* critical sections, and an answer of the server finds the one request    *)
(* that waits for it.                                                      *)
(***************************************************************************)
EXTENDS BotChannel, TLAPS

-----------------------------------------------------------------------------
(* Facts about the requests, seen from their pc. *)

JobType == Call \cup {Idle}

(* What a request of the provider, and one of the server, can be doing. *)
WellFormed(j, r) ==
  /\ r.pc \notin {"idle", "load", "check", "commit"} => r.o # NoObj
  /\ j \in Webhook => r.pc \notin {"mark", "commit"}
  /\ j \in Server => r.pc \notin {"recv", "send", "start", "restart", "started", "relink"}

(* In the critical sections of recvMx, and of loadMx. *)
Holding == PC \ {"load", "check", "link", "recv"}
Holds(j, r, o) == j \in Webhook /\ r.pc \in Holding /\ r.o = o
Loading == {"check", "link"}

(* Who waits for the request. *)
By(r) == IF r = Idle THEN NoJob ELSE r.by

-----------------------------------------------------------------------------
(***************************************************************************)
(* The inductive invariant.  TypeOK says that a webhook request past Recv  *)
(* holds the mutex of its object.  That nobody takes it from him rests on  *)
(* the converse, the holder being past Recv, and on the calls back to the  *)
(* server: the end of a call moves the request that waits for it, so that  *)
(* one has to be waiting, for no other call.                               *)
(***************************************************************************)
StateInv ==
  /\ row \in [Conv -> {"none", "open", "closed"}]
  /\ link \in Obj \cup {NoObj}
  /\ obj \in [Obj -> [chan : Conv \cup {NoConv}, closed : BOOLEAN]]
  /\ faults \in 0..MaxFaults

JobInv ==
  /\ job \in [Job -> JobType]
  /\ \A j \in Job : WellFormed(j, job[j])

LoadInv ==
  /\ loadMx \in Job \cup {NoJob}
  /\ \A j \in Job : loadMx = j <=> job[j].pc \in Loading

RecvInv ==
  /\ recvMx \in [Obj -> Webhook \cup {NoJob}]
  /\ \A o \in Obj, j \in Job : recvMx[o] = j <=> Holds(j, job[j], o)

WaitInv ==
  /\ \A j \in Job : By(job[j]) # NoJob => job[By(job[j])].pc = "await"
  /\ \A j \in Job : By(job[j]) # j
  /\ \A i, j \in Job : By(job[i]) # NoJob /\ By(job[i]) = By(job[j]) => i = j

IInv == StateInv /\ JobInv /\ LoadInv /\ RecvInv /\ WaitInv

(* A request that is doing something is a Call, and the other way round. *)
LEMMA Working ==
  ASSUME NEW r \in JobType
  PROVE  /\ r.pc # "idle" => r \in Call
         /\ r \in Call => r.pc # "idle" /\ r # Idle
         /\ By(r) \in Job \cup {NoJob}
  BY DEF JobType, Call, Idle, PC, By

LEMMA IdleFacts ==
  /\ Idle \in JobType /\ Idle.pc = "idle" /\ By(Idle) = NoJob
  /\ \A j \in Job : WellFormed(j, Idle) /\ \A o : ~ Holds(j, Idle, o)
  BY DEF JobType, Idle, By, WellFormed, Holds, Holding, PC

LEMMA InvTyped == IInv => TypeOK
<1> SUFFICES ASSUME IInv PROVE TypeOK
  OBVIOUS
<1> USE DEF IInv
<1>1. ASSUME NEW j \in Job, job[j] # Idle
      PROVE  job[j] \in Call /\ job[j].pc \in PC /\ job[j].pc # "idle" /\ job[j].o \in Obj \cup {NoObj}
  BY <1>1 DEF JobInv, JobType, Call, PC
<1>2. \A j \in Job : job[j] # Idle /\ job[j].pc \notin {"load", "check", "commit"} => job[j].o # NoObj
  BY <1>1 DEF JobInv, WellFormed
<1>3. ASSUME NEW j \in Webhook, job[j] # Idle, job[j].pc \notin {"load", "check", "link", "recv"}
      PROVE  recvMx[job[j].o] = j
  <2>1. j \in Job /\ job[j].pc \in Holding
    BY <1>1, <1>3 DEF Job, Holding
  <2>2. job[j].o \in Obj
    BY <1>1, <1>3, <2>1 DEF JobInv, WellFormed
  <2> QED
    BY <1>3, <2>1, <2>2 DEF RecvInv, Holds
<1>4. ASSUME NEW o \in Obj, recvMx[o] # NoJob
      PROVE  job[recvMx[o]] # Idle /\ job[recvMx[o]].o = o
  BY <1>4, IdleFacts DEF RecvInv, Holds, Job
<1> QED
  BY <1>2, <1>3, <1>4 DEF StateInv, JobInv, LoadInv, RecvInv, JobType, TypeOK

LEMMA InitInv == Init => IInv
<1> SUFFICES ASSUME Init PROVE IInv
  OBVIOUS
<1>1. StateInv
  BY BotAssumption DEF Init, StateInv
<1>2. JobInv /\ WaitInv
  BY IdleFacts, BotAssumption DEF Init, JobInv, WaitInv, Job
<1>3. LoadInv
  BY IdleFacts, BotAssumption DEF Init, LoadInv, Loading, Job
<1>4. RecvInv
  BY IdleFacts, BotAssumption DEF Init, RecvInv, Job
<1> QED
  BY <1>1, <1>2, <1>3, <1>4 DEF IInv

-----------------------------------------------------------------------------
(* A step of one request, which waits for no call and is given no caller. *)
LEMMA RequestMoves ==
  ASSUME JobInv, WaitInv, NEW j \in Job, NEW r \in JobType, WellFormed(j, r),
         job[j].pc # "await", By(r) = NoJob \/ By(r) = By(job[j]), job' = [job EXCEPT ![j] = r]
  PROVE  JobInv' /\ WaitInv'
<1>1. \A i \in Job : job'[i] = IF i = j THEN r ELSE job[i]
  BY DEF JobInv
<1>2. JobInv'
  BY <1>1 DEF JobInv
<1>3. \A i \in Job : By(job'[i]) = NoJob \/ By(job'[i]) = By(job[i])
  BY <1>1
<1>4. \A i \in Job : i # NoJob /\ By(job[i]) \in Job \cup {NoJob} /\ By(job[i]) # j
  BY Working, BotAssumption DEF JobInv, WaitInv, Job
<1>5. WaitInv'
  BY <1>1, <1>3, <1>4 DEF WaitInv
<1> QED
  BY <1>2, <1>5

(* It does not enter or leave the critical section of loadMx. *)
LEMMA LoadKept ==
  ASSUME LoadInv, job \in [Job -> JobType], NEW j \in Job, NEW r, job' = [job EXCEPT ![j] = r],
         loadMx' = loadMx, job[j].pc \in Loading <=> r.pc \in Loading
  PROVE  LoadInv'
  BY DEF LoadInv

(* It leaves it and gives the mutex back. *)
LEMMA LoadLeft ==
  ASSUME LoadInv, job \in [Job -> JobType], NEW j \in Job, NEW r, job' = [job EXCEPT ![j] = r],
         loadMx' = NoJob, job[j].pc \in Loading, r.pc \notin Loading
  PROVE  LoadInv'
  BY BotAssumption DEF LoadInv, Job

(* It does not enter or leave the critical section of a recvMx. *)
LEMMA RecvKept ==
  ASSUME RecvInv, job \in [Job -> JobType], NEW j \in Job, NEW r, job' = [job EXCEPT ![j] = r],
         recvMx' = recvMx, \A o \in Obj : Holds(j, job[j], o) <=> Holds(j, r, o)
  PROVE  RecvInv'
<1>1. \A i \in Job : job'[i] = IF i = j THEN r ELSE job[i]
  OBVIOUS
<1> QED
  BY <1>1 DEF RecvInv

(* The others do not either, and this one leaves it and gives the mutex back. *)
LEMMA RecvFreed ==
  ASSUME RecvInv, NEW j \in Job, recvMx' = Unlocked(j), j \in Webhook => job[j].pc \in Holding,
         \A o \in Obj : ~ Holds(j, job'[j], o),
         \A i \in Job \ {j}, o \in Obj : Holds(i, job'[i], o) <=> Holds(i, job[i], o)
  PROVE  RecvInv'
<1>1. CASE j \in Webhook
  <2>1. \A o \in Obj : recvMx'[o] = IF o = job[j].o THEN NoJob ELSE recvMx[o]
    BY <1>1 DEF RecvInv, Unlocked
  <2>2. recvMx' \in [Obj -> Webhook \cup {NoJob}]
    BY <1>1 DEF RecvInv, Unlocked
  <2>3. \A o \in Obj : Holds(j, job[j], o) <=> o = job[j].o
    BY <1>1 DEF Holds
  <2>4. ASSUME NEW o \in Obj, NEW i \in Job
        PROVE  recvMx'[o] = i <=> Holds(i, job'[i], o)
    <3>1. i # NoJob
      BY BotAssumption DEF Job
    <3>2. CASE i = j
      BY <2>1, <2>3, <3>1, <3>2 DEF RecvInv
    <3>3. CASE i # j
      <4>1. recvMx[o] = i <=> Holds(i, job'[i], o)
        BY <3>3 DEF RecvInv
      <4>2. o = job[j].o => recvMx[o] = j
        BY <2>3 DEF RecvInv
      <4> QED
        BY <2>1, <3>1, <3>3, <4>1, <4>2
    <3> QED
      BY <3>2, <3>3
  <2> QED
    BY <2>2, <2>4 DEF RecvInv
<1>2. CASE j \notin Webhook
  <2>1. \A o \in Obj : ~ Holds(j, job[j], o)
    BY <1>2 DEF Holds
  <2>2. recvMx' = recvMx
    BY <1>2 DEF Unlocked
  <2>3. \A o \in Obj, i \in Job : Holds(i, job'[i], o) <=> Holds(i, job[i], o)
    BY <2>1
  <2> QED
    BY <2>2, <2>3 DEF RecvInv
<1> QED
  BY <1>1, <1>2

LEMMA RecvLeft ==
  ASSUME RecvInv, job \in [Job -> JobType], NEW j \in Job, NEW r, job' = [job EXCEPT ![j] = r],
         recvMx' = Unlocked(j), j \in Webhook => job[j].pc \in Holding, \A o \in Obj : ~ Holds(j, r, o)
  PROVE  RecvInv'
<1>1. job'[j] = r /\ \A i \in Job \ {j} : job'[i] = job[i]
  OBVIOUS
<1> QED
  BY <1>1, RecvFreed

(* Nobody enters or leaves a critical section. *)
LEMMA MutexesKept ==
  ASSUME LoadInv, RecvInv, loadMx' = loadMx, recvMx' = recvMx,
         \A i \in Job : /\ job[i].pc \in Loading <=> job'[i].pc \in Loading
                        /\ \A o \in Obj : Holds(i, job'[i], o) <=> Holds(i, job[i], o)
  PROVE  LoadInv' /\ RecvInv'
  BY DEF LoadInv, RecvInv

-----------------------------------------------------------------------------
(* A request moves on. *)
LEMMA Going ==
  ASSUME JobInv, NEW j \in Job, job[j].pc # "idle", NEW pc \in PC, job' = Goto(j, pc)
  PROVE  \E r \in Call : /\ job' = [job EXCEPT ![j] = r]
                         /\ r.pc = pc /\ r.o = job[j].o /\ By(r) = By(job[j])
<1> DEFINE r == [job[j] EXCEPT !.pc = pc]
<1>1. job[j] \in Call /\ job[j] # Idle
  BY Working DEF JobInv
<1>2. r \in Call /\ r.pc = pc /\ r.o = job[j].o /\ r.by = job[j].by
  BY <1>1 DEF Call
<1>3. job' = [job EXCEPT ![j] = r]
  BY DEF Goto
<1>4. r \in JobType
  BY <1>2 DEF JobType
<1> HIDE DEF r
<1>5. By(r) = By(job[j])
  BY <1>1, <1>2, <1>4, Working DEF By
<1> QED
  BY <1>2, <1>3, <1>5

(* A request returns, or leaves it to the server to close the rows. *)
LEMMA Returning ==
  ASSUME JobInv, NEW j \in Job, job[j].pc # "idle"
  PROVE  \E r \in JobType : /\ Finished(j) = [job EXCEPT ![j] = r]
                            /\ r.pc \in {"idle", "commit"} /\ (j \in Webhook => r.pc = "idle")
                            /\ WellFormed(j, r)
                            /\ By(r) = NoJob \/ By(r) = By(job[j])
<1>1. CASE j \in Server /\ job[j].op = "close"
  <2> DEFINE r == [job[j] EXCEPT !.pc = "commit"]
  <2>1. job[j] \in Call /\ job[j] # Idle
    BY Working DEF JobInv
  <2>2. r \in Call /\ r.pc = "commit" /\ r.by = job[j].by
    BY <2>1 DEF Call, PC
  <2>3. Finished(j) = [job EXCEPT ![j] = r]
    BY <1>1 DEF Finished, Goto
  <2>4. r \in JobType
    BY <2>2 DEF JobType
  <2> HIDE DEF r
  <2>5. By(r) = By(job[j])
    BY <2>1, <2>2, <2>4, Working DEF By
  <2>6. j \notin Webhook
    BY <1>1, BotAssumption
  <2> QED
    BY <2>2, <2>3, <2>4, <2>5, <2>6 DEF WellFormed
<1>2. CASE ~ (j \in Server /\ job[j].op = "close")
  BY <1>2, IdleFacts DEF Finished
<1> QED
  BY <1>1, <1>2

(* A step of a request that returns outside the critical sections. *)
LEMMA ReturnKeeps ==
  ASSUME JobInv, WaitInv, LoadInv, RecvInv, NEW j \in Job,
         job[j].pc \notin {"idle", "await"} \cup Loading,
         j \in Webhook => job[j].pc \in Holding,
         Return(j), loadMx' = loadMx
  PROVE  JobInv' /\ WaitInv' /\ LoadInv' /\ RecvInv'
<1>1. PICK r \in JobType : /\ job' = [job EXCEPT ![j] = r]
                           /\ r.pc \in {"idle", "commit"} /\ (j \in Webhook => r.pc = "idle")
                           /\ WellFormed(j, r)
                           /\ By(r) = NoJob \/ By(r) = By(job[j])
  BY Returning DEF Return
<1>2. JobInv' /\ WaitInv'
  BY <1>1, RequestMoves
<1>3. LoadInv'
  BY <1>1, LoadKept DEF JobInv, Loading
<1>4. RecvInv'
  BY <1>1, RecvLeft DEF JobInv, Return, Holds, Holding, PC
<1> QED
  BY <1>2, <1>3, <1>4

(* A step of a request within the critical section of recvMx, if it is a webhook's. *)
LEMMA GoKeeps ==
  ASSUME JobInv, WaitInv, LoadInv, RecvInv, NEW j \in Job, NEW pc \in Holding \ {"mark", "commit"},
         job[j].pc \notin {"idle", "await", "commit"} \cup Loading,
         j \in Webhook => job[j].pc \in Holding,
         j \in Server => job[j].pc # "load" /\ pc \notin {"send", "start", "restart", "started", "relink"},
         job' = Goto(j, pc), recvMx' = recvMx, loadMx' = loadMx
  PROVE  JobInv' /\ WaitInv' /\ LoadInv' /\ RecvInv'
<1>0. pc \in PC /\ pc \notin {"idle", "check", "link", "load", "recv"}
  BY DEF Holding, PC
<1>1. PICK r \in Call : /\ job' = [job EXCEPT ![j] = r]
                        /\ r.pc = pc /\ r.o = job[j].o /\ By(r) = By(job[j])
  BY <1>0, Going
<1>2. job[j].o # NoObj
  BY DEF JobInv, WellFormed, Job, Holding, Loading
<1>3. WellFormed(j, r) /\ r \in JobType
  BY <1>0, <1>1, <1>2 DEF WellFormed, JobType
<1>4. JobInv' /\ WaitInv'
  BY <1>1, <1>3, RequestMoves
<1>5. LoadInv'
  BY <1>0, <1>1, LoadKept DEF JobInv, Loading
<1>6. RecvInv'
  BY <1>1, RecvKept DEF JobInv, Holds
<1> QED
  BY <1>4, <1>5, <1>6

(* New requests wait for nobody and hold nothing. *)
LEMMA AskKeeps ==
  ASSUME JobInv, WaitInv, LoadInv, RecvInv, NEW j \in Job, job[j] = Idle,
         NEW op \in {"text", "command", "notice", "close"}, NEW k \in Conv \cup {NoConv},
         job' = [job EXCEPT ![j] = Ask(j, op, k, NoJob)], recvMx' = recvMx, loadMx' = loadMx
  PROVE  JobInv' /\ WaitInv' /\ LoadInv' /\ RecvInv'
<1> DEFINE r == Ask(j, op, k, NoJob)
<1>0. job' = [job EXCEPT ![j] = r]
  OBVIOUS
<1>1. r \in Call /\ r.pc = "load" /\ r.by = NoJob
  BY DEF Ask, Call, PC
<1>2. r \in JobType /\ WellFormed(j, r)
  BY <1>1 DEF JobType, WellFormed
<1>3. \A o \in Obj : ~ Holds(j, r, o)
  BY <1>1 DEF Holds, Holding
<1> HIDE DEF r
<1>4. By(r) = NoJob
  BY <1>1 DEF By
<1>5. JobInv' /\ WaitInv'
  BY <1>0, <1>2, <1>4, RequestMoves, IdleFacts
<1>6. LoadInv'
  BY <1>0, <1>1, LoadKept, IdleFacts DEF JobInv, Loading
<1>7. RecvInv'
  BY <1>0, <1>3, RecvKept, IdleFacts DEF JobInv
<1> QED
  BY <1>5, <1>6, <1>7

-----------------------------------------------------------------------------
(* Types of the tables, the cache and the objects. *)
LEMMA StateKept ==
  ASSUME IInv, [Next]_vars
  PROVE  StateInv'
<1> USE DEF IInv, StateInv
<1>0. /\ \A j \in Job : job[j].pc \notin {"idle", "load", "check", "commit"} => job[j].o \in Obj
      /\ \A j \in Job : job[j].pc # "idle" => job[j].k \in Conv \cup {NoConv}
  BY DEF JobInv, JobType, WellFormed, Call, Idle
<1>f. Fault => faults' \in 0..MaxFaults
  BY BotAssumption DEF Fault
<1>1. ASSUME NEW j \in Job, Check(j)
      PROVE  StateInv'
  BY <1>1 DEF Check
<1>2. ASSUME NEW j \in Job, Link(j) \/ Relink(j) \/ Close(j) \/ Evict(j)
      PROVE  StateInv'
  BY <1>0, <1>2 DEF Link, Relink, Close, Evict, At
<1>3. ASSUME NEW j \in Job, Start(j) \/ StartFails(j) \/ Commit(j)
      PROVE  StateInv'
  <2>1. \/ row' = row
        \/ \E k \in Conv \cup {NoConv}, st \in {"open", "closed"} : row' = [row EXCEPT ![k] = st]
    BY <1>0, <1>3 DEF Start, StartFails, Commit, At
  <2>2. row' \in [Conv -> {"none", "open", "closed"}]
    BY <2>1
  <2>3. faults' \in 0..MaxFaults /\ link' = link /\ obj' = obj
    BY <1>3, <1>f DEF Start, StartFails, Commit
  <2> QED
    BY <2>2, <2>3
<1>4. ASSUME NEW j \in Job, Send(j) \/ Started(j)
      PROVE  StateInv'
  <2> DEFINE O == [chan : Conv \cup {NoConv}, closed : BOOLEAN]
  <2>0. obj \in [Obj -> O] /\ \A k \in Conv \cup {NoConv} : [chan |-> k, closed |-> FALSE] \in O
    OBVIOUS
  <2>1. PICK k \in Conv \cup {NoConv} :
          obj' = obj \/ obj' = [obj EXCEPT ![job[j].o] = [chan |-> k, closed |-> FALSE]]
    BY <1>0, <1>4 DEF Send, Started, At
  <2>2. obj' \in [Obj -> O]
    <3> HIDE DEF O
    <3> QED
      BY <2>0, <2>1
  <2>3. row' = row /\ link' = link /\ faults' = faults
    BY <1>4 DEF Send, Started
  <2> QED
    BY <2>2, <2>3
<1>5. ASSUME NEW j \in Job, Mark(j) \/ Closing(j)
      PROVE  StateInv'
  BY <1>5 DEF Mark, Closing
<1>6. ASSUME NEW j \in Job, Waits(j)
      PROVE  StateInv'
  BY <1>6 DEF Waits, LoadHit, LoadMiss, Recv, Request
<1>7. ASSUME NEW j \in Job, CheckFails(j) \/ SendFails(j) \/ RequestFails(j) \/ CommitFails(j)
      PROVE  StateInv'
  BY <1>7, <1>f DEF CheckFails, SendFails, RequestFails, CommitFails
<1>8. CASE Restart
  BY <1>8, <1>f DEF Restart
<1>9. ASSUME NEW j \in Job, NEW op, Read(j, op)
      PROVE  StateInv'
  BY <1>9 DEF Read
<1>10. ASSUME NEW j \in Job, NEW k, SendMessage(j, k) \/ CloseConversation(j, k)
      PROVE  StateInv'
  BY <1>10 DEF SendMessage, CloseConversation
<1>11. CASE UNCHANGED vars
  BY <1>11 DEF vars
<1> QED
  BY <1>1, <1>2, <1>3, <1>4, <1>5, <1>6, <1>7, <1>8, <1>9, <1>10, <1>11
  DEF Next, Steps, Fails, Job

-----------------------------------------------------------------------------
(* The mutexes and the calls: every step keeps the rest of the invariant. *)
MutexInv == JobInv /\ WaitInv /\ LoadInv /\ RecvInv

LEMMA LoadStepsKeep ==
  ASSUME IInv, NEW j \in Job, LoadHit(j) \/ LoadMiss(j) \/ Check(j) \/ Link(j) \/ CheckFails(j)
  PROVE  MutexInv'
<1> USE DEF IInv, MutexInv
<1>0. /\ job[j].pc # "idle" => job[j] \in Call /\ job[j] # Idle
      /\ job[j].pc = "link" => job[j].o # NoObj
      /\ First(j) \in {"recv", "mark"} /\ (j \in Webhook <=> First(j) = "recv")
      /\ j \in Server <=> First(j) = "mark"
  BY Working, BotAssumption DEF JobInv, WellFormed, First, Job
<1> DEFINE r(pc, o) == [job[j] EXCEPT !.o = o, !.pc = pc]
<1>r. ASSUME NEW pc \in {"recv", "mark", "link"}, NEW o \in Obj, job[j] \in Call, job[j] # Idle,
             pc = "link" \/ pc = First(j)
      PROVE  /\ r(pc, o) \in JobType /\ r(pc, o).pc = pc
             /\ WellFormed(j, r(pc, o)) /\ By(r(pc, o)) = By(job[j])
  <2>1. /\ r(pc, o) \in Call /\ r(pc, o).pc = pc /\ r(pc, o).o = o
        /\ r(pc, o).by = job[j].by
    BY <1>r DEF Call, PC
  <2>2. o # NoObj
    BY DEF Obj, NoObj
  <2> HIDE DEF r
  <2>3. r(pc, o) \in JobType /\ r(pc, o) # Idle
    BY <2>1, Working DEF JobType
  <2> QED
    BY <1>0, <1>r, <2>1, <2>2, <2>3 DEF WellFormed, By
<1>1. CASE LoadHit(j)
  <2>1. /\ job' = [job EXCEPT ![j] = r(First(j), link)] /\ link \in Obj
        /\ job[j].pc = "load" /\ loadMx' = loadMx /\ recvMx' = recvMx
    BY <1>1 DEF LoadHit, At, JobInv, StateInv
  <2> HIDE DEF r
  <2>2. LET q == r(First(j), link) IN
        /\ q \in JobType /\ q.pc = First(j) /\ WellFormed(j, q) /\ By(q) = By(job[j])
    BY <1>0, <1>r, <2>1
  <2>3. JobInv' /\ WaitInv'
    BY <2>1, <2>2, RequestMoves
  <2>4. LoadInv'
    BY <1>0, <2>1, <2>2, LoadKept DEF JobInv, Loading
  <2>5. RecvInv'
    BY <1>0, <2>1, <2>2, RecvKept DEF JobInv, Holds, Holding
  <2> QED
    BY <2>3, <2>4, <2>5
<1>2. CASE LoadMiss(j)
  <2>1. /\ job' = Goto(j, "check") /\ job[j].pc = "load" /\ loadMx = NoJob
        /\ loadMx' = j /\ recvMx' = recvMx
    BY <1>2 DEF LoadMiss, LoadFree, At
  <2>2. PICK q \in Call : /\ job' = [job EXCEPT ![j] = q]
                          /\ q.pc = "check" /\ q.o = job[j].o /\ By(q) = By(job[j])
    BY <2>1, Going DEF PC
  <2>3. JobInv' /\ WaitInv'
    BY <2>1, <2>2, RequestMoves DEF WellFormed, JobType
  <2>4. LoadInv'
    BY <2>1, <2>2, BotAssumption DEF LoadInv, JobInv, Loading, Job
  <2>5. RecvInv'
    BY <2>1, <2>2, RecvKept DEF JobInv, Holds, Holding
  <2> QED
    BY <2>3, <2>4, <2>5
<1>3. CASE Check(j)
  <2>1. PICK o \in Obj : job' = [job EXCEPT ![j] = r("link", o)]
    BY <1>3 DEF Check, JobInv
  <2>2. job[j].pc = "check" /\ loadMx' = loadMx /\ recvMx' = recvMx
    BY <1>3 DEF Check, At
  <2>3. LET q == r("link", o) IN
        /\ q \in JobType /\ q.pc = "link" /\ WellFormed(j, q) /\ By(q) = By(job[j])
    BY <1>0, <1>r, <2>2
  <2> HIDE DEF r
  <2>4. JobInv' /\ WaitInv'
    BY <2>1, <2>2, <2>3, RequestMoves
  <2>5. LoadInv'
    BY <2>1, <2>2, <2>3, LoadKept DEF JobInv, Loading
  <2>6. RecvInv'
    BY <2>1, <2>2, <2>3, RecvKept DEF JobInv, Holds, Holding
  <2> QED
    BY <2>4, <2>5, <2>6
<1>4. CASE Link(j)
  <2>1. /\ job' = Goto(j, First(j)) /\ job[j].pc = "link" /\ loadMx' = NoJob /\ recvMx' = recvMx
    BY <1>4 DEF Link, At
  <2>2. PICK q \in Call : /\ job' = [job EXCEPT ![j] = q]
                          /\ q.pc = First(j) /\ q.o = job[j].o /\ By(q) = By(job[j])
    BY <1>0, <2>1, Going DEF PC
  <2>3. JobInv' /\ WaitInv'
    BY <1>0, <2>1, <2>2, RequestMoves DEF WellFormed, JobType
  <2>4. LoadInv'
    BY <1>0, <2>1, <2>2, LoadLeft DEF JobInv, Loading
  <2>5. RecvInv'
    BY <1>0, <2>1, <2>2, RecvKept DEF JobInv, Holds, Holding
  <2> QED
    BY <2>3, <2>4, <2>5
<1>5. CASE CheckFails(j)
  <2>1. job' = Finished(j) /\ job[j].pc = "check" /\ loadMx' = NoJob /\ recvMx' = recvMx
    BY <1>5 DEF CheckFails, At
  <2>2. PICK q \in JobType : /\ job' = [job EXCEPT ![j] = q]
                             /\ q.pc \in {"idle", "commit"} /\ (j \in Webhook => q.pc = "idle")
                             /\ WellFormed(j, q)
                             /\ By(q) = NoJob \/ By(q) = By(job[j])
    BY <2>1, Returning
  <2>3. JobInv' /\ WaitInv'
    BY <2>1, <2>2, RequestMoves
  <2>4. LoadInv'
    BY <2>1, <2>2, LoadLeft DEF JobInv, Loading
  <2>5. RecvInv'
    BY <2>1, <2>2, RecvKept DEF JobInv, Holds, Holding, PC
  <2> QED
    BY <2>3, <2>4, <2>5
<1> QED
  BY <1>1, <1>2, <1>3, <1>4, <1>5

(* Recv, and what a request does on an object it has received a message on. *)
LEMMA RecvStepsKeep ==
  ASSUME IInv, NEW j \in Job, Recv(j) \/ Send(j) \/ Start(j) \/ Started(j) \/ Relink(j)
  PROVE  MutexInv'
<1> USE DEF IInv, MutexInv
<1>0. /\ job[j].pc \in {"recv", "send", "start", "restart", "started", "relink"} => j \in Webhook /\ j \notin Server
      /\ job[j].pc \in {"send", "start", "restart", "started", "relink"} => job[j].pc \in Holding
  BY DEF JobInv, WellFormed, Job, Holding, PC
<1>1. CASE Recv(j)
  <2>0. job[j].pc = "recv" /\ j \in Webhook /\ j \notin Server /\ loadMx' = loadMx /\ job[j].o \in Obj
    BY <1>0, <1>1 DEF Recv, At, JobInv, JobType, WellFormed, Call, Idle
  <2>1. CASE job' = Finished(j) /\ recvMx' = recvMx
    <3>1. PICK q \in JobType : /\ job' = [job EXCEPT ![j] = q]
                               /\ q.pc = "idle" /\ WellFormed(j, q)
                               /\ By(q) = NoJob \/ By(q) = By(job[j])
      BY <2>0, <2>1, Returning
    <3>2. JobInv' /\ WaitInv'
      BY <2>0, <3>1, RequestMoves
    <3>3. LoadInv'
      BY <2>0, <3>1, LoadKept DEF JobInv, Loading
    <3>4. RecvInv'
      BY <2>0, <2>1, <3>1, RecvKept DEF JobInv, Holds, Holding, PC
    <3> QED
      BY <3>2, <3>3, <3>4
  <2>2. ASSUME NEW pc \in {"start", "send", "close"}, job' = Goto(j, pc),
               recvMx[job[j].o] = NoJob, recvMx' = [recvMx EXCEPT ![job[j].o] = j]
        PROVE  MutexInv'
    <3>0. pc \in PC /\ pc \in Holding
      BY DEF PC, Holding
    <3>1. PICK q \in Call : /\ job' = [job EXCEPT ![j] = q]
                            /\ q.pc = pc /\ q.o = job[j].o /\ By(q) = By(job[j])
      BY <2>0, <2>2, <3>0, Going
    <3>2. JobInv' /\ WaitInv'
      BY <2>0, <3>1, RequestMoves DEF JobInv, WellFormed, JobType
    <3>3. LoadInv'
      BY <2>0, <2>2, <3>1, LoadKept DEF JobInv, Loading
    <3>4. recvMx' \in [Obj -> Webhook \cup {NoJob}] /\ \A o \in Obj : recvMx'[o] = IF o = job[j].o THEN j ELSE recvMx[o]
      BY <2>0, <2>2 DEF RecvInv
    <3>5. \A i \in Job : ~ Holds(i, job[i], job[j].o)
      BY <2>0, <2>2, BotAssumption DEF RecvInv, Job
    <3>6. \A i \in Job : job'[i] = IF i = j THEN q ELSE job[i]
      BY <3>1 DEF JobInv
    <3>7. \A o \in Obj : (Holds(j, q, o) <=> o = job[j].o) /\ ~ Holds(j, job[j], o)
      BY <2>0, <3>0, <3>1 DEF Holds, Holding
    <3>8. RecvInv'
      BY <3>4, <3>5, <3>6, <3>7 DEF RecvInv
    <3> QED
      BY <3>2, <3>3, <3>8
  <2> QED
    BY <1>1, <2>1, <2>2 DEF Recv, RecvFree
<1>2. CASE Send(j)
  <2>1. CASE Return(j)
    BY <1>0, <1>2, <2>1, ReturnKeeps DEF Send, At, Loading
  <2>2. CASE job' = Goto(j, "restart") /\ recvMx' = recvMx
    BY <1>0, <1>2, <2>2, GoKeeps DEF Send, At, Loading, Holding, PC
  <2> QED
    BY <1>2, <2>1, <2>2 DEF Send
<1>3. CASE Start(j)
  <2>1. PICK k \in Conv : job' = [job EXCEPT ![j].k = k, ![j].pc = "started"]
    BY <1>3 DEF Start
  <2> DEFINE q == [job[j] EXCEPT !.k = k, !.pc = "started"]
  <2>2. /\ job[j].pc \in {"start", "restart"} /\ j \in Webhook /\ j \notin Server
        /\ loadMx' = loadMx /\ recvMx' = recvMx
        /\ job[j] \in Call /\ job[j] # Idle
    BY <1>0, <1>3, Working DEF Start, At, JobInv
  <2>3. job' = [job EXCEPT ![j] = q]
    BY <2>1 DEF JobInv
  <2>4. q \in Call /\ q.pc = "started" /\ q.o = job[j].o /\ q.by = job[j].by
    BY <2>2 DEF Call, PC
  <2> HIDE DEF q
  <2>5. q \in JobType /\ q # Idle /\ WellFormed(j, q)
    BY <2>2, <2>4, Working DEF JobType, JobInv, WellFormed
  <2>6. JobInv' /\ WaitInv'
    BY <2>2, <2>3, <2>4, <2>5, RequestMoves DEF By
  <2>7. LoadInv'
    BY <2>2, <2>3, <2>4, LoadKept DEF JobInv, Loading
  <2>8. RecvInv'
    BY <2>2, <2>3, <2>4, RecvKept DEF JobInv, Holds, Holding, PC
  <2> QED
    BY <2>6, <2>7, <2>8
<1>4. CASE Started(j)
  BY <1>0, <1>4, GoKeeps DEF Started, At, Loading, Holding, PC
<1>5. CASE Relink(j)
  BY <1>0, <1>5, ReturnKeeps DEF Relink, At, Loading
<1> QED
  BY <1>1, <1>2, <1>3, <1>4, <1>5

(* Mark, and Channel.Close up to its call. *)
LEMMA CloseStepsKeep ==
  ASSUME IInv, NEW j \in Job, Mark(j) \/ Close(j) \/ Closing(j) \/ Evict(j)
  PROVE  MutexInv'
<1> USE DEF IInv, MutexInv
<1>0. /\ job[j].pc = "mark" => j \notin Webhook
      /\ {"mark", "close", "closing", "evict", "request"} \subseteq Holding
  BY DEF JobInv, WellFormed, Job, Holding, PC
<1>1. CASE Mark(j)
  <2>1. CASE job' = Goto(j, "close")
    BY <1>0, <1>1, <2>1, GoKeeps DEF Mark, At, Loading
  <2>2. CASE job' = Finished(j)
    <3>1. recvMx' = Unlocked(j)
      BY <1>0, <1>1 DEF Mark, At, Unlocked
    <3> QED
      BY <1>0, <1>1, <2>2, <3>1, ReturnKeeps DEF Mark, At, Loading, Return
  <2> QED
    BY <1>1, <2>1, <2>2 DEF Mark
<1>2. CASE Close(j)
  <2>1. CASE Return(j)
    BY <1>0, <1>2, <2>1, ReturnKeeps DEF Close, At, Loading
  <2>2. CASE job' = Goto(j, "closing") /\ recvMx' = recvMx
    BY <1>0, <1>2, <2>2, GoKeeps DEF Close, At, Loading
  <2> QED
    BY <1>2, <2>1, <2>2 DEF Close
<1>3. CASE Closing(j)
  <2>1. CASE Return(j)
    BY <1>0, <1>3, <2>1, ReturnKeeps DEF Closing, At, Loading
  <2>2. CASE job' = Goto(j, "request") /\ recvMx' = recvMx
    BY <1>0, <1>3, <2>2, GoKeeps DEF Closing, At, Loading
  <2> QED
    BY <1>3, <2>1, <2>2 DEF Closing
<1>4. CASE Evict(j)
  BY <1>0, <1>4, ReturnKeeps DEF Evict, At, Loading
<1> QED
  BY <1>1, <1>2, <1>3, <1>4

(* Calls that fail before, or instead of, a call of the server back. *)
LEMMA FailuresKeep ==
  ASSUME IInv, NEW j \in Job, SendFails(j) \/ StartFails(j)
  PROVE  MutexInv'
<1> USE DEF IInv, MutexInv
<1>0. job[j].pc \in {"send", "start", "restart"} => j \in Webhook /\ j \notin Server /\ job[j].pc \in Holding
  BY DEF JobInv, WellFormed, Job, Holding, PC
<1>1. CASE SendFails(j)
  BY <1>0, <1>1, ReturnKeeps DEF SendFails, At, Loading
<1>2. CASE StartFails(j)
  <2>1. CASE Return(j)
    BY <1>0, <1>2, <2>1, ReturnKeeps DEF StartFails, At, Loading
  <2>2. CASE job' = Goto(j, "evict") /\ recvMx' = recvMx
    BY <1>0, <1>2, <2>2, GoKeeps DEF StartFails, At, Loading, Holding, PC
  <2> QED
    BY <1>2, <2>1, <2>2 DEF StartFails
<1> QED
  BY <1>1, <1>2

-----------------------------------------------------------------------------
(* The call of Channel.Close: the request that serves it is given its caller. *)
LEMMA RequestKeeps ==
  ASSUME IInv, NEW j \in Job, Request(j)
  PROVE  MutexInv'
<1> USE DEF IInv, MutexInv
<1> DEFINE k == obj[job[j].o].chan
<1>0. /\ job[j].pc = "request" /\ {"request", "evict", "await"} \subseteq Holding
      /\ job[j] \in Call /\ job[j] # Idle /\ job[j].o \in Obj /\ k \in Conv \cup {NoConv}
      /\ loadMx' = loadMx
  BY Working DEF Request, At, JobInv, WellFormed, Call, Holding, PC, StateInv
<1>1. CASE Return(j)
  BY <1>0, <1>1, ReturnKeeps DEF Loading
<1>2. CASE job' = Goto(j, "evict") /\ recvMx' = recvMx
  BY <1>0, <1>2, GoKeeps DEF Loading
<1>3. ASSUME NEW s \in Server, job[s] = Idle, recvMx' = recvMx,
             job' = [job EXCEPT ![s] = Ask(s, "close", k, j), ![j].pc = "await"]
      PROVE  MutexInv'
  <2> DEFINE a == Ask(s, "close", k, j)
             q == [job[j] EXCEPT !.pc = "await"]
  <2>1. s \in Job /\ s # j
    BY <1>0, <1>3 DEF Job
  <2>2. a \in Call /\ a.pc = "load" /\ a.by = j
    BY <1>0 DEF Ask, Call, PC
  <2>3. q \in Call /\ q.pc = "await" /\ q.o = job[j].o /\ q.by = job[j].by
    BY <1>0 DEF Call, PC
  <2>4. job' = [[job EXCEPT ![s] = a] EXCEPT ![j] = q]
    BY <1>3, <2>1 DEF JobInv
  <2> HIDE DEF a, q, k
  <2>5. \A i \in Job : job'[i] = IF i = j THEN q ELSE IF i = s THEN a ELSE job[i]
    BY <2>1, <2>4 DEF JobInv
  <2>6. a \in JobType /\ q \in JobType /\ By(a) = j /\ By(q) = By(job[j])
    BY <1>0, <2>2, <2>3, Working DEF JobType, By
  <2>7. WellFormed(s, a) /\ WellFormed(j, q)
    BY <1>0, <2>1, <2>2, <2>3 DEF WellFormed, JobInv
  <2>8. JobInv'
    BY <2>1, <2>4, <2>5, <2>6, <2>7 DEF JobInv
  <2>9. \A i \in Job : By(job[i]) # j /\ By(job[i]) # s
    BY <1>0, <1>3, <2>1, IdleFacts, BotAssumption DEF WaitInv, Job
  <2>10. \A i \in Job : By(job[i]) # NoJob => By(job[i]) \in Job /\ job'[By(job[i])].pc = "await"
    BY <2>5, <2>9, Working DEF WaitInv, JobInv
  <2>11. \A i \in Job : By(job'[i]) = IF i = s THEN j ELSE By(job[i])
    BY <2>1, <2>5, <2>6
  <2>12. job'[j].pc = "await"
    BY <2>3, <2>5
  <2>13. WaitInv'
    BY <2>1, <2>9, <2>10, <2>11, <2>12 DEF WaitInv
  <2>14. \A i \in Job : /\ job[i].pc \in Loading <=> job'[i].pc \in Loading
                        /\ \A o \in Obj : Holds(i, job'[i], o) <=> Holds(i, job[i], o)
    <3>1. /\ job[j].pc \notin Loading /\ q.pc \notin Loading
          /\ \A o \in Obj : Holds(j, q, o) <=> Holds(j, job[j], o)
      BY <1>0, <2>3 DEF Loading, Holds
    <3>2. /\ job[s].pc \notin Loading /\ a.pc \notin Loading
          /\ \A o \in Obj : ~ Holds(s, a, o) /\ ~ Holds(s, job[s], o)
      BY <1>3, <2>1, <2>2, IdleFacts DEF Loading, Holds, Holding
    <3> QED
      BY <2>5, <3>1, <3>2
  <2> QED
    BY <1>0, <1>3, <2>8, <2>13, <2>14, MutexesKept
<1> QED
  BY <1>1, <1>2, <1>3 DEF Request

LEMMA RequestFailsKeeps ==
  ASSUME IInv, NEW j \in Job, RequestFails(j)
  PROVE  MutexInv'
<1> USE DEF IInv, MutexInv
<1>0. {"request", "evict", "await"} \subseteq Holding /\ recvMx' = recvMx /\ loadMx' = loadMx
  BY DEF Holding, PC, RequestFails
<1>1. CASE At(j, "request") /\ job' = Goto(j, "evict")
  BY <1>0, <1>1, GoKeeps DEF At, Loading
<1>2. CASE At(j, "await")
  <2>1. job' = [i \in Job |-> IF i = j THEN [job[i] EXCEPT !.pc = "evict"]
                              ELSE IF job[i] # Idle /\ job[i].by = j
                              THEN [job[i] EXCEPT !.by = NoJob] ELSE job[i]]
    BY <1>2 DEF RequestFails, At
  <2>2. ASSUME NEW i \in Job
        PROVE  /\ job'[i] \in JobType /\ WellFormed(i, job'[i])
               /\ job[i].pc \in Loading <=> job'[i].pc \in Loading
               /\ \A o \in Obj : Holds(i, job'[i], o) <=> Holds(i, job[i], o)
               /\ i # j => job'[i].pc = job[i].pc
               /\ By(job'[i]) = IF i # j /\ By(job[i]) = j THEN NoJob ELSE By(job[i])
    <3>0. job[i] \in JobType /\ WellFormed(i, job[i]) /\ j # NoJob
      BY BotAssumption DEF JobInv, Job
    <3>1. CASE i = j
      <4> DEFINE q == [job[j] EXCEPT !.pc = "evict"]
      <4>1. job[j] \in Call /\ job[j] # Idle /\ job[j].pc = "await"
        BY <1>2, Working DEF At, JobInv
      <4>2. q \in Call /\ q.pc = "evict" /\ q.o = job[j].o /\ q.by = job[j].by
        BY <4>1 DEF Call, PC
      <4>3. job'[i] = q
        BY <2>1, <3>1
      <4> HIDE DEF q
      <4>4. q \in JobType /\ q # Idle
        BY <4>2, Working DEF JobType
      <4> QED
        BY <1>0, <3>0, <3>1, <4>1, <4>2, <4>3, <4>4 DEF WellFormed, By, Loading, Holds
    <3>2. CASE i # j /\ job[i] # Idle /\ job[i].by = j
      <4> DEFINE q == [job[i] EXCEPT !.by = NoJob]
      <4>1. job[i] \in Call
        BY <3>0, <3>2 DEF JobType
      <4>2. q \in Call /\ q.pc = job[i].pc /\ q.o = job[i].o /\ q.by = NoJob
        BY <4>1 DEF Call
      <4>3. job'[i] = q
        BY <2>1, <3>2
      <4> HIDE DEF q
      <4>4. q \in JobType /\ q # Idle
        BY <4>2, Working DEF JobType
      <4> QED
        BY <3>0, <3>2, <4>2, <4>3, <4>4 DEF WellFormed, By, Holds
    <3>3. CASE i # j /\ ~ (job[i] # Idle /\ job[i].by = j)
      BY <2>1, <3>0, <3>3 DEF By
    <3> QED
      BY <3>1, <3>2, <3>3
  <2>3. JobInv'
    BY <2>1, <2>2 DEF JobInv
  <2>4. \A i \in Job : By(job[i]) # NoJob => By(job[i]) \in Job /\ job[By(job[i])].pc = "await"
    BY Working DEF WaitInv, JobInv
  <2>5. \A i \in Job : By(job'[i]) # j
    BY <2>2, BotAssumption DEF WaitInv, Job
  <2>6. WaitInv'
    <3>1. \A i \in Job : i # NoJob /\ By(job'[i]) \in {NoJob, By(job[i])}
      BY <2>2, BotAssumption DEF Job
    <3> QED
      BY <2>2, <2>4, <2>5, <3>1 DEF WaitInv
  <2>7. LoadInv' /\ RecvInv'
    BY <1>0, <2>2, MutexesKept
  <2> QED
    BY <2>3, <2>6, <2>7
<1> QED
  BY <1>1, <1>2 DEF RequestFails

(* The end of a call wakes the request that waits for it, if there is one. *)
LEMMA CommitKeeps ==
  ASSUME IInv, NEW j \in Job, Commit(j)
  PROVE  MutexInv'
<1> USE DEF IInv, MutexInv
<1> DEFINE by == job[j].by
<1>0. /\ job[j].pc = "commit" /\ job[j] \in Call /\ job[j] # Idle /\ by = By(job[j])
      /\ j \notin Webhook /\ loadMx' = loadMx
  BY Working DEF Commit, At, JobInv, WellFormed, By, Job
<1>1. CASE by = NoJob
  <2>1. job' = [job EXCEPT ![j] = Idle] /\ recvMx' = recvMx
    BY <1>1 DEF Commit
  <2>2. JobInv' /\ WaitInv'
    BY <1>0, <2>1, RequestMoves, IdleFacts
  <2>3. LoadInv'
    BY <1>0, <2>1, LoadKept, IdleFacts DEF JobInv, Loading
  <2>4. RecvInv'
    BY <1>0, <2>1, RecvKept, IdleFacts DEF JobInv, Holds
  <2> QED
    BY <2>2, <2>3, <2>4
<1>2. CASE by # NoJob
  <2>1. by \in Job /\ by # j /\ job[by].pc = "await" /\ "await" \in Holding
    BY <1>0, <1>2, Working DEF JobInv, WaitInv, Holding, PC
  <2>2. PICK r \in JobType : /\ Finished(by) = [job EXCEPT ![by] = r]
                             /\ r.pc \in {"idle", "commit"} /\ (by \in Webhook => r.pc = "idle")
                             /\ WellFormed(by, r)
                             /\ By(r) = NoJob \/ By(r) = By(job[by])
    BY <2>1, Returning
  <2>3. job' = [[job EXCEPT ![by] = r] EXCEPT ![j] = Idle] /\ recvMx' = Unlocked(by)
    BY <1>2, <2>2 DEF Commit
  <2> HIDE DEF by
  <2>4. \A i \in Job : job'[i] = IF i = j THEN Idle ELSE IF i = by THEN r ELSE job[i]
    BY <2>1, <2>3 DEF JobInv
  <2>5. JobInv'
    BY <2>1, <2>2, <2>3, <2>4, IdleFacts DEF JobInv
  <2>6. \A i \in Job : By(job'[i]) \in {NoJob, By(job[i])}
    BY <2>2, <2>4, IdleFacts
  <2>7. \A i \in Job : i # j => By(job[i]) # by
    BY <1>0, <1>2 DEF WaitInv
  <2>8. \A i \in Job : By(job'[i]) # by /\ By(job'[i]) # j
    BY <1>0, <1>2, <2>1, <2>4, <2>6, <2>7, IdleFacts, BotAssumption DEF WaitInv, Job
  <2>9. WaitInv'
    <3>1. \A i \in Job : i # NoJob /\ By(job[i]) \in Job \cup {NoJob}
      BY Working, BotAssumption DEF JobInv, Job
    <3> QED
      BY <2>4, <2>6, <2>8, <3>1 DEF WaitInv
  <2>10. /\ job[by].pc \notin Loading /\ r.pc \notin Loading
         /\ job[j].pc \notin Loading /\ Idle.pc \notin Loading
    BY <1>0, <2>1, <2>2, IdleFacts DEF Loading
  <2>11. LoadInv'
    BY <1>0, <2>4, <2>10 DEF LoadInv
  <2>12. \A o \in Obj : /\ ~ Holds(by, r, o)
                        /\ ~ Holds(j, Idle, o) /\ ~ Holds(j, job[j], o)
    BY <1>0, <2>2, IdleFacts DEF Holds, Holding, PC
  <2>13. RecvInv'
    BY <2>1, <2>3, <2>4, <2>12, RecvFreed
  <2> QED
    BY <2>5, <2>9, <2>11, <2>13
<1> QED
  BY <1>1, <1>2

(* A call that fails wakes it as well. *)
LEMMA CommitFailsKeeps ==
  ASSUME IInv, NEW j \in Job, CommitFails(j)
  PROVE  MutexInv'
<1> USE DEF IInv, MutexInv
<1> DEFINE by == By(job[j])
<1>0. /\ job[j].pc = "commit" /\ job[j] # Idle /\ job[j].by = by
      /\ j \notin Webhook /\ loadMx' = loadMx /\ recvMx' = recvMx
      /\ {"evict", "await"} \subseteq Holding
  BY Working DEF CommitFails, At, JobInv, WellFormed, By, Job, Holding, PC
<1>1. job' = [i \in Job |-> IF i = j THEN Idle
                            ELSE IF i = by THEN [job[i] EXCEPT !.pc = "evict"]
                            ELSE job[i]]
  BY <1>0 DEF CommitFails
<1>2. by # NoJob => by \in Job /\ by # j /\ job[by].pc = "await"
  BY Working DEF JobInv, WaitInv
<1> HIDE DEF by
<1>3. ASSUME NEW i \in Job
      PROVE  /\ job'[i] \in JobType /\ WellFormed(i, job'[i])
             /\ job[i].pc \in Loading <=> job'[i].pc \in Loading
             /\ \A o \in Obj : Holds(i, job'[i], o) <=> Holds(i, job[i], o)
             /\ i \notin {j, by} => job'[i] = job[i]
             /\ By(job'[i]) = IF i = j THEN NoJob ELSE By(job[i])
  <2>0. job[i] \in JobType /\ WellFormed(i, job[i]) /\ i # NoJob
    BY BotAssumption DEF JobInv, Job
  <2>1. CASE i = j
    BY <1>0, <1>1, <2>0, <2>1, IdleFacts DEF Loading, Holds
  <2>2. CASE i # j /\ i = by
    <3> DEFINE q == [job[i] EXCEPT !.pc = "evict"]
    <3>1. job[i] \in Call /\ job[i] # Idle /\ job[i].pc = "await"
      BY <1>2, <2>0, <2>2, Working
    <3>2. q \in Call /\ q.pc = "evict" /\ q.o = job[i].o /\ q.by = job[i].by
      BY <3>1 DEF Call, PC
    <3>3. job'[i] = q
      BY <1>1, <2>2
    <3> HIDE DEF q
    <3>4. q \in JobType /\ q # Idle
      BY <3>2, Working DEF JobType
    <3> QED
      BY <1>0, <2>0, <2>2, <3>1, <3>2, <3>3, <3>4 DEF WellFormed, By, Loading, Holds
  <2>3. CASE i # j /\ i # by
    BY <1>1, <2>0, <2>3
  <2> QED
    BY <2>1, <2>2, <2>3
<1>4. JobInv'
  BY <1>1, <1>3 DEF JobInv
<1>5. WaitInv'
  <2>1. \A i \in Job : /\ i # NoJob /\ By(job[i]) \in Job \cup {NoJob}
                       /\ By(job[i]) = by /\ by # NoJob => i = j
    BY Working, BotAssumption, <1>0 DEF JobInv, WaitInv, Job, By
  <2>2. \A i \in Job : By(job[i]) # j
    BY <1>0, BotAssumption DEF WaitInv, Job
  <2>3. \A i \in Job : By(job'[i]) # by \/ by = NoJob
    BY <1>3, <2>1
  <2> QED
    BY <1>3, <2>1, <2>2, <2>3 DEF WaitInv
<1>6. LoadInv' /\ RecvInv'
  BY <1>0, <1>3, MutexesKept
<1> QED
  BY <1>4, <1>5, <1>6

(* After a restart only the server is at work, for nobody. *)
LEMMA RestartKeeps ==
  ASSUME IInv, Restart
  PROVE  MutexInv'
<1> USE DEF IInv, MutexInv
<1>1. ASSUME NEW i \in Job
      PROVE  /\ job'[i] \in JobType /\ WellFormed(i, job'[i])
             /\ job'[i].pc \in {"idle", "commit"} /\ By(job'[i]) = NoJob
             /\ \A o : ~ Holds(i, job'[i], o)
  <2>1. CASE i \in Server /\ job[i] # Idle /\ job[i].op = "close"
    <3> DEFINE q == [job[i] EXCEPT !.pc = "commit", !.by = NoJob]
    <3>1. job[i] \in Call
      BY <2>1 DEF JobInv, JobType
    <3>2. q \in Call /\ q.pc = "commit" /\ q.by = NoJob
      BY <3>1 DEF Call, PC
    <3>3. job'[i] = q
      BY <2>1 DEF Restart
    <3> HIDE DEF q
    <3>4. i \notin Webhook
      BY <2>1, BotAssumption
    <3> QED
      BY <3>2, <3>3, <3>4 DEF JobType, WellFormed, By, Holds
  <2>2. CASE ~ (i \in Server /\ job[i] # Idle /\ job[i].op = "close")
    BY <2>2, IdleFacts DEF Restart
  <2> QED
    BY <2>1, <2>2
<1>2. JobInv'
  BY <1>1 DEF JobInv, Restart
<1>3. WaitInv'
  BY <1>1, BotAssumption DEF WaitInv, Job
<1>4. LoadInv'
  BY <1>1, BotAssumption DEF LoadInv, Loading, Restart, Job
<1>5. RecvInv'
  BY <1>1, BotAssumption DEF RecvInv, Restart, Job
<1> QED
  BY <1>2, <1>3, <1>4, <1>5

-----------------------------------------------------------------------------
LEMMA NextKeepsInv == IInv /\ [Next]_vars => IInv'
<1> SUFFICES ASSUME IInv, [Next]_vars PROVE IInv'
  OBVIOUS
<1>0. StateInv'
  BY StateKept
<1>1. ASSUME NEW j \in Webhook, NEW op \in {"text", "command"}, Read(j, op)
      PROVE  MutexInv'
  BY <1>1, AskKeeps DEF Read, IInv, MutexInv, Job
<1>2. ASSUME NEW j \in Server, NEW k \in Conv, SendMessage(j, k) \/ CloseConversation(j, k)
      PROVE  MutexInv'
  BY <1>2, AskKeeps DEF SendMessage, CloseConversation, IInv, MutexInv, Job
<1>3. ASSUME NEW j \in Job, Waits(j) \/ Steps(j) \/ Fails(j)
      PROVE  MutexInv'
  BY <1>3, LoadStepsKeep, RecvStepsKeep, CloseStepsKeep, FailuresKeep, RequestKeeps,
     RequestFailsKeeps, CommitKeeps, CommitFailsKeeps
     DEF Waits, Steps, Fails
<1>4. CASE UNCHANGED vars
  <2>1. job' = job /\ loadMx' = loadMx /\ recvMx' = recvMx
    BY <1>4 DEF vars
  <2>2. JobInv' /\ WaitInv'
    BY <2>1 DEF IInv, JobInv, WaitInv
  <2>3. LoadInv' /\ RecvInv'
    BY <2>1, MutexesKept DEF IInv
  <2> QED
    BY <1>0, <2>2, <2>3 DEF IInv
<1>5. ASSUME Next
      PROVE  MutexInv'
  BY <1>1, <1>2, <1>3, <1>5, RestartKeeps DEF Next
<1> QED
  BY <1>0, <1>4, <1>5 DEF IInv, MutexInv

LEMMA InvHolds == Spec => []IInv
  BY InitInv, NextKeepsInv, PTL DEF Spec

(***************************************************************************)
(* Every state is one TypeOK allows: a webhook request past the start of   *)
(* Recv holds the recvMx of the object it works on until it returns, over  *)
(* its calls and through failures, and a recvMx that is taken is held by   *)
(* such a request.  No bound on requests, objects or failures.             *)
(***************************************************************************)
THEOREM BotChannelTyped == Spec => []TypeOK
  BY InvHolds, InvTyped, PTL

(***************************************************************************)
(* GetChannel between its miss in the cache and its new entry there, and   *)
(* what Recv does on one object, are for one request at a time: two        *)
(* messages of a customer never look for his channel, nor start, restart   *)
(* or close the conversation of one object, together.                      *)
(***************************************************************************)
Exclusive ==
  /\ \A i, j \in Job : job[i].pc \in Loading /\ job[j].pc \in Loading => i = j
  /\ \A i, j \in Webhook, o \in Obj :
       Holds(i, job[i], o) /\ Holds(j, job[j], o) => i = j

THEOREM MutexesExclude == Spec => []Exclusive
<1>1. IInv => Exclusive
  BY DEF IInv, LoadInv, RecvInv, Exclusive, Job
<1> QED
  BY <1>1, InvHolds, PTL

(***************************************************************************)
(* The server's CloseConversation answers the "/close" that called it: a   *)
(* request that serves a call has a caller that is still waiting for it,   *)
(* and no other one serves the same caller, so an answer that is late,     *)
(* after the caller gave up or the gateway restarted, reaches nobody.      *)
(***************************************************************************)
OneAnswer ==
  \A i \in Job : job[i] # Idle /\ job[i].by # NoJob =>
    /\ job[job[i].by].pc = "await"
    /\ \A j \in Job : job[j] # Idle /\ job[j].by = job[i].by => j = i

THEOREM AnswersFindTheirCaller == Spec => []OneAnswer
<1>1. IInv => OneAnswer
  BY DEF IInv, WaitInv, By, OneAnswer
<1> QED
  BY <1>1, InvHolds, PTL
=============================================================================
