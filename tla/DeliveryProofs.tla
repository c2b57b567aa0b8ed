---------------------------- MODULE DeliveryProofs ----------------------------
(***************************************************************************)
(* Proofs about Delivery, for any members, external ids, requests at a     *)
(* time, messages and failures: what the handlers of cmd/chat/service.go   *)
(* that store and hand out messages keep of each other's work, although    *)
(* each goes on with the session and the message it read at its start.     *)
(***************************************************************************)
EXTENDS MCDelivery, FiniteSetTheorems, SequenceTheorems, TLAPS

-----------------------------------------------------------------------------
JobType == JobRow \cup {Idle}

(* The request works on a message that is stored already, or was. *)
Refers(r)   == \/ r.pc \in {"deliver", "delete", "route"}
               \/ r.pc \in {"upload", "store"} /\ r.ref = "edit"
About(r, m) == Refers(r) /\ r.mid = m

(* A request hands out message m. *)
Delivers(r, m) == r.pc = "deliver" /\ r.mid = m

Sent(r) == IF r.ref = "edit" THEN "edit" ELSE "new"

Has(s, e) == \E i \in DOMAIN s : s[i] = e

(* The messages BareBindingsKept is about, and those of EventsInOrder. *)
Bare(row)  == row # NoMsg /\ row.bare /\ ~ row.service
Plain(row) == row # NoMsg /\ ~ row.service

(* What a request knows of the rows M when it is not idle. *)
WellFormed(r, M) ==
  /\ r # Idle => r.left \subseteq r.snap
  /\ Refers(r) => r.mid \in Msg /\ M[r.mid] # NoMsg /\ M[r.mid].from = r.by
  /\ r.pc = "route" => M[r.mid].st = "deleted"
  /\ r.pc \in {"lookup", "upload", "store"} => ~ r.rebind
  /\ r # Idle /\ r.service # "no" => r.pc \in {"store", "deliver"} /\ r.ref = "new"
  /\ r.pc = "deliver" /\ r.service # "no" => M[r.mid].service

-----------------------------------------------------------------------------
(***************************************************************************)
(* The inductive invariant.  An edit or a deletion is at work on a message *)
(* of its own author (JobInv), who has one request at a time if he awaits  *)
(* the answers (OneEach): so nobody else is telling the life of a plain    *)
(* message meanwhile, its creator tells each member once, from an empty    *)
(* inbox, and after a deletion was told no request is about it (OrderInv). *)
(***************************************************************************)
StateInv ==
  /\ member \in [Member -> {"none", "open", "closed"}]
  /\ msg \in [Msg -> Row \cup {NoMsg}]
  /\ lastId \in Msg
  /\ inbox \in [Member -> [Msg -> Seq(Event)]]
  /\ acked \in [Msg -> SUBSET Ext]
  /\ asked \in 0 .. MaxAsked /\ faults \in 0 .. MaxFaults

RowInv ==
  \A m \in Msg : /\ m <= lastId <=> msg[m] # NoMsg
                 /\ msg[m] = NoMsg => acked[m] = {} /\ \A c \in Member : inbox[c][m] = <<>>

JobInv ==
  /\ job \in [Job -> JobType]
  /\ \A j \in Job : WellFormed(job[j], msg)

(* An id a gateway answered with is in the row or with a request that will bind it. *)
BindInv ==
  \A m \in Msg : Bare(msg[m]) =>
    /\ \A j \in Job : Delivers(job[j], m) /\ job[j].ext # {} => job[j].rebind
    /\ Stored(m) => \A x \in acked[m] :
         x \in msg[m].ext \/ \E j \in Job : Delivers(job[j], m) /\ x \in job[j].ext

Handed(r, box) == \A c \in r.snap \ {r.by} : c \in r.left \/ Has(box[c][r.mid], Sent(r))

HandInv ==
  faults = 0 => \A j \in Job : job[j].pc = "deliver" /\ job[j].service = "no" => Handed(job[j], inbox)

OneEach ==
  Awaits => \A i, j \in Job :
    /\ job[i] # Idle /\ job[i].service = "no"
    /\ job[j] # Idle /\ job[j].service = "no"
    /\ job[i].by = job[j].by
    => i = j

InOrder(s) == \A i \in DOMAIN s : (s[i] = "new" => i = 1) /\ (s[i] = "deleted" => i = Len(s))

OrderInv ==
  Awaits => \A m \in Msg : Plain(msg[m]) => \A c \in Member :
    /\ InOrder(inbox[c][m])
    /\ \A j \in Job : Delivers(job[j], m) /\ job[j].ref # "edit" =>
         inbox[c][m] \in {<<>>, <<"new">>} /\ (c \in job[j].left => inbox[c][m] = <<>>)
    /\ Has(inbox[c][m], "deleted") => msg[m].st = "deleted" /\ \A j \in Job : ~ About(job[j], m)

IInv == StateInv /\ RowInv /\ JobInv /\ BindInv /\ HandInv /\ OneEach /\ OrderInv

-----------------------------------------------------------------------------
(* Facts about requests, rows and sequences of events. *)
LEMMA Working ==
  ASSUME NEW r \in JobType
  PROVE  /\ r.pc # "idle" <=> r # Idle
         /\ r # Idle <=> r \in JobRow
         /\ Refers(r) => r # Idle
  BY DEF JobType, JobRow, Idle, Refers

LEMMA IdleFacts ==
  /\ Idle \in JobType /\ Idle.pc = "idle" /\ ~ Refers(Idle)
  /\ \A M : WellFormed(Idle, M)
  /\ \A m : ~ About(Idle, m) /\ ~ Delivers(Idle, m)
  BY DEF JobType, Idle, Refers, WellFormed, About, Delivers

LEMMA RowFacts ==
  /\ NoMsg \notin Row /\ NoMsg.st = "none"
  /\ \A r \in Row \cup {NoMsg} : r.st # "none" <=> r \in Row
  BY DEF NoMsg, Row

LEMMA Appended ==
  ASSUME NEW s \in Seq(Event), NEW e \in Event
  PROVE  /\ Append(s, e) \in Seq(Event)
         /\ \A x : Has(Append(s, e), x) <=> Has(s, x) \/ x = e
<1>1. /\ Append(s, e) \in Seq(Event) /\ Len(Append(s, e)) = Len(s) + 1
      /\ \A i \in 1 .. Len(s) : Append(s, e)[i] = s[i]
      /\ Append(s, e)[Len(s) + 1] = e
  BY AppendProperties
<1>2. /\ Len(s) \in Nat
      /\ DOMAIN s = 1 .. Len(s) /\ DOMAIN Append(s, e) = 1 .. Len(s) + 1
  BY <1>1, LenProperties
<1> QED
  BY <1>1, <1>2 DEF Has

LEMMA ReceivedTyped ==
  ASSUME inbox \in [Member -> [Msg -> Seq(Event)]], NEW c \in Member, NEW m \in Msg, NEW e \in Event,
         inbox' = [inbox EXCEPT ![c][m] = Append(@, e)]
  PROVE  inbox' \in [Member -> [Msg -> Seq(Event)]]
<1> HIDE DEF Event
<1>1. Append(inbox[c][m], e) \in Seq(Event)
  BY Appended
<1> QED
  BY <1>1

(* FindOne returns one of the rows it is given, or none. *)
LEMMA FindOneFinds ==
  ASSUME NEW S \in SUBSET Msg, FindOne(S) # 0
  PROVE  FindOne(S) \in S
<1>0. IsFiniteSet(Msg)
  BY DeliveryAssumption, FS_Interval DEF Msg
<1>1. IsFiniteSet(S)
  BY <1>0, FS_Subset
<1>2. PICK m : S = {m}
  BY <1>1, FS_Singleton DEF FindOne
<1> QED
  BY <1>2 DEF FindOne

(* The next to be told is one of those left. *)
LEMMA FirstIsLeft ==
  ASSUME NEW j \in Job, job[j].left \subseteq Member, job[j].left # {}
  PROVE  First(j) \in job[j].left
<1> DEFINE left == job[j].left
<1>1. CASE left \cap Gateway # {}
  BY <1>1 DEF First
<1>2. CASE left \cap Gateway = {} /\ Flow \notin left /\ job[j].by \notin left
  <2>1. \E c \in left : c \in Agent
    BY <1>2 DEF Member
  <2> QED
    BY <1>2, <2>1 DEF First
<1>3. CASE left \cap Gateway = {} /\ (Flow \in left \/ job[j].by \in left)
  BY <1>3 DEF First
<1> QED
  BY <1>1, <1>2, <1>3

(* While the author awaits his answer, one request is about a plain message. *)
LEMMA OneAbout ==
  ASSUME JobInv, OneEach, Awaits, NEW m \in Msg, Plain(msg[m]),
         NEW i \in Job, NEW j \in Job, About(job[i], m), About(job[j], m)
  PROVE  i = j
<1>1. \A k \in {i, j} : job[k] # Idle /\ job[k].service = "no" /\ job[k].by = msg[m].from
  BY Working DEF JobInv, WellFormed, About, Refers, Plain
<1> QED
  BY <1>1 DEF OneEach

-----------------------------------------------------------------------------
(* What the invariant says of the four properties of the runs. *)
LEMMA InvTyped == IInv => TypeOK
<1> SUFFICES ASSUME IInv PROVE TypeOK
  OBVIOUS
<1>1. ASSUME NEW j \in Job, job[j] # Idle
      PROVE  /\ job[j].left \subseteq job[j].snap
             /\ At(j, "store") /\ job[j].ref = "edit" => job[j].mid # 0
  BY <1>1 DEF IInv, JobInv, WellFormed, Refers, Msg, At
<1> QED
  BY <1>1 DEF IInv, StateInv, JobInv, JobType, TypeOK

LEMMA InvOrdered == IInv => EventsInOrder
<1> SUFFICES ASSUME IInv, Awaits, NEW c \in Member, NEW m \in Msg, Plain(msg[m])
             PROVE  InOrder(inbox[c][m])
  BY DEF EventsInOrder, InOrder, Plain
<1> QED
  BY DEF IInv, OrderInv

LEMMA InvBound == IInv => BareBindingsKept
<1> SUFFICES ASSUME IInv, NEW m \in Msg, Stored(m), msg[m].bare, ~ msg[m].service,
                    \A j \in Job : ~ Delivers(job[j], m)
             PROVE  acked[m] \subseteq msg[m].ext
  BY DEF BareBindingsKept, Delivers, At
<1>1. Bare(msg[m])
  BY RowFacts DEF Bare, Stored
<1> QED
  BY <1>1 DEF IInv, BindInv, StateInv

LEMMA InvHanded == IInv => HandedToAll
<1> SUFFICES ASSUME IInv, faults = 0, NEW j \in Job, At(j, "deliver"), job[j].left = {},
                    job[j].service = "no", NEW c \in job[j].snap \ {job[j].by}
             PROVE  Has(inbox[c][job[j].mid], EventOf(j))
  BY DEF HandedToAll, Has
<1> QED
  BY DEF IInv, HandInv, Handed, At, EventOf, Sent

LEMMA InitInv == Init => IInv
<1> SUFFICES ASSUME Init PROVE IInv
  OBVIOUS
<1>0. /\ 1 \in Msg /\ <<>> \in Seq(Event) /\ <<"new">> \in Seq(Event)
      /\ ~ Has(<<>>, "deleted") /\ ~ Has(<<"new">>, "deleted")
      /\ InOrder(<<>>) /\ InOrder(<<"new">>)
  BY DeliveryAssumption DEF Msg, Event, Has, InOrder
<1>1. PICK r \in Row : r.st = "stored" /\ msg = [m \in Msg |-> IF m = 1 THEN r ELSE NoMsg]
  BY DEF Init
<1>2. \A j \in Job : job[j] = Idle
  BY DEF Init
<1>3. \A c \in Member, m \in Msg :
        inbox[c][m] = IF m = 1 /\ member[c] = "open" THEN <<"new">> ELSE <<>>
  BY DEF Init
<1>4. inbox \in [Member -> [Msg -> Seq(Event)]]
  BY <1>0 DEF Init
<1>5. member \in [Member -> {"none", "open", "closed"}]
  BY DEF Init
<1>6. StateInv
  BY <1>0, <1>1, <1>4, <1>5, DeliveryAssumption DEF Init, StateInv
<1>7. RowInv
  BY <1>0, <1>1, <1>3, RowFacts DEF Init, RowInv, Msg
<1>8. JobInv
  BY <1>2, IdleFacts DEF Init, JobInv
<1>9. BindInv
  BY <1>2, IdleFacts DEF Init, BindInv
<1>10. HandInv /\ OneEach
  BY <1>2, IdleFacts DEF HandInv, OneEach
<1>11. OrderInv
  BY <1>0, <1>2, <1>3, IdleFacts DEF OrderInv
<1> QED
  BY <1>6, <1>7, <1>8, <1>9, <1>10, <1>11 DEF IInv

-----------------------------------------------------------------------------
(* Rows are not taken back, nor their author, nor what they are. *)
RowsKept ==
  \A m \in Msg : msg[m] # NoMsg =>
    /\ msg'[m] # NoMsg /\ msg'[m].from = msg[m].from /\ msg'[m].service = msg[m].service
    /\ msg[m].st = "deleted" => msg'[m].st = "deleted"

LEMMA JobMoves ==
  ASSUME JobInv, RowsKept, NEW j \in Job, NEW r \in JobType, job' = [job EXCEPT ![j] = r],
         WellFormed(r, msg')
  PROVE  JobInv'
<1>1. \A i \in Job : job'[i] = IF i = j THEN r ELSE job[i]
  BY DEF JobInv
<1>2. ASSUME NEW q \in JobType, WellFormed(q, msg)
      PROVE  WellFormed(q, msg')
  BY <1>2, Working DEF WellFormed, RowsKept, Refers
<1> QED
  BY <1>1, <1>2 DEF JobInv

(* A request that goes on is its client's as before. *)
LEMMA SameClient ==
  ASSUME OneEach, job \in [Job -> JobType], NEW j \in Job, NEW r, job' = [job EXCEPT ![j] = r],
         r # Idle => job[j] # Idle /\ r.by = job[j].by /\ r.service = job[j].service
  PROVE  OneEach'
<1>1. \A i \in Job : job'[i] = IF i = j THEN r ELSE job[i]
  OBVIOUS
<1> QED
  BY <1>1 DEF OneEach

(* A new one is the only one of its client, if he awaits answers. *)
LEMMA NewClient ==
  ASSUME OneEach, job \in [Job -> JobType], NEW j \in Job, NEW r, job' = [job EXCEPT ![j] = r],
         r.service = "no" => MayStart(j, r.by)
  PROVE  OneEach'
<1>1. \A i \in Job : job'[i] = IF i = j THEN r ELSE job[i]
  OBVIOUS
<1>2. Awaits /\ r.service = "no" => \A i \in Job : job[i] # Idle => job[i].service # "no" \/ job[i].by # r.by
  BY DEF MayStart
<1> QED
  BY <1>1, <1>2 DEF OneEach

KeptInv == RowInv /\ JobInv /\ BindInv /\ HandInv /\ OrderInv

(* A step of one request that hands out nothing and changes no row. *)
LEMMA Quiet ==
  ASSUME IInv, NEW j \in Job, NEW r \in JobType, job' = [job EXCEPT ![j] = r], WellFormed(r, msg),
         msg' = msg, lastId' = lastId, inbox' = inbox, acked' = acked, faults' = 0 => faults = 0,
         job[j].pc # "deliver", r.pc # "deliver",
         \A m \in Msg : About(r, m) => About(job[j], m) \/ Stored(m)
  PROVE  KeptInv'
<1> USE DEF IInv
<1>1. \A i \in Job : job'[i] = IF i = j THEN r ELSE job[i]
  BY DEF JobInv
<1>2. RowInv'
  BY DEF RowInv
<1>3. JobInv'
  BY JobMoves DEF RowsKept
<1>4. \A i \in Job, m \in Msg : /\ Delivers(job'[i], m) <=> Delivers(job[i], m)
                                /\ Delivers(job[i], m) => job'[i] = job[i]
  BY <1>1 DEF Delivers
<1>5. BindInv'
  BY <1>4 DEF BindInv, Stored
<1>6. HandInv'
  BY <1>1 DEF HandInv, Handed
<1>7. \A m \in Msg : msg[m].st = "deleted" /\ (\A i \in Job : ~ About(job[i], m))
                       => \A i \in Job : ~ About(job'[i], m)
  BY <1>1 DEF Stored
<1>8. OrderInv'
  BY <1>4, <1>7 DEF OrderInv
<1> QED
  BY <1>2, <1>3, <1>5, <1>6, <1>8 DEF KeptInv

(* A request begins, with the session of that moment. *)
LEMMA StartKeeps ==
  ASSUME IInv, NEW j \in Job, At(j, "idle"), NEW pc \in {"lookup", "upload", "store", "delete"},
         NEW by \in Member, NEW ask \in Request, NEW mid \in 0 .. MaxMsg,
         NEW service \in {"no", "full", "marker"}, Started(j, pc, by, ask, mid, service),
         msg' = msg, lastId' = lastId, inbox' = inbox, acked' = acked, faults' = faults,
         pc = "delete" => Stored(mid) /\ msg[mid].from = by,
         pc \in {"upload", "store"} => ask.ref = "new",
         service # "no" => pc = "store" /\ ask.ref = "new",
         service = "no" => MayStart(j, by)
  PROVE  KeptInv' /\ OneEach'
<1> DEFINE r == [pc |-> pc, by |-> by, ref |-> ask.ref, kind |-> ask.kind, find |-> ask.find,
                 mid |-> mid, snap |-> GetSession, left |-> {}, ext |-> ask.ext,
                 rebind |-> FALSE, service |-> service]
<1>1. job' = [job EXCEPT ![j] = r]
  BY DEF Started
<1>2. /\ ask.ref \in {"new", "edit", "forward", "reply"} /\ ask.kind \in {"text", "file"}
      /\ ask.find \in Msg \cup Ext \cup {None} /\ ask.ext \in SUBSET Ext
  BY DEF Request
<1>3. GetSession \in SUBSET Member
  BY DEF GetSession
<1>4. r \in JobRow
  BY <1>2, <1>3 DEF JobRow
<1>5. /\ r.pc = pc /\ r.by = by /\ r.ref = ask.ref /\ r.mid = mid /\ r.left = {}
      /\ ~ r.rebind /\ r.service = service
  OBVIOUS
<1> HIDE DEF r
<1>6. mid # 0 => mid \in Msg
  BY DEF Msg
<1>7. Stored(mid) => mid \in Msg /\ msg[mid] # NoMsg
  BY RowFacts DEF Stored
<1>8. WellFormed(r, msg)
  BY <1>4, <1>5, <1>7, Working DEF WellFormed, Refers
<1>9. \A m \in Msg : About(r, m) => Stored(m)
  BY <1>5 DEF About, Refers
<1>10. job[j].pc # "deliver" /\ r.pc # "deliver" /\ r \in JobType
  BY <1>4, <1>5 DEF At, JobType
<1>11. KeptInv'
  BY <1>1, <1>8, <1>9, <1>10, Quiet
<1>12. OneEach'
  BY <1>1, <1>5, NewClient DEF IInv, JobInv
<1> QED
  BY <1>11, <1>12

LEMMA StartsKeep ==
  ASSUME IInv, NEW j \in Job, NEW c \in Member,
         \/ \E ask \in Request : SendMessage(j, c, ask)
         \/ \E find \in Msg \cup Ext : DeleteMessage(j, c, find)
         \/ \E bot \in BOOLEAN, service \in {"full", "marker"} : SendServiceMessage(j, bot, service)
  PROVE  KeptInv' /\ OneEach'
<1>0. PlainText \in Request /\ PlainText.ref = "new"
  BY DEF PlainText, Request
<1>1. ASSUME NEW ask \in Request, SendMessage(j, c, ask)
      PROVE  KeptInv' /\ OneEach'
  <2>1. PICK pc \in {"lookup", "upload", "store"} :
          /\ Started(j, pc, c, ask, 0, "no") /\ (pc # "lookup" => ask.ref = "new")
    BY <1>1 DEF SendMessage, Payload
  <2>2. 0 \in 0 .. MaxMsg
    BY DeliveryAssumption
  <2>3. At(j, "idle") /\ MayStart(j, c)
    BY <1>1 DEF SendMessage, MayStart
  <2> QED
    BY <1>1, <2>1, <2>2, <2>3, StartKeeps DEF SendMessage
<1>2. ASSUME NEW find \in Msg \cup Ext, DeleteMessage(j, c, find)
      PROVE  KeptInv' /\ OneEach'
  <2> DEFINE S == GetMessage(find, TRUE, c)
  <2>1. FindOne(S) # 0 /\ Started(j, "delete", c, PlainText, FindOne(S), "no")
    BY <1>2 DEF DeleteMessage
  <2>2. PICK m \in Msg : FindOne(S) = m /\ Stored(m) /\ msg[m].from = c
    BY <2>1, FindOneFinds DEF GetMessage, Author
  <2>3. m \in 0 .. MaxMsg
    BY DEF Msg
  <2>4. At(j, "idle") /\ MayStart(j, c)
    BY <1>2 DEF DeleteMessage, MayStart
  <2> QED
    BY <1>0, <1>2, <2>1, <2>2, <2>3, <2>4, StartKeeps DEF DeleteMessage
<1>3. ASSUME NEW bot \in BOOLEAN, NEW service \in {"full", "marker"}, SendServiceMessage(j, bot, service)
      PROVE  KeptInv' /\ OneEach'
  <2>1. PICK by \in ServiceSender(bot) : Started(j, "store", by, PlainText, 0, service)
    BY <1>3 DEF SendServiceMessage
  <2>2. by \in Member
    BY <2>1 DEF ServiceSender, GetSession, Member
  <2>3. 0 \in 0 .. MaxMsg
    BY DeliveryAssumption
  <2> QED
    BY <1>0, <1>3, <2>1, <2>2, <2>3, StartKeeps DEF SendServiceMessage
<1> QED
  BY <1>1, <1>2, <1>3

(* Before a message is stored: which one it is about, and its document. *)
LEMMA PreparesKeep ==
  ASSUME IInv, NEW j \in Job,
         EditLookup(j) \/ ForwardLookup(j) \/ ReplyLookup(j) \/ UploadFile(j) \/ UploadFails(j)
  PROVE  KeptInv' /\ OneEach'
<1> USE DEF IInv
<1>0. /\ job[j].pc \in {"lookup", "upload"} /\ job[j] \in JobRow /\ job[j] # Idle /\ ~ job[j].rebind
      /\ job[j].left \subseteq job[j].snap /\ job[j].service = "no"
      /\ msg' = msg /\ lastId' = lastId /\ inbox' = inbox /\ acked' = acked
      /\ faults' = 0 => faults = 0
  <2>1. job[j].pc \in {"lookup", "upload"}
    BY DEF EditLookup, ForwardLookup, ReplyLookup, UploadFile, UploadFails, At
  <2>2. faults' = faults \/ faults' = faults + 1
    BY DEF EditLookup, ForwardLookup, ReplyLookup, UploadFile, UploadFails, Fault
  <2>3. faults' = 0 => faults = 0
    BY <2>2 DEF StateInv
  <2> QED
    BY <2>1, <2>3, Working
    DEF JobInv, WellFormed, EditLookup, ForwardLookup, ReplyLookup, UploadFile, UploadFails
<1>1. ASSUME NEW r \in JobRow, job' = [job EXCEPT ![j] = r], r.pc \in {"upload", "store"},
             r.by = job[j].by, r.service = job[j].service, r.left = job[j].left,
             r.snap = job[j].snap, r.rebind = job[j].rebind,
             r.ref = "edit" => \/ r.mid = job[j].mid /\ job[j].ref = "edit" /\ job[j].pc = "upload"
                               \/ Stored(r.mid) /\ msg[r.mid].from = r.by
      PROVE  KeptInv' /\ OneEach'
  <2>1. Refers(r) => r.ref = "edit"
    BY <1>1 DEF Refers
  <2>2. Stored(r.mid) => r.mid \in Msg /\ msg[r.mid] # NoMsg
    BY RowFacts DEF Stored
  <2>3. Refers(r) => r.mid \in Msg /\ msg[r.mid] # NoMsg /\ msg[r.mid].from = r.by
    BY <1>0, <1>1, <2>1, <2>2 DEF JobInv, WellFormed, Refers
  <2>4. WellFormed(r, msg)
    BY <1>0, <1>1, <2>3 DEF WellFormed
  <2>5. \A m \in Msg : About(r, m) => About(job[j], m) \/ Stored(m)
    BY <1>1, <2>1 DEF About, Refers
  <2>6. r \in JobType
    BY DEF JobType
  <2>7. KeptInv'
    BY <1>0, <1>1, <2>4, <2>5, <2>6, Quiet
  <2>8. OneEach'
    BY <1>0, <1>1, SameClient DEF JobInv
  <2> QED
    BY <2>7, <2>8
<1>2. ASSUME job' = [job EXCEPT ![j] = Idle]
      PROVE  KeptInv' /\ OneEach'
  <2>1. KeptInv'
    BY <1>0, <1>2, IdleFacts, Quiet
  <2>2. OneEach'
    BY <1>2, SameClient DEF JobInv
  <2> QED
    BY <2>1, <2>2
<1>3. /\ Payload("text") \in {"upload", "store"} /\ Payload("file") \in {"upload", "store"}
      /\ Msg \subseteq 0 .. MaxMsg /\ 0 \in 0 .. MaxMsg
  BY DeliveryAssumption DEF Payload, Msg
<1>4. CASE EditLookup(j)
  <2> DEFINE m == FindOne(GetMessage(job[j].find, TRUE, job[j].by))
             r == [job[j] EXCEPT !.pc = Payload(job[j].kind), !.mid = m, !.find = None]
  <2>1. CASE EditFound(m)
    <3>1. m \in Msg /\ Stored(m) /\ msg[m].from = job[j].by
      BY <2>1, FindOneFinds DEF EditFound, GetMessage, Author
    <3>2. m \in 0 .. MaxMsg /\ job[j].kind \in {"text", "file"}
      BY <1>0, <1>3, <3>1 DEF JobRow
    <3>3. job' = [job EXCEPT ![j] = r]
      BY <1>4, <2>1 DEF EditLookup
    <3> HIDE DEF m
    <3>4. /\ r \in JobRow /\ r.pc \in {"upload", "store"} /\ r.mid = m
          /\ r.by = job[j].by /\ r.service = job[j].service /\ r.left = job[j].left
          /\ r.snap = job[j].snap /\ r.rebind = job[j].rebind
      BY <1>0, <1>3, <3>2 DEF JobRow
    <3> HIDE DEF r
    <3> QED
      BY <1>1, <3>1, <3>3, <3>4
  <2>2. CASE ~ EditFound(m)
    BY <1>2, <1>4, <2>2 DEF EditLookup, Return
  <2> QED
    BY <2>1, <2>2
<1>5. CASE ForwardLookup(j)
  <2> DEFINE m    == FindOne(GetMessage(job[j].find, FALSE, job[j].by))
             kind == IF m = 0 THEN job[j].kind ELSE msg[m].kind
             ref  == IF m = 0 THEN "new" ELSE "forward"
             r    == [job[j] EXCEPT !.pc = Payload(kind), !.kind = kind, !.mid = m, !.find = None,
                                    !.ref = ref]
  <2>1. m # 0 => m \in Msg /\ Stored(m)
    BY FindOneFinds DEF GetMessage
  <2>2. m \in 0 .. MaxMsg
    BY <1>3, <2>1
  <2>3. kind \in {"text", "file"} /\ ref \in {"new", "forward"}
    <3>1. m # 0 => msg[m] \in Row
      BY <2>1, RowFacts DEF Stored, StateInv
    <3> QED
      BY <1>0, <3>1 DEF Row, JobRow
  <2>4. job' = [job EXCEPT ![j] = r]
    BY <1>5 DEF ForwardLookup
  <2> HIDE DEF m, kind, ref
  <2>5. /\ r \in JobRow /\ r.pc \in {"upload", "store"} /\ r.ref # "edit"
        /\ r.by = job[j].by /\ r.service = job[j].service /\ r.left = job[j].left
        /\ r.snap = job[j].snap /\ r.rebind = job[j].rebind
    BY <1>0, <1>3, <2>2, <2>3 DEF JobRow
  <2> HIDE DEF r
  <2> QED
    BY <1>1, <2>4, <2>5
<1>6. CASE ReplyLookup(j)
  <2> DEFINE r == [job[j] EXCEPT !.pc = Payload(job[j].kind), !.find = None, !.ref = "new"]
  <2>1. job' = [job EXCEPT ![j] = r]
    BY <1>6 DEF ReplyLookup
  <2>2. job[j].kind \in {"text", "file"}
    BY <1>0 DEF JobRow
  <2>3. /\ r \in JobRow /\ r.pc \in {"upload", "store"} /\ r.ref # "edit"
        /\ r.by = job[j].by /\ r.service = job[j].service /\ r.left = job[j].left
        /\ r.snap = job[j].snap /\ r.rebind = job[j].rebind
    BY <1>0, <1>3, <2>2 DEF JobRow
  <2> HIDE DEF r
  <2> QED
    BY <1>1, <2>1, <2>3
<1>7. CASE UploadFile(j)
  <2> DEFINE r == [job[j] EXCEPT !.pc = "store"]
  <2>1. job' = [job EXCEPT ![j] = r] /\ job[j].pc = "upload"
    BY <1>7 DEF UploadFile, Goto, At
  <2>2. /\ r \in JobRow /\ r.pc = "store" /\ r.ref = job[j].ref /\ r.mid = job[j].mid
        /\ r.by = job[j].by /\ r.service = job[j].service /\ r.left = job[j].left
        /\ r.snap = job[j].snap /\ r.rebind = job[j].rebind
    BY <1>0 DEF JobRow
  <2> HIDE DEF r
  <2> QED
    BY <1>1, <2>1, <2>2
<1>8. CASE UploadFails(j)
  BY <1>2, <1>8 DEF UploadFails, Return
<1> QED
  BY <1>4, <1>5, <1>6, <1>7, <1>8

-----------------------------------------------------------------------------
(* A message is stored: no request and no inbox knows it yet. *)
LEMMA StoreNewKeeps ==
  ASSUME IInv, NEW j \in Job, StoreNew(j)
  PROVE  KeptInv' /\ OneEach'
<1> USE DEF IInv
<1> DEFINE m   == lastId + 1
           row == NewRow(j)
           to  == Recipients(j)
           r   == [job[j] EXCEPT !.pc = "deliver", !.mid = m, !.left = to]
<1>0. /\ job[j].pc = "store" /\ job[j] \in JobRow /\ job[j] # Idle /\ ~ Refers(job[j])
      /\ job[j].service \in {"no", "full", "marker"} /\ WellFormed(job[j], msg)
      /\ inbox' = inbox /\ acked' = acked /\ faults' = faults
      /\ lastId' = m /\ m \in Msg /\ msg' = [msg EXCEPT ![m] = row]
      /\ job' = [job EXCEPT ![j] = r]
  <2>1. job[j].pc = "store" /\ job[j].ref # "edit"
    BY DEF StoreNew, At
  <2>2. job[j] \in JobRow /\ job[j] # Idle /\ WellFormed(job[j], msg)
    BY <2>1, Working DEF JobInv
  <2>3. job[j].service \in {"no", "full", "marker"} /\ ~ Refers(job[j])
    BY <2>1, <2>2 DEF JobRow, Refers
  <2>4. job' = [job EXCEPT ![j] = r] /\ msg' = [msg EXCEPT ![m] = row]
    BY DEF StoreNew, Delivering
  <2>5. /\ inbox' = inbox /\ acked' = acked /\ faults' = faults
        /\ lastId' = m /\ m \in Msg
    BY DEF StoreNew
  <2> QED
    BY <2>1, <2>2, <2>3, <2>4, <2>5
<1>1. /\ row # NoMsg /\ row.from = job[j].by /\ row.ext = job[j].ext
      /\ row.bare <=> job[j].ext = {}
      /\ row.service <=> job[j].service # "no"
  BY DEF NewRow, NoMsg
<1>2. to \subseteq job[j].snap /\ (job[j].service = "no" => job[j].snap \ {job[j].by} \subseteq to)
  BY <1>0 DEF Recipients, Audience
<1>3. job[j].snap \in SUBSET Member /\ m \in 0 .. MaxMsg /\ to \in SUBSET Member
  BY <1>0, <1>2 DEF Msg, JobRow
<1> HIDE DEF row, to
<1>4. /\ r \in JobRow /\ r.pc = "deliver" /\ r.mid = m /\ r.left = to /\ r.snap = job[j].snap
      /\ r.by = job[j].by /\ r.ref = job[j].ref /\ r.ext = job[j].ext /\ r.service = job[j].service
  BY <1>0, <1>3 DEF JobRow
<1> HIDE DEF r
<1>5. msg[m] = NoMsg /\ acked[m] = {} /\ \A c \in Member : inbox[c][m] = <<>>
  BY <1>0 DEF RowInv, Msg, StateInv
<1>6. \A n \in Msg : msg'[n] = IF n = m THEN row ELSE msg[n]
  BY <1>0 DEF StateInv
<1> HIDE DEF m
<1>7. \A i \in Job : job'[i] = IF i = j THEN r ELSE job[i]
  BY <1>0 DEF JobInv
<1>8. RowInv'
  <2>1. \A n \in Msg : n <= lastId' <=> n <= lastId \/ n = m
    BY <1>0 DEF m, Msg, StateInv
  <2> QED
    BY <1>0, <1>1, <1>6, <2>1 DEF RowInv
<1>9. JobInv'
  <2>1. RowsKept
    BY <1>5, <1>6 DEF RowsKept
  <2>2. WellFormed(r, msg')
    BY <1>0, <1>1, <1>2, <1>4, <1>6 DEF WellFormed, Refers
  <2> QED
    BY <1>0, <1>4, <2>1, <2>2, JobMoves DEF JobType
<1>10. \A i \in Job : ~ Delivers(job[i], m) /\ ~ About(job[i], m)
  BY <1>5 DEF JobInv, WellFormed, Delivers, About, Refers
<1>11. \A n \in Msg \ {m} : /\ ~ Delivers(job[j], n) /\ ~ Delivers(r, n)
                            /\ ~ About(job[j], n) /\ ~ About(r, n)
  BY <1>0, <1>4 DEF Delivers, About
<1>12. BindInv'
  <2>1. CASE Bare(row)
    <3>1. job[j].ext = {}
      BY <1>1, <2>1 DEF Bare
    <3>2. ASSUME NEW n \in Msg, Bare(msg'[n]), n # m
          PROVE  /\ \A i \in Job : Delivers(job'[i], n) /\ job'[i].ext # {} => job'[i].rebind
                 /\ Stored(n)' => \A x \in acked[n] :
                      x \in msg'[n].ext \/ \E i \in Job : Delivers(job'[i], n) /\ x \in job'[i].ext
      BY <1>6, <1>7, <1>11, <3>2 DEF BindInv, Stored
    <3>3. \A i \in Job : Delivers(job'[i], m) => job'[i].ext = {}
      BY <1>4, <1>7, <1>10, <3>1
    <3> QED
      BY <1>0, <1>5, <3>2, <3>3 DEF BindInv
  <2>2. CASE ~ Bare(row)
    BY <1>0, <1>6, <1>7, <1>11, <2>2 DEF BindInv, Stored
  <2> QED
    BY <2>1, <2>2
<1>13. HandInv'
  BY <1>0, <1>2, <1>4, <1>7 DEF HandInv, Handed
<1>14. OneEach'
  BY <1>0, <1>4, SameClient DEF JobInv
<1>15. OrderInv'
  <2>1. InOrder(<<>>) /\ ~ Has(<<>>, "deleted")
    BY DEF InOrder, Has
  <2>2. ASSUME NEW n \in Msg \ {m}, NEW c \in Member, Awaits, Plain(msg'[n])
        PROVE  /\ InOrder(inbox[c][n])
               /\ \A i \in Job : Delivers(job'[i], n) /\ job'[i].ref # "edit" =>
                    inbox[c][n] \in {<<>>, <<"new">>} /\ (c \in job'[i].left => inbox[c][n] = <<>>)
               /\ Has(inbox[c][n], "deleted") => msg'[n].st = "deleted" /\ \A i \in Job : ~ About(job'[i], n)
    BY <1>6, <1>7, <1>11, <2>2 DEF OrderInv
  <2> QED
    BY <1>0, <1>5, <2>1, <2>2 DEF OrderInv
<1> QED
  BY <1>8, <1>9, <1>12, <1>13, <1>14, <1>15 DEF KeptInv

(* An edit is stored: the row keeps all but bare. *)
LEMMA StoreEditKeeps ==
  ASSUME IInv, NEW j \in Job, StoreEdit(j)
  PROVE  KeptInv' /\ OneEach'
<1> USE DEF IInv
<1> DEFINE m  == job[j].mid
           to == Recipients(j)
           r  == [job[j] EXCEPT !.pc = "deliver", !.mid = m, !.left = to]
<1>0. /\ job[j].pc = "store" /\ job[j].ref = "edit" /\ job[j] \in JobRow /\ job[j] # Idle
      /\ Refers(job[j]) /\ job[j].service = "no" /\ m \in 0 .. MaxMsg
      /\ m \in Msg /\ msg[m] \in Row /\ msg[m].from = job[j].by
      /\ inbox' = inbox /\ acked' = acked /\ faults' = faults /\ lastId' = lastId
  BY Working DEF StoreEdit, At, JobInv, JobRow, Refers, WellFormed, StateInv
<1>1. CASE Return(j) /\ msg' = msg
  <2>1. KeptInv'
    BY <1>0, <1>1, IdleFacts, Quiet DEF Return
  <2>2. OneEach'
    BY <1>1, SameClient DEF Return, JobInv
  <2> QED
    BY <2>1, <2>2
<1>2. ASSUME msg' = [msg EXCEPT ![m].bare = @ /\ job[j].ext = {}], Delivering(j, m)
      PROVE  KeptInv' /\ OneEach'
  <2>1. job' = [job EXCEPT ![j] = r]
    BY <1>2 DEF Delivering
  <2>2. to \subseteq job[j].snap /\ job[j].snap \ {job[j].by} \subseteq to
    BY <1>0 DEF Recipients, Audience
  <2>3. to \in SUBSET Member
    BY <1>0, <2>2 DEF JobRow
  <2> HIDE DEF to
  <2>4. /\ r \in JobRow /\ r.pc = "deliver" /\ r.mid = m /\ r.left = to /\ r.snap = job[j].snap
        /\ r.by = job[j].by /\ r.ref = "edit" /\ r.ext = job[j].ext /\ r.service = "no"
    BY <1>0, <2>3 DEF JobRow
  <2> HIDE DEF r
  <2>5. \A n \in Msg : /\ msg'[n].st = msg[n].st /\ msg'[n].from = msg[n].from /\ msg'[n].ext = msg[n].ext
                       /\ msg'[n].service = msg[n].service /\ (msg'[n] = NoMsg <=> msg[n] = NoMsg)
                       /\ Bare(msg'[n]) => Bare(msg[n]) /\ (n = m => job[j].ext = {})
    <3>1. \A n \in Msg \ {m} : msg'[n] = msg[n]
      BY <1>0, <1>2 DEF StateInv
    <3> DEFINE row == [msg[m] EXCEPT !.bare = @ /\ job[j].ext = {}]
    <3>2. msg'[m] = row
      BY <1>0, <1>2 DEF StateInv
    <3>3. /\ row.st = msg[m].st /\ row.from = msg[m].from /\ row.ext = msg[m].ext
          /\ row.service = msg[m].service /\ row.bare = (msg[m].bare /\ job[j].ext = {})
          /\ row \in Row
      BY <1>0 DEF Row
    <3> HIDE DEF row, m
    <3> QED
      BY <1>0, <3>1, <3>2, <3>3, RowFacts DEF Bare
  <2>6. \A i \in Job : job'[i] = IF i = j THEN r ELSE job[i]
    BY <2>1 DEF JobInv
  <2> HIDE DEF m
  <2>7. RowInv'
    BY <1>0, <2>5 DEF RowInv
  <2>8. JobInv'
    <3>1. RowsKept
      BY <2>5 DEF RowsKept
    <3>2. WellFormed(r, msg')
      BY <1>0, <2>2, <2>4, <2>5, RowFacts DEF WellFormed, Refers
    <3> QED
      BY <2>1, <2>4, <3>1, <3>2, JobMoves DEF JobType
  <2>9. \A n \in Msg : /\ ~ Delivers(job[j], n)
                       /\ Delivers(r, n) => n = m
                       /\ About(r, n) <=> About(job[j], n)
    BY <1>0, <2>4 DEF Delivers, About, Refers, m
  <2>10. BindInv'
    <3> SUFFICES ASSUME NEW n \in Msg, Bare(msg'[n])
                 PROVE  /\ \A i \in Job : Delivers(job'[i], n) /\ job'[i].ext # {} => job'[i].rebind
                        /\ Stored(n)' => \A x \in acked[n] :
                             x \in msg'[n].ext \/ \E i \in Job : Delivers(job'[i], n) /\ x \in job'[i].ext
      BY <1>0 DEF BindInv
    <3>1. Bare(msg[n]) /\ (n = m => r.ext = {}) /\ (Stored(n)' => Stored(n)) /\ msg'[n].ext = msg[n].ext
      BY <2>4, <2>5 DEF Stored
    <3> QED
      BY <2>6, <2>9, <3>1 DEF BindInv
  <2>11. HandInv'
    BY <1>0, <2>2, <2>4, <2>6 DEF HandInv, Handed
  <2>12. OneEach'
    BY <1>0, <2>1, <2>4, SameClient DEF JobInv
  <2>13. OrderInv'
    BY <1>0, <2>4, <2>5, <2>6, <2>9 DEF OrderInv, Plain
  <2> QED
    BY <2>7, <2>8, <2>10, <2>11, <2>12, <2>13 DEF KeptInv
<1> QED
  BY <1>1, <1>2 DEF StoreEdit

-----------------------------------------------------------------------------
(* One more member is told, and a gateway may answer with external ids B. *)
LEMMA DeliverKeeps ==
  ASSUME IInv, NEW j \in Job, At(j, "deliver"), job[j].left # {}, NEW B \in SUBSET Ext,
         Received(First(j), j), NEW r \in JobRow, job' = [job EXCEPT ![j] = r],
         r.pc = "deliver", r.mid = job[j].mid, r.by = job[j].by, r.ref = job[j].ref,
         r.snap = job[j].snap, r.service = job[j].service, r.left = Rest(j),
         r.ext = job[j].ext \cup B, r.rebind = Rebind(j, B),
         acked' = [acked EXCEPT ![job[j].mid] = @ \cup B],
         msg' = msg, lastId' = lastId, faults' = faults
  PROVE  KeptInv' /\ OneEach'
<1> USE DEF IInv
<1> DEFINE m == job[j].mid
           c == First(j)
           e == Sent(job[j])
<1>0. /\ job[j] \in JobRow /\ job[j] # Idle /\ WellFormed(job[j], msg) /\ Refers(job[j])
      /\ m \in Msg /\ msg[m] # NoMsg /\ job[j].snap \subseteq Member /\ job[j].left \subseteq Member
      /\ EventOf(j) = e /\ e \in {"new", "edit"} /\ e \in Event
  BY Working DEF At, JobInv, JobRow, Refers, WellFormed, EventOf, Sent, Event
<1>1. c \in job[j].left /\ c \in Member
  BY <1>0, FirstIsLeft
<1> HIDE DEF m, c, e
<1>2. /\ inbox' \in [Member -> [Msg -> Seq(Event)]]
      /\ \A d \in Member, n \in Msg :
           inbox'[d][n] = IF d = c /\ n = m THEN Append(inbox[d][n], e) ELSE inbox[d][n]
  <2>1. inbox' = [inbox EXCEPT ![c][m] = Append(@, e)]
    BY <1>0 DEF Received, m, c
  <2> HIDE DEF Event
  <2>2. Append(inbox[c][m], e) \in Seq(Event)
    BY <1>0, <1>1, Appended DEF StateInv
  <2> QED
    BY <1>0, <1>1, <2>1, <2>2 DEF StateInv
<1>3. ASSUME NEW d \in Member, NEW n \in Msg, NEW x
      PROVE  Has(inbox'[d][n], x) <=> Has(inbox[d][n], x) \/ (d = c /\ n = m /\ x = e)
  BY <1>0, <1>2, Appended DEF StateInv
<1>4. \A i \in Job : job'[i] = IF i = j THEN r ELSE job[i]
  BY DEF JobInv
<1>5. /\ \A n \in Msg : Delivers(r, n) <=> n = m
      /\ \A n \in Msg : Delivers(job[j], n) <=> n = m
      /\ \A n \in Msg : About(r, n) <=> n = m
      /\ \A n \in Msg : About(job[j], n) <=> n = m
  BY DEF Delivers, About, Refers, m, At
<1>6. /\ r.left \subseteq job[j].left /\ c \notin r.left
      /\ \A d \in job[j].left : d = c \/ d \in r.left
  BY DEF Rest, c
<1>7. \A n \in Msg : acked'[n] = IF n = m THEN acked[n] \cup B ELSE acked[n]
  BY DEF StateInv, m
<1>8. RowInv'
  <2> SUFFICES ASSUME NEW n \in Msg
               PROVE  /\ n <= lastId' <=> msg'[n] # NoMsg
                      /\ msg'[n] = NoMsg => acked'[n] = {} /\ \A d \in Member : inbox'[d][n] = <<>>
    BY DEF RowInv
  <2>1. CASE n = m
    BY <1>0, <2>1 DEF RowInv
  <2>2. ASSUME n # m
        PROVE  acked'[n] = acked[n] /\ \A d \in Member : inbox'[d][n] = inbox[d][n]
    BY <1>2, <1>7, <2>2
  <2> QED
    BY <2>1, <2>2 DEF RowInv
<1>9. JobInv'
  <2>1. WellFormed(r, msg')
    BY <1>0, <1>6 DEF WellFormed, Refers, At
  <2> QED
    BY <2>1, JobMoves DEF JobType, RowsKept
<1>10. BindInv'
  <2> SUFFICES ASSUME NEW n \in Msg, Bare(msg[n])
               PROVE  /\ \A i \in Job : Delivers(job'[i], n) /\ job'[i].ext # {} => job'[i].rebind
                      /\ Stored(n) => \A x \in acked'[n] :
                           x \in msg[n].ext \/ \E i \in Job : Delivers(job'[i], n) /\ x \in job'[i].ext
    BY DEF BindInv, Stored
  <2>1. n = m /\ r.ext # {} => r.rebind
    <3>1. SUFFICES ASSUME n = m, r.ext # {} PROVE r.rebind
      OBVIOUS
    <3>2. job[j].service = "no"
      BY <1>0, <3>1 DEF WellFormed, Bare, m, At
    <3>3. job[j].ext # {} => job[j].rebind
      BY <1>5, <3>1 DEF BindInv
    <3> QED
      BY <3>1, <3>2, <3>3 DEF Rebind
  <2>2. ASSUME Stored(n), NEW x \in acked'[n]
        PROVE  x \in msg[n].ext \/ \E i \in Job : Delivers(job'[i], n) /\ x \in job'[i].ext
    <3>1. CASE x \in acked[n]
      <4>1. CASE x \in msg[n].ext
        BY <4>1
      <4>2. ASSUME NEW i \in Job, Delivers(job[i], n), x \in job[i].ext
            PROVE  Delivers(job'[i], n) /\ x \in job'[i].ext
        BY <1>4, <1>5, <4>2
      <4> QED
        BY <2>2, <3>1, <4>1, <4>2 DEF BindInv
    <3>2. CASE n = m /\ x \in B
      BY <1>4, <1>5, <3>2
    <3> QED
      BY <1>7, <2>2, <3>1, <3>2
  <2> QED
    BY <1>4, <1>5, <2>1, <2>2 DEF BindInv
<1>11. HandInv'
  <2> SUFFICES ASSUME faults = 0, NEW i \in Job, job'[i].pc = "deliver", job'[i].service = "no",
                      NEW d \in job'[i].snap \ {job'[i].by}
               PROVE  d \in job'[i].left \/ Has(inbox'[d][job'[i].mid], Sent(job'[i]))
    BY DEF HandInv, Handed
  <2>1. /\ job[i].pc = "deliver" /\ job[i].service = "no" /\ d \in job[i].snap \ {job[i].by}
        /\ job'[i].mid = job[i].mid /\ Sent(job'[i]) = Sent(job[i])
    BY <1>4 DEF At, Sent
  <2>2. job[i].mid \in Msg /\ d \in Member
    BY <2>1, Working DEF JobInv, WellFormed, Refers, JobRow
  <2>3. d \in job[i].left \/ Has(inbox[d][job[i].mid], Sent(job[i]))
    BY <2>1 DEF HandInv, Handed
  <2>4. d \in job[i].left => d \in job'[i].left \/ (i = j /\ d = c)
    BY <1>4, <1>6
  <2> QED
    BY <1>3, <2>1, <2>2, <2>3, <2>4 DEF e, m
<1>12. OneEach'
  BY <1>0, SameClient DEF JobInv
<1>13. OrderInv'
  <2> SUFFICES ASSUME Awaits, NEW n \in Msg, Plain(msg[n]), NEW d \in Member
               PROVE  /\ InOrder(inbox'[d][n])
                      /\ \A i \in Job : Delivers(job'[i], n) /\ job'[i].ref # "edit" =>
                           /\ inbox'[d][n] \in {<<>>, <<"new">>}
                           /\ d \in job'[i].left => inbox'[d][n] = <<>>
                      /\ Has(inbox'[d][n], "deleted") =>
                           msg[n].st = "deleted" /\ \A i \in Job : ~ About(job'[i], n)
    BY DEF OrderInv
  <2>1. \A i \in Job : About(job'[i], n) <=> About(job[i], n)
    BY <1>4, <1>5
  <2>2. Has(inbox'[d][n], "deleted") => Has(inbox[d][n], "deleted")
    BY <1>0, <1>3
  <2>3. CASE n # m \/ d # c
    <3>1. inbox'[d][n] = inbox[d][n]
      BY <1>2, <2>3
    <3>2. \A i \in Job : /\ Delivers(job'[i], n) <=> Delivers(job[i], n)
                         /\ job'[i].ref = job[i].ref /\ job'[i].left \subseteq job[i].left
      BY <1>4, <1>5, <1>6
    <3> QED
      BY <2>1, <3>1, <3>2 DEF OrderInv
  <2>4. CASE n = m /\ d = c
    <3> DEFINE s == inbox[c][m]
    <3>1. inbox'[d][n] = Append(s, e) /\ s \in Seq(Event)
      BY <1>0, <1>1, <1>2, <2>4 DEF StateInv
    <3>2. \A i \in Job : Delivers(job'[i], n) => i = j
      <4>1. \A i \in Job : Delivers(job'[i], n) => About(job[i], m)
        BY <1>4, <1>5, <2>4 DEF Delivers, About, Refers
      <4> QED
        BY <1>0, <1>5, <2>4, <4>1, OneAbout
    <3>3. ~ Has(s, "deleted") /\ InOrder(s)
      BY <1>0, <1>1, <1>5, <2>4 DEF OrderInv
    <3>4. e = "new" => s = <<>> /\ job[j].ref # "edit"
      BY <1>0, <1>1, <1>5, <2>4 DEF OrderInv, e, Sent
    <3>5. job[j].ref # "edit" => e = "new"
      BY DEF e, Sent
    <3> HIDE DEF s
    <3>6. InOrder(Append(s, e))
      <4>1. /\ Len(s) \in Nat /\ DOMAIN s = 1 .. Len(s)
            /\ DOMAIN Append(s, e) = 1 .. Len(s) + 1 /\ Len(Append(s, e)) = Len(s) + 1
            /\ \A i \in 1 .. Len(s) : Append(s, e)[i] = s[i]
            /\ Append(s, e)[Len(s) + 1] = e
        BY <1>0, <3>1, AppendProperties, LenProperties
      <4>2. s = <<>> => Len(s) = 0
        BY EmptySeq
      <4> QED
        BY <1>0, <3>3, <3>4, <4>1, <4>2 DEF InOrder, Has
    <3>7. e = "new" => Append(s, e) = <<"new">>
      BY <3>4
    <3> QED
      BY <1>3, <1>4, <1>6, <2>1, <2>2, <2>4, <3>1, <3>2, <3>3, <3>5, <3>6, <3>7 DEF s
  <2> QED
    BY <2>3, <2>4
<1> QED
  BY <1>8, <1>9, <1>10, <1>11, <1>12, <1>13 DEF KeptInv

LEMMA DeliversKeep ==
  ASSUME IInv, NEW j \in Job,
         \/ DeliverInternal(j)
         \/ \E B \in {{}} \cup {{x} : x \in Ext} : DeliverGateway(j, B)
  PROVE  KeptInv' /\ OneEach'
<1>0. At(j, "deliver") => job[j] \in JobRow
  BY Working DEF IInv, JobInv, At
<1>1. CASE DeliverInternal(j)
  <2> DEFINE r == [job[j] EXCEPT !.left = Rest(j)]
  <2>1. job' = [job EXCEPT ![j] = r] /\ job[j] \in JobRow /\ job[j].pc = "deliver"
    BY <1>0, <1>1 DEF DeliverInternal, At
  <2>2. Rest(j) \in SUBSET Member
    BY <2>1 DEF Rest, JobRow
  <2>3. /\ r \in JobRow /\ r.left = Rest(j) /\ r.pc = "deliver" /\ r.mid = job[j].mid
        /\ r.by = job[j].by /\ r.ref = job[j].ref /\ r.snap = job[j].snap
        /\ r.service = job[j].service /\ r.ext = job[j].ext /\ r.rebind = job[j].rebind
        /\ job[j].rebind \in BOOLEAN
    BY <2>1, <2>2 DEF JobRow
  <2> HIDE DEF r
  <2>4. /\ r.ext = job[j].ext \cup {} /\ r.rebind = Rebind(j, {})
        /\ acked' = [acked EXCEPT ![job[j].mid] = @ \cup {}]
    BY <1>1, <2>3 DEF Rebind, DeliverInternal, IInv, StateInv
  <2>5. /\ At(j, "deliver") /\ job[j].left # {} /\ Received(First(j), j)
        /\ msg' = msg /\ lastId' = lastId /\ faults' = faults /\ {} \in SUBSET Ext
    BY <1>1 DEF DeliverInternal
  <2> QED
    BY <2>1, <2>3, <2>4, <2>5, DeliverKeeps
<1>2. ASSUME NEW B \in {{}} \cup {{x} : x \in Ext}, DeliverGateway(j, B)
      PROVE  KeptInv' /\ OneEach'
  <2> DEFINE ext == job[j].ext \cup B
             r   == [job[j] EXCEPT !.left = Rest(j), !.ext = ext, !.rebind = Rebind(j, B)]
  <2>a. job[j] \in JobRow /\ job[j].pc = "deliver"
    BY <1>0, <1>2 DEF DeliverGateway, At
  <2>b. job' = [job EXCEPT ![j] = r]
    BY <1>2 DEF DeliverGateway
  <2>1. job' = [job EXCEPT ![j] = r] /\ job[j] \in JobRow /\ job[j].pc = "deliver"
    BY <2>a, <2>b
  <2>2. Rest(j) \in SUBSET Member /\ B \in SUBSET Ext /\ ext \in SUBSET Ext
    BY <2>1 DEF Rest, JobRow
  <2>3. Rebind(j, B) \in BOOLEAN
    BY <2>1 DEF Rebind, JobRow
  <2> HIDE DEF ext
  <2>4. /\ r \in JobRow /\ r.left = Rest(j) /\ r.pc = "deliver" /\ r.mid = job[j].mid
        /\ r.by = job[j].by /\ r.ref = job[j].ref /\ r.snap = job[j].snap
        /\ r.service = job[j].service /\ r.ext = ext /\ r.rebind = Rebind(j, B)
    BY <2>1, <2>2, <2>3 DEF JobRow
  <2> HIDE DEF r
  <2>5. /\ At(j, "deliver") /\ job[j].left # {} /\ Received(First(j), j)
        /\ msg' = msg /\ lastId' = lastId /\ faults' = faults
        /\ acked' = [acked EXCEPT ![job[j].mid] = @ \cup B]
    BY <1>2 DEF DeliverGateway
  <2> QED
    BY <2>1, <2>2, <2>4, <2>5, DeliverKeeps DEF ext
<1> QED
  BY <1>1, <1>2

(* A member that is not reached: the failure ends what HandInv says. *)
LEMMA DeliverFailsKeeps ==
  ASSUME IInv, NEW j \in Job, DeliverFails(j)
  PROVE  KeptInv' /\ OneEach'
<1> USE DEF IInv
<1> DEFINE to == IF job[j].service # "no" THEN {} ELSE Rest(j)
           r  == [job[j] EXCEPT !.left = to]
<1>0. /\ job[j].pc = "deliver" /\ job[j] \in JobRow /\ job[j] # Idle /\ WellFormed(job[j], msg)
      /\ msg' = msg /\ lastId' = lastId /\ inbox' = inbox /\ acked' = acked
      /\ job' = [job EXCEPT ![j] = r]
  BY Working DEF DeliverFails, At, JobInv
<1>1. faults' # 0
  BY DEF DeliverFails, Fault, StateInv
<1>2. to \subseteq job[j].left /\ to \in SUBSET Member
  BY <1>0 DEF Rest, JobRow
<1> HIDE DEF to
<1>3. /\ r \in JobRow /\ r.pc = "deliver" /\ r.left = to /\ r.mid = job[j].mid /\ r.by = job[j].by
      /\ r.ref = job[j].ref /\ r.snap = job[j].snap /\ r.service = job[j].service
      /\ r.ext = job[j].ext /\ r.rebind = job[j].rebind
  BY <1>0, <1>2 DEF JobRow
<1> HIDE DEF r
<1>4. \A i \in Job : job'[i] = IF i = j THEN r ELSE job[i]
  BY <1>0 DEF JobInv
<1>5. \A i \in Job, n \in Msg : /\ Delivers(job'[i], n) <=> Delivers(job[i], n)
                                /\ About(job'[i], n) <=> About(job[i], n)
  BY <1>0, <1>3, <1>4 DEF Delivers, About, Refers
<1>6. \A i \in Job : job[i].pc = "deliver" =>
        /\ job'[i].ext = job[i].ext /\ job'[i].rebind = job[i].rebind
        /\ job'[i].ref = job[i].ref /\ job'[i].left \subseteq job[i].left
  BY <1>2, <1>3, <1>4
<1>7. RowInv'
  BY <1>0 DEF RowInv
<1>8. JobInv'
  <2>1. WellFormed(r, msg')
    BY <1>0, <1>2, <1>3 DEF WellFormed, Refers
  <2> QED
    BY <1>0, <1>3, <2>1, JobMoves DEF JobType, RowsKept
<1>9. BindInv'
  BY <1>0, <1>5, <1>6 DEF BindInv, Stored, Delivers
<1>10. HandInv'
  BY <1>1 DEF HandInv
<1>11. OneEach'
  BY <1>0, <1>3, SameClient DEF JobInv
<1>12. OrderInv'
  BY <1>0, <1>5, <1>6 DEF OrderInv, Delivers
<1> QED
  BY <1>7, <1>8, <1>9, <1>10, <1>11, <1>12 DEF KeptInv

(* The request returns: what its gateways answered with is in the row now. *)
LEMMA BindMessageKeeps ==
  ASSUME IInv, NEW j \in Job, BindMessage(j)
  PROVE  KeptInv' /\ OneEach'
<1> USE DEF IInv
<1> DEFINE m == job[j].mid
<1>0. /\ job[j].pc = "deliver" /\ job[j] \in JobRow /\ m \in Msg /\ msg[m] \in Row
      /\ lastId' = lastId /\ inbox' = inbox /\ acked' = acked /\ faults' = faults
      /\ job' = [job EXCEPT ![j] = Idle]
      /\ msg' = IF job[j].rebind /\ Stored(m) THEN [msg EXCEPT ![m].ext = @ \cup job[j].ext] ELSE msg
  BY Working DEF BindMessage, At, Return, JobInv, WellFormed, Refers, StateInv
<1>1. \A i \in Job : job'[i] = IF i = j THEN Idle ELSE job[i]
  BY <1>0 DEF JobInv
<1>2. \A n \in Msg : Delivers(job[j], n) => n = m
  BY DEF Delivers
<1>3. \A n \in Msg : /\ msg'[n].st = msg[n].st /\ msg'[n].from = msg[n].from /\ msg'[n].bare = msg[n].bare
                     /\ msg'[n].service = msg[n].service /\ (msg'[n] = NoMsg <=> msg[n] = NoMsg)
                     /\ msg[n].ext \subseteq msg'[n].ext
                     /\ n = m /\ job[j].rebind /\ Stored(m) => job[j].ext \subseteq msg'[n].ext
  <2>1. CASE job[j].rebind /\ Stored(m)
    <3> DEFINE ext == msg[m].ext \cup job[j].ext
               row == [msg[m] EXCEPT !.ext = ext]
    <3>1. \A n \in Msg : msg'[n] = IF n = m THEN row ELSE msg[n]
      BY <1>0, <2>1 DEF StateInv
    <3>2. ext \in SUBSET Ext
      BY <1>0 DEF Row, JobRow
    <3> HIDE DEF ext
    <3>3. /\ row.st = msg[m].st /\ row.from = msg[m].from /\ row.ext = ext
          /\ row.service = msg[m].service /\ row.bare = msg[m].bare /\ row \in Row
      BY <1>0, <3>2 DEF Row
    <3> HIDE DEF row, m
    <3>4. (msg'[m] = NoMsg <=> msg[m] = NoMsg) /\ msg[m].ext \subseteq ext /\ job[j].ext \subseteq ext
      BY <1>0, <3>1, <3>3, RowFacts DEF ext
    <3> HIDE DEF ext
    <3> QED
      BY <1>0, <3>1, <3>3, <3>4
  <2>2. CASE ~ (job[j].rebind /\ Stored(m))
    BY <1>0, <2>2
  <2> QED
    BY <2>1, <2>2
<1> HIDE DEF m
<1>4. RowInv'
  BY <1>0, <1>3 DEF RowInv
<1>5. JobInv'
  BY <1>0, <1>3, IdleFacts, JobMoves DEF RowsKept
<1>6. BindInv'
  <2> SUFFICES ASSUME NEW n \in Msg, Bare(msg'[n])
               PROVE  /\ \A i \in Job : Delivers(job'[i], n) /\ job'[i].ext # {} => job'[i].rebind
                      /\ Stored(n)' => \A x \in acked[n] :
                           x \in msg'[n].ext \/ \E i \in Job : Delivers(job'[i], n) /\ x \in job'[i].ext
    BY <1>0 DEF BindInv
  <2>1. Bare(msg[n]) /\ (Stored(n)' => Stored(n))
    BY <1>3 DEF Bare, Stored
  <2>2. \A i \in Job : Delivers(job'[i], n) => job'[i] = job[i]
    BY <1>1, IdleFacts
  <2>3. ASSUME Stored(n), NEW x \in acked[n]
        PROVE  x \in msg'[n].ext \/ \E i \in Job : Delivers(job'[i], n) /\ x \in job'[i].ext
    <3>1. CASE x \in msg[n].ext
      BY <1>3, <3>1
    <3>2. ASSUME NEW i \in Job, Delivers(job[i], n), x \in job[i].ext
          PROVE  x \in msg'[n].ext \/ (Delivers(job'[i], n) /\ x \in job'[i].ext)
      <4>1. CASE i = j
        BY <1>2, <1>3, <2>1, <2>3, <3>2, <4>1 DEF BindInv
      <4>2. CASE i # j
        BY <1>1, <3>2, <4>2
      <4> QED
        BY <4>1, <4>2
    <3> QED
      BY <2>1, <2>3, <3>1, <3>2 DEF BindInv
  <2> QED
    BY <2>1, <2>2, <2>3, <1>1, IdleFacts DEF BindInv
<1>7. HandInv'
  BY <1>0, <1>1, IdleFacts DEF HandInv, Handed
<1>8. OneEach'
  BY <1>0, SameClient DEF JobInv
<1>9. OrderInv'
  <2>1. \A i \in Job : job'[i] = job[i] \/ job'[i] = Idle
    BY <1>1
  <2> QED
    BY <1>0, <1>3, <2>1, IdleFacts DEF OrderInv, Plain
<1> QED
  BY <1>4, <1>5, <1>6, <1>7, <1>8, <1>9 DEF KeptInv

-----------------------------------------------------------------------------
(* The row is deleted; a request that did not delete it tells nobody. *)
LEMMA DeleteRowKeeps ==
  ASSUME IInv, NEW j \in Job, DeleteRow(j)
  PROVE  KeptInv' /\ OneEach'
<1> USE DEF IInv
<1> DEFINE m == job[j].mid
<1>0. /\ job[j].pc = "delete" /\ job[j] \in JobRow /\ job[j] # Idle /\ WellFormed(job[j], msg)
      /\ m \in Msg /\ msg[m] \in Row
      /\ lastId' = lastId /\ inbox' = inbox /\ acked' = acked /\ faults' = faults
      /\ msg' = [msg EXCEPT ![m].st = "deleted"]
  BY Working DEF DeleteRow, At, JobInv, WellFormed, Refers, StateInv
<1>1. \A n \in Msg : /\ msg'[n].st = IF n = m THEN "deleted" ELSE msg[n].st
                     /\ msg'[n].from = msg[n].from /\ msg'[n].ext = msg[n].ext
                     /\ msg'[n].service = msg[n].service /\ msg'[n].bare = msg[n].bare
                     /\ msg'[n] = NoMsg <=> msg[n] = NoMsg
  <2> DEFINE row == [msg[m] EXCEPT !.st = "deleted"]
  <2>1. \A n \in Msg : msg'[n] = IF n = m THEN row ELSE msg[n]
    BY <1>0 DEF StateInv
  <2>2. /\ row.st = "deleted" /\ row.from = msg[m].from /\ row.ext = msg[m].ext
        /\ row.service = msg[m].service /\ row.bare = msg[m].bare /\ row \in Row
    BY <1>0 DEF Row
  <2> HIDE DEF row, m
  <2> QED
    BY <1>0, <2>1, <2>2, RowFacts
<1>2. PICK r \in JobType : /\ job' = [job EXCEPT ![j] = r]
                           /\ r # Idle => /\ r.pc = "route" /\ r.mid = m /\ r.by = job[j].by
                                          /\ r.service = job[j].service
                                          /\ r.left = job[j].left /\ r.snap = job[j].snap
  <2>1. CASE Goto(j, "route")
    <3> DEFINE r == [job[j] EXCEPT !.pc = "route"]
    <3>1. job' = [job EXCEPT ![j] = r]
      BY <2>1 DEF Goto
    <3>2. /\ r \in JobRow /\ r.pc = "route" /\ r.mid = m /\ r.by = job[j].by
          /\ r.service = job[j].service /\ r.left = job[j].left /\ r.snap = job[j].snap
      BY <1>0 DEF JobRow
    <3> HIDE DEF r
    <3> QED
      BY <3>1, <3>2 DEF JobType
  <2>2. CASE Return(j)
    BY <2>2, IdleFacts DEF Return
  <2> QED
    BY <2>1, <2>2 DEF DeleteRow
<1>3. WellFormed(r, msg')
  <2>1. CASE r = Idle
    BY <2>1, IdleFacts
  <2>2. CASE r # Idle
    BY <1>0, <1>1, <1>2, <2>2, RowFacts DEF WellFormed, Refers
  <2> QED
    BY <2>1, <2>2
<1>4. /\ \A n \in Msg : ~ Delivers(r, n) /\ ~ Delivers(job[j], n)
      /\ \A n \in Msg : About(r, n) => About(job[j], n)
  <2>1. CASE r = Idle
    BY <1>0, <2>1, IdleFacts DEF Delivers
  <2>2. CASE r # Idle
    BY <1>0, <1>2, <2>2 DEF Delivers, About, Refers
  <2> QED
    BY <2>1, <2>2
<1>5. \A i \in Job : job'[i] = IF i = j THEN r ELSE job[i]
  BY <1>2 DEF JobInv
<1>6. r.pc # "deliver"
  BY <1>2, IdleFacts
<1> HIDE DEF m
<1>7. RowInv'
  BY <1>0, <1>1 DEF RowInv
<1>8. JobInv'
  BY <1>1, <1>2, <1>3, JobMoves DEF RowsKept
<1>9. BindInv'
  <2> SUFFICES ASSUME NEW n \in Msg, Bare(msg'[n])
               PROVE  /\ \A i \in Job : Delivers(job'[i], n) /\ job'[i].ext # {} => job'[i].rebind
                      /\ Stored(n)' => \A x \in acked[n] :
                           x \in msg'[n].ext \/ \E i \in Job : Delivers(job'[i], n) /\ x \in job'[i].ext
    BY <1>0 DEF BindInv
  <2>1. Bare(msg[n]) /\ (Stored(n)' => Stored(n)) /\ msg'[n].ext = msg[n].ext
    BY <1>1 DEF Bare, Stored
  <2> QED
    BY <1>4, <1>5, <2>1 DEF BindInv
<1>10. HandInv'
  BY <1>0, <1>5, <1>6 DEF HandInv, Handed
<1>11. OneEach'
  BY <1>0, <1>2, SameClient DEF JobInv
<1>12. OrderInv'
  BY <1>0, <1>1, <1>4, <1>5 DEF OrderInv, Plain
<1> QED
  BY <1>7, <1>8, <1>9, <1>10, <1>11, <1>12 DEF KeptInv

(* The deletion is told: the request that deleted the row is the last about it. *)
LEMMA RouteKeeps ==
  ASSUME IInv, NEW j \in Job, RouteMessageDeleted(j)
  PROVE  KeptInv' /\ OneEach'
<1> USE DEF IInv
<1> DEFINE m    == job[j].mid
           heard == {c \in Agent : job[j].by \in job[j].snap /\ c # job[j].by /\ member[c] # "none"}
<1>0. /\ job[j].pc = "route" /\ job[j] # Idle /\ WellFormed(job[j], msg)
      /\ m \in Msg /\ msg[m].st = "deleted" /\ msg[m] # NoMsg /\ "deleted" \in Event
      /\ lastId' = lastId /\ msg' = msg /\ acked' = acked /\ faults' = faults
      /\ job' = [job EXCEPT ![j] = Idle]
      /\ inbox' = [c \in Member |->
                     IF c \in heard THEN [inbox[c] EXCEPT ![m] = Append(@, "deleted")] ELSE inbox[c]]
  BY Working DEF RouteMessageDeleted, At, Return, JobInv, WellFormed, Refers, Event
<1>1. About(job[j], m) /\ \A n \in Msg : ~ Delivers(job[j], n)
  BY <1>0 DEF About, Refers, Delivers
<1> HIDE DEF m, heard
<1>2. \A d \in Member, n \in Msg :
        inbox'[d][n] = IF d \in heard /\ n = m THEN Append(inbox[d][n], "deleted") ELSE inbox[d][n]
  BY <1>0 DEF StateInv
<1>3. ASSUME NEW d \in Member, NEW n \in Msg, NEW x
      PROVE  Has(inbox'[d][n], x) <=> Has(inbox[d][n], x) \/ (d \in heard /\ n = m /\ x = "deleted")
  BY <1>0, <1>2, Appended DEF StateInv
<1>4. \A i \in Job : job'[i] = IF i = j THEN Idle ELSE job[i]
  BY <1>0 DEF JobInv
<1>5. RowInv'
  BY <1>0, <1>2 DEF RowInv
<1>6. JobInv'
  BY <1>0, IdleFacts, JobMoves DEF RowsKept
<1>7. BindInv'
  <2>1. \A i \in Job, n \in Msg : /\ Delivers(job'[i], n) <=> Delivers(job[i], n)
                                  /\ Delivers(job[i], n) => job'[i] = job[i]
    BY <1>1, <1>4, IdleFacts
  <2> QED
    BY <1>0, <2>1 DEF BindInv, Stored
<1>8. HandInv'
  <2> SUFFICES ASSUME faults = 0, NEW i \in Job, job'[i].pc = "deliver", job'[i].service = "no",
                      NEW d \in job'[i].snap \ {job'[i].by}
               PROVE  d \in job'[i].left \/ Has(inbox'[d][job'[i].mid], Sent(job'[i]))
    BY <1>0 DEF HandInv, Handed
  <2>1. job'[i] = job[i]
    BY <1>4, IdleFacts
  <2>2. job[i].mid \in Msg /\ d \in Member
    BY <2>1, Working DEF JobInv, WellFormed, Refers, JobRow
  <2>3. d \in job[i].left \/ Has(inbox[d][job[i].mid], Sent(job[i]))
    BY <2>1 DEF HandInv, Handed
  <2> QED
    BY <1>3, <2>1, <2>2, <2>3
<1>9. OneEach'
  BY <1>0, SameClient DEF JobInv
<1>10. OrderInv'
  <2> SUFFICES ASSUME Awaits, NEW n \in Msg, Plain(msg[n]), NEW d \in Member
               PROVE  /\ InOrder(inbox'[d][n])
                      /\ \A i \in Job : Delivers(job'[i], n) /\ job'[i].ref # "edit" =>
                           /\ inbox'[d][n] \in {<<>>, <<"new">>}
                           /\ d \in job'[i].left => inbox'[d][n] = <<>>
                      /\ Has(inbox'[d][n], "deleted") =>
                           msg[n].st = "deleted" /\ \A i \in Job : ~ About(job'[i], n)
    BY <1>0 DEF OrderInv
  <2>1. \A i \in Job : job'[i] = job[i] \/ job'[i] = Idle
    BY <1>4
  <2>2. CASE n # m
    BY <1>2, <2>1, <2>2, IdleFacts DEF OrderInv
  <2>3. CASE n = m
    <3>1. \A i \in Job : ~ About(job'[i], m) /\ ~ Delivers(job'[i], m)
      <4>1. \A i \in Job : About(job[i], m) => i = j
        BY <1>0, <1>1, <2>3, OneAbout
      <4>2. \A i \in Job : Delivers(job[i], m) => About(job[i], m)
        BY DEF Delivers, About, Refers
      <4> QED
        BY <1>4, <4>1, <4>2, IdleFacts
    <3>2. InOrder(inbox[d][m]) /\ ~ Has(inbox[d][m], "deleted") /\ inbox[d][m] \in Seq(Event)
      BY <1>0, <1>1, <2>3 DEF OrderInv, StateInv
    <3>3. InOrder(inbox'[d][m])
      <4> DEFINE s == inbox[d][m]
      <4>0. InOrder(s) /\ ~ Has(s, "deleted") /\ s \in Seq(Event)
        BY <3>2
      <4>1. inbox'[d][m] = s \/ inbox'[d][m] = Append(s, "deleted")
        BY <1>0, <1>2
      <4> HIDE DEF s
      <4>2. InOrder(Append(s, "deleted"))
        <5>1. /\ Len(s) \in Nat /\ DOMAIN s = 1 .. Len(s)
              /\ DOMAIN Append(s, "deleted") = 1 .. Len(s) + 1
              /\ Len(Append(s, "deleted")) = Len(s) + 1
              /\ \A i \in 1 .. Len(s) : Append(s, "deleted")[i] = s[i]
              /\ Append(s, "deleted")[Len(s) + 1] = "deleted"
          BY <1>0, <4>0, AppendProperties, LenProperties
        <5> QED
          BY <4>0, <5>1 DEF InOrder, Has
      <4> QED
        BY <4>0, <4>1, <4>2
    <3> QED
      BY <1>0, <2>3, <3>1, <3>3
  <2> QED
    BY <2>2, <2>3
<1> QED
  BY <1>5, <1>6, <1>7, <1>8, <1>9, <1>10 DEF KeptInv

-----------------------------------------------------------------------------
(* Types of the tables, the rows, the inboxes and the counters. *)
LEMMA StateKept ==
  ASSUME IInv, [Next]_vars
  PROVE  StateInv'
<1> USE DEF IInv, StateInv
<1>0. ASSUME NEW j \in Job, job[j].pc # "idle"
      PROVE  /\ job[j] \in JobRow /\ job[j].by \in Member /\ job[j].kind \in {"text", "file"}
             /\ job[j].ext \in SUBSET Ext /\ job[j].mid \in 0 .. MaxMsg
             /\ job[j].left \in SUBSET Member /\ job[j].service \in {"no", "full", "marker"}
             /\ Refers(job[j]) => job[j].mid \in Msg /\ msg[job[j].mid] \in Row
  BY <1>0, Working DEF JobInv, WellFormed, JobRow
<1>1. Fault => faults' \in 0 .. MaxFaults
  BY DeliveryAssumption DEF Fault
<1>2. asked < MaxAsked /\ asked' = asked + 1 => asked' \in 0 .. MaxAsked
  BY DeliveryAssumption
<1>3. ASSUME NEW j \in Job, StoreNew(j)
      PROVE  StateInv'
  <2>1. NewRow(j) \in Row
    <3>1. /\ job[j].by \in Member /\ job[j].kind \in {"text", "file"} /\ job[j].ext \in SUBSET Ext
          /\ job[j].mid \in 0 .. MaxMsg /\ 0 \in 0 .. MaxMsg
      BY <1>0, <1>3, DeliveryAssumption DEF StoreNew, At
    <3> QED
      BY <3>1 DEF NewRow, Row
  <2> HIDE DEF Row
  <2>2. msg' \in [Msg -> Row \cup {NoMsg}]
    BY <1>3, <2>1 DEF StoreNew
  <2> QED
    BY <1>3, <2>2 DEF StoreNew
<1>4. ASSUME NEW j \in Job, StoreEdit(j) \/ BindMessage(j) \/ DeleteRow(j)
      PROVE  StateInv'
  <2>1. Refers(job[j]) /\ job[j].pc # "idle"
    BY <1>4 DEF StoreEdit, BindMessage, DeleteRow, At, Refers
  <2>2. job[j].mid \in Msg /\ msg[job[j].mid] \in Row /\ job[j].ext \in SUBSET Ext
    BY <1>0, <2>1
  <2> DEFINE m == job[j].mid
             e == msg[m].ext \cup job[j].ext
  <2>3. \/ msg' = msg
        \/ msg' = [msg EXCEPT ![m] = [msg[m] EXCEPT !.bare = @ /\ job[j].ext = {}]]
        \/ msg' = [msg EXCEPT ![m] = [msg[m] EXCEPT !.ext = e]]
        \/ msg' = [msg EXCEPT ![m] = [msg[m] EXCEPT !.st = "deleted"]]
    BY <1>4 DEF StoreEdit, BindMessage, DeleteRow
  <2>4. e \in SUBSET Ext
    BY <2>2 DEF Row
  <2>5. /\ [msg[m] EXCEPT !.bare = @ /\ job[j].ext = {}] \in Row
        /\ [msg[m] EXCEPT !.st = "deleted"] \in Row
    BY <2>2 DEF Row
  <2> HIDE DEF e
  <2>6. [msg[m] EXCEPT !.ext = e] \in Row
    BY <2>2, <2>4 DEF Row
  <2>7. msg' \in [Msg -> Row \cup {NoMsg}]
    BY <2>3, <2>5, <2>6
  <2>8. /\ member' = member /\ lastId' = lastId /\ inbox' = inbox /\ acked' = acked
        /\ asked' = asked /\ faults' = faults
    BY <1>4 DEF StoreEdit, BindMessage, DeleteRow
  <2> QED
    BY <2>7, <2>8
<1>5. ASSUME NEW j \in Job, DeliverInternal(j)
      PROVE  StateInv'
  <2>1. /\ Received(First(j), j) /\ job[j].mid \in Msg /\ EventOf(j) \in Event
        /\ job[j].left \subseteq Member /\ job[j].left # {}
    BY <1>0, <1>5 DEF DeliverInternal, At, Refers, EventOf, Event
  <2>2. inbox' \in [Member -> [Msg -> Seq(Event)]]
    BY <2>1, FirstIsLeft, ReceivedTyped DEF Received
  <2> QED
    BY <1>5, <2>2 DEF DeliverInternal
<1>6. ASSUME NEW j \in Job, NEW B \in {{}} \cup {{x} : x \in Ext}, DeliverGateway(j, B)
      PROVE  StateInv'
  <2>1. /\ Received(First(j), j) /\ job[j].mid \in Msg /\ EventOf(j) \in Event
        /\ job[j].left \subseteq Member /\ job[j].left # {}
    BY <1>0, <1>6 DEF DeliverGateway, At, Refers, EventOf, Event
  <2>2. inbox' \in [Member -> [Msg -> Seq(Event)]]
    BY <2>1, FirstIsLeft, ReceivedTyped DEF Received
  <2>3. B \in SUBSET Ext
    OBVIOUS
  <2>4. acked' \in [Msg -> SUBSET Ext]
    BY <1>6, <2>3 DEF DeliverGateway
  <2> QED
    BY <1>6, <2>2, <2>4 DEF DeliverGateway
<1>7. ASSUME NEW j \in Job, RouteMessageDeleted(j)
      PROVE  StateInv'
  <2>1. \A c \in Member : inbox'[c] = inbox[c] \/ inbox'[c] = [inbox[c] EXCEPT ![job[j].mid] = Append(@, "deleted")]
    BY <1>7 DEF RouteMessageDeleted
  <2>2. "deleted" \in Event /\ job[j].mid \in Msg
    BY <1>0, <1>7 DEF RouteMessageDeleted, At, Refers, Event
  <2>3. ASSUME NEW c \in Member
        PROVE  inbox'[c] \in [Msg -> Seq(Event)]
    <3>1. Append(inbox[c][job[j].mid], "deleted") \in Seq(Event)
      BY <2>2, Appended
    <3>2. inbox[c] \in [Msg -> Seq(Event)]
      OBVIOUS
    <3>3. inbox'[c] = inbox[c] \/ inbox'[c] = [inbox[c] EXCEPT ![job[j].mid] = Append(inbox[c][job[j].mid], "deleted")]
      BY <2>1
    <3> HIDE DEF IInv, StateInv
    <3> QED
      BY <3>1, <3>2, <3>3
  <2>4. inbox' \in [Member -> [Msg -> Seq(Event)]]
    BY <1>7, <2>3 DEF RouteMessageDeleted
  <2> QED
    BY <1>7, <2>4 DEF RouteMessageDeleted
<1>8. ASSUME NEW j \in Job, EditLookup(j) \/ ForwardLookup(j) \/ ReplyLookup(j) \/ UploadFile(j)
      PROVE  StateInv'
  BY <1>8 DEF EditLookup, ForwardLookup, ReplyLookup, UploadFile
<1>9. ASSUME NEW j \in Job, UploadFails(j) \/ DeliverFails(j)
      PROVE  StateInv'
  BY <1>1, <1>9 DEF UploadFails, DeliverFails
<1>10. ASSUME NEW j \in Job, NEW c \in Member,
              \/ \E ask \in Request : SendMessage(j, c, ask)
              \/ \E find \in Msg \cup Ext : DeleteMessage(j, c, find)
       PROVE  StateInv'
  BY <1>2, <1>10 DEF SendMessage, DeleteMessage, Started, MayStart
<1>11. ASSUME NEW j \in Job, NEW bot \in BOOLEAN, NEW service \in {"full", "marker"},
              SendServiceMessage(j, bot, service)
       PROVE  StateInv'
  BY <1>2, <1>11 DEF SendServiceMessage, Started
<1>12. ASSUME NEW c \in Member, Join(c) \/ Leave(c)
       PROVE  StateInv'
  BY <1>2, <1>12 DEF Join, Leave
<1>13. CASE UNCHANGED vars
  BY <1>13 DEF vars
<1> QED
  BY <1>3, <1>4, <1>5, <1>6, <1>7, <1>8, <1>9, <1>10, <1>11, <1>12, <1>13 DEF Next, JobStep

LEMMA NextKeepsInv == IInv /\ [Next]_vars => IInv'
<1> SUFFICES ASSUME IInv, [Next]_vars PROVE IInv'
  OBVIOUS
<1>1. ASSUME NEW j \in Job, JobStep(j) \/ UploadFails(j) \/ DeliverFails(j)
      PROVE  KeptInv' /\ OneEach'
  BY <1>1, PreparesKeep, StoreNewKeeps, StoreEditKeeps, DeliversKeep, DeliverFailsKeeps,
     BindMessageKeeps, DeleteRowKeeps, RouteKeeps
     DEF JobStep
<1>2. ASSUME job' = job, msg' = msg, lastId' = lastId, inbox' = inbox, acked' = acked, faults' = faults
      PROVE  KeptInv' /\ OneEach'
  BY <1>2 DEF IInv, KeptInv, RowInv, JobInv, BindInv, HandInv, OneEach, OrderInv, Stored
<1>3. ASSUME NEW c \in Member, Join(c) \/ Leave(c)
      PROVE  KeptInv' /\ OneEach'
  BY <1>2, <1>3 DEF Join, Leave
<1>4. ASSUME UNCHANGED vars
      PROVE  KeptInv' /\ OneEach'
  BY <1>2, <1>4 DEF vars
<1>5. ASSUME NEW j \in Job, NEW bot \in BOOLEAN, NEW service \in {"full", "marker"},
             SendServiceMessage(j, bot, service)
      PROVE  KeptInv' /\ OneEach'
  BY <1>5, StartsKeep DEF Member
<1>6. ASSUME Next
      PROVE  KeptInv' /\ OneEach'
  BY <1>1, <1>3, <1>5, <1>6, StartsKeep DEF Next
<1> QED
  BY <1>4, <1>6, StateKept DEF IInv, KeptInv

LEMMA InvHolds == Spec => []IInv
  BY InitInv, NextKeepsInv, PTL DEF Spec

-----------------------------------------------------------------------------
(***************************************************************************)
(* ReadMark: the rows and requests are well formed, and a mark goes back   *)
(* only where a message is stored.                                         *)
(***************************************************************************)
LEMMA ReadStarts == R!Init => R!TypeOK
  BY ReadAssumption DEF R!Init, R!TypeOK, R!Free

(* What a request of the member knows: a date the clock has reached. *)
LEMMA ReadStep == R!TypeOK /\ [R!Next]_rvars => R!TypeOK'
<1> SUFFICES ASSUME R!TypeOK, [R!Next]_rvars
             PROVE  R!TypeOK'
  OBVIOUS
<1> USE ReadAssumption
<1>1. ASSUME NEW j \in Job, NEW pc \in {"store", "edit", "mark", "mark_tell", "tell"},
             NEW till \in 0 .. MaxClock, R!Go(j, pc, till)
      PROVE  req' \in [Job -> [pc : {"free", "store", "edit", "mark", "mark_tell", "tell"}, till : 0 .. MaxClock]]
  BY <1>1 DEF R!TypeOK, R!Go
<1>2. ASSUME NEW j \in Job, R!Done(j)
      PROVE  req' \in [Job -> [pc : {"free", "store", "edit", "mark", "mark_tell", "tell"}, till : 0 .. MaxClock]]
  BY <1>2 DEF R!TypeOK, R!Done, R!Free
<1>3. ASSUME NEW j \in Job, NEW till \in 0 .. MaxClock, R!UpdateChannel(j, till) \/ R!ReadNotice(j, till)
      PROVE  R!TypeOK'
  <2>1. R!Until(till) \in 0 .. MaxClock
    BY DEF R!Until, R!TypeOK
  <2> QED
    BY <1>1, <1>3, <2>1 DEF R!UpdateChannel, R!ReadNotice, R!TypeOK
<1>4. ASSUME NEW j \in Job, R!Mark(j)
      PROVE  R!TypeOK'
  <2>1. req[j].till \in 0 .. MaxClock
    BY DEF R!TypeOK
  <2>2. seen' \in 0 .. MaxClock
    BY <1>4, <2>1 DEF R!Mark, R!Marked, R!TypeOK
  <2> QED
    BY <1>1, <1>2, <1>4, <2>1, <2>2 DEF R!Mark, R!TypeOK
<1>5. ASSUME NEW j \in Job, R!SendUpdateChannel(j) \/ R!SaveMessage(j) \/ R!SaveEdit(j)
      PROVE  R!TypeOK'
  <2>1. req[j].till \in 0 .. MaxClock
    BY DEF R!TypeOK
  <2> QED
    BY <1>2, <1>5, <2>1 DEF R!SendUpdateChannel, R!SaveMessage, R!SaveEdit, R!TypeOK
<1>6. ASSUME NEW j \in Job, R!SendMessage(j) \/ R!EditMessage(j)
      PROVE  R!TypeOK'
  BY <1>1, <1>6 DEF R!SendMessage, R!EditMessage, R!TypeOK
<1>7. CASE R!DeleteMessage \/ R!Tick
  BY <1>7 DEF R!DeleteMessage, R!Tick, R!TypeOK
<1>8. CASE UNCHANGED rvars
  BY <1>8 DEF rvars, R!TypeOK
<1> QED
  BY <1>3, <1>4, <1>5, <1>6, <1>7, <1>8 DEF R!Next

(* Where no request of a message stores, the row takes the later of two dates. *)
LEMMA ReadForward ==
  ASSUME R!TypeOK, R!Next
  PROVE  seen' >= seen \/ \E j \in Job : req[j].pc \in {"store", "edit"} /\ req'[j] = R!Free
<1> USE ReadAssumption
<1>1. ASSUME seen' = seen
      PROVE  seen' >= seen
  BY <1>1 DEF R!TypeOK
<1>2. ASSUME NEW j \in Job, R!Mark(j)
      PROVE  seen' >= seen
  <2>1. req[j].till \in Nat /\ seen \in Nat
    BY DEF R!TypeOK
  <2> QED
    BY <1>2, <2>1 DEF R!Mark, R!Marked, R!Older
<1>3. ASSUME NEW j \in Job, R!SaveMessage(j) \/ R!SaveEdit(j)
      PROVE  req[j].pc \in {"store", "edit"} /\ req'[j] = R!Free
  BY <1>3 DEF R!SaveMessage, R!SaveEdit, R!Done, R!TypeOK
<1> QED
  BY <1>1, <1>2, <1>3
     DEF R!Next, R!UpdateChannel, R!ReadNotice, R!SendUpdateChannel, R!SendMessage, R!EditMessage,
         R!DeleteMessage, R!Tick

-----------------------------------------------------------------------------
(* Both components. *)
MCInv == IInv /\ R!TypeOK

LEMMA MCInvHolds == MCSpec => []MCInv
<1>1. MCInit => MCInv
  BY InitInv, ReadStarts DEF MCInit, MCInv
<1>2. MCInv /\ [MCNext]_<<vars, rvars, part>> => MCInv'
  <2> SUFFICES ASSUME MCInv, [MCNext]_<<vars, rvars, part>>
               PROVE  MCInv'
    OBVIOUS
  <2>1. [Next]_vars /\ [R!Next]_rvars
    BY DEF MCNext
  <2> QED
    BY <2>1, NextKeepsInv, ReadStep DEF MCInv
<1> QED
  BY <1>1, <1>2, PTL DEF MCSpec

(***************************************************************************)
(* Every state is one TypeOK allows: whatever other requests do to the     *)
(* rows meanwhile, a request tells only members of its own snapshot, and   *)
(* no edit reaches SaveMessage, which would panic, without the id of a     *)
(* message it found.                                                       *)
(***************************************************************************)
THEOREM DeliveryTyped == Spec => []TypeOK
  BY InvHolds, InvTyped, PTL

(***************************************************************************)
(* A member sees the life of a plain message in order, with any number of  *)
(* handlers at work on it: it appears before its edits, once, and nothing  *)
(* follows its deletion, if clients await the answers to their requests.   *)
(***************************************************************************)
THEOREM EventsComeInOrder == Spec => []EventsInOrder
  BY InvHolds, InvOrdered, PTL

(***************************************************************************)
(* BindMessage loses no external id of a message sent without variables,   *)
(* although sendMessage compares the variables with a map the calls to     *)
(* the gateways have written in, and others edit the message meanwhile.    *)
(***************************************************************************)
THEOREM BareBindingsAreKept == Spec => []BareBindingsKept
  BY InvHolds, InvBound, PTL

(***************************************************************************)
(* sendMessage skips nobody: without a failed call it has handed its event *)
(* to every member of the session it read, when it is through its loop.    *)
(***************************************************************************)
THEOREM SentToAll == Spec => []HandedToAll
  BY InvHolds, InvHanded, PTL
(***************************************************************************)
(* Delivery and the read marks have their state well formed, at any number *)
(* of requests, dates and messages.                                        *)
(***************************************************************************)
THEOREM DeliveryAndReadTyped == MCSpec => []TypesOK
  BY MCInvHolds, InvTyped, PTL DEF MCInv, TypesOK

(***************************************************************************)
(* chat.channel.updated_at of a member never goes back, however its read   *)
(* notices race, except where a message of its own is stored with the time *)
(* its handler took before the upload.                                     *)
(***************************************************************************)
THEOREM ReadMarksAdvance == MCSpec => ReadNeverBack
<1>1. MCInv /\ [MCNext]_<<vars, rvars, part>>
        => [seen' >= seen \/ \E r \in Job : req[r].pc \in {"store", "edit"} /\ req'[r] = R!Free]_(R!vars)
  BY ReadForward DEF MCInv, MCNext, rvars, R!vars
<1> QED
  BY <1>1, MCInvHolds, PTL DEF MCSpec, ReadNeverBack, R!ReadNeverBack

===============================================================================
