----------------------------- MODULE ServiceProofs -----------------------------
(***************************************************************************)
(* Theorems about the services around the chats, at any size.              *)
(***************************************************************************)
EXTENDS MCServices, FiniteSetTheorems, WellFoundedInduction, TLAPS

-----------------------------------------------------------------------------
(* Broadcasts.                                                             *)

Addressed  == DOMAIN request.peers
Serving == {"peer", "client", "gate", "tx", "send"}
HasHistory(p) == request.peers[p].type # "gotd"

(* The message object, and the messages sent of it. *)
File == [id : BOOLEAN, url : BOOLEAN]
Body == [vars : BOOLEAN, file : File, has : BOOLEAN, id : Nat]
BodyInv ==
  /\ body \in Body
  /\ sentTo \subseteq [peer : Addressed, id : Nat, vars : BOOLEAN]
  /\ step = "idle" => at = 0 /\ sentTo = {} /\ rows = {}

(* The loop is at a valid peer; those before it are named or reached, those behind it not named yet. *)
LoopInv ==
  /\ step \in Serving => at \in Addressed /\ Broadcasts!ValidPeer(request.peers[at])
  /\ step = "done" => at = Len(request.peers) + 1
  /\ step \in Serving \cup {"done"} =>
       \A i \in Addressed :
         IF ~ Broadcasts!ValidPeer(request.peers[i]) THEN failure[i] = 1
         ELSE IF i < at THEN failure[i] <= 1 /\ (failure[i] = 0 => Broadcasts!Reached(i))
         ELSE failure[i] = 0

(* The rows of the transaction are the first of Kinds, all the peer's; a message, the last, has the newest id. *)
RowWritten(i) ==
  /\ txn[i].peer = at /\ txn[i].kind = Broadcasts!Kinds[i]
  /\ i = Len(Broadcasts!Kinds) => txn[i].id = lastId /\ body.id = lastId /\ txn[i].vars = body.vars
TxnInv ==
  /\ Len(txn) <= Len(Broadcasts!Kinds)
  /\ \A i \in 1 .. Len(txn) : RowWritten(i)

(* What is committed is whole, each message under an id of its own. *)
RowsInv ==
  /\ Broadcasts!StoredWhole
  /\ \A r \in rows : r.kind = "message" => r.id <= lastId
  /\ Len(txn) = Len(Broadcasts!Kinds) => \A r \in rows : r.kind = "message" => r.id < lastId
  /\ step = "send" /\ HasHistory(at) => \E r \in rows : r.peer = at /\ r.kind = "message" /\ r.id = body.id /\ r.vars = body.vars

(* The one upload left its id in the message. *)
UploadInv ==
  /\ step \in {"idle", "auth", "user"} => uploads = 0
  /\ uploads <= 1 /\ (uploads = 1 => body.file.id)

CastInv ==
  /\ Broadcasts!TypeOK /\ BodyInv /\ LoopInv /\ TxnInv /\ RowsInv
  /\ Broadcasts!SentIsStored /\ UploadInv

LEMMA KindsLen == Len(Broadcasts!Kinds) \in Nat /\ Len(Broadcasts!Kinds) > 0
  BY DEF Broadcasts!Kinds

(* The rows of a conversation, of which the message is the last. *)
LEMMA KindsAre ==
  /\ Len(Broadcasts!Kinds) \in Nat
  /\ DOMAIN Broadcasts!Kinds = 1 .. Len(Broadcasts!Kinds)
  /\ \A i, j \in 1 .. Len(Broadcasts!Kinds) : Broadcasts!Kinds[i] = Broadcasts!Kinds[j] => i = j
  /\ \A i \in 1 .. Len(Broadcasts!Kinds) :
       /\ Broadcasts!Kinds[i] \in {"conversation", "from", "to", "message"}
       /\ (Broadcasts!Kinds[i] = "message") <=> (i = Len(Broadcasts!Kinds))
<1> DEFINE K == Broadcasts!Kinds
<1>1. CASE request.user
  <2>1. K = <<"conversation", "from", "to", "message">>
    BY <1>1 DEF Broadcasts!Kinds
  <2> HIDE DEF K
  <2>2. Len(K) = 4 /\ DOMAIN K = 1 .. 4 /\ K[1] = "conversation" /\ K[2] = "from" /\ K[3] = "to" /\ K[4] = "message"
    BY <2>1
  <2>3. \A i \in 1 .. 4 : i = 1 \/ i = 2 \/ i = 3 \/ i = 4
    OBVIOUS
  <2> QED
    BY <2>2, <2>3 DEF K
<1>2. CASE ~ request.user
  <2>1. K = <<"conversation", "to", "message">>
    BY <1>2 DEF Broadcasts!Kinds
  <2> HIDE DEF K
  <2>2. Len(K) = 3 /\ DOMAIN K = 1 .. 3 /\ K[1] = "conversation" /\ K[2] = "to" /\ K[3] = "message"
    BY <2>1
  <2>3. \A i \in 1 .. 3 : i = 1 \/ i = 2 \/ i = 3
    OBVIOUS
  <2> QED
    BY <2>2, <2>3 DEF K
<1> QED
  BY <1>1, <1>2

LEMMA CastStarts == Broadcasts!Init => CastInv
<1> SUFFICES ASSUME Broadcasts!Init PROVE CastInv
  OBVIOUS
<1>1. Broadcasts!None \in Broadcasts!InputRequest /\ DOMAIN request.peers = {} /\ Len(request.peers) = 0
  BY DEF Broadcasts!Init, Broadcasts!None, Broadcasts!InputRequest, Broadcasts!FileKind
<1>2. Broadcasts!TypeOK
  BY <1>1 DEF Broadcasts!Init, Broadcasts!TypeOK, Broadcasts!Unnamed
<1>3. BodyInv /\ LoopInv /\ UploadInv
  BY <1>1 DEF Broadcasts!Init, BodyInv, LoopInv, UploadInv, Serving, Broadcasts!NoBody, Broadcasts!NoFile, Addressed,
               Body, File
<1>5. TxnInv
  <2>1. Len(txn) = 0 /\ Len(Broadcasts!Kinds) \in Nat
    BY KindsAre DEF Broadcasts!Init
  <2>2. Len(txn) <= Len(Broadcasts!Kinds) /\ 1 .. Len(txn) = {}
    BY <2>1
  <2> QED
    BY <2>2, Zenon DEF TxnInv
<1>6. RowsInv /\ Broadcasts!SentIsStored
  BY DEF Broadcasts!Init, RowsInv, Broadcasts!StoredWhole, Broadcasts!SentIsStored
<1> QED
  BY <1>2, <1>3, <1>5, <1>6 DEF CastInv

(* A set of naturals has a least element. *)
LEMMA HasLeast ==
  ASSUME NEW S \in SUBSET Nat, S # {}
  PROVE  \E x \in S : \A y \in S : x <= y
<1> DEFINE Less == {p \in Nat \X Nat : p[1] < p[2]}
<1>1. IsWellFoundedOn(Less, Nat)
  BY NatLessThanWellFounded, Zenon DEF OpToRel
<1>2. PICK x \in S : \A y \in S : <<y, x>> \notin Less
  BY <1>1, WFMin
<1>3. ASSUME NEW y \in S PROVE x <= y
  <2>1. ~ y < x
    BY <1>2
  <2> QED
    BY <2>1
<1> QED
  BY <1>3

(* The next valid peer is the first behind i, or there is none. *)
LEMMA NextPeer ==
  ASSUME NEW ps \in Seq(Broadcasts!Peer), NEW i \in 0 .. Len(ps)
  PROVE  LET a == Broadcasts!After(ps, i) IN
         /\ a \in 1 .. Len(ps) + 1 /\ a > i
         /\ a <= Len(ps) => Broadcasts!ValidPeer(ps[a])
         /\ \A j \in 1 .. Len(ps) : i < j /\ j < a => ~ Broadcasts!ValidPeer(ps[j])
<1> DEFINE rest == {j \in DOMAIN ps : j > i /\ Broadcasts!ValidPeer(ps[j])}
<1>1. DOMAIN ps = 1 .. Len(ps) /\ Len(ps) \in Nat
  OBVIOUS
<1>2. CASE rest = {}
  BY <1>1, <1>2 DEF Broadcasts!After
<1>3. CASE rest # {}
  <2>1. rest \subseteq Nat
    BY <1>1
  <2>4. \E z \in rest : \A k \in rest : z <= k
    BY <1>3, <2>1, HasLeast
  <2>5. Broadcasts!After(ps, i) = CHOOSE j \in rest : \A k \in rest : j <= k
    BY <1>3 DEF Broadcasts!After
  <2> DEFINE a == Broadcasts!After(ps, i)
  <2>6. a \in rest /\ \A k \in rest : a <= k
    BY <2>4, <2>5
  <2> HIDE DEF a
  <2>7. \A j \in 1 .. Len(ps) : i < j /\ j < a => ~ Broadcasts!ValidPeer(ps[j])
    BY <1>1, <2>6
  <2> QED
    BY <1>1, <2>6, <2>7 DEF a
<1> QED
  BY <1>2, <1>3

TurnOver == \/ Broadcasts!Failed
            \/ Broadcasts!Served /\ \E s \in sentTo' : s.peer = at

(* The end of a turn, named or reached: the loop goes on with the next valid peer, or is over. *)
LEMMA TurnEnds ==
  ASSUME CastInv, step \in Serving, request' = request, sentTo \subseteq sentTo',
         TurnOver
  PROVE  /\ step' \in {"peer", "done"} /\ at' \in 0 .. Len(request.peers) + 1
         /\ failure' \in [Addressed -> Nat] /\ LoopInv'
<1> DEFINE ps == request.peers
           a  == Broadcasts!After(ps, at)
<1> USE DEF TurnOver
<1>1. ps \in Seq(Broadcasts!Peer) /\ DOMAIN ps = 1 .. Len(ps) /\ Addressed = 1 .. Len(ps)
  BY DEF CastInv, Broadcasts!TypeOK, Broadcasts!InputRequest, Addressed
<1>2. at \in 1 .. Len(ps) /\ Broadcasts!ValidPeer(ps[at]) /\ failure \in [1 .. Len(ps) -> Nat]
  BY <1>1 DEF CastInv, LoopInv, Broadcasts!TypeOK
<1>a. at \in 0 .. Len(ps)
  BY <1>2
<1>3. /\ a \in 1 .. Len(ps) + 1 /\ a > at
      /\ a <= Len(ps) => Broadcasts!ValidPeer(ps[a])
      /\ \A j \in 1 .. Len(ps) : at < j /\ j < a => ~ Broadcasts!ValidPeer(ps[j])
  BY <1>1, <1>a, NextPeer
<1>4. at' = a /\ step' = IF a > Len(ps) THEN "done" ELSE "peer"
  BY DEF Broadcasts!Failed, Broadcasts!Served, Broadcasts!Goto
<1> HIDE DEF a
<1>5. failure' \in [1 .. Len(ps) -> Nat]
  BY <1>2 DEF Broadcasts!Failed, Broadcasts!Served
<1>6. ASSUME NEW i \in 1 .. Len(ps)
      PROVE  IF ~ Broadcasts!ValidPeer(ps[i]) THEN failure'[i] = 1
             ELSE IF i < at' THEN failure'[i] <= 1 /\ (failure'[i] = 0 => Broadcasts!Reached(i)')
             ELSE failure'[i] = 0
  <2>1. IF ~ Broadcasts!ValidPeer(ps[i]) THEN failure[i] = 1
        ELSE IF i < at THEN failure[i] <= 1 /\ (failure[i] = 0 => Broadcasts!Reached(i))
        ELSE failure[i] = 0
    BY <1>1 DEF CastInv, LoopInv
  <2>2. Broadcasts!Reached(i) => Broadcasts!Reached(i)'
    BY DEF Broadcasts!Reached
  <2>3. CASE i = at
    <3>1. CASE Broadcasts!Failed
      BY <1>2, <1>3, <1>4, <2>1, <2>3, <3>1 DEF Broadcasts!Failed
    <3>2. CASE Broadcasts!Served /\ \E s \in sentTo' : s.peer = at
      <4>1. Broadcasts!Reached(i)'
        BY <2>3, <3>2 DEF Broadcasts!Reached
      <4> QED
        BY <1>2, <1>3, <1>4, <2>1, <2>3, <3>2, <4>1 DEF Broadcasts!Served
    <3> QED
      BY <3>1, <3>2
  <2>4. CASE i # at
    <3>1. failure'[i] = failure[i]
      BY <1>2, <2>4 DEF Broadcasts!Failed, Broadcasts!Served
    <3> QED
      BY <1>2, <1>3, <1>4, <2>1, <2>2, <2>4, <3>1
  <2> QED
    BY <2>3, <2>4
<1>7. step' = "peer" => at' \in 1 .. Len(ps) /\ Broadcasts!ValidPeer(ps[at'])
  BY <1>1, <1>3, <1>4
<1>8. step' = "done" => at' = Len(ps) + 1
  BY <1>1, <1>3, <1>4
<1>9. step' \in {"peer", "done"} /\ at' \in 0 .. Len(ps) + 1
  BY <1>1, <1>3, <1>4
<1> QED
  BY <1>1, <1>5, <1>6, <1>7, <1>8, <1>9 DEF LoopInv, Serving, Addressed

(* A step within a turn, at the same peer, changes nothing the answer is made of. *)
LEMMA SameTurn ==
  ASSUME CastInv, UNCHANGED <<request, at, failure, sentTo>>,
         step' = "refused" \/ {step, step'} \subseteq Serving
  PROVE  LoopInv'
<1>1. ASSUME NEW i PROVE Broadcasts!Reached(i)' = Broadcasts!Reached(i)
  BY DEF Broadcasts!Reached
<1> QED
  BY <1>1 DEF CastInv, LoopInv, Serving, Addressed

(* Steps that commit nothing and complete no transaction. *)
LEMMA SameRows ==
  ASSUME CastInv, UNCHANGED <<request, rows, lastId>>,
         txn' = txn \/ txn' = <<>> \/ Len(txn') # Len(Broadcasts!Kinds),
         step' = "send" => ~ HasHistory(at)'
  PROVE  RowsInv'
<1>0. Broadcasts!Kinds' = Broadcasts!Kinds
  BY DEF Broadcasts!Kinds
<1>1. Broadcasts!StoredWhole'
  BY <1>0 DEF CastInv, RowsInv, Broadcasts!StoredWhole
<1>2. Len(Broadcasts!Kinds) # 0
  BY DEF Broadcasts!Kinds
<1>3. Len(txn') = Len(Broadcasts!Kinds') => txn' = txn
  BY <1>0, <1>2
<1>4. Len(txn') = Len(Broadcasts!Kinds') => \A r \in rows' : r.kind = "message" => r.id < lastId'
  BY <1>0, <1>3 DEF CastInv, RowsInv
<1> QED
  BY <1>1, <1>4 DEF CastInv, RowsInv

LEMMA SameSent ==
  ASSUME CastInv, UNCHANGED <<request, sentTo>>, rows \subseteq rows'
  PROVE  Broadcasts!SentIsStored'
BY DEF CastInv, Broadcasts!SentIsStored

(* No transaction is open. *)
LEMMA NoTxn ==
  ASSUME CastInv, txn' = <<>>
  PROVE  TxnInv'
<1>1. Len(Broadcasts!Kinds') \in Nat
  BY DEF Broadcasts!Kinds
<1> QED
  BY <1>1 DEF TxnInv

LEMMA RequestKeeps ==
  ASSUME CastInv, NEW r \in CastRequest, Broadcasts!BroadcastMessage(r)
  PROVE  CastInv'
<1> USE DEF Broadcasts!BroadcastMessage
<1>1. r \in Broadcasts!InputRequest /\ Len(r.peers) \in Nat /\ DOMAIN r.peers = 1 .. Len(r.peers)
  BY RequestAssumption DEF Broadcasts!InputRequest
<1>2. step = "idle" /\ at = 0 /\ rows = {} /\ sentTo = {} /\ txn = <<>>
  BY DEF CastInv, Broadcasts!TypeOK, BodyInv
<1>3. at \in 0 .. Len(r.peers) + 1
  BY <1>1, <1>2
<1>4. Broadcasts!TypeOK'
  BY <1>1, <1>2, <1>3 DEF CastInv, Broadcasts!TypeOK, Broadcasts!Unnamed
<1>5. BodyInv' /\ LoopInv' /\ UploadInv'
  BY <1>2 DEF CastInv, BodyInv, LoopInv, UploadInv, Serving
<1>6. TxnInv'
  BY <1>2, NoTxn
<1>7. RowsInv' /\ Broadcasts!SentIsStored'
  BY <1>2 DEF RowsInv, Broadcasts!StoredWhole, Broadcasts!SentIsStored
<1> QED
  BY <1>4, <1>5, <1>6, <1>7 DEF CastInv

LEMMA AuthenticationKeeps ==
  ASSUME CastInv, NEW ok \in BOOLEAN, Broadcasts!Authentication(ok)
  PROVE  CastInv'
<1> USE DEF Broadcasts!Authentication
<1>1. step = "auth" /\ step' \in {"user", "refused"} /\ txn = <<>>
  BY DEF CastInv, Broadcasts!TypeOK
<1>2. Broadcasts!TypeOK'
  BY <1>1 DEF CastInv, Broadcasts!TypeOK
<1>3. BodyInv' /\ LoopInv' /\ UploadInv'
  BY <1>1 DEF CastInv, BodyInv, LoopInv, UploadInv, Serving, Addressed
<1>4. TxnInv' /\ RowsInv' /\ Broadcasts!SentIsStored'
  BY <1>1, NoTxn, SameRows, SameSent
<1> QED
  BY <1>2, <1>3, <1>4 DEF CastInv

LEMMA ValidateKeeps ==
  ASSUME CastInv, Broadcasts!Validate
  PROVE  CastInv'
<1> DEFINE ps == request.peers
           a  == Broadcasts!After(ps, 0)
<1>1. step = "user" /\ txn = <<>>
  BY DEF Broadcasts!Validate, CastInv, Broadcasts!TypeOK
<1>2. ps \in Seq(Broadcasts!Peer) /\ DOMAIN ps = 1 .. Len(ps) /\ Addressed = 1 .. Len(ps) /\ 0 \in 0 .. Len(ps)
  BY DEF CastInv, Broadcasts!TypeOK, Broadcasts!InputRequest, Addressed
<1>3. /\ a \in 1 .. Len(ps) + 1
      /\ a <= Len(ps) => Broadcasts!ValidPeer(ps[a])
      /\ \A j \in 1 .. Len(ps) : 0 < j /\ j < a => ~ Broadcasts!ValidPeer(ps[j])
  BY <1>2, NextPeer
<1>4. CASE ~ Broadcasts!ValidMessage(request)
  <2>1. Broadcasts!TypeOK' /\ BodyInv' /\ UploadInv' /\ LoopInv'
    BY <1>1, <1>4 DEF Broadcasts!Validate, CastInv, Broadcasts!TypeOK, BodyInv, UploadInv, LoopInv, Serving, Addressed
  <2>2. TxnInv' /\ RowsInv' /\ Broadcasts!SentIsStored'
    BY <1>1, <1>4, NoTxn, SameRows, SameSent DEF Broadcasts!Validate
  <2> QED
    BY <2>1, <2>2 DEF CastInv
<1>5. CASE Broadcasts!ValidMessage(request)
  <2>1. /\ failure' = Broadcasts!Invalid(ps) /\ body' = Broadcasts!Prepared(request)
        /\ at' = a /\ step' = IF a > Len(ps) THEN "done" ELSE "peer"
        /\ UNCHANGED <<request, txn, rows, uploads, sentTo, lastId>>
    BY <1>5 DEF Broadcasts!Validate, Broadcasts!Goto
  <2> HIDE DEF a
  <2>2. Broadcasts!TypeOK'
    BY <1>1, <1>2, <1>3, <2>1 DEF CastInv, Broadcasts!TypeOK, Broadcasts!Invalid
  <2>3. body' \in Body
    BY <2>1 DEF Broadcasts!Prepared, Broadcasts!NoBody, Broadcasts!NoFile, Body, File
  <2>4. BodyInv' /\ UploadInv'
    BY <1>1, <2>1, <2>3 DEF CastInv, BodyInv, UploadInv, Addressed
  <2>5. ASSUME NEW i \in 1 .. Len(ps)
        PROVE  IF ~ Broadcasts!ValidPeer(ps[i]) THEN failure'[i] = 1 ELSE failure'[i] = 0 /\ ~ i < a
    BY <1>2, <1>3, <2>1 DEF Broadcasts!Invalid
  <2>6. LoopInv'
    BY <1>2, <1>3, <2>1, <2>5 DEF LoopInv, Serving, Addressed
  <2>7. TxnInv' /\ RowsInv' /\ Broadcasts!SentIsStored'
    BY <1>1, <2>1, NoTxn, SameRows, SameSent
  <2> QED
    BY <2>2, <2>4, <2>6, <2>7 DEF CastInv
<1> QED
  BY <1>4, <1>5

LEMMA ExecuteKeeps ==
  ASSUME CastInv, Broadcasts!ExecuteBroadcast
  PROVE  CastInv'
<1> USE DEF Broadcasts!ExecuteBroadcast
<1>1. /\ step = "peer" /\ step' \in {"send", "client"} /\ txn = <<>>
      /\ step' = "send" => ~ HasHistory(at)'
  BY DEF CastInv, Broadcasts!TypeOK, HasHistory, Broadcasts!P
<1>2. Broadcasts!TypeOK'
  BY <1>1 DEF CastInv, Broadcasts!TypeOK
<1>3. body' \in Body /\ body'.file = body.file
  BY DEF CastInv, BodyInv, Body
<1>4. BodyInv' /\ UploadInv'
  BY <1>1, <1>3 DEF CastInv, BodyInv, UploadInv, Addressed
<1>5. LoopInv' /\ TxnInv' /\ RowsInv' /\ Broadcasts!SentIsStored'
  BY <1>1, SameTurn, NoTxn, SameRows, SameSent DEF Serving
<1> QED
  BY <1>2, <1>4, <1>5 DEF CastInv

(* What a peer needs is found, or the turn ends. *)
LEMMA FindKeeps ==
  ASSUME CastInv, NEW found \in BOOLEAN, NEW next \in {"gate", "tx"}, step \in {"client", "gate"},
         Broadcasts!Find(found, next)
  PROVE  CastInv'
<1>1. txn = <<>> /\ UNCHANGED <<request, body, txn, rows, uploads, sentTo, lastId>>
  BY DEF CastInv, Broadcasts!TypeOK, Broadcasts!Find
<1>2. CASE found
  <2>1. step' = next /\ UNCHANGED <<at, failure>>
    BY <1>2 DEF Broadcasts!Find
  <2>2. Broadcasts!TypeOK' /\ BodyInv' /\ UploadInv'
    BY <1>1, <2>1 DEF CastInv, Broadcasts!TypeOK, BodyInv, UploadInv, Addressed
  <2>3. LoopInv' /\ TxnInv' /\ RowsInv' /\ Broadcasts!SentIsStored'
    BY <1>1, <2>1, SameTurn, NoTxn, SameRows, SameSent DEF Serving
  <2> QED
    BY <2>2, <2>3 DEF CastInv
<1>3. CASE ~ found
  <2>1. Broadcasts!Failed
    BY <1>3 DEF Broadcasts!Find
  <2>2. /\ step' \in {"peer", "done"} /\ at' \in 0 .. Len(request.peers) + 1
        /\ failure' \in [Addressed -> Nat] /\ LoopInv'
    <3>1. step \in Serving /\ request' = request /\ sentTo \subseteq sentTo'
      BY <1>1 DEF Serving
    <3> QED
      BY <2>1, <3>1, TurnEnds DEF TurnOver
  <2>3. Broadcasts!TypeOK' /\ BodyInv' /\ UploadInv'
    BY <1>1, <2>2 DEF CastInv, Broadcasts!TypeOK, BodyInv, UploadInv, Addressed
  <2>4. TxnInv' /\ RowsInv' /\ Broadcasts!SentIsStored'
    BY <1>1, <2>2, NoTxn, SameRows, SameSent
  <2> QED
    BY <2>2, <2>3, <2>4 DEF CastInv
<1> QED
  BY <1>2, <1>3

LEMMA CrashKeeps ==
  ASSUME CastInv, Broadcasts!Crash
  PROVE  CastInv'
<1> USE DEF Broadcasts!Crash
<1>1. Broadcasts!TypeOK'
  BY DEF CastInv, Broadcasts!TypeOK
<1>2. BodyInv' /\ UploadInv' /\ LoopInv'
  BY DEF CastInv, BodyInv, UploadInv, LoopInv, Serving, Addressed
<1>3. TxnInv' /\ RowsInv' /\ Broadcasts!SentIsStored'
  BY NoTxn, SameRows, SameSent
<1> QED
  BY <1>1, <1>2, <1>3 DEF CastInv


LEMMA WriteFailsKeeps ==
  ASSUME CastInv, Broadcasts!WriteFails
  PROVE  CastInv'
<1>1. /\ txn' = <<>> /\ UNCHANGED <<request, body, rows, uploads, sentTo, lastId>>
      /\ TurnOver /\ step \in Serving /\ step = "tx" /\ sentTo \subseteq sentTo'
  BY DEF Broadcasts!WriteFails, Broadcasts!Rollback, TurnOver, Serving
<1>2. /\ step' \in {"peer", "done"} /\ at' \in 0 .. Len(request.peers) + 1
      /\ failure' \in [Addressed -> Nat] /\ LoopInv'
  BY <1>1, TurnEnds
<1>3. Broadcasts!TypeOK' /\ BodyInv' /\ UploadInv'
  BY <1>1, <1>2 DEF CastInv, Broadcasts!TypeOK, BodyInv, UploadInv, Addressed
<1>4. TxnInv' /\ RowsInv' /\ Broadcasts!SentIsStored'
  BY <1>1, <1>2, NoTxn, SameRows, SameSent
<1> QED
  BY <1>2, <1>3, <1>4 DEF CastInv

(* One row more in the transaction. *)
LEMMA OneMore ==
  ASSUME Broadcasts!TypeOK, TxnInv, NEW r, request' = request, at' = at, Len(txn) < Len(Broadcasts!Kinds),
         txn' = Append(txn, r), r.peer = at, r.kind = Broadcasts!Kinds[Len(txn) + 1],
         Len(txn) + 1 = Len(Broadcasts!Kinds) => r.id = lastId' /\ body'.id = lastId' /\ r.vars = body'.vars
  PROVE  TxnInv' /\ Len(txn') = Len(txn) + 1
<1> DEFINE n == Len(txn)
           K == Broadcasts!Kinds
<1>1. n \in Nat /\ txn \in Seq(Broadcasts!Row)
  BY DEF Broadcasts!TypeOK
<1>2. K' = K /\ Len(K) \in Nat
  BY KindsAre DEF Broadcasts!Kinds
<1>3. Len(txn') = n + 1 /\ txn'[n + 1] = r /\ \A i \in 1 .. n : txn'[i] = txn[i]
  BY <1>1
<1> HIDE DEF K
<1>4. ASSUME NEW i \in 1 .. n + 1 PROVE RowWritten(i)'
  <2>1. CASE i = n + 1
    BY <1>2, <1>3, <2>1 DEF RowWritten, K
  <2>2. CASE i \in 1 .. n
    BY <1>1, <1>2, <1>3, <2>2 DEF RowWritten, TxnInv, K
  <2> QED
    BY <1>1, <2>1, <2>2
<1>5. n + 1 <= Len(K')
  BY <1>1, <1>2 DEF K
<1> QED
  BY <1>3, <1>4, <1>5 DEF TxnInv, K

LEMMA WriteRowKeeps ==
  ASSUME CastInv, Broadcasts!WriteRow
  PROVE  CastInv'
<1> DEFINE n == Len(txn)
           k == Broadcasts!Kinds[n + 1]
           r == [peer |-> at, kind |-> k, id |-> 0, vars |-> FALSE]
<1>1. /\ step = "tx" /\ n < Len(Broadcasts!Kinds) /\ k # "message" /\ txn' = Append(txn, r)
      /\ UNCHANGED <<request, body, at, step, rows, uploads, sentTo, failure, lastId>>
  BY DEF Broadcasts!WriteRow
<1>2. n \in Nat /\ n + 1 \in 1 .. Len(Broadcasts!Kinds)
  <2>0. txn \in Seq(Broadcasts!Row)
    BY DEF CastInv, Broadcasts!TypeOK
  <2>1. n \in Nat /\ Len(Broadcasts!Kinds) \in Nat
    <3>1. Len(txn) \in Nat
      BY <2>0
    <3> QED
      BY <3>1, KindsLen, Zenon
  <2> QED
    BY <1>1, <2>1
<1>3. k \in {"conversation", "from", "to", "message"} /\ n + 1 # Len(Broadcasts!Kinds)
  BY <1>1, <1>2, KindsAre
<1>5. at \in Nat
  BY DEF CastInv, Broadcasts!TypeOK, Broadcasts!InputRequest
<1>6. r \in Broadcasts!Row
  BY <1>3, <1>5 DEF Broadcasts!Row
<1>4. r.peer = at /\ r.kind = k
  OBVIOUS
<1> HIDE DEF r
<1>7. Broadcasts!TypeOK'
  BY <1>1, <1>6 DEF CastInv, Broadcasts!TypeOK
<1>8. BodyInv' /\ UploadInv' /\ LoopInv' /\ Broadcasts!SentIsStored'
  BY <1>1, SameTurn, SameSent DEF CastInv, BodyInv, UploadInv, Addressed, Serving
<1>9. TxnInv' /\ Len(txn') = n + 1
  BY <1>1, <1>3, <1>4, OneMore DEF CastInv
<1>11. RowsInv'
  BY <1>1, <1>3, <1>9, SameRows
<1> QED
  BY <1>7, <1>8, <1>9, <1>11 DEF CastInv

LEMMA CommitKeeps ==
  ASSUME CastInv, Broadcasts!Commit
  PROVE  CastInv'
<1> DEFINE K == Broadcasts!Kinds
           n == Len(K)
<1>1. /\ step = "tx" /\ Len(txn) = n /\ txn' = <<>> /\ step' = "send" /\ rows' = rows \cup Broadcasts!Written
      /\ UNCHANGED <<request, body, at, uploads, sentTo, failure, lastId>>
  BY DEF Broadcasts!Commit, Broadcasts!Persist
<1>2. txn \in Seq(Broadcasts!Row) /\ DOMAIN txn = 1 .. n /\ rows \subseteq Broadcasts!Row
  BY <1>1 DEF CastInv, Broadcasts!TypeOK
<1>3. Broadcasts!Written \subseteq Broadcasts!Row
  BY <1>2 DEF Broadcasts!Written
<1>4. Broadcasts!TypeOK'
  BY <1>1, <1>3 DEF CastInv, Broadcasts!TypeOK
<1>5. BodyInv' /\ UploadInv'
  BY <1>1 DEF CastInv, BodyInv, UploadInv, Addressed
<1>6. LoopInv' /\ TxnInv' /\ Broadcasts!SentIsStored'
  BY <1>1, SameTurn, NoTxn, SameSent DEF Serving
<1>7. /\ n \in Nat /\ DOMAIN K = 1 .. n /\ K' = K
      /\ \A i, j \in 1 .. n : K[i] = K[j] => i = j
      /\ \A i \in 1 .. n : (K[i] = "message") <=> (i = n)
  BY <1>1, KindsAre DEF Broadcasts!Kinds
<1>8. \A i \in 1 .. n : /\ txn[i].peer = at /\ txn[i].kind = K[i]
                        /\ i = n => txn[i].id = lastId /\ body.id = lastId /\ txn[i].vars = body.vars
  BY <1>1 DEF CastInv, TxnInv, RowWritten
<1>9. \A r \in rows : r.kind = "message" => r.id < lastId
  BY <1>1 DEF CastInv, RowsInv
<1>a. n \in 1 .. n
  BY KindsLen
<1> HIDE DEF K
<1>10. \A r \in rows' : \A k \in {K[i] : i \in DOMAIN K} : \E q \in rows' : q.peer = r.peer /\ q.kind = k
  <2> SUFFICES ASSUME NEW r \in rows', NEW k \in {K[i] : i \in DOMAIN K}
               PROVE  \E q \in rows' : q.peer = r.peer /\ q.kind = k
    OBVIOUS
  <2>0. PICK i \in 1 .. n : k = K[i]
    BY <1>7
  <2>1. CASE r \in rows
    <3>1. \E q \in rows : q.peer = r.peer /\ q.kind = k
      BY <2>1 DEF CastInv, RowsInv, Broadcasts!StoredWhole, K
    <3> QED
      BY <1>1, <3>1
  <2>2. CASE r \in Broadcasts!Written
    <3>1. r.peer = at /\ txn[i].peer = at /\ txn[i].kind = K[i] /\ txn[i] \in Broadcasts!Written
      BY <1>2, <1>8, <2>2 DEF Broadcasts!Written
    <3> QED
      BY <1>1, <2>0, <3>1
  <2> QED
    BY <1>1, <2>1, <2>2
<1>11. \A r \in Broadcasts!Written : r.kind = "message" => r.peer = at /\ r.id = lastId
  <2> SUFFICES ASSUME NEW i \in 1 .. n, txn[i].kind = "message"
               PROVE  txn[i].peer = at /\ txn[i].id = lastId
    BY <1>2, Zenon DEF Broadcasts!Written
  <2>1. i = n
    BY <1>7, <1>8
  <2> QED
    BY <1>8, <2>1
<1>12. \A r, q \in rows' : r.kind = "message" /\ q.kind = "message" /\ r.id = q.id => r.peer = q.peer
  <2> SUFFICES ASSUME NEW r \in rows', NEW q \in rows', r.kind = "message", q.kind = "message", r.id = q.id
               PROVE  r.peer = q.peer
    OBVIOUS
  <2>1. CASE r \in rows /\ q \in rows
    BY <2>1 DEF CastInv, RowsInv, Broadcasts!StoredWhole
  <2>2. CASE r \in Broadcasts!Written /\ q \in Broadcasts!Written
    BY <1>11, <2>2
  <2>3. lastId \in Nat
    BY DEF CastInv, Broadcasts!TypeOK
  <2>4. CASE r \in rows /\ q \in Broadcasts!Written
    BY <1>9, <1>11, <2>3, <2>4
  <2>5. CASE r \in Broadcasts!Written /\ q \in rows
    BY <1>9, <1>11, <2>3, <2>5
  <2> QED
    BY <1>1, <2>1, <2>2, <2>4, <2>5
<1>13. Broadcasts!StoredWhole'
  <2>1. Broadcasts!Kinds' = K
    BY <1>7 DEF K
  <2>2. {Broadcasts!Kinds[i] : i \in DOMAIN Broadcasts!Kinds}' = {K[i] : i \in DOMAIN K}
    BY <2>1
  <2>3. \A r \in rows' : \A k \in {Broadcasts!Kinds[i] : i \in DOMAIN Broadcasts!Kinds}' :
          \E q \in rows' : q.peer = r.peer /\ q.kind = k
    BY <1>10, <2>2
  <2> QED
    BY <1>12, <2>3, Zenon DEF Broadcasts!StoredWhole
<1>14. \A r \in rows' : r.kind = "message" => r.id <= lastId'
  <2>1. lastId \in Nat /\ lastId' = lastId
    BY <1>1 DEF CastInv, Broadcasts!TypeOK
  <2> QED
    BY <1>1, <1>11, <2>1 DEF CastInv, RowsInv
<1>15. \E r \in rows' : r.peer = at' /\ r.kind = "message" /\ r.id = body'.id /\ r.vars = body'.vars
  <2>1. txn[n] \in Broadcasts!Written
    BY <1>2, <1>a, Zenon DEF Broadcasts!Written
  <2>2. txn[n].peer = at /\ txn[n].kind = "message" /\ txn[n].id = body.id /\ txn[n].vars = body.vars
    BY <1>7, <1>8, <1>a
  <2> QED
    BY <1>1, <2>1, <2>2
<1>16. Len(txn') # Len(K')
  BY <1>1, <1>7, <1>a
<1>17. RowsInv'
  BY <1>13, <1>14, <1>15, <1>16 DEF RowsInv, K
<1> QED
  BY <1>4, <1>5, <1>6, <1>17 DEF CastInv

(* The call of the gateway, after the commit where the peer has a history. *)
LEMMA CallKeeps ==
  ASSUME CastInv, NEW reached \in BOOLEAN, NEW ok \in BOOLEAN, step = "send",
         Broadcasts!Call(reached, ok)
  PROVE  CastInv'
<1> DEFINE s == [peer |-> at, id |-> body.id, vars |-> body.vars]
<1>1. /\ ok => reached
      /\ sentTo' = IF reached THEN sentTo \cup {s} ELSE sentTo
      /\ UNCHANGED <<request, body, txn, rows, uploads, lastId>>
  BY DEF Broadcasts!Call
<1>2. at \in Addressed
  BY DEF CastInv, LoopInv, Serving
<1>3. s \in [peer : Addressed, id : Nat, vars : BOOLEAN] /\ s.peer = at /\ s.id = body.id /\ s.vars = body.vars
  BY <1>2 DEF CastInv, BodyInv, Body
<1> HIDE DEF s
<1>4. TurnOver
  <2>1. CASE ok
    BY <1>1, <1>3, <2>1 DEF Broadcasts!Call, TurnOver
  <2>2. CASE ~ ok
    BY <2>2 DEF Broadcasts!Call, TurnOver
  <2> QED
    BY <2>1, <2>2
<1>5. /\ step' \in {"peer", "done"} /\ at' \in 0 .. Len(request.peers) + 1
      /\ failure' \in [Addressed -> Nat] /\ LoopInv'
  <2>1. step \in Serving /\ sentTo \subseteq sentTo' /\ request' = request
    BY <1>1 DEF Serving
  <2> QED
    BY <1>4, <2>1, TurnEnds
<1>6. txn = <<>>
  BY DEF CastInv, Broadcasts!TypeOK
<1>7. Broadcasts!TypeOK' /\ UploadInv'
  BY <1>1, <1>5, <1>6 DEF CastInv, Broadcasts!TypeOK, UploadInv, Addressed
<1>8. BodyInv'
  BY <1>1, <1>3, <1>5 DEF CastInv, BodyInv, Addressed
<1>9. TxnInv' /\ RowsInv'
  BY <1>1, <1>5, <1>6, NoTxn, SameRows
<1>10. Broadcasts!SentIsStored'
  BY <1>1, <1>3 DEF CastInv, Broadcasts!SentIsStored, RowsInv, HasHistory
<1> QED
  BY <1>5, <1>7, <1>8, <1>9, <1>10 DEF CastInv

(* The message takes its file's id, which ends the uploads, and the id it is stored with. *)
LEMMA SaveKeeps ==
  ASSUME CastInv, NEW how \in {"stored", "early", "late"}, Broadcasts!SaveMessage(how)
  PROVE  CastInv'
<1> DEFINE f == body.file
           g == IF how # "early" THEN Broadcasts!Filled(f) ELSE f
<1>1. /\ step = "tx" /\ Len(txn) + 1 = Len(Broadcasts!Kinds)
      /\ uploads' = IF body.has /\ how # "early" /\ f.url /\ ~ f.id THEN uploads + 1 ELSE uploads
      /\ UNCHANGED <<request, sentTo>>
  BY DEF Broadcasts!SaveMessage
<1>2. f \in File
  BY DEF CastInv, BodyInv, Body
<1>3. /\ g \in File
      /\ f.id => g.id
      /\ how # "early" /\ f.url => g.id
  BY <1>2 DEF Broadcasts!Filled, File
<1> HIDE DEF g
<1>4. uploads' \in Nat /\ uploads' <= 1 /\ (uploads' = 1 => g.id)
  <2>1. uploads \in Nat /\ uploads <= 1 /\ (uploads = 1 => f.id)
    BY DEF CastInv, UploadInv, Broadcasts!TypeOK
  <2>2. CASE uploads' = uploads
    BY <1>3, <2>1, <2>2
  <2>3. CASE uploads' # uploads
    <3>1. how # "early" /\ f.url /\ ~ f.id /\ uploads' = uploads + 1
      BY <1>1, <2>3
    <3>2. uploads = 0 /\ g.id
      BY <1>3, <2>1, <3>1
    <3> QED
      BY <3>1, <3>2
  <2> QED
    BY <2>2, <2>3
<1>5. CASE how = "stored"
  <2> DEFINE r == [peer |-> at, kind |-> "message", id |-> lastId', vars |-> body.vars]
  <2>1. /\ lastId' = lastId + 1 /\ txn' = Append(txn, r) /\ body' = [body EXCEPT !.file = g, !.id = lastId']
        /\ UNCHANGED <<rows, at, step, failure>>
    BY <1>5 DEF Broadcasts!SaveMessage, Broadcasts!MessageId, g
  <2>2. lastId \in Nat /\ at \in Nat /\ body.vars \in BOOLEAN /\ txn \in Seq(Broadcasts!Row)
    BY DEF CastInv, Broadcasts!TypeOK, Broadcasts!InputRequest, BodyInv, Body
  <2>3. r \in Broadcasts!Row
    BY <2>1, <2>2 DEF Broadcasts!Row
  <2>4. r.peer = at /\ r.kind = "message" /\ r.id = lastId' /\ r.vars = body.vars
    OBVIOUS
  <2> HIDE DEF r
  <2>5. /\ body' \in Body
        /\ body'.id = lastId' /\ body'.vars = body.vars /\ body'.file = g
    <3>1. body \in Body /\ lastId' \in Nat /\ g \in File
      BY <1>3, <2>1, <2>2 DEF CastInv, BodyInv
    <3> QED
      BY <2>1, <3>1 DEF Body
  <2>6. Broadcasts!TypeOK'
    BY <1>1, <1>4, <2>1, <2>2, <2>3 DEF CastInv, Broadcasts!TypeOK
  <2>7. BodyInv' /\ UploadInv'
    BY <1>1, <1>4, <2>1, <2>5 DEF CastInv, BodyInv, UploadInv, Addressed
  <2>8. LoopInv' /\ Broadcasts!SentIsStored'
    BY <1>1, <2>1, SameTurn, SameSent DEF Serving
  <2>9. Broadcasts!Kinds[Len(txn) + 1] = "message" /\ Len(txn) < Len(Broadcasts!Kinds)
    <3>1. Len(txn) \in Nat
      BY <2>2
    <3> HIDE DEF r
    <3> QED
      BY <1>1, <3>1, KindsAre, KindsLen
  <2>10. TxnInv' /\ Len(txn') = Len(txn) + 1
    BY <1>1, <2>1, <2>4, <2>5, <2>9, OneMore DEF CastInv
  <2>11. Broadcasts!StoredWhole'
    <3>1. Broadcasts!Kinds' = Broadcasts!Kinds
      BY <1>1 DEF Broadcasts!Kinds
    <3>2. Broadcasts!StoredWhole /\ rows' = rows
      BY <2>1 DEF CastInv, RowsInv
    <3> QED
      BY <3>1, <3>2 DEF Broadcasts!StoredWhole
  <2>12. \A q \in rows' : q.kind = "message" => q.id <= lastId' /\ q.id < lastId'
    <3>1. \A q \in rows : q.id \in Nat
      BY DEF CastInv, Broadcasts!TypeOK, Broadcasts!Row
    <3> QED
      BY <2>1, <2>2, <3>1 DEF CastInv, RowsInv
  <2>13. RowsInv'
    BY <1>1, <2>1, <2>11, <2>12 DEF RowsInv
  <2> QED
    BY <2>6, <2>7, <2>8, <2>10, <2>13 DEF CastInv
<1>6. CASE how # "stored"
  <2>1. /\ txn' = <<>> /\ UNCHANGED <<rows, lastId>> /\ body' = [body EXCEPT !.file = g]
        /\ TurnOver
    BY <1>6 DEF Broadcasts!SaveMessage, Broadcasts!Rollback, TurnOver, g
  <2>2. /\ step' \in {"peer", "done"} /\ at' \in 0 .. Len(request.peers) + 1
        /\ failure' \in [Addressed -> Nat] /\ LoopInv'
    <3>1. step \in Serving /\ sentTo \subseteq sentTo' /\ request' = request
      BY <1>1 DEF Serving
    <3> QED
      BY <2>1, <3>1, TurnEnds
  <2>3. /\ body' \in Body
        /\ body'.file = g
    <3>1. body \in Body /\ g \in File
      BY <1>3 DEF CastInv, BodyInv
    <3> QED
      BY <2>1, <3>1 DEF Body
  <2>4. Broadcasts!TypeOK' /\ BodyInv' /\ UploadInv'
    BY <1>1, <1>4, <2>1, <2>2, <2>3 DEF CastInv, Broadcasts!TypeOK, BodyInv, UploadInv, Addressed
  <2>5. TxnInv' /\ RowsInv' /\ Broadcasts!SentIsStored'
    BY <1>1, <2>1, <2>2, NoTxn, SameRows, SameSent
  <2> QED
    BY <2>2, <2>4, <2>5 DEF CastInv
<1> QED
  BY <1>5, <1>6

LEMMA SameCast ==
  ASSUME CastInv, UNCHANGED broadcastVars
  PROVE  CastInv'
<1> USE DEF broadcastVars
<1>1. Broadcasts!TypeOK' /\ BodyInv' /\ UploadInv'
  BY DEF CastInv, Broadcasts!TypeOK, BodyInv, UploadInv, Addressed
<1>2. Broadcasts!Kinds' = Broadcasts!Kinds
  BY DEF Broadcasts!Kinds
<1>3. LoopInv' /\ TxnInv'
  BY <1>2 DEF CastInv, LoopInv, Broadcasts!Reached, TxnInv, RowWritten, Addressed
<1>4. RowsInv' /\ Broadcasts!SentIsStored'
  BY <1>2 DEF CastInv, RowsInv, Broadcasts!StoredWhole, Broadcasts!SentIsStored, HasHistory
<1> QED
  BY <1>1, <1>3, <1>4 DEF CastInv

LEMMA CastNext == CastInv /\ [Broadcasts!Next]_broadcastVars => CastInv'
<1> SUFFICES ASSUME CastInv, [Broadcasts!Next]_broadcastVars PROVE CastInv'
  OBVIOUS
<1>1. ASSUME NEW ok \in BOOLEAN, Broadcasts!FindClient(ok) \/ Broadcasts!FindGate(ok) \/ Broadcasts!FindApp(ok)
      PROVE  CastInv'
  BY <1>1, FindKeeps DEF Broadcasts!FindClient, Broadcasts!FindGate, Broadcasts!FindApp
<1>2. ASSUME NEW reached \in BOOLEAN, NEW ok \in BOOLEAN,
             Broadcasts!SendSimple(reached, ok) \/ Broadcasts!SendSocial(reached, ok) \/ Broadcasts!SendPortal(reached, ok)
      PROVE  CastInv'
  BY <1>2, CallKeeps DEF Broadcasts!SendSimple, Broadcasts!SendSocial, Broadcasts!SendPortal
<1> QED
  BY <1>1, <1>2, RequestKeeps, AuthenticationKeeps, ValidateKeeps, ExecuteKeeps, SaveKeeps, WriteFailsKeeps,
     WriteRowKeeps, CommitKeeps, CrashKeeps, SameCast DEF Broadcasts!Next

(* The invariant says what is promised. *)
LEMMA CastAnswered ==
  CastInv => /\ Broadcasts!AnswerComplete /\ Broadcasts!SentIsStored
             /\ Broadcasts!StoredWhole /\ Broadcasts!UploadedOnce
<1> SUFFICES ASSUME CastInv PROVE Broadcasts!AnswerComplete
  BY DEF CastInv, RowsInv, UploadInv, Broadcasts!UploadedOnce
<1>1. Addressed = 1 .. Len(request.peers) /\ Len(request.peers) \in Nat /\ failure \in [Addressed -> Nat]
  BY DEF CastInv, Broadcasts!TypeOK, Broadcasts!InputRequest, Addressed
<1> QED
  BY <1>1 DEF CastInv, LoopInv, Broadcasts!AnswerComplete, Addressed

-----------------------------------------------------------------------------
(* The router of events.                                                   *)

Leg == "leg"

(* The state a handler's commit leaves its seat in. *)
Into(k) == IF k = "invite" THEN "invited" ELSE IF k = "join" THEN "in" ELSE "out"

(* What a handler t has still to announce, r = task[t]: a channel of its list is told once, and the seat's owner
   once more by name, but for a join, which is announced in the list alone. *)
RowOK(r) ==
  /\ r.unread => r.to = {} /\ r.node = "none"
  /\ r.node # "none" => Leg \notin r.to
  /\ r.own => r.kind \notin {"join", "action"}
  /\ r.kind \in {"timeout", "action"} => ~ r.unread /\ r.to \subseteq {Leg}
  /\ r.about \notin r.must
  /\ r.told \in [Party -> Nat]
  /\ \A s \in Party \ {r.about} : r.told[s] <= 1 /\ (r.unread \/ s \in r.to => r.told[s] = 0)
  /\ r.own /\ (r.unread \/ r.about \in r.to) => r.told[r.about] = 0
  /\ r.own \/ r.unread \/ r.about \in r.to => r.told[r.about] <= 1
  /\ r.told[r.about] <= 2
  /\ r.kind = "join" => r.told[r.about] <= 1 /\ (r.unread \/ r.about \in r.to => r.told[r.about] = 0)
  /\ r.kind = "action" => r.told[r.about] = 0

(* No operator who was in the chat and still is has been passed over; who has left does not come back. *)
MustOK(r) ==
  \A s \in r.must : /\ seat[s] \in {"in", "out"}
                    /\ r.kind \notin {"timeout", "action"} /\ ~ r.failed /\ seat[s] = "in"
                         => r.unread \/ s \in r.to \/ r.told[s] = 1

(* No other handler is about this seat: it is as the commit left it until all is announced. *)
AloneOK(r) ==
  r.about \notin crossed /\ r.kind # "action" =>
    /\ r.told[r.about] <= 1
    /\ r.own \/ r.unread \/ r.to # {} \/ r.node # "none" => seat[r.about] = Into(r.kind)
    /\ r.kind # "join" => r.about \notin r.to /\ (r.own => r.told[r.about] = 0)

(* The owner of the seat is still to be told. *)
Pending(r) == r.own \/ (r.kind = "join" /\ (r.unread \/ r.about \in r.to))

TaskInv == \A t \in Task : Events!Running(t) => RowOK(task[t]) /\ MustOK(task[t]) /\ AloneOK(task[t])
ViewInv == \A s \in Party \ crossed :
             \/ view[s] = seat[s]
             \/ \E t \in Task : Events!Running(t) /\ task[t].about = s /\ (task[t].failed \/ Pending(task[t]))

(* Of handlers that do not share the gateway one has a call to make, of the host that served last, or waits for
   its answer. *)
CallOf(t) == Events!Running(t) /\ (Leg \in task[t].to \/ task[t].node # "none")
CallInv ==
  ~ shared =>
    /\ \A t, u \in Task : CallOf(t) /\ CallOf(u) => t = u
    /\ \A t \in Task : CallOf(t) => task[t].asked = host
    /\ \A t \in Task : CallOf(t) /\ task[t].node # "none" => served = task[t].node
    /\ (\A t \in Task : Events!Running(t) => task[t].node = "none") => host = served

EventInv == Events!TypeOK /\ TaskInv /\ ViewInv /\ CallInv /\ Events!VarsKept

(* What the proofs need to know of an announcement. *)
LEMMA RowTyped ==
  ASSUME Events!TypeOK, NEW t \in Task, Events!Running(t)
  PROVE  /\ task[t] \in Events!TaskRow /\ task[t].about \in Party /\ task[t].to \subseteq Party \cup {Leg}
         /\ task[t].must \subseteq Party /\ task[t].own \in BOOLEAN /\ task[t].unread \in BOOLEAN
         /\ task[t].kind \in {"invite", "join", "leave", "decline", "timeout", "action"}
         /\ task[t].asked \in Node \cup {"none"} /\ task[t].node \in Node \cup {"none"}
         /\ task[t].told \in [Party -> 0 .. 2] /\ task[t].failed \in BOOLEAN
BY DEF Events!TypeOK, Events!Running, Events!TaskRow, Leg

LEMMA NotIdle == ASSUME NEW r \in Events!TaskRow PROVE r # Events!Idle
BY DEF Events!TaskRow, Events!Idle

LEMMA EventsStart == Events!Init => EventInv
<1> SUFFICES ASSUME Events!Init PROVE EventInv
  OBVIOUS
<1>1. \A t \in Task : ~ Events!Running(t)
  BY DEF Events!Init, Events!Running
<1>2. Events!TypeOK
  <2>1. seat \in [Party -> Events!State] /\ view \in [Party -> Events!State]
    BY DEF Events!Init, Events!State
  <2>2. props \in [Key -> Events!Value] /\ wrote \in [Key -> Events!Value]
    BY DEF Events!Init, Events!Value
  <2>3. failsEv \in 0 .. MaxFails
    <3>1. MaxFails \in Nat
      BY ServicesAssumption
    <3>2. failsEv = 0
      BY DEF Events!Init
    <3> QED
      BY <3>1, <3>2
  <2>4. task \in [Task -> Events!TaskRow \cup {Events!Idle}]
    BY DEF Events!Init
  <2>5. up \subseteq Node /\ host \in Node \cup {"none"} /\ served \in Node \cup {"none"}
        /\ crossed \subseteq Party /\ shared \in BOOLEAN
    BY DEF Events!Init
  <2> QED
    BY <1>1, <2>1, <2>2, <2>3, <2>4, <2>5 DEF Events!Init, Events!TypeOK
<1>3. TaskInv /\ CallInv
  BY <1>1 DEF Events!Init, TaskInv, CallInv, CallOf
<1> QED
  BY <1>2, <1>3 DEF Events!Init, EventInv, ViewInv, Events!VarsKept

(* A step of one handler: q is what it has still to announce after it.  It may tell the owner of its seat. *)
LEMMA Turn ==
  ASSUME EventInv, NEW t \in Task, Events!Running(t), NEW q \in Events!TaskRow,
         task' = [task EXCEPT ![t] = q], seat' = seat, crossed' = crossed,
         q.about = task[t].about, q.kind = task[t].kind,
         RowOK(q), MustOK(q), AloneOK(q),
         \/ view' = view /\ (q.about \notin crossed /\ (task[t].failed \/ Pending(task[t])) => q.failed \/ Pending(q))
         \/ /\ view' = [view EXCEPT ![q.about] = Into(q.kind)]
            /\ q.kind # "action" /\ (q.about \notin crossed => seat[q.about] = Into(q.kind))
  PROVE  TaskInv' /\ ViewInv' /\ view' \in [Party -> Events!State]
         /\ task' \in [Task -> Events!TaskRow \cup {Events!Idle}]
         /\ \A u \in Task : Events!Running(u)' /\ task'[u].about \notin crossed' => task'[u].told \in [Party -> 0 .. 1]
<1> DEFINE p == task[t]
<1>1. /\ task'[t] = q /\ Events!Running(t)'
      /\ \A u \in Task \ {t} : task'[u] = task[u] /\ (Events!Running(u)' <=> Events!Running(u))
      /\ task' \in [Task -> Events!TaskRow \cup {Events!Idle}]
  BY NotIdle DEF EventInv, Events!TypeOK, Events!Running
<1>2. q.about \in Party /\ q.kind \in {"invite", "join", "leave", "decline", "timeout", "action"}
  BY DEF Events!TaskRow
<1>3. view' \in [Party -> Events!State]
  BY <1>2 DEF EventInv, Events!TypeOK, Events!State, Into
<1>4. TaskInv'
  <2> SUFFICES ASSUME NEW u \in Task, Events!Running(u)'
               PROVE  RowOK(task'[u]) /\ MustOK(task[u])' /\ AloneOK(task[u])'
    BY DEF TaskInv, RowOK
  <2>1. CASE u = t
    BY <1>1, <2>1 DEF MustOK, AloneOK
  <2>2. CASE u # t
    BY <1>1, <2>2 DEF EventInv, TaskInv, MustOK, AloneOK
  <2> QED
    BY <2>1, <2>2
<1>5. ViewInv'
  <2> SUFFICES ASSUME NEW s \in Party \ crossed, view'[s] # seat[s]
               PROVE  \E u \in Task : Events!Running(u)' /\ task'[u].about = s /\ (task'[u].failed \/ Pending(task'[u]))
    BY DEF ViewInv, Pending
  <2>1. view'[s] = view[s] /\ (s = q.about => view' = view)
    BY <1>2 DEF EventInv, Events!TypeOK
  <2>2. PICK u \in Task : Events!Running(u) /\ task[u].about = s /\ (task[u].failed \/ Pending(task[u]))
    BY <2>1 DEF EventInv, ViewInv
  <2>3. CASE u = t
    BY <1>1, <2>1, <2>2, <2>3 DEF EventInv, Events!TypeOK
  <2> QED
    BY <1>1, <2>2, <2>3
<1>6. ASSUME NEW u \in Task, Events!Running(u)', task'[u].about \notin crossed'
      PROVE  task'[u].told \in [Party -> 0 .. 1]
  <2>1. /\ task'[u].told \in [Party -> Nat] /\ task'[u].told[task'[u].about] <= 1
        /\ \A s \in Party \ {task'[u].about} : task'[u].told[s] <= 1
    BY <1>4, <1>6 DEF TaskInv, RowOK, AloneOK
  <2>2. \A s \in Party : task'[u].told[s] \in 0 .. 1
    BY <2>1
  <2> QED
    BY <2>1, <2>2
<1> QED
  BY <1>1, <1>3, <1>4, <1>5, <1>6

(* The rest of the types after a step of a handler. *)
LEMMA EventTypes ==
  ASSUME Events!TypeOK, view' \in [Party -> Events!State], task' \in [Task -> Events!TaskRow \cup {Events!Idle}],
         \A u \in Task : Events!Running(u)' /\ task'[u].about \notin crossed' => task'[u].told \in [Party -> 0 .. 1],
         seat' \in [Party -> Events!State], crossed' \subseteq Party, UNCHANGED up,
         host' \in Node \cup {"none"}, served' \in Node \cup {"none"},
         props' \in [Key -> Events!Value], wrote' \in [Key -> Events!Value],
         shared' \in BOOLEAN, failsEv' \in 0 .. MaxFails
  PROVE  Events!TypeOK'
BY DEF Events!TypeOK, Events!Running

LEMMA TurnKeeps ==
  ASSUME EventInv, NEW t \in Task, Events!Running(t), NEW q \in Events!TaskRow,
         task' = [task EXCEPT ![t] = q], seat' = seat, crossed' = crossed,
         q.about = task[t].about, q.kind = task[t].kind,
         RowOK(q), MustOK(q), AloneOK(q),
         \/ view' = view /\ (q.about \notin crossed /\ (task[t].failed \/ Pending(task[t])) => q.failed \/ Pending(q))
         \/ /\ view' = [view EXCEPT ![q.about] = Into(q.kind)]
            /\ q.kind # "action" /\ (q.about \notin crossed => seat[q.about] = Into(q.kind)),
         UNCHANGED up, host' \in Node \cup {"none"}, served' \in Node \cup {"none"},
         props' \in [Key -> Events!Value], wrote' \in [Key -> Events!Value],
         shared' \in BOOLEAN, failsEv' \in 0 .. MaxFails, CallInv', Events!VarsKept'
  PROVE  EventInv'
<1>1. /\ TaskInv' /\ ViewInv' /\ view' \in [Party -> Events!State]
      /\ task' \in [Task -> Events!TaskRow \cup {Events!Idle}]
      /\ \A u \in Task : Events!Running(u)' /\ task'[u].about \notin crossed' => task'[u].told \in [Party -> 0 .. 1]
  BY Turn
<1>2. seat' \in [Party -> Events!State] /\ crossed' \subseteq Party
  BY DEF EventInv, Events!TypeOK
<1>3. Events!TypeOK'
  BY <1>1, <1>2, EventTypes DEF EventInv
<1> QED
  BY <1>1, <1>3 DEF EventInv

(* A step of one handler that makes no new call and ends none that is under way. *)
LEMMA CallsStay ==
  ASSUME EventInv, NEW t \in Task, Events!Running(t), NEW q \in Events!TaskRow, task' = [task EXCEPT ![t] = q],
         q.to \subseteq task[t].to, q.asked = task[t].asked, q.node = task[t].node,
         UNCHANGED <<host, served, shared>>
  PROVE  CallInv'
<1>1. /\ task'[t] = q /\ Events!Running(t)'
      /\ \A u \in Task \ {t} : task'[u] = task[u] /\ (Events!Running(u)' <=> Events!Running(u))
  BY NotIdle DEF EventInv, Events!TypeOK, Events!Running
<1>2. \A u \in Task : /\ CallOf(u)' => CallOf(u)
                      /\ Events!Running(u)' <=> Events!Running(u)
                      /\ Events!Running(u) => task'[u].asked = task[u].asked /\ task'[u].node = task[u].node
  BY <1>1 DEF CallOf
<1> QED
  BY <1>2 DEF EventInv, CallInv, CallOf

LEMMA TellOwnerKeeps == ASSUME EventInv, NEW t \in Task, Events!TellOwner(t) PROVE EventInv'
<1> DEFINE p == task[t]
           q == [p EXCEPT !.own = FALSE, !.told = Events!Counted(t, p.about)]
<1>1. Events!Running(t) /\ p.own
  BY DEF Events!TellOwner, Events!Busy
<1>2. RowOK(p) /\ MustOK(p) /\ AloneOK(p)
  BY <1>1 DEF EventInv, TaskInv
<1>3. /\ p \in Events!TaskRow /\ p.about \in Party /\ p.told \in [Party -> 0 .. 2] /\ p.told[p.about] \in 0 .. 1
      /\ p.kind \in {"invite", "leave", "decline", "timeout"}
  BY <1>1, <1>2, RowTyped DEF EventInv, RowOK
<1>4. q \in Events!TaskRow /\ task' = [task EXCEPT ![t] = q]
  BY <1>3 DEF Events!TellOwner, Events!Counted, Events!TaskRow, EventInv, Events!TypeOK
<1>5. /\ q.about = p.about /\ q.kind = p.kind /\ q.own = FALSE /\ q.unread = p.unread /\ q.to = p.to
      /\ q.must = p.must /\ q.failed = p.failed /\ q.asked = p.asked /\ q.node = p.node
      /\ q.told \in [Party -> 0 .. 2] /\ q.told[p.about] = p.told[p.about] + 1
      /\ \A s \in Party \ {p.about} : q.told[s] = p.told[s]
  <2>1. /\ q.about = p.about /\ q.kind = p.kind /\ q.own = FALSE /\ q.unread = p.unread /\ q.to = p.to
        /\ q.must = p.must /\ q.failed = p.failed /\ q.asked = p.asked /\ q.node = p.node
    BY <1>3 DEF Events!TaskRow
  <2>2. q.told = [p.told EXCEPT ![p.about] = p.told[p.about] + 1]
    BY <1>3 DEF Events!TaskRow, Events!Counted
  <2>3. q.told \in [Party -> 0 .. 2]
    BY <1>4 DEF Events!TaskRow
  <2> HIDE DEF q, p
  <2> QED
    BY <1>3, <2>1, <2>2, <2>3
<1> HIDE DEF q
<1>6. RowOK(q)
  BY <1>1, <1>2, <1>3, <1>5 DEF RowOK
<1>7. MustOK(q) /\ AloneOK(q)
  <2>1. MustOK(q)
    <3> SUFFICES ASSUME NEW m \in p.must, p.kind \notin {"timeout", "action"}, ~ p.failed, seat[m] = "in"
                 PROVE  q.unread \/ m \in q.to \/ q.told[m] = 1
      BY <1>2, <1>5 DEF MustOK
    <3>1. m \in Party /\ m # p.about /\ (p.unread \/ m \in p.to \/ p.told[m] = 1)
      BY <1>1, <1>2, RowTyped DEF MustOK, RowOK, EventInv
    <3> QED
      BY <1>5, <3>1
  <2>2. AloneOK(q)
    <3>1. p.about \notin crossed => p.told[p.about] = 0 /\ p.about \notin p.to /\ seat[p.about] = Into(p.kind)
      BY <1>1, <1>2, <1>3 DEF AloneOK
    <3> QED
      BY <1>3, <1>5, <3>1 DEF AloneOK
  <2> QED
    BY <2>1, <2>2
<1>8. view' = [view EXCEPT ![q.about] = Into(q.kind)] /\ q.kind # "action"
      /\ (q.about \notin crossed => seat[q.about] = Into(q.kind))
  <2>1. view' = [view EXCEPT ![p.about] = Events!Seen(p.kind)]
    BY DEF Events!TellOwner
  <2>2. Events!Seen(p.kind) = Into(p.kind)
    BY <1>3 DEF Events!Seen, Into
  <2> QED
    BY <1>1, <1>2, <1>3, <1>5, <2>1, <2>2 DEF AloneOK
<1>9. CallInv'
  BY <1>1, <1>4, <1>5, CallsStay DEF Events!TellOwner
<1>10. UNCHANGED <<seat, crossed, up, host, served, props, wrote, shared, failsEv>>
  BY DEF Events!TellOwner
<1> QED
  BY <1>1, <1>4, <1>5, <1>6, <1>7, <1>8, <1>9, <1>10, TurnKeeps DEF EventInv, Events!TypeOK, Events!VarsKept

LEMMA TellMemberKeeps ==
  ASSUME EventInv, NEW t \in Task, NEW s \in Party, Events!TellMember(t, s) PROVE EventInv'
<1> DEFINE p == task[t]
           q == [p EXCEPT !.to = @ \ {s}, !.told = Events!Counted(t, s)]
<1>1. Events!Running(t) /\ s \in p.to
  BY DEF Events!TellMember, Events!Busy
<1>2. RowOK(p) /\ MustOK(p) /\ AloneOK(p) /\ s # Leg
  BY <1>1, ServicesAssumption DEF EventInv, TaskInv, Leg
<1>3. /\ p \in Events!TaskRow /\ p.about \in Party /\ p.told \in [Party -> 0 .. 2] /\ p.told[s] \in 0 .. 1
      /\ p.kind \in {"invite", "join", "leave", "decline"} /\ p.unread = FALSE /\ p.to \subseteq Party \cup {Leg}
  <2>1. p.told[s] \in 0 .. 2 /\ p.told[s] <= 1
    BY <1>1, <1>2, RowTyped DEF EventInv, RowOK
  <2> QED
    BY <1>1, <1>2, <2>1, RowTyped DEF EventInv, RowOK
<1>4. q \in Events!TaskRow /\ task' = [task EXCEPT ![t] = q]
  <2>1. Events!Counted(t, s) \in [Party -> 0 .. 2]
    BY <1>3 DEF Events!Counted
  <2>2. q \in Events!TaskRow
    BY <1>3, <2>1 DEF Events!TaskRow, Leg
  <2> QED
    BY <2>2 DEF Events!TellMember, EventInv, Events!TypeOK
<1>5. /\ q.about = p.about /\ q.kind = p.kind /\ q.own = p.own /\ q.unread = FALSE /\ q.to = p.to \ {s}
      /\ q.must = p.must /\ q.failed = p.failed /\ q.asked = p.asked /\ q.node = p.node
      /\ q.told \in [Party -> 0 .. 2] /\ q.told[s] = p.told[s] + 1
      /\ \A m \in Party \ {s} : q.told[m] = p.told[m]
  <2>1. /\ q.about = p.about /\ q.kind = p.kind /\ q.own = p.own /\ q.unread = p.unread /\ q.to = p.to \ {s}
        /\ q.must = p.must /\ q.failed = p.failed /\ q.asked = p.asked /\ q.node = p.node
    BY <1>3 DEF Events!TaskRow
  <2>2. q.told = [p.told EXCEPT ![s] = p.told[s] + 1]
    BY <1>3 DEF Events!TaskRow, Events!Counted
  <2>3. q.told \in [Party -> 0 .. 2]
    BY <1>4 DEF Events!TaskRow
  <2> HIDE DEF q, p
  <2> QED
    BY <1>3, <2>1, <2>2, <2>3
<1> HIDE DEF q
<1>6. RowOK(q)
  BY <1>1, <1>2, <1>3, <1>5 DEF RowOK
<1>7. MustOK(q) /\ AloneOK(q)
  <2>1. MustOK(q)
    <3> SUFFICES ASSUME NEW m \in p.must, p.kind \notin {"timeout", "action"}, ~ p.failed, seat[m] = "in"
                 PROVE  m \in q.to \/ q.told[m] = 1
      BY <1>2, <1>5 DEF MustOK
    <3>1. m \in Party /\ m # p.about /\ (m \in p.to \/ p.told[m] = 1)
      BY <1>1, <1>2, <1>3, RowTyped DEF MustOK, RowOK, EventInv
    <3>2. m = s => p.told[s] = 0
      BY <1>1, <1>2, <3>1 DEF RowOK
    <3> QED
      BY <1>5, <3>1, <3>2
  <2>2. AloneOK(q)
    <3>1. p.about \notin crossed => p.kind = "join" \/ s # p.about
      BY <1>1, <1>2, <1>3 DEF AloneOK
    <3> QED
      BY <1>1, <1>2, <1>3, <1>5, <1>6, <3>1 DEF AloneOK, RowOK
  <2> QED
    BY <2>1, <2>2
<1>8. \/ view' = view /\ (p.failed \/ Pending(p) => q.failed \/ Pending(q))
      \/ /\ view' = [view EXCEPT ![q.about] = Into(q.kind)]
         /\ q.kind # "action" /\ (q.about \notin crossed => seat[q.about] = Into(q.kind))
  <2>1. CASE s = p.about /\ p.kind = "join"
    <3>1. view' = [view EXCEPT ![p.about] = Events!Seen(p.kind)]
      BY <2>1 DEF Events!TellMember
    <3>2. Events!Seen(p.kind) = Into(p.kind)
      BY <2>1 DEF Events!Seen, Into
    <3> QED
      BY <1>1, <1>2, <1>3, <1>5, <2>1, <3>1, <3>2 DEF AloneOK
  <2>2. CASE ~ (s = p.about /\ p.kind = "join")
    <3>1. view' = view
      BY <2>2 DEF Events!TellMember
    <3> QED
      BY <1>1, <1>3, <1>5, <2>2, <3>1 DEF Pending
  <2> QED
    BY <2>1, <2>2
<1>9. CallInv'
  BY <1>1, <1>4, <1>5, CallsStay DEF Events!TellMember
<1>10. UNCHANGED <<seat, crossed, up, host, served, props, wrote, shared, failsEv>>
  BY DEF Events!TellMember
<1> QED
  BY <1>1, <1>4, <1>5, <1>6, <1>7, <1>8, <1>9, <1>10, TurnKeeps DEF EventInv, Events!TypeOK, Events!VarsKept

(* A step by which one handler tells no operator: it has less to do, and has failed if it is not the gateway's call. *)
LEMMA Quiet ==
  ASSUME EventInv, NEW t \in Task, Events!Running(t), NEW q \in Events!TaskRow,
         q.about = task[t].about, q.kind = task[t].kind, q.must = task[t].must, q.told = task[t].told,
         q.own => task[t].own, q.unread => task[t].unread, q.to \subseteq task[t].to,
         q.node = "none" \/ q.node = task[t].node \/ Leg \in task[t].to \ q.to,
         \/ q.failed = TRUE
         \/ q.failed = task[t].failed /\ q.own = task[t].own /\ q.unread = task[t].unread /\ task[t].to \subseteq q.to \cup {Leg}
  PROVE  RowOK(q) /\ MustOK(q) /\ AloneOK(q)
         /\ (task[t].failed \/ Pending(task[t]) => q.failed \/ Pending(q))
<1> DEFINE p == task[t]
<1>1. RowOK(p) /\ MustOK(p) /\ AloneOK(p)
  BY DEF EventInv, TaskInv
<1>2. p \in Events!TaskRow /\ p.about \in Party /\ p.must \subseteq Party /\ Leg \notin Party
  BY RowTyped, ServicesAssumption DEF EventInv, Leg
<1> HIDE DEF p
<1>3. RowOK(q)
  BY <1>1, <1>2 DEF RowOK, p
<1>4. MustOK(q)
  BY <1>1, <1>2 DEF MustOK, p
<1>5. AloneOK(q)
  BY <1>1, <1>2 DEF AloneOK, p
<1>6. p.failed \/ Pending(p) => q.failed \/ Pending(q)
  BY <1>2 DEF Pending, p
<1> QED
  BY <1>3, <1>4, <1>5, <1>6 DEF p

LEMMA TellFailsKeeps == ASSUME EventInv, NEW t \in Task, Events!TellFails(t) PROVE EventInv'
<1> DEFINE p == task[t]
<1>1. Events!Running(t) /\ p \in Events!TaskRow
  BY RowTyped DEF Events!TellFails, Events!Busy, EventInv
<1>2. UNCHANGED <<seat, view, crossed, up, host, served, props, wrote, shared>> /\ failsEv' \in 0 .. MaxFails
  <2>1. failsEv \in 0 .. MaxFails /\ failsEv < MaxFails /\ failsEv' = failsEv + 1
    BY DEF Events!TellFails, EventInv, Events!TypeOK
  <2>2. failsEv' \in 0 .. MaxFails
    BY <2>1, ServicesAssumption
  <2> QED
    BY <2>2 DEF Events!TellFails
<1>3. ASSUME NEW q \in Events!TaskRow, task' = [task EXCEPT ![t] = q],
             q.about = p.about, q.kind = p.kind, q.must = p.must, q.told = p.told, q.asked = p.asked,
             q.node = p.node, q.unread = p.unread, q.own => p.own, q.to \subseteq p.to, q.failed = TRUE
      PROVE  EventInv'
  <2>1. RowOK(q) /\ MustOK(q) /\ AloneOK(q) /\ (p.failed \/ Pending(p) => q.failed \/ Pending(q))
    BY <1>1, <1>3, Quiet
  <2>2. CallInv'
    BY <1>1, <1>2, <1>3, CallsStay
  <2> QED
    BY <1>1, <1>2, <1>3, <2>1, <2>2, TurnKeeps DEF EventInv, Events!TypeOK, Events!VarsKept
<1>4. CASE p.own /\ task' = [task EXCEPT ![t].own = FALSE, ![t].failed = TRUE]
  <2> DEFINE q == [p EXCEPT !.own = FALSE, !.failed = TRUE]
  <2>1. q \in Events!TaskRow /\ q.about = p.about /\ q.kind = p.kind /\ q.must = p.must /\ q.told = p.told
        /\ q.asked = p.asked /\ q.node = p.node /\ q.unread = p.unread /\ q.own = FALSE /\ q.to = p.to
        /\ q.failed = TRUE
    BY <1>1 DEF Events!TaskRow
  <2>2. task' = [task EXCEPT ![t] = q]
    BY <1>4 DEF EventInv, Events!TypeOK
  <2> HIDE DEF q
  <2> QED
    BY <1>3, <1>4, <2>1, <2>2
<1>5. ASSUME NEW c \in p.to, task' = [task EXCEPT ![t].to = @ \ {c}, ![t].failed = TRUE] PROVE EventInv'
  <2> DEFINE q == [p EXCEPT !.to = @ \ {c}, !.failed = TRUE]
  <2>1. q \in Events!TaskRow /\ q.about = p.about /\ q.kind = p.kind /\ q.must = p.must /\ q.told = p.told
        /\ q.asked = p.asked /\ q.node = p.node /\ q.unread = p.unread /\ q.own = p.own /\ q.to = p.to \ {c}
        /\ q.failed = TRUE
    BY <1>1 DEF Events!TaskRow
  <2>2. task' = [task EXCEPT ![t] = q]
    BY <1>5 DEF EventInv, Events!TypeOK
  <2> HIDE DEF q
  <2> QED
    BY <1>3, <2>1, <2>2
<1> QED
  BY <1>4, <1>5 DEF Events!TellFails

LEMMA ReadFailsKeeps == ASSUME EventInv, NEW t \in Task, Events!ReadFails(t) PROVE EventInv'
<1> DEFINE p == task[t]
           q == [p EXCEPT !.unread = FALSE, !.failed = TRUE]
<1>1. Events!Running(t) /\ p \in Events!TaskRow
  BY RowTyped DEF Events!ReadFails, Events!Busy, EventInv
<1>2. UNCHANGED <<seat, view, crossed, up, host, served, props, wrote, shared>> /\ failsEv' \in 0 .. MaxFails
  <2>1. failsEv \in 0 .. MaxFails /\ failsEv < MaxFails /\ failsEv' = failsEv + 1
    BY DEF Events!ReadFails, EventInv, Events!TypeOK
  <2>2. failsEv' \in 0 .. MaxFails
    BY <2>1, ServicesAssumption
  <2> QED
    BY <2>2 DEF Events!ReadFails
<1>3. q \in Events!TaskRow /\ q.about = p.about /\ q.kind = p.kind /\ q.must = p.must /\ q.told = p.told
      /\ q.asked = p.asked /\ q.node = p.node /\ q.unread = FALSE /\ q.own = p.own /\ q.to = p.to
      /\ q.failed = TRUE
  BY <1>1 DEF Events!TaskRow
<1>4. task' = [task EXCEPT ![t] = q]
  BY DEF Events!ReadFails, EventInv, Events!TypeOK
<1> HIDE DEF q
<1>5. RowOK(q) /\ MustOK(q) /\ AloneOK(q) /\ (p.failed \/ Pending(p) => q.failed \/ Pending(q))
  BY <1>1, <1>3, Quiet
<1>6. CallInv'
  BY <1>1, <1>2, <1>3, <1>4, CallsStay
<1> QED
  BY <1>1, <1>2, <1>3, <1>4, <1>5, <1>6, TurnKeeps DEF EventInv, Events!TypeOK, Events!VarsKept

LEMMA GetChannelsKeeps == ASSUME EventInv, NEW t \in Task, Events!GetChannels(t) PROVE EventInv'
<1> DEFINE p == task[t]
           q == [p EXCEPT !.unread = FALSE, !.to = Events!Recipients(t), !.asked = host]
<1>1. Events!Running(t) /\ p \in Events!TaskRow /\ p.unread = TRUE
  BY RowTyped DEF Events!GetChannels, Events!Busy, EventInv
<1>2. UNCHANGED <<seat, view, crossed, up, host, served, props, wrote, failsEv>>
      /\ (~ shared' => ~ shared /\ ~ (Events!Calling /\ Leg \in Events!Recipients(t)))
  BY DEF Events!GetChannels, Leg
<1>3. RowOK(p) /\ MustOK(p) /\ AloneOK(p) /\ Leg \notin Party
      /\ p.about \in Party /\ p.must \subseteq Party /\ p.node = "none" /\ p.to = {} /\ p.told \in [Party -> 0 .. 2]
      /\ p.kind \in {"invite", "join", "leave", "decline"}
  <2>1. RowOK(p) /\ MustOK(p) /\ AloneOK(p)
    BY <1>1 DEF EventInv, TaskInv
  <2>2. Leg \notin Party /\ p.about \in Party /\ p.must \subseteq Party /\ p.told \in [Party -> 0 .. 2]
    BY <1>1, ServicesAssumption, RowTyped DEF EventInv, Leg
  <2>3. p.kind \in {"invite", "join", "leave", "decline", "timeout", "action"}
    BY <1>1, RowTyped DEF EventInv
  <2> QED
    BY <1>1, <2>1, <2>2, <2>3 DEF RowOK
<1>4. /\ Events!Recipients(t) \subseteq Party \cup {Leg}
      /\ \A s \in Party : s \in Events!Recipients(t) <=> seat[s] = "in"
  BY <1>3 DEF Events!Recipients, Events!Open, Leg
<1>5. q \in Events!TaskRow /\ q.about = p.about /\ q.kind = p.kind /\ q.must = p.must /\ q.told = p.told
      /\ q.asked = host /\ q.node = p.node /\ q.unread = FALSE /\ q.own = p.own
      /\ q.to = Events!Recipients(t) /\ q.failed = p.failed
  BY <1>1, <1>4 DEF Events!TaskRow, EventInv, Events!TypeOK, Leg
<1>6. task' = [task EXCEPT ![t] = q]
  BY DEF Events!GetChannels, EventInv, Events!TypeOK
<1> HIDE DEF q
<1>7. RowOK(q)
  BY <1>1, <1>3, <1>5 DEF RowOK
<1>8. MustOK(q)
  BY <1>1, <1>3, <1>4, <1>5 DEF MustOK
<1>9. AloneOK(q) /\ (q.about \notin crossed /\ (p.failed \/ Pending(p)) => q.failed \/ Pending(q))
  <2>1. p.about \notin crossed => seat[p.about] = Into(p.kind)
    BY <1>1, <1>3 DEF AloneOK
  <2>2. p.about \notin crossed => (p.about \in q.to <=> p.kind = "join")
    BY <1>3, <1>4, <1>5, <2>1 DEF Into
  <2> QED
    BY <1>1, <1>3, <1>5, <2>1, <2>2 DEF AloneOK, RowOK, Pending
<1>10. CallInv'
  <2> SUFFICES ASSUME ~ shared' PROVE CallInv'
    BY DEF CallInv
  <2>1. /\ task'[t] = q /\ Events!Running(t)'
        /\ \A u \in Task \ {t} : task'[u] = task[u] /\ (Events!Running(u)' <=> Events!Running(u))
    BY <1>1, <1>5, <1>6, NotIdle DEF EventInv, Events!TypeOK, Events!Running
  <2>2. ASSUME NEW u \in Task, CallOf(u)', task'[u].node # "none" PROVE served' = task'[u].node
    BY <1>2, <1>3, <1>5, <2>1, <2>2 DEF CallOf, EventInv, CallInv
  <2>3. ASSUME NEW u \in Task, CallOf(u)', u # t PROVE CallOf(u) /\ Events!Calling
    BY <2>1, <2>3 DEF CallOf, Events!Calling, Events!Busy, Events!Done, Leg
  <2>4. ASSUME NEW u \in Task, CallOf(u)', NEW v \in Task, CallOf(v)' PROVE u = v
    BY <1>2, <1>3, <1>5, <2>1, <2>3, <2>4 DEF CallOf, EventInv, CallInv
  <2>5. ASSUME \A u \in Task : Events!Running(u)' => task'[u].node = "none" PROVE host' = served'
    BY <1>1, <1>2, <1>3, <2>1, <2>5 DEF EventInv, CallInv
  <2>6. ASSUME NEW u \in Task, CallOf(u)' PROVE task'[u].asked = host'
    BY <1>2, <1>3, <1>5, <2>1, <2>6 DEF CallOf, EventInv, CallInv
  <2> QED
    BY <2>2, <2>4, <2>5, <2>6 DEF CallInv
<1>11. shared' \in BOOLEAN
  BY DEF Events!GetChannels, EventInv, Events!TypeOK
<1> QED
  BY <1>1, <1>2, <1>5, <1>6, <1>7, <1>8, <1>9, <1>10, <1>11, TurnKeeps DEF EventInv, Events!TypeOK, Events!VarsKept

LEMMA CallGatewayKeeps == ASSUME EventInv, NEW t \in Task, NEW n \in Node, Events!CallGateway(t, n) PROVE EventInv'
<1> DEFINE p == task[t]
           q == [p EXCEPT !.to = @ \ {Leg}, !.node = n]
<1>1. Events!Running(t) /\ p \in Events!TaskRow /\ Leg \in p.to /\ n # "none"
  BY RowTyped, ServicesAssumption DEF Events!CallGateway, Events!Busy, EventInv, Leg
<1>2. UNCHANGED <<seat, view, crossed, up, host, props, wrote, shared, failsEv>> /\ served' = n
  BY DEF Events!CallGateway
<1>3. q \in Events!TaskRow /\ q.about = p.about /\ q.kind = p.kind /\ q.must = p.must /\ q.told = p.told
      /\ q.asked = p.asked /\ q.node = n /\ q.unread = p.unread /\ q.own = p.own /\ q.to = p.to \ {Leg}
      /\ q.failed = p.failed
  BY <1>1 DEF Events!TaskRow, Leg
<1>4. task' = [task EXCEPT ![t] = q]
  BY DEF Events!CallGateway, EventInv, Events!TypeOK, Leg
<1> HIDE DEF q
<1>5. RowOK(q) /\ MustOK(q) /\ AloneOK(q) /\ (p.failed \/ Pending(p) => q.failed \/ Pending(q))
  BY <1>1, <1>3, Quiet
<1>6. CallInv'
  <2> SUFFICES ASSUME ~ shared' PROVE CallInv'
    BY DEF CallInv
  <2>1. /\ task'[t] = q /\ Events!Running(t)'
        /\ \A u \in Task \ {t} : task'[u] = task[u] /\ (Events!Running(u)' <=> Events!Running(u))
    BY <1>1, <1>3, <1>4, NotIdle DEF EventInv, Events!TypeOK, Events!Running
  <2>2. CallOf(t) /\ \A u \in Task : CallOf(u)' => CallOf(u)
    BY <1>1, <2>1 DEF CallOf
  <2>3. \A u \in Task : CallOf(u)' => u = t
    BY <1>2, <2>2 DEF EventInv, CallInv
  <2>4. p.asked = host
    BY <1>2, <2>2 DEF EventInv, CallInv
  <2> QED
    BY <1>1, <1>2, <1>3, <2>1, <2>3, <2>4 DEF CallInv
<1> QED
  BY <1>1, <1>2, <1>3, <1>4, <1>5, <1>6, TurnKeeps DEF EventInv, Events!TypeOK, Events!VarsKept

(* Variables are written to the channel as they are counted. *)
LEMMA Bound ==
  ASSUME EventInv, NEW k \in Key, NEW v \in Events!Value, Events!Bind([x \in {k} |-> v])
  PROVE  props' \in [Key -> Events!Value] /\ wrote' \in [Key -> Events!Value] /\ Events!VarsKept'
BY DEF Events!Bind, Events!BindChannel, EventInv, Events!TypeOK, Events!VarsKept

LEMMA GatewayAnswersKeeps == ASSUME EventInv, NEW t \in Task, Events!GatewayAnswers(t) PROVE EventInv'
<1> DEFINE p == task[t]
           q == [p EXCEPT !.node = "none"]
<1>1. Events!Running(t) /\ p \in Events!TaskRow /\ p.node # "none" /\ p.node \in Node \cup {"none"}
  BY RowTyped DEF Events!GatewayAnswers, Events!Busy, EventInv
<1>2. UNCHANGED <<seat, view, crossed, up, served, shared, failsEv>>
  BY DEF Events!GatewayAnswers
<1>3. q \in Events!TaskRow /\ q.about = p.about /\ q.kind = p.kind /\ q.must = p.must /\ q.told = p.told
      /\ q.asked = p.asked /\ q.node = "none" /\ q.unread = p.unread /\ q.own = p.own /\ q.to = p.to
      /\ q.failed = p.failed
  BY <1>1 DEF Events!TaskRow
<1>4. task' = [task EXCEPT ![t] = q]
  BY DEF Events!GatewayAnswers, EventInv, Events!TypeOK
<1> HIDE DEF q
<1>5. RowOK(q) /\ MustOK(q) /\ AloneOK(q) /\ (p.failed \/ Pending(p) => q.failed \/ Pending(q))
  BY <1>1, <1>3, Quiet
<1>6. props' \in [Key -> Events!Value] /\ wrote' \in [Key -> Events!Value] /\ Events!VarsKept'
  <2>1. CASE UNCHANGED <<props, wrote>>
    BY <2>1 DEF EventInv, Events!TypeOK, Events!VarsKept
  <2>2. CASE \E k \in Key, v \in Events!Value : Events!Bind([x \in {k} |-> v])
    BY <2>2, Bound
  <2> QED
    BY <2>1, <2>2 DEF Events!GatewayAnswers
<1>7. host' = (IF p.node # p.asked THEN p.node ELSE host) /\ host' \in Node \cup {"none"}
  BY <1>1 DEF Events!GatewayAnswers, Events!Relocated, EventInv, Events!TypeOK
<1>8. CallInv'
  <2> SUFFICES ASSUME ~ shared' PROVE CallInv'
    BY DEF CallInv
  <2>1. /\ task'[t] = q /\ Events!Running(t)'
        /\ \A u \in Task \ {t} : task'[u] = task[u] /\ (Events!Running(u)' <=> Events!Running(u))
    BY <1>1, <1>3, <1>4, NotIdle DEF EventInv, Events!TypeOK, Events!Running
  <2>2. /\ CallOf(t) /\ p.asked = host /\ served = p.node /\ Leg \notin p.to
        /\ \A u \in Task : CallOf(u) => u = t
    BY <1>1, <1>2 DEF CallOf, EventInv, CallInv, TaskInv, RowOK
  <2>3. \A u \in Task : ~ CallOf(u)'
    BY <1>3, <2>1, <2>2 DEF CallOf
  <2>4. host' = served'
    BY <1>2, <1>7, <2>2
  <2> QED
    BY <2>3, <2>4 DEF CallInv
<1> QED
  BY <1>1, <1>2, <1>3, <1>4, <1>5, <1>6, <1>7, <1>8, TurnKeeps DEF EventInv, Events!TypeOK

(* A handler whose statement is committed: none of its channels is told yet. *)
LEMMA AnnouncementKeeps ==
  ASSUME EventInv, NEW t \in Task, NEW s \in Party, NEW k \in {"invite", "join", "leave", "decline", "timeout"},
         Events!Commit(t, k, s, IF k = "invite" THEN "none" ELSE IF k = "leave" THEN "in" ELSE "invited", Into(k))
  PROVE  EventInv'
<1> DEFINE q == [kind |-> k, about |-> s, own |-> k # "join", unread |-> k # "timeout", to |-> {},
                 asked |-> "none", node |-> "none", must |-> {m \in Party \ {s} : seat[m] = "in"},
                 told |-> [m \in Party |-> 0], failed |-> FALSE]
<1>1. /\ task[t] = Events!Idle /\ seat[s] = (IF k = "invite" THEN "none" ELSE IF k = "leave" THEN "in" ELSE "invited")
      /\ seat' = [seat EXCEPT ![s] = Into(k)] /\ task' = [task EXCEPT ![t] = q]
      /\ crossed' = IF \E o \in Task : Events!Busy(o) /\ task[o].about = s THEN crossed \cup {s} ELSE crossed
      /\ UNCHANGED <<view, up, host, served, props, wrote, shared, failsEv>>
  BY DEF Events!Commit
<1>2. q \in Events!TaskRow
  BY DEF Events!TaskRow
<1>3. /\ q.kind = k /\ q.about = s /\ q.own = (k # "join") /\ q.unread = (k # "timeout") /\ q.to = {}
      /\ q.node = "none" /\ q.must = {m \in Party \ {s} : seat[m] = "in"} /\ q.failed = FALSE
      /\ q.told \in [Party -> 0 .. 1] /\ \A m \in Party : q.told[m] = 0
  OBVIOUS
<1> HIDE DEF q
<1>4. /\ task'[t] = q /\ Events!Running(t)' /\ ~ Events!Running(t)
      /\ \A u \in Task \ {t} : task'[u] = task[u] /\ (Events!Running(u)' <=> Events!Running(u))
      /\ task' \in [Task -> Events!TaskRow \cup {Events!Idle}]
  BY <1>1, <1>2, NotIdle DEF EventInv, Events!TypeOK, Events!Running
<1>5. /\ seat' \in [Party -> Events!State] /\ seat'[s] = Into(k) /\ \A m \in Party \ {s} : seat'[m] = seat[m]
      /\ crossed \subseteq crossed' /\ crossed' \subseteq Party
      /\ (s \notin crossed' => \A u \in Task : task[u].about = s => ~ Events!Busy(u))
  BY <1>1 DEF EventInv, Events!TypeOK, Events!State, Into
<1>6. \A u \in Task : Events!Running(u) => RowOK(task[u]) /\ MustOK(task[u]) /\ AloneOK(task[u])
  BY DEF EventInv, TaskInv
<1>7. TaskInv'
  <2> SUFFICES ASSUME NEW u \in Task, Events!Running(u)'
               PROVE  RowOK(task'[u]) /\ MustOK(task[u])' /\ AloneOK(task[u])'
    BY DEF TaskInv, RowOK
  <2>1. CASE u = t
    <3>1. RowOK(q)
      <4>1. q.told \in [Party -> Nat] /\ q.told[s] = 0 /\ \A m \in Party \ {s} : q.told[m] = 0
        <5>1. q.told \in [Party -> Nat]
          BY <1>3
        <5> QED
          BY <1>3, <5>1
      <4>2. q.own => q.kind \notin {"join", "action"}
        BY <1>3
      <4>3. q.kind \in {"timeout", "action"} => ~ q.unread
        BY <1>3
      <4> QED
        BY <1>3, <4>1, <4>2, <4>3 DEF RowOK
    <3>2. MustOK(task[u])'
      BY <1>3, <1>4, <1>5, <2>1 DEF MustOK
    <3>3. AloneOK(task[u])'
      BY <1>3, <1>4, <1>5, <2>1 DEF AloneOK
    <3> QED
      BY <1>4, <2>1, <3>1, <3>2, <3>3
  <2>2. CASE u # t
    <3>1. task'[u] = task[u] /\ Events!Running(u) /\ RowOK(task[u]) /\ MustOK(task[u]) /\ AloneOK(task[u])
      BY <1>4, <1>6, <2>2
    <3>2. \A m \in task[u].must : m # s \/ k = "leave"
      BY <1>1, <3>1 DEF MustOK
    <3>3. MustOK(task[u])'
      <4>1. task[u].must \subseteq Party
        BY <3>1, RowTyped DEF EventInv
      <4>2. \A m \in task[u].must : seat'[m] \in {"in", "out"} /\ (seat'[m] = "in" => seat[m] = "in")
        BY <1>5, <3>1, <3>2, <4>1 DEF MustOK, Into
      <4> QED
        BY <3>1, <4>2 DEF MustOK
    <3>4. AloneOK(task[u])'
      <4>1. task[u].about \in Party /\ task[u].own \in BOOLEAN /\ task[u].unread \in BOOLEAN
        BY <3>1, RowTyped DEF EventInv
      <4>2. CASE task[u].about # s
        BY <1>5, <3>1, <4>1, <4>2 DEF AloneOK
      <4>3. CASE task[u].about = s /\ s \notin crossed'
        <5>1. ~ (task[u].own \/ task[u].unread \/ task[u].to # {} \/ task[u].node # "none")
          BY <1>5, <3>1, <4>3 DEF Events!Busy, Events!Done
        <5> QED
          BY <1>5, <3>1, <4>3, <5>1 DEF AloneOK
      <4> QED
        BY <3>1, <4>2, <4>3 DEF AloneOK
    <3> QED
      BY <3>1, <3>3, <3>4
  <2> QED
    BY <2>1, <2>2
<1>8. ViewInv'
  <2> SUFFICES ASSUME NEW m \in Party, m \notin crossed', view'[m] # seat'[m]
               PROVE  \E u \in Task : Events!Running(u)' /\ task'[u].about = m /\ (task'[u].failed \/ Pending(task'[u]))
    BY DEF ViewInv, Pending
  <2>1. CASE m = s
    BY <1>3, <1>4, <2>1 DEF Pending
  <2>2. CASE m # s
    <3>1. m \notin crossed /\ view[m] # seat[m]
      BY <1>1, <1>5, <2>2
    <3>2. PICK u \in Task : Events!Running(u) /\ task[u].about = m /\ (task[u].failed \/ Pending(task[u]))
      BY <3>1 DEF EventInv, ViewInv
    <3> QED
      BY <1>4, <3>2
  <2> QED
    BY <2>1, <2>2
<1>9. CallInv'
  <2> SUFFICES ASSUME ~ shared' PROVE CallInv'
    BY DEF CallInv
  <2>1. \A u \in Task : CallOf(u)' => CallOf(u) /\ task'[u] = task[u]
    BY <1>3, <1>4 DEF CallOf
  <2>2. \A u \in Task : Events!Running(u) => Events!Running(u)' /\ task'[u] = task[u]
    BY <1>4
  <2>3. (\A u \in Task : Events!Running(u)' => task'[u].node = "none") => host' = served'
    BY <1>1, <2>2 DEF EventInv, CallInv
  <2> QED
    BY <1>1, <2>1, <2>3 DEF EventInv, CallInv
<1>10. ASSUME NEW u \in Task, Events!Running(u)', task'[u].about \notin crossed'
       PROVE  task'[u].told \in [Party -> 0 .. 1]
  BY <1>3, <1>4, <1>5, <1>10 DEF EventInv, Events!TypeOK
<1>11. Events!TypeOK'
  BY <1>1, <1>4, <1>5, <1>10, EventTypes DEF EventInv, Events!TypeOK
<1> QED
  BY <1>1, <1>7, <1>8, <1>9, <1>11 DEF EventInv, Events!VarsKept

LEMMA SendUserActionKeeps ==
  ASSUME EventInv, NEW t \in Task, NEW s \in Party, Events!SendUserAction(t, s) PROVE EventInv'
<1> DEFINE q == [kind |-> "action", about |-> s, own |-> FALSE, unread |-> FALSE, to |-> {Leg},
                 asked |-> host, node |-> "none", must |-> {}, told |-> [m \in Party |-> 0], failed |-> FALSE]
<1>1. /\ task[t] = Events!Idle /\ task' = [task EXCEPT ![t] = q] /\ shared' \in BOOLEAN
      /\ (~ shared' => ~ shared /\ ~ Events!Calling)
      /\ UNCHANGED <<seat, view, up, host, served, props, wrote, crossed, failsEv>>
  BY DEF Events!SendUserAction, EventInv, Events!TypeOK, Leg
<1>2. q \in Events!TaskRow
  BY DEF Events!TaskRow, EventInv, Events!TypeOK, Leg
<1>3. /\ q.kind = "action" /\ q.about = s /\ q.own = FALSE /\ q.unread = FALSE /\ q.to = {Leg}
      /\ q.asked = host /\ q.node = "none" /\ q.must = {} /\ q.failed = FALSE
      /\ q.told \in [Party -> 0 .. 1] /\ \A m \in Party : q.told[m] = 0
  OBVIOUS
<1> HIDE DEF q
<1>4. /\ task'[t] = q /\ Events!Running(t)' /\ ~ Events!Running(t)
      /\ \A u \in Task \ {t} : task'[u] = task[u] /\ (Events!Running(u)' <=> Events!Running(u))
      /\ task' \in [Task -> Events!TaskRow \cup {Events!Idle}]
  BY <1>1, <1>2, NotIdle DEF EventInv, Events!TypeOK, Events!Running
<1>5. TaskInv'
  <2> SUFFICES ASSUME NEW u \in Task, Events!Running(u)'
               PROVE  RowOK(task'[u]) /\ MustOK(task[u])' /\ AloneOK(task[u])'
    BY DEF TaskInv, RowOK
  <2>1. CASE u = t
    <3>1. s # Leg
      BY ServicesAssumption DEF Leg
    <3>2. RowOK(q)
      BY <1>3, <3>1, ServicesAssumption DEF RowOK, Leg
    <3> QED
      BY <1>3, <1>4, <2>1, <3>2 DEF MustOK, AloneOK
  <2>2. CASE u # t
    BY <1>1, <1>4, <2>2 DEF EventInv, TaskInv, MustOK, AloneOK
  <2> QED
    BY <2>1, <2>2
<1>6. ViewInv'
  <2> SUFFICES ASSUME NEW m \in Party \ crossed, view[m] # seat[m]
               PROVE  \E u \in Task : Events!Running(u)' /\ task'[u].about = m /\ (task'[u].failed \/ Pending(task'[u]))
    BY <1>1 DEF ViewInv, Pending
  <2>1. PICK u \in Task : Events!Running(u) /\ task[u].about = m /\ (task[u].failed \/ Pending(task[u]))
    BY DEF EventInv, ViewInv
  <2> QED
    BY <1>4, <2>1
<1>7. CallInv'
  <2> SUFFICES ASSUME ~ shared' PROVE CallInv'
    BY DEF CallInv
  <2>1. \A u \in Task : CallOf(u) => Events!Calling
    BY DEF CallOf, Events!Calling, Events!Busy, Events!Done, Leg
  <2>2. \A u \in Task : CallOf(u)' => u = t
    BY <1>1, <1>4, <2>1 DEF CallOf
  <2>3. \A u \in Task : Events!Running(u) => Events!Running(u)' /\ task'[u] = task[u]
    BY <1>4
  <2>4. (\A u \in Task : Events!Running(u)' => task'[u].node = "none") => host' = served'
    BY <1>1, <2>3 DEF EventInv, CallInv
  <2> QED
    BY <1>1, <1>3, <1>4, <2>2, <2>4 DEF CallInv
<1>8. ASSUME NEW u \in Task, Events!Running(u)', task'[u].about \notin crossed'
      PROVE  task'[u].told \in [Party -> 0 .. 1]
  BY <1>1, <1>3, <1>4, <1>8 DEF EventInv, Events!TypeOK
<1>9. Events!TypeOK'
  BY <1>1, <1>4, <1>8, EventTypes DEF EventInv, Events!TypeOK
<1> QED
  BY <1>1, <1>5, <1>6, <1>7, <1>9 DEF EventInv, Events!VarsKept

(* Nothing is announced by a step that only concerns the variables of the channel or the nodes of the gateway. *)
LEMMA NoTurn ==
  ASSUME EventInv, UNCHANGED <<seat, view, task, host, served, crossed, shared, failsEv>>,
         up' \subseteq Node, props' \in [Key -> Events!Value], wrote' \in [Key -> Events!Value], Events!VarsKept'
  PROVE  EventInv'
<1>1. Events!TypeOK'
  BY DEF EventInv, Events!TypeOK, Events!Running
<1>2. TaskInv'
  BY DEF EventInv, TaskInv, Events!Running, RowOK, MustOK, AloneOK
<1>3. ViewInv'
  BY DEF EventInv, ViewInv, Events!Running, Pending
<1>4. CallInv'
  BY DEF EventInv, CallInv, CallOf, Events!Running
<1> QED
  BY <1>1, <1>2, <1>3, <1>4 DEF EventInv

LEMMA EventsNext == EventInv /\ [Events!Next]_eventVars => EventInv'
<1> SUFFICES ASSUME EventInv, [Events!Next]_eventVars PROVE EventInv'
  OBVIOUS
<1>1. ASSUME NEW t \in Task, NEW s \in Party,
             Events!InviteToConversation(t, s) \/ Events!JoinConversation(t, s) \/ Events!LeaveConversation(t, s)
             \/ Events!DeclineInvitation(t, s) \/ Events!InviteTimeout(t, s)
      PROVE  EventInv'
  <2>1. CASE Events!InviteToConversation(t, s)
    BY <2>1, AnnouncementKeeps DEF Events!InviteToConversation, Into
  <2>2. CASE Events!JoinConversation(t, s)
    BY <2>2, AnnouncementKeeps DEF Events!JoinConversation, Into
  <2>3. CASE Events!LeaveConversation(t, s)
    BY <2>3, AnnouncementKeeps DEF Events!LeaveConversation, Into
  <2>4. CASE Events!DeclineInvitation(t, s)
    BY <2>4, AnnouncementKeeps DEF Events!DeclineInvitation, Into
  <2>5. CASE Events!InviteTimeout(t, s)
    BY <2>5, AnnouncementKeeps DEF Events!InviteTimeout, Into
  <2> QED
    BY <1>1, <2>1, <2>2, <2>3, <2>4, <2>5
<1>2. CASE Events!SetVariables
  <2>1. PICK k \in Key, v \in Events!Value : Events!Bind([x \in {k} |-> v])
    BY <1>2 DEF Events!SetVariables
  <2>2. props' \in [Key -> Events!Value] /\ wrote' \in [Key -> Events!Value] /\ Events!VarsKept'
    BY <2>1, Bound
  <2> QED
    BY <1>2, <2>2, NoTurn DEF Events!SetVariables, EventInv, Events!TypeOK
<1>3. CASE Events!NodeChange
  BY <1>3, NoTurn DEF Events!NodeChange, EventInv, Events!TypeOK, Events!VarsKept
<1>4. CASE UNCHANGED eventVars
  BY <1>4, NoTurn DEF eventVars, EventInv, Events!TypeOK, Events!VarsKept
<1> QED
  BY <1>1, <1>2, <1>3, <1>4, SendUserActionKeeps, TellMemberKeeps, GetChannelsKeeps, TellOwnerKeeps, TellFailsKeeps,
     ReadFailsKeeps, GatewayAnswersKeeps, CallGatewayKeeps DEF Events!Next

(* The invariant says what the members are promised. *)
LEMMA EventsInform ==
  EventInv => Events!OwnViewRight /\ Events!ToldAll /\ Events!HostServed /\ Events!VarsKept
<1> SUFFICES ASSUME EventInv PROVE Events!OwnViewRight /\ Events!ToldAll /\ Events!HostServed
  BY DEF EventInv
<1>1. Events!OwnViewRight
  BY DEF EventInv, ViewInv, Pending, Events!OwnViewRight, Events!Done
<1>2. Events!ToldAll
  <2> SUFFICES ASSUME NEW t \in Task, Events!Done(t), task[t].kind \notin {"timeout", "action"}, ~ task[t].failed,
                      NEW s \in task[t].must \cap Events!Open
               PROVE  task[t].told[s] = 1
    BY DEF Events!ToldAll
  <2> QED
    BY DEF EventInv, TaskInv, MustOK, Events!Done, Events!Open
<1>3. Events!HostServed
  BY DEF EventInv, CallInv, Events!HostServed
<1> QED
  BY <1>1, <1>2, <1>3

-----------------------------------------------------------------------------
(* The bot service.                                                        *)

(* Whether object o of b is configured as in s. *)
As(b, o, s) == objs[b][o].enabled = s.enabled /\ objs[b][o].meta = s.meta

About(r, b) == req[r] # Bots!Idle /\ req[r].bot = b

(* What the settings of an update differ in from the row. *)
Merged(b, q) == q.want = [row[b].set EXCEPT ![q.field] = q.want[q.field]]

(* A request, by its step: what it has read of its bot, and the object it has made. *)
RequestOK(q) ==
  /\ q.pc \in {"setup", "store"} => ~ q.force
  /\ q.pc = "setup"    => q.op \in {"create", "update", "load"} /\ q.obj = 0
  /\ q.pc = "store"    => q.op \in {"create", "update"}
  /\ q.pc = "index"    => q.op \in {"create", "update", "load"} /\ (q.force => q.op # "load")
  /\ q.pc = "provider" => q.op \in {"create", "update"}
  /\ q.pc = "stop"     => q.op = "delete" /\ row[q.bot].st = "gone"
  /\ q.pc = "meta"     => q.op = "self"
  /\ q.pc \in {"store", "index", "provider", "meta"} => q.obj \in 1 .. Len(objs[q.bot])
  /\ q.op = "update" => q.field \in {"enabled", "meta"}

(* A bot that has no row yet runs nowhere, and one request at most is to create it. *)
UnbornOK(b) ==
  row[b].st = "none" => /\ run[b] = 0
                        /\ \A r \in Task : About(r, b) => req[r].op = "create" /\ req[r].pc \in {"setup", "store"}
CreateOK(r) ==
  req[r] # Bots!Idle /\ req[r].op = "create" /\ req[r].pc \in {"setup", "store"} =>
    row[req[r].bot].st = "none" /\ \A q \in Task : About(q, req[r].bot) => q = r

(* A bot whose requests did not overlap: the object that runs is as the row says until the row is written, and the
   one to come after that. *)
AloneRuns(b) ==
  ~ mixed[b] =>
    /\ \A r, q \in Task : About(r, b) /\ About(q, b) => r = q
    /\ \A r \in Task : About(r, b) => Bots!Stored(b) \/ req[r].pc \in {"setup", "store", "stop"}
    /\ Bots!Stored(b) /\ run[b] # 0 /\ (\A r \in Task : About(r, b) => req[r].pc # "index") => As(b, run[b], row[b].set)
    /\ \A r \in Task : About(r, b) =>
         /\ req[r].pc \in {"setup", "store"} /\ req[r].op = "update" => Bots!Stored(b) /\ Merged(b, req[r])
         /\ req[r].pc = "setup" /\ req[r].op = "load" => Bots!Stored(b) /\ req[r].want = row[b].set
         /\ req[r].pc = "store" => As(b, req[r].obj, req[r].want)
         /\ req[r].pc = "index" => As(b, req[r].obj, row[b].set)
         /\ req[r].pc = "meta" => run[b] \in {0, req[r].obj}

(* The gateway of a deleted bot runs until the deletion stops it, or the last of its channels, all of that gateway,
   is closed. *)
GoneStops(b) ==
  row[b].st = "gone" /\ ~ outdated[b] /\ ~ older[b] /\ run[b] # 0 =>
    \/ \E r \in Task : About(r, b) /\ req[r].pc = "stop"
    \/ chan[b] = {run[b]} /\ objs[b][run[b]].deleted /\ ~ objs[b][run[b]].enabled

(* One request at most is between its check of the limit and its write, and has room for its bot. *)
LimitInv ==
  ~ overlap => /\ Bots!ActiveBotsCount <= Licence
               /\ \A r, q \in Task : Bots!Enabling(r) /\ Bots!Enabling(q) => r = q
               /\ \A r \in Task : Bots!Enabling(r) => Bots!ActiveBotsCount + 1 <= Licence

BotInv == /\ Bots!TypeOK /\ run \in [Party -> Nat] /\ chan \in [Party -> SUBSET Nat]
          /\ \A r \in Task : req[r] # Bots!Idle => RequestOK(req[r])
          /\ \A r \in Task : CreateOK(r)
          /\ \A b \in Party : UnbornOK(b) /\ AloneRuns(b) /\ GoneStops(b)
          /\ LimitInv

(* The two names of one operator. *)
LEMMA SameCardinality == ASSUME NEW S PROVE Bots!Cardinality(S) = Cardinality(S)
BY Zenon DEF Bots!Cardinality, Cardinality

LEMMA BotStarts == Bots!Init => BotInv
<1> SUFFICES ASSUME Bots!Init PROVE BotInv
  OBVIOUS
<1>1. /\ \A r \in Task : req[r] = Bots!Idle /\ \A b \in Party : ~ About(r, b)
      /\ \A b \in Party : row[b].st = "none" /\ run[b] = 0
  BY DEF Bots!Init, About
<1>2. run \in [Party -> Nat] /\ chan \in [Party -> SUBSET Nat]
  BY DEF Bots!Init
<1>3. LimitInv
  <2>1. {b \in Party : Bots!Stored(b) /\ row[b].set.enabled} = {}
    BY <1>1 DEF Bots!Stored
  <2>2. Bots!ActiveBotsCount = 0
    BY <2>1, FS_EmptySet, SameCardinality DEF Bots!ActiveBotsCount
  <2> QED
    BY <1>1, <2>2, ServicesAssumption DEF LimitInv, Bots!Enabling
<1>4. \A b \in Party : UnbornOK(b) /\ AloneRuns(b) /\ GoneStops(b)
  BY <1>1 DEF UnbornOK, AloneRuns, GoneStops, Bots!Stored
<1>5. Bots!TypeOK
  <2>1. row \in [Party -> Bots!Row]
    BY DEF Bots!Init, Bots!Row, Bots!Settings
  <2>2. objs \in [Party -> UNION {[1 .. n -> Bots!Gateway] : n \in 0 .. MaxObj}]
    <3>1. 0 \in 0 .. MaxObj /\ <<>> \in [1 .. 0 -> Bots!Gateway]
      BY ServicesAssumption
    <3> QED
      BY <3>1 DEF Bots!Init
  <2>3. \A b \in Party : run[b] \in 0 .. Len(objs[b]) /\ chan[b] \in SUBSET (1 .. Len(objs[b]))
    BY DEF Bots!Init
  <2>4. begun \in 0 .. MaxReq /\ fails \in 0 .. MaxFails
    BY ServicesAssumption DEF Bots!Init
  <2> QED
    BY <2>1, <2>2, <2>3, <2>4 DEF Bots!Init, Bots!TypeOK
<1> QED
  BY <1>1, <1>2, <1>3, <1>4, <1>5 DEF BotInv, CreateOK

(* A request at work. *)
BotCall == [pc : {"setup", "store", "meta", "index", "provider", "stop"}, op : Bots!Op, bot : Party,
            want : Bots!Settings, field : {"enabled", "meta", "all"}, obj : 0 .. MaxObj, force : BOOLEAN]

LEMMA CallAtWork == ASSUME NEW q \in BotCall PROVE q # Bots!Idle
BY DEF BotCall, Bots!Idle

LEMMA CallTyped ==
  ASSUME BotInv, NEW r \in Task, req[r] # Bots!Idle
  PROVE  req[r] \in BotCall /\ req[r].bot \in Party /\ RequestOK(req[r]) /\ About(r, req[r].bot)
BY DEF BotInv, Bots!TypeOK, BotCall, About

LEMMA BotTyped ==
  ASSUME Bots!TypeOK, NEW b \in Party
  PROVE  /\ row[b] \in Bots!Row /\ row[b].st \in {"none", "stored", "gone"} /\ row[b].set \in Bots!Settings
         /\ objs[b] \in Seq(Bots!Gateway) /\ Len(objs[b]) \in 0 .. MaxObj
         /\ \A o \in 1 .. Len(objs[b]) : objs[b][o] \in Bots!Gateway
         /\ run[b] \in 0 .. Len(objs[b]) /\ chan[b] \subseteq 1 .. Len(objs[b])
<1>1. row[b] \in Bots!Row
  BY DEF Bots!TypeOK
<1>2. PICK n \in 0 .. MaxObj : objs[b] \in [1 .. n -> Bots!Gateway]
  <2>1. objs[b] \in UNION {[1 .. n -> Bots!Gateway] : n \in 0 .. MaxObj}
    BY DEF Bots!TypeOK
  <2> QED
    BY <2>1, Zenon
<1>3. n \in Nat
  OBVIOUS
<1>4. objs[b] \in Seq(Bots!Gateway) /\ Len(objs[b]) = n /\ \A o \in 1 .. Len(objs[b]) : objs[b][o] \in Bots!Gateway
  BY <1>2, <1>3
<1> QED
  BY <1>1, <1>4 DEF Bots!TypeOK, Bots!Row

LEMMA ObjsTyped ==
  ASSUME NEW s \in Seq(Bots!Gateway), Len(s) \in 0 .. MaxObj
  PROVE  s \in UNION {[1 .. n -> Bots!Gateway] : n \in 0 .. MaxObj}
<1>1. s \in [1 .. Len(s) -> Bots!Gateway]
  OBVIOUS
<1> QED
  BY <1>1, Zenon

(* What is left as it was. *)
SameBot(c) ==
  /\ row'[c] = row[c] /\ run'[c] = run[c] /\ chan'[c] = chan[c] /\ objs'[c] = objs[c]
  /\ mixed'[c] = mixed[c] /\ outdated'[c] = outdated[c] /\ older'[c] = older[c]
  /\ \A q \in Task : (About(q, c)' <=> About(q, c)) /\ (About(q, c) => req'[q] = req[q])

LEMMA Elsewhere ==
  ASSUME BotInv, NEW c \in Party, SameBot(c)
  PROVE  UnbornOK(c)' /\ AloneRuns(c)' /\ GoneStops(c)'
<1>1. UnbornOK(c)'
  BY DEF BotInv, UnbornOK, SameBot
<1>2. AloneRuns(c)'
  <2>1. AloneRuns(c)
    BY DEF BotInv
  <2>2. PICK w, n, gs, m : /\ w = row[c] /\ n = run[c] /\ gs = objs[c] /\ m = mixed[c]
                           /\ w = row'[c] /\ n = run'[c] /\ gs = objs'[c] /\ m = mixed'[c]
    BY DEF SameBot
  <2>3. \A q \in Task : (About(q, c)' <=> About(q, c)) /\ (About(q, c) => req'[q] = req[q])
    BY DEF SameBot
  <2> QED
    BY <2>1, <2>2, <2>3 DEF AloneRuns, As, Merged, Bots!Stored
<1>3. GoneStops(c)'
  BY DEF BotInv, GoneStops, SameBot
<1> QED
  BY <1>1, <1>2, <1>3

(* The bots enabled. *)
LEMMA CountTyped == Bots!ActiveBotsCount \in Nat
<1>1. IsFiniteSet({b \in Party : Bots!Stored(b) /\ row[b].set.enabled})
  BY ServicesAssumption, FS_Subset
<1> QED
  BY <1>1, FS_CardinalityType, SameCardinality DEF Bots!ActiveBotsCount

LEMMA CountTypedNext == Bots!ActiveBotsCount' \in Nat
<1>1. (Bots!ActiveBotsCount \in Nat)'
  BY CountTyped, PTL
<1> QED
  BY <1>1

LEMMA CountKept ==
  ASSUME \A b \in Party : (Bots!Stored(b) /\ row[b].set.enabled)' => Bots!Stored(b) /\ row[b].set.enabled
  PROVE  Bots!ActiveBotsCount' <= Bots!ActiveBotsCount
<1> DEFINE E == {b \in Party : Bots!Stored(b) /\ row[b].set.enabled}
<1>1. E' \subseteq E
  OBVIOUS
<1>2. IsFiniteSet(E)
  BY ServicesAssumption, FS_Subset
<1>3. Cardinality(E') <= Cardinality(E)
  BY <1>1, <1>2, FS_Subset
<1>4. Bots!Cardinality(E') = Cardinality(E') /\ Bots!Cardinality(E) = Cardinality(E)
  BY SameCardinality
<1> QED
  BY <1>3, <1>4 DEF Bots!ActiveBotsCount

LEMMA CountGrows ==
  ASSUME NEW c \in Party,
         \A b \in Party \ {c} : (Bots!Stored(b) /\ row[b].set.enabled)' => Bots!Stored(b) /\ row[b].set.enabled
  PROVE  Bots!ActiveBotsCount' <= Bots!ActiveBotsCount + 1
<1> DEFINE E == {b \in Party : Bots!Stored(b) /\ row[b].set.enabled}
<1>1. E' \subseteq E \cup {c}
  OBVIOUS
<1>2. IsFiniteSet(E)
  BY ServicesAssumption, FS_Subset
<1>3. IsFiniteSet(E \cup {c}) /\ Cardinality(E \cup {c}) <= Cardinality(E) + 1 /\ Cardinality(E) \in Nat
  <2>1. Cardinality(E) \in Nat
    BY <1>2, FS_CardinalityType
  <2>2. IsFiniteSet(E \cup {c})
        /\ Cardinality(E \cup {c}) = IF c \in E THEN Cardinality(E) ELSE Cardinality(E) + 1
    BY <1>2, FS_AddElement, Zenon
  <2> HIDE DEF E
  <2> QED
    BY <2>1, <2>2
<1>4. Cardinality(E') <= Cardinality(E \cup {c}) /\ Cardinality(E') \in Nat /\ Cardinality(E \cup {c}) \in Nat
  BY <1>1, <1>3, FS_Subset, FS_CardinalityType
<1>5. Bots!Cardinality(E') = Cardinality(E') /\ Bots!Cardinality(E) = Cardinality(E)
  BY SameCardinality
<1> QED
  BY <1>3, <1>4, <1>5 DEF Bots!ActiveBotsCount

(* A request that is not about to enable a bot. *)
LEMMA LimitStays ==
  ASSUME BotInv, UNCHANGED overlap, \A r \in Task : Bots!Enabling(r)' => Bots!Enabling(r),
         \A b \in Party : (Bots!Stored(b) /\ row[b].set.enabled)' => Bots!Stored(b) /\ row[b].set.enabled
  PROVE  LimitInv'
<1>1. Bots!ActiveBotsCount' <= Bots!ActiveBotsCount /\ Bots!ActiveBotsCount \in Nat /\ Bots!ActiveBotsCount' \in Nat
  BY CountKept, CountTyped, CountTypedNext
<1>2. Licence \in Nat
  BY ServicesAssumption
<1> SUFFICES ASSUME ~ overlap PROVE LimitInv'
  BY DEF LimitInv
<1>3. /\ Bots!ActiveBotsCount <= Licence /\ (\A r, q \in Task : Bots!Enabling(r) /\ Bots!Enabling(q) => r = q)
      /\ \A r \in Task : Bots!Enabling(r) => Bots!ActiveBotsCount + 1 <= Licence
  BY DEF BotInv, LimitInv
<1>4. Bots!ActiveBotsCount' <= Licence
  BY <1>1, <1>2, <1>3
<1>5. Bots!ActiveBotsCount + 1 <= Licence => Bots!ActiveBotsCount' + 1 <= Licence
  <2>1. PICK x \in Nat : x = Bots!ActiveBotsCount'
    BY <1>1
  <2>2. PICK y \in Nat : y = Bots!ActiveBotsCount
    BY <1>1
  <2>3. x <= y
    BY <1>1, <2>1, <2>2
  <2>4. y + 1 <= Licence => x + 1 <= Licence
    BY <1>2, <2>3
  <2> QED
    BY <2>1, <2>2, <2>4
<1>6. \A r, q \in Task : Bots!Enabling(r)' /\ Bots!Enabling(q)' => r = q
  BY <1>3
<1>7. \A r \in Task : Bots!Enabling(r)' => Bots!ActiveBotsCount' + 1 <= Licence
  BY <1>3, <1>5, Zenon
<1> QED
  BY <1>4, <1>6, <1>7, Zenon DEF LimitInv

(* A request r of b begins as q.  Deleting takes the row with the first step. *)
LEMMA BeginKeeps ==
  ASSUME BotInv, NEW r \in Task, NEW b \in Party, NEW q \in BotCall,
         req[r] = Bots!Idle, req' = [req EXCEPT ![r] = q], q.bot = b, ~ q.force, q.pc \in {"setup", "meta", "stop"},
         mixed' = [mixed EXCEPT ![b] = @ \/ Bots!Busy(b)], begun' \in 0 .. MaxReq,
         UNCHANGED <<objs, run, route, hook, chan, outdated, older, fails>>,
         overlap' \in BOOLEAN, LimitInv',
         row' = IF q.pc = "stop" THEN [row EXCEPT ![b].st = "gone"] ELSE row,
         IF q.op = "create" THEN row[b].st = "none" /\ ~ Bots!Busy(b) ELSE Bots!Stored(b),
         q.pc = "setup" => /\ q.op \in {"create", "update", "load"} /\ q.obj = 0
                           /\ (q.op = "update" => Merged(b, q)) /\ (q.op = "load" => q.want = row[b].set),
         q.pc = "stop" => q.op = "delete",
         q.pc = "meta" => q.op = "self" /\ q.obj = run[b] /\ run[b] # 0,
         q.op = "update" => q.field \in {"enabled", "meta"}
  PROVE  BotInv'
<1>1. /\ req'[r] = q /\ q # Bots!Idle /\ \A p \in Task \ {r} : req'[p] = req[p]
      /\ req' \in [Task -> {Bots!Idle} \cup BotCall]
  BY CallAtWork DEF BotInv, Bots!TypeOK, BotCall
<1>2. /\ row' \in [Party -> Bots!Row] /\ \A c \in Party \ {b} : row'[c] = row[c]
      /\ row'[b].set = row[b].set /\ (q.pc = "stop" => row'[b].st = "gone")
      /\ (row[b].st = "gone" => row'[b].st = "gone") /\ (row'[b].st = "none" <=> row[b].st = "none")
      /\ (q.pc # "stop" => row' = row)
  <2>1. row \in [Party -> Bots!Row] /\ row[b] \in Bots!Row
    BY DEF BotInv, Bots!TypeOK
  <2>2. CASE q.pc = "stop"
    <3>1. row' = [row EXCEPT ![b].st = "gone"]
      BY <2>2
    <3>2. [row[b] EXCEPT !.st = "gone"] \in Bots!Row /\ [row[b] EXCEPT !.st = "gone"].st = "gone"
          /\ [row[b] EXCEPT !.st = "gone"].set = row[b].set
      BY <2>1 DEF Bots!Row
    <3>3. row'[b] = [row[b] EXCEPT !.st = "gone"] /\ row' \in [Party -> Bots!Row]
          /\ \A c \in Party \ {b} : row'[c] = row[c]
      BY <2>1, <3>1, <3>2
    <3>4. row[b].st # "none"
      BY <2>2 DEF Bots!Stored
    <3> QED
      BY <2>2, <3>2, <3>3, <3>4
  <2>3. CASE q.pc # "stop"
    <3>1. row' = row
      BY <2>3
    <3> QED
      BY <2>1, <2>3, <3>1
  <2> QED
    BY <2>2, <2>3
<1>3. mixed' \in [Party -> BOOLEAN] /\ (\A c \in Party \ {b} : mixed'[c] = mixed[c])
      /\ (~ mixed'[b] => ~ mixed[b] /\ ~ Bots!Busy(b))
  BY DEF BotInv, Bots!TypeOK
<1>4. Bots!TypeOK' /\ run' \in [Party -> Nat] /\ chan' \in [Party -> SUBSET Nat]
  BY <1>1, <1>2, <1>3 DEF BotInv, Bots!TypeOK, BotCall
<1>5. ASSUME NEW p \in Task, req'[p] # Bots!Idle PROVE RequestOK(req[p])'
  <2>1. CASE p = r
    <3>1. run[b] \in 0 .. Len(objs[b]) /\ Len(objs[b]) \in 0 .. MaxObj
      BY BotTyped DEF BotInv
    <3> QED
      BY <1>1, <1>2, <2>1, <3>1 DEF RequestOK
  <2>2. CASE p # r
    <3>1. req'[p] = req[p] /\ RequestOK(req[p]) /\ req[p].bot \in Party
      BY <1>1, <1>5, <2>2, CallTyped
    <3> QED
      BY <1>2, <3>1 DEF RequestOK
  <2> QED
    BY <2>1, <2>2
<1>6. \A p \in Task : ~ Bots!Busy(b) => ~ About(p, b)
  BY DEF About, Bots!Busy
<1>7. \A p \in Task, c \in Party : About(p, c)' <=> (IF p = r THEN c = b ELSE About(p, c))
  BY <1>1 DEF About
<1>8. ASSUME NEW p \in Task PROVE CreateOK(p)'
  <2> DEFINE d == req'[p].bot
  <2> SUFFICES ASSUME req'[p] # Bots!Idle, req'[p].op = "create", req'[p].pc \in {"setup", "store"}
               PROVE  row'[d].st = "none" /\ \A u \in Task : req'[u] # Bots!Idle /\ req'[u].bot = d => u = p
    BY DEF CreateOK, About
  <2>1. CASE p = r
    <3>1. d = b /\ row[b].st = "none" /\ \A u \in Task : ~ About(u, b)
      BY <1>1, <1>6, <2>1
    <3> QED
      BY <1>1, <1>2, <2>1, <3>1 DEF About
  <2>2. CASE p # r
    <3>1. /\ req'[p] = req[p] /\ d \in Party /\ row[d].st = "none" /\ About(p, d)
          /\ \A u \in Task : About(u, d) => u = p
      BY <1>1, <2>2, CallTyped DEF BotInv, CreateOK
    <3>2. d # b
      BY <1>6, <3>1 DEF Bots!Stored
    <3> QED
      BY <1>1, <1>2, <3>1, <3>2 DEF About
  <2> QED
    BY <2>1, <2>2
<1>9. UnbornOK(b)'
  BY <1>1, <1>2, <1>7 DEF BotInv, UnbornOK, Bots!Stored
<1>10. AloneRuns(b)'
  <2> SUFFICES ASSUME ~ mixed'[b] PROVE AloneRuns(b)'
    BY DEF AloneRuns
  <2>1. \A p \in Task : About(p, b)' <=> p = r
    BY <1>3, <1>6, <1>7
  <2>2. Bots!Stored(b)' => row' = row /\ Bots!Stored(b)
    BY <1>2 DEF Bots!Stored
  <2>3. Bots!Stored(b) /\ run[b] # 0 => As(b, run[b], row[b].set)
    BY <1>3, <1>6 DEF BotInv, AloneRuns
  <2>4. (Bots!Stored(b) /\ run[b] # 0)' => As(b, run[b], row[b].set)'
    BY <2>2, <2>3 DEF As
  <2>5. Bots!Stored(b)' \/ req'[r].pc \in {"setup", "store", "stop"}
    BY <1>1, <1>2 DEF Bots!Stored
  <2>6. /\ req'[r].pc \in {"setup", "store"} /\ req'[r].op = "update" => Bots!Stored(b)' /\ Merged(b, req[r])'
        /\ req'[r].pc = "setup" /\ req'[r].op = "load" => Bots!Stored(b)' /\ req'[r].want = row'[b].set
        /\ req'[r].pc = "meta" => run'[b] \in {0, req'[r].obj}
    <3>1. q.pc # "stop" => row' = row
      BY <1>2
    <3>2. req'[r].pc \in {"setup", "store"} /\ req'[r].op = "update" => Bots!Stored(b)' /\ Merged(b, req[r])'
      BY <1>1, <3>1 DEF Merged, Bots!Stored
    <3> QED
      BY <1>1, <3>1, <3>2 DEF Bots!Stored
  <2> QED
    BY <1>1, <2>1, <2>4, <2>5, <2>6 DEF AloneRuns
<1>11. GoneStops(b)'
  <2>1. row[b].st # "gone"
    BY DEF Bots!Stored
  <2>2. row'[b].st = "gone" => q.pc = "stop"
    BY <1>2, <2>1
  <2> QED
    BY <1>1, <1>7, <2>2 DEF GoneStops
<1>12. ASSUME NEW c \in Party \ {b} PROVE UnbornOK(c)' /\ AloneRuns(c)' /\ GoneStops(c)'
  <2>1. SameBot(c)
    BY <1>1, <1>2, <1>3, <1>7 DEF SameBot, About
  <2> QED
    BY <2>1, Elsewhere
<1> QED
  BY <1>4, <1>5, <1>8, <1>9, <1>10, <1>11, <1>12 DEF BotInv

(* A request begins that has found room for its bot, if it is to enable it. *)
LEMMA LimitChecked ==
  ASSUME BotInv, NEW r \in Task, NEW q \in BotCall, NEW e \in BOOLEAN,
         req[r] = Bots!Idle, req' = [req EXCEPT ![r] = q], UNCHANGED row,
         overlap' = (overlap \/ (e /\ \E u \in Task : Bots!Enabling(u))), e => Bots!InLimit(r),
         q.want.enabled /\ (q.op = "create" \/ (q.op = "update" /\ q.field = "enabled")) => e
  PROVE  LimitInv'
<1> SUFFICES ASSUME ~ overlap' PROVE LimitInv'
  BY DEF LimitInv
<1>1. req'[r] = q /\ \A u \in Task \ {r} : req'[u] = req[u]
  BY DEF BotInv, Bots!TypeOK
<1>2. (\A u \in Task \ {r} : Bots!Enabling(u)' <=> Bots!Enabling(u)) /\ (Bots!Enabling(r)' => e)
  BY <1>1 DEF Bots!Enabling
<1>3. Bots!ActiveBotsCount' = Bots!ActiveBotsCount
  BY DEF Bots!ActiveBotsCount, Bots!Stored
<1>4. /\ Bots!ActiveBotsCount <= Licence /\ (\A u, p \in Task : Bots!Enabling(u) /\ Bots!Enabling(p) => u = p)
      /\ \A u \in Task : Bots!Enabling(u) => Bots!ActiveBotsCount + 1 <= Licence
  BY DEF BotInv, LimitInv
<1>5. e => \A u \in Task : ~ Bots!Enabling(u)
  OBVIOUS
<1>6. e => Bots!ActiveBotsCount + 1 <= Licence
  BY DEF Bots!InLimit
<1>7. \A u, p \in Task : Bots!Enabling(u)' /\ Bots!Enabling(p)' => u = p
  BY <1>2, <1>4, <1>5
<1>8. \A u \in Task : Bots!Enabling(u)' => Bots!ActiveBotsCount + 1 <= Licence
  BY <1>2, <1>4, <1>6
<1> QED
  BY <1>3, <1>4, <1>7, <1>8, Zenon DEF LimitInv

LEMMA RequestBegins ==
  ASSUME BotInv, NEW r \in Task, NEW b \in Party,
         \/ \E want \in [enabled : BOOLEAN, meta : {0}] : Bots!CreateBot(r, b, want)
         \/ \E field \in {"enabled", "meta"} : Bots!UpdateBot(r, b, field)
         \/ Bots!LoadGateway(r, b) \/ Bots!SetMetadata(r, b) \/ Bots!DeleteBot(r, b)
  PROVE  BotInv'
<1> DEFINE Beginning(kind, pc, want, field, obj) ==
      [pc |-> pc, op |-> kind, bot |-> b, want |-> want, field |-> field, obj |-> obj, force |-> FALSE]
<1>1. row[b].set \in Bots!Settings /\ run[b] \in 0 .. MaxObj /\ begun \in 0 .. MaxReq /\ MaxReq \in Nat
      /\ overlap \in BOOLEAN
  <2>1. run[b] \in 0 .. Len(objs[b]) /\ Len(objs[b]) \in 0 .. MaxObj /\ row[b].set \in Bots!Settings
    BY BotTyped DEF BotInv
  <2> QED
    BY <2>1, ServicesAssumption DEF BotInv, Bots!TypeOK
<1>2. ASSUME NEW want \in [enabled : BOOLEAN, meta : {0}], Bots!CreateBot(r, b, want) PROVE BotInv'
  <2> DEFINE q == Beginning("create", "setup", want, "all", 0)
  <2>1. q \in BotCall
    BY ServicesAssumption DEF BotCall, Bots!Op, Bots!Settings
  <2>2. /\ req[r] = Bots!Idle /\ begun' \in 0 .. MaxReq /\ req' = [req EXCEPT ![r] = q]
        /\ mixed' = [mixed EXCEPT ![b] = @ \/ Bots!Busy(b)] /\ row[b].st = "none" /\ ~ Bots!Busy(b)
        /\ UNCHANGED <<row, objs, run, route, hook, chan, outdated, older, fails>>
        /\ (want.enabled => Bots!InLimit(r))
        /\ overlap' = (overlap \/ (want.enabled /\ \E u \in Task : Bots!Enabling(u)))
    BY <1>1, <1>2 DEF Bots!CreateBot, Bots!Begin, Bots!CheckLimit
  <2>3. q.bot = b /\ q.pc = "setup" /\ q.op = "create" /\ q.obj = 0 /\ q.want = want /\ q.force = FALSE
    OBVIOUS
  <2> HIDE DEF q
  <2>4. LimitInv'
    BY <2>1, <2>2, <2>3, LimitChecked
  <2> QED
    BY <2>1, <2>2, <2>3, <2>4, <1>1, BeginKeeps
<1>3. ASSUME NEW field \in {"enabled", "meta"}, Bots!UpdateBot(r, b, field) PROVE BotInv'
  <2> DEFINE want == [row[b].set EXCEPT ![field] = IF field = "enabled" THEN ~ @ ELSE 1 - @]
             q == Beginning("update", "setup", want, field, 0)
             e == field = "enabled" /\ want.enabled
  <2>1. want \in Bots!Settings
    <3>1. CASE field = "enabled"
      BY <1>1, <3>1 DEF Bots!Settings
    <3>2. CASE field = "meta"
      BY <1>1, <3>2 DEF Bots!Settings
    <3> QED
      BY <3>1, <3>2
  <2>2. q \in BotCall
    BY <2>1, ServicesAssumption DEF BotCall, Bots!Op
  <2>3. /\ req[r] = Bots!Idle /\ begun' \in 0 .. MaxReq /\ req' = [req EXCEPT ![r] = q]
        /\ mixed' = [mixed EXCEPT ![b] = @ \/ Bots!Busy(b)] /\ Bots!Stored(b)
        /\ UNCHANGED <<row, objs, run, route, hook, chan, outdated, older, fails>>
        /\ (e => Bots!InLimit(r))
        /\ overlap' = (overlap \/ (e /\ \E u \in Task : Bots!Enabling(u)))
    BY <1>1, <1>3 DEF Bots!UpdateBot, Bots!Begin, Bots!CheckLimit
  <2>4. q.bot = b /\ q.pc = "setup" /\ q.op = "update" /\ q.obj = 0 /\ q.want = want /\ q.field = field
        /\ q.force = FALSE
    OBVIOUS
  <2>5. want = [row[b].set EXCEPT ![field] = want[field]]
    BY <1>1 DEF Bots!Settings
  <2> HIDE DEF q, want
  <2>6. LimitInv'
    BY <2>1, <2>2, <2>3, <2>4, LimitChecked DEF Bots!Settings
  <2>7. Merged(b, q)
    BY <2>4, <2>5 DEF Merged
  <2> QED
    BY <2>2, <2>3, <2>4, <2>6, <2>7, <1>1, BeginKeeps
<1>4. CASE Bots!LoadGateway(r, b)
  <2> DEFINE q == Beginning("load", "setup", row[b].set, "all", 0)
  <2>1. q \in BotCall
    BY <1>1, ServicesAssumption DEF BotCall, Bots!Op
  <2>2. /\ req[r] = Bots!Idle /\ begun' \in 0 .. MaxReq /\ req' = [req EXCEPT ![r] = q]
        /\ mixed' = [mixed EXCEPT ![b] = @ \/ Bots!Busy(b)] /\ Bots!Stored(b)
        /\ UNCHANGED <<row, objs, run, route, hook, chan, outdated, older, overlap, fails>>
    BY <1>1, <1>4 DEF Bots!LoadGateway, Bots!Begin
  <2>3. q.bot = b /\ q.pc = "setup" /\ q.op = "load" /\ q.obj = 0 /\ q.want = row[b].set /\ q.force = FALSE
    OBVIOUS
  <2> HIDE DEF q
  <2>4. \A u \in Task : Bots!Enabling(u)' => Bots!Enabling(u)
    BY <2>2, <2>3 DEF Bots!Enabling, BotInv, Bots!TypeOK
  <2>5. LimitInv'
    BY <2>2, <2>4, LimitStays DEF Bots!Stored
  <2> QED
    BY <2>1, <2>2, <2>3, <2>5, <1>1, BeginKeeps
<1>5. CASE Bots!SetMetadata(r, b)
  <2> DEFINE q == Beginning("self", "meta", row[b].set, "meta", run[b])
  <2>1. q \in BotCall
    BY <1>1 DEF BotCall, Bots!Op
  <2>2. /\ req[r] = Bots!Idle /\ begun' \in 0 .. MaxReq /\ req' = [req EXCEPT ![r] = q]
        /\ mixed' = [mixed EXCEPT ![b] = @ \/ Bots!Busy(b)] /\ Bots!Stored(b) /\ run[b] # 0
        /\ UNCHANGED <<row, objs, run, route, hook, chan, outdated, older, overlap, fails>>
    BY <1>1, <1>5 DEF Bots!SetMetadata, Bots!Begin
  <2>3. q.bot = b /\ q.pc = "meta" /\ q.op = "self" /\ q.obj = run[b] /\ q.force = FALSE
    OBVIOUS
  <2> HIDE DEF q
  <2>4. \A u \in Task : Bots!Enabling(u)' => Bots!Enabling(u)
    BY <2>2, <2>3 DEF Bots!Enabling, BotInv, Bots!TypeOK
  <2>5. LimitInv'
    BY <2>2, <2>4, LimitStays DEF Bots!Stored
  <2> QED
    BY <2>1, <2>2, <2>3, <2>5, <1>1, BeginKeeps
<1>6. CASE Bots!DeleteBot(r, b)
  <2> DEFINE q == Beginning("delete", "stop", row[b].set, "all", 0)
  <2>1. q \in BotCall
    BY <1>1, ServicesAssumption DEF BotCall, Bots!Op
  <2>2. /\ req[r] = Bots!Idle /\ begun' \in 0 .. MaxReq /\ req' = [req EXCEPT ![r] = q]
        /\ mixed' = [mixed EXCEPT ![b] = @ \/ Bots!Busy(b)] /\ Bots!Stored(b)
        /\ UNCHANGED <<objs, run, route, hook, chan, outdated, older, overlap, fails>>
        /\ row' = [row EXCEPT ![b].st = "gone"]
    BY <1>1, <1>6 DEF Bots!DeleteBot, Bots!Begin, Bots!Deleted
  <2>3. q.bot = b /\ q.pc = "stop" /\ q.op = "delete" /\ q.force = FALSE
    OBVIOUS
  <2> HIDE DEF q
  <2>4. \A u \in Task : Bots!Enabling(u)' => Bots!Enabling(u)
    BY <2>2, <2>3 DEF Bots!Enabling, BotInv, Bots!TypeOK
  <2>5. \A c \in Party : (Bots!Stored(c) /\ row[c].set.enabled)' => Bots!Stored(c) /\ row[c].set.enabled
    BY <2>2 DEF Bots!Stored, BotInv, Bots!TypeOK, Bots!Row
  <2>6. LimitInv'
    BY <2>2, <2>4, <2>5, LimitStays
  <2> QED
    BY <2>1, <2>2, <2>3, <2>6, <1>1, BeginKeeps
<1> QED
  BY <1>2, <1>3, <1>4, <1>5, <1>6

(* AloneRuns, of a bot with one request, q. *)
AloneAt(b, q) ==
  /\ Bots!Stored(b) /\ run[b] # 0 /\ q.pc # "index" => As(b, run[b], row[b].set)
  /\ Bots!Stored(b) \/ q.pc \in {"idle", "setup", "store", "stop"}
  /\ q.pc \in {"setup", "store"} /\ q.op = "update" => Bots!Stored(b) /\ Merged(b, q)
  /\ q.pc = "setup" /\ q.op = "load" => Bots!Stored(b) /\ q.want = row[b].set
  /\ q.pc = "store" => As(b, q.obj, q.want)
  /\ q.pc = "index" => As(b, q.obj, row[b].set)
  /\ q.pc = "meta" => run[b] \in {0, q.obj}

LEMMA AloneNow ==
  ASSUME BotInv, NEW r \in Task, NEW b \in Party, About(r, b), ~ mixed[b]
  PROVE  AloneAt(b, req[r]) /\ \A p \in Task : About(p, b) => p = r
<1>1. \A p \in Task : About(p, b) => p = r
  BY DEF BotInv, AloneRuns
<1>2. Bots!Stored(b) /\ run[b] # 0 /\ req[r].pc # "index" => As(b, run[b], row[b].set)
  BY <1>1 DEF BotInv, AloneRuns
<1> QED
  BY <1>1, <1>2 DEF BotInv, AloneRuns, AloneAt

(* A step of request r of bot b, which is q after it. *)
LEMMA StepKeeps ==
  ASSUME BotInv, NEW r \in Task, NEW b \in Party, NEW q \in BotCall \cup {Bots!Idle},
         About(r, b), req' = [req EXCEPT ![r] = q], q # Bots!Idle => q.bot = b,
         \A c \in Party \ {b} : /\ row'[c] = row[c] /\ run'[c] = run[c] /\ chan'[c] = chan[c] /\ objs'[c] = objs[c]
                                /\ outdated'[c] = outdated[c] /\ older'[c] = older[c],
         UNCHANGED <<mixed, begun>>, Bots!TypeOK', run' \in [Party -> Nat], chan' \in [Party -> SUBSET Nat],
         Len(objs'[b]) >= Len(objs[b]), row[b].st = "gone" => row'[b].st = "gone",
         row'[b].st = "none" => row[b].st = "none" /\ run'[b] = 0
                                /\ (q = Bots!Idle \/ (q.op = "create" /\ q.pc \in {"setup", "store"})),
         q # Bots!Idle => RequestOK(q)',
         q # Bots!Idle /\ q.op = "create" /\ q.pc \in {"setup", "store"} =>
           req[r].op = "create" /\ req[r].pc \in {"setup", "store"} /\ row'[b].st = "none",
         ~ mixed[b] => AloneAt(b, req[r])', GoneStops(b)', LimitInv'
  PROVE  BotInv'
<1>1. /\ req'[r] = q /\ \A p \in Task \ {r} : req'[p] = req[p]
      /\ req[r] # Bots!Idle /\ req[r].bot = b
  BY DEF BotInv, Bots!TypeOK, About
<1>2. \A p \in Task : (About(p, b)' => About(p, b)) /\ \A c \in Party \ {b} : About(p, c)' <=> About(p, c)
  BY <1>1 DEF About
<1>3. ASSUME NEW p \in Task, req'[p] # Bots!Idle PROVE RequestOK(req[p])'
  <2>1. CASE p = r
    BY <1>1, <1>3, <2>1 DEF RequestOK
  <2>2. CASE p # r
    <3>1. req'[p] = req[p] /\ RequestOK(req[p]) /\ req[p].bot \in Party
      BY <1>1, <1>3, <2>2, CallTyped
    <3>2. Len(objs[b]) \in Nat /\ Len(objs'[b]) \in Nat
      BY BotTyped DEF BotInv, Bots!TypeOK
    <3>3. CASE req[p].bot = b
      BY <3>1, <3>2, <3>3 DEF RequestOK
    <3>4. CASE req[p].bot # b
      BY <3>1, <3>4 DEF RequestOK
    <3> QED
      BY <3>3, <3>4
  <2> QED
    BY <2>1, <2>2
<1>4. ASSUME NEW p \in Task PROVE CreateOK(p)'
  <2> DEFINE d == req'[p].bot
  <2> SUFFICES ASSUME req'[p] # Bots!Idle, req'[p].op = "create", req'[p].pc \in {"setup", "store"}
               PROVE  row'[d].st = "none" /\ \A u \in Task : req'[u] # Bots!Idle /\ req'[u].bot = d => u = p
    BY DEF CreateOK, About
  <2>1. CASE p = r
    <3>1. d = b /\ row'[b].st = "none" /\ \A u \in Task : About(u, b) => u = r
      BY <1>1, <2>1 DEF BotInv, CreateOK
    <3> QED
      BY <1>1, <2>1, <3>1 DEF About
  <2>2. CASE p # r
    <3>1. /\ req'[p] = req[p] /\ d \in Party /\ row[d].st = "none" /\ About(p, d)
          /\ \A u \in Task : About(u, d) => u = p
      BY <1>1, <2>2, CallTyped DEF BotInv, CreateOK
    <3>2. d # b
      BY <2>2, <3>1
    <3> QED
      BY <1>1, <3>1, <3>2 DEF About
  <2> QED
    BY <2>1, <2>2
<1>5. UnbornOK(b)'
  <2>1. ASSUME row'[b].st = "none", NEW p \in Task, About(p, b)'
        PROVE  req'[p].op = "create" /\ req'[p].pc \in {"setup", "store"}
    <3>1. CASE p = r
      BY <1>1, <2>1, <3>1 DEF About
    <3>2. CASE p # r
      BY <1>1, <1>2, <2>1, <3>2 DEF BotInv, UnbornOK
    <3> QED
      BY <3>1, <3>2
  <2> QED
    BY <2>1 DEF UnbornOK
<1>6. AloneRuns(b)'
  <2> SUFFICES ASSUME ~ mixed[b] PROVE AloneRuns(b)'
    BY DEF AloneRuns
  <2>1. \A p \in Task : About(p, b)' => p = r
    BY <1>2, AloneNow
  <2>2. CASE q = Bots!Idle
    <3>1. \A p \in Task : ~ About(p, b)'
      BY <1>1, <2>1, <2>2 DEF About
    <3>2. req'[r].pc = "idle"
      BY <1>1, <2>2 DEF Bots!Idle
    <3> QED
      BY <3>1, <3>2 DEF AloneRuns, AloneAt
  <2>3. CASE q # Bots!Idle
    <3>1. About(r, b)' /\ req'[r].pc # "idle"
      BY <1>1, <2>3 DEF About, BotCall
    <3> QED
      BY <2>1, <3>1 DEF AloneRuns, AloneAt
  <2> QED
    BY <2>2, <2>3
<1>7. ASSUME NEW c \in Party \ {b} PROVE UnbornOK(c)' /\ AloneRuns(c)' /\ GoneStops(c)'
  <2>1. SameBot(c)
    BY <1>1, <1>2 DEF SameBot, About
  <2> QED
    BY <2>1, Elsewhere
<1> QED
  BY <1>3, <1>4, <1>5, <1>6, <1>7 DEF BotInv

(* One object of a bot is changed. *)
LEMMA ObjectSet ==
  ASSUME NEW s \in Seq(Bots!Gateway), NEW o \in 1 .. Len(s), NEW g \in Bots!Gateway
  PROVE  /\ [s EXCEPT ![o] = g] \in Seq(Bots!Gateway) /\ Len([s EXCEPT ![o] = g]) = Len(s)
         /\ [s EXCEPT ![o] = g][o] = g /\ \A i \in 1 .. Len(s) : i # o => [s EXCEPT ![o] = g][i] = s[i]
OBVIOUS

LEMMA BotTypes ==
  ASSUME Bots!TypeOK, NEW r \in Task, NEW b \in Party, NEW q \in BotCall \cup {Bots!Idle}, NEW s \in Seq(Bots!Gateway),
         req' = [req EXCEPT ![r] = q], row' \in [Party -> Bots!Row], objs' = [objs EXCEPT ![b] = s],
         Len(s) \in 0 .. MaxObj, \A c \in Party \ {b} : run'[c] = run[c] /\ chan'[c] = chan[c],
         run'[b] \in 0 .. Len(s), chan'[b] \subseteq 1 .. Len(s),
         route' \in [Party -> BOOLEAN], hook' \in [Party -> BOOLEAN], outdated' \in [Party -> BOOLEAN],
         older' \in [Party -> BOOLEAN], fails' \in 0 .. MaxFails, UNCHANGED <<mixed, overlap, begun>>
  PROVE  Bots!TypeOK'
<1>1. s \in UNION {[1 .. n -> Bots!Gateway] : n \in 0 .. MaxObj}
  BY ObjsTyped
<1>2. objs' \in [Party -> UNION {[1 .. n -> Bots!Gateway] : n \in 0 .. MaxObj}]
  BY <1>1 DEF Bots!TypeOK
<1>3. objs'[b] = s /\ \A c \in Party \ {b} : objs'[c] = objs[c]
  BY DEF Bots!TypeOK
<1>4. \A c \in Party : run'[c] \in 0 .. Len(objs'[c]) /\ chan'[c] \in SUBSET (1 .. Len(objs'[c]))
  BY <1>3 DEF Bots!TypeOK
<1>5. req' \in [Task -> {Bots!Idle} \cup BotCall]
  BY DEF Bots!TypeOK, BotCall
<1> QED
  BY <1>2, <1>4, <1>5 DEF Bots!TypeOK, BotCall

(* A step of a request that is not the one that stops the gateway. *)
LEMMA GoneStays ==
  ASSUME BotInv, NEW r \in Task, NEW b \in Party, About(r, b), req[r].pc # "stop",
         \A p \in Task \ {r} : req'[p] = req[p], chan'[b] = chan[b], older'[b] = older[b],
         row'[b].st = "gone" /\ ~ outdated'[b] =>
           /\ row[b].st = "gone" /\ ~ outdated[b] /\ run'[b] \in {0, run[b]}
           /\ run[b] # 0 => /\ objs'[b][run[b]].deleted = objs[b][run[b]].deleted
                            /\ ~ objs[b][run[b]].enabled => ~ objs'[b][run[b]].enabled
  PROVE  GoneStops(b)'
<1> SUFFICES ASSUME row'[b].st = "gone", ~ outdated'[b], ~ older[b], run'[b] # 0
             PROVE  \/ \E p \in Task : About(p, b)' /\ req'[p].pc = "stop"
                    \/ chan'[b] = {run'[b]} /\ objs'[b][run'[b]].deleted /\ ~ objs'[b][run'[b]].enabled
  BY DEF GoneStops
<1>1. run'[b] = run[b] /\ row[b].st = "gone" /\ ~ outdated[b] /\ run[b] # 0
  OBVIOUS
<1>2. \/ \E p \in Task : About(p, b) /\ req[p].pc = "stop"
      \/ chan[b] = {run[b]} /\ objs[b][run[b]].deleted /\ ~ objs[b][run[b]].enabled
  BY <1>1 DEF BotInv, GoneStops
<1>3. CASE \E p \in Task : About(p, b) /\ req[p].pc = "stop"
  BY <1>3 DEF About
<1> QED
  BY <1>1, <1>2, <1>3

LEMMA SetupKeeps ==
  ASSUME BotInv, NEW r \in Task, NEW b \in Party, About(r, b), Bots!Setup(r) PROVE BotInv'
<1> DEFINE p == req[r]
           o == Len(objs[b]) + 1
           g == Bots!NewGateway(b, p.want)
           s == Append(objs[b], g)
<1>1. p # Bots!Idle /\ p.pc = "setup" /\ p.bot = b /\ Len(objs[b]) < MaxObj
  BY DEF Bots!Setup, About
<1>2. p \in BotCall /\ RequestOK(p) /\ p.want \in Bots!Settings
  BY <1>1, CallTyped DEF BotCall
<1>3. /\ objs[b] \in Seq(Bots!Gateway) /\ Len(objs[b]) \in 0 .. MaxObj /\ MaxObj \in Nat
      /\ run[b] \in 0 .. Len(objs[b]) /\ chan[b] \subseteq 1 .. Len(objs[b])
      /\ \A i \in 1 .. Len(objs[b]) : objs[b][i] \in Bots!Gateway
  BY BotTyped, ServicesAssumption DEF BotInv
<1>4. o \in 1 .. MaxObj
  BY <1>1, <1>3
<1>5. g \in Bots!Gateway /\ g.enabled = p.want.enabled /\ g.meta = p.want.meta
  <2>1. run[b] # 0 => objs[b][run[b]].map \in 1 .. MaxObj
    BY <1>3 DEF Bots!Gateway
  <2> QED
    BY <1>2, <1>4, <2>1 DEF Bots!NewGateway, Bots!Gateway, Bots!Settings
<1>6. /\ s \in Seq(Bots!Gateway) /\ Len(s) = o /\ s[o] = g /\ \A i \in 1 .. Len(objs[b]) : s[i] = objs[b][i]
  BY <1>3, <1>5
<1>7. PICK q \in BotCall :
        /\ q = [p EXCEPT !.pc = IF p.op = "load" THEN "index" ELSE "store", !.obj = o]
        /\ q.pc = (IF p.op = "load" THEN "index" ELSE "store") /\ q.obj = o /\ q.op = p.op /\ q.bot = b
        /\ q.want = p.want /\ q.field = p.field /\ q.force = p.force
  <2> DEFINE e == [p EXCEPT !.pc = IF p.op = "load" THEN "index" ELSE "store", !.obj = o]
  <2>1. e \in BotCall
    <3>1. o \in 0 .. MaxObj
      BY <1>3, <1>4
    <3> HIDE DEF o, p
    <3> QED
      BY <1>2, <3>1 DEF BotCall
  <2>2. /\ e.pc = (IF p.op = "load" THEN "index" ELSE "store") /\ e.obj = o /\ e.op = p.op /\ e.bot = b
        /\ e.want = p.want /\ e.field = p.field /\ e.force = p.force
    BY <1>1, <1>2 DEF BotCall
  <2>3. e = [p EXCEPT !.pc = IF p.op = "load" THEN "index" ELSE "store", !.obj = o]
    OBVIOUS
  <2> HIDE DEF e
  <2> QED
    BY <2>1, <2>2, <2>3
<1>8. /\ objs' = [objs EXCEPT ![b] = s] /\ req' = [req EXCEPT ![r] = q]
      /\ UNCHANGED <<row, run, route, hook, chan, mixed, outdated, older, overlap, begun, fails>>
  BY <1>1, <1>7 DEF Bots!Setup, BotInv, Bots!TypeOK
<1> HIDE DEF s, g
<1>9. /\ objs'[b] = s /\ (\A c \in Party \ {b} : objs'[c] = objs[c])
      /\ req'[r] = q /\ q # Bots!Idle /\ \A u \in Task \ {r} : req'[u] = req[u]
  BY <1>8, CallAtWork DEF BotInv, Bots!TypeOK
<1>10. Bots!TypeOK'
  <2>1. run'[b] \in 0 .. Len(s) /\ chan'[b] \subseteq 1 .. Len(s) /\ Len(s) \in 0 .. MaxObj
    BY <1>3, <1>4, <1>6, <1>8
  <2> QED
    BY <1>6, <1>8, <2>1, BotTypes DEF BotInv, Bots!TypeOK
<1>11. ~ mixed[b] => AloneAt(b, req[r])'
  <2> SUFFICES ASSUME ~ mixed[b] PROVE AloneAt(b, req[r])'
    OBVIOUS
  <2>1. AloneAt(b, p)
    BY AloneNow
  <2>2. (Bots!Stored(b) <=> Bots!Stored(b)') /\ (Merged(b, p) => Merged(b, req[r])')
    BY <1>7, <1>8, <1>9 DEF Bots!Stored, Merged
  <2>3. run[b] # 0 => (As(b, run[b], row[b].set) => As(b, run[b], row[b].set)')
    BY <1>3, <1>6, <1>8, <1>9 DEF As
  <2>4. objs'[b][q.obj].enabled = p.want.enabled /\ objs'[b][q.obj].meta = p.want.meta
    BY <1>5, <1>6, <1>7, <1>9
  <2>5. As(b, req[r].obj, req[r].want)' /\ (p.op = "load" => As(b, req[r].obj, row[b].set)')
    <3>1. p.op = "load" => p.want = row[b].set
      BY <1>1, <2>1 DEF AloneAt
    <3> HIDE DEF p
    <3> QED
      BY <1>7, <1>8, <1>9, <2>4, <3>1 DEF As
  <2>6. p.op \in {"create", "update", "load"}
    BY <1>1, <1>2 DEF RequestOK
  <2> QED
    BY <1>1, <1>7, <1>8, <1>9, <2>1, <2>2, <2>3, <2>5, <2>6 DEF AloneAt
<1>12. GoneStops(b)'
  <2>1. run[b] # 0 => objs'[b][run[b]] = objs[b][run[b]]
    BY <1>3, <1>6, <1>9
  <2> HIDE DEF p
  <2> QED
    BY <1>1, <1>8, <1>9, <2>1, GoneStays DEF p
<1>13. LimitInv'
  <2>1. ASSUME NEW u \in Task, Bots!Enabling(u)' PROVE Bots!Enabling(u)
    <3>1. CASE u = r
      <4>1. q.want.enabled /\ (q.op = "create" \/ (q.op = "update" /\ q.field = "enabled"))
        BY <1>9, <2>1, <3>1 DEF Bots!Enabling
      <4> HIDE DEF p
      <4> QED
        BY <1>1, <1>7, <3>1, <4>1 DEF Bots!Enabling, p
    <3>2. CASE u # r
      BY <1>9, <2>1, <3>2 DEF Bots!Enabling
    <3> QED
      BY <3>1, <3>2
  <2> QED
    BY <1>8, <2>1, LimitStays DEF Bots!Stored
<1>14. RequestOK(q)'
  <2>1. q.obj \in 1 .. Len(objs'[b])
    BY <1>3, <1>4, <1>6, <1>7, <1>9
  <2> QED
    BY <1>1, <1>2, <1>7, <2>1 DEF RequestOK
<1>15. /\ row[b].st = "none" => run[b] = 0 /\ p.op = "create"
       /\ q.op = "create" => row[b].st = "none"
  BY <1>1, <1>7 DEF BotInv, UnbornOK, CreateOK
<1>16. Len(objs'[b]) >= Len(objs[b])
  BY <1>3, <1>6, <1>9
<1>17. /\ \A c \in Party \ {b} : /\ row'[c] = row[c] /\ run'[c] = run[c] /\ chan'[c] = chan[c] /\ objs'[c] = objs[c]
                                  /\ outdated'[c] = outdated[c] /\ older'[c] = older[c]
       /\ UNCHANGED <<mixed, begun>> /\ row' = row /\ run' = run
       /\ run' \in [Party -> Nat] /\ chan' \in [Party -> SUBSET Nat]
  BY <1>8, <1>9 DEF BotInv
<1>18. row[b].st = "none" => q.op = "create" /\ q.pc = "store"
  BY <1>7, <1>15
<1>19. q.op = "create" => req[r].op = "create" /\ req[r].pc = "setup"
  BY <1>1, <1>7
<1>20. row'[b].st = "none" => row[b].st = "none" /\ run'[b] = 0
                              /\ (q = Bots!Idle \/ (q.op = "create" /\ q.pc \in {"setup", "store"}))
  BY <1>15, <1>17, <1>18
<1>21. q # Bots!Idle /\ q.op = "create" /\ q.pc \in {"setup", "store"} =>
         req[r].op = "create" /\ req[r].pc \in {"setup", "store"} /\ row'[b].st = "none"
  BY <1>15, <1>17, <1>19
<1>22. q \in BotCall \cup {Bots!Idle} /\ q.bot = b /\ (row[b].st = "gone" => row'[b].st = "gone")
  BY <1>7, <1>17
<1> HIDE DEF p, o
<1> QED
  BY <1>8, <1>10, <1>11, <1>12, <1>13, <1>14, <1>16, <1>17, <1>20, <1>21, <1>22, StepKeeps

(* A request ends and leaves the rows, the objects and the channels as they are. *)
LEMMA EndKeeps ==
  ASSUME BotInv, NEW r \in Task, NEW b \in Party, About(r, b), req[r].pc # "stop", req' = [req EXCEPT ![r] = Bots!Idle],
         UNCHANGED <<row, objs, run, route, chan, mixed, outdated, older, overlap, begun>>,
         hook' \in [Party -> BOOLEAN], fails' \in 0 .. MaxFails,
         ~ mixed[b] /\ Bots!Stored(b) /\ run[b] # 0 => As(b, run[b], row[b].set)
  PROVE  BotInv'
<1>1. req'[r] = Bots!Idle /\ \A u \in Task \ {r} : req'[u] = req[u]
  BY DEF BotInv, Bots!TypeOK
<1>2. Bots!TypeOK'
  BY DEF BotInv, Bots!TypeOK
<1>3. ~ mixed[b] => AloneAt(b, req[r])'
  BY <1>1 DEF AloneAt, As, Bots!Stored, Bots!Idle
<1>4. GoneStops(b)'
  BY <1>1, GoneStays
<1>5. LimitInv'
  <2>1. ASSUME NEW u \in Task, Bots!Enabling(u)' PROVE Bots!Enabling(u)
    BY <1>1, <2>1 DEF Bots!Enabling
  <2> QED
    BY <2>1, LimitStays DEF Bots!Stored
<1>6. Len(objs'[b]) >= Len(objs[b])
  BY BotTyped DEF BotInv
<1>7. Bots!Idle \in BotCall \cup {Bots!Idle} /\ run' \in [Party -> Nat] /\ chan' \in [Party -> SUBSET Nat]
      /\ (row'[b].st = "none" => row[b].st = "none" /\ run'[b] = 0)
  BY DEF BotInv, UnbornOK
<1> QED
  BY <1>1, <1>2, <1>3, <1>4, <1>5, <1>6, <1>7, StepKeeps

LEMMA SetupFailsKeeps ==
  ASSUME BotInv, NEW r \in Task, NEW b \in Party, About(r, b), Bots!SetupFails(r) PROVE BotInv'
<1>1. req[r].pc = "setup" /\ fails' \in 0 .. MaxFails /\ hook' \in [Party -> BOOLEAN]
  BY ServicesAssumption DEF Bots!SetupFails, BotInv, Bots!TypeOK
<1>2. ~ mixed[b] /\ Bots!Stored(b) /\ run[b] # 0 => As(b, run[b], row[b].set)
  BY <1>1, AloneNow DEF AloneAt
<1> QED
  BY <1>1, <1>2, EndKeeps DEF Bots!SetupFails

LEMMA RegisterKeeps ==
  ASSUME BotInv, NEW r \in Task, NEW b \in Party, About(r, b), Bots!Register(r) PROVE BotInv'
<1>1. req[r].pc = "provider" /\ fails' \in 0 .. MaxFails /\ hook' \in [Party -> BOOLEAN]
  BY DEF Bots!Register, BotInv, Bots!TypeOK
<1>2. ~ mixed[b] /\ Bots!Stored(b) /\ run[b] # 0 => As(b, run[b], row[b].set)
  BY <1>1, AloneNow DEF AloneAt
<1> QED
  BY <1>1, <1>2, EndKeeps DEF Bots!Register

(* The write of a new row. *)
LEMMA RowCreated ==
  ASSUME Bots!TypeOK, NEW b \in Party, NEW w \in Bots!Settings, row' = Bots!Created(b, w)
  PROVE  /\ row' \in [Party -> Bots!Row] /\ row'[b].st = "stored" /\ row'[b].set = w
         /\ \A c \in Party \ {b} : row'[c] = row[c]
<1>1. row \in [Party -> Bots!Row]
  BY DEF Bots!TypeOK
<1>2. [st |-> "stored", set |-> w] \in Bots!Row
  BY DEF Bots!Row
<1> QED
  BY <1>1, <1>2 DEF Bots!Created

(* The write of one field of a row. *)
LEMMA RowUpdated ==
  ASSUME Bots!TypeOK, NEW b \in Party, NEW w \in Bots!Settings, NEW f \in {"enabled", "meta"},
         row' = Bots!Updated(b, f, w[f])
  PROVE  /\ row' \in [Party -> Bots!Row] /\ row'[b].st = row[b].st
         /\ row'[b].set = (IF Bots!Stored(b) THEN [row[b].set EXCEPT ![f] = w[f]] ELSE row[b].set)
         /\ \A c \in Party \ {b} : row'[c] = row[c]
<1>1. row \in [Party -> Bots!Row] /\ row[b].set \in Bots!Settings /\ row[b] \in Bots!Row
  BY BotTyped DEF Bots!TypeOK
<1>2. w[f] \in (IF f = "enabled" THEN BOOLEAN ELSE {0, 1})
  BY DEF Bots!Settings
<1>3. [row[b].set EXCEPT ![f] = w[f]] \in Bots!Settings
  BY <1>1, <1>2 DEF Bots!Settings
<1>4. CASE Bots!Stored(b)
  <2> DEFINE n == [row[b] EXCEPT !.set = [row[b].set EXCEPT ![f] = w[f]]]
  <2>1. row' = [row EXCEPT ![b] = n]
    BY <1>4 DEF Bots!Updated
  <2>2. n \in Bots!Row /\ n.st = row[b].st /\ n.set = [row[b].set EXCEPT ![f] = w[f]]
    BY <1>1, <1>3 DEF Bots!Row
  <2> HIDE DEF n
  <2> QED
    BY <1>1, <1>4, <2>1, <2>2
<1>5. CASE ~ Bots!Stored(b)
  BY <1>1, <1>5 DEF Bots!Updated
<1> QED
  BY <1>4, <1>5

LEMMA StoreKeeps ==
  ASSUME BotInv, NEW r \in Task, NEW b \in Party, About(r, b), Bots!Store(r) PROVE BotInv'
<1> DEFINE p == req[r]
           idle == (p.op = "create" /\ ~ p.want.enabled) \/ (p.op = "update" /\ ~ Bots!Stored(b))
<1>1. p # Bots!Idle /\ p.pc = "store" /\ p.bot = b /\ p \in BotCall /\ RequestOK(p)
      /\ p.want \in Bots!Settings /\ p.op \in {"create", "update"} /\ p.obj \in 1 .. Len(objs[b])
      /\ (p.op = "update" => p.field \in {"enabled", "meta"})
  BY CallTyped DEF Bots!Store, About, BotCall, RequestOK
<1>2. /\ UNCHANGED <<objs, run, route, hook, chan, mixed, outdated, older, overlap, begun, fails>>
      /\ (p.op = "create" => row' = Bots!Created(b, p.want))
      /\ (p.op = "update" => row' = Bots!Updated(b, p.field, p.want[p.field]))
  BY <1>1 DEF Bots!Store
<1>3. PICK q \in BotCall \cup {Bots!Idle} :
        /\ req' = [req EXCEPT ![r] = q] /\ (idle => q = Bots!Idle)
        /\ ~ idle => /\ q \in BotCall /\ q.pc = "index" /\ q.op = p.op /\ q.bot = b /\ q.obj = p.obj
                     /\ q.field = p.field /\ q.want = p.want
  <2> DEFINE f == p.want.enabled /\ (p.op = "create" \/ p.field = "enabled")
             e == [p EXCEPT !.pc = "index", !.force = f]
  <2>1. req' = [req EXCEPT ![r] = IF idle THEN Bots!Idle ELSE e]
    BY <1>1 DEF Bots!Store
  <2>2. f \in BOOLEAN
    OBVIOUS
  <2> HIDE DEF f
  <2>3. /\ e \in BotCall /\ e.pc = "index" /\ e.op = p.op /\ e.bot = b /\ e.obj = p.obj
        /\ e.field = p.field /\ e.want = p.want
    BY <1>1, <2>2 DEF BotCall
  <2> HIDE DEF e, idle
  <2> QED
    BY <2>1, <2>3
<1>4. /\ row' \in [Party -> Bots!Row] /\ (\A c \in Party \ {b} : row'[c] = row[c])
      /\ (p.op = "create" => row'[b].st = "stored" /\ row'[b].set = p.want)
      /\ (p.op = "update" => /\ row'[b].st = row[b].st
                             /\ row'[b].set = (IF Bots!Stored(b) THEN [row[b].set EXCEPT ![p.field] = p.want[p.field]]
                                                                 ELSE row[b].set))
  <2>1. CASE p.op = "create"
    <3>1. row' = Bots!Created(b, p.want) /\ p.want \in Bots!Settings /\ Bots!TypeOK
      BY <1>1, <1>2, <2>1 DEF BotInv
    <3> HIDE DEF p
    <3> QED
      BY <2>1, <3>1, RowCreated
  <2>2. CASE p.op = "update"
    <3>1. /\ p.field \in {"enabled", "meta"} /\ row' = Bots!Updated(b, p.field, p.want[p.field])
          /\ p.want \in Bots!Settings /\ Bots!TypeOK
      BY <1>1, <1>2, <2>2 DEF BotInv
    <3>2. PICK f \in {"enabled", "meta"}, w \in Bots!Settings : f = p.field /\ w = p.want
      BY <3>1
    <3> HIDE DEF p
    <3>3. row' = Bots!Updated(b, f, w[f]) /\ Bots!TypeOK
      BY <3>1, <3>2
    <3>4. /\ row' \in [Party -> Bots!Row] /\ row'[b].st = row[b].st
          /\ row'[b].set = (IF Bots!Stored(b) THEN [row[b].set EXCEPT ![f] = w[f]] ELSE row[b].set)
          /\ \A c \in Party \ {b} : row'[c] = row[c]
      BY <3>3, RowUpdated, Zenon
    <3> QED
      BY <2>2, <3>2, <3>4
  <2> QED
    BY <1>1, <2>1, <2>2
<1>5. req'[r] = q /\ \A u \in Task \ {r} : req'[u] = req[u]
  BY <1>3 DEF BotInv, Bots!TypeOK
<1>6. (p.op = "create" => row[b].st = "none") /\ (p.op = "update" => row[b].st # "none")
  BY <1>1 DEF BotInv, CreateOK, UnbornOK
<1>7. Len(objs[b]) \in Nat /\ Len(objs[b]) \in 0 .. MaxObj /\ objs[b] \in Seq(Bots!Gateway)
      /\ run[b] \in 0 .. Len(objs[b]) /\ chan[b] \subseteq 1 .. Len(objs[b])
  BY BotTyped, ServicesAssumption DEF BotInv
<1>8. Bots!TypeOK'
  BY <1>2, <1>3, <1>4 DEF BotInv, Bots!TypeOK, BotCall
<1>9. ~ mixed[b] => AloneAt(b, req[r])'
  <2> SUFFICES ASSUME ~ mixed[b] PROVE AloneAt(b, req[r])'
    OBVIOUS
  <2>1. AloneAt(b, p)
    BY AloneNow
  <2>2. As(b, p.obj, p.want) /\ (p.op = "update" => Bots!Stored(b) /\ Merged(b, p))
    BY <1>1, <2>1 DEF AloneAt
  <2>3. row'[b].set = p.want /\ row'[b].st = "stored"
    BY <1>1, <1>4, <2>2 DEF Merged, Bots!Stored
  <2>4. p.op = "create" => run[b] = 0
    BY <1>6 DEF BotInv, UnbornOK
  <2>5. idle => q = Bots!Idle /\ p.op = "create" /\ run[b] = 0
    BY <1>1, <1>3, <2>2, <2>4
  <2>6. CASE idle
    <3>1. q.pc = "idle" /\ run'[b] = 0
      BY <1>2, <2>5, <2>6 DEF Bots!Idle
    <3> QED
      BY <1>5, <2>3, <3>1 DEF AloneAt, Bots!Stored
  <2>7. CASE ~ idle
    <3>1. q.pc = "index" /\ As(b, q.obj, row'[b].set) /\ row'[b].st = "stored"
      BY <1>3, <2>2, <2>3, <2>7 DEF As
    <3>2. As(b, req[r].obj, row[b].set)'
      BY <1>2, <1>5, <3>1 DEF As
    <3> QED
      BY <1>5, <3>1, <3>2 DEF AloneAt, Bots!Stored
  <2> QED
    BY <2>6, <2>7
<1>10. GoneStops(b)'
  <2>1. row'[b].st = "gone" => row[b].st = "gone"
    BY <1>1, <1>4
  <2> HIDE DEF p, idle
  <2> QED
    BY <1>1, <1>2, <1>5, <2>1, GoneStays DEF p
<1>11. LimitInv'
  <2>1. \A u \in Task : Bots!Enabling(u)' => Bots!Enabling(u) /\ u # r
    <3>1. ~ Bots!Enabling(r)'
      BY <1>3, <1>5 DEF Bots!Enabling, Bots!Idle
    <3>2. \A u \in Task \ {r} : Bots!Enabling(u)' => Bots!Enabling(u)
      BY <1>5 DEF Bots!Enabling
    <3> QED
      BY <3>1, <3>2
  <2>2. CASE Bots!Enabling(r)
    <3> SUFFICES ASSUME ~ overlap PROVE LimitInv'
      BY <1>2 DEF LimitInv
    <3>1. \A c \in Party \ {b} : (Bots!Stored(c) /\ row[c].set.enabled)' => Bots!Stored(c) /\ row[c].set.enabled
      BY <1>4 DEF Bots!Stored
    <3>2. Bots!ActiveBotsCount' <= Bots!ActiveBotsCount + 1 /\ Bots!ActiveBotsCount \in Nat
          /\ Bots!ActiveBotsCount' \in Nat
      <4>1. Bots!ActiveBotsCount' <= Bots!ActiveBotsCount + 1
        BY <3>1, CountGrows
      <4>2. Bots!ActiveBotsCount \in Nat
        BY CountTyped
      <4>3. Bots!ActiveBotsCount' \in Nat
        BY CountTypedNext
      <4> QED
        BY <4>1, <4>2, <4>3
    <3>3. Bots!ActiveBotsCount + 1 <= Licence /\ \A u \in Task : ~ Bots!Enabling(u)'
      BY <2>1, <2>2 DEF BotInv, LimitInv
    <3>4. Bots!ActiveBotsCount' <= Licence
      BY <3>2, <3>3, ServicesAssumption
    <3> QED
      BY <3>3, <3>4, Zenon DEF LimitInv
  <2>3. CASE ~ Bots!Enabling(r)
    <3>1. p.want.enabled => p.op = "update" /\ p.field # "enabled"
      BY <1>1, <2>3 DEF Bots!Enabling
    <3>2. row[b].set \in Bots!Settings
      BY BotTyped DEF BotInv
    <3>3. row'[b].set.enabled => row[b].set.enabled /\ row'[b].st = row[b].st
      BY <1>1, <1>4, <3>1, <3>2 DEF Bots!Settings
    <3>4. \A c \in Party : (Bots!Stored(c) /\ row[c].set.enabled)' => Bots!Stored(c) /\ row[c].set.enabled
      BY <1>4, <3>3 DEF Bots!Stored
    <3> QED
      BY <1>2, <2>1, <3>4, LimitStays
  <2> QED
    BY <2>2, <2>3
<1>12. q # Bots!Idle => RequestOK(q)' /\ q.bot = b /\ q.pc = "index"
  BY <1>1, <1>2, <1>3 DEF RequestOK
<1>13. row'[b].st # "none" /\ (row[b].st = "gone" => row'[b].st = "gone")
  BY <1>1, <1>4, <1>6
<1>14. /\ \A c \in Party \ {b} : /\ row'[c] = row[c] /\ run'[c] = run[c] /\ chan'[c] = chan[c] /\ objs'[c] = objs[c]
                                 /\ outdated'[c] = outdated[c] /\ older'[c] = older[c]
       /\ UNCHANGED <<mixed, begun>> /\ Len(objs'[b]) >= Len(objs[b])
       /\ run' \in [Party -> Nat] /\ chan' \in [Party -> SUBSET Nat]
  BY <1>2, <1>4, <1>7 DEF BotInv
<1> HIDE DEF p, idle
<1> QED
  BY <1>3, <1>8, <1>9, <1>10, <1>11, <1>12, <1>13, <1>14, StepKeeps

LEMMA SaveMetadataKeeps ==
  ASSUME BotInv, NEW r \in Task, NEW b \in Party, About(r, b), Bots!SaveMetadata(r) PROVE BotInv'
<1> DEFINE p == req[r]
           o == req[r].obj
           m == 1 - objs[b][o].meta
           g == [objs[b][o] EXCEPT !.meta = m]
<1>1. p # Bots!Idle /\ p.pc = "meta" /\ p.bot = b /\ RequestOK(p)
  BY CallTyped DEF Bots!SaveMetadata, About
<1>2. /\ objs[b] \in Seq(Bots!Gateway) /\ Len(objs[b]) \in 0 .. MaxObj /\ Len(objs[b]) \in Nat
      /\ run[b] \in 0 .. Len(objs[b]) /\ chan[b] \subseteq 1 .. Len(objs[b]) /\ row[b].set \in Bots!Settings
      /\ \A i \in 1 .. Len(objs[b]) : objs[b][i] \in Bots!Gateway
  BY BotTyped, ServicesAssumption DEF BotInv
<1>3. o \in 1 .. Len(objs[b]) /\ objs[b][o] \in Bots!Gateway
  BY <1>1, <1>2 DEF RequestOK
<1>4. m \in {0, 1} /\ g \in Bots!Gateway /\ g.meta = m /\ g.enabled = objs[b][o].enabled /\ g.deleted = objs[b][o].deleted
  BY <1>3 DEF Bots!Gateway
<1>5. PICK s \in Seq(Bots!Gateway) :
        /\ objs' = [objs EXCEPT ![b] = s] /\ Len(s) = Len(objs[b])
        /\ s[o] = (IF Bots!Stored(b) THEN g ELSE objs[b][o]) /\ \A i \in 1 .. Len(s) : i # o => s[i] = objs[b][i]
  <2>1. CASE Bots!Stored(b)
    <3> DEFINE s == [objs[b] EXCEPT ![o] = g]
    <3>1. objs' = [objs EXCEPT ![b] = s]
      BY <1>1, <2>1 DEF Bots!SaveMetadata
    <3>2. s \in Seq(Bots!Gateway) /\ Len(s) = Len(objs[b]) /\ s[o] = g /\ \A i \in 1 .. Len(objs[b]) : i # o => s[i] = objs[b][i]
      BY <1>2, <1>3, <1>4, ObjectSet
    <3> HIDE DEF s, g, m, o
    <3> QED
      BY <2>1, <3>1, <3>2
  <2>2. CASE ~ Bots!Stored(b)
    <3>1. objs' = [objs EXCEPT ![b] = objs[b]]
      BY <1>1, <2>2 DEF Bots!SaveMetadata, BotInv, Bots!TypeOK
    <3> HIDE DEF g, m, o
    <3> QED
      BY <1>2, <2>2, <3>1
  <2> QED
    BY <2>1, <2>2
<1>6. /\ req' = [req EXCEPT ![r] = Bots!Idle]
      /\ UNCHANGED <<run, route, hook, chan, mixed, outdated, older, overlap, begun, fails>>
  BY DEF Bots!SaveMetadata
<1>7. /\ row' \in [Party -> Bots!Row] /\ (\A c \in Party \ {b} : row'[c] = row[c]) /\ row'[b].st = row[b].st
      /\ row'[b].set.enabled = row[b].set.enabled /\ (Bots!Stored(b) => row'[b].set.meta = m)
  <2>1. CASE Bots!Stored(b)
    <3> DEFINE w == [row[b].set EXCEPT !.meta = m]
    <3>1. w \in Bots!Settings /\ w["meta"] = m /\ w.enabled = row[b].set.enabled
      BY <1>2, <1>4 DEF Bots!Settings
    <3>2. row' = Bots!Updated(b, "meta", w["meta"])
      BY <1>1, <2>1, <3>1 DEF Bots!SaveMetadata
    <3> HIDE DEF w
    <3>3. /\ row' \in [Party -> Bots!Row] /\ (\A c \in Party \ {b} : row'[c] = row[c]) /\ row'[b].st = row[b].st
          /\ row'[b].set = [row[b].set EXCEPT !["meta"] = w["meta"]]
      BY <2>1, <3>1, <3>2, RowUpdated, Zenon DEF BotInv
    <3>4. row'[b].set.enabled = row[b].set.enabled /\ row'[b].set.meta = w["meta"]
      BY <1>2, <3>3 DEF Bots!Settings
    <3> QED
      BY <3>1, <3>3, <3>4
  <2>2. CASE ~ Bots!Stored(b)
    BY <1>1, <2>2 DEF Bots!SaveMetadata, BotInv, Bots!TypeOK
  <2> QED
    BY <2>1, <2>2
<1> HIDE DEF g, m, o
<1>8. /\ req'[r] = Bots!Idle /\ (\A u \in Task \ {r} : req'[u] = req[u])
      /\ objs'[b] = s /\ \A c \in Party \ {b} : objs'[c] = objs[c]
  BY <1>5, <1>6 DEF BotInv, Bots!TypeOK
<1>9. Bots!TypeOK'
  <2>1. Len(s) \in 0 .. MaxObj /\ run'[b] \in 0 .. Len(s) /\ chan'[b] \subseteq 1 .. Len(s)
    BY <1>2, <1>5, <1>6
  <2>2. /\ \A c \in Party \ {b} : run'[c] = run[c] /\ chan'[c] = chan[c]
        /\ route' \in [Party -> BOOLEAN] /\ hook' \in [Party -> BOOLEAN] /\ outdated' \in [Party -> BOOLEAN]
        /\ older' \in [Party -> BOOLEAN] /\ fails' \in 0 .. MaxFails /\ Bots!TypeOK
    BY <1>6 DEF BotInv, Bots!TypeOK
  <2> QED
    BY <1>5, <1>6, <1>7, <2>1, <2>2, BotTypes
<1>10. ~ mixed[b] => AloneAt(b, req[r])'
  <2> SUFFICES ASSUME ~ mixed[b] PROVE AloneAt(b, req[r])'
    OBVIOUS
  <2>1. AloneAt(b, p)
    BY AloneNow
  <2>2. Bots!Stored(b) /\ run[b] \in {0, o} /\ (run[b] # 0 => As(b, run[b], row[b].set))
    BY <1>1, <2>1 DEF AloneAt, o
  <2>3. run[b] # 0 => run[b] = o /\ s[o].enabled = row'[b].set.enabled /\ s[o].meta = row'[b].set.meta
    BY <1>4, <1>5, <1>7, <2>2 DEF As
  <2>4. run'[b] # 0 => As(b, run[b], row[b].set)'
    BY <1>6, <1>8, <2>3 DEF As
  <2>5. row'[b].st = "stored" /\ req'[r].pc = "idle"
    BY <1>7, <1>8, <2>2 DEF Bots!Stored, Bots!Idle
  <2> QED
    BY <2>4, <2>5 DEF AloneAt, Bots!Stored
<1>11. GoneStops(b)'
  <2>1. row'[b].st = "gone" => s[o] = objs[b][o]
    BY <1>5, <1>7 DEF Bots!Stored
  <2>2. row'[b].st = "gone" /\ run[b] # 0 => objs'[b][run[b]] = objs[b][run[b]]
    BY <1>2, <1>5, <1>8, <2>1
  <2> HIDE DEF p
  <2> QED
    BY <1>1, <1>6, <1>7, <1>8, <2>2, GoneStays DEF p
<1>12. LimitInv'
  <2>1. \A u \in Task : Bots!Enabling(u)' => Bots!Enabling(u)
    <3>1. ~ Bots!Enabling(r)'
      BY <1>8 DEF Bots!Enabling
    <3>2. \A u \in Task \ {r} : Bots!Enabling(u)' => Bots!Enabling(u)
      BY <1>8 DEF Bots!Enabling
    <3> QED
      BY <3>1, <3>2
  <2>2. \A c \in Party : (Bots!Stored(c) /\ row[c].set.enabled)' => Bots!Stored(c) /\ row[c].set.enabled
    BY <1>7 DEF Bots!Stored
  <2> QED
    BY <1>6, <2>1, <2>2, LimitStays
<1>13. row'[b].st = "none" => row[b].st = "none" /\ run'[b] = 0
  BY <1>6, <1>7 DEF BotInv, UnbornOK
<1>14. /\ \A c \in Party \ {b} : /\ row'[c] = row[c] /\ run'[c] = run[c] /\ chan'[c] = chan[c] /\ objs'[c] = objs[c]
                                 /\ outdated'[c] = outdated[c] /\ older'[c] = older[c]
       /\ UNCHANGED <<mixed, begun>> /\ Len(objs'[b]) >= Len(objs[b]) /\ (row[b].st = "gone" => row'[b].st = "gone")
       /\ run' \in [Party -> Nat] /\ chan' \in [Party -> SUBSET Nat] /\ Bots!Idle \in BotCall \cup {Bots!Idle}
  BY <1>2, <1>5, <1>6, <1>7, <1>8 DEF BotInv
<1> HIDE DEF p
<1> QED
  BY <1>6, <1>9, <1>10, <1>11, <1>12, <1>13, <1>14, StepKeeps

LEMMA IndexKeeps ==
  ASSUME BotInv, NEW r \in Task, NEW b \in Party, About(r, b), Bots!Index(r) PROVE BotInv'
<1> DEFINE p == req[r]
           o == req[r].obj
           e == run[b]
           g == [objs[b][e] EXCEPT !.enabled = objs[b][o].enabled]
<1>1. p # Bots!Idle /\ p.pc = "index" /\ p.bot = b /\ RequestOK(p) /\ p \in BotCall
  BY CallTyped DEF Bots!Index, About
<1>2. /\ objs[b] \in Seq(Bots!Gateway) /\ Len(objs[b]) \in 0 .. MaxObj /\ Len(objs[b]) \in Nat
      /\ e \in 0 .. Len(objs[b]) /\ chan[b] \subseteq 1 .. Len(objs[b])
      /\ \A i \in 1 .. Len(objs[b]) : objs[b][i] \in Bots!Gateway
  BY BotTyped, ServicesAssumption DEF BotInv
<1>3. o \in 1 .. Len(objs[b]) /\ objs[b][o] \in Bots!Gateway
  BY <1>1, <1>2 DEF RequestOK
<1>4. e # 0 => /\ e \in 1 .. Len(objs[b]) /\ g \in Bots!Gateway /\ g.meta = objs[b][e].meta
               /\ g.enabled = objs[b][o].enabled
  <2>1. e # 0 => e \in 1 .. Len(objs[b]) /\ objs[b][e] \in Bots!Gateway
    <3> HIDE DEF e
    <3> QED
      BY <1>2
  <2>2. objs[b][o].enabled \in BOOLEAN
    BY <1>3 DEF Bots!Gateway
  <2>3. objs[b][e] \in Bots!Gateway => /\ g \in Bots!Gateway /\ g.meta = objs[b][e].meta
                                      /\ g.enabled = objs[b][o].enabled
    BY <2>2 DEF Bots!Gateway
  <2> HIDE DEF g, e, o
  <2> QED
    BY <2>1, <2>3
<1>5. PICK s \in Seq(Bots!Gateway) :
        /\ objs' = [objs EXCEPT ![b] = s] /\ Len(s) = Len(objs[b])
        /\ s[o].enabled = objs[b][o].enabled /\ s[o].meta = objs[b][o].meta
  <2>1. CASE e # 0
    <3> DEFINE s == [objs[b] EXCEPT ![e] = g]
    <3>1. objs' = [objs EXCEPT ![b] = s]
      BY <1>1, <2>1 DEF Bots!Index
    <3>2. s \in Seq(Bots!Gateway) /\ Len(s) = Len(objs[b]) /\ s[e] = g /\ \A i \in 1 .. Len(objs[b]) : i # e => s[i] = objs[b][i]
      BY <1>2, <1>4, <2>1, ObjectSet
    <3> HIDE DEF s, g
    <3>3. s[o].enabled = objs[b][o].enabled /\ s[o].meta = objs[b][o].meta
      BY <1>3, <1>4, <2>1, <3>2
    <3> QED
      BY <3>1, <3>2, <3>3
  <2>2. CASE e = 0
    <3>1. objs' = [objs EXCEPT ![b] = objs[b]]
      BY <1>1, <2>2 DEF Bots!Index, BotInv, Bots!TypeOK
    <3> HIDE DEF g
    <3> QED
      BY <1>2, <2>2, <3>1
  <2> QED
    BY <2>1, <2>2
<1>6. PICK q \in BotCall \cup {Bots!Idle} :
        /\ req' = [req EXCEPT ![r] = q]
        /\ q # Bots!Idle => /\ p.force /\ q.pc = "provider" /\ q.op = p.op /\ q.bot = b /\ q.obj = o
                            /\ q.field = p.field
  <2> DEFINE n == [p EXCEPT !.pc = "provider"]
  <2>1. req' = [req EXCEPT ![r] = IF p.force THEN n ELSE Bots!Idle]
    BY <1>1 DEF Bots!Index
  <2>2. n \in BotCall /\ n.pc = "provider" /\ n.op = p.op /\ n.bot = b /\ n.obj = o /\ n.field = p.field
    BY <1>1 DEF BotCall
  <2> HIDE DEF n
  <2> QED
    BY <2>1, <2>2
<1>7. /\ UNCHANGED <<row, hook, chan, mixed, older, overlap, begun, fails>>
      /\ run' = [run EXCEPT ![b] = o] /\ route' = [route EXCEPT ![b] = TRUE]
      /\ outdated' = [outdated EXCEPT ![b] = @ \/ ~ Bots!Stored(b)]
  BY <1>1 DEF Bots!Index, Bots!Current
<1> HIDE DEF g
<1>8. /\ req'[r] = q /\ (\A u \in Task \ {r} : req'[u] = req[u])
      /\ objs'[b] = s /\ \A c \in Party \ {b} : objs'[c] = objs[c]
  BY <1>5, <1>6 DEF BotInv, Bots!TypeOK
<1>9. /\ run'[b] = o /\ (outdated'[b] <=> outdated[b] \/ ~ Bots!Stored(b))
      /\ \A c \in Party \ {b} : run'[c] = run[c] /\ outdated'[c] = outdated[c]
      /\ run' \in [Party -> Nat] /\ outdated' \in [Party -> BOOLEAN] /\ route' \in [Party -> BOOLEAN]
  <2>1. run \in [Party -> Nat] /\ outdated \in [Party -> BOOLEAN] /\ route \in [Party -> BOOLEAN]
    BY DEF BotInv, Bots!TypeOK
  <2>2. o \in Nat
    BY <1>2, <1>3
  <2> HIDE DEF o
  <2>3. run' \in [Party -> Nat] /\ run'[b] = o /\ \A c \in Party \ {b} : run'[c] = run[c]
    BY <1>7, <2>1, <2>2
  <2>4. /\ outdated' \in [Party -> BOOLEAN] /\ (outdated'[b] <=> outdated[b] \/ ~ Bots!Stored(b))
        /\ \A c \in Party \ {b} : outdated'[c] = outdated[c]
    BY <1>7, <2>1
  <2> QED
    BY <1>7, <2>1, <2>3, <2>4
<1>10. Bots!TypeOK'
  <2>1. Len(s) \in 0 .. MaxObj /\ run'[b] \in 0 .. Len(s) /\ chan'[b] \subseteq 1 .. Len(s)
    BY <1>2, <1>3, <1>5, <1>7, <1>9
  <2>2. /\ \A c \in Party \ {b} : run'[c] = run[c] /\ chan'[c] = chan[c]
        /\ row' \in [Party -> Bots!Row]
        /\ route' \in [Party -> BOOLEAN] /\ hook' \in [Party -> BOOLEAN] /\ outdated' \in [Party -> BOOLEAN]
        /\ older' \in [Party -> BOOLEAN] /\ fails' \in 0 .. MaxFails /\ Bots!TypeOK
    BY <1>7, <1>9 DEF BotInv, Bots!TypeOK
  <2> QED
    BY <1>5, <1>6, <1>7, <2>1, <2>2, BotTypes
<1>11. ~ mixed[b] => AloneAt(b, req[r])'
  <2> SUFFICES ASSUME ~ mixed[b] PROVE AloneAt(b, req[r])'
    OBVIOUS
  <2>1. AloneAt(b, p)
    BY AloneNow
  <2>2. Bots!Stored(b) /\ As(b, o, row[b].set)
    BY <1>1, <2>1 DEF AloneAt
  <2>3. As(b, run[b], row[b].set)'
    BY <1>5, <1>7, <1>8, <1>9, <2>2 DEF As
  <2>4. Bots!Stored(b)' /\ req'[r].pc \in {"idle", "provider"}
    BY <1>6, <1>7, <1>8, <2>2 DEF Bots!Stored, Bots!Idle
  <2> QED
    BY <2>3, <2>4 DEF AloneAt
<1>12. GoneStops(b)'
  BY <1>7, <1>9 DEF GoneStops, Bots!Stored
<1>13. LimitInv'
  <2>1. \A u \in Task : Bots!Enabling(u)' => Bots!Enabling(u)
    <3>1. ~ Bots!Enabling(r)'
      BY <1>6, <1>8 DEF Bots!Enabling
    <3>2. \A u \in Task \ {r} : Bots!Enabling(u)' => Bots!Enabling(u)
      BY <1>8 DEF Bots!Enabling
    <3> QED
      BY <3>1, <3>2
  <2>2. \A c \in Party : (Bots!Stored(c) /\ row[c].set.enabled)' => Bots!Stored(c) /\ row[c].set.enabled
    BY <1>7 DEF Bots!Stored
  <2> QED
    BY <1>7, <2>1, <2>2, LimitStays
<1>14. q # Bots!Idle => RequestOK(q)' /\ q.bot = b /\ q.pc = "provider"
  <2>1. q # Bots!Idle => q.obj \in 1 .. Len(objs'[b]) /\ q.op \in {"create", "update"}
    BY <1>1, <1>3, <1>5, <1>6, <1>8 DEF RequestOK
  <2> QED
    BY <1>1, <1>6, <2>1 DEF RequestOK
<1>15. row'[b].st # "none"
  BY <1>1, <1>7 DEF BotInv, UnbornOK
<1>16. /\ \A c \in Party \ {b} : /\ row'[c] = row[c] /\ run'[c] = run[c] /\ chan'[c] = chan[c] /\ objs'[c] = objs[c]
                                 /\ outdated'[c] = outdated[c] /\ older'[c] = older[c]
       /\ UNCHANGED <<mixed, begun>> /\ Len(objs'[b]) >= Len(objs[b]) /\ (row[b].st = "gone" => row'[b].st = "gone")
       /\ run' \in [Party -> Nat] /\ chan' \in [Party -> SUBSET Nat]
  BY <1>2, <1>5, <1>7, <1>8, <1>9 DEF BotInv
<1> HIDE DEF p, o, e
<1> QED
  BY <1>6, <1>10, <1>11, <1>12, <1>13, <1>14, <1>15, <1>16, StepKeeps

LEMMA RegisterFailsKeeps ==
  ASSUME BotInv, NEW r \in Task, NEW b \in Party, About(r, b), Bots!RegisterFails(r) PROVE BotInv'
<1> DEFINE p == req[r]
           o == req[r].obj
           g == [objs[b][o] EXCEPT !.enabled = FALSE]
<1>1. p # Bots!Idle /\ p.pc = "provider" /\ p.bot = b /\ RequestOK(p)
  BY CallTyped DEF Bots!RegisterFails, About
<1>2. /\ objs[b] \in Seq(Bots!Gateway) /\ Len(objs[b]) \in 0 .. MaxObj /\ Len(objs[b]) \in Nat
      /\ run[b] \in 0 .. Len(objs[b]) /\ chan[b] \subseteq 1 .. Len(objs[b])
      /\ \A i \in 1 .. Len(objs[b]) : objs[b][i] \in Bots!Gateway
  BY BotTyped, ServicesAssumption DEF BotInv
<1>3. o \in 1 .. Len(objs[b]) /\ objs[b][o] \in Bots!Gateway
  BY <1>1, <1>2 DEF RequestOK
<1>4. g \in Bots!Gateway /\ ~ g.enabled /\ g.deleted = objs[b][o].deleted
  BY <1>3 DEF Bots!Gateway
<1>5. PICK s \in Seq(Bots!Gateway) :
        /\ objs' = [objs EXCEPT ![b] = s] /\ Len(s) = Len(objs[b])
        /\ s[o] = objs[b][o] \/ s[o] = g
        /\ \A i \in 1 .. Len(s) : i # o => s[i] = objs[b][i]
  <2>1. CASE p.op = "update"
    <3> DEFINE s == [objs[b] EXCEPT ![o] = g]
    <3>1. objs' = [objs EXCEPT ![b] = s]
      BY <1>1, <2>1 DEF Bots!RegisterFails
    <3>2. s \in Seq(Bots!Gateway) /\ Len(s) = Len(objs[b]) /\ s[o] = g /\ \A i \in 1 .. Len(objs[b]) : i # o => s[i] = objs[b][i]
      BY <1>2, <1>3, <1>4, ObjectSet
    <3> HIDE DEF s, g, o
    <3> QED
      BY <3>1, <3>2
  <2>2. CASE p.op # "update"
    <3>1. objs' = [objs EXCEPT ![b] = objs[b]]
      BY <1>1, <2>2 DEF Bots!RegisterFails, BotInv, Bots!TypeOK
    <3> HIDE DEF g, o
    <3> QED
      BY <1>2, <3>1
  <2> QED
    BY <2>1, <2>2
<1>6. /\ req' = [req EXCEPT ![r] = Bots!Idle] /\ fails < MaxFails /\ fails' = fails + 1
      /\ UNCHANGED <<row, hook, chan, mixed, outdated, older, overlap, begun>>
      /\ run' = [run EXCEPT ![b] = IF run[b] = o THEN 0 ELSE run[b]]
      /\ route' = [route EXCEPT ![b] = IF run[b] = o THEN FALSE ELSE route[b]]
  BY <1>1 DEF Bots!RegisterFails, Bots!Remove
<1> HIDE DEF g
<1>7. /\ req'[r] = Bots!Idle /\ (\A u \in Task \ {r} : req'[u] = req[u])
      /\ objs'[b] = s /\ \A c \in Party \ {b} : objs'[c] = objs[c]
  BY <1>5, <1>6 DEF BotInv, Bots!TypeOK
<1>8. /\ run'[b] = (IF run[b] = o THEN 0 ELSE run[b]) /\ (\A c \in Party \ {b} : run'[c] = run[c])
      /\ run' \in [Party -> Nat] /\ route' \in [Party -> BOOLEAN] /\ fails' \in 0 .. MaxFails
  <2>1. run \in [Party -> Nat] /\ route \in [Party -> BOOLEAN] /\ fails \in 0 .. MaxFails
    BY DEF BotInv, Bots!TypeOK
  <2> HIDE DEF o
  <2>2. (IF run[b] = o THEN 0 ELSE run[b]) \in Nat /\ (IF run[b] = o THEN FALSE ELSE route[b]) \in BOOLEAN
    BY <2>1
  <2>3. fails' \in 0 .. MaxFails
    BY <1>6, <2>1, ServicesAssumption
  <2> QED
    BY <1>6, <2>1, <2>2, <2>3
<1>9. Bots!TypeOK'
  <2>1. Len(s) \in 0 .. MaxObj /\ run'[b] \in 0 .. Len(s) /\ chan'[b] \subseteq 1 .. Len(s)
    BY <1>2, <1>5, <1>6, <1>8
  <2>2. /\ \A c \in Party \ {b} : run'[c] = run[c] /\ chan'[c] = chan[c]
        /\ row' \in [Party -> Bots!Row] /\ hook' \in [Party -> BOOLEAN] /\ outdated' \in [Party -> BOOLEAN]
        /\ older' \in [Party -> BOOLEAN] /\ Bots!TypeOK
    BY <1>6, <1>8 DEF BotInv, Bots!TypeOK
  <2> QED
    BY <1>5, <1>6, <1>8, <2>1, <2>2, BotTypes
<1>10. ~ mixed[b] => AloneAt(b, req[r])'
  <2> SUFFICES ASSUME ~ mixed[b] PROVE AloneAt(b, req[r])'
    OBVIOUS
  <2>1. AloneAt(b, p)
    BY AloneNow
  <2>2. Bots!Stored(b) /\ (run[b] # 0 => As(b, run[b], row[b].set))
    BY <1>1, <2>1 DEF AloneAt
  <2>3. run'[b] # 0 => run'[b] = run[b] /\ s[run[b]] = objs[b][run[b]]
    BY <1>2, <1>5, <1>8
  <2>4. run'[b] # 0 => As(b, run[b], row[b].set)'
    BY <1>6, <1>7, <2>2, <2>3 DEF As
  <2>5. Bots!Stored(b)' /\ req'[r].pc = "idle"
    BY <1>6, <1>7, <2>2 DEF Bots!Stored, Bots!Idle
  <2> QED
    BY <2>4, <2>5 DEF AloneAt
<1>11. GoneStops(b)'
  <2>1. run[b] # 0 => /\ objs'[b][run[b]].deleted = objs[b][run[b]].deleted
                      /\ ~ objs[b][run[b]].enabled => ~ objs'[b][run[b]].enabled
    BY <1>2, <1>4, <1>5, <1>7
  <2> HIDE DEF p, o
  <2> QED
    BY <1>1, <1>6, <1>7, <1>8, <2>1, GoneStays DEF p
<1>12. LimitInv'
  <2>1. \A u \in Task : Bots!Enabling(u)' => Bots!Enabling(u)
    <3>1. ~ Bots!Enabling(r)'
      BY <1>7 DEF Bots!Enabling
    <3>2. \A u \in Task \ {r} : Bots!Enabling(u)' => Bots!Enabling(u)
      BY <1>7 DEF Bots!Enabling
    <3> QED
      BY <3>1, <3>2
  <2>2. \A c \in Party : (Bots!Stored(c) /\ row[c].set.enabled)' => Bots!Stored(c) /\ row[c].set.enabled
    BY <1>6 DEF Bots!Stored
  <2> QED
    BY <1>6, <2>1, <2>2, LimitStays
<1>13. row'[b].st # "none"
  BY <1>1, <1>6 DEF BotInv, UnbornOK
<1>14. /\ \A c \in Party \ {b} : /\ row'[c] = row[c] /\ run'[c] = run[c] /\ chan'[c] = chan[c] /\ objs'[c] = objs[c]
                                 /\ outdated'[c] = outdated[c] /\ older'[c] = older[c]
       /\ UNCHANGED <<mixed, begun>> /\ Len(objs'[b]) >= Len(objs[b]) /\ (row[b].st = "gone" => row'[b].st = "gone")
       /\ run' \in [Party -> Nat] /\ chan' \in [Party -> SUBSET Nat] /\ Bots!Idle \in BotCall \cup {Bots!Idle}
  BY <1>2, <1>5, <1>6, <1>7, <1>8 DEF BotInv
<1> HIDE DEF p, o
<1> QED
  BY <1>6, <1>9, <1>10, <1>11, <1>12, <1>13, <1>14, StepKeeps

LEMMA StopKeeps ==
  ASSUME BotInv, NEW r \in Task, NEW b \in Party, About(r, b), Bots!Stop(r) PROVE BotInv'
<1> DEFINE p == req[r]
           o == run[b]
           g == Bots!Marked(objs[b][o])
<1>1. p # Bots!Idle /\ p.pc = "stop" /\ p.bot = b /\ row[b].st = "gone"
  BY CallTyped DEF Bots!Stop, About, RequestOK
<1>2. /\ objs[b] \in Seq(Bots!Gateway) /\ Len(objs[b]) \in 0 .. MaxObj /\ Len(objs[b]) \in Nat
      /\ o \in 0 .. Len(objs[b]) /\ chan[b] \subseteq 1 .. Len(objs[b])
      /\ \A i \in 1 .. Len(objs[b]) : objs[b][i] \in Bots!Gateway
  BY BotTyped, ServicesAssumption DEF BotInv
<1>3. o # 0 => o \in 1 .. Len(objs[b]) /\ g \in Bots!Gateway /\ ~ g.enabled /\ g.deleted
  <2>1. o # 0 => o \in 1 .. Len(objs[b]) /\ objs[b][o] \in Bots!Gateway
    <3> HIDE DEF o
    <3> QED
      BY <1>2
  <2>2. objs[b][o] \in Bots!Gateway => g \in Bots!Gateway /\ ~ g.enabled /\ g.deleted
    BY DEF Bots!Gateway, Bots!Marked
  <2> HIDE DEF g, o
  <2> QED
    BY <2>1, <2>2
<1>4. PICK s \in Seq(Bots!Gateway) :
        objs' = [objs EXCEPT ![b] = s] /\ Len(s) = Len(objs[b]) /\ (o # 0 => ~ s[o].enabled /\ s[o].deleted)
  <2>1. CASE o # 0
    <3> DEFINE s == [objs[b] EXCEPT ![o] = g]
    <3>1. objs' = [objs EXCEPT ![b] = s]
      BY <1>1, <2>1 DEF Bots!Stop
    <3>2. s \in Seq(Bots!Gateway) /\ Len(s) = Len(objs[b]) /\ s[o] = g
      BY <1>2, <1>3, <2>1, ObjectSet
    <3> HIDE DEF s, g
    <3> QED
      BY <1>3, <3>1, <3>2
  <2>2. CASE o = 0
    <3>1. objs' = [objs EXCEPT ![b] = objs[b]]
      BY <1>1, <2>2 DEF Bots!Stop, BotInv, Bots!TypeOK
    <3> HIDE DEF g
    <3> QED
      BY <1>2, <2>2, <3>1
  <2> QED
    BY <2>1, <2>2
<1>5. /\ req' = [req EXCEPT ![r] = Bots!Idle] /\ UNCHANGED <<row, chan, mixed, outdated, overlap, begun, fails>>
      /\ older' = [older EXCEPT ![b] = \E c \in chan[b] : c # o]
      /\ IF o # 0 /\ Bots!Open(b, objs[b][o].map) = {} THEN Bots!Dispose(b, o) ELSE UNCHANGED <<hook, run, route>>
  BY <1>1 DEF Bots!Stop
<1> HIDE DEF g
<1>6. /\ req'[r] = Bots!Idle /\ (\A u \in Task \ {r} : req'[u] = req[u])
      /\ objs'[b] = s /\ \A c \in Party \ {b} : objs'[c] = objs[c]
  BY <1>4, <1>5 DEF BotInv, Bots!TypeOK
<1>7. /\ older' \in [Party -> BOOLEAN] /\ (\A c \in Party \ {b} : older'[c] = older[c])
      /\ (~ older'[b] => chan[b] \subseteq {o})
  <2>1. (\E c \in chan[b] : c # o) \in BOOLEAN
    OBVIOUS
  <2> QED
    BY <1>5, <2>1 DEF BotInv, Bots!TypeOK
<1>8. /\ run' \in [Party -> Nat] /\ (\A c \in Party \ {b} : run'[c] = run[c]) /\ run'[b] \in {0, o}
      /\ route' \in [Party -> BOOLEAN] /\ hook' \in [Party -> BOOLEAN]
      /\ run'[b] # 0 => Bots!Open(b, objs[b][o].map) # {}
  <2>1. run \in [Party -> Nat] /\ route \in [Party -> BOOLEAN] /\ hook \in [Party -> BOOLEAN]
    BY DEF BotInv, Bots!TypeOK
  <2>2. CASE o # 0 /\ Bots!Open(b, objs[b][o].map) = {}
    <3>1. /\ run' = [run EXCEPT ![b] = 0] /\ route' = [route EXCEPT ![b] = FALSE]
          /\ hook' = [hook EXCEPT ![b] = hook[b] /\ ~ route[b]]
      BY <1>5, <2>1, <2>2 DEF Bots!Dispose
    <3>2. (hook[b] /\ ~ route[b]) \in BOOLEAN
      OBVIOUS
    <3> QED
      BY <2>1, <3>1, <3>2
  <2>3. CASE ~ (o # 0 /\ Bots!Open(b, objs[b][o].map) = {})
    BY <1>5, <2>1, <2>3
  <2> QED
    BY <2>2, <2>3
<1>9. Bots!TypeOK'
  <2>1. Len(s) \in 0 .. MaxObj /\ run'[b] \in 0 .. Len(s) /\ chan'[b] \subseteq 1 .. Len(s)
    BY <1>2, <1>4, <1>5, <1>8
  <2>2. /\ \A c \in Party \ {b} : run'[c] = run[c] /\ chan'[c] = chan[c]
        /\ row' \in [Party -> Bots!Row] /\ outdated' \in [Party -> BOOLEAN] /\ fails' \in 0 .. MaxFails /\ Bots!TypeOK
    BY <1>5, <1>8 DEF BotInv, Bots!TypeOK
  <2> QED
    BY <1>4, <1>5, <1>7, <1>8, <2>1, <2>2, BotTypes
<1>10. AloneAt(b, req[r])'
  BY <1>1, <1>5, <1>6 DEF AloneAt, Bots!Stored, Bots!Idle
<1>11. GoneStops(b)'
  <2> SUFFICES ASSUME ~ older'[b], run'[b] # 0
               PROVE  chan'[b] = {run'[b]} /\ objs'[b][run'[b]].deleted /\ ~ objs'[b][run'[b]].enabled
    BY DEF GoneStops
  <2>1. run'[b] = o /\ o # 0 /\ Bots!Open(b, objs[b][o].map) # {}
    BY <1>8
  <2>2. chan[b] # {}
    BY <2>1 DEF Bots!Open
  <2>3. chan[b] = {o}
    BY <1>7, <2>2
  <2> QED
    BY <1>4, <1>5, <1>6, <2>1, <2>3
<1>12. LimitInv'
  <2>1. \A u \in Task : Bots!Enabling(u)' => Bots!Enabling(u)
    <3>1. ~ Bots!Enabling(r)'
      BY <1>6 DEF Bots!Enabling
    <3>2. \A u \in Task \ {r} : Bots!Enabling(u)' => Bots!Enabling(u)
      BY <1>6 DEF Bots!Enabling
    <3> QED
      BY <3>1, <3>2
  <2>2. \A c \in Party : (Bots!Stored(c) /\ row[c].set.enabled)' => Bots!Stored(c) /\ row[c].set.enabled
    BY <1>5 DEF Bots!Stored
  <2> QED
    BY <1>5, <2>1, <2>2, LimitStays
<1>13. /\ \A c \in Party \ {b} : /\ row'[c] = row[c] /\ run'[c] = run[c] /\ chan'[c] = chan[c] /\ objs'[c] = objs[c]
                                 /\ outdated'[c] = outdated[c] /\ older'[c] = older[c]
       /\ UNCHANGED <<mixed, begun>> /\ Len(objs'[b]) >= Len(objs[b]) /\ row'[b].st = "gone"
       /\ run' \in [Party -> Nat] /\ chan' \in [Party -> SUBSET Nat] /\ Bots!Idle \in BotCall \cup {Bots!Idle}
  BY <1>1, <1>2, <1>4, <1>5, <1>6, <1>7, <1>8 DEF BotInv
<1> HIDE DEF p, o
<1> QED
  BY <1>5, <1>9, <1>10, <1>11, <1>12, <1>13, StepKeeps

(* A channel is opened or closed: no request moves, and no row or object changes. *)
LEMMA ChannelKeeps ==
  ASSUME BotInv, NEW b \in Party, UNCHANGED <<row, objs, req, mixed, outdated, older, overlap, begun, fails>>,
         \A c \in Party \ {b} : run'[c] = run[c] /\ chan'[c] = chan[c],
         run' \in [Party -> Nat], chan' \in [Party -> SUBSET Nat], run'[b] \in {0, run[b]},
         chan'[b] \subseteq 1 .. Len(objs[b]), route' \in [Party -> BOOLEAN], hook' \in [Party -> BOOLEAN],
         GoneStops(b)'
  PROVE  BotInv'
<1>1. Bots!TypeOK'
  <2>1. ASSUME NEW c \in Party PROVE run'[c] \in 0 .. Len(objs[c]) /\ chan'[c] \in SUBSET (1 .. Len(objs[c]))
    <3>1. run[c] \in 0 .. Len(objs[c]) /\ chan[c] \in SUBSET (1 .. Len(objs[c])) /\ Len(objs[c]) \in Nat
      BY BotTyped, ServicesAssumption DEF BotInv
    <3> QED
      BY <3>1
  <2> QED
    BY <2>1 DEF BotInv, Bots!TypeOK
<1>2. \A r \in Task : req'[r] # Bots!Idle => RequestOK(req[r])'
  BY DEF BotInv, RequestOK
<1>3. \A r \in Task : CreateOK(r)'
  BY DEF BotInv, CreateOK, About
<1>4. UnbornOK(b)'
  BY DEF BotInv, UnbornOK, About
<1>5. AloneRuns(b)'
  <2> SUFFICES ASSUME ~ mixed[b] PROVE AloneRuns(b)'
    BY DEF AloneRuns
  <2>1. AloneRuns(b)
    BY DEF BotInv
  <2>2. run'[b] # 0 => run'[b] = run[b]
    OBVIOUS
  <2>3. /\ \A r, q \in Task : About(r, b)' /\ About(q, b)' => r = q
        /\ \A r \in Task : About(r, b)' => Bots!Stored(b)' \/ req'[r].pc \in {"setup", "store", "stop"}
    BY <2>1 DEF AloneRuns, About, Bots!Stored
  <2>4. (Bots!Stored(b) /\ run[b] # 0 /\ (\A r \in Task : About(r, b) => req[r].pc # "index") => As(b, run[b], row[b].set))'
    BY <2>1, <2>2 DEF AloneRuns, About, Bots!Stored, As
  <2>5. ASSUME NEW r \in Task, About(r, b)
        PROVE /\ req'[r].pc \in {"setup", "store"} /\ req'[r].op = "update" => Bots!Stored(b)' /\ Merged(b, req[r])'
              /\ req'[r].pc = "setup" /\ req'[r].op = "load" => Bots!Stored(b)' /\ req'[r].want = row'[b].set
              /\ req'[r].pc = "store" => As(b, req[r].obj, req[r].want)'
              /\ req'[r].pc = "index" => As(b, req[r].obj, row[b].set)'
              /\ req'[r].pc = "meta" => run'[b] \in {0, req'[r].obj}
    BY <2>1, <2>2, <2>5 DEF AloneRuns, Bots!Stored, Merged, As
  <2>6. \A r \in Task : About(r, b)' => About(r, b)
    BY DEF About
  <2> QED
    BY <2>3, <2>4, <2>5, <2>6 DEF AloneRuns
<1>6. ASSUME NEW c \in Party \ {b} PROVE UnbornOK(c)' /\ AloneRuns(c)' /\ GoneStops(c)'
  <2>1. SameBot(c)
    BY DEF SameBot, About
  <2> QED
    BY <2>1, Elsewhere
<1>7. LimitInv'
  BY LimitStays DEF Bots!Enabling, Bots!Stored
<1> QED
  BY <1>1, <1>2, <1>3, <1>4, <1>5, <1>6, <1>7 DEF BotInv

LEMMA OpenChannelKeeps ==
  ASSUME BotInv, NEW b \in Party, Bots!OpenChannel(b) PROVE BotInv'
<1>1. run[b] \in 1 .. Len(objs[b]) /\ chan[b] \subseteq 1 .. Len(objs[b])
  BY BotTyped DEF BotInv, Bots!OpenChannel
<1>2. /\ chan' \in [Party -> SUBSET Nat] /\ chan'[b] = chan[b] \cup {run[b]}
      /\ \A c \in Party \ {b} : chan'[c] = chan[c]
  BY DEF BotInv, Bots!OpenChannel
<1>3. UNCHANGED <<row, objs, req, mixed, outdated, older, overlap, begun, fails, run, route, hook>>
  BY DEF Bots!OpenChannel
<1>4. GoneStops(b)'
  <2>1. GoneStops(b)
    BY DEF BotInv
  <2>2. ASSUME row[b].st = "gone", ~ outdated[b], ~ older[b], run[b] # 0
        PROVE  \E r \in Task : About(r, b) /\ req[r].pc = "stop"
    BY <2>1, <2>2 DEF GoneStops, Bots!OpenChannel
  <2> QED
    BY <1>3, <2>2 DEF GoneStops, About
<1>5. chan'[b] \subseteq 1 .. Len(objs[b]) /\ run' \in [Party -> Nat]
      /\ route' \in [Party -> BOOLEAN] /\ hook' \in [Party -> BOOLEAN]
  BY <1>1, <1>2, <1>3 DEF BotInv, Bots!TypeOK
<1> QED
  BY <1>2, <1>3, <1>4, <1>5, ChannelKeeps

LEMMA CloseChannelKeeps ==
  ASSUME BotInv, NEW b \in Party, NEW o \in 1 .. MaxObj, Bots!CloseChannel(b, o) PROVE BotInv'
<1>1. run[b] \in 0 .. Len(objs[b]) /\ chan[b] \subseteq 1 .. Len(objs[b]) /\ o \in chan[b]
  BY BotTyped DEF BotInv, Bots!CloseChannel
<1>2. /\ chan' \in [Party -> SUBSET Nat] /\ chan'[b] = chan[b] \ {o}
      /\ \A c \in Party \ {b} : chan'[c] = chan[c]
  BY DEF BotInv, Bots!CloseChannel
<1>3. UNCHANGED <<row, objs, req, mixed, outdated, older, overlap, begun, fails>>
  BY DEF Bots!CloseChannel
<1>4. /\ run' \in [Party -> Nat] /\ (\A c \in Party \ {b} : run'[c] = run[c]) /\ run'[b] \in {0, run[b]}
      /\ route' \in [Party -> BOOLEAN] /\ hook' \in [Party -> BOOLEAN]
      /\ Bots!Open(b, objs[b][o].map) = {o} /\ objs[b][o].deleted /\ run[b] = o => run'[b] = 0
  <2>1. run \in [Party -> Nat] /\ route \in [Party -> BOOLEAN] /\ hook \in [Party -> BOOLEAN]
    BY DEF BotInv, Bots!TypeOK
  <2>2. CASE Bots!Open(b, objs[b][o].map) = {o} /\ objs[b][o].deleted
    <3>1. /\ run' = [run EXCEPT ![b] = IF run[b] = o THEN 0 ELSE run[b]] /\ route' = [route EXCEPT ![b] = FALSE]
          /\ hook' = [hook EXCEPT ![b] = hook[b] /\ ~ route[b]]
      BY <2>1, <2>2 DEF Bots!CloseChannel, Bots!Dispose
    <3>2. (hook[b] /\ ~ route[b]) \in BOOLEAN /\ (IF run[b] = o THEN 0 ELSE run[b]) \in Nat
      BY <2>1
    <3> QED
      BY <2>1, <3>1, <3>2
  <2>3. CASE ~ (Bots!Open(b, objs[b][o].map) = {o} /\ objs[b][o].deleted)
    BY <2>1, <2>3 DEF Bots!CloseChannel
  <2> QED
    BY <2>2, <2>3
<1>5. GoneStops(b)'
  <2> SUFFICES ASSUME row[b].st = "gone", ~ outdated[b], ~ older[b], run'[b] # 0
               PROVE  \E r \in Task : About(r, b) /\ req[r].pc = "stop"
    BY <1>3 DEF GoneStops, About
  <2>1. run'[b] = run[b] /\ run[b] # 0
    BY <1>4
  <2>2. GoneStops(b)
    BY DEF BotInv
  <2>3. ASSUME chan[b] = {run[b]}, objs[b][run[b]].deleted PROVE FALSE
    <3>1. run[b] = o
      BY <1>1, <2>3
    <3>2. Bots!Open(b, objs[b][o].map) = {o}
      BY <2>3, <3>1 DEF Bots!Open
    <3> QED
      BY <1>4, <2>1, <2>3, <3>1, <3>2
  <2> QED
    BY <2>1, <2>2, <2>3 DEF GoneStops
<1>6. chan'[b] \subseteq 1 .. Len(objs[b])
  BY <1>1, <1>2
<1> QED
  BY <1>2, <1>3, <1>4, <1>5, <1>6, ChannelKeeps

LEMMA RestartKeeps == ASSUME BotInv, Bots!Restart PROVE BotInv'
<1>1. /\ \A r \in Task : req'[r] = Bots!Idle /\ \A b \in Party : ~ About(r, b)'
      /\ \A b \in Party : run'[b] = 0 /\ chan'[b] = {}
  BY DEF Bots!Restart, About
<1>2. UNCHANGED <<row, hook, mixed, outdated, older, overlap, begun>>
  BY DEF Bots!Restart
<1>3. Bots!TypeOK'
  <2>1. objs' \in [Party -> UNION {[1 .. n -> Bots!Gateway] : n \in 0 .. MaxObj}]
    <3>1. 0 \in 0 .. MaxObj /\ <<>> \in [1 .. 0 -> Bots!Gateway]
      BY ServicesAssumption
    <3> QED
      BY <3>1 DEF Bots!Restart
  <2>2. \A b \in Party : run'[b] \in 0 .. Len(objs'[b]) /\ chan'[b] \in SUBSET (1 .. Len(objs'[b]))
    BY <1>1 DEF Bots!Restart
  <2>3. route' \in [Party -> BOOLEAN] /\ req' \in [Task -> {Bots!Idle} \cup BotCall]
    BY DEF Bots!Restart
  <2>4. fails' \in 0 .. MaxFails
    BY ServicesAssumption DEF Bots!Restart, BotInv, Bots!TypeOK
  <2>5. /\ row' \in [Party -> Bots!Row] /\ hook' \in [Party -> BOOLEAN] /\ mixed' \in [Party -> BOOLEAN]
        /\ outdated' \in [Party -> BOOLEAN] /\ older' \in [Party -> BOOLEAN] /\ overlap' \in BOOLEAN
        /\ begun' \in 0 .. MaxReq
    BY <1>2 DEF BotInv, Bots!TypeOK
  <2> QED
    BY <2>1, <2>2, <2>3, <2>4, <2>5 DEF Bots!TypeOK, BotCall
<1>4. run' \in [Party -> Nat] /\ chan' \in [Party -> SUBSET Nat]
  BY DEF Bots!Restart
<1>5. LimitInv'
  <2>1. \A u \in Task : Bots!Enabling(u)' => Bots!Enabling(u)
    BY <1>1 DEF Bots!Enabling
  <2>2. \A c \in Party : (Bots!Stored(c) /\ row[c].set.enabled)' => Bots!Stored(c) /\ row[c].set.enabled
    BY <1>2 DEF Bots!Stored
  <2> QED
    BY <1>2, <2>1, <2>2, LimitStays
<1>6. ASSUME NEW b \in Party PROVE UnbornOK(b)' /\ AloneRuns(b)' /\ GoneStops(b)'
  <2>1. UnbornOK(b)'
    BY <1>1 DEF UnbornOK
  <2>2. AloneRuns(b)'
    BY <1>1 DEF AloneRuns
  <2>3. GoneStops(b)'
    BY <1>1 DEF GoneStops
  <2> QED
    BY <2>1, <2>2, <2>3
<1> QED
  BY <1>1, <1>3, <1>4, <1>5, <1>6 DEF BotInv, CreateOK

LEMMA BotsNext == BotInv /\ [Bots!Next]_botVars => BotInv'
<1> SUFFICES ASSUME BotInv, [Bots!Next]_botVars PROVE BotInv'
  OBVIOUS
<1>1. CASE UNCHANGED botVars
  <2>1. UNCHANGED <<row, objs, run, route, hook, chan, req, mixed, outdated, older, overlap, begun, fails>>
    BY <1>1 DEF botVars
  <2>2. CASE Party = {}
    <3>1. Bots!TypeOK'
      BY <2>1 DEF BotInv, Bots!TypeOK
    <3>2. LimitInv'
      BY <2>1, LimitStays DEF Bots!Enabling, Bots!Stored
    <3>3. \A r \in Task : (req'[r] # Bots!Idle => RequestOK(req[r])') /\ CreateOK(r)'
      BY <2>1 DEF BotInv, RequestOK, CreateOK, About
    <3> QED
      BY <2>1, <2>2, <3>1, <3>2, <3>3 DEF BotInv
  <2>3. CASE Party # {}
    <3>1. PICK b \in Party : TRUE
      BY <2>3
    <3>2. GoneStops(b)'
      BY <2>1 DEF BotInv, GoneStops, About
    <3>3. /\ run' \in [Party -> Nat] /\ chan' \in [Party -> SUBSET Nat] /\ chan'[b] \subseteq 1 .. Len(objs[b])
          /\ route' \in [Party -> BOOLEAN] /\ hook' \in [Party -> BOOLEAN]
      BY <2>1 DEF BotInv, Bots!TypeOK
    <3> QED
      BY <2>1, <3>2, <3>3, ChannelKeeps
  <2> QED
    BY <2>2, <2>3
<1>2. ASSUME NEW r \in Task,
             \/ Bots!Setup(r) \/ Bots!SetupFails(r) \/ Bots!Store(r) \/ Bots!SaveMetadata(r)
             \/ Bots!Index(r) \/ Bots!Register(r) \/ Bots!RegisterFails(r) \/ Bots!Stop(r)
      PROVE  BotInv'
  <2>1. req[r] # Bots!Idle
    <3>1. Bots!Setup(r) \/ Bots!SetupFails(r) => req[r].pc = "setup"
      BY DEF Bots!Setup, Bots!SetupFails
    <3>2. Bots!Store(r) => req[r].pc = "store"
      BY Zenon DEF Bots!Store
    <3>3. Bots!SaveMetadata(r) => req[r].pc = "meta"
      BY Zenon DEF Bots!SaveMetadata
    <3>4. Bots!Index(r) => req[r].pc = "index"
      BY DEF Bots!Index
    <3>5. Bots!Stop(r) => req[r].pc = "stop"
      BY DEF Bots!Stop
    <3>6. Bots!Register(r) \/ Bots!RegisterFails(r) => req[r].pc = "provider"
      BY DEF Bots!Register, Bots!RegisterFails
    <3> QED
      BY <1>2, <3>1, <3>2, <3>3, <3>4, <3>5, <3>6 DEF Bots!Idle
  <2>2. PICK b \in Party : About(r, b)
    BY <2>1, CallTyped
  <2> QED
    BY <1>2, <2>2, SetupKeeps, SetupFailsKeeps, StoreKeeps, SaveMetadataKeeps, IndexKeeps, RegisterKeeps,
       RegisterFailsKeeps, StopKeeps, Zenon
<1>3. CASE Bots!Next
  <2>1. CASE \E r \in Task, b \in Party :
               \/ \E want \in [enabled : BOOLEAN, meta : {0}] : Bots!CreateBot(r, b, want)
               \/ \E field \in {"enabled", "meta"} : Bots!UpdateBot(r, b, field)
               \/ Bots!LoadGateway(r, b) \/ Bots!DeleteBot(r, b) \/ Bots!SetMetadata(r, b)
    BY <2>1, RequestBegins, Zenon
  <2>2. CASE \E r \in Task : Bots!Setup(r) \/ Bots!SetupFails(r) \/ Bots!Store(r) \/ Bots!SaveMetadata(r)
                             \/ Bots!Index(r) \/ Bots!Register(r) \/ Bots!RegisterFails(r) \/ Bots!Stop(r)
    BY <1>2, <2>2, Zenon
  <2>3. CASE \E b \in Party : Bots!OpenChannel(b) \/ \E o \in 1 .. MaxObj : Bots!CloseChannel(b, o)
    BY <2>3, OpenChannelKeeps, CloseChannelKeeps, Zenon
  <2>4. CASE Bots!Restart
    BY <2>4, RestartKeeps
  <2> QED
    BY <1>3, <2>1, <2>2, <2>3, <2>4, Zenon DEF Bots!Next
<1> QED
  BY <1>1, <1>3

LEMMA BotsAsStored == BotInv => Bots!LimitKept /\ Bots!RunsAsStored /\ Bots!DeletedStops
<1> SUFFICES ASSUME BotInv PROVE Bots!LimitKept /\ Bots!RunsAsStored /\ Bots!DeletedStops
  OBVIOUS
<1>1. Bots!LimitKept
  BY DEF BotInv, LimitInv, Bots!LimitKept
<1>2. \A r \in Task, b \in Party : ~ Bots!Busy(b) => ~ About(r, b)
  BY DEF Bots!Busy, About
<1>3. Bots!RunsAsStored
  <2> SUFFICES ASSUME NEW b \in Party, ~ Bots!Busy(b), ~ mixed[b], Bots!Stored(b), run[b] # 0
               PROVE  As(b, run[b], row[b].set)
    BY DEF Bots!RunsAsStored, As
  <2> QED
    BY <1>2 DEF BotInv, AloneRuns
<1>4. Bots!DeletedStops
  <2> SUFFICES ASSUME NEW b \in Party, row[b].st = "gone", ~ Bots!Busy(b), chan[b] = {}, ~ outdated[b], ~ older[b]
               PROVE  run[b] = 0
    BY DEF Bots!DeletedStops
  <2> QED
    BY <1>2 DEF BotInv, GoneStops
<1> QED
  BY <1>1, <1>3, <1>4

-----------------------------------------------------------------------------
(* All the services.                                                       *)

Inv == CastInv /\ EventInv /\ BotInv

LEMMA InvHolds == MCSpec => []Inv
<1>1. MCInit => Inv
  BY CastStarts, EventsStart, BotStarts DEF MCInit, Inv
<1>2. Inv /\ [MCNext]_vars => Inv'
  <2> SUFFICES ASSUME Inv, [MCNext]_vars PROVE Inv'
    OBVIOUS
  <2>1. [Broadcasts!Next]_broadcastVars
    BY DEF MCNext, vars
  <2>2. [Events!Next]_eventVars
    BY DEF MCNext, vars
  <2>3. [Bots!Next]_botVars
    BY DEF MCNext, vars
  <2> QED
    BY <2>1, <2>2, <2>3, CastNext, EventsNext, BotsNext DEF Inv
<1> QED
  BY <1>1, <1>2, PTL DEF MCSpec

(***************************************************************************)
(* BroadcastMessage, of any requests: a peer that the answer does not name *)
(* was sent the message, and none is named twice; what a peer with a       *)
(* history was sent was committed before, whole, under an id of its own;   *)
(* the file is uploaded once.  Whatever write, call or process fails.      *)
(***************************************************************************)
THEOREM BroadcastsAnswered == MCSpec => []BroadcastAnswered
<1>1. Inv => BroadcastAnswered
  BY CastAnswered DEF Inv, BroadcastAnswered
<1> QED
  BY <1>1, InvHolds, PTL

(***************************************************************************)
(* The router of events, of any number of members, handlers and nodes: an  *)
(* operator's client ends with the state of his seat, nobody who was in    *)
(* the chat at the commit and still is is passed over, the host is the     *)
(* node that served last, and variables are kept name by name.             *)
(***************************************************************************)
THEOREM MembersAreInformed == MCSpec => []MembersInformed
<1>1. Inv => MembersInformed
  BY EventsInform DEF Inv, MembersInformed
<1> QED
  BY <1>1, InvHolds, PTL

(***************************************************************************)
(* The bot service, of any licence, bots and requests: the enabled bots    *)
(* are within the limit unless two requests overlap between check and      *)
(* write, a gateway with no request about it runs as its row says, and a   *)
(* deleted bot stops with its last channel.                                *)
(***************************************************************************)
THEOREM GatewaysRunAsStored == MCSpec => []GatewaysAsStored
<1>1. Inv => GatewaysAsStored
  BY BotsAsStored DEF Inv, GatewaysAsStored
<1> QED
  BY <1>1, InvHolds, PTL
================================================================================
