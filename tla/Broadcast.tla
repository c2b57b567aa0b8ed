------------------------------- MODULE Broadcast -------------------------------
(***************************************************************************)
(* BroadcastMessage of the chat service: one message for a list of peers,  *)
(* cmd/chat/broadcast.go.  The peers are served in turn with the one       *)
(* message object, which storing it changes; each one that has a history   *)
(* gets a conversation of his own, closed from the start, stored in a      *)
(* transaction before the message is sent.                                 *)
(***************************************************************************)
EXTENDS Naturals, Sequences

CONSTANTS
  Request      \* requests: the peers, whether a user asks, the text, the file

VARIABLES
  request,     \* the request served, or none
  body,        \* the message object: variables of the request in it, its file, the id it was stored with
  at, step,    \* the peer served, and how far
  txn,         \* the rows of the open transaction, as written
  rows,        \* the rows committed: of a peer (by position) a conversation, members, a message
  uploads,     \* files put into the storage
  sentTo,      \* what gateways were asked to send: the peer, the message as it was then
  failure,     \* resp.Failure: how often each peer is named
  lastId

broadcastVars == <<request, body, at, step, txn, rows, uploads, sentTo, failure, lastId>>

Social   == {"social", "custom"}       \* executeBroadcastSocials
PeerType == Social \cup {"gotd", "portal", "unknown"}
FileKind == {"none", "id", "badId", "url", "both", "badSource", "zero"}
NoFile   == [id |-> FALSE, url |-> FALSE]
NoBody   == [vars |-> FALSE, file |-> NoFile, has |-> FALSE, id |-> 0]
Peer     == [type : PeerType, valid : BOOLEAN]
InputRequest ==
  [peers : Seq(Peer), user : BOOLEAN, text : BOOLEAN, file : FileKind, vars : BOOLEAN]

None == [peers |-> <<>>, user |-> FALSE, text |-> FALSE, file |-> "none", vars |-> FALSE]
Row  == [peer : Nat, kind : {"conversation", "from", "to", "message"}, id : Nat, vars : BOOLEAN]

Unnamed(r) == [i \in DOMAIN r.peers |-> 0]

TypeOK ==
  /\ request \in InputRequest /\ at \in 0 .. Len(request.peers) + 1
  /\ step \in {"idle", "user", "auth", "peer", "client", "gate", "tx", "send", "done", "refused"}
  /\ txn \in Seq(Row) /\ rows \subseteq Row /\ lastId \in Nat
  /\ uploads \in Nat /\ failure \in [DOMAIN request.peers -> Nat]
  /\ step # "tx" => txn = <<>>

Init ==
  /\ request = None /\ body = NoBody /\ at = 0 /\ step = "idle" /\ txn = <<>> /\ rows = {}
  /\ uploads = 0 /\ sentTo = {} /\ failure = Unnamed(None) /\ lastId = 0

Written == {txn[i] : i \in DOMAIN txn}
-----------------------------------------------------------------------------
(* Faulty variants: invalid peers are left out silently, a failed write is committed with
   the rows before it, the id of an upload is not kept, a failed commit goes unnoticed. *)
DropsInvalid(ps)     == [i \in DOMAIN ps |-> 0]
CommitsPart          == rows' = rows \cup Written
NotMarkedUploaded(f) == f
CommitLost           == rows' = rows
-----------------------------------------------------------------------------
(* validateMessage: what the message and its file must be. *)
ValidMessage(r) ==
  /\ r.peers # <<>> /\ r.text
  /\ r.file \notin {"badId", "both", "badSource"}

(* validationRules: a known type, and the form of its ids. *)
ValidPeer(p) == p.type # "unknown" /\ p.valid

(* validatePeers: the peers refused are named, each once. *)
Invalid(ps) == [i \in DOMAIN ps |-> IF ValidPeer(ps[i]) THEN 0 ELSE 1]

(* mapInputMessageToMessage, preparationMessage: an id that is not positive makes a file with neither id nor url. *)
Prepared(r) == [NoBody EXCEPT !.has = r.file # "none", !.file = [id |-> r.file = "id", url |-> r.file = "url"]]

(* The next peer that is to be served, or one past the end. *)
After(ps, i) ==
  LET rest == {j \in DOMAIN ps : j > i /\ ValidPeer(ps[j])} IN
  IF rest = {} THEN Len(ps) + 1 ELSE CHOOSE j \in rest : \A k \in rest : j <= k

Goto(i) == /\ at' = i
           /\ step' = IF i > Len(request.peers) THEN "done" ELSE "peer"

(* BroadcastMessage for a user, BroadcastMessageNA for a service. *)
BroadcastMessage(r) ==
  /\ step = "idle" /\ request' = r
  /\ step' = IF r.user THEN "auth" ELSE "user"
  /\ failure' = Unnamed(r)
  /\ UNCHANGED <<body, at, txn, rows, uploads, sentTo, lastId>>

Authentication(ok) ==
  /\ step = "auth" /\ step' = IF ok THEN "user" ELSE "refused"
  /\ UNCHANGED <<request, body, at, txn, rows, uploads, sentTo, failure, lastId>>

(* The message and the peers are validated, and the loop begins. *)
Validate ==
  /\ step = "user"
  /\ IF ValidMessage(request)
     THEN /\ failure' = Invalid(request.peers) /\ body' = Prepared(request)
          /\ Goto(After(request.peers, 0))
     ELSE step' = "refused" /\ UNCHANGED <<failure, body, at>>
  /\ UNCHANGED <<request, txn, rows, uploads, sentTo, lastId>>

P == request.peers[at]

(* A peer is done: named as failed, or not; the next one is served. *)
Failed == /\ failure' = [failure EXCEPT ![at] = @ + 1]
          /\ Goto(After(request.peers, at))
Served == /\ Goto(After(request.peers, at)) /\ UNCHANGED failure

(* executeBroadcast, one turn of the loop: the type of the peer decides.  The variables of the
   request are put into the message for a custom peer, and stay there. *)
ExecuteBroadcast ==
  /\ step = "peer"
  /\ step' = IF P.type = "gotd" THEN "send" ELSE "client"
  /\ body' = [body EXCEPT !.vars = @ \/ (P.type = "custom" /\ request.vars)]
  /\ UNCHANGED <<request, at, txn, rows, uploads, sentTo, failure, lastId>>

(* A thing the peer needs is found, or the peer fails. *)
Find(found, next) ==
  /\ IF found THEN step' = next /\ UNCHANGED <<at, failure>> ELSE Failed
  /\ UNCHANGED <<request, body, txn, rows, uploads, sentTo, lastId>>

(* GetClientByExternalID. *)
FindClient(found) == step = "client" /\ Find(found, "gate")

(* Of a social peer the gateway, which must be enabled, and the user who asks. *)
FindGate(found) == step = "gate" /\ P.type \in Social /\ Find(found, "tx")

(* Of a portal's the service of its user, its schema, and the user who asks. *)
FindApp(found) == step = "gate" /\ P.type = "portal" /\ Find(found, "tx")

(* The rows in the order they are written; only a user has a member's row of his own. *)
Kinds == IF request.user THEN <<"conversation", "from", "to", "message">>
         ELSE <<"conversation", "to", "message">>

(* The id of a stored message: message rows are new, whatever id the object had. *)
MessageId(old, new) == new

(* saveMessage fills in the file: a link for an id, and an upload for a url. *)
Filled(f) == IF f.id \/ f.url THEN [id |-> TRUE, url |-> TRUE] ELSE f

Rollback == UNCHANGED rows

(* Faulty variant: the failed write returns without ending the transaction. *)
LeftOpen == step = "tx" /\ Failed /\ UNCHANGED <<request, body, txn, rows, uploads, sentTo, lastId>>

(* A write of the transaction fails, and the peer with it. *)
WriteFails ==
  /\ step = "tx" /\ txn' = <<>> /\ Rollback
  /\ Failed
  /\ UNCHANGED <<request, body, uploads, sentTo, lastId>>

(* NewSession, CreateChannelTx: the next row. *)
WriteRow ==
  LET k == Kinds[Len(txn) + 1] IN
  /\ step = "tx" /\ Len(txn) < Len(Kinds) /\ k # "message"
  /\ txn' = Append(txn, [peer |-> at, kind |-> k, id |-> 0, vars |-> FALSE])
  /\ UNCHANGED <<request, body, at, step, rows, uploads, sentTo, failure, lastId>>

(* saveMessage: a file without id and url is refused.  It fails before the file is filled in, or
   after, when an upload stays whatever becomes of the transaction.  The message object takes
   the file and the id. *)
SaveMessage(how) ==
  LET f == body.file fill == how # "early" IN
  /\ step = "tx" /\ Len(txn) + 1 = Len(Kinds)
  /\ body.has /\ f = NoFile => how = "early"
  /\ uploads' = IF body.has /\ fill /\ f.url /\ ~ f.id THEN uploads + 1 ELSE uploads
  /\ IF how = "stored"
     THEN /\ lastId' = MessageId(body.id, lastId + 1)
          /\ txn' = Append(txn, [peer |-> at, kind |-> "message", id |-> lastId', vars |-> body.vars])
          /\ body' = [body EXCEPT !.file = Filled(f), !.id = lastId']
          /\ UNCHANGED <<rows, at, step, failure>>
     ELSE /\ txn' = <<>> /\ Rollback /\ Failed /\ UNCHANGED lastId
          /\ body' = [body EXCEPT !.file = IF fill THEN Filled(f) ELSE f]
  /\ UNCHANGED <<request, sentTo>>

Persist == rows' = rows \cup Written

(* The transaction is committed, and only then the message sent. *)
Commit ==
  /\ step = "tx" /\ Len(txn) = Len(Kinds)
  /\ Persist
  /\ txn' = <<>> /\ step' = "send"
  /\ UNCHANGED <<request, body, at, uploads, sentTo, failure, lastId>>

(* The call of the gateway: the peer is reached or not, and the answer says so or is lost. *)
Call(reached, answer) ==
  /\ answer => reached
  /\ sentTo' = IF reached THEN sentTo \cup {[peer |-> at, id |-> body.id, vars |-> body.vars]} ELSE sentTo
  /\ IF answer THEN Served ELSE Failed
  /\ UNCHANGED <<request, body, txn, rows, uploads, lastId>>

(* executeBroadcastSimple: the call is all there is. *)
SendSimple(reached, answer) == step = "send" /\ P.type = "gotd" /\ Call(reached, answer)

(* The end of executeBroadcastSocials, the bot service asked, *)
SendSocial(reached, answer) == step = "send" /\ P.type \in Social /\ Call(reached, answer)

(* and of executeBroadcastPortal, with the gateway of the portal. *)
SendPortal(reached, answer) == step = "send" /\ P.type = "portal" /\ Call(reached, answer)

(* The process dies: what is not committed is gone, and nobody is answered. *)
Crash ==
  /\ step \notin {"idle", "done", "refused"}
  /\ step' = "refused" /\ txn' = <<>>
  /\ UNCHANGED <<request, body, at, rows, uploads, sentTo, failure, lastId>>

Next ==
  \/ \E r \in Request : BroadcastMessage(r)
  \/ \E ok \in BOOLEAN : Authentication(ok) \/ FindClient(ok) \/ FindGate(ok) \/ FindApp(ok)
  \/ \E how \in {"stored", "early", "late"} : SaveMessage(how)
  \/ Validate \/ ExecuteBroadcast \/ WriteFails \/ WriteRow \/ Commit \/ Crash
  \/ \E reached, answer \in BOOLEAN : \/ SendSimple(reached, answer) \/ SendSocial(reached, answer)
                                       \/ SendPortal(reached, answer)

Spec == Init /\ [][Next]_broadcastVars
-----------------------------------------------------------------------------
Reached(i) == \E s \in sentTo : s.peer = i

(***************************************************************************)
(* The answer to a broadcast is complete: a peer of the request it does    *)
(* not name as failed was sent the message, and none is named twice.       *)
(***************************************************************************)
AnswerComplete ==
  step = "done" => \A i \in DOMAIN request.peers : failure[i] <= 1 /\ (failure[i] = 0 => Reached(i))

(***************************************************************************)
(* What a peer with a history was sent is in it: his own conversation with *)
(* its members and the message, whole, committed before the message left,  *)
(* whatever fails afterwards.                                              *)
(***************************************************************************)
SentIsStored ==
  \A s \in sentTo : request.peers[s.peer].type # "gotd" =>
    \E r \in rows : r.peer = s.peer /\ r.kind = "message" /\ r.id = s.id /\ r.vars = s.vars

(***************************************************************************)
(* A conversation made for a broadcast is stored whole or not at all, and  *)
(* no message stored for one peer takes the place of another peer's.       *)
(***************************************************************************)
StoredWhole ==
  /\ \A r \in rows : \A k \in {Kinds[i] : i \in DOMAIN Kinds} : \E q \in rows : q.peer = r.peer /\ q.kind = k
  /\ \A r, q \in rows : r.kind = "message" /\ q.kind = "message" /\ r.id = q.id => r.peer = q.peer

(***************************************************************************)
(* The file of a broadcast is put into the storage once, however many      *)
(* peers there are: the first one stored leaves the id in the message.     *)
(***************************************************************************)
UploadedOnce == uploads <= 1
================================================================================
