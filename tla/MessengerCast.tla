---------------------------- MODULE MessengerCast ----------------------------
(***************************************************************************)
(* Client.BroadcastMessage of the Meta provider (bot/facebook/provider.go) *)
(* for peers of Facebook, Instagram and WhatsApp.  The channel of a peer   *)
(* tells its kind and the page or number to send from; it is asked of the  *)
(* chat service and kept in a cache for an hour.  A file is sent first and *)
(* its caption after it, but on WhatsApp with it.                          *)
(***************************************************************************)
EXTENDS Naturals, Sequences, FiniteSets

CONSTANTS
  To,         \* peers, in the order of the request
  KindOf,     \* "facebook", "instagram", "whatsapp" or "other" for each
  Sender,     \* pages and numbers
  MaxCasts,   \* bound on requests
  MaxChanges, \* bound on new chats and expiries of the cache
  MaxFailsMc  \* bound on failed calls, and on senders removed

None == "none"

VARIABLES
  channelOf, \* the sender of the last chat of a peer, "none" where it has no chat
  peerCache, \* Client.peerCache
  senders,   \* pages and numbers served
  body,      \* the message at work: text, file, captioned file, other; "none" between requests
  place,     \* the peer at work
  stage,     \* lookup, first part, caption
  got,       \* what each peer has received of this message
  named,     \* places in the response's failures
  bindings,  \* places in the response's variables
  casts, changes, failsMc

castVars == <<channelOf, peerCache, senders, body, place, stage, got, named, bindings, casts, changes, failsMc>>

Place == DOMAIN To
Body  == {"text", "file", "captioned", "other"}

(* Types. *)
TypeOK ==
  /\ channelOf \in [Place -> Sender \cup {None}] /\ peerCache \in [Place -> Sender \cup {None}]
  /\ senders \subseteq Sender /\ body \in Body \cup {None}
  /\ place \in 1 .. Len(To) + 1 /\ stage \in {"lookup", "part", "caption"}
  /\ got \in [Place -> 0 .. 2] /\ \A i \in DOMAIN named : named[i] \in Place
  /\ bindings \subseteq Place
  /\ casts \in 0 .. MaxCasts /\ changes \in 0 .. MaxChanges /\ failsMc \in 0 .. MaxFailsMc

Init ==
  /\ channelOf \in [Place -> Sender \cup {None}] /\ peerCache = [i \in Place |-> None]
  /\ senders = Sender /\ body = None /\ place = 1 /\ stage = "lookup" /\ got = [i \in Place |-> 0]
  /\ named = <<>> /\ bindings = {} /\ casts = 0 /\ changes = 0 /\ failsMc = 0

BroadcastMessage(b) ==
  /\ (body = None \/ place > Len(To)) /\ casts < MaxCasts /\ casts' = casts + 1
  /\ body' = b /\ place' = 1 /\ stage' = "lookup" /\ got' = [i \in Place |-> 0]
  /\ named' = <<>> /\ bindings' = {}
  /\ UNCHANGED <<channelOf, peerCache, senders, changes, failsMc>>

At(s) == body # None /\ place <= Len(To) /\ stage = s

(* continue: the next peer. *)
Proceed == place' = place + 1 /\ stage' = "lookup"

(* setError, then the next peer. *)
SetError == named' = Append(named, place) /\ Proceed

(* getChannelWithParsedProps: the sender out of the cache, else of the last chat. *)
Cached == IF peerCache[place] # None THEN peerCache[place] ELSE channelOf[place]

(* The channel and its page or number; none, not served any more, or of a kind unknown: named. *)
Lookup ==
  /\ At("lookup")
  /\ peerCache' = [peerCache EXCEPT ![place] = Cached]
  /\ IF Cached \in senders /\ KindOf[place] # "other"
     THEN stage' = "part" /\ UNCHANGED <<place, named>>
     ELSE SetError
  /\ UNCHANGED <<channelOf, senders, body, got, bindings, casts, changes, failsMc>>

LookupFails ==
  /\ At("lookup") /\ peerCache[place] = None
  /\ failsMc < MaxFailsMc /\ failsMc' = failsMc + 1
  /\ SetError
  /\ UNCHANGED <<channelOf, peerCache, senders, body, got, bindings, casts, changes>>

(* A caption goes with the file on WhatsApp, else after it; a message of another kind is sent by nobody
   but WhatsApp, which sends it empty. *)
Parts == CASE body = "captioned" /\ KindOf[place] # "whatsapp" -> 2
           [] body = "other" /\ KindOf[place] # "whatsapp" -> 0
           [] OTHER -> 1

(* The text or the file is sent, and the peer is bound unless a caption follows. *)
SendPart ==
  /\ At("part")
  /\ got' = [got EXCEPT ![place] = IF Parts = 0 THEN 0 ELSE 1]
  /\ IF Parts = 2 THEN stage' = "caption" /\ UNCHANGED <<place, bindings>>
     ELSE Proceed /\ bindings' = IF Parts = 0 THEN bindings ELSE bindings \cup {place}
  /\ UNCHANGED <<channelOf, peerCache, senders, body, named, casts, changes, failsMc>>

SendCaption ==
  /\ At("caption")
  /\ got' = [got EXCEPT ![place] = 2] /\ bindings' = bindings \cup {place} /\ Proceed
  /\ UNCHANGED <<channelOf, peerCache, senders, body, named, casts, changes, failsMc>>

(* Mutant: a failed caption is not told of, since the file was sent. *)
FileWasSent == named' = (IF stage = "caption" THEN named ELSE Append(named, place)) /\ Proceed

(* A part that cannot be sent: the peer is named, also where the file has arrived. *)
PartError == SetError

SendFails ==
  /\ (At("part") /\ Parts # 0) \/ At("caption")
  /\ failsMc < MaxFailsMc /\ failsMc' = failsMc + 1
  /\ PartError
  /\ UNCHANGED <<channelOf, peerCache, senders, body, got, bindings, casts, changes>>

(* The peer writes to another page, and that is its last chat. *)
NewChat(i, s) ==
  /\ changes < MaxChanges /\ changes' = changes + 1
  /\ channelOf[i] # s /\ channelOf' = [channelOf EXCEPT ![i] = s]
  /\ UNCHANGED <<peerCache, senders, body, place, stage, got, named, bindings, casts, failsMc>>

(* An hour has passed. *)
Expire(i) ==
  /\ changes < MaxChanges /\ changes' = changes + 1
  /\ peerCache[i] # None /\ peerCache' = [peerCache EXCEPT ![i] = None]
  /\ ~(body # None /\ place = i)
  /\ UNCHANGED <<channelOf, senders, body, place, stage, got, named, bindings, casts, failsMc>>

(* delPage, or the number deregistered. *)
DelPage(s) ==
  /\ failsMc < MaxFailsMc /\ failsMc' = failsMc + 1
  /\ s \in senders /\ senders' = senders \ {s}
  /\ UNCHANGED <<channelOf, peerCache, body, place, stage, got, named, bindings, casts, changes>>

Next ==
  \/ \E b \in Body : BroadcastMessage(b)
  \/ Lookup \/ LookupFails \/ SendPart \/ SendCaption \/ SendFails
  \/ \E i \in Place, s \in Sender : NewChat(i, s)
  \/ \E i \in Place : Expire(i)
  \/ \E s \in Sender : DelPage(s)

Spec == Init /\ [][Next]_castVars
------------------------------------------------------------------------------
Whole(i) == got[i] = (IF body = "captioned" /\ KindOf[i] # "whatsapp" THEN 2 ELSE 1)

(* When the request is answered, every peer has the whole text or file and is bound to its message, or is
   named, once, among the failures and not bound. *)
NamedOrWhole ==
  (body \in {"text", "file", "captioned"} /\ place > Len(To)) =>
    \A i \in Place :
      LET times == Cardinality({k \in DOMAIN named : named[k] = i}) IN
      IF i \in bindings THEN Whole(i) /\ times = 0 ELSE times = 1
------------------------------------------------------------------------------
(* Why it holds: each peer the request is done with was named once or is bound, and has it all. *)
Done ==
  /\ \A k \in DOMAIN named : named[k] < place /\ named[k] \notin bindings
  /\ \A k, l \in DOMAIN named : named[k] = named[l] => k = l
  /\ \A i \in bindings : i < place /\ (body \in {"text", "file", "captioned"} => Whole(i))
  /\ body \in {"text", "file", "captioned"} =>
       \A i \in Place : i < place => i \in bindings \/ \E k \in DOMAIN named : named[k] = i

CaptionDue == stage = "caption" => body = "captioned" /\ place \in Place /\ KindOf[place] # "whatsapp"

IInv == TypeOK /\ named \in Seq(Place) /\ Done /\ CaptionDue
==============================================================================
