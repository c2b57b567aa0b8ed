------------------------------ MODULE AuthCache ------------------------------
(***************************************************************************)
(* The cache of authorized sessions: auth/client.go and auth/cache.go.     *)
(* VerifyToken looks into an LRU cache, asks the authorization service and *)
(* caches the answer; events of the message broker invalidate entries by   *)
(* session, user, domain or altogether.  The lock of the cache is held for *)
(* one operation, not from the question to the insertion, and not over the *)
(* loop of an invalidation.  The queue of the events is an exclusive one:  *)
(* what is published while the connection is down is lost.                 *)
(***************************************************************************)
EXTENDS Naturals, Sequences

CONSTANTS
  Token,      \* access tokens
  Owner,      \* Owner[t]: the user of token t
  Ends,       \* Ends[t]: expires_at of the session of t, 0: never
  Size,       \* Cache.size
  Expiry,     \* Cache.defaultExpiry
  Call,       \* requests being authorized at one time
  MaxClock,   \* bound on the clock
  MaxEpoch    \* bound on changes of a session

VARIABLES
  cache,      \* evictList, newest first
  epoch,      \* epoch[t]: how often the session of t was changed or revoked (external)
  call,       \* call[c]: a run of VerifyToken
  events,     \* invalidations on their way
  inval,      \* the invalidation in progress (the handler is serial)
  served,     \* the last answer out of the cache
  now

authVars == <<cache, epoch, call, events, inval, served, now>>

(* ver: the state of the session when it was fetched; late: an event about it passed by while it was in flight. *)
Entry  == [tok : Token, ver : 0 .. MaxEpoch, late : BOOLEAN, exp : 0 .. MaxClock + Expiry]
Class  == {"session", "user", "customer"}
Idle   == [pc |-> "idle"]

TypeOK ==
  /\ cache \in Seq(Entry) /\ Len(cache) <= Size
  /\ \A i, j \in DOMAIN cache : cache[i].tok = cache[j].tok => i = j
  /\ epoch \in [Token -> 0 .. MaxEpoch] /\ now \in 0 .. MaxClock
  /\ call \in [Call -> {Idle} \cup [pc : {"ask", "add"}, tok : Token, at : 0 .. MaxClock,
                                    ver : 0 .. MaxEpoch, late : BOOLEAN]]
  /\ events \in Seq([class : Class, tok : Token])
  /\ inval = Idle \/ inval \in [pc : {"loop"}, class : Class, tok : Token, keys : Seq(Token)]
  /\ served \in {Idle} \cup [pc : {"hit"}, tok : Token, at : 0 .. MaxClock]

Init ==
  /\ cache = <<>> /\ epoch = [t \in Token |-> 0]
  /\ call = [c \in Call |-> Idle]
  /\ events = <<>> /\ inval = Idle
  /\ served = Idle /\ now = 1
-----------------------------------------------------------------------------
(* Faulty variants: a listing of the keys that stops one short, no look at the expiry, no eviction. *)
KeysShort       == [i \in 1 .. Len(cache) - 1 |-> cache[Len(cache) + 1 - i].tok]
NeverOld(t, at) == FALSE
NoEviction(q)   == q
-----------------------------------------------------------------------------
(* Which entries an event is about; a domain is treated as a user is, and "customer" purges everything. *)
Means(class, meant, t) ==
  CASE class = "session"  -> t = meant
    [] class = "user"     -> Owner[t] = Owner[meant]
    [] class = "customer" -> TRUE

IsExpired(t, at) == Ends[t] > 0 /\ Ends[t] <= at

Find(t) == {i \in DOMAIN cache : cache[i].tok = t}

(* removeElement *)
Drop(k) == [i \in 1 .. Len(cache) - 1 |-> cache[IF i < k THEN i ELSE i + 1]]

Without(t) == IF Find(t) = {} THEN cache ELSE Drop(CHOOSE k \in Find(t) : TRUE)

(* Cache.Get drops an entry that is over its time, and moves one that is found to the front. *)
Over(e) == e.exp > 0 /\ now > e.exp

Get(t) == IF \E i \in Find(t) : ~ Over(cache[i])
          THEN <<cache[CHOOSE i \in Find(t) : ~ Over(cache[i])]>> \o Without(t)
          ELSE Without(t)

(* VerifyToken with an answer out of the cache. *)
Hit(c, t) ==
  /\ call[c] = Idle
  /\ \E i \in Find(t) : ~ Over(cache[i])
  /\ ~ IsExpired(t, now)
  /\ cache' = Get(t)
  /\ served' = [pc |-> "hit", tok |-> t, at |-> now]
  /\ UNCHANGED <<epoch, call, events, inval, now>>

(* VerifyToken without one: an expired session is dropped, and the service is asked. *)
Miss(c, t) ==
  /\ call[c] = Idle
  /\ \A i \in Find(t) : Over(cache[i]) \/ IsExpired(t, now)
  /\ cache' = Without(t)
  /\ call' = [call EXCEPT ![c] = [pc |-> "ask", tok |-> t, at |-> now, ver |-> 0, late |-> FALSE]]
  /\ UNCHANGED <<epoch, events, inval, served, now>>

(* UserInfo answers: a session without an end is not cached, an expired one is refused. *)
Ask(c) ==
  /\ call[c].pc = "ask"
  /\ call' = IF Ends[call[c].tok] = 0 \/ IsExpired(call[c].tok, call[c].at)
             THEN [call EXCEPT ![c] = Idle]
             ELSE [call EXCEPT ![c].pc = "add", ![c].ver = epoch[call[c].tok]]
  /\ UNCHANGED <<cache, epoch, events, inval, served, now>>

AskFails(c) ==
  /\ call[c].pc = "ask"
  /\ call' = [call EXCEPT ![c] = Idle]
  /\ UNCHANGED <<cache, epoch, events, inval, served, now>>

(* The time left is counted from before the question and added to the time after it. *)
Left(t, at) == IF Ends[t] - at < Expiry THEN Ends[t] - at ELSE Expiry

(* removeOldest *)
Evicted(q) == IF Len(q) > Size THEN SubSeq(q, 1, Size) ELSE q

(* AddWithExpiresInSecs *)
Add(c) ==
  LET t == call[c].tok
      e == [tok |-> t, ver |-> call[c].ver, late |-> call[c].late, exp |-> now + Left(t, call[c].at)]
  IN
  /\ call[c].pc = "add"
  /\ cache' = Evicted(<<e>> \o Without(t))
  /\ call' = [call EXCEPT ![c] = Idle]
  /\ UNCHANGED <<epoch, events, inval, served, now>>
-----------------------------------------------------------------------------
(* A session is changed or revoked, and an event says so (external). *)
Change(class, t) ==
  LET hit == {u \in Token : Means(class, t, u)} IN
  /\ \A u \in hit : epoch[u] < MaxEpoch
  /\ epoch' = [u \in Token |-> IF u \in hit THEN epoch[u] + 1 ELSE epoch[u]]
  /\ events' = Append(events, [class |-> class, tok |-> t])
  /\ UNCHANGED <<cache, call, inval, served, now>>

(* What is fetched and not yet in the cache when an event passes. *)
Passed(e) ==
  [c \in Call |-> IF call[c].pc = "add" /\ Means(e.class, e.tok, call[c].tok)
                  THEN [call[c] EXCEPT !.late = TRUE] ELSE call[c]]

(* The connection is down: the event is lost (external). *)
EventLost ==
  LET e == Head(events) IN
  /\ events # <<>>
  /\ events' = Tail(events)
  /\ call' = Passed(e)
  /\ cache' = [i \in DOMAIN cache |-> IF Means(e.class, e.tok, cache[i].tok)
                                      THEN [cache[i] EXCEPT !.late = TRUE] ELSE cache[i]]
  /\ UNCHANGED <<epoch, inval, served, now>>

(* Cache.Keys, from the oldest to the newest. *)
Keys == [i \in DOMAIN cache |-> cache[Len(cache) + 1 - i].tok]

(* invalidateCache: the keys are listed, then looked at one by one. *)
Invalidate ==
  LET e == Head(events) IN
  /\ events # <<>> /\ inval = Idle
  /\ events' = Tail(events)
  /\ call' = Passed(e)
  /\ IF e.class = "customer"
     THEN cache' = <<>> /\ UNCHANGED inval
     ELSE /\ inval' = [pc |-> "loop", class |-> e.class, tok |-> e.tok, keys |-> Keys]
          /\ UNCHANGED cache
  /\ UNCHANGED <<epoch, served, now>>

RemoveKey ==
  LET t == Head(inval.keys) IN
  /\ inval # Idle /\ inval.keys # <<>>
  /\ cache' = IF Means(inval.class, inval.tok, t) THEN Without(t)
              ELSE IF inval.class = "user" THEN Get(t) ELSE cache
  /\ inval' = [inval EXCEPT !.keys = Tail(@)]
  /\ UNCHANGED <<epoch, call, events, served, now>>

InvalidateEnds ==
  /\ inval # Idle /\ inval.keys = <<>>
  /\ inval' = Idle
  /\ UNCHANGED <<cache, epoch, call, events, served, now>>

Tick ==
  /\ now < MaxClock
  /\ now' = now + 1
  /\ UNCHANGED <<cache, epoch, call, events, inval, served>>

Next ==
  \/ \E c \in Call : \/ \E t \in Token : Hit(c, t) \/ Miss(c, t)
                     \/ Ask(c) \/ AskFails(c) \/ Add(c)
  \/ \E class \in Class, t \in Token : Change(class, t)
  \/ EventLost \/ Invalidate \/ RemoveKey \/ InvalidateEnds
  \/ Tick

Spec == Init /\ [][Next]_authVars
-----------------------------------------------------------------------------
(***************************************************************************)
(* VerifyToken never lets an expired session in out of the cache, although *)
(* an entry may outlast its session by the time the question took.         *)
(***************************************************************************)
NoExpiredSession ==
  served # Idle => Ends[served.tok] = 0 \/ served.at < Ends[served.tok]

(***************************************************************************)
(* An entry that is out of date is only there as long as its invalidation  *)
(* is under way, or because the event was lost, or passed by between the   *)
(* fetch and the insertion.  Nothing else lets a changed session survive   *)
(* its event: not the loop over a snapshot of the keys, which the entries  *)
(* move and are evicted under, and not the order of two events.            *)
(***************************************************************************)
StaleOnlyIfMissed ==
  \A i \in DOMAIN cache :
    LET t == cache[i].tok IN
    \/ cache[i].ver = epoch[t]
    \/ cache[i].late
    \/ \E k \in DOMAIN events : Means(events[k].class, events[k].tok, t)
    \/ /\ inval # Idle /\ Means(inval.class, inval.tok, t)
       /\ \E k \in DOMAIN inval.keys : inval.keys[k] = t
==============================================================================
