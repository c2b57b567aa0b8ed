------------------------------ MODULE GotdLogin ------------------------------
(***************************************************************************)
(* The login of a Telegram application, bot/telegram/gotd: an operator     *)
(* signs an account in with a code and perhaps a password, and signs it    *)
(* out.  Every such request holds the session's mutex while it asks        *)
(* Telegram.  The client's runtime is told of the account through a        *)
(* channel with room for one; it saves the session with the bot's          *)
(* profile when somebody signs in, and reads or forgets the account's      *)
(* dialogs.                                                                *)
(***************************************************************************)
EXTENDS Naturals, Sequences, Functions

CONSTANTS
  User,         \* accounts
  MaxTokens,    \* tokens kept to sign in again (20 in the code)
  MaxAsked,     \* bound on the requests of operators
  MaxKeys,      \* bound on the keys agreed with Telegram
  MaxFaults     \* bound on revocations, restarts and failures

VARIABLES
  authz,        \* Telegram: the account each key is authorized for
  data,         \* session.data: the key of the client, 0: none
  meta,         \* the key saved with the bot: in memory and in the database
  login,        \* sessionAuth: user, request and tokens
  issued,       \* the tokens Telegram has sent, in order
  sub, buf,     \* the runtime's channel and its content
  rt,           \* the runtime: where it is, the user received, the user seen before
  peersOf,      \* the account whose peers are cached
  op,           \* the request that holds the mutex
  askedTg, keys, faultsTg,
  overtaken     \* a login was seen by the runtime before it was told and its key was not saved, or a save failed

loginVars == <<authz, data, meta, login, issued, sub, buf, rt, peersOf, op, askedTg, keys, faultsTg, overtaken>>

None  == "none"
Users == User \cup {None}
Free  == op = "idle"

TypeOK ==
  /\ authz \in [1 .. MaxKeys -> Users] /\ data \in 0 .. MaxKeys
  /\ meta \in [memory : 0 .. MaxKeys, database : 0 .. MaxKeys]
  /\ login.user \in Users /\ login.request \in BOOLEAN /\ Range(login.tokens) \subseteq 1 .. MaxAsked
  /\ sub \in {"none", "open", "closed"} /\ Len(buf) <= 1 /\ Range(buf) \subseteq Users
  /\ rt.pc \in {"off", "sleep", "self", "auth", "top", "wait", "purge", "save", "load", "deny"}
  /\ op \in {"idle", "code", "cancel", "signIn", "password", "logOut", "stuck"}
  /\ (rt.pc \in {"off", "sleep"}) = (sub = "none")

Init ==
  /\ authz = [k \in 1 .. MaxKeys |-> None] /\ data = 0 /\ meta = [memory |-> 0, database |-> 0]
  /\ login = [user |-> None, request |-> FALSE, tokens |-> <<>>] /\ issued = <<>>
  /\ sub = "none" /\ buf = <<>> /\ rt = [pc |-> "off", cur |-> None, ses |-> None]
  /\ peersOf = None /\ op = "idle" /\ askedTg = 0 /\ keys = 0 /\ faultsTg = 0 /\ overtaken = FALSE

Fault == faultsTg < MaxFaults /\ faultsTg' = faultsTg + 1
-----------------------------------------------------------------------------
(* Faulty variants: a full list takes no token; the runtime forgets nothing; a save drops the key. *)
TokensFull(ts, t)  == IF Len(ts) < MaxTokens THEN <<t>> \o ts ELSE ts
PeersStay(p)       == p
SaveDrops(k)       == [meta EXCEPT !.memory = 0, !.database = 0]
-----------------------------------------------------------------------------
(* LogOut: the newest token is the first of at most MaxTokens. *)
WithToken(ts, t) == <<t>> \o SubSeq(ts, 1, IF Len(ts) < MaxTokens THEN Len(ts) ELSE MaxTokens - 1)

(* signal: a full channel is closed, and the caller panics. *)
Signal(u) ==
  IF sub = "open" THEN IF buf = <<>> THEN buf' = <<u>> /\ UNCHANGED sub
                                     ELSE sub' = "closed" /\ UNCHANGED buf
  ELSE UNCHANGED <<sub, buf>>

(* doAuth: the subscriber is told of another user. *)
DoAuth(u, l) ==
  /\ login' = [l EXCEPT !.user = u]
  /\ IF u # l.user THEN Signal(u) ELSE UNCHANGED <<sub, buf>>

Auth(u) == Free /\ DoAuth(u, login)
-----------------------------------------------------------------------------
(* The requests of an operator: they wait for the mutex, *)
Request(o) ==
  /\ Free /\ rt.pc # "off" /\ askedTg < MaxAsked
  /\ askedTg' = askedTg + 1 /\ op' = o
  /\ UNCHANGED <<authz, data, meta, login, issued, sub, buf, rt, peersOf, keys, faultsTg, overtaken>>

still == <<data, meta, rt, peersOf, askedTg, keys, faultsTg, overtaken>>

(* and fail, or are refused, *)
Failed == /\ op \in {"code", "signIn", "password", "logOut"}
          /\ op' = "idle" /\ UNCHANGED <<authz, login, issued, sub, buf, still>>

SendCode == /\ op = "code"
            /\ login' = [login EXCEPT !.request = TRUE] /\ op' = "idle"
            /\ UNCHANGED <<authz, issued, sub, buf, still>>

CancelCode == /\ op = "cancel"
              /\ login' = [login EXCEPT !.request = FALSE] /\ op' = "idle"
              /\ UNCHANGED <<authz, issued, sub, buf, still>>

(* or sign an account in: by the code asked for, or by the password when the code was right. *)
SignIn(u) ==
  /\ op \in {"signIn", "password"} /\ (op = "signIn" => login.request) /\ authz[data] = None
  /\ authz' = [authz EXCEPT ![data] = u]
  /\ DoAuth(u, [login EXCEPT !.request = FALSE]) /\ op' = "idle"
  /\ overtaken' = (overtaken \/ rt.pc \in {"sleep", "self", "auth"})
  /\ UNCHANGED <<issued, data, meta, rt, peersOf, askedTg, keys, faultsTg>>

LogOut(token) ==
  /\ op = "logOut" /\ authz[data] # None
  /\ authz' = [authz EXCEPT ![data] = None]
  /\ issued' = IF token THEN Append(issued, askedTg) ELSE issued
  /\ DoAuth(None, [login EXCEPT !.tokens = IF token THEN WithToken(@, askedTg) ELSE @])
  /\ op' = "idle" /\ UNCHANGED still

(* The key is not authorized: the client's middleware resets the user, and waits *)
(* for the mutex that the request itself holds.                                  *)
Unregistered ==
  /\ op \in {"password", "logOut"} /\ authz[data] = None
  /\ op' = "stuck" /\ UNCHANGED <<authz, login, issued, sub, buf, still>>
-----------------------------------------------------------------------------
frame == <<askedTg, issued, op>>

(* LoadSession, StoreSession: the key in memory, else the saved one, else a new one. *)
LoadedKey == IF data # 0 THEN data ELSE meta.memory

StoreSession == /\ keys < MaxKeys /\ keys' = keys + 1
                /\ data' = keys + 1

(* connect: a client with the session's key and empty caches. *)
Connect ==
  /\ rt.pc = "off" /\ Free
  /\ IF LoadedKey # 0 THEN data' = LoadedKey /\ UNCHANGED keys ELSE StoreSession
  /\ peersOf' = None /\ rt' = [rt EXCEPT !.pc = "sleep"]
  /\ UNCHANGED <<authz, meta, login, sub, buf, frame, faultsTg, overtaken>>

Subscribe == /\ rt.pc = "sleep" /\ Free
             /\ sub' = "open" /\ buf' = <<>> /\ rt' = [rt EXCEPT !.pc = "self"]
             /\ UNCHANGED <<authz, data, meta, login, peersOf, keys, frame, faultsTg, overtaken>>

(* init: who am I?  A failure of the call reads as nobody, *)
GetSelf == /\ rt.pc = "self"
           /\ \/ rt' = [rt EXCEPT !.pc = "auth", !.cur = authz[data]] /\ UNCHANGED <<faultsTg, overtaken>>
              \/ rt' = [rt EXCEPT !.pc = "auth", !.cur = None] /\ Fault /\ overtaken' = TRUE
           /\ UNCHANGED <<authz, data, meta, login, sub, buf, peersOf, keys, frame>>

(* and the answer is set, whoever has signed in since. *)
SetSelf == /\ rt.pc = "auth" /\ Auth(rt.cur)
           /\ rt' = [rt EXCEPT !.pc = "top"]
           /\ UNCHANGED <<authz, data, meta, peersOf, keys, frame, faultsTg, overtaken>>

(* runtime: the user is remembered, *)
LoopTop == /\ rt.pc = "top" /\ Free
           /\ rt' = [rt EXCEPT !.pc = "wait", !.ses = login.user]
           /\ overtaken' = (overtaken \/ (buf # <<>> /\ buf[Len(buf)] = login.user /\ login.user # None /\ meta.database # data))
           /\ UNCHANGED <<authz, data, meta, login, sub, buf, peersOf, keys, frame, faultsTg>>

(* another one is waited for; a closed channel gives nobody, at once and for ever. *)
Receive ==
  LET u == IF buf # <<>> THEN Head(buf) ELSE None IN
  /\ rt.pc = "wait" /\ (buf # <<>> \/ sub = "closed")
  /\ buf' = <<>>
  /\ rt' = [rt EXCEPT !.cur = u, !.pc = IF u = None THEN "purge" ELSE IF u # rt.ses THEN "save" ELSE "load"]
  /\ UNCHANGED <<authz, data, meta, login, sub, peersOf, keys, frame, faultsTg, overtaken>>

Purged(p) == None

OnLoggedOut == /\ rt.pc = "purge"
               /\ peersOf' = Purged(peersOf) /\ rt' = [rt EXCEPT !.pc = "top"]
               /\ UNCHANGED <<authz, data, meta, login, sub, buf, keys, frame, faultsTg, overtaken>>

Stored(k) == [meta EXCEPT !.memory = k, !.database = k]

SaveSession == /\ rt.pc = "save" /\ Free
               /\ \/ meta' = Stored(data) /\ UNCHANGED <<faultsTg, overtaken>>
                  \/ UNCHANGED meta /\ Fault /\ overtaken' = TRUE
               /\ rt' = [rt EXCEPT !.pc = "load"]
               /\ UNCHANGED <<authz, data, login, sub, buf, peersOf, keys, frame>>

(* The middleware keeps the peers of every answer. *)
Applied(u) == peersOf' = u

(* onNewLogin: the dialogs are read, with whatever account the key now has. *)
LoadDialogs == /\ rt.pc = "load"
               /\ IF authz[data] = None
                  THEN rt' = [rt EXCEPT !.pc = "deny"] /\ UNCHANGED peersOf
                  ELSE Applied(authz[data]) /\ rt' = [rt EXCEPT !.pc = "top"]
               /\ UNCHANGED <<authz, data, meta, login, sub, buf, keys, frame, faultsTg, overtaken>>

(* The middleware resets the user; whoever signed in since is forgotten. *)
Denied == /\ rt.pc = "deny" /\ Auth(None) /\ sub' # "closed"
          /\ rt' = [rt EXCEPT !.pc = "top"]
          /\ overtaken' = (overtaken \/ authz[data] # None)
          /\ UNCHANGED <<authz, data, meta, peersOf, keys, frame, faultsTg>>
-----------------------------------------------------------------------------
(* The owner of the account ends the session. *)
Revoke == /\ data # 0 /\ authz[data] # None /\ Fault
          /\ authz' = [authz EXCEPT ![data] = None]
          /\ UNCHANGED <<data, meta, login, sub, buf, rt, peersOf, keys, frame, overtaken>>

(* onServiceNotification, of a key in use elsewhere: the client stops, forgets its key and starts again. *)
OnServiceNotification ==
  /\ rt.pc \in {"top", "wait"} /\ Free /\ Fault
  /\ authz' = [authz EXCEPT ![data] = None]
  /\ data' = 0 /\ meta' = [meta EXCEPT !.memory = 0]
  /\ sub' = "none" /\ buf' = <<>> /\ rt' = [rt EXCEPT !.pc = "off"]
  /\ UNCHANGED <<login, peersOf, keys, frame, overtaken>>

(* The process ends: a request's tokens and user are in memory only.  A panic in the runtime ends it too. *)
Restart ==
  /\ rt.pc # "off"
  /\ \/ Fault
     \/ rt.pc = "deny" /\ login.user # None /\ sub = "open" /\ buf # <<>> /\ UNCHANGED faultsTg
  /\ data' = 0 /\ meta' = [meta EXCEPT !.memory = meta.database]
  /\ login' = [user |-> None, request |-> FALSE, tokens |-> <<>>] /\ issued' = <<>>
  /\ sub' = "none" /\ buf' = <<>> /\ rt' = [pc |-> "off", cur |-> None, ses |-> None]
  /\ peersOf' = None /\ op' = "idle"
  /\ UNCHANGED <<authz, askedTg, keys, overtaken>>

Next ==
  \/ \E o \in {"code", "cancel", "signIn", "password", "logOut"} : Request(o)
  \/ Failed \/ SendCode \/ CancelCode \/ \E u \in User : SignIn(u)
  \/ \E t \in BOOLEAN : LogOut(t)
  \/ Unregistered
  \/ Connect \/ Subscribe \/ GetSelf \/ SetSelf \/ LoopTop \/ Receive
  \/ OnLoggedOut \/ SaveSession \/ LoadDialogs \/ Denied
  \/ Revoke \/ OnServiceNotification \/ Restart

Spec == Init /\ [][Next]_loginVars
-----------------------------------------------------------------------------
AtRest == rt.pc = "wait" /\ buf = <<>> /\ sub = "open" /\ Free

(* Once the runtime has taken note of the account, the key it is signed in with  *)
(* is in the database: the bot is signed in again after a restart.  Only a save  *)
(* that failed, or a login that overtook the runtime, is lost.                   *)
LoginSaved == AtRest /\ login.user # None /\ ~ overtaken => meta.database = data

(* The cached peers are the account's own: their access hashes are of no use to  *)
(* another one.  Logins and logouts may come in any order while the runtime      *)
(* reads or forgets the dialogs; only a login never announced is left out.       *)
PeersOfUser == AtRest /\ ~ overtaken => peersOf \in {None, login.user}

(* The tokens kept are the newest ones, newest first, across any number of       *)
(* logouts, also beyond the limit.                                               *)
TokensNewestFirst ==
  LET newest == [i \in 1 .. Len(issued) |-> issued[Len(issued) - i + 1]] IN
  /\ login.tokens = SubSeq(newest, 1, Len(login.tokens))
  /\ Len(login.tokens) = IF Len(issued) < MaxTokens THEN Len(issued) ELSE MaxTokens
-----------------------------------------------------------------------------
(* Why it holds.  A key is agreed before it is used. *)
Typed ==
  /\ authz \in [1 .. MaxKeys -> Users] /\ keys \in 0 .. MaxKeys /\ data \in 0 .. keys
  /\ meta \in [memory : 0 .. keys, database : 0 .. keys]
  /\ login \in [user : Users, request : BOOLEAN, tokens : Seq(1 .. MaxAsked)] /\ issued \in Seq(1 .. MaxAsked)
  /\ rt \in [pc : {"off", "sleep", "self", "auth", "top", "wait", "purge", "save", "load", "deny"}, cur : Users, ses : Users]
  /\ sub \in {"none", "open", "closed"} /\ peersOf \in Users /\ overtaken \in BOOLEAN /\ faultsTg \in Nat
  /\ op \in {"idle", "code", "cancel", "signIn", "password", "logOut", "stuck"}
  /\ askedTg \in 0 .. MaxAsked /\ (op # "idle" => askedTg >= 1)

Keyed ==
  /\ \A k \in keys + 1 .. MaxKeys : authz[k] = None
  /\ (rt.pc = "off") = (data = 0) /\ (rt.pc \in {"off", "sleep"}) = (sub = "none")
  /\ rt.pc = "off" => op = "idle" /\ (meta.memory # 0 => login.user = None)

(* The message in the channel is the last one, as long as it is not closed. *)
Announced ==
  /\ buf = <<>> \/ \E u \in Users : buf = <<u>>
  /\ sub = "open" /\ buf # <<>> => buf = <<login.user>>

(* Before the runtime has asked who it is. *)
Starting ==
  /\ rt.pc \in {"sleep", "self", "auth"} => peersOf = None
  /\ rt.pc \in {"sleep", "self", "auth"} /\ ~ overtaken /\ login.user # None =>
       authz[data] = None /\ (rt.pc = "auth" => rt.cur = None)
  /\ rt.pc = "auth" /\ ~ overtaken => authz[data] \in {None, rt.cur}

Noted == (login.user # None => meta.database = data) /\ peersOf \in {None, login.user}

Running ==
  sub = "open" /\ ~ overtaken =>
    /\ rt.pc \notin {"self", "auth"} => authz[data] \in {None, login.user}
    /\ rt.pc \in {"top", "wait"} /\ buf = <<>> => Noted
    /\ rt.pc = "wait" => IF buf = <<>> THEN rt.ses = login.user
                         ELSE login.user \in {None, rt.ses} => login.user = None \/ meta.database = data
    /\ rt.pc = "purge" /\ buf = <<>> => login.user = None
    /\ rt.pc \in {"save", "load", "deny"} => rt.cur # None /\ (buf = <<>> => login.user = rt.cur)
    /\ rt.pc \in {"load", "deny"} => meta.database = data

Newest ==
  /\ Len(login.tokens) = IF Len(issued) < MaxTokens THEN Len(issued) ELSE MaxTokens
  /\ \A i \in 1 .. Len(login.tokens) : login.tokens[i] = issued[Len(issued) - i + 1]

IInv == Typed /\ Keyed /\ Announced /\ Starting /\ Running /\ Newest
=============================================================================
