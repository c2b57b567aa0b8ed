----------------------------- MODULE FacebookPages -----------------------------
(***************************************************************************)
(* The pages of a Facebook bot, bot/facebook: pages.go, the set-up of the  *)
(* pages in messenger.go and instagram.go, Deauthorize and RemovePages in  *)
(* client.go.  A bot has two indexes of pages, "fb" and "ig"; the second   *)
(* also lists a page under the id of its Instagram account.  A page keeps  *)
(* the users that granted access to it, the latest first.  Requests change *)
(* the pages in memory and then save a snapshot in the bot's metadata,     *)
(* from which a restarted process restores them.                           *)
(***************************************************************************)
EXTENDS Naturals, Sequences, FiniteSets, SequencesExt

CONSTANTS
  Page,       \* ids of Facebook pages
  Gram,       \* ids of Instagram accounts
  User,       \* Facebook users
  Call,       \* requests served at one time
  MaxBegun,   \* bound on the requests made
  MaxMoves,   \* bound on changes of a page's Instagram account
  MaxFails    \* bound on failed saves and restarts

VARIABLES
  objs,       \* the Page objects made so far
  idx,        \* messengerPages.pages: key -> object, 0: no entry
  meta,       \* the saved snapshot of each index
  linked,     \* Facebook: the Instagram account of a page
  fields,     \* Facebook: what a page sends to us
  ask,        \* the requests
  granted,    \* <<kind, user, page>>: access granted and not withdrawn
  taken,      \* snapshots taken so far
  saved,      \* number of the snapshot last saved, by index
  disorder,   \* an older snapshot was saved over a newer one
  unsaved,    \* a request ended with an error after it changed a page
  raced,      \* a withdrawal of access met a grant of it, or the removal of the page a new grant
  begunFb, moves, failsFb

pageVars == <<objs, idx, meta, linked, fields, ask, granted, taken, saved, disorder, unsaved, raced,
              begunFb, moves, failsFb>>

None  == "none"
Kind  == {"fb", "ig"}
Key   == Page \cup Gram
Field == {"none", "messages", "name"}
Idle  == [pc |-> "idle", op |-> None, k |-> "fb", u |-> None, which |-> None,
          todo |-> {}, del |-> 0, got |-> {}, snap |-> <<>>, n |-> 0]

TypeOK ==
  /\ \A o \in DOMAIN objs :
       /\ objs[o].id \in Page /\ objs[o].ig \in Gram \cup {None} /\ objs[o].sub \in Field
       /\ Range(objs[o].accts) \subseteq User /\ IsInjective(objs[o].accts)
       /\ objs[o].tok = IF objs[o].accts = <<>> THEN None ELSE Head(objs[o].accts)
  /\ idx \in [Kind -> [Key -> 0 .. Len(objs)]]
  /\ \A k \in Kind : \A p \in Page : idx[k][p] # 0 => objs[idx[k][p]].id = p
  /\ linked \in [Page -> Gram \cup {None}] /\ fields \in [Page -> Field]
  /\ granted \subseteq Kind \X User \X Page
  /\ disorder \in BOOLEAN /\ unsaved \in BOOLEAN /\ raced \in BOOLEAN
  /\ begunFb \in 0 .. MaxBegun /\ moves \in 0 .. MaxMoves /\ failsFb \in 0 .. MaxFails

Init ==
  /\ objs = <<>> /\ idx = [k \in Kind |-> [x \in Key |-> 0]] /\ meta = [k \in Kind |-> {}]
  /\ linked = [p \in Page |-> None] /\ fields = [p \in Page |-> "none"]
  /\ ask = [c \in Call |-> Idle]
  /\ granted = {} /\ taken = 0 /\ saved = [k \in Kind |-> 0]
  /\ disorder = FALSE /\ unsaved = FALSE /\ raced = FALSE
  /\ begunFb = 0 /\ moves = 0 /\ failsFb = 0
-----------------------------------------------------------------------------
(* Faulty variants: a withdrawal that leaves the user's grants, a restore  *)
(* that authorizes in the order of the snapshot.                           *)
KeepsUser(p, u)  == p
Without(s, u)    == SelectSeq(s, LAMBDA x : x # u)
BackupAll(st, k) == {[id |-> st[o].id, ig |-> st[o].ig, accts |-> <<Head(st[o].accts)>>, sub |-> st[o].sub] :
                       o \in {x \in {idx[k][y] : y \in Key} \ {0} : st[x].tok # None}}
AppendsUser(p, u) == [p EXCEPT !.accts = Append(Without(@, u), u), !.tok = u]
-----------------------------------------------------------------------------
(* Page.Authorize: the token of the user becomes the first and the current one. *)
Authorize(p, u) == [p EXCEPT !.accts = <<u>> \o Without(@, u), !.tok = u]

(* Page.Deauthorize: the next one becomes current, if it was the user's. *)
Deauthorize(p, u) ==
  LET rest == Without(p.accts, u) IN
  [p EXCEPT !.accts = rest,
            !.tok = IF p.accts # <<>> /\ Head(p.accts) = u
                    THEN IF rest = <<>> THEN None ELSE Head(rest) ELSE @]

Authorized(p) == p.tok # None

(* The entry of the Instagram account in the index m of a known page o that is now linked to g. *)
Reindexed(m, o, old, g) ==
  IF g # None /\ old = None THEN [m EXCEPT ![g] = o]
  ELSE IF old # None /\ old # g THEN [m EXCEPT ![old] = 0]
  ELSE m

(* setPages for a page in the index: renewed if the user still shares it, else given up. *)
Renew(st, u, got, p) ==
  LET o   == st.m[p]
      old == st.objs[o]
      off == Deauthorize(old, u)
      new == CHOOSE x \in got : x.id = p
      m1  == [st.m EXCEPT ![p] = 0]
  IN
  IF \E x \in got : x.id = p
  THEN [m    |-> Reindexed(st.m, o, old.ig, new.ig),
        objs |-> [st.objs EXCEPT ![o] = [Authorize(old, u) EXCEPT !.ig = new.ig, !.sub = new.sub]]]
  ELSE [m    |-> IF Authorized(off) THEN st.m
                 ELSE IF old.ig # None THEN [m1 EXCEPT ![old.ig] = 0] ELSE m1,
        objs |-> [st.objs EXCEPT ![o] = off]]

(* setPages for a page that is not: a new object under both of its ids. *)
Install(st, u, x) ==
  LET n  == Len(st.objs) + 1
      m1 == [st.m EXCEPT ![x.id] = n]
  IN
  [m    |-> IF x.ig # None THEN [m1 EXCEPT ![x.ig] = n] ELSE m1,
   objs |-> Append(st.objs, Authorize([id |-> x.id, ig |-> x.ig, sub |-> x.sub, accts |-> <<>>, tok |-> None], u))]

(* backup: a record of every authorized page the index leads to. *)
Backup(st, k) ==
  {[id |-> st[o].id, ig |-> st[o].ig, accts |-> st[o].accts, sub |-> st[o].sub] :
     o \in {x \in {idx[k][y] : y \in Key} \ {0} : Authorized(st[x])}}

(* getPages: the pages of some ids, all of them or an error; of no ids, every page. *)
Found(k, ids) == \A x \in ids : idx[k][x] # 0
GetPages(k, ids) == {idx[k][x] : x \in IF ids = {} THEN {p \in Page : idx[k][p] # 0} ELSE ids}
-----------------------------------------------------------------------------
Begin(c, rec) ==
  /\ ask[c].pc = "idle" /\ begunFb < MaxBegun
  /\ begunFb' = begunFb + 1
  /\ ask' = [ask EXCEPT ![c] = rec @@ Idle]

(* A snapshot of the indexes ks, with its number. *)
Snapshot(c, st, ks, next) ==
  /\ taken' = taken + 1
  /\ ask' = [ask EXCEPT ![c] = [@ EXCEPT !.pc = next, !.todo = {}, !.n = taken + 1,
                                         !.snap = [k \in ks |-> Backup(st, k)]]]

(***************************************************************************)
(* A user comes back from Facebook's consent page and the pages shared, S, *)
(* are fetched with their subscription.  For Instagram the pages without   *)
(* one are subscribed at once, each with its own result, and the index of  *)
(* the Facebook pages is saved if any was.                                 *)
(***************************************************************************)
Fetched(S, k) ==
  {[id |-> p, ig |-> IF k = "ig" THEN linked[p] ELSE None, sub |-> fields[p]] :
     p \in {x \in S : k = "ig" => linked[x] # None}}

SetupPages(c, k, u, S, ok) ==
  LET got == Fetched(S, k)
      new == IF k = "ig" THEN {x.id : x \in {y \in got : y.sub = "none"}} ELSE {}
  IN
  /\ ok \subseteq new
  /\ Begin(c, [pc |-> IF ok # {} THEN "presave" ELSE "set", op |-> "setup", k |-> k, u |-> u,
               got |-> {[x EXCEPT !.sub = IF x.id \in ok THEN "name" ELSE @] : x \in got},
               snap |-> IF ok # {} THEN [f \in {"fb"} |-> Backup(objs, "fb")] ELSE <<>>,
               n |-> IF ok # {} THEN taken + 1 ELSE 0])
  /\ taken' = IF ok # {} THEN taken + 1 ELSE taken
  /\ fields' = [p \in Page |-> IF p \in ok THEN "name" ELSE fields[p]]
  /\ UNCHANGED <<objs, idx, meta, linked, granted, saved, disorder, unsaved, raced, moves, failsFb>>

(* setPages, in some order of the pages in the index. *)
SetPages(c) ==
  LET a     == ask[c]
      known == {p \in Page : idx[a.k][p] # 0}
      news  == {x \in a.got : x.id \notin known}
  IN
  /\ a.pc = "set"
  /\ \E order \in SetToSeqs(known) :
       LET st1 == FoldLeft(LAMBDA st, p : Renew(st, a.u, a.got, p), [m |-> idx[a.k], objs |-> objs], order)
           st2 == FoldSet(LAMBDA x, st : Install(st, a.u, x), st1, news)
       IN objs' = st2.objs /\ idx' = [idx EXCEPT ![a.k] = st2.m]
  /\ granted' = {g \in granted : ~ (g[1] = a.k /\ g[2] = a.u)} \cup {<<a.k, a.u, x.id>> : x \in a.got}
  /\ raced' = (raced \/ \E d \in Call : ask[d].op = "deauth" /\ ask[d].u = a.u)
  /\ ask' = [ask EXCEPT ![c].pc = "backup"]
  /\ UNCHANGED <<meta, linked, fields, taken, saved, disorder, unsaved, begunFb, moves, failsFb>>

TakeBackup(c) ==
  /\ ask[c].pc = "backup"
  /\ Snapshot(c, objs, IF ask[c].op = "deauth" THEN Kind ELSE {ask[c].k}, "save")
  /\ UNCHANGED <<objs, idx, meta, linked, fields, granted, saved, disorder, unsaved, raced, begunFb, moves, failsFb>>

(* Gateway.SetMetadata, or its failure. *)
Save(c) ==
  LET a == ask[c] ks == DOMAIN a.snap IN
  /\ a.pc \in {"presave", "save", "remove"}
  /\ meta' = [k \in Kind |-> IF k \in ks THEN a.snap[k] ELSE meta[k]]
  /\ saved' = [k \in Kind |-> IF k \in ks THEN a.n ELSE saved[k]]
  /\ disorder' = (disorder \/ \E k \in ks : saved[k] > a.n)
  /\ UNCHANGED failsFb

SaveFails(c) ==
  /\ ask[c].pc \in {"presave", "save", "remove"} /\ DOMAIN ask[c].snap # {} /\ failsFb < MaxFails
  /\ failsFb' = failsFb + 1
  /\ UNCHANGED <<meta, saved, disorder>>

(* RemovePages gives up the pages with no subscription left, after the save. *)
Removed(c) == {p \in Page : idx["fb"][p] \in ask[c].todo /\ objs[idx["fb"][p]].sub = "none"}

Saved(c) ==
  /\ Save(c) \/ SaveFails(c)
  /\ IF ask[c].pc = "presave"
     THEN ask' = [ask EXCEPT ![c] = [@ EXCEPT !.pc = "set", !.snap = <<>>, !.n = 0]]
     ELSE ask' = [ask EXCEPT ![c] = Idle]
  /\ IF ask[c].pc = "remove"
     THEN /\ idx' = [idx EXCEPT !["fb"] = [x \in Key |-> IF x \in Removed(c) THEN 0 ELSE @[x]]]
          /\ granted' = {g \in granted : ~ (g[1] = "fb" /\ g[3] \in Removed(c))}
     ELSE UNCHANGED <<idx, granted>>
  /\ UNCHANGED <<objs, linked, fields, taken, unsaved, raced, begunFb, moves>>
-----------------------------------------------------------------------------
(* The ids a deauthorization is about; no page named: all. *)
Ids(which) == IF which = None THEN {} ELSE {which}

(* Deauthorize: the callback of Facebook when the user u removes our application. *)
DeauthorizeRequest(c, u, which) ==
  /\ Found("fb", Ids(which))
  /\ Begin(c, [pc |-> "off", op |-> "deauth", k |-> "fb", u |-> u, which |-> which,
               todo |-> GetPages("fb", Ids(which))])
  /\ raced' = (raced \/ \E d \in Call : ask[d].op = "setup" /\ ask[d].u = u)
  /\ UNCHANGED <<objs, idx, meta, linked, fields, granted, taken, saved, disorder, unsaved, moves, failsFb>>

(* One page: the user's token is given up; is any left? *)
PageOff(c, o) ==
  LET a == ask[c] p == Deauthorize(objs[o], a.u) IN
  /\ a.pc = "off" /\ a.del = 0 /\ o \in a.todo
  /\ objs' = [objs EXCEPT ![o] = p]
  /\ ask' = [ask EXCEPT ![c].todo = @ \ {o}, ![c].del = IF Authorized(p) THEN 0 ELSE o]
  /\ granted' = granted \ {<<a.k, a.u, p.id>>}
  /\ UNCHANGED <<idx, meta, linked, fields, taken, saved, disorder, unsaved, raced, begunFb, moves, failsFb>>

(* delPage: the entry of the page's own id, whatever the page has become. *)
DelPage(c) ==
  LET a == ask[c] p == objs[a.del].id IN
  /\ a.pc = "off" /\ a.del # 0
  /\ idx' = [idx EXCEPT ![a.k][p] = 0]
  /\ raced' = (raced \/ (idx[a.k][p] # 0 /\ Authorized(objs[idx[a.k][p]])))
  /\ ask' = [ask EXCEPT ![c].del = 0]
  /\ UNCHANGED <<objs, meta, linked, fields, granted, taken, saved, disorder, unsaved, begunFb, moves, failsFb>>

(* The Facebook pages are done: the Instagram ones follow, unless the page named is not among them. *)
OffNext(c) ==
  LET a == ask[c] IN
  /\ a.pc = "off" /\ a.del = 0 /\ a.todo = {}
  /\ IF a.k = "ig" THEN ask' = [ask EXCEPT ![c].pc = "backup"] /\ UNCHANGED unsaved
     ELSE IF Found("ig", Ids(a.which))
     THEN ask' = [ask EXCEPT ![c].k = "ig", ![c].todo = GetPages("ig", Ids(a.which))] /\ UNCHANGED unsaved
     ELSE ask' = [ask EXCEPT ![c] = Idle] /\ unsaved' = TRUE
  /\ UNCHANGED <<objs, idx, meta, linked, fields, granted, taken, saved, disorder, raced, begunFb, moves, failsFb>>
-----------------------------------------------------------------------------
(* What a subscription asks Facebook to send. *)
Fields(k, op) == IF k = "fb" /\ op = "subscribe" THEN "messages" ELSE "name"

(* SubscribePages, UnsubscribePages and RemovePages, and the first two for Instagram. *)
SubscribePages(c, k, op, ids) ==
  LET all == GetPages(k, ids) IN
  /\ op = "remove" => k = "fb"
  /\ Found(k, ids)
  /\ all # {}
  /\ Begin(c, [pc |-> "post", op |-> op, k |-> k,
               todo |-> IF k = "ig" /\ op = "subscribe" THEN {o \in all : objs[o].sub = "none"} ELSE all])
  /\ UNCHANGED <<objs, idx, meta, linked, fields, granted, taken, saved, disorder, unsaved, raced, moves, failsFb>>

(* The batch: each page has its result, and the Facebook index is saved if one was confirmed. *)
Posted(c, ok) ==
  LET a  == ask[c]
      f  == Fields(a.k, a.op)
      st == [o \in DOMAIN objs |-> IF o \in ok THEN [objs[o] EXCEPT !.sub = f] ELSE objs[o]]
  IN
  /\ a.pc = "post"
  /\ ok \subseteq {o \in a.todo : Authorized(objs[o])}
  /\ objs' = st
  /\ fields' = [p \in Page |-> IF \E o \in ok : objs[o].id = p THEN f ELSE fields[p]]
  /\ IF ok # {}
     THEN /\ taken' = taken + 1
          /\ ask' = [ask EXCEPT ![c] = [@ EXCEPT !.pc = IF a.op = "remove" THEN "remove" ELSE "save",
                                                 !.n = taken + 1, !.snap = [k \in {"fb"} |-> Backup(st, "fb")]]]
     ELSE /\ UNCHANGED taken
          /\ ask' = [ask EXCEPT ![c] = IF a.op = "remove" /\ a.todo # {}
                                       THEN [@ EXCEPT !.pc = "remove"] ELSE Idle]
  /\ UNCHANGED <<idx, meta, linked, granted, saved, disorder, unsaved, raced, begunFb, moves, failsFb>>

(* The whole batch fails. *)
PostFails(c) ==
  /\ ask[c].pc = "post"
  /\ ask' = [ask EXCEPT ![c] = Idle]
  /\ UNCHANGED <<objs, idx, meta, linked, fields, granted, taken, saved, disorder, unsaved, raced, begunFb, moves, failsFb>>
-----------------------------------------------------------------------------
(* The Instagram account g is linked to p, and to no other page; or p is left without one. *)
Relink(p, g) ==
  /\ moves < MaxMoves /\ linked[p] # g
  /\ g # None => \A q \in Page : linked[q] # g
  /\ linked' = [linked EXCEPT ![p] = g] /\ moves' = moves + 1
  /\ UNCHANGED <<objs, idx, meta, fields, ask, granted, taken, saved, disorder, unsaved, raced, begunFb, failsFb>>

(* New in a process with no client of the bot yet: each index is restored from its snapshot. *)
Restored(k, base) ==
  LET recs == SetToSeq(meta[k]) IN
  [m    |-> [x \in Key |-> IF \E i \in DOMAIN recs : x \in {recs[i].id, recs[i].ig}
                           THEN base + CHOOSE i \in DOMAIN recs : x \in {recs[i].id, recs[i].ig} ELSE 0],
   objs |-> [i \in DOMAIN recs |->
              FoldLeft(Authorize, [id |-> recs[i].id, ig |-> recs[i].ig, sub |-> recs[i].sub,
                                   accts |-> <<>>, tok |-> None], Reverse(recs[i].accts))]]

Restart ==
  LET fb == Restored("fb", 0) ig == Restored("ig", Len(fb.objs)) IN
  /\ failsFb < MaxFails /\ failsFb' = failsFb + 1
  /\ objs' = fb.objs \o ig.objs
  /\ idx' = [k \in Kind |-> IF k = "fb" THEN fb.m ELSE ig.m]
  /\ ask' = [c \in Call |-> Idle]
  /\ granted' = UNION {UNION {{<<k, u, r.id>> : u \in Range(r.accts)} : r \in meta[k]} : k \in Kind}
  /\ UNCHANGED <<meta, linked, fields, taken, saved, disorder, unsaved, raced, begunFb, moves>>

Next ==
  \/ \E c \in Call :
       \/ \E k \in Kind, u \in User, S, ok \in SUBSET Page : SetupPages(c, k, u, S, ok)
       \/ \E u \in User, which \in Page \cup {None} : DeauthorizeRequest(c, u, which)
       \/ \E k \in Kind, op \in {"subscribe", "unsubscribe", "remove"}, ids \in SUBSET Page :
            SubscribePages(c, k, op, ids)
       \/ \E ok \in SUBSET ask[c].todo : Posted(c, ok)
       \/ \E o \in ask[c].todo : PageOff(c, o)
       \/ PostFails(c) \/ SetPages(c) \/ TakeBackup(c) \/ Saved(c) \/ DelPage(c) \/ OffNext(c)
  \/ \E p \in Page, g \in Gram \cup {None} : Relink(p, g)
  \/ Restart

Spec == Init /\ [][Next]_pageVars
-----------------------------------------------------------------------------
(***************************************************************************)
(* The users a page holds tokens of are those that granted access to it    *)
(* and have not withdrawn it, whatever was granted, withdrawn, saved and   *)
(* restored in between (unless a withdrawal met a grant, see raced).       *)
(***************************************************************************)
AccountsAsGranted ==
  ~ raced /\ (\A c \in Call : ask[c].pc # "off") =>
    \A k \in Kind, p \in Page :
      {u \in User : <<k, u, p>> \in granted} = IF idx[k][p] = 0 THEN {} ELSE Range(objs[idx[k][p]].accts)

(***************************************************************************)
(* With no request under way, every page served is saved with its users in *)
(* the same order, so that a restart goes on with the same current token:  *)
(* unless a save failed, an older snapshot was saved over a newer one, or  *)
(* a deauthorization ended with an error half-way.                         *)
(***************************************************************************)
ServedIsSaved ==
  (\A c \in Call : ask[c].pc = "idle") /\ failsFb = 0 /\ ~ disorder /\ ~ unsaved =>
    \A k \in Kind, p \in Page :
      idx[k][p] # 0 => \E r \in meta[k] : r.id = p /\ r.accts = objs[idx[k][p]].accts
================================================================================
