----------------------------- MODULE InfraProofs -----------------------------
(***************************************************************************)
(* Proofs about AuthCache, Registry and Broker, for any tokens, requests,  *)
(* nodes, versions, watch plans, subscriptions and failures.               *)
(***************************************************************************)
EXTENDS MCInfra, Sequences, SequenceTheorems, TLAPS

-----------------------------------------------------------------------------
(* The registry *)

(* The versions of some releases, and their nodes. *)
Vers(rel)     == {r.v : r \in rel}
AllNodes(rel) == UNION {r.nodes : r \in rel}

(* Releases are one for each version, and their nodes are of that version. *)
Apart(rel) ==
  /\ rel \subseteq R!Release
  /\ \A a, b \in rel : a.v = b.v => a = b
  /\ \A r \in rel : \A n \in r.nodes : version[n] = r.v

Plans == 1 .. MaxPlan

(***************************************************************************)
(* How far the receiver of the results has come with the answer that the   *)
(* plan p turns into results: what it knows in excess is still to be       *)
(* deleted, what it misses is still to be sent or was dropped.             *)
(***************************************************************************)
Excess(p, n) ==
  /\ n \in AllNodes(hand[p].old)
  /\ version[n] \in hand[p].todo \cup (IF hand[p].pc = "send" THEN R!Rest(p) ELSE {})

InStep(p) ==
  /\ hand[p].pc \in {"wait", "copy"} => view \subseteq AllNodes(services)
  /\ hand[p].pc = "wait" /\ hand[p].seen = index /\ R!Known # {} => view = R!Live \ dropped
  /\ hand[p].pc # "wait" /\ hand[p].seen = index => AllNodes(hand[p].new) = R!Live
  /\ hand[p].pc \in {"send", "old"} => \A n \in view : n \in AllNodes(hand[p].new) \/ Excess(p, n)
  /\ hand[p].pc = "send" => \A n \in AllNodes(hand[p].new) : version[n] \in hand[p].todo \/ n \in view
  /\ hand[p].pc = "old" => AllNodes(hand[p].new) \subseteq view \cup dropped

(* The rows of the watcher. *)
ReleaseInv ==
  /\ Apart(services)
  /\ \A p \in Plans : Apart(hand[p].new) /\ Apart(hand[p].old)
  /\ \A p \in Plans : hand[p].pc = "send" => hand[p].todo \subseteq Vers(hand[p].new)
  /\ \A p \in Plans : hand[p].pc = "old" => hand[p].todo \subseteq R!Rest(p)

(* What the watches have answered with is the past, and what handle makes of it. *)
WatchInv ==
  /\ listed <= index
  /\ \A p \in Plans : hand[p].seen <= index
  /\ index = 0 => R!Known = {}
  /\ plan <= made
  /\ \A p \in Plans : p > made => hand[p] = R!Waiting
  /\ listed = index => ((plan # 0 /\ handle = "idle") <=> R!Known # {})
  /\ handle = "stop" => plan # 0

(* The results that were sent. *)
ViewInv ==
  /\ view \cap dropped = {}
  /\ ~ late => \A p \in Plans : p # plan => hand[p].pc = "wait"
  /\ ~ late /\ plan = 0 => view = {}
  /\ ~ late /\ plan # 0 /\ handle = "idle" => InStep(plan)

RegInv == R!TypeOK /\ ReleaseInv /\ WatchInv /\ ViewInv

HandRow == [pc : {"wait", "copy", "send", "old"}, seen : 0 .. MaxChange,
            new : SUBSET R!Release, old : SUBSET R!Release, todo : SUBSET Version]

LEMMA HandSet ==
  ASSUME R!TypeOK, NEW p \in Plans, NEW q \in HandRow, hand' = [hand EXCEPT ![p] = q]
  PROVE  /\ hand' \in [Plans -> HandRow] /\ hand'[p] = q
         /\ \A o \in Plans : o # p => hand'[o] = hand[o]
  BY DEF R!TypeOK, Plans, HandRow

(* The nodes of one version are those of all that are of it. *)
LEMMA NodesOfVersion ==
  ASSUME NEW rel, Apart(rel), NEW v
  PROVE  R!NodesOf(rel, v) = {n \in AllNodes(rel) : version[n] = v}
  BY DEF R!NodesOf, AllNodes, Apart

LEMMA NodesKnown ==
  ASSUME NEW rel, Apart(rel), NEW n \in AllNodes(rel)
  PROVE  n \in Node /\ version[n] \in Vers(rel)
  BY DEF AllNodes, Apart, Vers, R!Release

(* What an answer of Consul says. *)
LEMMA EntriesSay ==
  ASSUME R!TypeOK
  PROVE  /\ Apart(R!Entries)
         /\ AllNodes(R!Entries) = R!Live
         /\ R!Entries = {} <=> R!Known = {}
<1>1. Apart(R!Entries)
  <2>1. R!Entries \subseteq R!Release
    BY DEF R!Entries, R!Known, R!Release, R!TypeOK
  <2> QED
    BY <2>1 DEF R!Entries, Apart
<1>2. AllNodes(R!Entries) = {n \in R!Known : health[n] # "critical"}
  <2>1. ASSUME NEW n \in R!Known, health[n] # "critical"
        PROVE  n \in AllNodes(R!Entries)
    <3>1. [v |-> version[n], nodes |-> {m \in R!Known : version[m] = version[n] /\ health[m] # "critical"}]
            \in R!Entries
      BY DEF R!Entries
    <3> QED
      BY <2>1, <3>1 DEF AllNodes
  <2>2. ASSUME NEW n \in AllNodes(R!Entries)
        PROVE  n \in R!Known /\ health[n] # "critical"
    BY <2>2 DEF AllNodes, R!Entries
  <2> QED
    BY <2>1, <2>2
<1>3. {n \in R!Known : health[n] # "critical"} = R!Live
  BY DEF R!Known, R!Live, R!TypeOK
<1>4. R!Entries = {} <=> R!Known = {}
  <2>1. ASSUME NEW n \in R!Known
        PROVE  [v |-> version[n], nodes |-> {m \in R!Known : version[m] = version[n] /\ health[m] # "critical"}]
                 \in R!Entries
    BY DEF R!Entries
  <2>2. R!Known = {} => R!Entries = {}
    BY DEF R!Entries
  <2> QED
    BY <2>1, <2>2
<1> QED
  BY <1>1, <1>2, <1>3, <1>4

LEMMA RegStarts == R!Init => RegInv
<1> SUFFICES ASSUME R!Init
             PROVE  RegInv
  OBVIOUS
<1>1. R!Waiting \in HandRow
  BY InfraAssumption DEF R!Waiting, HandRow
<1>2. R!TypeOK
  <2>1. hand \in [1 .. MaxPlan -> HandRow]
    BY <1>1 DEF R!Init
  <2>2. health \in [Node -> {"out", "critical", "passing"}]
    BY DEF R!Init
  <2>3. /\ index \in 0 .. MaxChange /\ listed \in 0 .. MaxChange
        /\ plan \in 0 .. MaxPlan /\ made \in 0 .. MaxPlan
    BY InfraAssumption DEF R!Init
  <2>4. /\ services \in SUBSET R!Release /\ \A a, b \in services : a.v = b.v => a = b
        /\ view \in SUBSET Node /\ dropped \in SUBSET Node
    BY DEF R!Init
  <2> QED
    BY <2>1, <2>2, <2>3, <2>4 DEF R!Init, R!TypeOK, HandRow
<1>3. ReleaseInv
  BY DEF R!Init, R!Waiting, ReleaseInv, Apart, Plans
<1>4. WatchInv
  BY DEF R!Init, R!Waiting, WatchInv, R!Known, Plans
<1>5. ViewInv
  BY DEF R!Init, R!Waiting, ViewInv, Plans
<1> QED
  BY <1>2, <1>3, <1>4, <1>5 DEF RegInv

(* The catalog changes: every answer there was is one of the past. *)
LEMMA CatalogKeeps ==
  ASSUME RegInv, NEW n \in Node, NEW h \in {"out", "critical", "passing"}, R!Set(n, h)
  PROVE  RegInv'
<1> USE DEF R!Set
<1>1. R!TypeOK'
  BY InfraAssumption DEF RegInv, R!TypeOK
<1>2. index \in Nat /\ index' = index + 1 /\ listed \in Nat /\ \A p \in Plans : hand[p].seen \in Nat
  BY InfraAssumption DEF RegInv, R!TypeOK, Plans
<1>3. ReleaseInv'
  BY DEF RegInv, ReleaseInv, Apart, AllNodes, Vers, R!Rest
<1>4. WatchInv'
  BY <1>2 DEF RegInv, WatchInv, R!Waiting
<1>5. \A p \in Plans : hand[p].seen # index' /\ hand[p].seen <= index
  BY <1>2 DEF RegInv, WatchInv
<1>6. plan # 0 => plan \in Plans
  BY InfraAssumption DEF RegInv, R!TypeOK, Plans
<1>7. ViewInv'
  BY <1>5, <1>6 DEF RegInv, ViewInv, InStep, AllNodes, Excess, R!Rest
<1> QED
  BY <1>1, <1>3, <1>4, <1>7 DEF RegInv

(* handle *)
LEMMA HandleKeeps ==
  ASSUME RegInv, R!HandleNew \/ R!HandleSame \/ R!HandleGone \/ R!HandleStop
  PROVE  RegInv'
<1> USE InfraAssumption
<1>1. /\ index \in Nat /\ listed \in Nat /\ plan \in Nat /\ made \in Nat /\ plan <= made
      /\ version' = version /\ health' = health /\ index' = index /\ hand' = hand
  BY DEF RegInv, R!TypeOK, WatchInv, R!HandleNew, R!HandleSame, R!HandleGone, R!HandleStop
<1>2. Apart({})
  BY DEF Apart
<1>3. services' \in {services, {}}
  BY DEF R!HandleNew, R!HandleSame, R!HandleGone, R!HandleStop
<1>4. R!TypeOK'
  <2>1. /\ listed' \in 0 .. MaxChange /\ plan' \in 0 .. MaxPlan /\ made' \in 0 .. MaxPlan
        /\ handle' \in {"idle", "stop"}
    BY <1>1 DEF RegInv, R!TypeOK, R!HandleNew, R!HandleSame, R!HandleGone, R!HandleStop
  <2>2. services' \in SUBSET R!Release /\ \A a, b \in services' : a.v = b.v => a = b
    BY <1>3 DEF RegInv, R!TypeOK
  <2>3. view' \in SUBSET Node /\ dropped' \in SUBSET Node /\ late' \in BOOLEAN
    BY DEF RegInv, R!TypeOK, R!HandleNew, R!HandleSame, R!HandleGone, R!HandleStop
  <2> QED
    BY <1>1, <2>1, <2>2, <2>3 DEF RegInv, R!TypeOK
<1>5. ReleaseInv'
  BY <1>1, <1>2, <1>3 DEF RegInv, ReleaseInv, Apart, Vers, R!Rest
<1>6. R!Known' = R!Known /\ R!Live' = R!Live
  BY <1>1 DEF R!Known, R!Live
<1>7. WatchInv'
  BY <1>1, <1>6 DEF RegInv, WatchInv, R!Waiting, R!TypeOK, Plans, R!HandleNew, R!HandleSame, R!HandleGone, R!HandleStop
<1>8. ViewInv'
  <2>1. CASE R!HandleNew
    <3>1. plan' \in Plans /\ hand[plan'] = R!Waiting
      BY <1>1, <2>1 DEF RegInv, WatchInv, R!TypeOK, Plans, R!HandleNew
    <3>2. index # 0
      BY <2>1 DEF RegInv, WatchInv, R!HandleNew
    <3>3. ~ late => InStep(plan)'
      BY <1>1, <2>1, <3>1, <3>2 DEF RegInv, ViewInv, InStep, R!Waiting, R!HandleNew, AllNodes
    <3> QED
      BY <1>1, <2>1, <3>1, <3>3 DEF RegInv, ViewInv, R!HandleNew, R!Waiting, Plans
  <2>2. CASE R!HandleSame
    <3>1. services' = services \/ plan = 0
      BY <2>2 DEF R!HandleSame
    <3>2. services' = services => InStep(plan)' = InStep(plan)
      BY <1>1, <1>6, <2>2 DEF InStep, R!HandleSame, AllNodes, Excess, R!Rest
    <3> QED
      BY <1>1, <2>2, <3>1, <3>2 DEF RegInv, ViewInv, R!HandleSame, Plans
  <2>3. CASE R!HandleGone
    BY <1>1, <2>3 DEF RegInv, ViewInv, R!HandleGone, Plans
  <2>4. CASE R!HandleStop
    BY <1>1, <2>4 DEF RegInv, ViewInv, WatchInv, R!HandleStop, Plans
  <2> QED
    BY <2>1, <2>2, <2>3, <2>4
<1> QED
  BY <1>4, <1>5, <1>7, <1>8 DEF RegInv

(***************************************************************************)
(* What a step of serviceHandler has to keep, when it leaves q of plan p.  *)
(***************************************************************************)
LEMMA HandKeeps ==
  ASSUME RegInv, NEW p \in Plans, NEW q \in HandRow, hand' = [hand EXCEPT ![p] = q],
         UNCHANGED <<version, health, index, listed, handle, plan, made, late>>,
         p <= made, q.seen <= index, late \/ p = plan,
         Apart(q.new), Apart(q.old), Apart(services'),
         q.pc = "send" => q.todo \subseteq Vers(q.new),
         q.pc = "old" => q.todo \subseteq Vers(q.old) \ Vers(q.new),
         view' \subseteq Node, dropped' \subseteq Node, view' \cap dropped' = {},
         ~ late /\ handle = "idle" => InStep(p)'
  PROVE  RegInv'
<1>1. /\ hand' \in [Plans -> HandRow] /\ hand'[p] = q
      /\ \A o \in Plans : o # p => hand'[o] = hand[o]
  BY HandSet DEF RegInv
<1>2. R!TypeOK'
  BY <1>1 DEF RegInv, R!TypeOK, HandRow, Plans, Apart
<1>4. ReleaseInv'
  <2>1. Apart(services)'
    BY DEF Apart
  <2>2. ASSUME NEW o \in Plans
        PROVE  /\ Apart(hand[o].new)' /\ Apart(hand[o].old)'
               /\ hand'[o].pc = "send" => hand'[o].todo \subseteq Vers(hand'[o].new)
               /\ hand'[o].pc = "old" => hand'[o].todo \subseteq Vers(hand'[o].old) \ Vers(hand'[o].new)
    <3>1. CASE o = p
      BY <1>1, <3>1 DEF Apart
    <3>2. CASE o # p
      BY <1>1, <3>2 DEF Apart, RegInv, ReleaseInv, R!Rest, Vers
    <3> QED
      BY <3>1, <3>2
  <2> QED
    BY <2>1, <2>2 DEF ReleaseInv, R!Rest, Vers
<1>5. WatchInv'
  <2>1. R!Known' = R!Known
    BY DEF R!Known
  <2>2. made \in Nat /\ p \in Nat
    BY InfraAssumption DEF RegInv, R!TypeOK, Plans
  <2>3. \A o \in Plans : hand'[o].seen <= index
    BY <1>1 DEF RegInv, WatchInv
  <2>4. \A o \in Plans : o > made => hand'[o] = R!Waiting
    <3>1. ~ p > made
      BY <2>2
    <3> QED
      BY <1>1, <3>1 DEF RegInv, WatchInv
  <2>5. R!Waiting' = R!Waiting
    BY DEF R!Waiting
  <2> QED
    BY <2>1, <2>3, <2>4, <2>5 DEF RegInv, WatchInv
<1>6. ViewInv'
  <2>1. (plan # 0 /\ plan = p) \/ late
    BY DEF Plans
  <2> QED
    BY <1>1, <2>1 DEF RegInv, ViewInv
<1> QED
  BY <1>2, <1>4, <1>5, <1>6 DEF RegInv

(* Nothing is sent but for the plan in force, unless one was removed too soon. *)
LEMMA AtWork ==
  ASSUME RegInv, NEW p \in Plans, hand[p].pc # "wait"
  PROVE  p <= made /\ (late \/ p = plan)
<1>1. made \in Nat /\ p \in Nat
  BY InfraAssumption DEF RegInv, R!TypeOK, Plans
<1> QED
  BY <1>1 DEF RegInv, WatchInv, ViewInv, R!Waiting

LEMMA HandOf ==
  ASSUME RegInv, NEW p \in Plans
  PROVE  /\ hand[p] \in HandRow
         /\ hand[p] = [pc |-> hand[p].pc, seen |-> hand[p].seen, new |-> hand[p].new,
                       old |-> hand[p].old, todo |-> hand[p].todo]
         /\ hand[p].seen <= index /\ Apart(hand[p].new) /\ Apart(hand[p].old) /\ Apart(services)
         /\ hand[p].pc = "send" => hand[p].todo \subseteq Vers(hand[p].new)
         /\ hand[p].pc = "old" => hand[p].todo \subseteq Vers(hand[p].old) \ Vers(hand[p].new)
         /\ view \subseteq Node /\ dropped \subseteq Node /\ view \cap dropped = {}
         /\ ~ late /\ p = plan /\ handle = "idle" => InStep(p)
<1>1. hand[p] \in HandRow
  BY DEF RegInv, R!TypeOK, HandRow, Plans
<1>2. p # 0
  BY DEF Plans
<1> QED
  BY <1>1, <1>2 DEF RegInv, R!TypeOK, ReleaseInv, WatchInv, ViewInv, R!Rest, Vers, HandRow

LEMMA FetchKeeps ==
  ASSUME RegInv, NEW p \in Plans, R!Fetch(p)
  PROVE  RegInv'
<1> DEFINE q == [hand[p] EXCEPT !.seen = index, !.new = R!Entries,
                                !.pc = IF R!Entries = {} THEN "wait" ELSE "copy"]
<1>0. hand \in [Plans -> HandRow] /\ hand[p] \in HandRow
  BY DEF RegInv, R!TypeOK, HandRow, Plans
<1>1. /\ hand[p].pc = "wait" /\ p = plan
      /\ UNCHANGED <<version, health, index, listed, handle, plan, made, services, view, dropped, late>>
  BY DEF R!Fetch
<1>2. hand' = [hand EXCEPT ![p] = q]
  BY <1>0 DEF R!Fetch
<1>3. Apart(R!Entries) /\ AllNodes(R!Entries) = R!Live /\ (R!Entries = {} <=> R!Known = {})
  BY EntriesSay DEF RegInv
<1>4. q \in HandRow
  BY <1>0, <1>3 DEF HandRow, RegInv, R!TypeOK, Apart
<1>5. /\ q.pc = IF R!Entries = {} THEN "wait" ELSE "copy"
      /\ q.seen = index /\ q.new = R!Entries /\ q.old = hand[p].old /\ q.todo = hand[p].todo
  BY <1>0 DEF HandRow
<1> HIDE DEF q
<1>6. hand'[p] = q
  BY <1>2, <1>4, HandSet DEF RegInv
<1>7. R!Known' = R!Known /\ R!Live' = R!Live
  BY <1>1 DEF R!Known, R!Live
<1>8. ~ late /\ handle = "idle" => InStep(p)'
  BY <1>1, <1>3, <1>5, <1>6, <1>7, HandOf DEF InStep, AllNodes
<1>9. p <= made /\ index <= index
  BY <1>1, InfraAssumption DEF RegInv, WatchInv, R!TypeOK
<1> QED
  BY <1>1, <1>2, <1>3, <1>4, <1>5, <1>8, <1>9, HandOf, HandKeeps

LEMMA CopyKeeps ==
  ASSUME RegInv, NEW p \in Plans, R!Copy(p)
  PROVE  RegInv'
<1> DEFINE q == [hand[p] EXCEPT !.pc = "send", !.old = services, !.todo = Vers(hand[p].new)]
<1>0. hand \in [Plans -> HandRow] /\ hand[p] \in HandRow
  BY DEF RegInv, R!TypeOK, HandRow, Plans
<1>1. /\ hand[p].pc = "copy"
      /\ UNCHANGED <<version, health, index, listed, handle, plan, made, services, view, dropped, late>>
  BY DEF R!Copy
<1>2. hand' = [hand EXCEPT ![p] = q]
  BY <1>0 DEF R!Copy, Vers
<1>3. q \in HandRow
  <2>1. services \in SUBSET R!Release
    BY DEF RegInv, R!TypeOK
  <2>2. Vers(hand[p].new) \in SUBSET Version
    BY <1>0 DEF HandRow, Vers, R!Release
  <2> QED
    BY <1>0, <2>1, <2>2 DEF HandRow
<1>4. /\ q.pc = "send" /\ q.seen = hand[p].seen /\ q.new = hand[p].new /\ q.old = services
      /\ q.todo = Vers(hand[p].new)
  BY <1>0 DEF HandRow
<1> HIDE DEF q
<1>5. hand'[p] = q
  BY <1>2, <1>3, HandSet DEF RegInv
<1>6. R!Known' = R!Known /\ R!Live' = R!Live
  BY <1>1 DEF R!Known, R!Live
<1>7. \A n \in AllNodes(services) : version[n] \in Vers(hand[p].new) \cup (Vers(services) \ Vers(hand[p].new))
  BY HandOf, NodesKnown
<1>8. \A n \in AllNodes(hand[p].new) : version[n] \in Vers(hand[p].new)
  BY HandOf, NodesKnown
<1>9. R!Rest(p)' = Vers(services) \ Vers(hand[p].new)
  BY <1>4, <1>5 DEF R!Rest, Vers
<1>10. p <= made /\ (late \/ p = plan)
  BY <1>1, AtWork
<1>11. ASSUME ~ late, handle = "idle"
       PROVE  InStep(p)'
  <2>1. InStep(p)
    BY <1>10, <1>11, HandOf
  <2>2. /\ hand'[p].pc = "send" /\ hand'[p].seen = hand[p].seen /\ hand'[p].new = hand[p].new
        /\ hand'[p].old = services /\ hand'[p].todo = Vers(hand[p].new)
    BY <1>4, <1>5
  <2>3. \A n \in view : Excess(p, n)'
    BY <1>1, <1>7, <1>9, <2>1, <2>2 DEF InStep, Excess
  <2> QED
    BY <1>1, <1>6, <1>8, <2>1, <2>2, <2>3 DEF InStep
<1> QED
  BY <1>1, <1>2, <1>3, <1>4, <1>10, <1>11, HandOf, HandKeeps

LEMMA SendNewKeeps ==
  ASSUME RegInv, NEW p \in Plans, NEW v \in Version, R!SendNew(p, v)
  PROVE  RegInv'
<1> DEFINE q == [hand[p] EXCEPT !.todo = @ \ {v}]
           New  == AllNodes(hand[p].new)
           Old  == AllNodes(hand[p].old)
<1>0. /\ hand \in [Plans -> HandRow] /\ hand[p] \in HandRow
      /\ hand[p].seen <= index /\ Apart(hand[p].new) /\ Apart(hand[p].old) /\ Apart(services)
      /\ view \subseteq Node /\ dropped \subseteq Node /\ view \cap dropped = {}
      /\ ~ late /\ p = plan /\ handle = "idle" => InStep(p)
  BY HandOf DEF RegInv, R!TypeOK, HandRow, Plans
<1>1. /\ hand[p].pc = "send" /\ v \in hand[p].todo /\ hand[p].todo \subseteq Vers(hand[p].new)
      /\ UNCHANGED <<version, health, index, listed, handle, plan, made, services, late>>
  BY HandOf DEF R!SendNew
<1>2. hand' = [hand EXCEPT ![p] = q]
  BY <1>0 DEF R!SendNew
<1>3. q \in HandRow
  BY <1>0 DEF HandRow
<1>4. /\ q.pc = "send" /\ q.seen = hand[p].seen /\ q.new = hand[p].new /\ q.old = hand[p].old
      /\ q.todo = hand[p].todo \ {v}
  BY <1>0, <1>1 DEF HandRow
<1> HIDE DEF q
<1>5. /\ hand'[p].pc = "send" /\ hand'[p].seen = hand[p].seen /\ hand'[p].new = hand[p].new
      /\ hand'[p].old = hand[p].old /\ hand'[p].todo = hand[p].todo \ {v}
  BY <1>2, <1>3, <1>4, HandSet DEF RegInv
<1>6. /\ R!NodesOf(hand[p].new, v) = {n \in New : version[n] = v}
      /\ R!NodesOf(hand[p].old, v) = {n \in Old : version[n] = v}
  BY <1>0, NodesOfVersion
<1>7. /\ view' = (view \ ({n \in Old : version[n] = v} \ {n \in New : version[n] = v}))
                   \cup {n \in New : version[n] = v}
      /\ dropped' = dropped \ {n \in New : version[n] = v}
  BY <1>6 DEF R!SendNew, R!Gone
<1>8. \A n \in New : n \in Node
  BY <1>0, NodesKnown
<1>9. R!Rest(p)' = R!Rest(p) /\ R!Live' = R!Live /\ v \notin R!Rest(p)
  <2>1. v \in Vers(hand[p].new)
    BY <1>1
  <2> QED
    BY <1>1, <1>5, <2>1 DEF R!Rest, R!Live, Vers
<1>10. p <= made /\ (late \/ p = plan)
  BY <1>1, AtWork
<1>11. ASSUME ~ late, handle = "idle"
       PROVE  InStep(p)'
  <2>1. InStep(p)
    BY <1>0, <1>10, <1>11
  <2>2. \A n \in view' : n \in New \/ Excess(p, n)'
    <3>1. \A n \in view : n \in New \/ (n \in Old /\ version[n] \in hand[p].todo \cup R!Rest(p))
      BY <1>1, <2>1 DEF InStep, Excess
    <3> QED
      BY <1>1, <1>5, <1>7, <1>9, <3>1 DEF Excess
  <2>3. \A n \in New : version[n] \in hand[p].todo \ {v} \/ n \in view'
    BY <1>1, <1>7, <2>1 DEF InStep
  <2>4. hand[p].seen = index => New = R!Live
    BY <1>1, <2>1 DEF InStep
  <2> HIDE DEF New, Old
  <2>5. AllNodes(hand[p].new)' = New
    BY <1>5 DEF New, AllNodes
  <2> QED
    BY <1>1, <1>5, <1>9, <2>2, <2>3, <2>4, <2>5 DEF InStep
<1>12. view' \subseteq Node /\ dropped' \subseteq Node /\ view' \cap dropped' = {}
  BY <1>0, <1>7, <1>8
<1> HIDE DEF New, Old
<1> QED
  BY <1>0, <1>1, <1>2, <1>3, <1>4, <1>10, <1>11, <1>12, HandKeeps

LEMMA SentNewKeeps ==
  ASSUME RegInv, NEW p \in Plans, R!SentNew(p)
  PROVE  RegInv'
<1> DEFINE q == [hand[p] EXCEPT !.pc = "old", !.todo = R!Rest(p)]
<1>0. /\ hand \in [Plans -> HandRow] /\ hand[p] \in HandRow
      /\ hand[p].seen <= index /\ Apart(hand[p].new) /\ Apart(hand[p].old) /\ Apart(services)
      /\ view \subseteq Node /\ dropped \subseteq Node /\ view \cap dropped = {}
      /\ ~ late /\ p = plan /\ handle = "idle" => InStep(p)
  BY HandOf DEF RegInv, R!TypeOK, HandRow, Plans
<1>1. /\ hand[p].pc = "send" /\ hand[p].todo = {}
      /\ UNCHANGED <<version, health, index, listed, handle, plan, made, services, view, dropped, late>>
  BY DEF R!SentNew
<1>2. hand' = [hand EXCEPT ![p] = q]
  BY <1>0 DEF R!SentNew
<1>3. q \in HandRow
  <2>1. R!Rest(p) \in SUBSET Version
    BY <1>0 DEF HandRow, R!Rest, R!Release
  <2> QED
    BY <1>0, <2>1 DEF HandRow
<1>4. /\ q.pc = "old" /\ q.seen = hand[p].seen /\ q.new = hand[p].new /\ q.old = hand[p].old
      /\ q.todo = R!Rest(p)
  BY <1>0 DEF HandRow
<1> HIDE DEF q
<1>5. /\ hand'[p].pc = "old" /\ hand'[p].seen = hand[p].seen /\ hand'[p].new = hand[p].new
      /\ hand'[p].old = hand[p].old /\ hand'[p].todo = R!Rest(p)
  BY <1>2, <1>3, <1>4, HandSet DEF RegInv
<1>6. R!Rest(p) = Vers(hand[p].old) \ Vers(hand[p].new) /\ R!Live' = R!Live
  BY <1>1 DEF R!Rest, Vers, R!Live
<1>7. p <= made /\ (late \/ p = plan)
  BY <1>1, AtWork
<1>8. ASSUME ~ late, handle = "idle"
      PROVE  InStep(p)'
  <2>1. InStep(p)
    BY <1>0, <1>7, <1>8
  <2>2. AllNodes(hand[p].new)' = AllNodes(hand[p].new)
    BY <1>5 DEF AllNodes
  <2>3. \A n \in view : Excess(p, n) => Excess(p, n)'
    BY <1>1, <1>5 DEF Excess
  <2> QED
    BY <1>1, <1>5, <1>6, <2>1, <2>2, <2>3 DEF InStep
<1> QED
  BY <1>0, <1>1, <1>2, <1>3, <1>4, <1>6, <1>7, <1>8, HandKeeps

LEMMA SendOldKeeps ==
  ASSUME RegInv, NEW p \in Plans, NEW v \in Version, R!SendOld(p, v)
  PROVE  RegInv'
<1> DEFINE q == [hand[p] EXCEPT !.todo = @ \ {v}]
           New  == AllNodes(hand[p].new)
           Old  == AllNodes(hand[p].old)
           Rows == {n \in Old : version[n] = v}
<1>0. /\ hand \in [Plans -> HandRow] /\ hand[p] \in HandRow
      /\ hand[p].seen <= index /\ Apart(hand[p].new) /\ Apart(hand[p].old) /\ Apart(services)
      /\ view \subseteq Node /\ dropped \subseteq Node /\ view \cap dropped = {}
      /\ ~ late /\ p = plan /\ handle = "idle" => InStep(p)
  BY HandOf DEF RegInv, R!TypeOK, HandRow, Plans
<1>1. /\ hand[p].pc = "old" /\ v \in hand[p].todo
      /\ hand[p].todo \subseteq Vers(hand[p].old) \ Vers(hand[p].new)
      /\ UNCHANGED <<version, health, index, listed, handle, plan, made, services, late>>
  BY HandOf DEF R!SendOld
<1>2. hand' = [hand EXCEPT ![p] = q]
  BY <1>0 DEF R!SendOld
<1>3. q \in HandRow
  BY <1>0 DEF HandRow
<1>4. /\ q.pc = "old" /\ q.seen = hand[p].seen /\ q.new = hand[p].new /\ q.old = hand[p].old
      /\ q.todo = hand[p].todo \ {v}
  BY <1>0, <1>1 DEF HandRow
<1> HIDE DEF q
<1>5. /\ hand'[p].pc = "old" /\ hand'[p].seen = hand[p].seen /\ hand'[p].new = hand[p].new
      /\ hand'[p].old = hand[p].old /\ hand'[p].todo = hand[p].todo \ {v}
  BY <1>2, <1>3, <1>4, HandSet DEF RegInv
<1>6. R!NodesOf(hand[p].old, v) = Rows
  BY <1>0, NodesOfVersion
<1>7. \/ Rows = {} /\ view' = {} /\ dropped' = dropped \cup view
      \/ view' = view \ Rows /\ dropped' = dropped \ Rows
  BY <1>6 DEF R!SendOld
<1>8. \A n \in New : version[n] # v
  BY <1>0, <1>1, NodesKnown
<1>9. R!Live' = R!Live
  BY <1>1 DEF R!Live
<1>10. p <= made /\ (late \/ p = plan)
  BY <1>1, AtWork
<1>11. ASSUME ~ late, handle = "idle"
       PROVE  InStep(p)'
  <2>1. InStep(p)
    BY <1>0, <1>10, <1>11
  <2>2. \A n \in view' : n \in New \/ Excess(p, n)'
    <3>1. \A n \in view : n \in New \/ (n \in Old /\ version[n] \in hand[p].todo)
      BY <1>1, <2>1 DEF InStep, Excess
    <3> QED
      BY <1>1, <1>5, <1>7, <3>1 DEF Excess
  <2>3. New \subseteq view' \cup dropped'
    BY <1>1, <1>7, <1>8, <2>1 DEF InStep
  <2>4. hand[p].seen = index => New = R!Live
    BY <1>1, <2>1 DEF InStep
  <2> HIDE DEF New, Old, Rows
  <2>5. AllNodes(hand[p].new)' = New
    BY <1>5 DEF New, AllNodes
  <2> QED
    BY <1>1, <1>5, <1>9, <2>2, <2>3, <2>4, <2>5 DEF InStep
<1>12. view' \subseteq Node /\ dropped' \subseteq Node /\ view' \cap dropped' = {}
  BY <1>0, <1>7
<1> HIDE DEF New, Old, Rows
<1> QED
  BY <1>0, <1>1, <1>2, <1>3, <1>4, <1>10, <1>11, <1>12, HandKeeps

LEMMA StoreKeeps ==
  ASSUME RegInv, NEW p \in Plans, R!Store(p)
  PROVE  RegInv'
<1> DEFINE q == [hand[p] EXCEPT !.pc = "wait", !.new = {}, !.old = {}]
<1>0. /\ hand \in [Plans -> HandRow] /\ hand[p] \in HandRow
      /\ hand[p].seen <= index /\ Apart(hand[p].new) /\ Apart(hand[p].old) /\ Apart(services)
      /\ view \subseteq Node /\ dropped \subseteq Node /\ view \cap dropped = {}
      /\ ~ late /\ p = plan /\ handle = "idle" => InStep(p)
  BY HandOf DEF RegInv, R!TypeOK, HandRow, Plans
<1>1. /\ hand[p].pc = "old" /\ hand[p].todo = {} /\ services' = hand[p].new
      /\ UNCHANGED <<version, health, index, listed, handle, plan, made, view, dropped, late>>
  BY DEF R!Store
<1>2. hand' = [hand EXCEPT ![p] = q]
  BY <1>0 DEF R!Store
<1>3. q \in HandRow
  BY <1>0 DEF HandRow
<1>4. q.pc = "wait" /\ q.seen = hand[p].seen /\ q.new = {} /\ q.old = {}
  BY <1>0 DEF HandRow
<1> HIDE DEF q
<1>5. hand'[p].pc = "wait" /\ hand'[p].seen = hand[p].seen
  BY <1>2, <1>3, <1>4, HandSet DEF RegInv
<1>6. Apart({})
  BY DEF Apart
<1>7. p <= made /\ (late \/ p = plan)
  BY <1>1, AtWork
<1>8. ASSUME ~ late, handle = "idle"
      PROVE  InStep(p)'
  <2>1. InStep(p)
    BY <1>0, <1>7, <1>8
  <2>2. /\ view \subseteq AllNodes(hand[p].new) /\ AllNodes(hand[p].new) \subseteq view \cup dropped
        /\ hand[p].seen = index => AllNodes(hand[p].new) = R!Live
    BY <1>1, <2>1 DEF InStep, Excess
  <2>3. hand[p].seen = index => view = R!Live \ dropped
    BY <1>0, <2>2
  <2>4. AllNodes(services)' = AllNodes(hand[p].new) /\ R!Live' = R!Live
    BY <1>1 DEF AllNodes, R!Live
  <2> QED
    BY <1>1, <1>5, <2>2, <2>3, <2>4 DEF InStep
<1> QED
  BY <1>0, <1>1, <1>2, <1>3, <1>4, <1>6, <1>7, <1>8, HandKeeps

LEMMA RegNext == RegInv /\ [R!Next]_regVars => RegInv'
<1> SUFFICES ASSUME RegInv, [R!Next]_regVars
             PROVE  RegInv'
  OBVIOUS
<1>1. ASSUME NEW n \in Node, R!Register(n) \/ R!PassTTL(n) \/ R!Deregister(n) \/ R!Expire(n)
      PROVE  RegInv'
  BY <1>1, CatalogKeeps DEF R!Register, R!PassTTL, R!Deregister, R!Expire
<1>2. ASSUME NEW p \in Plans,
             \/ R!Fetch(p) \/ R!Copy(p) \/ R!SentNew(p) \/ R!Store(p)
             \/ \E v \in Version : R!SendNew(p, v) \/ R!SendOld(p, v)
      PROVE  RegInv'
  BY <1>2, FetchKeeps, CopyKeeps, SentNewKeeps, StoreKeeps, SendNewKeeps, SendOldKeeps
<1>3. CASE UNCHANGED regVars
  BY <1>3 DEF regVars, RegInv, R!TypeOK, ReleaseInv, WatchInv, ViewInv, InStep, Apart, AllNodes, Excess,
              Vers, R!Rest, R!Known, R!Live
<1> QED
  BY <1>1, <1>2, <1>3, HandleKeeps DEF R!Next, Plans

LEMMA RegFollows == RegInv => ViewFollows
<1> SUFFICES ASSUME RegInv, R!Quiet, ~ late
             PROVE  view = R!Live \ dropped
  BY DEF ViewFollows, R!ViewFollows
<1>1. CASE plan = 0
  BY <1>1 DEF RegInv, ViewInv, WatchInv, R!Quiet, R!Known, R!Live
<1>2. CASE plan # 0
  <2>1. plan \in Plans
    BY <1>2, InfraAssumption DEF RegInv, R!TypeOK, Plans
  <2>2. hand[plan].seen = index /\ hand[plan].pc = "wait" /\ handle = "idle" /\ listed = index
    BY <1>2, <2>1 DEF R!Quiet, Plans
  <2>3. R!Known # {} /\ InStep(plan)
    BY <1>2, <2>2 DEF RegInv, ViewInv, WatchInv
  <2> QED
    BY <2>2, <2>3 DEF InStep
<1> QED
  BY <1>1, <1>2

-----------------------------------------------------------------------------
(* The cache of sessions *)

Pending(t) == \E k \in DOMAIN events : A!Means(events[k].class, events[k].tok, t)

(* An answer that waits to be cached is of a session with an end, and current or noticed. *)
AnswerInv ==
  \A c \in Call : call[c].pc = "add" =>
    /\ call[c].at < Ends[call[c].tok]
    /\ call[c].ver = epoch[call[c].tok] \/ call[c].late \/ Pending(call[c].tok)

AuthInv == A!TypeOK /\ AnswerInv /\ A!NoExpiredSession /\ A!StaleOnlyIfMissed

EventRow == [class : A!Class, tok : Token]
CallRow  == [pc : {"ask", "add"}, tok : Token, at : 0 .. MaxClock, ver : 0 .. MaxEpoch, late : BOOLEAN]
LoopRow  == [pc : {"loop"}, class : A!Class, tok : Token, keys : Seq(Token)]

(* A list the cache may hold. *)
CacheType(q) ==
  /\ q \in Seq(A!Entry) /\ Len(q) <= Size
  /\ \A i, j \in DOMAIN q : q[i].tok = q[j].tok => i = j

(* Only entries of the cache. *)
From(q) == \A i \in DOMAIN q : \E j \in DOMAIN cache : q[i] = cache[j]

Looped(t) == inval # A!Idle /\ A!Means(inval.class, inval.tok, t) /\ \E k \in DOMAIN inval.keys : inval.keys[k] = t

(* What StaleOnlyIfMissed says of one entry. *)
Excused(e) == e.ver = epoch[e.tok] \/ e.late \/ Pending(e.tok) \/ Looped(e.tok)

LEMMA AuthTypes ==
  /\ A!TypeOK <=> /\ CacheType(cache)
                  /\ epoch \in [Token -> 0 .. MaxEpoch] /\ now \in 0 .. MaxClock
                  /\ call \in [Call -> {A!Idle} \cup CallRow]
                  /\ events \in Seq(EventRow)
                  /\ inval = A!Idle \/ inval \in LoopRow
                  /\ served \in {A!Idle} \cup [pc : {"hit"}, tok : Token, at : 0 .. MaxClock]
  /\ A!StaleOnlyIfMissed <=> \A i \in DOMAIN cache : Excused(cache[i])
  BY DEF A!TypeOK, CacheType, CallRow, EventRow, LoopRow, A!StaleOnlyIfMissed, Excused, Pending, Looped

LEMMA Lists ==
  ASSUME CacheType(cache)
  PROVE  /\ Len(cache) \in Nat /\ DOMAIN cache = 1 .. Len(cache)
         /\ \A i \in DOMAIN cache : cache[i] \in A!Entry
  BY DEF CacheType

(* removeElement *)
LEMMA Dropped ==
  ASSUME CacheType(cache), NEW k \in DOMAIN cache
  PROVE  /\ CacheType(A!Drop(k)) /\ From(A!Drop(k)) /\ Len(A!Drop(k)) = Len(cache) - 1
         /\ \A i \in DOMAIN A!Drop(k) : A!Drop(k)[i].tok # cache[k].tok
<1> DEFINE q == A!Drop(k)
           at(i) == IF i < k THEN i ELSE i + 1
<1>1. /\ Len(cache) \in Nat \ {0} /\ k \in 1 .. Len(cache) /\ DOMAIN cache = 1 .. Len(cache)
      /\ \A i \in DOMAIN cache : cache[i] \in A!Entry
  BY Lists
<1>2. \A i \in 1 .. Len(cache) - 1 : at(i) \in DOMAIN cache /\ at(i) # k
  BY <1>1
<1>3. \A i, j \in 1 .. Len(cache) - 1 : at(i) = at(j) => i = j
  BY <1>1
<1>4. DOMAIN q = 1 .. Len(cache) - 1 /\ \A i \in 1 .. Len(cache) - 1 : q[i] = cache[at(i)]
  BY DEF A!Drop
<1>5. q = [i \in 1 .. Len(cache) - 1 |-> cache[at(i)]]
  BY DEF A!Drop
<1> HIDE DEF q, at
<1>6. q \in Seq(A!Entry) /\ Len(q) = Len(cache) - 1
  <2>1. Len(cache) - 1 \in Nat /\ \A i \in 1 .. Len(cache) - 1 : cache[at(i)] \in A!Entry
    BY <1>1, <1>2
  <2> QED
    BY <1>5, <2>1, IsASeq
<1>7. \A i, j \in DOMAIN q : q[i].tok = q[j].tok => i = j
  BY <1>2, <1>3, <1>4 DEF CacheType
<1>8. \A i \in DOMAIN q : q[i].tok # cache[k].tok
  BY <1>2, <1>4 DEF CacheType
<1>9. From(q)
  BY <1>2, <1>4 DEF From
<1>10. CacheType(q)
  BY <1>1, <1>6, <1>7, InfraAssumption DEF CacheType
<1> QED
  BY <1>6, <1>8, <1>9, <1>10 DEF q

LEMMA WithoutIt ==
  ASSUME CacheType(cache), NEW t
  PROVE  /\ CacheType(A!Without(t)) /\ From(A!Without(t))
         /\ \A i \in DOMAIN A!Without(t) : A!Without(t)[i].tok # t
         /\ A!Find(t) # {} => Len(A!Without(t)) = Len(cache) - 1
<1>1. CASE A!Find(t) = {}
  <2>1. A!Without(t) = cache
    BY <1>1 DEF A!Without
  <2> QED
    BY <1>1, <2>1 DEF From, A!Find
<1>2. CASE A!Find(t) # {}
  <2> DEFINE k == CHOOSE k \in A!Find(t) : TRUE
  <2>1. k \in DOMAIN cache /\ cache[k].tok = t
    BY <1>2 DEF A!Find
  <2>2. A!Without(t) = A!Drop(k)
    BY <1>2 DEF A!Without
  <2> HIDE DEF k
  <2> QED
    BY <2>1, <2>2, Dropped
<1> QED
  BY <1>1, <1>2

(* An entry put to the front of the others. *)
LEMMA InFront ==
  ASSUME NEW q, CacheType(q), NEW e \in A!Entry, \A i \in DOMAIN q : q[i].tok # e.tok
  PROVE  /\ <<e>> \o q \in Seq(A!Entry) /\ Len(<<e>> \o q) = Len(q) + 1
         /\ \A i, j \in DOMAIN (<<e>> \o q) : (<<e>> \o q)[i].tok = (<<e>> \o q)[j].tok => i = j
         /\ \A i \in DOMAIN (<<e>> \o q) : (<<e>> \o q)[i] = e \/ \E j \in DOMAIN q : (<<e>> \o q)[i] = q[j]
<1> DEFINE r == <<e>> \o q
<1>1. q \in Seq(A!Entry) /\ Len(q) \in Nat /\ DOMAIN q = 1 .. Len(q)
  BY DEF CacheType
<1>2. <<e>> \in Seq(A!Entry) /\ Len(<<e>>) = 1 /\ <<e>>[1] = e
  OBVIOUS
<1>3. /\ r \in Seq(A!Entry) /\ Len(r) = Len(q) + 1 /\ DOMAIN r = 1 .. Len(q) + 1
      /\ r[1] = e /\ \A i \in 2 .. Len(q) + 1 : r[i] = q[i - 1]
  BY <1>1, <1>2, ConcatProperties
<1> HIDE DEF r
<1>4. \A i \in DOMAIN r : i = 1 \/ (i - 1 \in DOMAIN q /\ r[i] = q[i - 1])
  BY <1>1, <1>3
<1>5. \A i, j \in DOMAIN r : r[i].tok = r[j].tok => i = j
  BY <1>1, <1>3, <1>4 DEF CacheType
<1>6. \A i \in DOMAIN r : r[i] = e \/ \E j \in DOMAIN q : r[i] = q[j]
  BY <1>3, <1>4
<1> QED
  BY <1>3, <1>5, <1>6 DEF r

LEMMA Gotten ==
  ASSUME CacheType(cache), NEW t
  PROVE  CacheType(A!Get(t)) /\ From(A!Get(t))
<1>1. CASE ~ \E i \in A!Find(t) : ~ A!Over(cache[i])
  BY <1>1, WithoutIt DEF A!Get
<1>2. CASE \E i \in A!Find(t) : ~ A!Over(cache[i])
  <2> DEFINE k == CHOOSE i \in A!Find(t) : ~ A!Over(cache[i])
             W == A!Without(t)
  <2>1. k \in A!Find(t)
    BY <1>2
  <2>2. A!Get(t) = <<cache[k]>> \o W
    BY <1>2 DEF A!Get
  <2> HIDE DEF k
  <2>3. k \in DOMAIN cache /\ cache[k].tok = t /\ cache[k] \in A!Entry /\ A!Find(t) # {}
    BY <2>1, Lists DEF A!Find
  <2>4. CacheType(W) /\ From(W) /\ Len(W) = Len(cache) - 1 /\ \A i \in DOMAIN W : W[i].tok # cache[k].tok
    BY <2>3, WithoutIt
  <2> HIDE DEF W
  <2>5. Len(cache) \in Nat /\ Len(cache) <= Size
    BY DEF CacheType
  <2>6. /\ A!Get(t) \in Seq(A!Entry) /\ Len(A!Get(t)) = Len(W) + 1
        /\ \A i, j \in DOMAIN A!Get(t) : A!Get(t)[i].tok = A!Get(t)[j].tok => i = j
        /\ \A i \in DOMAIN A!Get(t) : A!Get(t)[i] = cache[k] \/ \E j \in DOMAIN W : A!Get(t)[i] = W[j]
    BY <2>2, <2>3, <2>4, InFront
  <2>7. CacheType(A!Get(t))
    BY <2>4, <2>5, <2>6, InfraAssumption DEF CacheType
  <2>8. From(A!Get(t))
    BY <2>3, <2>4, <2>6 DEF From
  <2> QED
    BY <2>7, <2>8
<1> QED
  BY <1>1, <1>2

LEMMA AuthStarts == A!Init => AuthInv
<1> SUFFICES ASSUME A!Init
             PROVE  AuthInv
  OBVIOUS
<1>1. CacheType(<<>>)
  BY InfraAssumption DEF CacheType
<1>2. A!TypeOK
  <2>1. epoch \in [Token -> 0 .. MaxEpoch] /\ now \in 0 .. MaxClock
    BY InfraAssumption DEF A!Init
  <2>2. call \in [Call -> {A!Idle} \cup CallRow] /\ events \in Seq(EventRow)
    BY DEF A!Init
  <2> QED
    BY <1>1, <2>1, <2>2, AuthTypes DEF A!Init
<1>3. AnswerInv
  BY DEF A!Init, AnswerInv, A!Idle
<1>4. A!NoExpiredSession /\ A!StaleOnlyIfMissed
  BY DEF A!Init, A!NoExpiredSession, A!StaleOnlyIfMissed
<1> QED
  BY <1>2, <1>3, <1>4 DEF AuthInv

(* Entries that move or go. *)
LEMMA MovesKeep ==
  ASSUME AuthInv, From(cache'), CacheType(cache'), UNCHANGED <<epoch, events, inval>>
  PROVE  \A i \in DOMAIN cache' : Excused(cache[i])'
<1>1. \A e : Excused(e)' = Excused(e)
  BY DEF Excused, Pending, Looped
<1>2. \A i \in DOMAIN cache : Excused(cache[i])
  BY AuthTypes DEF AuthInv
<1>3. ASSUME NEW i \in DOMAIN cache'
      PROVE  Excused(cache'[i])
  BY <1>2 DEF From
<1>4. \A i \in DOMAIN cache' : Excused(cache[i])' <=> Excused(cache'[i])
  BY <1>1 DEF Excused, Pending, Looped
<1> QED
  BY <1>3, <1>4

(* A request goes on. *)
LEMMA CallKeeps ==
  ASSUME AuthInv, NEW c \in Call, NEW q \in {A!Idle} \cup CallRow, call' = [call EXCEPT ![c] = q],
         UNCHANGED <<epoch, events>>,
         q.pc = "add" => q.at < Ends[q.tok] /\ q.ver = epoch[q.tok]
  PROVE  call' \in [Call -> {A!Idle} \cup CallRow] /\ AnswerInv'
<1>1. call \in [Call -> {A!Idle} \cup CallRow]
  BY AuthTypes DEF AuthInv
<1>2. /\ call' \in [Call -> {A!Idle} \cup CallRow] /\ call'[c] = q
      /\ \A d \in Call : d # c => call'[d] = call[d]
  BY <1>1
<1> QED
  BY <1>2 DEF AuthInv, AnswerInv, Pending

LEMMA HitKeeps ==
  ASSUME AuthInv, NEW c \in Call, NEW t \in Token, A!Hit(c, t)
  PROVE  AuthInv'
<1>1. /\ cache' = A!Get(t) /\ ~ A!IsExpired(t, now) /\ served' = [pc |-> "hit", tok |-> t, at |-> now]
      /\ UNCHANGED <<epoch, call, events, inval, now>>
  BY DEF A!Hit
<1>2. CacheType(cache') /\ From(cache')
  BY <1>1, Gotten, AuthTypes DEF AuthInv
<1>3. \A i \in DOMAIN cache' : Excused(cache[i])'
  BY <1>1, <1>2, MovesKeep
<1>4. A!NoExpiredSession'
  BY <1>1, InfraAssumption, AuthTypes DEF AuthInv, A!NoExpiredSession, A!IsExpired
<1>5. A!TypeOK' /\ A!StaleOnlyIfMissed'
  BY <1>1, <1>2, <1>3, AuthTypes DEF AuthInv, A!TypeOK, CacheType, A!StaleOnlyIfMissed, Excused, Pending, Looped
<1> QED
  BY <1>1, <1>4, <1>5 DEF AuthInv, AnswerInv, Pending

LEMMA MissKeeps ==
  ASSUME AuthInv, NEW c \in Call, NEW t \in Token, A!Miss(c, t)
  PROVE  AuthInv'
<1> DEFINE q == [pc |-> "ask", tok |-> t, at |-> now, ver |-> 0, late |-> FALSE]
<1>1. /\ cache' = A!Without(t) /\ call' = [call EXCEPT ![c] = q]
      /\ UNCHANGED <<epoch, events, inval, served, now>>
  BY DEF A!Miss
<1>2. CacheType(cache') /\ From(cache')
  BY <1>1, WithoutIt, AuthTypes DEF AuthInv
<1>3. \A i \in DOMAIN cache' : Excused(cache[i])'
  BY <1>1, <1>2, MovesKeep
<1>4. q \in CallRow /\ q.pc = "ask"
  BY AuthTypes, InfraAssumption DEF AuthInv, CallRow
<1> HIDE DEF q
<1>5. call' \in [Call -> {A!Idle} \cup CallRow] /\ AnswerInv'
  BY <1>1, <1>4, CallKeeps
<1>6. A!TypeOK' /\ A!StaleOnlyIfMissed'
  BY <1>1, <1>2, <1>3, <1>5, AuthTypes DEF AuthInv, A!TypeOK, CacheType, CallRow, EventRow, LoopRow, A!StaleOnlyIfMissed, Excused, Pending, Looped
<1> QED
  BY <1>1, <1>5, <1>6 DEF AuthInv, A!NoExpiredSession

LEMMA AskKeeps ==
  ASSUME AuthInv, NEW c \in Call, A!Ask(c) \/ A!AskFails(c)
  PROVE  AuthInv'
<1>1. /\ call[c].pc = "ask" /\ UNCHANGED <<cache, epoch, events, inval, served, now>>
      /\ call \in [Call -> {A!Idle} \cup CallRow] /\ epoch \in [Token -> 0 .. MaxEpoch]
  BY AuthTypes DEF AuthInv, A!Ask, A!AskFails
<1>2. call[c] \in CallRow
  BY <1>1 DEF A!Idle
<1>3. call' \in [Call -> {A!Idle} \cup CallRow] /\ AnswerInv'
  <2>1. CASE call' = [call EXCEPT ![c] = A!Idle]
    <3>1. A!Idle.pc = "idle"
      BY DEF A!Idle
    <3> HIDE DEF A!Idle
    <3> QED
      BY <1>1, <2>1, <3>1, CallKeeps
  <2>2. CASE call' # [call EXCEPT ![c] = A!Idle]
    <3> DEFINE q == [call[c] EXCEPT !.pc = "add", !.ver = epoch[call[c].tok]]
    <3>1. /\ call' = [call EXCEPT ![c] = q]
          /\ Ends[call[c].tok] # 0 /\ ~ A!IsExpired(call[c].tok, call[c].at)
      BY <1>1, <2>2 DEF A!Ask, A!AskFails
    <3>2. q \in CallRow /\ q.at = call[c].at /\ q.tok = call[c].tok /\ q.ver = epoch[q.tok]
      BY <1>1, <1>2 DEF CallRow
    <3>3. call[c].at < Ends[call[c].tok]
      BY <1>2, <3>1, InfraAssumption DEF A!IsExpired, CallRow
    <3> HIDE DEF q
    <3> QED
      BY <1>1, <3>1, <3>2, <3>3, CallKeeps
  <2> QED
    BY <2>1, <2>2
<1>4. A!TypeOK' /\ A!StaleOnlyIfMissed'
  BY <1>1, <1>3, AuthTypes DEF AuthInv, A!TypeOK, CacheType, CallRow, EventRow, LoopRow, A!StaleOnlyIfMissed, Excused, Pending, Looped
<1> QED
  BY <1>1, <1>3, <1>4 DEF AuthInv, A!NoExpiredSession

LEMMA AddKeeps ==
  ASSUME AuthInv, NEW c \in Call, A!Add(c)
  PROVE  AuthInv'
<1> DEFINE t == call[c].tok
           e == [tok |-> t, ver |-> call[c].ver, late |-> call[c].late, exp |-> now + A!Left(t, call[c].at)]
           W == A!Without(t)
           r == <<e>> \o W
<1>1. /\ call[c].pc = "add" /\ cache' = A!Evicted(r) /\ call' = [call EXCEPT ![c] = A!Idle]
      /\ UNCHANGED <<epoch, events, inval, served, now>>
      /\ call \in [Call -> {A!Idle} \cup CallRow] /\ now \in 0 .. MaxClock /\ CacheType(cache)
  BY AuthTypes DEF AuthInv, A!Add
<1>2. call[c] \in CallRow
  BY <1>1 DEF A!Idle
<1>3. e \in A!Entry /\ e.tok = t /\ Excused(e)
  <2>1. t \in Token /\ call[c].at \in Nat /\ call[c].at < Ends[t] /\ Ends[t] \in Nat
    BY <1>1, <1>2, InfraAssumption DEF AuthInv, AnswerInv, CallRow
  <2>2. A!Left(t, call[c].at) \in 0 .. Expiry
    BY <2>1, InfraAssumption DEF A!Left
  <2>3. now + A!Left(t, call[c].at) \in 0 .. MaxClock + Expiry
    BY <1>1, <2>2, InfraAssumption
  <2>4. e \in A!Entry
    BY <1>2, <2>1, <2>3 DEF A!Entry, CallRow
  <2>5. call[c].ver = epoch[t] \/ call[c].late \/ Pending(t)
    BY <1>1 DEF AuthInv, AnswerInv
  <2> QED
    BY <2>4, <2>5 DEF Excused
<1> HIDE DEF e
<1>4. CacheType(W) /\ From(W) /\ \A i \in DOMAIN W : W[i].tok # e.tok
  BY <1>1, <1>3, WithoutIt
<1> HIDE DEF W
<1>5. /\ r \in Seq(A!Entry)
      /\ \A i, j \in DOMAIN r : r[i].tok = r[j].tok => i = j
      /\ \A i \in DOMAIN r : r[i] = e \/ \E j \in DOMAIN W : r[i] = W[j]
  BY <1>3, <1>4, InFront
<1>6. \A i \in DOMAIN cache : Excused(cache[i])
  BY AuthTypes DEF AuthInv
<1>7. \A i \in DOMAIN r : Excused(r[i])
  BY <1>3, <1>4, <1>5, <1>6 DEF From
<1> HIDE DEF r
<1>8. CacheType(cache') /\ \A i \in DOMAIN cache' : Excused(cache'[i])
  <2>1. CASE Len(r) > Size
    <3>1. cache' = SubSeq(r, 1, Size)
      BY <1>1, <2>1 DEF A!Evicted
    <3>2. Len(r) \in Nat /\ DOMAIN r = 1 .. Len(r) /\ Size \in Nat
      BY <1>5, InfraAssumption
    <3>3. /\ cache' \in Seq(A!Entry) /\ Len(cache') = Size /\ DOMAIN cache' = 1 .. Size
          /\ \A i \in 1 .. Size : cache'[i] = r[i] /\ i \in DOMAIN r
      BY <1>5, <2>1, <3>1, <3>2, SubSeqProperties
    <3> QED
      BY <1>5, <1>7, <3>2, <3>3 DEF CacheType
  <2>2. CASE ~ Len(r) > Size
    <3>1. cache' = r
      BY <1>1, <2>2 DEF A!Evicted
    <3> QED
      BY <1>5, <1>7, <2>2, <3>1, InfraAssumption DEF CacheType
  <2> QED
    BY <2>1, <2>2
<1>9. call' \in [Call -> {A!Idle} \cup CallRow] /\ AnswerInv'
  <2>1. A!Idle.pc = "idle"
    BY DEF A!Idle
  <2> HIDE DEF A!Idle
  <2> QED
    BY <1>1, <2>1, CallKeeps
<1>10. A!TypeOK'
  BY <1>1, <1>8, <1>9, AuthTypes DEF AuthInv, A!TypeOK, CacheType, CallRow, EventRow, LoopRow
<1>11. A!StaleOnlyIfMissed'
  BY <1>1, <1>8 DEF A!StaleOnlyIfMissed, Excused, Pending, Looped
<1> QED
  BY <1>1, <1>9, <1>10, <1>11 DEF AuthInv, A!NoExpiredSession

(* A changed session has its event among those on their way. *)
LEMMA ChangeKeeps ==
  ASSUME AuthInv, NEW class \in A!Class, NEW t \in Token, A!Change(class, t)
  PROVE  AuthInv'
<1> DEFINE hit == {u \in Token : A!Means(class, t, u)}
           e   == [class |-> class, tok |-> t]
<1>1. /\ \A u \in hit : epoch[u] < MaxEpoch
      /\ epoch' = [u \in Token |-> IF u \in hit THEN epoch[u] + 1 ELSE epoch[u]]
      /\ events' = Append(events, e)
      /\ UNCHANGED <<cache, call, inval, served, now>>
  BY DEF A!Change
<1>2. /\ events \in Seq(EventRow) /\ epoch \in [Token -> 0 .. MaxEpoch] /\ CacheType(cache)
      /\ call \in [Call -> {A!Idle} \cup CallRow]
  BY AuthTypes DEF AuthInv
<1>3. e \in EventRow
  BY DEF EventRow
<1>4. epoch' \in [Token -> 0 .. MaxEpoch]
  BY <1>1, <1>2, InfraAssumption
<1>5. /\ events' \in Seq(EventRow) /\ DOMAIN events' = 1 .. Len(events) + 1 /\ Len(events) \in Nat
      /\ DOMAIN events = 1 .. Len(events)
      /\ events'[Len(events) + 1] = e /\ \A k \in 1 .. Len(events) : events'[k] = events[k]
  BY <1>1, <1>2, <1>3, AppendProperties
<1>6. ASSUME NEW u \in Token
      PROVE  (Pending(u) => Pending(u)') /\ (epoch'[u] = epoch[u] \/ Pending(u)')
  <2>1. Pending(u) => Pending(u)'
    BY <1>5 DEF Pending
  <2>2. CASE u \in hit
    <3>1. A!Means(e.class, e.tok, u)
      BY <2>2
    <3> QED
      BY <1>5, <2>1, <3>1 DEF Pending
  <2>3. CASE u \notin hit
    BY <1>1, <2>1, <2>3
  <2> QED
    BY <2>1, <2>2, <2>3
<1> HIDE DEF hit, e
<1>7. AnswerInv'
  <2>1. ASSUME NEW c \in Call, call[c].pc = "add"
        PROVE  call[c].tok \in Token
    BY <1>2, <2>1 DEF CallRow, A!Idle
  <2> QED
    BY <1>1, <1>6, <2>1 DEF AuthInv, AnswerInv
<1>8. A!StaleOnlyIfMissed'
  <2>1. ASSUME NEW i \in DOMAIN cache
        PROVE  Excused(cache[i])'
    <3>1. cache[i].tok \in Token /\ Excused(cache[i])
      BY <1>2, AuthTypes, Lists DEF AuthInv, A!Entry
    <3>2. Looped(cache[i].tok)' = Looped(cache[i].tok)
      BY <1>1 DEF Looped
    <3>3. Pending(cache[i].tok) => Pending(cache[i].tok)'
      BY <1>1, <1>6, <3>1 DEF Pending
    <3>4. epoch'[cache[i].tok] = epoch[cache[i].tok] \/ Pending(cache[i].tok)'
      BY <1>1, <1>6, <3>1 DEF Pending
    <3> QED
      BY <1>1, <3>1, <3>2, <3>3, <3>4 DEF Excused
  <2> QED
    BY <1>1, <2>1 DEF A!StaleOnlyIfMissed, Excused, Pending, Looped
<1>9. A!TypeOK'
  BY <1>1, <1>4, <1>5, AuthTypes DEF AuthInv, A!TypeOK, CacheType, CallRow, EventRow, LoopRow
<1> QED
  BY <1>1, <1>7, <1>8, <1>9 DEF AuthInv, A!NoExpiredSession

(* What an event that leaves the queue means is no more pending than the others. *)
LEMMA Popped ==
  ASSUME AuthInv, events # <<>>, events' = Tail(events)
  PROVE  /\ events' \in Seq(EventRow) /\ Head(events) \in EventRow
         /\ \A t : Pending(t) => A!Means(Head(events).class, Head(events).tok, t)
                                 \/ \E k \in DOMAIN events' : A!Means(events'[k].class, events'[k].tok, t)
<1>1. events \in Seq(EventRow)
  BY AuthTypes DEF AuthInv
<1>2. /\ events' \in Seq(EventRow) /\ Head(events) \in EventRow /\ Head(events) = events[1]
      /\ Len(events) \in Nat /\ DOMAIN events = 1 .. Len(events) /\ DOMAIN events' = 1 .. Len(events) - 1
      /\ \A k \in 1 .. Len(events) - 1 : events'[k] = events[k + 1]
  BY <1>1, HeadTailProperties
<1>3. \A k \in DOMAIN events : k = 1 \/ (k - 1 \in DOMAIN events' /\ events'[k - 1] = events[k])
  BY <1>2
<1> QED
  BY <1>2, <1>3 DEF Pending

(* Answers on their way to the cache notice the event that passes. *)
LEMMA PassedKeeps ==
  ASSUME AuthInv, events # <<>>, events' = Tail(events), call' = A!Passed(Head(events)), epoch' = epoch
  PROVE  call' \in [Call -> {A!Idle} \cup CallRow] /\ AnswerInv'
<1> DEFINE e == Head(events)
           Still(t) == \E k \in DOMAIN events' : A!Means(events'[k].class, events'[k].tok, t)
<1>1. call \in [Call -> {A!Idle} \cup CallRow]
  BY AuthTypes DEF AuthInv
<1>2. ASSUME NEW c \in Call
      PROVE  \/ call'[c] = call[c] /\ (call[c].pc = "add" => ~ A!Means(e.class, e.tok, call[c].tok))
             \/ call[c].pc = "add" /\ call'[c] = [call[c] EXCEPT !.late = TRUE]
  BY DEF A!Passed
<1>3. DOMAIN call' = Call /\ call' = [c \in Call |-> call'[c]]
  BY DEF A!Passed
<1>4. ASSUME NEW c \in Call
      PROVE  /\ call'[c] \in {A!Idle} \cup CallRow
             /\ call'[c].pc = "add" =>
                  /\ call'[c].at < Ends[call'[c].tok]
                  /\ call'[c].ver = epoch[call'[c].tok] \/ call'[c].late \/ Still(call'[c].tok)
  <2>1. CASE call'[c] = call[c] /\ (call[c].pc = "add" => ~ A!Means(e.class, e.tok, call[c].tok))
    <3>1. call[c].pc = "add" /\ Pending(call[c].tok) => Still(call[c].tok)
      BY <2>1, Popped
    <3> QED
      BY <1>1, <2>1, <3>1 DEF AuthInv, AnswerInv
  <2>2. CASE call[c].pc = "add" /\ call'[c] = [call[c] EXCEPT !.late = TRUE]
    <3>1. call[c] \in CallRow
      BY <1>1, <2>2 DEF A!Idle
    <3>2. /\ call'[c] \in CallRow /\ call'[c].at = call[c].at /\ call'[c].tok = call[c].tok /\ call'[c].late
      BY <2>2, <3>1 DEF CallRow
    <3> QED
      BY <2>2, <3>2 DEF AuthInv, AnswerInv
  <2> QED
    BY <1>2, <2>1, <2>2
<1>5. call' \in [Call -> {A!Idle} \cup CallRow]
  BY <1>3, <1>4
<1>6. AnswerInv'
  BY <1>4 DEF AnswerInv, Pending
<1> QED
  BY <1>5, <1>6

LEMMA EventLostKeeps ==
  ASSUME AuthInv, A!EventLost
  PROVE  AuthInv'
<1> DEFINE e == Head(events)
           Still(t) == \E k \in DOMAIN events' : A!Means(events'[k].class, events'[k].tok, t)
<1>1. /\ events # <<>> /\ events' = Tail(events) /\ call' = A!Passed(e)
      /\ cache' = [i \in DOMAIN cache |-> IF A!Means(e.class, e.tok, cache[i].tok)
                                          THEN [cache[i] EXCEPT !.late = TRUE] ELSE cache[i]]
      /\ UNCHANGED <<epoch, inval, served, now>>
  BY DEF A!EventLost
<1>2. call' \in [Call -> {A!Idle} \cup CallRow] /\ AnswerInv'
  BY <1>1, PassedKeeps
<1>3. events' \in Seq(EventRow) /\ \A t : Pending(t) => A!Means(e.class, e.tok, t) \/ Still(t)
  BY <1>1, Popped
<1>4. /\ CacheType(cache) /\ Len(cache) \in Nat /\ DOMAIN cache = 1 .. Len(cache)
      /\ \A i \in DOMAIN cache : cache[i] \in A!Entry
  BY AuthTypes, Lists DEF AuthInv
<1>5. ASSUME NEW i \in DOMAIN cache
      PROVE  /\ cache'[i] \in A!Entry /\ cache'[i].tok = cache[i].tok /\ cache'[i].ver = cache[i].ver
             /\ cache'[i].late \/ (~ A!Means(e.class, e.tok, cache[i].tok) /\ cache'[i].late = cache[i].late)
  BY <1>1, <1>4 DEF A!Entry
<1>6. DOMAIN cache' = DOMAIN cache /\ cache' = [i \in 1 .. Len(cache) |-> cache'[i]]
  BY <1>1, <1>4
<1>7. CacheType(cache')
  <2>1. cache' \in Seq(A!Entry) /\ Len(cache') = Len(cache)
    BY <1>4, <1>5, <1>6, IsASeq
  <2> QED
    BY <1>4, <1>5, <1>6, <2>1 DEF CacheType
<1>8. A!StaleOnlyIfMissed'
  <2>1. ASSUME NEW i \in DOMAIN cache
        PROVE  cache'[i].ver = epoch'[cache'[i].tok] \/ cache'[i].late \/ Still(cache'[i].tok) \/ Looped(cache'[i].tok)
    <3>1. Excused(cache[i])
      BY AuthTypes DEF AuthInv
    <3> QED
      BY <1>1, <1>3, <1>5, <3>1 DEF Excused
  <2>2. \A t : Looped(t)' = Looped(t)
    BY <1>1 DEF Looped
  <2> QED
    BY <1>1, <1>6, <2>1, <2>2 DEF A!StaleOnlyIfMissed, Looped
<1>9. A!TypeOK'
  BY <1>1, <1>2, <1>3, <1>7, AuthTypes DEF AuthInv, A!TypeOK, CacheType, CallRow, EventRow, LoopRow
<1> QED
  BY <1>1, <1>2, <1>8, <1>9 DEF AuthInv, A!NoExpiredSession

(* The keys that are listed are those of all entries. *)
LEMMA KeysListed ==
  ASSUME CacheType(cache)
  PROVE  /\ A!Keys \in Seq(Token)
         /\ \A i \in DOMAIN cache : \E k \in DOMAIN A!Keys : A!Keys[k] = cache[i].tok
<1>1. /\ Len(cache) \in Nat /\ DOMAIN cache = 1 .. Len(cache)
      /\ \A i \in DOMAIN cache : cache[i].tok \in Token
  BY Lists DEF A!Entry
<1>2. A!Keys = [i \in 1 .. Len(cache) |-> cache[Len(cache) + 1 - i].tok]
  BY <1>1 DEF A!Keys
<1>3. \A i \in 1 .. Len(cache) : cache[Len(cache) + 1 - i].tok \in Token
  BY <1>1
<1>4. A!Keys \in Seq(Token)
  BY <1>1, <1>2, <1>3, IsASeq
<1>5. ASSUME NEW i \in DOMAIN cache
      PROVE  Len(cache) + 1 - i \in DOMAIN A!Keys /\ A!Keys[Len(cache) + 1 - i] = cache[i].tok
  <2>1. Len(cache) + 1 - i \in 1 .. Len(cache) /\ Len(cache) + 1 - (Len(cache) + 1 - i) = i
    BY <1>1
  <2> QED
    BY <1>2, <2>1
<1> QED
  BY <1>4, <1>5

LEMMA InvalidateKeeps ==
  ASSUME AuthInv, A!Invalidate
  PROVE  AuthInv'
<1> DEFINE e == Head(events)
           Still(t) == \E k \in DOMAIN events' : A!Means(events'[k].class, events'[k].tok, t)
           q == [pc |-> "loop", class |-> e.class, tok |-> e.tok, keys |-> A!Keys]
<1>1. /\ events # <<>> /\ events' = Tail(events) /\ call' = A!Passed(e) /\ inval = A!Idle
      /\ UNCHANGED <<epoch, served, now>>
  BY DEF A!Invalidate
<1>2. call' \in [Call -> {A!Idle} \cup CallRow] /\ AnswerInv'
  BY <1>1, PassedKeeps
<1>3. /\ events' \in Seq(EventRow) /\ e \in EventRow
      /\ \A t : Pending(t) => A!Means(e.class, e.tok, t) \/ Still(t)
  BY <1>1, Popped
<1>4. CacheType(cache)
  BY AuthTypes DEF AuthInv
<1>5. CASE cache' = <<>> /\ inval' = inval
  <2>1. CacheType(cache')
    BY <1>5, InfraAssumption DEF CacheType
  <2>2. A!TypeOK'
    BY <1>1, <1>2, <1>3, <1>5, <2>1, AuthTypes DEF AuthInv, A!TypeOK, CacheType, CallRow, EventRow, LoopRow
  <2>3. A!StaleOnlyIfMissed'
    BY <1>5 DEF A!StaleOnlyIfMissed
  <2> QED
    BY <1>1, <1>2, <2>2, <2>3 DEF AuthInv, A!NoExpiredSession
<1>6. CASE inval' = q /\ cache' = cache
  <2>1. A!Keys \in Seq(Token) /\ \A i \in DOMAIN cache : \E k \in DOMAIN A!Keys : A!Keys[k] = cache[i].tok
    BY <1>4, KeysListed
  <2>2. q \in LoopRow /\ q.pc = "loop" /\ q.class = e.class /\ q.tok = e.tok /\ q.keys = A!Keys
    BY <1>3, <2>1 DEF LoopRow, EventRow
  <2> HIDE DEF q, e
  <2>3. q # A!Idle
    BY <2>2 DEF A!Idle
  <2>4. A!TypeOK'
    BY <1>1, <1>2, <1>3, <1>6, <2>2, AuthTypes DEF AuthInv, A!TypeOK, CacheType, CallRow, EventRow, LoopRow
  <2>5. ASSUME NEW i \in DOMAIN cache
        PROVE  \/ cache[i].ver = epoch[cache[i].tok] \/ cache[i].late \/ Still(cache[i].tok)
               \/ A!Means(q.class, q.tok, cache[i].tok) /\ \E k \in DOMAIN q.keys : q.keys[k] = cache[i].tok
    <3>1. Excused(cache[i]) /\ ~ Looped(cache[i].tok)
      BY <1>1, AuthTypes DEF AuthInv, Looped
    <3> QED
      BY <1>3, <2>1, <2>2, <3>1 DEF Excused
  <2>6. A!StaleOnlyIfMissed'
    BY <1>1, <1>6, <2>3, <2>5 DEF A!StaleOnlyIfMissed
  <2> QED
    BY <1>1, <1>2, <2>4, <2>6 DEF AuthInv, A!NoExpiredSession
<1> QED
  BY <1>5, <1>6 DEF A!Invalidate

(* The loop drops every entry the event means, as it comes by its key. *)
LEMMA RemoveKeyKeeps ==
  ASSUME AuthInv, A!RemoveKey
  PROVE  AuthInv'
<1> DEFINE t == Head(inval.keys)
           q == [inval EXCEPT !.keys = Tail(@)]
<1>1. /\ inval \in LoopRow /\ inval.keys \in Seq(Token) /\ inval.keys # <<>>
      /\ CacheType(cache) /\ UNCHANGED <<epoch, call, events, served, now>> /\ inval' = q
  BY AuthTypes DEF AuthInv, A!RemoveKey, LoopRow
<1>2. /\ Tail(inval.keys) \in Seq(Token) /\ t \in Token
      /\ \A k \in DOMAIN inval.keys :
           inval.keys[k] = t \/ (k - 1 \in DOMAIN Tail(inval.keys) /\ Tail(inval.keys)[k - 1] = inval.keys[k])
  <2>1. /\ Tail(inval.keys) \in Seq(Token) /\ t \in Token /\ t = inval.keys[1]
        /\ Len(inval.keys) \in Nat /\ DOMAIN inval.keys = 1 .. Len(inval.keys)
        /\ DOMAIN Tail(inval.keys) = 1 .. Len(inval.keys) - 1
        /\ \A k \in 1 .. Len(inval.keys) - 1 : Tail(inval.keys)[k] = inval.keys[k + 1]
    BY <1>1, HeadTailProperties
  <2> QED
    BY <2>1
<1>3. /\ q \in LoopRow /\ q.pc = "loop" /\ q.class = inval.class /\ q.tok = inval.tok
      /\ q.keys = Tail(inval.keys)
  BY <1>1, <1>2 DEF LoopRow
<1> HIDE DEF q, t
<1>4. q # A!Idle
  BY <1>3 DEF A!Idle
<1>5. \/ A!Means(inval.class, inval.tok, t) /\ cache' = A!Without(t)
      \/ ~ A!Means(inval.class, inval.tok, t) /\ cache' \in {A!Get(t), cache}
  BY DEF A!RemoveKey, t
<1>6. CacheType(cache') /\ From(cache')
  <2>1. From(cache)
    BY DEF From
  <2> QED
    BY <1>1, <1>5, <2>1, WithoutIt, Gotten
<1>7. ASSUME NEW i \in DOMAIN cache'
      PROVE  cache'[i].tok # t \/ ~ A!Means(inval.class, inval.tok, t)
  BY <1>1, <1>5, WithoutIt
<1>8. ASSUME NEW i \in DOMAIN cache'
      PROVE  \/ cache'[i].ver = epoch[cache'[i].tok] \/ cache'[i].late \/ Pending(cache'[i].tok)
             \/ A!Means(q.class, q.tok, cache'[i].tok) /\ \E k \in DOMAIN q.keys : q.keys[k] = cache'[i].tok
  <2>1. Excused(cache'[i])
    BY <1>6, AuthTypes DEF AuthInv, From
  <2> QED
    BY <1>2, <1>3, <1>7, <2>1 DEF Excused, Looped
<1>9. A!StaleOnlyIfMissed'
  BY <1>1, <1>4, <1>8 DEF A!StaleOnlyIfMissed, Pending
<1>10. A!TypeOK'
  BY <1>1, <1>3, <1>6, AuthTypes DEF AuthInv, A!TypeOK, CacheType, CallRow, EventRow, LoopRow
<1> QED
  BY <1>1, <1>9, <1>10 DEF AuthInv, AnswerInv, Pending, A!NoExpiredSession

LEMMA AuthNext == AuthInv /\ [A!Next]_authVars => AuthInv'
<1> SUFFICES ASSUME AuthInv, [A!Next]_authVars
             PROVE  AuthInv'
  OBVIOUS
<1>1. CASE A!InvalidateEnds
  <2>1. /\ inval.keys = <<>> /\ inval' = A!Idle
        /\ UNCHANGED <<cache, epoch, call, events, served, now>>
    BY <1>1 DEF A!InvalidateEnds
  <2>2. A!TypeOK'
    BY <2>1, AuthTypes DEF AuthInv, A!TypeOK, CacheType, CallRow, EventRow, LoopRow
  <2>3. \A i \in DOMAIN cache : ~ Looped(cache[i].tok)
    BY <2>1 DEF Looped
  <2>4. A!StaleOnlyIfMissed'
    BY <2>1, <2>3 DEF AuthInv, A!StaleOnlyIfMissed, Excused, Pending, Looped
  <2> QED
    BY <2>1, <2>2, <2>4 DEF AuthInv, AnswerInv, Pending, A!NoExpiredSession
<1>2. CASE A!Tick
  <2>1. /\ now < MaxClock /\ now' = now + 1 /\ UNCHANGED <<cache, epoch, call, events, inval, served>>
    BY <1>2 DEF A!Tick
  <2>2. now' \in 0 .. MaxClock
    BY <2>1, InfraAssumption, AuthTypes DEF AuthInv
  <2> QED
    BY <2>1, <2>2 DEF AuthInv, A!TypeOK, AnswerInv, A!NoExpiredSession, A!StaleOnlyIfMissed, Excused, Pending, Looped
<1>3. CASE UNCHANGED authVars
  BY <1>3 DEF authVars, AuthInv, A!TypeOK, AnswerInv, A!NoExpiredSession, A!StaleOnlyIfMissed, Excused, Pending, Looped
<1>4. ASSUME NEW c \in Call, A!Ask(c) \/ A!AskFails(c) \/ A!Add(c) \/ \E t \in Token : A!Hit(c, t) \/ A!Miss(c, t)
      PROVE  AuthInv'
  BY <1>4, AskKeeps, AddKeeps, HitKeeps, MissKeeps
<1> QED
  BY <1>1, <1>2, <1>3, <1>4, ChangeKeeps, EventLostKeeps, InvalidateKeeps, RemoveKeyKeeps DEF A!Next

-----------------------------------------------------------------------------
(* The broker's client *)

Bits == /\ exch \in BOOLEAN /\ connected \in BOOLEAN /\ wait \in BOOLEAN /\ closed \in BOOLEAN
        /\ crashed \in BOOLEAN /\ mayRun \in [Sub -> BOOLEAN] /\ missed \in [Sub -> BOOLEAN]

SubState == {"off", "check", "select", "recheck", "consume", "set", "range", "end"}

Places == /\ link \in {"nil", "up", "down"} /\ loop \in {"off", "watch", "dial"} /\ notify \in SUBSET {"conn", "chan"}
          /\ sub \in [Sub -> SubState]
          /\ ch \in [Sub -> {"none", "up", "down"}] /\ fresh \in [Sub -> {"none", "up", "down"}]
          /\ faults \in 0 .. MaxFaults

LEMMA BrokerTypes == (B!TypeOK <=> Bits /\ Places) /\ (B!TypeOK' <=> Bits' /\ Places')
<1>1. {exch, connected, wait, closed, crashed} \subseteq BOOLEAN
        <=> exch \in BOOLEAN /\ connected \in BOOLEAN /\ wait \in BOOLEAN /\ closed \in BOOLEAN /\ crashed \in BOOLEAN
  BY Zenon
<1>2. {exch', connected', wait', closed', crashed'} \subseteq BOOLEAN
        <=> exch' \in BOOLEAN /\ connected' \in BOOLEAN /\ wait' \in BOOLEAN /\ closed' \in BOOLEAN /\ crashed' \in BOOLEAN
  BY Zenon
<1> QED
  BY <1>1, <1>2, Zenon DEF B!TypeOK, Bits, Places, SubState

LEMMA BrokerStarts == B!Init => B!TypeOK
<1> SUFFICES ASSUME B!Init
             PROVE  Bits /\ Places
  BY BrokerTypes
<1>1. Bits
  BY Zenon DEF B!Init, Bits
<1>2. Places
  BY InfraAssumption DEF B!Init, Places, SubState
<1> QED
  BY <1>1, <1>2

LEMMA BrokerConnection ==
  ASSUME Bits, Places,
         B!Connect \/ B!Loop \/ B!DialFails \/ B!Close \/ B!ConnectionLost \/ B!ChannelLost
  PROVE  Bits' /\ Places'
<1>1. B!Channels(ch) \in [Sub -> {"none", "up", "down"}] /\ B!Channels(fresh) \in [Sub -> {"none", "up", "down"}]
  BY DEF B!Channels, Places
<1>2. B!Fail => faults' \in 0 .. MaxFaults
  BY InfraAssumption DEF B!Fail, Places
<1>3. Bits'
  BY Zenon DEF Bits, B!Connect, B!Loop, B!LoopEnds, B!Dial, B!Unblocked, B!NotifyClose, B!ChanNotifyClose,
       B!Notified, B!DialFails, B!Close, B!ConnectionLost, B!ChannelLost, B!subVars
<1>4. Places'
  <2>1. CASE B!Connect \/ B!Dial \/ B!LoopEnds
    BY <2>1 DEF Places, B!Connect, B!Dial, B!LoopEnds, B!subVars
  <2>2. ASSUME NEW n \in {"conn", "chan"}, B!Notified(n)
        PROVE  Places'
    BY <2>2 DEF B!Notified, Places, B!subVars
  <2>3. CASE B!DialFails \/ B!ChannelLost
    BY <1>2, <2>3 DEF Places, B!DialFails, B!ChannelLost, B!subVars
  <2>4. CASE B!Close
    BY <1>1, <2>4 DEF Places, B!Close
  <2>5. CASE B!ConnectionLost
    BY <1>1, <1>2, <2>5 DEF Places, B!ConnectionLost
  <2> QED
    BY <2>1, <2>2, <2>3, <2>4, <2>5 DEF B!Loop, B!NotifyClose, B!ChanNotifyClose
<1> QED
  BY <1>3, <1>4

LEMMA BrokerSubscription ==
  ASSUME Bits, Places, NEW s \in Sub,
         B!Subscribe(s) \/ B!Run(s) \/ B!ConsumeFails(s) \/ B!Unsubscribe(s) \/ B!ConsumerLost(s)
  PROVE  Bits' /\ Places'
<1>1. B!Fail => faults' \in 0 .. MaxFaults
  BY InfraAssumption DEF B!Fail, Places
<1>2. ASSUME NEW pc \in SubState, B!Goto(s, pc)
      PROVE  sub' \in [Sub -> SubState]
  BY <1>2 DEF B!Goto, Places
<1>3. Bits'
  <2>1. CASE B!Run(s) \/ B!ConsumeFails(s) \/ B!ConsumerLost(s)
    BY <2>1, Zenon DEF Bits, B!Run, B!Check, B!Select, B!Recheck, B!RangeEnds, B!Consume, B!SetChannel,
         B!ConsumeFails, B!ConsumerLost, B!connVars
  <2>2. CASE B!Subscribe(s)
    <3>1. mayRun' \in [Sub -> BOOLEAN]
      BY <2>2, Zenon DEF Bits, B!Subscribe
    <3> QED
      BY <2>2, <3>1, Zenon DEF Bits, B!Subscribe, B!connVars
  <2>3. CASE B!Unsubscribe(s)
    <3> DEFINE between(r) == sub[r] \in {"select", "recheck", "consume", "set"}
    <3>1. ASSUME NEW f, f \in [Sub -> BOOLEAN], NEW x \in BOOLEAN
          PROVE  [f EXCEPT ![s] = x] \in [Sub -> BOOLEAN]
      BY <3>1, Zenon
    <3>2. between(s) \in BOOLEAN
      OBVIOUS
    <3>3. mayRun' = [mayRun EXCEPT ![s] = FALSE] /\ missed' = [missed EXCEPT ![s] = between(s)]
      BY <2>3, Zenon DEF B!Unsubscribe
    <3> HIDE DEF between
    <3>4. mayRun' \in [Sub -> BOOLEAN] /\ missed' \in [Sub -> BOOLEAN]
      BY <3>1, <3>2, <3>3, Zenon DEF Bits
    <3> QED
      BY <2>3, <3>4, Zenon DEF Bits, B!Unsubscribe, B!connVars
  <2> QED
    BY <2>1, <2>2, <2>3
<1>4. Places'
  <2>1. CASE B!Subscribe(s)
    BY <1>2, <2>1 DEF Places, B!Subscribe, B!connVars, SubState
  <2>2. CASE B!Check(s) \/ B!Select(s) \/ B!Recheck(s) \/ B!RangeEnds(s)
    BY <1>2, <2>2 DEF Places, B!Check, B!Select, B!Recheck, B!RangeEnds, B!connVars, SubState
  <2>3. CASE B!Consume(s)
    BY <1>2, <2>3 DEF Places, B!Consume, B!connVars, SubState
  <2>4. CASE B!SetChannel(s)
    BY <1>2, <2>4 DEF Places, B!SetChannel, B!connVars, SubState
  <2>5. CASE B!ConsumeFails(s)
    BY <1>1, <1>2, <2>5 DEF Places, B!ConsumeFails, B!connVars, SubState
  <2>6. CASE B!Unsubscribe(s)
    BY <2>6 DEF Places, B!Unsubscribe, B!connVars
  <2>7. CASE B!ConsumerLost(s)
    BY <1>1, <2>7 DEF Places, B!ConsumerLost, B!connVars
  <2> QED
    BY <2>1, <2>2, <2>3, <2>4, <2>5, <2>6, <2>7 DEF B!Run
<1> QED
  BY <1>3, <1>4

LEMMA BrokerNext == B!TypeOK /\ [B!Next]_brokerVars => B!TypeOK'
<1> SUFFICES ASSUME Bits, Places, [B!Next]_brokerVars
             PROVE  Bits' /\ Places'
  BY BrokerTypes
<1>1. CASE UNCHANGED brokerVars
  BY <1>1 DEF Bits, Places, brokerVars
<1> QED
  BY <1>1, BrokerConnection, BrokerSubscription DEF B!Next

-----------------------------------------------------------------------------
(* The three, one of them at work. *)
Inv == AuthInv /\ RegInv /\ B!TypeOK

LEMMA InvHolds == MCSpec => []Inv
<1>1. MCInit => Inv
  BY AuthStarts, RegStarts, BrokerStarts DEF MCInit, Inv
<1>2. Inv /\ [MCNext]_vars => Inv'
  <2> SUFFICES ASSUME Inv, [MCNext]_vars
               PROVE  Inv'
    OBVIOUS
  <2>1. [A!Next]_authVars /\ [R!Next]_regVars /\ [B!Next]_brokerVars
    BY DEF MCNext, vars
  <2> QED
    BY <2>1, AuthNext, RegNext, BrokerNext DEF Inv
<1> QED
  BY <1>1, <1>2, PTL DEF MCSpec

(***************************************************************************)
(* The cache, the registry's watcher and the broker's client have their    *)
(* state well formed: the cache stays within its size with one entry for a *)
(* token, and the watcher stores no version twice.                         *)
(***************************************************************************)
THEOREM InfraTyped == MCSpec => []TypeOK
<1>1. Inv => TypeOK
  BY DEF Inv, AuthInv, RegInv, TypeOK
<1> QED
  BY <1>1, InvHolds, PTL

(***************************************************************************)
(* VerifyToken lets no expired session in, and an entry of the cache is    *)
(* out of date only while its event is on the way or in invalidateCache's  *)
(* loop, or if the event was lost or came between the question and the     *)
(* insertion: for any cache size, tokens, users, requests and events.      *)
(***************************************************************************)
THEOREM SessionsAreCurrent == MCSpec => []SessionsCurrent
<1>1. Inv => SessionsCurrent
  BY DEF Inv, AuthInv, SessionsCurrent
<1> QED
  BY <1>1, InvHolds, PTL

(***************************************************************************)
(* When the watches of services and of nodes have answered with the        *)
(* catalog as it is, the receiver of their results knows the healthy nodes *)
(* but for what a delete without nodes took along: for any nodes, versions *)
(* and watch plans, unless a plan was removed while it was sending.        *)
(***************************************************************************)
THEOREM ViewIsCatalog == MCSpec => []ViewFollows
<1>1. Inv => ViewFollows
  BY RegFollows DEF Inv
<1> QED
  BY <1>1, InvHolds, PTL

===============================================================================
