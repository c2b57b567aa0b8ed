------------------------------- MODULE Registry -------------------------------
(***************************************************************************)
(* The service registry over Consul: service/registry/consul.  One service *)
(* with nodes of several versions: the nodes register with a time to live, *)
(* Consul lets them expire, and a watcher turns the catalog into a stream  *)
(* of create, update and delete results.  Two watch plans work at a time:  *)
(* one on the list of services (handle), one on the nodes of the service   *)
(* (serviceHandler); they share cw.services under a lock that is let go    *)
(* between the copy, the results and the store.  The receiver of the       *)
(* results is the client's registry cache (external): it adds the nodes of *)
(* a create or an update, removes those of a delete, and forgets the whole *)
(* service on a delete without nodes.                                      *)
(***************************************************************************)
EXTENDS Naturals

CONSTANTS
  Node,
  Version,
  MaxPlan,     \* bound on the watch plans of the service
  MaxChange    \* bound on the changes of the catalog

VARIABLES
  version,     \* version[n]: the version of the program at node n
  health,      \* health[n]: the entry of n in the catalog
  index,       \* Consul's index of the catalog
  listed,      \* the index that the watch of services has answered with
  handle,      \* handle's state
  plan,        \* cw.watchers: the watch plan of the service, 0: none
  made,        \* how many plans there were
  hand,        \* hand[p]: serviceHandler of plan p
  services,    \* cw.services: what the watcher believes is registered
  view,        \* the nodes the receiver of the results knows of
  dropped,     \* nodes the receiver forgot on a delete that named another version
  late         \* a removed plan was still sending results

regVars == <<version, health, index, listed, handle, plan, made, hand, services, view, dropped, late>>

Release == [v : Version, nodes : SUBSET Node]     \* registry.Service of one version
Waiting == [pc |-> "wait", seen |-> 0, new |-> {}, old |-> {}, todo |-> {}]

TypeOK ==
  /\ version \in [Node -> Version]
  /\ health \in [Node -> {"out", "critical", "passing"}]
  /\ index \in 0 .. MaxChange /\ listed \in 0 .. MaxChange
  /\ handle \in {"idle", "stop"}
  /\ plan \in 0 .. MaxPlan /\ made \in 0 .. MaxPlan
  /\ hand \in [1 .. MaxPlan ->
       [pc : {"wait", "copy", "send", "old"}, seen : 0 .. MaxChange,
        new : SUBSET Release, old : SUBSET Release, todo : SUBSET Version]]
  /\ services \in SUBSET Release
  /\ \A a, b \in services : a.v = b.v => a = b
  /\ view \in SUBSET Node /\ dropped \in SUBSET Node /\ late \in BOOLEAN

Init ==
  /\ version \in [Node -> Version]
  /\ health = [n \in Node |-> "out"]
  /\ index = 0 /\ listed = 0 /\ handle = "idle" /\ plan = 0 /\ made = 0
  /\ hand = [p \in 1 .. MaxPlan |-> Waiting]
  /\ services = {} /\ view = {} /\ dropped = {} /\ late = FALSE
-----------------------------------------------------------------------------
(* Registration: consul.go *)

Set(n, h) ==
  /\ index < MaxChange
  /\ index' = index + 1
  /\ health' = [health EXCEPT ![n] = h]
  /\ UNCHANGED <<version, listed, handle, plan, made, hand, services, view, dropped, late>>

(* Register of a node Consul does not know, whatever the hash kept of it: the TTL check is critical at first. *)
Register(n) == health[n] = "out" /\ Set(n, "critical")

(* PassTTL, the end of Register and of every later one. *)
PassTTL(n) == health[n] = "critical" /\ Set(n, "passing")

Deregister(n) == health[n] # "out" /\ Set(n, "out")

(* Consul: the time to live has passed, then DeregisterCriticalServiceAfter (external). *)
Expire(n) == health[n] = "passing" /\ Set(n, "critical")
-----------------------------------------------------------------------------
(* Faulty variant: a diff that does not look for the nodes that are gone. *)
NoneGone(p, v) == {}
-----------------------------------------------------------------------------
(* The watch of the list of services: handle *)

Known == {n \in Node : health[n] # "out"}

(* The service is new: a plan for it. *)
HandleNew ==
  /\ handle = "idle" /\ listed # index
  /\ Known # {} /\ plan = 0 /\ made < MaxPlan
  /\ made' = made + 1 /\ plan' = made + 1
  /\ listed' = index
  /\ UNCHANGED <<version, health, index, handle, hand, services, view, dropped, late>>

HandleSame ==
  /\ handle = "idle" /\ listed # index
  /\ (Known # {}) = (plan # 0)
  /\ listed' = index
  /\ services' = IF Known = {} THEN {} ELSE services
  /\ UNCHANGED <<version, health, index, handle, plan, made, hand, view, dropped, late>>

(* The service is gone: it is deleted from cw.services, and then its plan is stopped. *)
HandleGone ==
  /\ handle = "idle" /\ listed # index
  /\ Known = {} /\ plan # 0
  /\ listed' = index /\ handle' = "stop"
  /\ services' = {}
  /\ UNCHANGED <<version, health, index, plan, made, hand, view, dropped, late>>

(* The deletes of what was in cw.services end in one without nodes. *)
HandleStop ==
  /\ handle = "stop" /\ handle' = "idle"
  /\ view' = {} /\ dropped' = {}
  /\ late' = (late \/ hand[plan].pc # "wait")
  /\ plan' = 0
  /\ UNCHANGED <<version, health, index, listed, made, hand, services>>
-----------------------------------------------------------------------------
(* The watch of the service's nodes: serviceHandler *)

(* A version all of whose nodes are critical is there, without nodes. *)
Entries ==
  {[v |-> w, nodes |-> {n \in Known : version[n] = w /\ health[n] # "critical"}] :
     w \in {version[n] : n \in Known}}

(* An answer without entries has no service name, and changes nothing. *)
Fetch(p) ==
  /\ plan = p /\ hand[p].pc = "wait" /\ hand[p].seen # index
  /\ hand' = [hand EXCEPT ![p].seen = index, ![p].new = Entries,
                          ![p].pc = IF Entries = {} THEN "wait" ELSE "copy"]
  /\ UNCHANGED <<version, health, index, listed, handle, plan, made, services, view, dropped, late>>

Copy(p) ==
  /\ hand[p].pc = "copy"
  /\ hand' = [hand EXCEPT ![p].pc = "send", ![p].old = services,
                          ![p].todo = {r.v : r \in hand[p].new}]
  /\ UNCHANGED <<version, health, index, listed, handle, plan, made, services, view, dropped, late>>

NodesOf(releases, v) == UNION {r.nodes : r \in {s \in releases : s.v = v}}

Gone(p, v) == NodesOf(hand[p].old, v) \ NodesOf(hand[p].new, v)

(* The delete of the nodes of a version that are gone, then its create or update. *)
SendNew(p, v) ==
  /\ hand[p].pc = "send" /\ v \in hand[p].todo
  /\ view' = (view \ Gone(p, v)) \cup NodesOf(hand[p].new, v)
  /\ dropped' = dropped \ NodesOf(hand[p].new, v)
  /\ hand' = [hand EXCEPT ![p].todo = @ \ {v}]
  /\ UNCHANGED <<version, health, index, listed, handle, plan, made, services, late>>

Rest(p) == {r.v : r \in hand[p].old} \ {r.v : r \in hand[p].new}

SentNew(p) ==
  /\ hand[p].pc = "send" /\ hand[p].todo = {}
  /\ hand' = [hand EXCEPT ![p].pc = "old", ![p].todo = Rest(p)]
  /\ UNCHANGED <<version, health, index, listed, handle, plan, made, services, view, dropped, late>>

(* The delete of a version that is not there any more; without nodes it reads as the whole service. *)
SendOld(p, v) ==
  LET nodes == NodesOf(hand[p].old, v) IN
  /\ hand[p].pc = "old" /\ v \in hand[p].todo
  /\ IF nodes = {} THEN view' = {} /\ dropped' = dropped \cup view
                   ELSE view' = view \ nodes /\ dropped' = dropped \ nodes
  /\ hand' = [hand EXCEPT ![p].todo = @ \ {v}]
  /\ UNCHANGED <<version, health, index, listed, handle, plan, made, services, late>>

Store(p) ==
  /\ hand[p].pc = "old" /\ hand[p].todo = {}
  /\ services' = hand[p].new
  /\ hand' = [hand EXCEPT ![p].pc = "wait", ![p].new = {}, ![p].old = {}]
  /\ UNCHANGED <<version, health, index, listed, handle, plan, made, view, dropped, late>>

Next ==
  \/ \E n \in Node : Register(n) \/ PassTTL(n) \/ Deregister(n) \/ Expire(n)
  \/ HandleNew \/ HandleSame \/ HandleGone \/ HandleStop
  \/ \E p \in 1 .. MaxPlan :
       \/ Fetch(p) \/ Copy(p) \/ SentNew(p) \/ Store(p)
       \/ \E v \in Version : SendNew(p, v) \/ SendOld(p, v)

Spec == Init /\ [][Next]_regVars
-----------------------------------------------------------------------------
Live == {n \in Node : health[n] = "passing"}

(* Both watches have answered with the catalog as it is, and all is handled. *)
Quiet ==
  /\ listed = index /\ handle = "idle"
  /\ plan # 0 => hand[plan].seen = index
  /\ \A p \in 1 .. MaxPlan : hand[p].pc = "wait"

(***************************************************************************)
(* Once the catalog is at rest the receiver knows exactly the healthy      *)
(* nodes, whatever the two watches interleaved: no node it keeps calling   *)
(* in vain, none it misses.  There are two ways out of it, and these only: *)
(* a plan that is still sending when it is removed, and the delete of a    *)
(* version without nodes, which takes the nodes of other versions along    *)
(* until their next update.                                                *)
(***************************************************************************)
ViewFollows == Quiet /\ ~ late => view = Live \ dropped
===============================================================================
