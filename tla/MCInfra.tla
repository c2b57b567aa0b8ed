-------------------------------- MODULE MCInfra --------------------------------
(***************************************************************************)
(* The services below the chat: authorization, registry and broker.  They  *)
(* share no state, so a behaviour is one of the three components at work   *)
(* and the two others at rest.                                             *)
(***************************************************************************)
EXTENDS Naturals

CONSTANTS
  Token, Owner, Ends, Size, Expiry, Call, MaxClock, MaxEpoch,
  Node, Version, MaxPlan, MaxChange,
  Sub, MaxFaults

(* The clock starts at 1; expires_at is a date or 0. *)
ASSUME InfraAssumption ==
  /\ MaxClock \in Nat \ {0}
  /\ Size \in Nat /\ Expiry \in Nat /\ MaxEpoch \in Nat /\ Ends \in [Token -> Nat]
  /\ MaxPlan \in Nat /\ MaxChange \in Nat /\ MaxFaults \in Nat

VARIABLES
  part,
  cache, epoch, call, events, inval, served, now,
  version, health, index, listed, handle, plan, made, hand, services, view, dropped, late,
  link, exch, connected, wait, closed, loop, notify, sub, mayRun, ch, fresh, missed, crashed, faults

A == INSTANCE AuthCache
R == INSTANCE Registry
B == INSTANCE Broker

authVars   == <<cache, epoch, call, events, inval, served, now>>
regVars    == <<version, health, index, listed, handle, plan, made, hand, services, view, dropped, late>>
brokerVars == <<link, exch, connected, wait, closed, loop, notify, sub, mayRun, ch, fresh, missed, crashed, faults>>
vars       == <<part, authVars, regVars, brokerVars>>

OneOwner  == [t \in Token |-> 1]
ShortLong == [t \in Token |-> IF t = "short" THEN 2 ELSE 3]

(* One version for all nodes, or one for each. *)
Versions == {[n \in Node |-> "v1"], [n \in Node |-> IF n = "n1" THEN "v1" ELSE "v2"]}

MCInit ==
  /\ part \in {"auth", "registry", "broker"}
  /\ A!Init /\ R!Init /\ B!Init
  /\ version \in Versions
  /\ part # "registry" => version = [n \in Node |-> "v1"]

MCNext ==
  \/ part = "auth"     /\ A!Next /\ UNCHANGED <<part, regVars, brokerVars>>
  \/ part = "registry" /\ R!Next /\ UNCHANGED <<part, authVars, brokerVars>>
  \/ part = "broker"   /\ B!Next /\ UNCHANGED <<part, authVars, regVars>>

MCSpec == MCInit /\ [][MCNext]_vars /\ B!Fairness

(* Each of the three has its state well formed. *)
TypeOK == A!TypeOK /\ R!TypeOK /\ B!TypeOK

(* No expired session is let in out of the cache of VerifyToken, and a changed one outlives its *)
(* event in the cache only if the event missed it.                                             *)
SessionsCurrent == A!NoExpiredSession /\ A!StaleOnlyIfMissed

(* With the catalog at rest, the receiver of the watcher's results knows the healthy nodes. *)
ViewFollows == R!ViewFollows

(* A subscription consumes again after losses, and Unsubscribe ends its goroutine. *)
SubscriptionsFollow == B!Resumes /\ B!UnsubscribeEnds
================================================================================
