---------------------------- MODULE MCDelivery ----------------------------
(***************************************************************************)
(* Delivery and ReadMark for TLC.  They share no state, so a behaviour is  *)
(* one of the one or of the other.                                         *)
(***************************************************************************)
EXTENDS Delivery, TLC

CONSTANTS MaxClock, MaxSent

(* The clock starts at 1. *)
ASSUME ReadAssumption == MaxClock \in Nat \ {0} /\ MaxSent \in Nat

VARIABLES part, seen, told, sent, req, clock

rvars == <<seen, told, sent, req, clock>>

R == INSTANCE ReadMark WITH Req <- Job

MCInit == Init /\ R!Init /\ part \in {"delivery", "read"}

MCNext == \/ part = "delivery" /\ Next /\ UNCHANGED <<part, rvars>>
          \/ part = "read" /\ R!Next /\ UNCHANGED <<part, vars>>

MCSpec == MCInit /\ [][MCNext]_<<vars, rvars, part>>

Symmetry == Permutations(Job)

(* Both have their state well formed. *)
TypesOK == TypeOK /\ R!TypeOK

(* The date until which a member has read is set back only by a message of his, dated before its upload. *)
ReadNeverBack == R!ReadNeverBack
===========================================================================
