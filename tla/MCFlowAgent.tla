---------------------------- MODULE MCFlowAgent -----------------------------
(* Instances of FlowAgent for TLC. *)
EXTENDS FlowAgent, TLC

Symmetry == Permutations(Obj) \cup Permutations(Token) \cup Permutations(Node)
              \cup Permutations(Sender) \cup Permutations(Waiter)
=============================================================================
