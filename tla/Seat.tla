-------------------------------- MODULE Seat --------------------------------
(***************************************************************************)
(* What chat.invite and chat.channel promise about one token, whatever     *)
(* handlers run: it is offered once, and taken at most once.  Taking it    *)
(* may come after it was withdrawn, because JoinConversation reads the     *)
(* invite before its transaction; once left it is never taken again.       *)
(***************************************************************************)
CONSTANT Token

VARIABLE seat   \* seat[t]: how far token t has come

Init == seat = [t \in Token |-> "none"]

Move(t, from, to) == /\ seat[t] \in from
                     /\ seat' = [seat EXCEPT ![t] = to]

Offer(t) == Move(t, {"none"}, "offered")
Take(t)  == Move(t, {"offered", "withdrawn"}, "taken")

(* One statement may withdraw and empty many seats. *)
Vacated(s) == CASE s = "offered" -> "withdrawn"
                [] s = "taken"   -> "left"
                [] OTHER         -> s

Vacate(S) == seat' = [t \in Token |-> IF t \in S THEN Vacated(seat[t]) ELSE seat[t]]

Next == \/ \E t \in Token : Offer(t) \/ Take(t)
        \/ \E S \in SUBSET Token : Vacate(S)

Spec == Init /\ [][Next]_seat
=============================================================================
