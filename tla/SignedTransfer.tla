--------------------------- MODULE SignedTransfer ---------------------------
(***************************************************************************)
(* What the C demo promises its user, seen from outside: Alice holds a     *)
(* text and offers it; Bob settles once and for all, either by accepting,  *)
(* which shows exactly Alice's text, or by showing nothing.                *)
(***************************************************************************)
CONSTANT Texts

VARIABLES text, stage, output

vars == <<text, stage, output>>

Init == /\ text \in Texts
        /\ stage = "preparing"
        /\ output = <<>>

Offer  == stage = "preparing" /\ stage' = "offered" /\ UNCHANGED <<text, output>>
Accept == /\ stage = "offered" /\ stage' = "accepted"
          /\ output' = text
          /\ UNCHANGED text
Refuse == /\ stage \in {"preparing", "offered"} /\ stage' = "refused"
          /\ UNCHANGED <<text, output>>

Next == Offer \/ Accept \/ Refuse
Spec == Init /\ [][Next]_vars
=============================================================================
