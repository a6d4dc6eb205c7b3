------------------------------ MODULE KeyRequest ------------------------------
(***************************************************************************)
(* What a program that asks a KME for a key may count on: the request is   *)
(* settled once, with a key and its identifier as the KME gave them        *)
(* together, or with neither; and it does get settled, unless the KME      *)
(* never answers: then the program waits for ever.                         *)
(***************************************************************************)
CONSTANTS Pending, Neither,
          Silence,              \* the KME has stopped answering
          PairsIn(_)            \* the key and identifier in an answer, if any

VARIABLES answer,       \* what the KME answers
          outcome       \* what the program has got

vars == <<answer, outcome>>

Init == outcome = Pending

Settle ==
  /\ outcome = Pending
  /\ outcome' \in PairsIn(answer) \cup {Neither}
  /\ UNCHANGED answer

StaySilent ==
  /\ outcome = Pending
  /\ outcome' = Silence
  /\ UNCHANGED answer

Next == Settle \/ StaySilent

Spec == Init /\ [][Next]_vars /\ <>(outcome # Pending)
=============================================================================
