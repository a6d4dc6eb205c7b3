----------------------------- MODULE KmeRequest -----------------------------
(***************************************************************************)
(* connection_qkd, get_key and get_key_id together implement KeyRequest.   *)
(***************************************************************************)
EXTENDS KmeAnswer

(* What the whole of an answer spells, as it left the KME.                 *)
Meant == INSTANCE JsonMeaning
FieldsMeant(text, name) == Meant!FieldsMeant(CString(text) \o <<0>>, FALSE, name)
PairsMeant(text) ==
  {<<key, id>> : key \in FieldsMeant(text, KeyName), id \in FieldsMeant(text, KeyIdName)}

(* An answer that came whole is used unless it lacks one of the two or     *)
(* memory runs out: pieces of any size are put together right, and the     *)
(* first look-up leaves the answer as it was for the second.               *)
NothingMissed ==
  Len(found) = 2 /\ received > 0 /\ ~refused =>
    /\ found[1] = NULL => FieldsMeant(body, KeyName) = {}
    /\ found[2] = NULL => FieldsMeant(body, KeyIdName) = {}

-----------------------------------------------------------------------------
(* Seen from main, all this is one request that is settled once with the   *)
(* key and the identifier of the first key in the KME's whole answer, or   *)
(* with neither: nothing is taken from an answer that was cut, from a      *)
(* block nothing was written to, or from two keys (alice.c:74-80).  It is  *)
(* settled in the end unless the KME falls silent, for curl is given no    *)
(* timeout (connection_qkd.c:59).                                          *)
None    == <<NULL>>
NoReply == <<NULL, NULL>>
Outcome ==
  IF Unanswered THEN NoReply
  ELSE IF ~Settled THEN <<>>
  ELSE IF memory = Client!NoBlock \/ NULL \in {found[1], found[2]} THEN None
  ELSE <<Meant!Decoded(found[1]), Meant!Decoded(found[2])>>
Request ==
  INSTANCE KeyRequest WITH Pending <- <<>>, Neither <- None, Silence <- NoReply,
                           PairsIn <- PairsMeant,
                           answer <- body, outcome <- Outcome
ImplementsRequest == Request!Spec
=============================================================================
