-------------------------------- MODULE Kme ---------------------------------
(***************************************************************************)
(* The key management entities behind qukaydee.com, outside the            *)
(* repository, as the programs use them: the master asks its KME for new   *)
(* keys (enc_keys), the slave asks the other KME for the key with an       *)
(* identifier it was told (dec_keys).  A KME knows who is asking from the  *)
(* client certificate and who the peer is from the URL, and hands a key to *)
(* the slave once.                                                         *)
(***************************************************************************)
EXTENDS Cipher

CONSTANT Keys           \* the keys the link produces, in order; ids are indices

ASSUME KeysAssumption == Keys \in Seq(Bytes \ {<<>>})

Sae == {1, 2}

VARIABLES issued,       \* for each key handed out so far, to whom and for whom
          fetched       \* ids the slave has collected

kmeVars == <<issued, fetched>>

KmeInit   == issued = <<>> /\ fetched = {}
KmeTypeOK == /\ issued \in Seq([master : Sae, slave : Sae])
             /\ fetched \subseteq 1..Len(issued)

\* The ids the next n keys would get, and whether the link has that many.
CanIssue(n) == Len(issued) + n <= Len(Keys)
EncKeys(caller, peer, n) ==
  /\ issued' = issued \o [i \in 1..n |-> [master |-> caller, slave |-> peer]]
  /\ UNCHANGED fetched

CanFetch(caller, peer, id) ==
  /\ id \in 1..Len(issued) /\ id \notin fetched
  /\ issued[id] = [master |-> peer, slave |-> caller]
DecKeys(id) == fetched' = fetched \cup {id} /\ UNCHANGED issued
=============================================================================
