---------------------------- MODULE MCPayloadText ----------------------------
(* Small instances of PayloadText: numbers of one, two and three digits.   *)
EXTENDS PayloadText

MCBytes == {0, 9, 10, 99, 100, 207, 255}
MCCiphertexts ==
  UNION {[1..n -> MCBytes] : n \in 0..2} \cup {<<255, 100, 255>>, <<0, 0, 0, 0>>}
=============================================================================
