----------------------------- MODULE EnvProofs ------------------------------
(* What the ciphers return, and what the steps of the surroundings          *)
(* (failures, TCP, the KMEs) preserve.                                      *)
EXTENDS Tcp, Kme, Cipher, SequenceTheorems, TLAPS

\* A position of a text falls on a position of the key.
LEMMA PadIndexInKey ==
  ASSUME NEW n \in Nat \ {0}, NEW i \in Nat \ {0}
  PROVE  PadIndex(i, n) \in 1..n
BY SMT DEF PadIndex

\* encrypt_message gives bytes, as many as the text has.
LEMMA EncryptMessageType ==
  ASSUME NEW key \in Bytes \ {<<>>}, NEW text \in Bytes
  PROVE  /\ encrypt_message(key, text) \in Bytes
         /\ Len(encrypt_message(key, text)) = Len(text)
         /\ \A i \in 1..Len(text) :
               encrypt_message(key, text)[i]
                 = Xor(text[i], key[PadIndex(i, Len(key))])
<1>1. Len(key) \in Nat \ {0} /\ Len(text) \in Nat
  BY DEF Bytes
<1>2. ASSUME NEW i \in 1..Len(text)
      PROVE  Xor(text[i], key[PadIndex(i, Len(key))]) \in Byte
  <2>0. i \in Nat \ {0}
    BY <1>1
  <2>1. PadIndex(i, Len(key)) \in 1..Len(key)
    BY <1>1, <2>0, PadIndexInKey
  <2>2. key[PadIndex(i, Len(key))] \in Byte /\ text[i] \in Byte
    BY <2>1 DEF Bytes
  <2> QED BY <2>2, XorAssumption
<1> QED BY <1>1, <1>2 DEF encrypt_message, Bytes

\* decrypt_message with the key of encrypt_message gives the text back, and
\* so Bob reads what Alice read, however long the key is.
THEOREM EncryptionRoundTrip ==
  ASSUME NEW key \in Bytes \ {<<>>}, NEW text \in Bytes
  PROVE  decrypt_message(encrypt_message(key, text), key) = text
<1> DEFINE cipher == encrypt_message(key, text)
<1> DEFINE plain == decrypt_message(cipher, key)
<1>1. /\ cipher \in Bytes /\ Len(cipher) = Len(text)
      /\ \A i \in 1..Len(text) :
            cipher[i] = Xor(text[i], key[PadIndex(i, Len(key))])
  BY EncryptMessageType
<1>2. plain = [i \in 1..Len(text) |-> Xor(cipher[i], key[PadIndex(i, Len(key))])]
  BY <1>1 DEF decrypt_message
<1>3. ASSUME NEW i \in 1..Len(text)
      PROVE  Xor(cipher[i], key[PadIndex(i, Len(key))]) = text[i]
  <2>1. Len(key) \in Nat \ {0} /\ i \in Nat \ {0}
    BY DEF Bytes
  <2>2. PadIndex(i, Len(key)) \in 1..Len(key)
    BY <2>1, PadIndexInKey
  <2>3. key[PadIndex(i, Len(key))] \in Byte /\ text[i] \in Byte
    BY <2>2 DEF Bytes
  <2> QED BY <1>1, <2>3, XorAssumption
<1>4. text = [i \in 1..Len(text) |-> text[i]]
  BY DEF Bytes
<1>5. plain = [i \in 1..Len(text) |-> text[i]]
  BY <1>2, <1>3, Zenon
<1> QED BY <1>4, <1>5

\* The C string in a buffer without a zero is the whole of it.
LEMMA CStringWithoutZero ==
  ASSUME NEW text \in Bytes, \A i \in 1..Len(text) : text[i] # 0
  PROVE  CString(text) = text
<1> DEFINE IsLen(n) == /\ \A i \in 1..n : text[i] # 0
                       /\ n = Len(text) \/ text[n + 1] = 0
<1>1. Len(text) \in Nat
  BY DEF Bytes
<1>2. \E n \in 0..Len(text) : IsLen(n)
  BY <1>1
<1>3. strlen(text) \in 0..Len(text) /\ IsLen(strlen(text))
  BY <1>2, Zenon DEF strlen
<1>4. strlen(text) = Len(text)
  BY <1>1, <1>3
<1>5. SubSeq(text, 1, Len(text)) = text
  BY DEF Bytes
<1> QED BY <1>4, <1>5 DEF CString

\* EncryptedMessage::new gives bytes, and is its own inverse.
LEMMA NewIsAnInvolution ==
  ASSUME NEW n \in Nat, NEW key \in Bytes, Len(key) >= n,
         NEW piece \in [1..n -> Byte]
  PROVE  /\ new(key, piece) \in [1..n -> Byte]
         /\ new(key, new(key, piece)) = piece
         /\ decrypt(new(key, piece), key) = piece
<1>1. piece \in Seq(Byte) /\ Len(piece) = n
  OBVIOUS
<1>2. new(key, piece) = [i \in 1..n |-> Xor(piece[i], key[i])]
  BY <1>1 DEF new
<1>3. ASSUME NEW i \in 1..n
      PROVE  /\ Xor(piece[i], key[i]) \in Byte
             /\ Xor(Xor(piece[i], key[i]), key[i]) = piece[i]
  <2>1. piece[i] \in Byte /\ key[i] \in Byte
    BY DEF Bytes
  <2> QED BY <2>1, XorAssumption
<1>4. new(key, piece) \in [1..n -> Byte]
  BY <1>2, <1>3
<1>5. Len(new(key, piece)) = n
  BY <1>4
<1>6. [i \in 1..n |-> Xor(new(key, piece)[i], key[i])] = piece
  <2>1. \A i \in 1..n : Xor(new(key, piece)[i], key[i]) = piece[i]
    BY <1>2, <1>3
  <2>2. piece = [i \in 1..n |-> piece[i]]
    OBVIOUS
  <2> QED BY <2>1, <2>2, Zenon
<1> QED BY <1>4, <1>5, <1>6 DEF new, decrypt

-----------------------------------------------------------------------------
\* A step counts a failure within the budget, or none.
LEMMA FaultsType ==
  ASSUME FaultsTypeOK, Fault \/ NoFault
  PROVE  FaultsTypeOK'
BY MaxFaultsAssumption DEF FaultsTypeOK, Fault, NoFault

\* Taking what a read may return keeps the counters of the stream in order.
LEMMA TakeType ==
  ASSUME TcpTypeOK, NEW n \in Nat, n <= Available, Take(n)
  PROVE  TcpTypeOK'
BY DEF TcpTypeOK, Take, Available

\* So does what a write adds.
LEMMA PushType ==
  ASSUME TcpTypeOK, NEW n \in Nat, Push(n)
  PROVE  TcpTypeOK'
BY DEF TcpTypeOK, Push

\* Opening and closing sockets moves no data.
LEMMA SocketType ==
  ASSUME TcpTypeOK, Listen \/ Connect \/ CloseServer \/ CloseClient
  PROVE  TcpTypeOK'
BY DEF TcpTypeOK, Listen, Connect, CloseServer, CloseClient

\* The network delivers what was sent, or drops what had not arrived.
LEMMA NetworkType ==
  ASSUME TcpTypeOK, Arrive \/ Reset
  PROVE  TcpTypeOK'
BY DEF TcpTypeOK, Arrive, Reset, Smaller

\* enc_keys hands out n more keys, all for the peer of the caller.
LEMMA EncKeysType ==
  ASSUME KmeTypeOK, NEW caller \in Sae, NEW peer \in Sae, NEW n \in Nat,
         EncKeys(caller, peer, n)
  PROVE  /\ KmeTypeOK'
         /\ Len(issued') = Len(issued) + n
         /\ \A id \in 1..Len(issued) : issued'[id] = issued[id]
         /\ \A id \in (Len(issued) + 1)..(Len(issued) + n) :
               issued'[id] = [master |-> caller, slave |-> peer]
         /\ fetched' = fetched
<1> DEFINE Holder == [master : Sae, slave : Sae]
<1> DEFINE new_keys == [i \in 1..n |-> [master |-> caller, slave |-> peer]]
<1>1. new_keys \in Seq(Holder) /\ Len(new_keys) = n
      /\ \A i \in 1..n : new_keys[i] = [master |-> caller, slave |-> peer]
  OBVIOUS
<1>2. issued \in Seq(Holder) /\ issued' = issued \o new_keys
  BY DEF KmeTypeOK, EncKeys
<1>3. fetched' = fetched /\ fetched \subseteq 1..Len(issued)
  BY DEF KmeTypeOK, EncKeys
<1> HIDE DEF new_keys, Holder
<1>4. Len(issued) \in Nat
  BY <1>2, LenProperties
<1>5. /\ issued' \in Seq(Holder)
      /\ Len(issued') = Len(issued) + n
      /\ \A id \in 1..(Len(issued) + n) :
            issued'[id] = IF id <= Len(issued) THEN issued[id]
                                               ELSE new_keys[id - Len(issued)]
  BY <1>1, <1>2, ConcatProperties
<1>6. \A id \in 1..Len(issued) : issued'[id] = issued[id]
  BY <1>4, <1>5
<1>7. \A id \in (Len(issued) + 1)..(Len(issued) + n) :
         issued'[id] = [master |-> caller, slave |-> peer]
  BY <1>1, <1>4, <1>5
<1>8. fetched' \subseteq 1..Len(issued')
  BY <1>3, <1>4, <1>5
<1> QED BY <1>3, <1>5, <1>6, <1>7, <1>8 DEF KmeTypeOK, Holder

\* dec_keys marks one key that had been handed out.
LEMMA DecKeysType ==
  ASSUME KmeTypeOK, NEW id \in 1..Len(issued), DecKeys(id)
  PROVE  KmeTypeOK'
BY DEF KmeTypeOK, DecKeys
=============================================================================
