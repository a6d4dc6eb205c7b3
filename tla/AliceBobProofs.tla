--------------------------- MODULE AliceBobProofs ---------------------------
(* Proofs about AliceBob, for every file, key, length and fault budget.    *)
EXTENDS AliceBob, EnvProofs

-----------------------------------------------------------------------------
(* Whatever fails. *)

\* No key has been handed out while Alice has not asked for one, so the key
\* she encrypts with is one of those the link produces.
NoKeyBeforeAsking == aPc \in {"read", "keys"} => issued = <<>>

\* The signature that travels is Alice's signature of the file; what a damaged
\* buffer may hold in its place is none.
SignatureIsOfTheFile ==
  /\ payload.sign = sign(file, Ctx)
  /\ seen.sign \in {sign(file, Ctx), NoSignature}

SafetyInv == TypeOK /\ NoKeyBeforeAsking /\ SignatureIsOfTheFile /\ VerifiedIsTheFile

-----------------------------------------------------------------------------
(* In a run in which nothing failed. *)

\* What the code needs of its surroundings: the header is not split, a
\* signature is longer than a public key, and C strings can hold the files.
HonestSetting ==
  /\ MinSegment >= HeaderLen
  /\ SigBytes >= PkBytes
  /\ \A text \in Files : \A i \in 1..Len(text) : text[i] # 0

\* How far Alice is fixes how much she sent, and the link.
AliceProgress ==
  /\ aPc \notin {"exit1", "killed", "unanswered"}
  /\ aPc \in {"read", "keys", "connect"} => link = "none"
  /\ aPc \in {"header", "payload"} => link = "open"
  /\ aPc = "close" => link \in {"open", "reset"}
  /\ aPc = "exit0" => link \in {"closed", "reset"}
  /\ aPc \in {"read", "keys", "connect", "header"} => sent = 0
  /\ aPc = "payload" => sent \in HeaderLen..(HeaderLen + PayloadLen - 1)
  /\ aPc \in {"close", "exit0"} => sent = HeaderLen + PayloadLen

\* How far Bob is fixes how much he read, and what he fetched.
BobProgress ==
  /\ bPc \notin {"exit1", "killed", "unanswered"}
  /\ link = "reset" => bPc = "exit0"
  /\ bPc \in {"listen", "accept", "header"} => taken = 0 /\ total_read = 0
  /\ bPc = "payload" => taken = HeaderLen + total_read
  /\ bPc \in {"fetch", "verify", "exit0"} => taken = HeaderLen + PayloadLen
  /\ bPc \in {"fetch", "verify"} => seen = payload /\ total_read = PayloadLen
  /\ bPc \notin {"verify", "exit0"} => fetched = {}
  /\ bPc = "exit0" => verdict = "verified"

\* The key that encrypted the payload is the one Bob is entitled to.
KeyIsForBob ==
  aPc \notin {"read", "keys"} =>
    /\ Len(issued) = 2
    /\ issued[1] = [master |-> 1, slave |-> 2]
    /\ payload = build_json_payload(1, encrypt_message(Keys[1], file),
                                    sign(file, Ctx))

HonestInv ==
  faults = 0 =>
    /\ AliceProgress /\ BobProgress /\ KeyIsForBob
    /\ arrived = 0 \/ arrived >= HeaderLen

-----------------------------------------------------------------------------
\* A text that passes verify is the text that was signed.
LEMMA VerifiedTextWasSigned ==
  ASSUME NEW text, NEW pk, NEW msg, NEW ctx, NEW other,
         verify(sign(msg, ctx), text, other, pk)
  PROVE  CString(text) = msg
BY DEF verify, sign

\* What a damaged buffer holds in the place of a signature verifies nothing.
LEMMA NoSignatureVerifiesNothing ==
  ASSUME NEW text, NEW pk, NEW ctx
  PROVE  ~verify(NoSignature, text, ctx, pk)
<1>1. PkBytes \in Nat \ {0}
  BY AliceAssumption
<1>2. [i \in 1..PkBytes |-> pk[i]] # <<>>
  BY <1>1
<1> QED BY <1>2 DEF verify, NoSignature

-----------------------------------------------------------------------------
(* Proof of the safety invariant. *)

\* The two programs' own part of TypeOK.
ProgramsTypeOK ==
  /\ aPc \in {"read", "keys", "connect", "header", "payload", "close",
              "exit0", "exit1", "killed", "unanswered"}
  /\ file \in Files
  /\ payload \in Payload
  /\ bPc \in {"listen", "accept", "header", "payload", "fetch", "verify",
              "exit0", "exit1", "killed", "unanswered"}
  /\ total_read \in 0..PayloadLen
  /\ seen \in Payload
  /\ verdict \in {"none", "verified", "incorrect"}
  /\ shown \in Bytes

LEMMA TypeOKParts ==
  /\ TypeOK <=> FaultsTypeOK /\ TcpTypeOK /\ KmeTypeOK /\ ProgramsTypeOK
  /\ TypeOK' <=> FaultsTypeOK' /\ TcpTypeOK' /\ KmeTypeOK' /\ ProgramsTypeOK'
BY Zenon DEF TypeOK, ProgramsTypeOK

\* What Alice builds has the type of a payload and carries her signature.
LEMMA PayloadType ==
  ASSUME NEW id \in Nat, NEW text \in Bytes, NEW cipher \in Bytes
  PROVE  /\ build_json_payload(id, cipher, sign(text, Ctx)) \in Payload
         /\ build_json_payload(id, cipher, sign(text, Ctx)).sign = sign(text, Ctx)
<1>1. sign(text, Ctx) \in Signature /\ sign(text, Ctx).ctx = Ctx
  BY DEF sign, Signature
<1> HIDE DEF sign
<1> QED BY <1>1 DEF build_json_payload, Payload

\* The beginning of a sequence.
LEMMA BeginningType ==
  ASSUME NEW S, NEW s \in Seq(S), NEW k \in 0..Len(s)
  PROVE  SubSeq(s, 1, k) \in Seq(S)
<1>1. Len(s) \in Nat /\ \A i \in 1..Len(s) : s[i] \in S
  OBVIOUS
<1>2. \A i \in 1..k : s[i] \in S
  BY <1>1
<1> QED BY <1>2, SubSeqProperties

\* A buffer that was never filled reads as a payload with another ciphertext.
LEMMA DamagedType ==
  ASSUME NEW p \in Payload, NEW q \in Damaged(p)
  PROVE  q \in Payload /\ q.sign \in {p.sign, NoSignature}
<1>1. PICK f \in 1..5, c \in Remains \cup CutCiphertexts(p) : q = CutAt(f, p, c)
  BY DEF Damaged
<1>2. c \in Bytes
  <2>1. CASE c \in Remains
    BY <2>1, BobAssumption
  <2>2. CASE c \in CutCiphertexts(p)
    <3>1. PICK k \in 0..Len(p.ciphertext), r \in Remains : c = CutBehind(k, p.ciphertext, r)
      BY <2>2 DEF CutCiphertexts
    <3>2. p.ciphertext \in Seq(Byte) /\ r \in Seq(Byte)
      BY BobAssumption DEF Payload, Bytes
    <3>3. PICK head : head = SubSeq(p.ciphertext, 1, k)
      OBVIOUS
    <3>4. head \in Seq(Byte)
      BY <3>2, <3>3, BeginningType
    <3>5. head \o r \in Seq(Byte)
      BY <3>2, <3>4
    <3> QED BY <3>1, <3>3, <3>5, Zenon DEF CutBehind, Bytes
  <2> QED BY <1>1, <2>1, <2>2
<1>3. /\ p.key_ID \in Nat /\ p.ctx \in {Ctx, "heap"} /\ p.sign \in Signature
      /\ p.pk \in {binary_to_hex(Pk, SigBytes), NoPk}
  BY DEF Payload
<1> QED BY <1>1, <1>2, <1>3 DEF CutAt, Payload, Signature, NoKeyId

\* The invariant holds at the start.
LEMMA SafetyInit == Init => SafetyInv
<1> SUFFICES ASSUME Init PROVE SafetyInv
  OBVIOUS
<1> USE DEF Init
<1>0. FaultsTypeOK /\ TcpTypeOK
  <2>1. FaultsTypeOK
    BY MaxFaultsAssumption DEF FaultsInit, FaultsTypeOK
  <2>2. listening \in BOOLEAN
    BY Zenon DEF TcpInit
  <2>3. TcpTypeOK
    BY <2>2 DEF TcpInit, TcpTypeOK
  <2> QED BY <2>1, <2>3
<1>1. KmeTypeOK
  BY EmptySeq DEF KmeInit, KmeTypeOK
<1>2. file \in Files /\ file \in Bytes /\ <<>> \in Bytes
  BY AliceAssumption DEF AliceInit, Bytes
<1>3. payload \in Payload /\ payload.sign = sign(file, Ctx)
  BY <1>2, PayloadType DEF AliceInit
<1>4. ProgramsTypeOK
  BY <1>2, <1>3, AliceAssumption DEF ProgramsTypeOK, AliceInit, BobInit
<1>5. SignatureIsOfTheFile
  BY <1>3 DEF SignatureIsOfTheFile, BobInit
<1>6. NoKeyBeforeAsking /\ VerifiedIsTheFile
  BY DEF NoKeyBeforeAsking, KmeInit, VerifiedIsTheFile, BobInit
<1> QED BY <1>0, <1>1, <1>4, <1>5, <1>6, TypeOKParts DEF SafetyInv

\* A step of Alice's.
LEMMA SafetyAlice == SafetyInv /\ AliceNext => SafetyInv'
<1> SUFFICES ASSUME SafetyInv, AliceNext PROVE SafetyInv'
  OBVIOUS
<1> USE DEF SafetyInv
<1>0. /\ FaultsTypeOK /\ TcpTypeOK /\ KmeTypeOK /\ ProgramsTypeOK
      /\ UNCHANGED <<bPc, total_read, seen, verdict, shown>>
  BY TypeOKParts DEF AliceNext, bobVars
<1>1. ASSUME UNCHANGED <<file, payload, issued, fetched>>, TcpTypeOK',
             Fault \/ NoFault, aPc' # "read" , aPc' = "keys" => aPc = "read",
             aPc' \in {"read", "keys", "connect", "header", "payload", "close",
                       "exit0", "exit1", "killed", "unanswered"}
      PROVE  SafetyInv'
  <2>1. FaultsTypeOK' /\ TcpTypeOK'
    BY <1>0, <1>1, FaultsType
  <2>2. KmeTypeOK'
    BY <1>0, <1>1 DEF KmeTypeOK
  <2>3. ProgramsTypeOK'
    BY <1>0, <1>1 DEF ProgramsTypeOK
  <2>4. NoKeyBeforeAsking'
    BY <1>1 DEF NoKeyBeforeAsking
  <2>5. SignatureIsOfTheFile'
    BY <1>0, <1>1 DEF SignatureIsOfTheFile, sign
  <2>6. VerifiedIsTheFile'
    BY <1>0, <1>1 DEF VerifiedIsTheFile
  <2> QED BY <2>1, <2>2, <2>3, <2>4, <2>5, <2>6, TypeOKParts
<1>2. CASE AliceReadFile
  <2>1. TcpTypeOK'
    BY <1>0, <1>2 DEF AliceReadFile, tcpVars, TcpTypeOK
  <2> QED BY <1>0, <1>1, <1>2, <2>1 DEF AliceReadFile, kmeVars
<1>3. CASE AliceGetKeyAndEncrypt
  <2> DEFINE id == Len(issued) + 1
  <2>1. issued = <<>> /\ id = 1
    BY <1>3 DEF AliceGetKeyAndEncrypt, NoKeyBeforeAsking
  <2>2. file \in Bytes /\ file' = file
    BY <1>0, <1>3, AliceAssumption DEF ProgramsTypeOK, AliceGetKeyAndEncrypt
  <2>3. Keys[1] \in Bytes \ {<<>>}
    BY KeysAssumption, AliceAssumption
  <2>4. payload' \in Payload /\ payload'.sign = sign(file, Ctx)
    <3>1. CASE UNCHANGED payload
      BY <1>0, <3>1 DEF ProgramsTypeOK, SignatureIsOfTheFile
    <3>2. CASE payload' = build_json_payload(
                             id, encrypt_message(Keys[id], file), sign(file, Ctx))
      BY <2>1, <2>2, <2>3, <3>2, EncryptMessageType, PayloadType
    <3> QED BY <1>3, <3>1, <3>2 DEF AliceGetKeyAndEncrypt
  <2>5. FaultsTypeOK' /\ aPc' \in {"connect", "exit0", "exit1", "unanswered"}
    BY <1>0, <1>3, FaultsType DEF AliceGetKeyAndEncrypt
  <2>6. TcpTypeOK'
    BY <1>0, <1>3 DEF AliceGetKeyAndEncrypt, tcpVars, TcpTypeOK
  <2>7. KmeTypeOK'
    <3>1. CASE EncKeys(URL_GETKEY.own, URL_GETKEY.other, 2)
      BY <1>0, <3>1, EncKeysType DEF Sae, URL_GETKEY
    <3>2. CASE UNCHANGED kmeVars
      BY <1>0, <3>2 DEF kmeVars, KmeTypeOK
    <3> QED BY <1>3, <3>1, <3>2 DEF AliceGetKeyAndEncrypt
  <2>8. ProgramsTypeOK'
    BY <1>0, <2>2, <2>4, <2>5 DEF ProgramsTypeOK
  <2>9. NoKeyBeforeAsking'
    BY <2>5 DEF NoKeyBeforeAsking
  <2>10. SignatureIsOfTheFile'
    BY <1>0, <2>2, <2>4 DEF SignatureIsOfTheFile, sign
  <2>11. VerifiedIsTheFile'
    BY <1>0, <2>2 DEF VerifiedIsTheFile
  <2> QED BY <2>5, <2>6, <2>7, <2>8, <2>9, <2>10, <2>11, TypeOKParts
<1>4. CASE AliceConnect
  BY <1>0, <1>1, <1>4, SocketType DEF AliceConnect, kmeVars
<1>5. CASE AliceSendHeader
  <2>1. TcpTypeOK'
    BY <1>0, <1>5, PushType
    DEF AliceSendHeader, SendLost, HeaderLen, tcpVars, TcpTypeOK
  <2> QED BY <1>0, <1>1, <1>5, <2>1 DEF AliceSendHeader, SendLost, kmeVars
<1>6. CASE AliceSendPayload
  <2>1. TcpTypeOK'
    <3>1. CASE SendLost("close")
      BY <1>0, <3>1 DEF SendLost, tcpVars, TcpTypeOK
    <3>2. ASSUME NEW n \in 1..(HeaderLen + PayloadLen - sent), Push(n)
          PROVE  TcpTypeOK'
      <4>1. n \in Nat
        BY <1>0, AliceAssumption DEF TcpTypeOK, HeaderLen
      <4> QED BY <1>0, <3>2, <4>1, PushType
    <3> QED BY <1>6, <3>1, <3>2 DEF AliceSendPayload
  <2> QED BY <1>0, <1>1, <1>6, <2>1 DEF AliceSendPayload, SendLost, kmeVars
<1>7. CASE AliceClose
  BY <1>0, <1>1, <1>7, SocketType DEF AliceClose, kmeVars
<1>8. CASE AliceKilled
  BY <1>0, <1>1, <1>8, SocketType DEF AliceKilled, kmeVars
<1> QED BY <1>2, <1>3, <1>4, <1>5, <1>6, <1>7, <1>8 DEF AliceNext, AliceStep

\* A step of Bob's.
LEMMA SafetyBob == SafetyInv /\ BobNext => SafetyInv'
<1> SUFFICES ASSUME SafetyInv, BobNext PROVE SafetyInv'
  OBVIOUS
<1> USE DEF SafetyInv
<1>0. /\ FaultsTypeOK /\ TcpTypeOK /\ KmeTypeOK /\ ProgramsTypeOK
      /\ UNCHANGED <<aPc, file, payload>>
  BY TypeOKParts
  DEF BobNext, BobStep, BobListen, BobAccept, BobReadHeader, BobReadPayload,
      BobParse, BobFetchKey, BobGetsNoKey, BobVerify, BobKilled, aliceVars
<1>1. ASSUME FaultsTypeOK', TcpTypeOK', KmeTypeOK', UNCHANGED issued,
             bPc' \in {"listen", "accept", "header", "payload", "fetch",
                       "verify", "exit0", "exit1", "killed", "unanswered"},
             total_read' \in 0..PayloadLen,
             seen' \in Payload /\ seen'.sign \in {sign(file, Ctx), NoSignature},
             verdict' \in {"none", "verified", "incorrect"}, shown' \in Bytes,
             verdict' = "verified" => shown' = file
      PROVE  SafetyInv'
  <2>1. ProgramsTypeOK'
    BY <1>0, <1>1 DEF ProgramsTypeOK
  <2>2. NoKeyBeforeAsking'
    BY <1>0, <1>1 DEF NoKeyBeforeAsking
  <2>3. SignatureIsOfTheFile'
    BY <1>0, <1>1 DEF SignatureIsOfTheFile, sign
  <2>4. VerifiedIsTheFile'
    BY <1>0, <1>1 DEF VerifiedIsTheFile
  <2> QED BY <1>1, <2>1, <2>2, <2>3, <2>4, TypeOKParts
<1>2. UNCHANGED tcpVars => TcpTypeOK'
  BY <1>0 DEF tcpVars, TcpTypeOK
<1>3. UNCHANGED kmeVars => KmeTypeOK' /\ UNCHANGED issued
  BY <1>0 DEF kmeVars, KmeTypeOK
<1>4. UNCHANGED <<total_read, seen, verdict, shown>> =>
         /\ total_read' \in 0..PayloadLen
         /\ seen' \in Payload /\ seen'.sign \in {sign(file, Ctx), NoSignature}
         /\ verdict' \in {"none", "verified", "incorrect"} /\ shown' \in Bytes
         /\ verdict' = "verified" => shown' = file
  BY <1>0 DEF ProgramsTypeOK, VerifiedIsTheFile, SignatureIsOfTheFile
<1>5. CASE BobListen
  BY <1>0, <1>1, <1>2, <1>3, <1>4, <1>5, FaultsType, SocketType DEF BobListen
<1>6. CASE BobAccept
  BY <1>0, <1>1, <1>2, <1>3, <1>4, <1>6, FaultsType, SocketType
     DEF BobAccept, BobExit
<1>7. CASE BobReadHeader
  <2>1. TcpTypeOK'
    BY <1>0, <1>7, TakeType, SocketType DEF BobReadHeader, BobExit, HeaderLen
  <2>2. FaultsTypeOK' /\ bPc' \in {"payload", "exit1"}
    BY <1>0, <1>7, FaultsType DEF BobReadHeader, BobExit
  <2> QED BY <1>1, <1>3, <1>4, <1>7, <2>1, <2>2 DEF BobReadHeader
<1>8. CASE BobReadPayload
  <2> DEFINE n == Smaller(Available, PayloadLen - total_read)
  <2>1. n \in Nat /\ n <= Available /\ total_read + n \in 0..PayloadLen
    BY <1>0, <1>8, AliceAssumption
    DEF BobReadPayload, Smaller, ProgramsTypeOK, TcpTypeOK, Available
  <2>2. Take(n) /\ total_read' = total_read + n
    BY <1>8 DEF BobReadPayload
  <2> HIDE DEF n
  <2>3. TcpTypeOK' /\ FaultsTypeOK'
    BY <1>0, <1>8, <2>1, <2>2, TakeType, FaultsType DEF BobReadPayload
  <2>4. bPc' = bPc /\ UNCHANGED <<seen, verdict, shown>>
    BY <1>8 DEF BobReadPayload
  <2>5. bPc' \in {"listen", "accept", "header", "payload", "fetch",
                  "verify", "exit0", "exit1", "killed", "unanswered"}
    BY <1>8, <2>4 DEF BobReadPayload
  <2>6. /\ seen' \in Payload /\ seen'.sign \in {sign(file, Ctx), NoSignature}
        /\ verdict' \in {"none", "verified", "incorrect"} /\ shown' \in Bytes
        /\ verdict' = "verified" => shown' = file
    BY <1>0, <2>4 DEF ProgramsTypeOK, VerifiedIsTheFile, SignatureIsOfTheFile
  <2>7. total_read' \in 0..PayloadLen /\ KmeTypeOK' /\ UNCHANGED issued
    BY <1>3, <1>8, <2>1, <2>2 DEF BobReadPayload
  <2> QED BY <1>1, <2>3, <2>5, <2>6, <2>7
<1>9. CASE BobParse
  <2>1. seen' \in Payload /\ seen'.sign \in {sign(file, Ctx), NoSignature}
    <3>1. CASE UNCHANGED seen
      BY <1>0, <3>1 DEF ProgramsTypeOK, SignatureIsOfTheFile
    <3>2. CASE seen' \in Damaged(payload)
      BY <1>0, <3>2, DamagedType DEF ProgramsTypeOK, SignatureIsOfTheFile
    <3>3. CASE seen' = payload
      BY <1>0, <3>3 DEF ProgramsTypeOK, SignatureIsOfTheFile
    <3> QED BY <1>9, <3>1, <3>2, <3>3 DEF BobParse
  <2>2. /\ TcpTypeOK' /\ FaultsTypeOK'
        /\ bPc' \in {"fetch", "exit0", "exit1"}
    BY <1>0, <1>2, <1>9, SocketType, FaultsType DEF BobParse, BobExit
  <2>3. /\ total_read' \in 0..PayloadLen
        /\ verdict' \in {"none", "verified", "incorrect"} /\ shown' \in Bytes
        /\ verdict' = "verified" => shown' = file
    BY <1>0, <1>9 DEF BobParse, ProgramsTypeOK, VerifiedIsTheFile
  <2> QED BY <1>1, <1>3, <1>9, <2>1, <2>2, <2>3 DEF BobParse
<1>10. CASE BobFetchKey
  <2>1. KmeTypeOK' /\ UNCHANGED issued
    BY <1>0, <1>3, <1>10, DecKeysType
       DEF BobFetchKey, CanFetchKey, CanFetch, DecKeys
  <2>2. /\ TcpTypeOK' /\ FaultsTypeOK'
        /\ bPc' \in {"verify", "exit0", "unanswered"}
    BY <1>0, <1>2, <1>10, SocketType, FaultsType DEF BobFetchKey, BobGetsNoKey, BobExit
  <2> QED BY <1>1, <1>4, <1>10, <2>1, <2>2 DEF BobFetchKey
<1>11. CASE BobVerify
  <2> DEFINE text == decrypt_message(seen.ciphertext, Keys[seen.key_ID])
  <2>1. ASSUME verify(seen.sign, text, seen.ctx, seen.pk)
        PROVE  CString(text) = file
    BY <2>1, VerifiedTextWasSigned, NoSignatureVerifiesNothing
       DEF SignatureIsOfTheFile
  <2>2. file \in Bytes
    BY <1>0, AliceAssumption DEF ProgramsTypeOK
  <2>3. \/ verdict' = "verified" /\ shown' = file
        \/ verdict' = "incorrect" /\ shown' = shown
        \/ UNCHANGED <<verdict, shown>>
    BY <1>11, <2>1 DEF BobVerify
  <2>4. /\ verdict' \in {"none", "verified", "incorrect"} /\ shown' \in Bytes
        /\ verdict' = "verified" => shown' = file
    BY <1>0, <2>2, <2>3 DEF ProgramsTypeOK, VerifiedIsTheFile
  <2>5. /\ TcpTypeOK' /\ FaultsTypeOK' /\ bPc' \in {"exit0", "killed"}
        /\ UNCHANGED <<total_read, seen>> /\ UNCHANGED kmeVars
    BY <1>0, <1>11, SocketType, FaultsType DEF BobVerify, BobExit
  <2>6. /\ total_read' \in 0..PayloadLen
        /\ seen' \in Payload /\ seen'.sign \in {sign(file, Ctx), NoSignature}
    BY <1>0, <2>5 DEF ProgramsTypeOK, SignatureIsOfTheFile
  <2> QED BY <1>1, <1>3, <2>4, <2>5, <2>6
<1>12. CASE BobKilled
  BY <1>0, <1>1, <1>3, <1>4, <1>12, SocketType, FaultsType DEF BobKilled, BobExit
<1> QED BY <1>5, <1>6, <1>7, <1>8, <1>9, <1>10, <1>11, <1>12
        DEF BobNext, BobStep

\* A step of the network, the end, and stuttering.
LEMMA SafetyRest ==
  SafetyInv /\ (NetworkNext \/ Over \/ UNCHANGED vars) => SafetyInv'
<1> SUFFICES ASSUME SafetyInv, NetworkNext \/ Over \/ UNCHANGED vars
             PROVE  SafetyInv'
  OBVIOUS
<1> USE DEF SafetyInv
<1>1. FaultsTypeOK /\ TcpTypeOK /\ KmeTypeOK /\ ProgramsTypeOK
  BY TypeOKParts
<1>2. /\ UNCHANGED <<issued, fetched, aPc, file, payload>>
      /\ UNCHANGED <<bPc, total_read, seen, verdict, shown>>
  BY DEF NetworkNext, Over, vars, kmeVars, aliceVars, bobVars
<1>3. FaultsTypeOK' /\ TcpTypeOK'
  <2>1. CASE NetworkNext
    BY <1>1, <2>1, NetworkType, FaultsType DEF NetworkNext, Arrive, Reset
  <2>2. CASE UNCHANGED vars
    BY <1>1, <2>2 DEF vars, tcpVars, FaultsTypeOK, TcpTypeOK
  <2> QED BY <2>1, <2>2 DEF Over
<1>4. KmeTypeOK' /\ ProgramsTypeOK'
  BY <1>1, <1>2 DEF KmeTypeOK, ProgramsTypeOK
<1>5. NoKeyBeforeAsking' /\ VerifiedIsTheFile'
  BY <1>2 DEF NoKeyBeforeAsking, VerifiedIsTheFile
<1>6. SignatureIsOfTheFile'
  BY <1>2 DEF SignatureIsOfTheFile, sign
<1> QED BY <1>3, <1>4, <1>5, <1>6, TypeOKParts

\* The safety invariant holds in every reachable state, whatever fails.
THEOREM SafetyInvariant == Spec => []SafetyInv
<1>1. SafetyInv /\ [Next]_vars => SafetyInv'
  BY SafetyAlice, SafetyBob, SafetyRest DEF Next
<1> QED BY SafetyInit, <1>1, PTL DEF Spec

\* Every variable keeps its type.
THEOREM TypeCorrect == Spec => []TypeOK
<1>1. SafetyInv => TypeOK
  BY DEF SafetyInv
<1> QED BY <1>1, SafetyInvariant, PTL

\* Bob prints "Signature verified." only with exactly the bytes of Alice's
\* file (bob.c:101): a damaged buffer, a lost connection, a refused or failed
\* key request and a killed program never make him print anything else.
THEOREM VerifiedIsAlwaysTheFile == Spec => []VerifiedIsTheFile
<1>1. SafetyInv => VerifiedIsTheFile
  BY DEF SafetyInv
<1> QED BY <1>1, SafetyInvariant, PTL
-----------------------------------------------------------------------------
(* Proof of the invariant of a run in which nothing failed. *)

\* A payload that is whole is verified: the key is the one that encrypted it,
\* so the text is the file, and the fields are those that were signed.
LEMMA WholePayloadVerifies ==
  ASSUME HonestSetting, NEW text \in Files,
         NEW p, p = build_json_payload(1, encrypt_message(Keys[1], text),
                                       sign(text, Ctx))
  PROVE  LET plain == decrypt_message(p.ciphertext, Keys[p.key_ID])
         IN  CString(plain) = text /\ verify(p.sign, plain, p.ctx, p.pk)
<1> DEFINE plain == decrypt_message(p.ciphertext, Keys[p.key_ID])
<1>1. /\ p.key_ID = 1 /\ p.ciphertext = encrypt_message(Keys[1], text)
      /\ p.sign = sign(text, Ctx) /\ p.ctx = Ctx
      /\ p.pk = binary_to_hex(Pk, SigBytes)
  BY DEF build_json_payload, sign
<1>2. text \in Bytes /\ Keys[1] \in Bytes \ {<<>>}
  BY AliceAssumption, KeysAssumption
<1>3. plain = text
  BY <1>1, <1>2, EncryptionRoundTrip
<1>4. CString(plain) = text
  BY <1>2, <1>3, CStringWithoutZero DEF HonestSetting
<1>5. Pk = [i \in 1..PkBytes |-> p.pk[i]]
  <2>1. PkBytes \in Nat /\ SigBytes \in Nat /\ PkBytes <= SigBytes
    BY AliceAssumption DEF HonestSetting
  <2>2. Pk = [i \in 1..PkBytes |-> "pk"] /\ Len(Pk) = PkBytes
    BY <2>1 DEF Pk
  <2>3. \A i \in 1..PkBytes : p.pk[i] = "pk"
    BY <1>1, <2>1, <2>2 DEF binary_to_hex
  <2> QED BY <2>2, <2>3
<1>6. verify(p.sign, plain, p.ctx, p.pk)
  <2>1. p.sign.msg = text /\ p.sign.ctx = Ctx /\ p.sign.pk = Pk
    BY <1>1 DEF sign
  <2> HIDE DEF plain
  <2> QED BY <1>1, <1>4, <1>5, <2>1 DEF verify
<1> QED BY <1>4, <1>6

\* The invariant holds at the start.
LEMMA HonestInit == Init => HonestInv
<1> SUFFICES ASSUME Init PROVE HonestInv
  OBVIOUS
<1>1. AliceProgress
  BY DEF Init, AliceInit, TcpInit, AliceProgress
<1>2. BobProgress
  BY DEF Init, BobInit, TcpInit, KmeInit, BobProgress
<1>3. KeyIsForBob
  BY DEF Init, AliceInit, KeyIsForBob
<1> QED BY <1>1, <1>2, <1>3 DEF Init, TcpInit, HonestInv

\* A step without a failure keeps it.
LEMMA HonestNext ==
  ASSUME HonestSetting, SafetyInv, HonestInv, [Next]_vars
  PROVE  HonestInv'
<1> SUFFICES ASSUME faults' = 0 PROVE /\ AliceProgress' /\ BobProgress' /\ KeyIsForBob'
                                      /\ (arrived = 0 \/ arrived >= HeaderLen)'
  BY DEF HonestInv
<1>1. /\ FaultsTypeOK /\ TcpTypeOK /\ KmeTypeOK /\ ProgramsTypeOK
      /\ PayloadLen \in Nat \ {0} /\ HeaderLen = 4
  BY TypeOKParts, AliceAssumption DEF SafetyInv, HeaderLen
<1>2. ~Fault
  BY <1>1 DEF Fault, FaultsTypeOK
<1>3. faults = 0
  BY <1>1 DEF vars, Next, AliceNext, BobNext, NetworkNext, Over, FaultsTypeOK,
     Fault, NoFault, Arrive, Reset, AliceStep, AliceReadFile, AliceGetKeyAndEncrypt,
     AliceConnect, AliceSendHeader, AliceSendPayload, AliceClose, AliceKilled,
     BobStep, BobListen, BobAccept, BobReadHeader, BobReadPayload, BobParse,
     BobFetchKey, BobGetsNoKey, BobVerify, BobKilled
<1>4. /\ AliceProgress /\ BobProgress /\ KeyIsForBob
      /\ arrived = 0 \/ arrived >= HeaderLen
  BY <1>3 DEF HonestInv
<1>5. CASE AliceNext
  <2>1. UNCHANGED <<bPc, total_read, seen, verdict, shown>>
    BY <1>5 DEF AliceNext, bobVars
  <2>2. CASE AliceReadFile
    <3>1. /\ aPc = "read" /\ aPc' = "keys"
          /\ UNCHANGED <<link, sent, arrived, taken, issued, fetched, file, payload>>
      BY <1>2, <2>2 DEF AliceReadFile, tcpVars, kmeVars
    <3> QED BY <1>4, <2>1, <3>1 DEF AliceProgress, BobProgress, KeyIsForBob
  <2>3. CASE AliceGetKeyAndEncrypt
    <3>1. /\ aPc = "keys" /\ aPc' = "connect"
          /\ EncKeys(URL_GETKEY.own, URL_GETKEY.other, 2)
          /\ payload' = build_json_payload(Len(issued) + 1,
                 encrypt_message(Keys[Len(issued) + 1], file), sign(file, Ctx))
          /\ UNCHANGED <<file, link, sent, arrived, taken>>
      BY <1>2, <2>3 DEF AliceGetKeyAndEncrypt, tcpVars
    <3>2. issued = <<>> /\ Len(issued) = 0
      BY <3>1 DEF SafetyInv, NoKeyBeforeAsking
    <3>3. /\ Len(issued') = 2 /\ fetched' = fetched
          /\ issued'[1] = [master |-> 1, slave |-> 2]
      <4>1. /\ Len(issued') = Len(issued) + 2 /\ fetched' = fetched
            /\ \A id \in (Len(issued) + 1)..(Len(issued) + 2) :
                  issued'[id] = [master |-> 1, slave |-> 2]
        BY <1>1, <3>1, EncKeysType DEF Sae, URL_GETKEY
      <4> QED BY <3>2, <4>1
    <3>4. KeyIsForBob'
      BY <3>1, <3>2, <3>3 DEF KeyIsForBob, sign
    <3>5. AliceProgress'
      BY <1>4, <3>1 DEF AliceProgress
    <3>6. bPc \in {"listen", "accept", "header"}
      BY <1>1, <1>4, <3>1 DEF AliceProgress, BobProgress, TcpTypeOK, ProgramsTypeOK
    <3>7. BobProgress'
      BY <1>4, <2>1, <3>1, <3>3, <3>6 DEF BobProgress
    <3> QED BY <1>4, <3>1, <3>4, <3>5, <3>7
  <2>4. ASSUME UNCHANGED <<arrived, taken, issued, fetched, file, payload>>,
               aPc \notin {"read", "keys"}, link' # "reset" \/ link = "reset"
        PROVE  /\ BobProgress' /\ KeyIsForBob'
               /\ (arrived = 0 \/ arrived >= HeaderLen)'
    BY <1>4, <2>1, <2>4 DEF BobProgress, KeyIsForBob, sign
  <2>5. CASE AliceConnect
    <3>1. AliceProgress'
      BY <1>4, <2>5 DEF AliceConnect, Connect, AliceProgress
    <3> QED BY <2>4, <2>5, <3>1 DEF AliceConnect, Connect, kmeVars
  <2>6. CASE AliceSendHeader
    <3>1. Push(HeaderLen) /\ aPc' = "payload"
      BY <1>4, <2>6 DEF AliceSendHeader, SendLost, AliceProgress
    <3>2. AliceProgress'
      BY <1>1, <1>4, <2>6, <3>1 DEF AliceSendHeader, Push, AliceProgress
    <3> QED BY <2>4, <2>6, <3>1, <3>2 DEF AliceSendHeader, Push, kmeVars
  <2>7. CASE AliceSendPayload
    <3>1. PICK n \in 1..(HeaderLen + PayloadLen - sent) :
             /\ Push(n)
             /\ aPc' = IF sent + n = HeaderLen + PayloadLen THEN "close" ELSE aPc
      BY <1>4, <2>7 DEF AliceSendPayload, SendLost, AliceProgress
    <3>2. AliceProgress'
      BY <1>1, <1>4, <2>7, <3>1 DEF AliceSendPayload, Push, AliceProgress
    <3> QED BY <2>4, <2>7, <3>1, <3>2 DEF AliceSendPayload, Push, kmeVars
  <2>8. CASE AliceClose
    <3>1. AliceProgress'
      BY <1>4, <2>8 DEF AliceClose, CloseClient, AliceProgress
    <3> QED BY <2>4, <2>8, <3>1 DEF AliceClose, CloseClient, kmeVars
  <2> QED BY <1>2, <1>5, <2>2, <2>3, <2>5, <2>6, <2>7, <2>8
          DEF AliceNext, AliceStep, AliceKilled
<1>6. CASE BobNext
  <2>1. UNCHANGED <<aPc, file, payload, sent, arrived, issued>>
    BY <1>6 DEF BobNext, BobStep, BobListen, BobAccept, BobReadHeader,
       BobReadPayload, BobParse, BobFetchKey, BobGetsNoKey, BobVerify, BobKilled, BobExit,
       Listen, Take, CloseServer, DecKeys, aliceVars, kmeVars, tcpVars
  <2>2. KeyIsForBob' /\ (arrived = 0 \/ arrived >= HeaderLen)'
    BY <1>4, <2>1 DEF KeyIsForBob, sign
  <2>3. UNCHANGED link => AliceProgress'
    BY <1>4, <2>1 DEF AliceProgress
  <2>4. link # "closed" \/ sent = HeaderLen + PayloadLen
    BY <1>1, <1>4 DEF AliceProgress, ProgramsTypeOK
  <2>5. bPc \notin {"listen", "accept", "header"} /\ taken > 0
           => aPc \notin {"read", "keys"}
    BY <1>1, <1>4 DEF AliceProgress, TcpTypeOK
  <2>6. CASE BobListen
    <3>1. /\ bPc = "listen" /\ bPc' = "accept"
          /\ UNCHANGED <<link, taken, total_read, seen, verdict, fetched>>
      BY <2>6 DEF BobListen, Listen, tcpVars, kmeVars
    <3> QED BY <1>4, <2>1, <2>2, <2>3, <3>1 DEF BobProgress
  <2>7. CASE BobAccept
    <3>1. /\ bPc = "accept" /\ bPc' = "header"
          /\ UNCHANGED <<link, taken, total_read, seen, verdict, fetched>>
      BY <1>2, <2>7 DEF BobAccept, tcpVars, kmeVars
    <3> QED BY <1>4, <2>1, <2>2, <2>3, <3>1 DEF BobProgress
  <2>8. CASE BobReadHeader
    <3>1. bPc = "header" /\ taken = 0 /\ total_read = 0 /\ link # "reset"
      BY <1>4, <2>8 DEF BobReadHeader, BobProgress
    <3>2. Available \notin 1..(HeaderLen - 1) /\ ~AtEnd
      BY <1>1, <1>4, <2>4, <3>1 DEF Available, AtEnd, TcpTypeOK
    <3>3. Take(HeaderLen) /\ bPc' = "payload"
      BY <1>2, <2>8, <3>2 DEF BobReadHeader
    <3>4. BobProgress'
      BY <1>1, <1>4, <2>1, <2>8, <3>1, <3>3
      DEF BobReadHeader, Take, BobProgress, kmeVars
    <3> QED BY <2>2, <2>3, <3>3, <3>4 DEF Take
  <2>9. CASE BobReadPayload
    <3> DEFINE n == Smaller(Available, PayloadLen - total_read)
    <3>1. /\ bPc = "payload" /\ Take(n) /\ total_read' = total_read + n
          /\ UNCHANGED <<bPc, seen, verdict, fetched>>
      BY <2>9 DEF BobReadPayload, kmeVars
    <3>2. n \in Nat
      BY <1>1, <2>9
      DEF BobReadPayload, Smaller, ProgramsTypeOK, TcpTypeOK, Available
    <3> HIDE DEF n
    <3>3. BobProgress'
      BY <1>1, <1>4, <2>1, <3>1, <3>2
      DEF Take, BobProgress, TcpTypeOK, ProgramsTypeOK
    <3> QED BY <2>2, <2>3, <3>1, <3>3 DEF Take
  <2>10. CASE BobParse
    <3>1. bPc = "payload" /\ taken = HeaderLen + total_read /\ link # "reset"
      BY <1>4, <2>10 DEF BobParse, BobProgress
    <3>2. total_read = PayloadLen
      BY <1>1, <2>4, <2>10, <3>1
      DEF BobParse, AtEnd, Available, TcpTypeOK, ProgramsTypeOK
    <3>3. /\ seen' = payload /\ bPc' = "fetch"
          /\ UNCHANGED <<link, taken, total_read, verdict, fetched>>
      <4>1. ~(total_read < PayloadLen)
        BY <1>1, <3>2
      <4>2. seen' = payload /\ bPc' = "fetch" /\ UNCHANGED tcpVars
        BY <1>2, <2>10, <3>2, <4>1 DEF BobParse
      <4> QED BY <2>10, <4>2 DEF BobParse, tcpVars, kmeVars
    <3>4. BobProgress'
      BY <1>4, <2>1, <3>1, <3>2, <3>3 DEF BobProgress
    <3> QED BY <2>2, <2>3, <3>3, <3>4
  <2>11. CASE BobFetchKey
    <3>1. /\ bPc = "fetch" /\ seen = payload /\ fetched = {}
          /\ aPc \notin {"read", "keys"}
      BY <1>1, <1>4, <2>5, <2>11 DEF BobFetchKey, BobProgress
    <3>2. CanFetchKey(seen.key_ID)
      BY <1>4, <3>1 DEF KeyIsForBob, CanFetchKey, CanFetch, URL_GETKEYBYID,
             build_json_payload
    <3>3. bPc' = "verify" /\ UNCHANGED <<link, taken, total_read, seen, verdict>>
      BY <1>2, <2>11, <3>2 DEF BobFetchKey, tcpVars
    <3>4. BobProgress'
      BY <1>4, <2>1, <3>1, <3>3 DEF BobProgress
    <3> QED BY <2>2, <2>3, <3>3, <3>4
  <2>12. CASE BobVerify
    <3>1. /\ bPc = "verify" /\ seen = payload /\ link # "reset"
          /\ taken = HeaderLen + PayloadLen /\ ~(total_read < PayloadLen)
      BY <1>1, <1>4, <2>12, AliceAssumption
      DEF BobVerify, BobProgress, ProgramsTypeOK
    <3>2. aPc \in {"close", "exit0"}
      BY <1>1, <1>4, <3>1 DEF AliceProgress, TcpTypeOK, ProgramsTypeOK
    <3>3. payload = build_json_payload(1, encrypt_message(Keys[1], file),
                                       sign(file, Ctx))
      BY <1>4, <3>2 DEF KeyIsForBob
    <3>4. LET text == decrypt_message(seen.ciphertext, Keys[seen.key_ID])
          IN  verify(seen.sign, text, seen.ctx, seen.pk)
      BY <1>1, <3>1, <3>3, WholePayloadVerifies DEF ProgramsTypeOK
    <3>5. verdict' = "verified" /\ bPc' = "exit0" /\ CloseServer
      BY <2>12, <3>1, <3>4 DEF BobVerify, BobExit
    <3>6. AliceProgress'
      BY <1>4, <2>1, <3>2, <3>5 DEF AliceProgress, CloseServer
    <3>7. BobProgress'
      BY <1>4, <3>1, <3>5 DEF BobProgress, CloseServer
    <3> QED BY <2>2, <3>6, <3>7
  <2> QED BY <1>2, <1>6, <2>6, <2>7, <2>8, <2>9, <2>10, <2>11, <2>12
          DEF BobNext, BobStep, BobKilled
<1>7. CASE NetworkNext
  <2>1. Arrive /\ UNCHANGED <<issued, fetched, aPc, file, payload>>
        /\ UNCHANGED <<bPc, total_read, seen, verdict, shown>>
    BY <1>2, <1>7 DEF NetworkNext, Reset, kmeVars, aliceVars, bobVars
  <2>2. PICK n \in 1..(sent - arrived) :
           /\ n >= Smaller(MinSegment, sent - arrived)
           /\ arrived' = arrived + n
    BY <2>1 DEF Arrive
  <2>3. UNCHANGED <<link, sent, taken>>
    BY <2>1 DEF Arrive
  <2>4. sent = 0 \/ sent >= HeaderLen
    BY <1>1, <1>4 DEF AliceProgress, ProgramsTypeOK
  <2>5. (arrived = 0 \/ arrived >= HeaderLen)'
    BY <1>1, <1>4, <2>2, <2>4, TcpAssumption
    DEF HonestSetting, Smaller, TcpTypeOK
  <2> QED BY <1>4, <2>1, <2>3, <2>5
          DEF AliceProgress, BobProgress, KeyIsForBob, sign
<1>8. CASE Over \/ UNCHANGED vars
  BY <1>4, <1>8
  DEF Over, vars, tcpVars, kmeVars, aliceVars, bobVars, AliceProgress,
      BobProgress, KeyIsForBob, sign
<1> QED BY <1>5, <1>6, <1>7, <1>8 DEF Next

\* In a run in which nothing failed Bob ends only with the file verified, for
\* every key length, file without a zero byte and splitting of the payload,
\* provided the four bytes of the header are not split.
THEOREM HonestRunAlwaysVerifies ==
  ASSUME HonestSetting
  PROVE  Spec => []HonestRunVerifies
<1>1. SafetyInv /\ HonestInv /\ [Next]_vars => HonestInv'
  BY HonestNext
<1>2. SafetyInv /\ HonestInv => HonestRunVerifies
  BY TypeOKParts
  DEF SafetyInv, HonestInv, HonestRunVerifies, BobStopped, BobProgress
<1> QED BY <1>1, <1>2, HonestInit, SafetyInvariant, PTL DEF Spec
-----------------------------------------------------------------------------
(* The demo implements SignedTransfer. *)

\* Bob is past accept() only when Alice has connected, which she does only
\* with a payload in hand; and he settles when he ends.
OrderInv ==
  /\ aPc \in {"read", "keys", "connect"} => link = "none"
  /\ link = "none" => bPc \notin {"header", "payload", "fetch", "verify"}
  /\ aPc \in {"read", "keys"} => payload.key_ID = 0
  /\ aPc \in {"connect", "header", "payload", "close"} => payload.key_ID # 0
  /\ link # "none" => payload.key_ID # 0
  /\ verdict # "none" => BobStopped

LEMMA OrderInit == Init => OrderInv
BY DEF Init, AliceInit, BobInit, TcpInit, build_json_payload, OrderInv

LEMMA OrderNext ==
  ASSUME SafetyInv, OrderInv, [Next]_vars
  PROVE  OrderInv'
<1> USE DEF OrderInv, BobStopped
<1>1. Len(issued) + 1 \in Nat \ {0}
  BY TypeOKParts DEF SafetyInv, KmeTypeOK
<1>2. CASE AliceNext
  <2>1. UNCHANGED <<bPc, verdict>>
    BY <1>2 DEF AliceNext, bobVars
  <2>2. CASE AliceReadFile
    BY <2>1, <2>2 DEF AliceReadFile, tcpVars
  <2>3. CASE AliceGetKeyAndEncrypt
    <3>1. \/ payload' = payload /\ aPc' \in {"exit0", "exit1", "unanswered"}
          \/ payload'.key_ID = Len(issued) + 1 /\ aPc' = "connect"
      BY <2>3 DEF AliceGetKeyAndEncrypt, build_json_payload
    <3> QED BY <1>1, <2>1, <2>3, <3>1 DEF AliceGetKeyAndEncrypt, tcpVars
  <2>4. CASE AliceConnect
    BY <2>1, <2>4 DEF AliceConnect, Connect
  <2>5. CASE AliceSendHeader
    BY <2>1, <2>5 DEF AliceSendHeader, SendLost, Push, tcpVars
  <2>6. CASE AliceSendPayload
    BY <2>1, <2>6 DEF AliceSendPayload, SendLost, Push, tcpVars
  <2>7. CASE AliceClose \/ AliceKilled
    BY <2>1, <2>7 DEF AliceClose, AliceKilled, AliceStopped, CloseClient
  <2> QED BY <1>2, <2>2, <2>3, <2>4, <2>5, <2>6, <2>7 DEF AliceNext, AliceStep
<1>3. CASE BobNext
  <2>1. /\ UNCHANGED <<aPc, payload>>
        /\ link' = link \/ (link = "open" /\ link' = "reset")
    BY <1>3 DEF BobNext, BobStep, BobListen, BobAccept, BobReadHeader,
       BobReadPayload, BobParse, BobFetchKey, BobGetsNoKey, BobVerify, BobKilled, BobExit,
       Listen, Take, CloseServer, aliceVars, tcpVars
  <2>2. link = "none" => bPc' \notin {"header", "payload", "fetch", "verify"}
    BY <1>3 DEF BobNext, BobStep, BobListen, BobAccept, BobReadHeader,
       BobReadPayload, BobParse, BobFetchKey, BobGetsNoKey, BobVerify, BobKilled, BobExit
  <2>3. verdict' # "none" => bPc' \in {"exit0", "exit1", "killed"}
    BY <1>3 DEF BobNext, BobStep, BobListen, BobAccept, BobReadHeader,
       BobReadPayload, BobParse, BobFetchKey, BobGetsNoKey, BobVerify, BobKilled, BobExit
  <2> QED BY <2>1, <2>2, <2>3
<1>4. CASE NetworkNext
  BY <1>4 DEF NetworkNext, Arrive, Reset, aliceVars, bobVars
<1>5. CASE Over \/ UNCHANGED vars
  BY <1>5 DEF Over, vars, tcpVars, aliceVars, bobVars
<1> QED BY <1>2, <1>3, <1>4, <1>5 DEF Next

\* What the step of a program that cannot settle the transfer looks like.
LEMMA TransferStutters ==
  ASSUME UNCHANGED <<file, shown, verdict, bPc, payload>>
  PROVE  [Transfer!Next]_(Transfer!vars)
BY DEF Transfer!vars, Outcome, BobStopped

\* Every step of the demo is a step of the transfer, or none.
LEMMA TransferNext ==
  ASSUME SafetyInv, OrderInv, [Next]_vars
  PROVE  [Transfer!Next]_(Transfer!vars)
<1> USE DEF Transfer!Next, Transfer!Offer, Transfer!Accept, Transfer!Refuse
<1>1. CASE AliceNext
  <2>1. UNCHANGED <<file, shown, verdict, bPc>>
    BY <1>1 DEF AliceNext, AliceStep, AliceReadFile, AliceGetKeyAndEncrypt,
       AliceConnect, AliceSendHeader, AliceSendPayload, AliceClose, AliceKilled,
       bobVars
  <2>2. CASE UNCHANGED payload
    BY <2>1, <2>2, TransferStutters
  <2>3. CASE payload' # payload
    <3>1. aPc = "keys" /\ payload'.key_ID = Len(issued) + 1
      <4>1. AliceGetKeyAndEncrypt
        BY <1>1, <2>3 DEF AliceNext, AliceStep, AliceReadFile, AliceConnect,
           AliceSendHeader, AliceSendPayload, AliceClose, AliceKilled
      <4> QED BY <2>3, <4>1 DEF AliceGetKeyAndEncrypt, build_json_payload
    <3>2. payload.key_ID = 0 /\ payload'.key_ID # 0
      BY <3>1, TypeOKParts DEF OrderInv, SafetyInv, KmeTypeOK
    <3>3. CASE BobStopped
      BY <2>1, <3>3 DEF Transfer!vars, Outcome, BobStopped
    <3>4. CASE ~BobStopped
      <4>1. verdict = "none"
        BY <3>4 DEF OrderInv
      <4>2. Outcome = "preparing" /\ Outcome' = "offered"
        BY <2>1, <3>2, <3>4, <4>1 DEF Outcome, BobStopped
      <4> QED BY <2>1, <4>2
    <3> QED BY <3>3, <3>4
  <2> QED BY <2>2, <2>3
<1>2. CASE BobNext
  <2>1. UNCHANGED <<file, payload>>
    BY <1>2 DEF BobNext, BobStep, BobListen, BobAccept, BobReadHeader,
       BobReadPayload, BobParse, BobFetchKey, BobGetsNoKey, BobVerify, BobKilled, aliceVars
  <2>2. verdict = "none" /\ ~BobStopped
    BY <1>2 DEF BobNext, BobStep, BobListen, BobAccept, BobReadHeader,
       BobReadPayload, BobParse, BobFetchKey, BobGetsNoKey, BobVerify, BobKilled,
       BobStopped, OrderInv
  <2>3. Outcome \in {"preparing", "offered"}
    BY <2>2 DEF Outcome
  <2>4. CASE UNCHANGED <<verdict, shown>>
    <3>1. CASE BobStopped'
      <4>1. Outcome' = "refused"
        BY <2>2, <2>4, <3>1 DEF Outcome
      <4> QED BY <2>1, <2>3, <2>4, <4>1
    <3>2. CASE ~BobStopped'
      <4>1. Outcome' = Outcome
        BY <2>1, <2>2, <2>4, <3>2 DEF Outcome
      <4> QED BY <2>1, <2>4, <4>1 DEF Transfer!vars
    <3> QED BY <3>1, <3>2
  <2>5. CASE BobVerify
    <3>1. payload.key_ID # 0 /\ bPc' \in {"exit0", "killed"}
      BY <2>5 DEF BobVerify, BobExit, OrderInv
    <3>2. CASE verdict' = "verified"
      <4>1. shown' = file
        BY <2>1, <3>2, SafetyBob, <1>2 DEF SafetyInv, VerifiedIsTheFile
      <4>2. Outcome = "offered" /\ Outcome' = "accepted"
        BY <2>2, <3>1, <3>2 DEF Outcome
      <4> QED BY <2>1, <4>1, <4>2
    <3>3. CASE verdict' = "incorrect" /\ UNCHANGED shown
      <4>1. Outcome' = "refused"
        BY <3>1, <3>3 DEF Outcome, BobStopped
      <4> QED BY <2>1, <2>3, <3>3, <4>1
    <3> QED BY <2>4, <2>5, <3>2, <3>3 DEF BobVerify
  <2> QED BY <1>2, <2>4, <2>5
          DEF BobNext, BobStep, BobListen, BobAccept, BobReadHeader,
              BobReadPayload, BobParse, BobFetchKey, BobKilled
<1>3. CASE NetworkNext \/ Over \/ UNCHANGED vars
  BY <1>3, TransferStutters DEF NetworkNext, Over, vars, aliceVars, bobVars
<1> QED BY <1>1, <1>2, <1>3 DEF Next

\* The demo implements SignedTransfer: Bob settles once, by showing exactly
\* the text Alice offered or by showing nothing, whatever fails.
THEOREM DemoImplementsTransfer == Spec => ImplementsTransfer
<1>1. Init => Transfer!Init
  BY DEF Init, AliceInit, BobInit, build_json_payload, Outcome, BobStopped,
         Transfer!Init
<1>2. SafetyInv /\ OrderInv /\ [Next]_vars => OrderInv'
  BY OrderNext
<1>3. SafetyInv /\ OrderInv /\ [Next]_vars => [Transfer!Next]_(Transfer!vars)
  BY TransferNext
<1> QED BY <1>1, <1>2, <1>3, OrderInit, SafetyInvariant, PTL
        DEF Spec, ImplementsTransfer, Transfer!Spec
-----------------------------------------------------------------------------
(* Nobody is stuck, whatever fails. *)

\* How far Alice is fixes the state of the link, and what of the payload is
\* still to be written: she stays at a write only while something is.
AlicesEnd ==
  /\ sent <= HeaderLen + PayloadLen
  /\ aPc \in {"read", "keys", "connect"} => link = "none"
  /\ aPc \in {"header", "payload", "close"} => link \in {"open", "reset"}
  /\ link = "open" => aPc \in {"header", "payload", "close"}
  /\ link = "none" \/ aPc = "header" => sent = 0
  /\ aPc = "payload" /\ link = "open" => sent < HeaderLen + PayloadLen

\* A connection is open only while Bob is there to read it, and once he has
\* left his loop with it open he has read all of it.
BobsEnd ==
  /\ listening => bPc # "listen" /\ ~BobStopped
  /\ link = "open" \/ (link # "none" /\ bPc = "accept") => listening
  /\ bPc = "listen" => link = "none"
  /\ bPc \in {"header", "payload", "fetch", "verify", "unanswered"} => link # "none"
  /\ bPc \in {"listen", "accept", "header"} => taken = 0 /\ total_read = 0
  /\ bPc = "payload" => taken = HeaderLen + total_read
  /\ bPc \in {"fetch", "verify", "unanswered"} /\ link = "open"
        => taken = HeaderLen + PayloadLen

StreamInv == AlicesEnd /\ BobsEnd

LEMMA StreamInit == Init => StreamInv
BY AliceAssumption
DEF Init, AliceInit, BobInit, TcpInit, StreamInv, AlicesEnd, BobsEnd, BobStopped,
    HeaderLen

\* Alice's steps.
LEMMA StreamAlice ==
  ASSUME SafetyInv, StreamInv, AliceNext
  PROVE  StreamInv'
<1> USE DEF StreamInv
<1>1. /\ TcpTypeOK /\ ProgramsTypeOK /\ PayloadLen \in Nat \ {0}
      /\ UNCHANGED <<bPc, total_read>>
  BY TypeOKParts, AliceAssumption DEF SafetyInv, AliceNext, bobVars
<1>2. CASE UNCHANGED tcpVars
  <2>1. BobsEnd'
    BY <1>1, <1>2 DEF BobsEnd, BobStopped, tcpVars
  <2>2. AlicesEnd'
    <3>1. CASE SendLost("payload") \/ SendLost("close")
      BY <1>2, <3>1 DEF SendLost, AlicesEnd, tcpVars
    <3>2. CASE AliceReadFile
      BY <1>2, <3>2 DEF AliceReadFile, AlicesEnd, tcpVars
    <3>3. CASE AliceGetKeyAndEncrypt
      BY <1>2, <3>3 DEF AliceGetKeyAndEncrypt, AlicesEnd, tcpVars
    <3>4. CASE AliceConnect
      BY <1>2, <3>4 DEF AliceConnect, Connect, tcpVars
    <3>5. CASE AliceClose \/ AliceKilled
      BY <1>2, <3>5
      DEF AliceClose, AliceKilled, AliceStopped, CloseClient, AlicesEnd, tcpVars
    <3>6. ASSUME NEW n \in 1..(HeaderLen + PayloadLen), Push(n) PROVE FALSE
      BY <1>1, <1>2, <3>6 DEF Push, TcpTypeOK, HeaderLen, tcpVars
    <3>7. CASE AliceSendHeader
      BY <1>1, <3>1, <3>6, <3>7 DEF AliceSendHeader, HeaderLen
    <3>8. CASE AliceSendPayload
      BY <1>1, <3>1, <3>6, <3>8 DEF AliceSendPayload, TcpTypeOK, HeaderLen
    <3> QED BY <3>2, <3>3, <3>4, <3>5, <3>7, <3>8 DEF AliceNext, AliceStep
  <2> QED BY <2>1, <2>2
<1>3. CASE AliceConnect
  <2>1. AlicesEnd'
    BY <1>1, <1>3 DEF AliceConnect, Connect, AlicesEnd, HeaderLen
  <2>2. BobsEnd'
    BY <1>1, <1>3 DEF AliceConnect, Connect, BobsEnd, BobStopped
  <2> QED BY <2>1, <2>2
<1>4. CASE AliceSendHeader /\ Push(HeaderLen) /\ aPc' = "payload"
  <2>1. AlicesEnd'
    BY <1>1, <1>4 DEF AliceSendHeader, Push, AlicesEnd, HeaderLen
  <2>2. BobsEnd'
    BY <1>1, <1>4 DEF Push, BobsEnd, BobStopped
  <2> QED BY <2>1, <2>2
<1>5. ASSUME AliceSendPayload, NEW n \in 1..(HeaderLen + PayloadLen - sent), Push(n),
             aPc' = IF sent + n = HeaderLen + PayloadLen THEN "close" ELSE aPc
      PROVE  StreamInv'
  <2>1. AlicesEnd'
    BY <1>1, <1>5 DEF AliceSendPayload, Push, AlicesEnd, HeaderLen, TcpTypeOK
  <2>2. BobsEnd'
    BY <1>1, <1>5 DEF Push, BobsEnd, BobStopped
  <2> QED BY <2>1, <2>2
<1>6. CASE AliceClose \/ AliceKilled
  <2>1. CloseClient /\ aPc' \in {"exit0", "killed"}
    BY <1>6 DEF AliceClose, AliceKilled
  <2>2. AlicesEnd'
    BY <1>1, <2>1 DEF CloseClient, AlicesEnd, HeaderLen
  <2>3. BobsEnd'
    BY <1>1, <2>1 DEF CloseClient, BobsEnd, BobStopped
  <2> QED BY <2>2, <2>3
<1> QED BY <1>2, <1>3, <1>4, <1>5, <1>6
        DEF AliceNext, AliceStep, AliceReadFile, AliceGetKeyAndEncrypt,
            AliceSendHeader, AliceSendPayload, SendLost

\* Bob's steps.
LEMMA StreamBob ==
  ASSUME SafetyInv, StreamInv, BobNext
  PROVE  StreamInv'
<1> USE DEF StreamInv
<1>1. /\ TcpTypeOK /\ ProgramsTypeOK /\ PayloadLen \in Nat \ {0}
      /\ UNCHANGED <<aPc, sent, arrived>>
  BY TypeOKParts, AliceAssumption
  DEF SafetyInv, BobNext, BobStep, BobListen, BobAccept, BobReadHeader,
      BobReadPayload, BobParse, BobFetchKey, BobGetsNoKey, BobVerify, BobKilled,
      BobExit, Listen, Take, CloseServer, aliceVars, tcpVars
<1>2. ASSUME NEW status \in {"exit0", "exit1", "killed"}, BobExit(status)
      PROVE  StreamInv'
  <2>1. AlicesEnd'
    BY <1>1, <1>2 DEF BobExit, CloseServer, AlicesEnd, HeaderLen
  <2>2. BobsEnd'
    BY <1>1, <1>2 DEF BobExit, CloseServer, BobsEnd, BobStopped
  <2> QED BY <2>1, <2>2
<1>3. UNCHANGED link => AlicesEnd'
  BY <1>1 DEF AlicesEnd
<1>4. CASE BobListen
  <2>1. BobsEnd' /\ UNCHANGED link
    BY <1>1, <1>4 DEF BobListen, Listen, BobsEnd, BobStopped, tcpVars
  <2> QED BY <1>3, <2>1
<1>5. CASE BobAccept /\ bPc' = "header" /\ UNCHANGED tcpVars
  <2>1. BobsEnd' /\ UNCHANGED link
    BY <1>1, <1>5 DEF BobAccept, BobsEnd, BobStopped, tcpVars
  <2> QED BY <1>3, <2>1
<1>6. CASE BobReadHeader /\ Take(HeaderLen) /\ bPc' = "payload"
  <2>1. taken = 0 /\ total_read = 0
    BY <1>6 DEF BobReadHeader, BobsEnd
  <2>2. BobsEnd' /\ UNCHANGED link
    BY <1>1, <1>6, <2>1 DEF BobReadHeader, Take, BobsEnd, BobStopped, HeaderLen
  <2> QED BY <1>3, <2>2
<1>7. CASE BobReadPayload
  <2> DEFINE n == Smaller(Available, PayloadLen - total_read)
  <2>1. n \in Nat /\ Take(n) /\ total_read' = total_read + n /\ bPc' = bPc
    BY <1>1, <1>7
    DEF BobReadPayload, Smaller, ProgramsTypeOK, TcpTypeOK, Available
  <2> HIDE DEF n
  <2>2. BobsEnd' /\ UNCHANGED link
    BY <1>1, <1>7, <2>1
    DEF BobReadPayload, Take, BobsEnd, BobStopped, HeaderLen, TcpTypeOK, ProgramsTypeOK
  <2> QED BY <1>3, <2>2
<1>8. CASE BobParse /\ bPc' = "fetch" /\ UNCHANGED tcpVars
  <2>1. bPc = "payload" /\ (total_read = PayloadLen \/ AtEnd)
    BY <1>8 DEF BobParse
  <2>2. AtEnd => link # "open"
    BY DEF AtEnd
  <2>3. BobsEnd' /\ UNCHANGED link
    BY <1>1, <1>8, <2>1, <2>2 DEF BobsEnd, BobStopped, tcpVars
  <2> QED BY <1>3, <2>3
<1>9. CASE BobFetchKey /\ bPc' \in {"verify", "unanswered"} /\ UNCHANGED tcpVars
  <2>1. BobsEnd' /\ UNCHANGED link
    BY <1>1, <1>9 DEF BobFetchKey, BobsEnd, BobStopped, tcpVars
  <2> QED BY <1>3, <2>1
<1> QED BY <1>2, <1>4, <1>5, <1>6, <1>7, <1>8, <1>9
        DEF BobNext, BobStep, BobAccept, BobReadHeader, BobParse, BobFetchKey,
            BobGetsNoKey, BobVerify, BobKilled

LEMMA StreamNext ==
  ASSUME SafetyInv, StreamInv, [Next]_vars
  PROVE  StreamInv'
<1>1. TcpTypeOK
  BY TypeOKParts DEF SafetyInv
<1>2. CASE NetworkNext
  BY <1>1, <1>2, AliceAssumption
  DEF NetworkNext, Arrive, Reset, aliceVars, bobVars, StreamInv, AlicesEnd,
      BobsEnd, BobStopped, TcpTypeOK, HeaderLen
<1>3. CASE Over \/ UNCHANGED vars
  BY <1>3
  DEF Over, vars, tcpVars, aliceVars, bobVars, StreamInv, AlicesEnd, BobsEnd,
      BobStopped
<1> QED BY <1>2, <1>3, StreamAlice, StreamBob DEF Next

\* The invariant of the connection holds in every reachable state.
THEOREM StreamInvariant == Spec => []StreamInv
<1>1. SafetyInv /\ StreamInv /\ [Next]_vars => StreamInv'
  BY StreamNext
<1> QED BY <1>1, StreamInit, SafetyInvariant, PTL DEF Spec

\* With the link closed or broken a Bob who reads has something to read, or its
\* end, or a segment that still comes.
LEMMA EndIsReached ==
  ASSUME TcpTypeOK, link \in {"closed", "reset"}
  PROVE  Available > 0 \/ AtEnd \/ SegmentUnderWay
BY DEF TcpTypeOK, Available, AtEnd, SegmentUnderWay

\* Where Alice cannot go on, nor a segment, Bob can, or both may rest.
LEMMA StreamInvSuffices ==
  ASSUME SafetyInv, StreamInv
  PROVE  NobodyIsStuck
<1> SUFFICES ASSUME ~AliceCanGoOn, ~SegmentUnderWay
             PROVE  BobCanGoOn \/ BothSettled
  BY DEF NobodyIsStuck
<1> USE DEF StreamInv
<1>1. /\ TcpTypeOK /\ ProgramsTypeOK /\ PayloadLen \in Nat \ {0} /\ Window \in Nat \ {0}
      /\ Window >= 4 /\ HeaderLen = 4
  BY TypeOKParts, AliceAssumption, TcpAssumption, HeaderAssumption
  DEF SafetyInv, HeaderLen
<1>2. CASE link = "none"
  <2>1. AliceStopped \/ AliceWaitsInVain
    BY <1>1, <1>2
    DEF ProgramsTypeOK, AliceCanGoOn, AlicesEnd, AliceStopped, AliceWaitsInVain
  <2>2. CASE bPc = "listen"
    BY <2>2 DEF BobCanGoOn
  <2>3. CASE bPc # "listen"
    BY <1>1, <1>2, <2>1, <2>3
    DEF ProgramsTypeOK, BobsEnd, BobStopped, BobWaitsInVain, BothSettled
  <2> QED BY <2>2, <2>3
<1>3. CASE link = "open"
  <2>1. aPc = "payload" /\ sent - taken >= Window
    <3>1. aPc \in {"header", "payload"}
      BY <1>3 DEF AlicesEnd, AliceCanGoOn
    <3>2. aPc # "header"
      BY <1>1, <1>3 DEF AlicesEnd, AliceCanGoOn, TcpTypeOK
    <3> QED BY <1>1, <1>3, <3>1, <3>2 DEF AlicesEnd, AliceCanGoOn, TcpTypeOK
  <2>2. Available > 0
    BY <1>1, <1>3, <2>1 DEF SegmentUnderWay, Available, TcpTypeOK
  <2>3. bPc # "unanswered"
    BY <1>1, <1>3, <2>1 DEF AlicesEnd, BobsEnd, TcpTypeOK
  <2>4. listening /\ bPc \notin {"listen", "exit0", "exit1", "killed"}
    BY <1>3 DEF BobsEnd, BobStopped
  <2> QED BY <1>1, <1>3, <2>2, <2>3, <2>4 DEF ProgramsTypeOK, BobCanGoOn
<1>4. CASE link \in {"closed", "reset"}
  <2>1. Available > 0 \/ AtEnd
    BY <1>1, <1>4, EndIsReached
  <2>2. AliceStopped \/ AliceWaitsInVain
    BY <1>1, <1>4
    DEF ProgramsTypeOK, AliceCanGoOn, AlicesEnd, AliceStopped, AliceWaitsInVain
  <2>3. bPc = "accept" => listening
    BY <1>4 DEF BobsEnd
  <2> QED BY <1>1, <1>4, <2>1, <2>2, <2>3
          DEF ProgramsTypeOK, BobCanGoOn, BobStopped, BobWaitsInVain, BothSettled
<1> QED BY <1>1, <1>2, <1>3, <1>4 DEF TcpTypeOK

\* Nobody waits for somebody who waits: in every state one of the programs can
\* take its next step, or a segment is on its way, or both programs have ended or
\* wait for a KME that stays silent or for a partner who never comes.  It holds for
\* every length of the payload, every window that holds the header, every splitting
\* of the stream and whatever fails.
THEOREM NobodyIsEverStuck == Spec => []NobodyIsStuck
<1>1. SafetyInv /\ StreamInv => NobodyIsStuck
  BY StreamInvSuffices
<1> QED BY <1>1, SafetyInvariant, StreamInvariant, PTL

-----------------------------------------------------------------------------
(* Every step uses something up. *)

\* The places of the programs and the states of the link, counted from the end.
LEMMA Ranks ==
  /\ AliceSteps["read"] = 6 /\ AliceSteps["keys"] = 5 /\ AliceSteps["connect"] = 4
  /\ AliceSteps["header"] = 3 /\ AliceSteps["payload"] = 2 /\ AliceSteps["close"] = 1
  /\ AliceSteps["unanswered"] = 1 /\ AliceSteps["exit0"] = 0
  /\ AliceSteps["exit1"] = 0 /\ AliceSteps["killed"] = 0
  /\ BobSteps["listen"] = 6 /\ BobSteps["accept"] = 5 /\ BobSteps["header"] = 4
  /\ BobSteps["payload"] = 3 /\ BobSteps["fetch"] = 2 /\ BobSteps["verify"] = 1
  /\ BobSteps["unanswered"] = 1 /\ BobSteps["exit0"] = 0
  /\ BobSteps["exit1"] = 0 /\ BobSteps["killed"] = 0
  /\ LinkSteps["none"] = 3 /\ LinkSteps["open"] = 2 /\ LinkSteps["closed"] = 1
  /\ LinkSteps["reset"] = 0
BY DEF AliceSteps, BobSteps, LinkSteps

\* What the connection has before it; StepsLeft adds the places of the programs.
WireSteps == LinkSteps[link] + 3 * Unwritten + (sent - arrived) + (sent - taken)

\* The three parts of StepsLeft are natural numbers.
LEMMA PartsOfStepsLeft ==
  ASSUME SafetyInv, StreamInv
  PROVE  /\ AliceSteps[aPc] \in Nat /\ BobSteps[bPc] \in Nat /\ WireSteps \in Nat
         /\ StepsLeft = AliceSteps[aPc] + BobSteps[bPc] + WireSteps
<1>1. TcpTypeOK /\ ProgramsTypeOK
  BY TypeOKParts DEF SafetyInv
<1>2. AliceSteps[aPc] \in Nat /\ BobSteps[bPc] \in Nat /\ LinkSteps[link] \in Nat
  BY <1>1, Ranks DEF ProgramsTypeOK, TcpTypeOK
<1>3. Unwritten \in Nat
  BY <1>1, AliceAssumption DEF Unwritten, StreamInv, AlicesEnd, TcpTypeOK, HeaderLen
<1>4. sent - arrived \in Nat /\ sent - taken \in Nat
  BY <1>1 DEF TcpTypeOK
<1> QED BY <1>2, <1>3, <1>4 DEF StepsLeft, WireSteps

\* The same of the next state.
LEMMA PartsOfStepsLeftNext ==
  SafetyInv' /\ StreamInv' =>
    /\ AliceSteps[aPc'] \in Nat /\ BobSteps[bPc'] \in Nat /\ WireSteps' \in Nat
    /\ StepsLeft' = AliceSteps[aPc'] + BobSteps[bPc'] + WireSteps'
<1> DEFINE Parts ==
      /\ AliceSteps[aPc] \in Nat /\ BobSteps[bPc] \in Nat /\ WireSteps \in Nat
      /\ StepsLeft = AliceSteps[aPc] + BobSteps[bPc] + WireSteps
<1>1. SafetyInv /\ StreamInv => Parts
  BY PartsOfStepsLeft
<1> HIDE DEF Parts
<1>2. SafetyInv' /\ StreamInv' => Parts'
  BY <1>1, PTL
<1>3. Parts' => /\ AliceSteps[aPc'] \in Nat /\ BobSteps[bPc'] \in Nat /\ WireSteps' \in Nat
                /\ StepsLeft' = AliceSteps[aPc'] + BobSteps[bPc'] + WireSteps'
  BY DEF Parts, AliceSteps, BobSteps
<1> QED BY <1>2, <1>3

\* What the calls of the two programs, and the network, leave of the connection.
LEMMA WireStepsLeft ==
  ASSUME SafetyInv, StreamInv
  PROVE  /\ UNCHANGED tcpVars \/ Listen => WireSteps' = WireSteps
         /\ Connect \/ CloseClient \/ CloseServer => WireSteps' <= WireSteps
         /\ \A n \in Nat \ {0} : Push(n) \/ Take(n) => WireSteps' < WireSteps
         /\ Arrive \/ Reset => WireSteps' < WireSteps
<1> DEFINE total == HeaderLen + PayloadLen
<1>1. TcpTypeOK /\ sent <= total /\ total \in Nat
  BY TypeOKParts, AliceAssumption DEF SafetyInv, StreamInv, AlicesEnd, HeaderLen
<1>2. /\ link \in {"none", "open"} => Unwritten = total - sent
      /\ link \notin {"none", "open"} => Unwritten = 0
      /\ link' \in {"none", "open"} => Unwritten' = total - sent'
      /\ link' \notin {"none", "open"} => Unwritten' = 0
  <2>1. /\ Unwritten = IF link \in {"none", "open"} THEN total - sent ELSE 0
        /\ Unwritten' = IF link' \in {"none", "open"} THEN total - sent' ELSE 0
    BY DEF Unwritten, total
  <2> QED BY <2>1
<1>3. /\ WireSteps = LinkSteps[link] + 3 * Unwritten + (sent - arrived) + (sent - taken)
      /\ WireSteps' = LinkSteps[link'] + 3 * Unwritten' + (sent' - arrived') + (sent' - taken')
  BY DEF WireSteps
<1> HIDE DEF total
<1>4. UNCHANGED tcpVars \/ Listen => WireSteps' = WireSteps
  BY DEF tcpVars, Listen, WireSteps, Unwritten
<1>5. ASSUME UNCHANGED <<sent, arrived, taken>>,
             \/ link = "none" /\ link' = "open"
             \/ link = "open" /\ link' \in {"closed", "reset"}
             \/ link' = link
      PROVE  WireSteps' <= WireSteps
  <2>1. /\ LinkSteps[link'] <= LinkSteps[link] /\ Unwritten' <= Unwritten
        /\ LinkSteps[link'] \in Nat /\ LinkSteps[link] \in Nat
        /\ Unwritten' \in Nat /\ Unwritten \in Nat
    BY <1>1, <1>2, <1>5, Ranks DEF TcpTypeOK
  <2> QED BY <1>1, <1>3, <1>5, <2>1 DEF TcpTypeOK
<1>6. Connect \/ CloseClient \/ CloseServer => WireSteps' <= WireSteps
  BY <1>5 DEF Connect, CloseClient, CloseServer
<1>7. ASSUME NEW n \in Nat \ {0}, Push(n) PROVE WireSteps' < WireSteps
  <2>1. link = "open" /\ link' = "open" /\ sent' = sent + n
        /\ UNCHANGED <<arrived, taken>>
    BY <1>7 DEF Push
  <2>2. Unwritten = total - sent /\ Unwritten' = total - (sent + n)
    BY <1>2, <2>1
  <2> QED BY <1>1, <1>3, <2>1, <2>2, Ranks DEF TcpTypeOK
<1>8. ASSUME NEW n \in Nat \ {0}, Take(n) PROVE WireSteps' < WireSteps
  <2>1. taken' = taken + n /\ UNCHANGED <<link, sent, arrived>>
    BY <1>8 DEF Take
  <2>2. Unwritten' = Unwritten /\ Unwritten \in Nat /\ LinkSteps[link] \in Nat
    BY <1>1, <1>2, <2>1, Ranks DEF TcpTypeOK
  <2> QED BY <1>1, <1>3, <2>1, <2>2 DEF TcpTypeOK
<1>9. Arrive => WireSteps' < WireSteps
  <2> SUFFICES ASSUME Arrive PROVE WireSteps' < WireSteps
    OBVIOUS
  <2>1. PICK n \in 1..(sent - arrived) : arrived' = arrived + n
    BY DEF Arrive
  <2>2. UNCHANGED <<link, sent, taken>>
    BY DEF Arrive
  <2>3. Unwritten' = Unwritten /\ Unwritten \in Nat /\ LinkSteps[link] \in Nat
    BY <1>1, <1>2, <2>2, Ranks DEF TcpTypeOK
  <2> QED BY <1>1, <1>3, <2>1, <2>2, <2>3 DEF TcpTypeOK
<1>10. Reset => WireSteps' < WireSteps
  <2> SUFFICES ASSUME Reset PROVE WireSteps' < WireSteps
    OBVIOUS
  <2>1. /\ link \in {"open", "closed"} /\ link' = "reset"
        /\ sent' = arrived /\ arrived' = arrived /\ taken' = taken
    BY DEF Reset
  <2>2. /\ LinkSteps[link] \in Nat /\ LinkSteps[link'] = 0 /\ LinkSteps[link] > 0
        /\ Unwritten \in Nat /\ Unwritten' = 0
    BY <1>1, <1>2, <2>1, Ranks DEF TcpTypeOK
  <2> QED BY <1>1, <1>3, <2>1, <2>2 DEF TcpTypeOK
<1> QED BY <1>4, <1>6, <1>7, <1>8, <1>9, <1>10

\* No place of a program is returned to.
LEMMA AliceStepsDown ==
  ASSUME SafetyInv, StreamInv, AliceNext
  PROVE  StepsLeft' < StepsLeft
<1>1. /\ ProgramsTypeOK /\ TcpTypeOK /\ PayloadLen \in Nat /\ UNCHANGED bPc
      /\ SafetyInv' /\ StreamInv'
  BY TypeOKParts, AliceAssumption, SafetyAlice, StreamAlice DEF SafetyInv, AliceNext, bobVars
<1>2. /\ AliceSteps[aPc] \in Nat /\ BobSteps[bPc] \in Nat /\ WireSteps \in Nat
      /\ StepsLeft = AliceSteps[aPc] + BobSteps[bPc] + WireSteps
  BY PartsOfStepsLeft
<1>3. /\ AliceSteps[aPc'] \in Nat /\ WireSteps' \in Nat
      /\ StepsLeft' = AliceSteps[aPc'] + BobSteps[bPc] + WireSteps'
  BY <1>1, PartsOfStepsLeftNext
<1>4. \/ AliceSteps[aPc'] < AliceSteps[aPc] /\ WireSteps' <= WireSteps
      \/ AliceSteps[aPc'] <= AliceSteps[aPc] /\ WireSteps' < WireSteps
  <2>1. UNCHANGED tcpVars => WireSteps' = WireSteps
    BY WireStepsLeft
  <2>2. Connect \/ CloseClient => WireSteps' <= WireSteps
    BY WireStepsLeft
  <2>3. CASE AliceReadFile
    BY <1>2, <2>1, <2>3, Ranks DEF AliceReadFile
  <2>4. CASE AliceGetKeyAndEncrypt
    BY <1>2, <2>1, <2>4, Ranks DEF AliceGetKeyAndEncrypt
  <2>5. CASE AliceConnect
    BY <2>2, <2>5, Ranks DEF AliceConnect
  <2>6. CASE SendLost("payload") /\ aPc = "header"
    BY <1>2, <2>1, <2>6, Ranks DEF SendLost
  <2>7. CASE SendLost("close") /\ aPc = "payload"
    BY <1>2, <2>1, <2>7, Ranks DEF SendLost
  <2>8. CASE AliceSendHeader /\ Push(HeaderLen) /\ aPc' = "payload"
    BY <2>8, WireStepsLeft, Ranks DEF AliceSendHeader, HeaderLen
  <2>9. ASSUME AliceSendPayload, NEW n \in 1..(HeaderLen + PayloadLen - sent), Push(n),
               aPc' \in {"close", aPc}
        PROVE  AliceSteps[aPc'] <= AliceSteps[aPc] /\ WireSteps' < WireSteps
    <3>1. n \in Nat \ {0} /\ aPc = "payload"
      BY <1>1, <2>9 DEF AliceSendPayload, TcpTypeOK, HeaderLen
    <3> QED BY <2>9, <3>1, WireStepsLeft, Ranks
  <2>10. CASE AliceClose
    BY <2>2, <2>10, Ranks DEF AliceClose
  <2>11. CASE AliceKilled
    <3>1. AliceSteps[aPc'] < AliceSteps[aPc]
      BY <1>1, <2>11, Ranks DEF AliceKilled, AliceStopped, ProgramsTypeOK
    <3> QED BY <2>2, <2>11, <3>1 DEF AliceKilled
  <2> QED BY <1>1, <2>3, <2>4, <2>5, <2>6, <2>7, <2>8, <2>9, <2>10, <2>11
          DEF AliceNext, AliceStep, AliceSendHeader, AliceSendPayload
<1> HIDE DEF WireSteps
<1> QED BY <1>2, <1>3, <1>4

LEMMA BobStepsDown ==
  ASSUME SafetyInv, StreamInv, BobNext
  PROVE  StepsLeft' < StepsLeft
<1>1. /\ ProgramsTypeOK /\ TcpTypeOK /\ PayloadLen \in Nat /\ UNCHANGED aPc
      /\ SafetyInv' /\ StreamInv'
  BY TypeOKParts, AliceAssumption, SafetyBob, StreamBob
  DEF SafetyInv, BobNext, BobStep, BobListen, BobAccept, BobReadHeader,
      BobReadPayload, BobParse, BobFetchKey, BobVerify, BobKilled, aliceVars
<1>2. /\ AliceSteps[aPc] \in Nat /\ BobSteps[bPc] \in Nat /\ WireSteps \in Nat
      /\ StepsLeft = AliceSteps[aPc] + BobSteps[bPc] + WireSteps
  BY PartsOfStepsLeft
<1>3. /\ BobSteps[bPc'] \in Nat /\ WireSteps' \in Nat
      /\ StepsLeft' = AliceSteps[aPc] + BobSteps[bPc'] + WireSteps'
  BY <1>1, PartsOfStepsLeftNext
<1>4. \/ BobSteps[bPc'] < BobSteps[bPc] /\ WireSteps' <= WireSteps
      \/ BobSteps[bPc'] <= BobSteps[bPc] /\ WireSteps' < WireSteps
  <2>1. UNCHANGED tcpVars \/ Listen => WireSteps' <= WireSteps
    BY <1>2, WireStepsLeft
  <2>2. CloseServer => WireSteps' <= WireSteps
    BY WireStepsLeft
  <2>3. ASSUME NEW status \in {"exit0", "exit1", "killed"}, BobExit(status), ~BobStopped
        PROVE  BobSteps[bPc'] < BobSteps[bPc] /\ WireSteps' <= WireSteps
    BY <1>1, <2>2, <2>3, Ranks DEF BobExit, BobStopped, ProgramsTypeOK
  <2>4. CASE BobListen
    BY <2>1, <2>4, Ranks DEF BobListen
  <2>5. CASE bPc = "accept" /\ bPc' = "header" /\ UNCHANGED tcpVars
    BY <2>1, <2>5, Ranks
  <2>6. CASE bPc = "header" /\ bPc' = "payload" /\ Take(HeaderLen)
    BY <2>6, WireStepsLeft, Ranks DEF HeaderLen
  <2>7. CASE BobReadPayload
    <3> DEFINE n == Smaller(Available, PayloadLen - total_read)
    <3>1. n \in Nat \ {0} /\ Take(n) /\ bPc' = bPc
      BY <1>1, <2>7
      DEF BobReadPayload, Smaller, ProgramsTypeOK, TcpTypeOK, Available
    <3> HIDE DEF n
    <3> QED BY <1>2, <3>1, WireStepsLeft
  <2>8. CASE bPc = "payload" /\ bPc' = "fetch" /\ UNCHANGED tcpVars
    BY <2>1, <2>8, Ranks
  <2>9. CASE bPc = "fetch" /\ bPc' \in {"verify", "unanswered"} /\ UNCHANGED tcpVars
    BY <2>1, <2>9, Ranks
  <2> QED BY <2>3, <2>4, <2>5, <2>6, <2>7, <2>8, <2>9
          DEF BobNext, BobStep, BobAccept, BobReadHeader, BobParse, BobFetchKey,
              BobGetsNoKey, BobVerify, BobKilled, BobStopped
<1> HIDE DEF WireSteps
<1> QED BY <1>2, <1>3, <1>4

LEMMA NetworkStepsDown ==
  ASSUME SafetyInv, StreamInv, SafetyInv', StreamInv', NetworkNext
  PROVE  StepsLeft' < StepsLeft
<1>1. /\ AliceSteps[aPc] \in Nat /\ BobSteps[bPc] \in Nat /\ WireSteps \in Nat
      /\ StepsLeft = AliceSteps[aPc] + BobSteps[bPc] + WireSteps
  BY PartsOfStepsLeft
<1>2. WireSteps' \in Nat /\ StepsLeft' = AliceSteps[aPc'] + BobSteps[bPc'] + WireSteps'
  BY PartsOfStepsLeftNext
<1>3. WireSteps' < WireSteps /\ UNCHANGED <<aPc, bPc>>
  BY WireStepsLeft DEF NetworkNext, aliceVars, bobVars
<1> HIDE DEF WireSteps
<1> QED BY <1>1, <1>2, <1>3

\* Every step of the demo, the failing ones included, leaves fewer steps to take
\* than there were: no execution is longer than StepsLeft at its start, which is
\* three times the length of what Alice sends, and fifteen.  Bob's loop over
\* read() and Alice's wait for room in the socket end for every splitting of the
\* stream.  A refused attempt to connect is no step: her loop around connect() is
\* not bounded by this.
THEOREM DemoStepsRunOut == Spec => StepsRunOut
<1>1. SafetyInv /\ StreamInv => StepsLeft \in Nat
  BY PartsOfStepsLeft
<1>2. SafetyInv /\ StreamInv /\ SafetyInv' /\ StreamInv' /\ [Next]_vars
        => [StepsLeft' < StepsLeft]_vars
  BY AliceStepsDown, BobStepsDown, NetworkStepsDown DEF Next, Over
<1> QED BY <1>1, <1>2, SafetyInvariant, StreamInvariant, PTL DEF Spec, StepsRunOut

-----------------------------------------------------------------------------
(* Where a run in which nothing failed comes to rest. *)

\* bind and listen succeeded.
BobListens == faults = 0 /\ bPc # "listen" /\ ~BobStopped => listening

LEMMA BobListensNext ==
  ASSUME SafetyInv, BobListens, [Next]_vars
  PROVE  BobListens'
<1> USE DEF BobListens, BobStopped
<1>1. SUFFICES ASSUME faults' = 0 PROVE BobListens'
  OBVIOUS
<1>2. faults = 0 /\ ~Fault
  <2>1. FaultsTypeOK
    BY TypeOKParts DEF SafetyInv
  <2>2. ~Fault
    BY <1>1, <2>1 DEF Fault, FaultsTypeOK
  <2> QED BY <1>1, <2>2 DEF Next, AliceNext, AliceStep, AliceReadFile,
       AliceGetKeyAndEncrypt, AliceConnect, AliceSendHeader, AliceSendPayload,
       AliceClose, AliceKilled, BobNext, BobStep, BobListen, BobAccept, BobReadHeader,
       BobReadPayload, BobParse, BobFetchKey, BobVerify, BobKilled, NetworkNext,
       Arrive, Reset, Over, vars, NoFault
<1>3. CASE AliceNext
  BY <1>2, <1>3
  DEF AliceNext, AliceStep, AliceReadFile, AliceGetKeyAndEncrypt, AliceConnect, Connect,
      AliceSendHeader, AliceSendPayload, SendLost, Push, AliceClose, AliceKilled,
      CloseClient, bobVars, tcpVars
<1>4. CASE BobNext
  <2>1. BobListen => listening'
    BY <1>2 DEF BobListen, Listen
  <2> QED BY <1>2, <1>4, <2>1
          DEF BobNext, BobStep, BobAccept, BobReadHeader, BobReadPayload, BobParse,
              BobFetchKey, BobGetsNoKey, BobVerify, BobKilled, BobExit, Take,
              CloseServer, tcpVars
<1>5. CASE NetworkNext \/ Over \/ UNCHANGED vars
  BY <1>2, <1>5 DEF NetworkNext, Arrive, Reset, Over, vars, tcpVars, bobVars
<1> QED BY <1>3, <1>4, <1>5 DEF Next

\* Both programs rest.
AtRest == ~AliceCanGoOn /\ ~BobCanGoOn /\ ~SegmentUnderWay

\* A run in which nothing failed comes to rest nowhere but at a verified file: with
\* DemoStepsRunOut, which says that it does come to rest, all of HonestDelivery but
\* that a program which can take its next step takes it.
THEOREM HonestRunRestsVerified ==
  ASSUME HonestSetting
  PROVE  Spec => [](faults = 0 /\ AtRest => verdict = "verified")
<1>1. SafetyInv /\ StreamInv /\ HonestInv /\ BobListens
        => (faults = 0 /\ AtRest => verdict = "verified")
  <2> SUFFICES ASSUME SafetyInv, StreamInv, HonestInv, BobListens, faults = 0, AtRest
               PROVE  verdict = "verified"
    OBVIOUS
  <2>1. BothSettled
    BY StreamInvSuffices DEF NobodyIsStuck, AtRest
  <2>2. AliceProgress /\ BobProgress
    BY DEF HonestInv
  <2>3. CASE BobStopped
    BY <2>2, <2>3 DEF BobProgress, BobStopped
  <2>4. CASE bPc = "accept" /\ link = "none"
    <3>1. listening
      BY <2>4 DEF BobListens, BobStopped
    <3>2. aPc # "exit0"
      BY <2>2, <2>4 DEF AliceProgress
    <3> QED BY <2>1, <2>2, <2>4, <3>1, <3>2
            DEF BothSettled, AliceStopped, AliceWaitsInVain, BobStopped, AliceProgress
  <2> QED BY <2>1, <2>2, <2>3, <2>4
          DEF BothSettled, BobWaitsInVain, BobProgress
<1>2. Init => BobListens
  BY DEF Init, BobInit, BobListens
<1>3. SafetyInv /\ BobListens /\ [Next]_vars => BobListens'
  BY BobListensNext
<1>4. SafetyInv /\ HonestInv /\ [Next]_vars => HonestInv'
  BY HonestNext
<1> QED BY <1>1, <1>2, <1>3, <1>4, HonestInit, SafetyInvariant, StreamInvariant, PTL
        DEF Spec
=============================================================================
