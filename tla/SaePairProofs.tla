--------------------------- MODULE SaePairProofs ----------------------------
(* Proofs about SaePair, for every file, key, buffer and fault budget.      *)
EXTENDS SaePair, EnvProofs

\* The ids sae_2 has used, those it still holds and those the KME will hand
\* out next follow each other in the order of the KME.
KeyOrder ==
  /\ Len(issued) <= Len(Keys)
  /\ cPc = "keys" => queue = <<>>
  /\ cPc = "encrypt" => queue # <<>>
  /\ \A i \in 1..Len(log) : log[i].key_id \in 1..Len(issued)
  /\ \A i, j \in 1..Len(log) : i < j => log[i].key_id < log[j].key_id
  /\ \A i, j \in 1..Len(queue) : i < j => queue[i] < queue[j]
  /\ \A i \in 1..Len(log), j \in 1..Len(queue) : log[i].key_id < queue[j]

\* A frame is two units of the stream: what was sent never runs ahead of the
\* messages, and what sae_1 took is what it printed and the frame at hand.
Framing ==
  /\ sent <= 2 * Len(log)
  /\ cPc = "len"  => sent + 2 <= 2 * Len(log)
  /\ cPc = "body" => sent + 1 <= 2 * Len(log)
  /\ 2 * Len(printed) <= taken
  /\ sPc \in {"start", "bind", "accept", "len"} => taken = 2 * Len(printed)
  /\ sPc = "body"    => taken = 2 * Len(printed) + 1
  /\ sPc = "message" => taken = 2 * Len(printed) + 2

\* A piece begins with the bytes the i-th read returned.
HoldsRead(piece, i) ==
  \A j \in 1..reads[i].n : piece[j] = file[reads[i].from + j]

\* The reads cover the file without a gap up to pos, the i-th message carries
\* what the i-th read returned, and what is printed is what was encrypted.
Contents ==
  /\ Len(log) <= Len(reads)
  /\ cPc \in {"start", "open", "connect", "read", "len", "body"}
       => Len(reads) = Len(log)
  /\ cPc \in {"keys", "encrypt"} => /\ Len(reads) = Len(log) + 1
                                    /\ HoldsRead(buffer, Len(reads))
  /\ \A i \in 1..Len(reads) :
        reads[i].from = IF i = 1 THEN 0 ELSE reads[i-1].from + reads[i-1].n
  /\ pos = IF reads = <<>> THEN 0
           ELSE reads[Len(reads)].from + reads[Len(reads)].n
  /\ \A i \in 1..Len(log) : HoldsRead(PlainLog[i], i)
  /\ Len(printed) <= Len(log)
  /\ \A i \in 1..Len(printed) : printed[i] = PlainLog[i]

SafetyInv == TypeOK /\ KeyOrder /\ Framing /\ Contents /\ CollectedKeysWereUsed

-----------------------------------------------------------------------------
(* The parts of the type invariant. *)

Sae2TypeOK ==
  /\ cPc \in {"start", "open", "connect", "read", "keys", "encrypt", "len", "body",
              "done", "err", "killed", "unanswered"}
  /\ file \in Files
  /\ pos \in 0..Len(file) /\ ahead \in 0..(Len(file) - pos)
  /\ buffer \in Piece
  /\ queue \in Seq(1..Len(issued))
  /\ log \in Seq(Message)
  /\ reads \in Seq(Read)

Sae1TypeOK ==
  /\ sPc \in {"start", "bind", "accept", "len", "body", "message",
              "done", "err", "panic", "killed", "unanswered"}
  /\ printed \in Seq(Piece)

LEMMA TypeOKParts ==
  /\ TypeOK <=> FaultsTypeOK /\ TcpTypeOK /\ KmeTypeOK /\ Sae2TypeOK /\ Sae1TypeOK
  /\ TypeOK' <=> /\ FaultsTypeOK' /\ TcpTypeOK' /\ KmeTypeOK'
                 /\ Sae2TypeOK' /\ Sae1TypeOK'
BY Zenon DEF TypeOK, Sae2TypeOK, Sae1TypeOK

\* What sae_1 decrypts is what sae_2 encrypted.
LEMMA DecryptIsPlain ==
  ASSUME NEW i \in 1..Len(log)
  PROVE  PlainLog[i] = decrypt(log[i].ciphertext, Keys[log[i].key_id])
BY DEF PlainLog, new, decrypt

\* The invariant holds at the start.
LEMMA SafetyInit == Init => SafetyInv
<1> SUFFICES ASSUME Init PROVE SafetyInv
  OBVIOUS
<1>1. FaultsTypeOK
  BY MaxFaultsAssumption DEF Init, FaultsInit, FaultsTypeOK
<1>2. TcpTypeOK
  <2>1. listening \in BOOLEAN
    BY Zenon DEF Init, TcpInit
  <2> QED BY <2>1 DEF Init, TcpInit, TcpTypeOK
<1>3. KmeTypeOK
  BY EmptySeq DEF Init, KmeInit, KmeTypeOK
<1>4. Sae2TypeOK
  <2>1. file \in Files /\ Len(file) \in Nat
    BY Sae2Assumption DEF Init, Sae2Init, Bytes
  <2>2. buffer \in Piece
    BY ByteAssumption DEF Init, Sae2Init, Piece
  <2> QED BY <2>1, <2>2, EmptySeq DEF Init, Sae2Init, Sae2TypeOK
<1>5. Sae1TypeOK
  BY EmptySeq DEF Init, Sae1Init, Sae1TypeOK
<1>6. KeyOrder
  BY KeysAssumption, EmptySeq DEF Init, KmeInit, Sae2Init, KeyOrder
<1>7. Framing
  BY EmptySeq DEF Init, TcpInit, Sae2Init, Sae1Init, Framing
<1>8. Contents
  BY EmptySeq DEF Init, Sae2Init, Sae1Init, Contents
<1>9. CollectedKeysWereUsed
  BY DEF Init, KmeInit, CollectedKeysWereUsed
<1> QED BY <1>1, <1>2, <1>3, <1>4, <1>5, <1>6, <1>7, <1>8, <1>9, TypeOKParts
        DEF SafetyInv

-----------------------------------------------------------------------------
(* Steps of sae_2. *)

\* A step that only moves sae_2 on, with nothing in hand.
LEMMA Sae2Frame ==
  ASSUME SafetyInv, Fault \/ NoFault, TcpTypeOK', Framing',
         UNCHANGED <<file, pos, ahead, buffer, queue, log, reads, printed, sPc>>,
         UNCHANGED <<issued, fetched>>,
         cPc' \in {"open", "connect", "read", "len", "body",
                  "done", "err", "killed", "unanswered"},
         cPc' \in {"open", "connect", "read", "len", "body"}
           => cPc \in {"start", "open", "connect", "read", "len", "body"}
  PROVE  SafetyInv'
<1>1. FaultsTypeOK /\ KmeTypeOK /\ Sae2TypeOK /\ Sae1TypeOK
  BY TypeOKParts DEF SafetyInv
<1>2. FaultsTypeOK'
  BY <1>1, FaultsType
<1>3. KmeTypeOK' /\ Sae2TypeOK' /\ Sae1TypeOK'
  BY <1>1 DEF KmeTypeOK, Sae2TypeOK, Sae1TypeOK
<1>4. KeyOrder' /\ CollectedKeysWereUsed'
  BY DEF SafetyInv, KeyOrder, CollectedKeysWereUsed
<1>5. PlainLog' = PlainLog /\ \A piece, i : HoldsRead(piece, i)' = HoldsRead(piece, i)
  BY DEF PlainLog, HoldsRead
<1>6. Contents'
  BY <1>5 DEF SafetyInv, Contents
<1> QED BY <1>2, <1>3, <1>4, <1>6, TypeOKParts DEF SafetyInv

\* Returning closes the socket and moves no data.
LEMMA ReturnFrame ==
  ASSUME SafetyInv, NEW status, status \in {"done", "err", "killed"},
         Return(status), Fault \/ NoFault,
         UNCHANGED <<file, pos, ahead, buffer, queue, log, reads, printed, sPc>>,
         UNCHANGED <<issued, fetched>>
  PROVE  SafetyInv'
<1>1. TcpTypeOK'
  BY SocketType, TypeOKParts DEF SafetyInv, Return
<1>2. Framing'
  BY DEF SafetyInv, Framing, Return, CloseClient
<1> QED BY <1>1, <1>2, Sae2Frame DEF Return

\* A request that is never answered moves nothing else.
LEMMA UnansweredFrame ==
  ASSUME SafetyInv, cPc' = "unanswered", Fault \/ NoFault, UNCHANGED tcpVars,
         UNCHANGED <<file, pos, ahead, buffer, queue, log, reads, printed, sPc>>,
         UNCHANGED <<issued, fetched>>
  PROVE  SafetyInv'
<1>1. TcpTypeOK'
  BY TypeOKParts DEF SafetyInv, tcpVars, TcpTypeOK
<1>2. Framing'
  BY DEF SafetyInv, Framing, tcpVars
<1> QED BY <1>1, <1>2, Sae2Frame

LEMMA SafetyOpenConnect ==
  ASSUME SafetyInv, Sae2Start \/ OpenFile \/ ConectarAServidor,
         UNCHANGED sae1Vars
  PROVE  SafetyInv'
<1>1. TcpTypeOK' /\ Framing' /\ (Fault \/ NoFault)
  <2>1. CASE Sae2Start \/ OpenFile
    BY <2>1, TypeOKParts
    DEF Sae2Start, OpenFile, SafetyInv, tcpVars, sae1Vars, TcpTypeOK, Framing
  <2>2. CASE ConectarAServidor
    BY <2>2, TypeOKParts, SocketType
    DEF ConectarAServidor, Connect, SafetyInv, sae1Vars, Framing
  <2> QED BY <2>1, <2>2
<1>2. /\ UNCHANGED <<file, pos, ahead, buffer, queue, log, reads, printed, sPc>>
      /\ UNCHANGED <<issued, fetched>>
      /\ cPc \in {"start", "open", "connect"}
      /\ cPc' \in {"open", "connect", "read", "err", "killed"}
  BY DEF Sae2Start, OpenFile, ConectarAServidor, sae1Vars, kmeVars
<1> QED BY <1>1, <1>2, Sae2Frame

LEMMA SafetyWrite ==
  ASSUME SafetyInv, WriteLen \/ WriteBody, UNCHANGED sae1Vars
  PROVE  SafetyInv'
<1>1. TcpTypeOK' /\ Framing' /\ NoFault
  <2>1. TcpTypeOK' /\ NoFault
    BY TypeOKParts, PushType, SocketType
    DEF SafetyInv, WriteLen, WriteBody, WriteAll, Return, tcpVars, TcpTypeOK
  <2>2. CASE WriteLen
    BY <2>2, TypeOKParts DEF SafetyInv, Framing, WriteLen, WriteAll, Push, Return,
       CloseClient, tcpVars, TcpTypeOK, sae1Vars
  <2>3. CASE WriteBody
    BY <2>3, TypeOKParts DEF SafetyInv, Framing, WriteBody, WriteAll, Push, Return,
       CloseClient, tcpVars, TcpTypeOK, sae1Vars
  <2> QED BY <2>1, <2>2, <2>3
<1>2. /\ UNCHANGED <<file, pos, ahead, buffer, queue, log, reads, printed, sPc>>
      /\ UNCHANGED <<issued, fetched>>
      /\ cPc \in {"len", "body"} /\ cPc' \in {"body", "read", "err"}
  BY DEF WriteLen, WriteBody, WriteAll, Return, sae1Vars, kmeVars
<1> QED BY <1>1, <1>2, Sae2Frame

\* A read appends what it returned, at the position where the last one ended.
LEMMA SafetyReadPiece ==
  ASSUME SafetyInv, ReadPiece, UNCHANGED sae1Vars
  PROVE  SafetyInv'
<1> DEFINE n == Smaller(KEY_SIZE_BYTES, Fill)
<1>1. /\ FaultsTypeOK /\ TcpTypeOK /\ KmeTypeOK /\ Sae2TypeOK /\ Sae1TypeOK
      /\ cPc = "read" /\ UNCHANGED <<printed, sPc>>
      /\ UNCHANGED <<file, queue, log, issued, fetched>>
      /\ Fault \/ NoFault
  BY TypeOKParts DEF SafetyInv, ReadPiece, sae1Vars, kmeVars
<1>2. /\ file \in Bytes /\ Len(file) \in Nat /\ KEY_SIZE_BYTES \in Nat \ {0}
      /\ pos \in Nat
  BY <1>1, Sae2Assumption DEF Sae2TypeOK, Bytes
<1>3. Fill \in 0..(Len(file) - pos)
  BY <1>1, <1>2, Sae2Assumption DEF Fill, Smaller, Sae2TypeOK
<1>4. n \in 0..KEY_SIZE_BYTES /\ n <= Fill
  BY <1>2, <1>3 DEF Smaller
<1>5. ASSUME n > 0, buffer' = ReadInto(buffer, n),
             pos' = pos + n, ahead' = Fill - n,
             reads' = Append(reads, [from |-> pos, n |-> n]),
             cPc' = IF queue = <<>> THEN "keys" ELSE "encrypt",
             NoFault, UNCHANGED tcpVars
      PROVE  SafetyInv'
  <2> HIDE DEF n
  <2>1. FaultsTypeOK' /\ TcpTypeOK' /\ KmeTypeOK' /\ Sae1TypeOK'
    BY <1>1, <1>5, FaultsType DEF tcpVars, TcpTypeOK, KmeTypeOK, Sae1TypeOK
  <2>2. [from |-> pos, n |-> n] \in Read /\ reads \in Seq(Read)
    BY <1>1, <1>2, <1>4, <1>5 DEF Read, Sae2TypeOK
  <2>3. /\ reads' \in Seq(Read) /\ Len(reads') = Len(reads) + 1 /\ reads' # <<>>
        /\ \A i \in 1..Len(reads) : reads'[i] = reads[i]
        /\ reads'[Len(reads) + 1] = [from |-> pos, n |-> n]
        /\ Len(reads) \in Nat
    BY <1>5, <2>2, AppendProperties, LenProperties
  <2>4. /\ buffer' \in Piece
        /\ \A j \in 1..n : buffer'[j] = file[pos + j]
    <3>1. buffer' = [i \in 1..KEY_SIZE_BYTES |->
                       IF i <= n THEN file[pos + i] ELSE buffer[i]]
      BY <1>5 DEF ReadInto
    <3>2. \A i \in 1..n : file[pos + i] \in Byte
      BY <1>2, <1>3, <1>4 DEF Bytes
    <3>3. buffer \in [1..KEY_SIZE_BYTES -> Byte]
      BY <1>1 DEF Sae2TypeOK, Piece
    <3>4. ASSUME NEW i \in 1..KEY_SIZE_BYTES
          PROVE  (IF i <= n THEN file[pos + i] ELSE buffer[i]) \in Byte
      BY <1>2, <1>4, <3>2, <3>3
    <3>5. buffer' \in Piece
      BY <3>1, <3>4 DEF Piece
    <3>6. \A j \in 1..n : buffer'[j] = file[pos + j]
      BY <1>2, <1>4, <3>1
    <3> QED BY <3>5, <3>6
  <2>5. pos' \in 0..Len(file) /\ ahead' \in 0..(Len(file) - pos')
    BY <1>2, <1>3, <1>4, <1>5
  <2>6. Sae2TypeOK'
    BY <1>1, <1>5, <2>3, <2>4, <2>5 DEF Sae2TypeOK
  <2>7. KeyOrder' /\ CollectedKeysWereUsed'
    BY <1>1, <1>5 DEF SafetyInv, KeyOrder, CollectedKeysWereUsed
  <2>8. Framing'
    BY <1>1, <1>5 DEF SafetyInv, Framing, tcpVars
  <2>9. Contents'
    <3>1. Contents /\ Len(reads) = Len(log) /\ PlainLog' = PlainLog
      BY <1>1 DEF SafetyInv, Contents, PlainLog
    <3>2. \A i \in 1..Len(log)' : HoldsRead(PlainLog[i], i)'
      BY <1>1, <2>3, <3>1 DEF HoldsRead, Contents
    <3>3. HoldsRead(buffer, Len(reads))'
      BY <1>1, <2>3, <2>4 DEF HoldsRead
    <3>4. \A i \in 1..Len(reads') :
             reads'[i].from = IF i = 1 THEN 0 ELSE reads'[i-1].from + reads'[i-1].n
      <4>1. \A i \in 1..Len(reads) :
              reads'[i].from = IF i = 1 THEN 0 ELSE reads'[i-1].from + reads'[i-1].n
        <5>1. \A i \in 1..Len(reads) :
                reads[i].from = IF i = 1 THEN 0 ELSE reads[i-1].from + reads[i-1].n
          BY <3>1 DEF Contents
        <5> TAKE i \in 1..Len(reads)
        <5>2. reads'[i] = reads[i]
          BY <2>3
        <5>3. i # 1 => i - 1 \in 1..Len(reads) /\ reads'[i-1] = reads[i-1]
          BY <2>3
        <5> QED BY <5>1, <5>2, <5>3
      <4>2. reads'[Len(reads) + 1].from
              = IF Len(reads) + 1 = 1 THEN 0
                ELSE reads'[Len(reads)].from + reads'[Len(reads)].n
        BY <2>2, <2>3, <3>1, EmptySeq DEF Contents
      <4> QED BY <2>3, <4>1, <4>2
    <3>5. pos' = reads'[Len(reads')].from + reads'[Len(reads')].n
      BY <1>5, <2>3
    <3>6. /\ Len(log') <= Len(reads') /\ Len(reads') = Len(log') + 1
          /\ cPc' \in {"keys", "encrypt"}
          /\ Len(printed') <= Len(log')
          /\ \A i \in 1..Len(printed') : printed'[i] = PlainLog'[i]
      BY <1>1, <1>5, <2>3, <3>1 DEF Contents
    <3> QED BY <2>3, <3>2, <3>3, <3>4, <3>5, <3>6 DEF Contents
  <2> QED BY <2>1, <2>6, <2>7, <2>8, <2>9, TypeOKParts DEF SafetyInv
<1>6. CASE Return("done") \/ Return("err")
  <2>1. CASE UNCHANGED <<pos, ahead, buffer, reads>>
    BY <1>1, <1>6, <2>1, ReturnFrame
  <2> QED BY <1>5, <1>6, <2>1 DEF ReadPiece, Return
<1> QED BY <1>5, <1>6 DEF ReadPiece

\* New keys come after every key used before.
LEMMA SafetyGetKeys ==
  ASSUME SafetyInv, GetKeysAndId, UNCHANGED sae1Vars
  PROVE  SafetyInv'
<1> DEFINE K == KEYS_PER_REQUEST
<1>1. /\ FaultsTypeOK /\ TcpTypeOK /\ KmeTypeOK /\ Sae2TypeOK /\ Sae1TypeOK
      /\ cPc = "keys" /\ UNCHANGED <<printed, sPc>>
      /\ UNCHANGED <<file, pos, ahead, buffer, log, reads>>
      /\ Fault \/ NoFault
      /\ K \in Nat \ {0}
  BY TypeOKParts, Sae2Assumption DEF SafetyInv, GetKeysAndId, sae1Vars
<1>2. KeyOrder /\ Framing /\ Contents /\ CollectedKeysWereUsed /\ queue = <<>>
  BY <1>1 DEF SafetyInv, KeyOrder
<1>3. PlainLog' = PlainLog /\ \A piece, i : HoldsRead(piece, i)' = HoldsRead(piece, i)
  BY <1>1 DEF PlainLog, HoldsRead
<1>4. CASE UNCHANGED kmeVars
  <2>1. Sae2GetsNoKeys /\ UNCHANGED <<queue, issued, fetched>>
    <3>1. ~EncKeys(2, other_sae(2), K)
      <4>1. ASSUME EncKeys(2, other_sae(2), K) PROVE FALSE
        <5>1. Len(issued') = Len(issued) + K /\ Len(issued) \in Nat
          BY <1>1, <4>1, EncKeysType DEF Sae, other_sae, KmeTypeOK
        <5> QED BY <1>1, <1>4, <5>1 DEF kmeVars
      <4> QED BY <4>1
    <3> QED BY <1>4, <3>1 DEF GetKeysAndId, Sae2GetsNoKeys, kmeVars
  <2> QED BY <1>1, <2>1, ReturnFrame, UnansweredFrame DEF Sae2GetsNoKeys
<1>5. CASE EncKeys(2, other_sae(2), K) /\ CanIssue(K)
  <2>1. /\ KmeTypeOK' /\ fetched' = fetched
        /\ Len(issued') = Len(issued) + K /\ Len(issued) \in Nat
        /\ Len(issued') <= Len(Keys)
    BY <1>1, <1>5, EncKeysType DEF Sae, other_sae, KmeTypeOK, CanIssue
  <2>2. CollectedKeysWereUsed'
    BY <1>1, <1>2, <2>1 DEF CollectedKeysWereUsed
  <2>3. \A i \in 1..Len(log) : log[i].key_id \in 1..Len(issued)
    BY <1>2 DEF KeyOrder
  <2>4. FaultsTypeOK' /\ Sae1TypeOK'
    BY <1>1, FaultsType DEF Sae1TypeOK
  <2>5. CASE Sae2GetsNoKeys /\ UNCHANGED queue
    <3>1. TcpTypeOK' /\ cPc' \in {"err", "unanswered"}
      BY <1>1, <2>5, SocketType DEF Sae2GetsNoKeys, Return, tcpVars, TcpTypeOK
    <3>2. queue' \in Seq(1..Len(issued'))
      BY <1>2, <2>5, EmptySeq
    <3>3. Sae2TypeOK'
      BY <1>1, <3>1, <3>2 DEF Sae2TypeOK
    <3>4. KeyOrder'
      BY <1>1, <1>2, <2>1, <2>3, <2>5, <3>1 DEF KeyOrder
    <3>5. Framing'
      BY <1>1, <1>2, <2>5
         DEF Framing, Sae2GetsNoKeys, Return, CloseClient, tcpVars
    <3>6. Contents'
      BY <1>1, <1>2, <1>3, <3>1 DEF Contents
    <3> QED BY <2>1, <2>2, <2>4, <3>1, <3>3, <3>4, <3>5, <3>6, TypeOKParts
            DEF SafetyInv
  <2>6. ASSUME NEW m \in 1..K, queue' \in Picks(Len(issued), K, m),
               cPc' = "encrypt", UNCHANGED tcpVars
        PROVE  SafetyInv'
    <3>1. /\ queue' \in [1..m -> (Len(issued) + 1)..(Len(issued) + K)]
          /\ \A i, j \in 1..m : i < j => queue'[i] < queue'[j]
          /\ m \in Nat \ {0}
      BY <1>1, <2>6 DEF Picks
    <3>2. /\ queue' \in Seq(1..Len(issued')) /\ Len(queue') = m /\ queue' # <<>>
          /\ \A i \in 1..m : queue'[i] \in (Len(issued) + 1)..(Len(issued) + K)
      <4>1. queue' \in [1..m -> 1..Len(issued')]
        BY <1>1, <2>1, <3>1
      <4>2. queue' \in Seq(1..Len(issued')) /\ Len(queue') = m
        BY <3>1, <4>1
      <4> QED BY <3>1, <4>2, EmptySeq
    <3>3. TcpTypeOK'
      BY <1>1, <2>6 DEF tcpVars, TcpTypeOK
    <3>4. Sae2TypeOK'
      BY <1>1, <2>6, <3>2 DEF Sae2TypeOK
    <3>5. KeyOrder'
      <4>1. \A i \in 1..Len(log), j \in 1..m : log[i].key_id < queue'[j]
        BY <2>1, <2>3, <3>2
      <4>2. \A i \in 1..Len(log) : log[i].key_id \in 1..Len(issued')
        BY <1>1, <2>1, <2>3
      <4> QED BY <1>1, <1>2, <2>1, <2>6, <3>1, <3>2, <4>1, <4>2 DEF KeyOrder
    <3>6. Framing'
      BY <1>1, <1>2, <2>6 DEF Framing, tcpVars
    <3>7. Contents'
      BY <1>1, <1>2, <1>3, <2>6 DEF Contents
    <3> QED BY <2>1, <2>2, <2>4, <3>3, <3>4, <3>5, <3>6, <3>7, TypeOKParts
            DEF SafetyInv
  <2>7. CASE NoFault /\ queue' \in Picks(Len(issued), K, K) /\ cPc' = "encrypt"
             /\ UNCHANGED tcpVars
    BY <1>1, <2>6, <2>7
  <2>8. CASE \E m \in 1..(K - 1) : /\ queue' \in Picks(Len(issued), K, m)
                                   /\ cPc' = "encrypt" /\ UNCHANGED tcpVars
    BY <1>1, <2>6, <2>8
  <2>9. CASE UNCHANGED kmeVars
    BY <1>4, <2>9
  <2> QED BY <1>5, <2>5, <2>7, <2>8, <2>9 DEF GetKeysAndId
<1> QED BY <1>4, <1>5 DEF GetKeysAndId

\* The key at the front of the queue leaves it with the message it covers.
LEMMA SafetyEncrypt ==
  ASSUME SafetyInv, EncryptPiece, UNCHANGED sae1Vars
  PROVE  SafetyInv'
<1> DEFINE id == Head(queue)
<1> DEFINE msg == [key_id |-> id, ciphertext |-> new(Keys[id], buffer)]
<1>1. /\ FaultsTypeOK /\ TcpTypeOK /\ KmeTypeOK /\ Sae2TypeOK /\ Sae1TypeOK
      /\ KeyOrder /\ Framing /\ Contents /\ CollectedKeysWereUsed
      /\ cPc = "encrypt" /\ UNCHANGED <<printed, sPc, issued, fetched>>
      /\ UNCHANGED <<file, pos, ahead, buffer, reads>>
      /\ NoFault /\ queue' = Tail(queue)
      /\ KEY_SIZE_BYTES \in Nat \ {0}
  BY TypeOKParts, Sae2Assumption DEF SafetyInv, EncryptPiece, sae1Vars, kmeVars
<1>2. /\ queue \in Seq(1..Len(issued)) /\ queue # <<>>
      /\ Len(issued) \in Nat /\ Len(issued) <= Len(Keys) /\ Len(Keys) \in Nat
  BY <1>1, KeysAssumption DEF Sae2TypeOK, KeyOrder, KmeTypeOK
<1>3. /\ id \in 1..Len(issued) /\ id = queue[1]
      /\ queue' \in Seq(1..Len(issued)) /\ Len(queue') = Len(queue) - 1
      /\ \A i \in 1..Len(queue') : queue'[i] = queue[i + 1]
      /\ Len(queue) \in Nat \ {0}
  BY <1>1, <1>2, HeadTailProperties, EmptySeq
<1>4. FaultsTypeOK' /\ KmeTypeOK' /\ Sae1TypeOK'
  BY <1>1, FaultsType DEF KmeTypeOK, Sae1TypeOK
<1>5. \A i, j \in 1..Len(queue') : i < j => queue'[i] < queue'[j]
  <2>1. \A i, j \in 1..Len(queue) : i < j => queue[i] < queue[j]
    BY <1>1 DEF KeyOrder
  <2> TAKE i, j \in 1..Len(queue')
  <2> HAVE i < j
  <2>2. i + 1 \in 1..Len(queue) /\ j + 1 \in 1..Len(queue) /\ i + 1 < j + 1
    BY <1>3
  <2>3. queue'[i] = queue[i + 1] /\ queue'[j] = queue[j + 1]
    BY <1>3
  <2> QED BY <2>1, <2>2, <2>3
<1>6. CASE Return("err") /\ UNCHANGED log
  <2>1. TcpTypeOK' /\ cPc' = "err"
    BY <1>1, <1>6, SocketType DEF Return
  <2>2. Sae2TypeOK'
    BY <1>1, <1>3, <1>6, <2>1 DEF Sae2TypeOK
  <2>3. KeyOrder'
    BY <1>1, <1>3, <1>5, <1>6, <2>1 DEF KeyOrder
  <2>4. Framing' /\ CollectedKeysWereUsed'
    BY <1>1, <1>6 DEF Framing, CollectedKeysWereUsed, Return, CloseClient
  <2>5. PlainLog' = PlainLog /\ \A piece, i : HoldsRead(piece, i)' = HoldsRead(piece, i)
    BY <1>1, <1>6 DEF PlainLog, HoldsRead
  <2>6. Contents'
    BY <1>1, <1>6, <2>1, <2>5 DEF Contents
  <2> QED BY <1>4, <2>1, <2>2, <2>3, <2>4, <2>6, TypeOKParts DEF SafetyInv
<1>7. CASE /\ Len(Keys[id]) >= KEY_SIZE_BYTES /\ log' = Append(log, msg)
           /\ cPc' = "len" /\ UNCHANGED tcpVars
  <2>1. Keys[id] \in Bytes
    BY <1>2, <1>3, KeysAssumption
  <2>2. buffer \in [1..KEY_SIZE_BYTES -> Byte]
    BY <1>1 DEF Sae2TypeOK, Piece
  <2>3. /\ new(Keys[id], buffer) \in Piece
        /\ new(Keys[id], new(Keys[id], buffer)) = buffer
    BY <1>1, <1>7, <2>1, <2>2, NewIsAnInvolution DEF Piece
  <2>4. msg \in Message /\ log \in Seq(Message)
    BY <1>1, <1>2, <1>3, <2>3 DEF Message, Sae2TypeOK
  <2> HIDE DEF msg
  <2>5. /\ log' \in Seq(Message) /\ Len(log') = Len(log) + 1 /\ Len(log) \in Nat
        /\ \A i \in 1..Len(log) : log'[i] = log[i]
        /\ log'[Len(log) + 1] = msg
    BY <1>7, <2>4, AppendProperties, LenProperties
  <2>6. msg.key_id = id /\ msg.ciphertext = new(Keys[id], buffer)
    BY DEF msg
  <2>7. TcpTypeOK' /\ Sae2TypeOK'
    BY <1>1, <1>3, <1>7, <2>5 DEF tcpVars, TcpTypeOK, Sae2TypeOK
  <2>8. KeyOrder'
    <3>1. /\ \A i \in 1..Len(log) : log[i].key_id \in 1..Len(issued)
          /\ \A i, j \in 1..Len(log) : i < j => log[i].key_id < log[j].key_id
          /\ \A i, j \in 1..Len(queue) : i < j => queue[i] < queue[j]
          /\ \A i \in 1..Len(log), j \in 1..Len(queue) : log[i].key_id < queue[j]
      BY <1>1 DEF KeyOrder
    <3>2. \A i \in 1..Len(log) : log[i].key_id < id
      BY <1>3, <3>1
    <3>3. \A i \in 1..Len(log') : log'[i].key_id \in 1..Len(issued')
      <4> TAKE i \in 1..Len(log')
      <4>1. CASE i = Len(log) + 1
        BY <1>1, <1>3, <2>5, <2>6, <4>1
      <4>2. CASE i # Len(log) + 1
        <5>1. i \in 1..Len(log) /\ log'[i] = log[i]
          BY <2>5, <4>2
        <5> QED BY <1>1, <3>1, <5>1
      <4> QED BY <4>1, <4>2
    <3>4. \A i, j \in 1..Len(log') : i < j => log'[i].key_id < log'[j].key_id
      <4> TAKE i, j \in 1..Len(log')
      <4> HAVE i < j
      <4>1. i \in 1..Len(log) /\ log'[i] = log[i]
        BY <2>5
      <4>2. CASE j = Len(log) + 1
        BY <2>5, <2>6, <3>2, <4>1, <4>2
      <4>3. CASE j # Len(log) + 1
        <5>1. j \in 1..Len(log) /\ log'[j] = log[j]
          BY <2>5, <4>3
        <5> QED BY <3>1, <4>1, <5>1
      <4> QED BY <4>2, <4>3
    <3>5. \A i \in 1..Len(log'), j \in 1..Len(queue') : log'[i].key_id < queue'[j]
      <4> TAKE i \in 1..Len(log'), j \in 1..Len(queue')
      <4>1. /\ j + 1 \in 1..Len(queue) /\ queue'[j] = queue[j + 1]
            /\ 1 \in 1..Len(queue) /\ 1 < j + 1
        BY <1>3
      <4>2. CASE i = Len(log) + 1
        BY <1>3, <2>5, <2>6, <3>1, <4>1, <4>2
      <4>3. CASE i # Len(log) + 1
        <5>1. i \in 1..Len(log) /\ log'[i] = log[i]
          BY <2>5, <4>3
        <5> QED BY <3>1, <4>1, <5>1
      <4> QED BY <4>2, <4>3
    <3> QED BY <1>1, <1>2, <1>5, <1>7, <3>3, <3>4, <3>5 DEF KeyOrder
  <2>9. Framing'
    BY <1>1, <1>7, <2>5 DEF Framing, tcpVars, TcpTypeOK
  <2>10. CollectedKeysWereUsed'
    BY <1>1, <2>5 DEF CollectedKeysWereUsed
  <2>11. Contents'
    <3>1. /\ Len(PlainLog) = Len(log) /\ Len(PlainLog') = Len(log')
          /\ \A i \in 1..Len(log) :
                PlainLog[i] = new(Keys[log[i].key_id], log[i].ciphertext)
          /\ \A i \in 1..Len(log') :
                PlainLog'[i] = new(Keys[log'[i].key_id], log'[i].ciphertext)
      BY <2>5 DEF PlainLog
    <3>2. \A i \in 1..Len(log) : PlainLog'[i] = PlainLog[i]
      BY <2>5, <3>1
    <3>3. PlainLog'[Len(log) + 1] = buffer
      BY <2>3, <2>5, <2>6, <3>1
    <3>4. \A i \in 1..Len(log) : \A j \in 1..reads[i].n :
             PlainLog'[i][j] = file[reads[i].from + j]
      BY <1>1, <3>2 DEF Contents, HoldsRead
    <3>5. \A j \in 1..reads[Len(log) + 1].n :
             PlainLog'[Len(log) + 1][j] = file[reads[Len(log) + 1].from + j]
      BY <1>1, <3>3 DEF Contents, HoldsRead
    <3>6. \A i \in 1..Len(log') : \A j \in 1..reads[i].n :
             PlainLog'[i][j] = file[reads[i].from + j]
      BY <2>5, <3>4, <3>5
    <3>7. /\ Len(printed') <= Len(log')
          /\ \A i \in 1..Len(printed') : printed'[i] = PlainLog'[i]
      BY <1>1, <2>5, <3>2, LenProperties DEF Contents, Sae1TypeOK
    <3>8. Len(reads') = Len(log')
      BY <1>1, <2>5 DEF Contents
    <3>9. (\A i \in 1..Len(log) : HoldsRead(PlainLog[i], i))'
      BY <1>1, <3>6 DEF HoldsRead
    <3> QED BY <1>1, <1>7, <2>5, <3>7, <3>8, <3>9 DEF Contents
  <2> QED BY <1>4, <2>7, <2>8, <2>9, <2>10, <2>11, TypeOKParts DEF SafetyInv
<1> QED BY <1>6, <1>7 DEF EncryptPiece
-----------------------------------------------------------------------------
(* Steps of sae_1 and of the network. *)

\* A step that leaves sae_2 alone keeps what only sae_2 writes.
LEMMA Sae1Frame ==
  ASSUME SafetyInv, FaultsTypeOK', TcpTypeOK', KmeTypeOK', Sae1TypeOK', Framing',
         UNCHANGED sae2Vars, UNCHANGED issued,
         CollectedKeysWereUsed', Len(printed') <= Len(log),
         \A i \in 1..Len(printed') : printed'[i] = PlainLog[i]
  PROVE  SafetyInv'
<1>1. /\ UNCHANGED <<cPc, file, pos, ahead, buffer, queue, log, reads>>
      /\ Sae2TypeOK /\ KeyOrder /\ Contents
  BY TypeOKParts DEF SafetyInv, sae2Vars
<1>2. Sae2TypeOK' /\ KeyOrder'
  BY <1>1 DEF Sae2TypeOK, KeyOrder
<1>3. PlainLog' = PlainLog /\ \A piece, i : HoldsRead(piece, i)' = HoldsRead(piece, i)
  BY <1>1 DEF PlainLog, HoldsRead
<1>4. Contents'
  BY <1>1, <1>3 DEF Contents
<1> QED BY <1>2, <1>4, TypeOKParts DEF SafetyInv

LEMMA SafetyHandleMessage ==
  ASSUME SafetyInv, HandleMessage
  PROVE  SafetyInv'
<1> DEFINE n == taken \div 2
<1> DEFINE msg == log[n]
<1> DEFINE key == Keys[msg.key_id]
<1> DEFINE text == decrypt(msg.ciphertext, key)
<1>1. /\ FaultsTypeOK /\ TcpTypeOK /\ KmeTypeOK /\ Sae2TypeOK /\ Sae1TypeOK
      /\ KeyOrder /\ Framing /\ Contents /\ CollectedKeysWereUsed
      /\ sPc = "message" /\ UNCHANGED sae2Vars /\ (Fault \/ NoFault)
      /\ UNCHANGED issued
  BY TypeOKParts
  DEF SafetyInv, HandleMessage, get_key_from_id, DecKeys, kmeVars
<1>2. /\ log \in Seq(Message) /\ Len(log) \in Nat
      /\ printed \in Seq(Piece) /\ Len(printed) \in Nat
      /\ UNCHANGED <<cPc, file, pos, ahead, buffer, queue, log, reads>>
  BY <1>1, LenProperties DEF Sae2TypeOK, Sae1TypeOK, sae2Vars
<1>3. taken = 2 * Len(printed) + 2 /\ taken <= 2 * Len(log) /\ taken \in Nat
  BY <1>1, <1>2 DEF Framing, TcpTypeOK
<1>4. n = Len(printed) + 1 /\ n \in 1..Len(log)
  BY <1>2, <1>3
<1>5. msg \in Message
  BY <1>2, <1>4, ElementOfSeq
<1>6. FaultsTypeOK'
  BY <1>1, FaultsType
<1>7. KmeTypeOK' /\ CollectedKeysWereUsed'
  <2>1. CASE get_key_from_id(msg.key_id)
    <3>1. fetched' = fetched \cup {msg.key_id}
      BY <2>1 DEF get_key_from_id, DecKeys
    <3>2. KmeTypeOK'
      BY <1>1, <2>1, DecKeysType DEF get_key_from_id, CanGet, CanFetch
    <3>3. CollectedKeysWereUsed'
      BY <1>1, <1>2, <1>4, <3>1 DEF CollectedKeysWereUsed
    <3> QED BY <3>2, <3>3
  <2>2. CASE UNCHANGED kmeVars
    BY <1>1, <1>2, <2>2 DEF kmeVars, KmeTypeOK, CollectedKeysWereUsed
  <2> QED BY <2>1, <2>2 DEF HandleMessage
<1>8. ASSUME Leave("panic") \/ Sae1GetsNoKey, UNCHANGED printed
      PROVE  SafetyInv'
  <2>1. TcpTypeOK' /\ Sae1TypeOK'
    BY <1>1, <1>8, SocketType DEF Sae1GetsNoKey, Leave, Sae1TypeOK, tcpVars, TcpTypeOK
  <2>2. Framing'
    BY <1>1, <1>2, <1>8 DEF Framing, Sae1GetsNoKey, Leave, CloseServer, tcpVars
  <2> QED BY <1>1, <1>2, <1>6, <1>7, <1>8, <2>1, <2>2, Sae1Frame DEF Contents
<1>9. ASSUME Len(key) >= Len(msg.ciphertext), printed' = Append(printed, text),
             sPc' = "len", UNCHANGED tcpVars
      PROVE  SafetyInv'
  <2>1. text = PlainLog[n]
    BY <1>4, DecryptIsPlain
  <2>2. msg.ciphertext \in Piece /\ msg.key_id \in 1..Len(Keys)
    BY <1>5 DEF Message
  <2>3. key \in Bytes /\ KEY_SIZE_BYTES \in Nat
    BY <2>2, KeysAssumption, Sae2Assumption
  <2>4. Len(msg.ciphertext) = KEY_SIZE_BYTES
    BY <2>2, <2>3 DEF Piece
  <2>5. text \in Piece
    <3>1. \A i \in 1..KEY_SIZE_BYTES : key[i] \in Byte /\ msg.ciphertext[i] \in Byte
      BY <1>9, <2>2, <2>3, <2>4 DEF Bytes, Piece
    <3>2. \A i \in 1..KEY_SIZE_BYTES : Xor(msg.ciphertext[i], key[i]) \in Byte
      BY <3>1, XorAssumption
    <3> QED BY <2>4, <3>2 DEF decrypt, Piece
  <2> HIDE DEF text, msg, key
  <2>6. /\ printed' \in Seq(Piece) /\ Len(printed') = Len(printed) + 1
        /\ \A i \in 1..Len(printed) : printed'[i] = printed[i]
        /\ printed'[Len(printed) + 1] = text
    BY <1>2, <1>9, <2>5, AppendProperties
  <2>7. TcpTypeOK' /\ Sae1TypeOK'
    BY <1>1, <1>9, <2>6 DEF tcpVars, TcpTypeOK, Sae1TypeOK
  <2>8. Framing'
    BY <1>1, <1>2, <1>3, <1>9, <2>6 DEF Framing, tcpVars
  <2>9. \A i \in 1..Len(printed') : printed'[i] = PlainLog[i]
    <3>1. \A i \in 1..Len(printed) : printed[i] = PlainLog[i]
      BY <1>1 DEF Contents
    <3> QED BY <1>2, <1>4, <2>1, <2>6, <3>1
  <2> HIDE DEF n
  <2> QED BY <1>1, <1>2, <1>4, <1>6, <1>7, <2>6, <2>7, <2>8, <2>9, Sae1Frame
<1> QED BY <1>8, <1>9 DEF HandleMessage

\* Every other step of sae_1.
LEMMA SafetySae1 ==
  ASSUME SafetyInv, Sae1Next
  PROVE  SafetyInv'
<1>1. /\ FaultsTypeOK /\ TcpTypeOK /\ KmeTypeOK /\ Sae1TypeOK
      /\ Framing /\ Contents /\ CollectedKeysWereUsed
      /\ printed \in Seq(Piece) /\ Len(printed) \in Nat
  BY TypeOKParts, LenProperties DEF SafetyInv, Sae1TypeOK
<1>2. ASSUME Fault \/ NoFault, TcpTypeOK', Framing',
             sPc' \in {"bind", "accept", "len", "body", "message",
                       "done", "err", "panic", "killed", "unanswered"},
             UNCHANGED <<printed, sae2Vars, kmeVars>>
      PROVE  SafetyInv'
  <2>1. FaultsTypeOK' /\ KmeTypeOK' /\ Sae1TypeOK'
    BY <1>1, <1>2, FaultsType DEF kmeVars, KmeTypeOK, Sae1TypeOK
  <2>2. CollectedKeysWereUsed'
    BY <1>1, <1>2 DEF CollectedKeysWereUsed, kmeVars, sae2Vars
  <2> QED BY <1>1, <1>2, <2>1, <2>2, Sae1Frame DEF Contents, kmeVars
<1>3. ASSUME NEW status \in {"done", "err", "panic", "killed"}, Leave(status),
             UNCHANGED <<printed, sae2Vars>>
      PROVE  TcpTypeOK' /\ Framing' /\ sPc' = status
  <2>1. Framing'
    BY <1>1, <1>3 DEF Framing, Leave, CloseServer, sae2Vars
  <2> QED BY <1>1, <1>3, <2>1, SocketType DEF Leave
<1>10. CASE Sae1Start
  <2>1. CASE Leave("err") \/ Leave("panic")
    BY <1>2, <1>3, <1>10, <2>1 DEF Sae1Start
  <2>2. CASE sPc' = "bind" /\ UNCHANGED tcpVars
    <3>1. TcpTypeOK' /\ Framing'
      BY <1>1, <1>10, <2>2 DEF Sae1Start, tcpVars, TcpTypeOK, Framing, sae2Vars
    <3> QED BY <1>2, <1>10, <2>2, <3>1 DEF Sae1Start
  <2> QED BY <1>10, <2>1, <2>2 DEF Sae1Start
<1>4. CASE BindListener
  <2>1. CASE Leave("err")
    BY <1>2, <1>3, <1>4, <2>1 DEF BindListener
  <2>2. CASE Listen /\ sPc' = "accept"
    <3>1. TcpTypeOK' /\ Framing'
      BY <1>1, <1>4, <2>2, SocketType DEF BindListener, Listen, Framing, sae2Vars
    <3> QED BY <1>2, <1>4, <2>2, <3>1 DEF BindListener
  <2> QED BY <1>4, <2>1, <2>2 DEF BindListener
<1>5. CASE AcceptClient
  <2>1. CASE Leave("err")
    BY <1>2, <1>3, <1>5, <2>1 DEF AcceptClient
  <2>2. CASE sPc' = "len" /\ UNCHANGED tcpVars
    <3>1. TcpTypeOK' /\ Framing'
      BY <1>1, <1>5, <2>2 DEF AcceptClient, tcpVars, TcpTypeOK, Framing, sae2Vars
    <3> QED BY <1>2, <1>5, <2>2, <3>1 DEF AcceptClient
  <2> QED BY <1>5, <2>1, <2>2 DEF AcceptClient
<1>6. CASE ReadLen \/ ReadBody
  <2>1. CASE Leave("done") \/ Leave("panic")
    BY <1>2, <1>3, <1>6, <2>1 DEF ReadLen, ReadBody
  <2>2. CASE /\ Available > 0 /\ Take(1)
             /\ (sPc = "len" /\ sPc' = "body") \/ (sPc = "body" /\ sPc' = "message")
    <3>1. TcpTypeOK'
      BY <1>1, <2>2, TakeType DEF TcpTypeOK, Available
    <3>2. Framing'
      BY <1>1, <1>6, <2>2 DEF ReadLen, ReadBody, Take, Framing, sae2Vars
    <3> QED BY <1>2, <1>6, <2>2, <3>1, <3>2 DEF ReadLen, ReadBody
  <2> QED BY <1>6, <2>1, <2>2 DEF ReadLen, ReadBody
<1>7. CASE Sae1Killed
  BY <1>2, <1>3, <1>7 DEF Sae1Killed
<1> QED BY <1>4, <1>5, <1>6, <1>7, <1>10, SafetyHandleMessage
        DEF Sae1Next, Sae1Step

\* The network, the end, and stuttering.
LEMMA SafetyRest ==
  ASSUME SafetyInv, NetworkNext \/ Over \/ UNCHANGED vars
  PROVE  SafetyInv'
<1>1. /\ FaultsTypeOK /\ TcpTypeOK /\ KmeTypeOK /\ Sae1TypeOK
      /\ Framing /\ Contents /\ CollectedKeysWereUsed
      /\ UNCHANGED <<printed, sPc, issued, fetched>> /\ UNCHANGED sae2Vars
  BY TypeOKParts DEF SafetyInv, NetworkNext, Over, vars, kmeVars, sae1Vars
<1>2. FaultsTypeOK' /\ TcpTypeOK'
  <2>1. CASE NetworkNext
    BY <1>1, <2>1, NetworkType, FaultsType DEF NetworkNext, Arrive, Reset
  <2>2. CASE UNCHANGED vars
    BY <1>1, <2>2 DEF vars, tcpVars, FaultsTypeOK, TcpTypeOK
  <2> QED BY <2>1, <2>2 DEF Over
<1>3. KmeTypeOK' /\ Sae1TypeOK' /\ CollectedKeysWereUsed'
  BY <1>1 DEF KmeTypeOK, Sae1TypeOK, CollectedKeysWereUsed, sae2Vars
<1>4. Framing'
  <2>1. taken' = taken /\ sent' <= sent
    BY <1>1 DEF NetworkNext, Arrive, Reset, Over, vars, tcpVars, TcpTypeOK
  <2>2. sent \in Nat /\ sent' \in Nat
    BY <1>1, <1>2 DEF TcpTypeOK
  <2>3. Len(log) \in Nat
    BY TypeOKParts, LenProperties DEF SafetyInv, Sae2TypeOK
  <2> QED BY <1>1, <2>1, <2>2, <2>3 DEF Framing, sae2Vars
<1> QED BY <1>1, <1>2, <1>3, <1>4, Sae1Frame DEF Contents

\* The safety invariant holds in every reachable state, whatever fails.
THEOREM SafetyInvariant == Spec => []SafetyInv
<1>1. ASSUME SafetyInv, Sae2Next
      PROVE  SafetyInv'
  <2>1. CASE Sae2Killed
    BY <1>1, <2>1, ReturnFrame DEF Sae2Next, Sae2Killed, sae1Vars, kmeVars
  <2> QED BY <1>1, <2>1, SafetyOpenConnect, SafetyReadPiece, SafetyGetKeys,
             SafetyEncrypt, SafetyWrite DEF Sae2Next, Sae2Step
<1>2. SafetyInv /\ [Next]_vars => SafetyInv'
  BY <1>1, SafetySae1, SafetyRest DEF Next
<1> QED BY <1>2, SafetyInit, PTL DEF Spec

\* Every variable keeps its type.
THEOREM TypeCorrect == Spec => []TypeOK
<1>1. SafetyInv => TypeOK
  BY DEF SafetyInv
<1> QED BY <1>1, SafetyInvariant, PTL

\* No key of the KME covers two pieces of the file (sae.rs:54, 130), however
\* the requests were answered or failed.
THEOREM KeysAreOneTime == Spec => []OneTimeKeys
<1>1. SafetyInv => OneTimeKeys
  <2> SUFFICES ASSUME SafetyInv, NEW i \in 1..Len(log), NEW j \in 1..Len(log),
                      log[i].key_id = log[j].key_id
               PROVE  i = j
    BY DEF OneTimeKeys
  <2>1. Len(log) \in Nat
    BY TypeOKParts, LenProperties DEF SafetyInv, Sae2TypeOK
  <2>2. log[i].key_id \in Nat /\ log[j].key_id \in Nat
    BY TypeOKParts DEF SafetyInv, KeyOrder, KmeTypeOK
  <2>3. ~(i < j) /\ ~(j < i)
    BY <2>2 DEF SafetyInv, KeyOrder
  <2> QED BY <2>1, <2>3
<1> QED BY <1>1, SafetyInvariant, PTL

\* sae_1 collects no key that sae_2 did not use (sae.rs:169).
THEOREM CollectedKeysAreUsed == Spec => []CollectedKeysWereUsed
<1>1. SafetyInv => CollectedKeysWereUsed
  BY DEF SafetyInv
<1> QED BY <1>1, SafetyInvariant, PTL

\* What sae_1 prints follows the file, piece after piece, without a byte
\* lost, repeated or moved, wherever the stream is cut.
THEOREM PrintedFollowsTheFile == Spec => []PrintedInFileOrder
<1>1. SafetyInv => PrintedInFileOrder
  <2> SUFFICES ASSUME SafetyInv PROVE PrintedInFileOrder
    OBVIOUS
  <2>1. /\ Contents /\ Len(log) \in Nat /\ Len(reads) \in Nat
        /\ Len(printed) \in Nat
    BY TypeOKParts, LenProperties DEF SafetyInv, Sae2TypeOK, Sae1TypeOK
  <2>2. Len(printed) <= Len(log) /\ Len(log) <= Len(reads)
    BY <2>1 DEF Contents
  <2>3. ASSUME NEW i \in 1..Len(printed)
        PROVE  /\ \A j \in 1..reads[i].n : printed[i][j] = file[reads[i].from + j]
               /\ reads[i].from = IF i = 1 THEN 0
                                  ELSE reads[i-1].from + reads[i-1].n
    <3>1. i \in 1..Len(log) /\ i \in 1..Len(reads)
      BY <2>1, <2>2
    <3>2. printed[i] = PlainLog[i] /\ HoldsRead(PlainLog[i], i)
      BY <2>1, <3>1 DEF Contents
    <3> QED BY <2>1, <3>1, <3>2 DEF Contents, HoldsRead
  <2> QED BY <2>1, <2>2, <2>3 DEF PrintedInFileOrder
<1> QED BY <1>1, SafetyInvariant, PTL

-----------------------------------------------------------------------------
(* The demo implements ChunkTransfer. *)

\* An encrypted piece joins those sae_2 has produced.
LEMMA PlainLogGrows ==
  ASSUME SafetyInv, EncryptPiece
  PROVE  \/ PlainLog' = PlainLog
         \/ \E p \in Piece : PlainLog' = Append(PlainLog, p)
<1> DEFINE id == Head(queue)
<1> DEFINE msg == [key_id |-> id, ciphertext |-> new(Keys[id], buffer)]
<1>1. CASE UNCHANGED log
  BY <1>1 DEF PlainLog
<1>2. CASE Len(Keys[id]) >= KEY_SIZE_BYTES /\ log' = Append(log, msg)
  <2>1. /\ log \in Seq(Message) /\ Len(log) \in Nat
        /\ buffer \in [1..KEY_SIZE_BYTES -> Byte] /\ KEY_SIZE_BYTES \in Nat \ {0}
    BY TypeOKParts, Sae2Assumption, LenProperties
    DEF SafetyInv, Sae2TypeOK, Piece
  <2>2. id \in 1..Len(Keys)
    <3>0. Sae2TypeOK /\ KeyOrder /\ KmeTypeOK /\ cPc = "encrypt"
      BY TypeOKParts DEF SafetyInv, EncryptPiece
    <3>1. /\ queue \in Seq(1..Len(issued)) /\ queue # <<>>
          /\ Len(issued) \in Nat /\ Len(issued) <= Len(Keys) /\ Len(Keys) \in Nat
      BY <3>0, KeysAssumption DEF Sae2TypeOK, KeyOrder, KmeTypeOK
    <3>2. id \in 1..Len(issued)
      BY <3>1, HeadTailProperties, EmptySeq
    <3> QED BY <3>1, <3>2
  <2>3. Keys[id] \in Bytes
    BY <2>2, KeysAssumption
  <2>4. /\ new(Keys[id], buffer) \in Piece
        /\ new(Keys[id], new(Keys[id], buffer)) = buffer
    BY <1>2, <2>1, <2>3, NewIsAnInvolution DEF Piece
  <2>5. msg \in Message
    BY <2>2, <2>4 DEF Message
  <2>6. msg.key_id = id /\ msg.ciphertext = new(Keys[id], buffer)
    OBVIOUS
  <2> HIDE DEF msg
  <2>7. /\ Len(log') = Len(log) + 1
        /\ \A i \in 1..Len(log) : log'[i] = log[i]
        /\ log'[Len(log) + 1] = msg
    BY <1>2, <2>1, <2>5, AppendProperties
  <2>8. /\ PlainLog' = [i \in 1..(Len(log) + 1) |->
                          new(Keys[log'[i].key_id], log'[i].ciphertext)]
        /\ Len(PlainLog) = Len(log)
        /\ \A i \in 1..Len(log) :
              PlainLog[i] = new(Keys[log[i].key_id], log[i].ciphertext)
    BY <2>1, <2>7 DEF PlainLog
  <2>9. PlainLog' = [i \in 1..(Len(log) + 1) |->
                       IF i <= Len(log) THEN PlainLog[i] ELSE buffer]
    <3>1. ASSUME NEW i \in 1..(Len(log) + 1)
          PROVE  new(Keys[log'[i].key_id], log'[i].ciphertext)
                   = IF i <= Len(log) THEN PlainLog[i] ELSE buffer
      <4>1. CASE i <= Len(log)
        BY <2>1, <2>7, <2>8, <4>1
      <4>2. CASE i = Len(log) + 1
        BY <2>1, <2>4, <2>6, <2>7, <4>2
      <4> QED BY <2>1, <4>1, <4>2
    <3> QED BY <2>8, <3>1
  <2> DEFINE S == {PlainLog[i] : i \in 1..Len(log)} \cup {buffer}
  <2>10. PlainLog \in Seq(S) /\ buffer \in S /\ PlainLog' \in Seq(S)
    <3>1. PlainLog = [i \in 1..Len(log) |-> PlainLog[i]]
      BY <2>1 DEF PlainLog
    <3>2. ASSUME NEW i \in 1..(Len(log) + 1)
          PROVE  (IF i <= Len(log) THEN PlainLog[i] ELSE buffer) \in S
      BY <2>1
    <3>3. (\A i \in 1..Len(log) : PlainLog[i] \in S) /\ buffer \in S
      OBVIOUS
    <3> HIDE DEF S
    <3>4. PlainLog \in Seq(S)
      <4>1. [i \in 1..Len(log) |-> PlainLog[i]] \in Seq(S)
        BY <2>1, <3>3
      <4> QED BY <3>1, <4>1
    <3>5. PlainLog' \in Seq(S)
      <4>1. [i \in 1..(Len(log) + 1) |->
               IF i <= Len(log) THEN PlainLog[i] ELSE buffer] \in Seq(S)
        BY <2>1, <3>2
      <4> QED BY <2>9, <4>1
    <3> QED BY <3>3, <3>4, <3>5
  <2> HIDE DEF S
  <2>11. PlainLog' = Append(PlainLog, buffer)
    <3>1. /\ Append(PlainLog, buffer) \in Seq(S)
          /\ Len(Append(PlainLog, buffer)) = Len(log) + 1
          /\ \A i \in 1..Len(log) : Append(PlainLog, buffer)[i] = PlainLog[i]
          /\ Append(PlainLog, buffer)[Len(log) + 1] = buffer
      BY <2>8, <2>10, AppendProperties
    <3>2. /\ Len(PlainLog') = Len(log) + 1
          /\ \A i \in 1..Len(log) : PlainLog'[i] = PlainLog[i]
          /\ PlainLog'[Len(log) + 1] = buffer
      BY <2>1, <2>9
    <3>3. \A i \in 1..(Len(log) + 1) :
             PlainLog'[i] = Append(PlainLog, buffer)[i]
      BY <2>1, <3>1, <3>2
    <3> QED BY <2>10, <3>1, <3>2, <3>3, SeqEqual
  <2>12. buffer \in Piece
    BY <2>1 DEF Piece
  <2> QED BY <2>11, <2>12
<1> QED BY <1>1, <1>2 DEF EncryptPiece

\* A printed piece is the next one that was produced.
LEMMA PrintedIsNext ==
  ASSUME SafetyInv, HandleMessage
  PROVE  \/ printed' = printed
         \/ /\ Len(printed) < Len(PlainLog)
            /\ printed' = Append(printed, PlainLog[Len(printed) + 1])
<1>1. /\ taken = 2 * Len(printed) + 2 /\ taken <= 2 * Len(log) /\ taken \in Nat
      /\ Len(printed) \in Nat /\ Len(log) \in Nat
  BY TypeOKParts, LenProperties
  DEF SafetyInv, HandleMessage, Framing, TcpTypeOK, Sae1TypeOK, Sae2TypeOK
<1>2. taken \div 2 = Len(printed) + 1 /\ Len(printed) + 1 \in 1..Len(log)
  BY <1>1
<1>3. Len(PlainLog) = Len(log)
  BY <1>1 DEF PlainLog
<1>4. PlainLog[Len(printed) + 1]
        = decrypt(log[taken \div 2].ciphertext, Keys[log[taken \div 2].key_id])
  BY <1>2, DecryptIsPlain
<1> QED BY <1>1, <1>2, <1>3, <1>4 DEF HandleMessage

\* Every step of the pair is a step of the transfer, or none.
LEMMA TransferNext ==
  ASSUME SafetyInv, [Next]_vars
  PROVE  [Transfer!Next]_(Transfer!vars)
<1> USE DEF Transfer!Next, Transfer!Produce, Transfer!Deliver, Transfer!Stop,
            Transfer!vars
<1>1. CASE Sae2Next
  <2>1. UNCHANGED <<printed, sPc>>
    BY <1>1 DEF Sae2Next, sae1Vars
  <2>2. Sae1Stopped' = Sae1Stopped
    BY <2>1 DEF Sae1Stopped
  <2>3. CASE EncryptPiece
    BY <2>1, <2>2, <2>3, PlainLogGrows
  <2>4. CASE UNCHANGED log
    <3>1. PlainLog' = PlainLog
      BY <2>4 DEF PlainLog
    <3> QED BY <2>1, <2>2, <3>1
  <2> QED BY <1>1, <2>3, <2>4
          DEF Sae2Next, Sae2Step, Sae2Killed, Sae2Start, OpenFile, ConectarAServidor,
              ReadPiece, GetKeysAndId, WriteLen, WriteBody, WriteAll
<1>2. CASE Sae1Next
  <2>1. PlainLog' = PlainLog
    BY <1>2 DEF Sae1Next, Sae1Step, BindListener, AcceptClient, ReadLen,
       ReadBody, HandleMessage, Sae1Start, Sae1Killed, sae2Vars, PlainLog
  <2>2. ~Sae1Stopped
    BY <1>2 DEF Sae1Next, Sae1Step, BindListener, AcceptClient, ReadLen,
       ReadBody, HandleMessage, Sae1Start, Sae1Killed, Sae1Stopped
  <2>3. CASE UNCHANGED printed
    <3>1. CASE Sae1Stopped'
      BY <2>1, <2>2, <2>3, <3>1
    <3>2. CASE ~Sae1Stopped'
      BY <2>1, <2>2, <2>3, <3>2
    <3> QED BY <3>1, <3>2
  <2>4. CASE HandleMessage /\ printed' # printed
    <3>1. sPc' = "len"
      BY <2>4 DEF HandleMessage
    <3>2. ~Sae1Stopped'
      BY <3>1 DEF Sae1Stopped
    <3> QED BY <2>1, <2>2, <2>4, <3>2, PrintedIsNext
  <2> QED BY <1>2, <2>3, <2>4
          DEF Sae1Next, Sae1Step, BindListener, AcceptClient, ReadLen,
              ReadBody, Sae1Start, Sae1Killed
<1>3. CASE NetworkNext \/ Over \/ UNCHANGED vars
  BY <1>3 DEF NetworkNext, Over, vars, sae2Vars, sae1Vars, PlainLog, Sae1Stopped
<1> QED BY <1>1, <1>2, <1>3 DEF Next

\* The demo implements ChunkTransfer: what sae_2 encrypted comes out of sae_1
\* once, whole and in order, until sae_1 gives up, whatever is lost.
THEOREM PairImplementsTransfer == Spec => ImplementsTransfer
<1>1. Init => Transfer!Init
  <2> SUFFICES ASSUME Init PROVE Transfer!Init
    OBVIOUS
  <2>1. log = <<>> /\ printed = <<>> /\ sPc = "start"
    BY DEF Init, Sae2Init, Sae1Init
  <2>2. PlainLog = <<>>
    BY <2>1 DEF PlainLog
  <2> QED BY <2>1, <2>2 DEF Transfer!Init, Sae1Stopped
<1>2. SafetyInv /\ [Next]_vars => [Transfer!Next]_(Transfer!vars)
  BY TransferNext
<1> QED BY <1>1, <1>2, SafetyInvariant, PTL
        DEF Spec, ImplementsTransfer, Transfer!Spec
-----------------------------------------------------------------------------
(* A run in which nothing fails. *)

\* What a run without failures takes for granted: the link makes keys long
\* enough and as many as the requests can ask for, and the file is text
\* wherever it is cut.
HonestSetting ==
  /\ \A id \in 1..Len(Keys) : Len(Keys[id]) >= KEY_SIZE_BYTES
  /\ \A text \in Piece : ValidUtf8(text)
  /\ \A f \in Files : Len(f) + KEYS_PER_REQUEST <= Len(Keys) + 1

\* sae_2 gives up nowhere: the connection is as its program counter says, the
\* stream is what the messages need, and every key issued was used or waits in
\* the queue.
HonestSender ==
  /\ cPc \in {"start", "open", "connect", "read", "keys", "encrypt", "len", "body",
              "done"}
  /\ cPc \in {"start", "open", "connect"} => link = "none"
  /\ cPc \in {"read", "keys", "encrypt", "len", "body"} => link = "open"
  /\ cPc = "done" => link = "closed" /\ pos = Len(file) /\ Len(reads) = Len(log)
  /\ cPc = "len"  => sent + 2 = 2 * Len(log)
  /\ cPc = "body" => sent + 1 = 2 * Len(log)
  /\ cPc \notin {"len", "body"} => sent = 2 * Len(log)
  /\ Len(reads) <= pos
  /\ Len(issued) = Len(log) + Len(queue)
  /\ \A id \in 1..Len(issued) : issued[id] = [master |-> 2, slave |-> 1]

\* sae_1 collects the keys of what it prints, and leaves after the last frame.
HonestReceiver ==
  /\ sPc \in {"start", "bind", "accept", "len", "body", "message", "done"}
  /\ sPc = "done" => cPc = "done" /\ taken = sent /\ taken = 2 * Len(printed)
  /\ fetched = {log[i].key_id : i \in 1..Len(printed)}

HonestInv == HonestSender /\ HonestReceiver

\* The parts of the safety invariant an honest run rests on.
LEMMA HonestTypes ==
  SafetyInv =>
    /\ FaultsTypeOK /\ TcpTypeOK /\ KmeTypeOK /\ Sae2TypeOK /\ Sae1TypeOK
    /\ KeyOrder /\ Framing /\ Contents
    /\ file \in Bytes /\ Len(file) \in Nat /\ pos \in Nat
    /\ Len(log) \in Nat /\ Len(reads) \in Nat /\ Len(printed) \in Nat
    /\ Len(queue) \in Nat /\ Len(issued) \in Nat /\ Len(Keys) \in Nat
    /\ faults \in Nat
<1> HAVE SafetyInv
<1>1. FaultsTypeOK /\ TcpTypeOK /\ KmeTypeOK /\ Sae2TypeOK /\ Sae1TypeOK
  BY TypeOKParts DEF SafetyInv
<1>2. /\ Len(log) \in Nat /\ Len(reads) \in Nat /\ Len(printed) \in Nat
      /\ Len(queue) \in Nat /\ Len(issued) \in Nat /\ Len(Keys) \in Nat
  BY <1>1, LenProperties, KeysAssumption DEF Sae2TypeOK, Sae1TypeOK, KmeTypeOK
<1>3. file \in Bytes /\ Len(file) \in Nat /\ pos \in Nat
  BY <1>1, Sae2Assumption DEF Sae2TypeOK, Bytes
<1>4. faults \in Nat
  BY <1>1, MaxFaultsAssumption DEF FaultsTypeOK
<1> QED BY <1>1, <1>2, <1>3, <1>4 DEF SafetyInv

\* The steps of sae_2 but those on the file and the keys.
LEMMA HonestConnection ==
  ASSUME SafetyInv, HonestInv, ~Fault, UNCHANGED sae1Vars,
         Sae2Start \/ OpenFile \/ ConectarAServidor \/ WriteLen \/ WriteBody
  PROVE  HonestInv'
<1>1. /\ UNCHANGED <<file, pos, queue, log, reads, printed, sPc, issued, fetched>>
      /\ taken' = taken /\ sent \in Nat /\ cPc # "done"
  BY HonestTypes DEF Sae2Start, OpenFile, ConectarAServidor, WriteLen, WriteBody,
     WriteAll, Push, Return, CloseClient, Connect, tcpVars, kmeVars, sae1Vars,
     TcpTypeOK
<1>2. HonestReceiver'
  BY <1>1 DEF HonestInv, HonestReceiver
<1>3. CASE Sae2Start \/ OpenFile \/ ConectarAServidor
  <2>1. /\ sent' = sent
        /\ \/ cPc = "start" /\ cPc' = "open" /\ link' = link
           \/ cPc = "open" /\ cPc' = "connect" /\ link' = link
           \/ cPc = "connect" /\ cPc' = "read" /\ link' = "open"
    BY <1>3 DEF Sae2Start, OpenFile, ConectarAServidor, Connect, tcpVars
  <2> QED BY <1>1, <1>2, <2>1 DEF HonestInv, HonestSender
<1>4. CASE WriteLen \/ WriteBody
  <2>1. /\ \/ cPc = "len" /\ cPc' = "body"
           \/ cPc = "body" /\ cPc' = "read"
        /\ sent' = sent + 1 /\ link = "open" /\ link' = "open"
    BY <1>4 DEF HonestInv, HonestSender, WriteLen, WriteBody, WriteAll, Push
  <2>2. HonestSender
    BY DEF HonestInv
  <2>3. Len(log) \in Nat /\ Len(log') = Len(log)
    BY <1>1, HonestTypes
  <2> QED BY <1>1, <1>2, <2>1, <2>2, <2>3 DEF HonestInv, HonestSender
<1> QED BY <1>2, <1>3, <1>4 DEF HonestInv

\* A read returns at least a byte, and reports the end only at the end.
LEMMA HonestReadPiece ==
  ASSUME SafetyInv, HonestInv, ~Fault, UNCHANGED sae1Vars, ReadPiece
  PROVE  HonestInv'
<1> DEFINE n == Smaller(KEY_SIZE_BYTES, Fill)
<1>1. /\ UNCHANGED <<file, queue, log, printed, sPc, issued, fetched>>
      /\ taken' = taken /\ sent' = sent /\ cPc = "read" /\ link = "open"
      /\ KEY_SIZE_BYTES \in Nat \ {0} /\ ReaderCapacity \in Nat \ {0}
  BY Sae2Assumption DEF HonestInv, HonestSender, ReadPiece, Return, CloseClient,
     tcpVars, kmeVars, sae1Vars
<1>2. Fill \in Nat /\ (Fill = 0 => pos = Len(file))
  <2>1. pos \in 0..Len(file) /\ ahead \in 0..(Len(file) - pos) /\ Len(file) \in Nat
    BY HonestTypes DEF Sae2TypeOK
  <2> QED BY <1>1, <2>1 DEF Fill, Smaller
<1>3. n \in 0..KEY_SIZE_BYTES /\ (n = 0 => pos = Len(file))
  BY <1>1, <1>2 DEF Smaller
<1>4. HonestReceiver'
  BY <1>1 DEF HonestInv, HonestReceiver
<1>5. CASE /\ n > 0 /\ pos' = pos + n /\ UNCHANGED tcpVars
           /\ reads' = Append(reads, [from |-> pos, n |-> n])
           /\ cPc' = IF queue = <<>> THEN "keys" ELSE "encrypt"
  <2> HIDE DEF n
  <2>0. reads \in Seq(Read) /\ pos \in Nat
    BY HonestTypes DEF Sae2TypeOK
  <2>1. [from |-> pos, n |-> n] \in Read
    BY <1>1, <1>3, <1>5, <2>0 DEF Read
  <2>2. Len(reads') = Len(reads) + 1
    BY <1>5, <2>0, <2>1, AppendProperties
  <2>3. HonestSender /\ link' = "open" /\ Len(reads) \in Nat /\ pos \in Nat
        /\ cPc' \in {"keys", "encrypt"}
    BY <1>1, <1>5, HonestTypes DEF HonestInv, tcpVars
  <2> QED BY <1>1, <1>3, <1>4, <1>5, <2>2, <2>3 DEF HonestInv, HonestSender
<1>6. CASE n = 0 /\ Return("done") /\ UNCHANGED <<pos, reads>>
  <2>1. Len(reads) = Len(log)
    BY <1>1, HonestTypes DEF Contents
  <2> QED BY <1>1, <1>3, <1>4, <1>6, <2>1
          DEF HonestInv, HonestSender, Return, CloseClient
<1> QED BY <1>5, <1>6 DEF ReadPiece

\* A request is made for a piece not yet sent, so the link still has the keys.
LEMMA HonestGetKeys ==
  ASSUME HonestSetting, SafetyInv, HonestInv, ~Fault, UNCHANGED sae1Vars,
         GetKeysAndId
  PROVE  HonestInv'
<1> DEFINE K == KEYS_PER_REQUEST
<1>1. /\ UNCHANGED <<file, pos, log, reads, printed, sPc>>
      /\ cPc = "keys" /\ K \in Nat \ {0} /\ HonestSender /\ HonestReceiver
  BY Sae2Assumption DEF HonestInv, GetKeysAndId, sae1Vars
<1>2. /\ queue = <<>> /\ Len(issued) \in Nat /\ Len(log) \in Nat
      /\ KmeTypeOK
  BY <1>1, HonestTypes DEF KeyOrder
<1>3. CanIssue(K)
  <2>1. /\ pos \in 0..Len(file) /\ file \in Files /\ Len(file) \in Nat
        /\ Len(Keys) \in Nat
    BY HonestTypes DEF Sae2TypeOK
  <2>2. Len(reads) = Len(log) + 1
    BY <1>1, HonestTypes DEF Contents
  <2>3. Len(issued) = Len(log) /\ Len(reads) <= pos
    BY <1>1, <1>2, EmptySeq DEF HonestSender
  <2>4. Len(file) + K <= Len(Keys) + 1
    BY <2>1 DEF HonestSetting
  <2> QED BY <1>1, <1>2, <2>1, <2>2, <2>3, <2>4 DEF CanIssue
<1>4. /\ EncKeys(2, 1, K) /\ queue' \in Picks(Len(issued), K, K)
      /\ cPc' = "encrypt" /\ UNCHANGED tcpVars
  BY <1>3 DEF GetKeysAndId, other_sae
<1>5. /\ Len(issued') = Len(issued) + K /\ fetched' = fetched
      /\ \A id \in 1..Len(issued) : issued'[id] = issued[id]
      /\ \A id \in (Len(issued) + 1)..(Len(issued) + K) :
            issued'[id] = [master |-> 2, slave |-> 1]
  BY <1>1, <1>2, <1>4, EncKeysType DEF Sae
<1>6. Len(queue') = K /\ Len(queue) = 0
  BY <1>1, <1>2, <1>4, EmptySeq DEF Picks
<1>7. \A id \in 1..Len(issued') : issued'[id] = [master |-> 2, slave |-> 1]
  <2>1. \A id \in 1..Len(issued) : issued[id] = [master |-> 2, slave |-> 1]
    BY <1>1 DEF HonestSender
  <2> QED BY <1>1, <1>2, <1>5, <2>1
<1>8. HonestSender'
  BY <1>1, <1>2, <1>4, <1>5, <1>6, <1>7 DEF HonestSender, tcpVars
<1>9. HonestReceiver'
  BY <1>1, <1>4, <1>5 DEF HonestReceiver, tcpVars
<1> QED BY <1>8, <1>9 DEF HonestInv

\* A key is long enough, and it leaves the queue with the message it covers.
LEMMA HonestEncrypt ==
  ASSUME HonestSetting, SafetyInv, HonestInv, UNCHANGED sae1Vars, EncryptPiece
  PROVE  HonestInv'
<1> DEFINE id == Head(queue)
<1> DEFINE msg == [key_id |-> id, ciphertext |-> new(Keys[id], buffer)]
<1>1. /\ UNCHANGED <<file, pos, reads, printed, sPc, issued, fetched>>
      /\ cPc = "encrypt" /\ HonestSender /\ HonestReceiver
      /\ queue' = Tail(queue) /\ KEY_SIZE_BYTES \in Nat \ {0}
  BY Sae2Assumption DEF HonestInv, EncryptPiece, sae1Vars, kmeVars
<1>2. /\ queue \in Seq(1..Len(issued)) /\ queue # <<>> /\ log \in Seq(Message)
      /\ Len(queue) \in Nat /\ Len(log) \in Nat
      /\ Len(issued) \in Nat /\ Len(issued) <= Len(Keys) /\ Len(Keys) \in Nat
  BY <1>1, HonestTypes DEF Sae2TypeOK, KeyOrder
<1>3. id \in 1..Len(Keys) /\ Len(queue') = Len(queue) - 1
  BY <1>1, <1>2, HeadTailProperties, EmptySeq
<1>4. Keys[id] \in Bytes /\ Len(Keys[id]) \in Nat
  BY <1>3, KeysAssumption DEF Bytes
<1>5. Len(Keys[id]) >= KEY_SIZE_BYTES
  BY <1>3 DEF HonestSetting
<1>6. log' = Append(log, msg) /\ cPc' = "len" /\ UNCHANGED tcpVars
  BY <1>1, <1>4, <1>5 DEF EncryptPiece
<1>7. msg \in Message
  <2>1. buffer \in [1..KEY_SIZE_BYTES -> Byte]
    BY HonestTypes DEF Sae2TypeOK, Piece
  <2>2. new(Keys[id], buffer) \in Piece
    BY <1>1, <1>4, <1>5, <2>1, NewIsAnInvolution DEF Piece
  <2> QED BY <1>3, <2>2 DEF Message
<1> HIDE DEF msg
<1>8. /\ Len(log') = Len(log) + 1
      /\ \A i \in 1..Len(log) : log'[i] = log[i]
  BY <1>2, <1>6, <1>7, AppendProperties
<1>9. HonestSender'
  BY <1>1, <1>2, <1>3, <1>6, <1>8 DEF HonestSender, tcpVars
<1>10. HonestReceiver'
  <2>1. Len(printed) \in Nat /\ Len(printed) <= Len(log)
    BY HonestTypes DEF Contents
  <2>2. ASSUME NEW i \in 1..Len(printed) PROVE log'[i] = log[i]
    <3>1. i \in 1..Len(log)
      BY <1>2, <2>1
    <3> QED BY <1>8, <3>1
  <2> QED BY <1>1, <1>6, <2>2 DEF HonestReceiver, tcpVars
<1> QED BY <1>9, <1>10 DEF HonestInv

\* Every step of sae_2.
LEMMA HonestSae2 ==
  ASSUME HonestSetting, SafetyInv, HonestInv, ~Fault, Sae2Next
  PROVE  HonestInv'
BY HonestConnection, HonestReadPiece, HonestGetKeys, HonestEncrypt
DEF Sae2Next, Sae2Step, Sae2Killed

\* The KME gives sae_1 the key of the message at hand, which decrypts to text.
LEMMA HonestHandleMessage ==
  ASSUME HonestSetting, SafetyInv, HonestInv, ~Fault, HandleMessage
  PROVE  HonestInv'
<1> DEFINE n == Len(printed) + 1
<1> DEFINE msg == log[n]
<1> DEFINE key == Keys[msg.key_id]
<1> DEFINE text == decrypt(msg.ciphertext, key)
<1>1. /\ HonestSender /\ HonestReceiver /\ sPc = "message"
      /\ UNCHANGED <<cPc, file, pos, queue, log, reads, issued>>
  BY DEF HonestInv, HandleMessage, sae2Vars, get_key_from_id, DecKeys, kmeVars
<1>2. /\ log \in Seq(Message) /\ Len(log) \in Nat
      /\ printed \in Seq(Piece) /\ Len(printed) \in Nat
      /\ KeyOrder /\ Len(issued) \in Nat
      /\ taken = 2 * Len(printed) + 2 /\ taken <= 2 * Len(log)
  <2>1. Framing /\ TcpTypeOK /\ Len(log) \in Nat
    BY HonestTypes
  <2>2. taken = 2 * Len(printed) + 2 /\ taken <= 2 * Len(log)
    BY <1>1, <2>1 DEF Framing, TcpTypeOK
  <2> QED BY <2>2, HonestTypes DEF Sae2TypeOK, Sae1TypeOK
<1>3. n \in 1..Len(log) /\ taken \div 2 = n
  BY <1>2
<1> HIDE DEF n
<1>4. msg.key_id \in 1..Len(Keys) /\ msg.ciphertext \in Piece
  <2>1. msg \in Message
    BY <1>2, <1>3, ElementOfSeq
  <2> QED BY <2>1 DEF Message
<1>5. CanGet(msg.key_id)
  <2>1. msg.key_id \in 1..Len(issued)
    BY <1>2, <1>3 DEF KeyOrder
  <2>2. issued[msg.key_id] = [master |-> 2, slave |-> 1]
    BY <1>1, <2>1 DEF HonestSender
  <2>3. ASSUME NEW i \in 1..Len(printed) PROVE log[i].key_id # msg.key_id
    <3>1. i \in 1..Len(log) /\ i < n
      <4>1. Len(printed) \in Nat /\ n = Len(printed) + 1 /\ n <= Len(log)
        BY <1>2, <1>3 DEF n
      <4> QED BY <1>2, <4>1
    <3>2. log[i].key_id < msg.key_id
      BY <1>2, <1>3, <3>1 DEF KeyOrder
    <3>3. log[i].key_id \in 1..Len(issued)
      BY <1>2, <3>1 DEF KeyOrder
    <3> QED BY <1>2, <2>1, <3>2, <3>3
  <2>4. msg.key_id \notin fetched
    BY <1>1, <2>3 DEF HonestReceiver
  <2> QED BY <2>1, <2>2, <2>4 DEF CanGet, CanFetch, other_sae
<1>6. Len(key) >= Len(msg.ciphertext) /\ text \in Piece /\ ValidUtf8(text)
  <2>1. /\ key \in Bytes /\ KEY_SIZE_BYTES \in Nat
        /\ Len(msg.ciphertext) = KEY_SIZE_BYTES /\ Len(key) >= KEY_SIZE_BYTES
    BY <1>4, KeysAssumption, Sae2Assumption DEF HonestSetting, Piece
  <2>2. \A i \in 1..KEY_SIZE_BYTES : key[i] \in Byte /\ msg.ciphertext[i] \in Byte
    BY <1>4, <2>1 DEF Bytes, Piece
  <2>3. \A i \in 1..KEY_SIZE_BYTES : Xor(msg.ciphertext[i], key[i]) \in Byte
    BY <2>2, XorAssumption
  <2>4. text \in Piece
    BY <2>1, <2>3 DEF decrypt, Piece
  <2> QED BY <2>1, <2>4 DEF HonestSetting
<1>7. /\ fetched' = fetched \cup {msg.key_id} /\ printed' = Append(printed, text)
      /\ sPc' = "len" /\ UNCHANGED tcpVars
  BY <1>3, <1>5, <1>6 DEF HandleMessage, get_key_from_id, DecKeys
<1> HIDE DEF text, key
<1>8. Len(printed') = n
  BY <1>2, <1>6, <1>7, AppendProperties DEF n
<1>9. fetched' = {log'[i].key_id : i \in 1..Len(printed')}
  <2>1. fetched' = {log[i].key_id : i \in 1..Len(printed)} \cup {log[n].key_id}
    BY <1>1, <1>7 DEF HonestReceiver
  <2>2. 1..n = (1..Len(printed)) \cup {n}
    BY <1>2 DEF n
  <2> QED BY <1>1, <1>8, <2>1, <2>2
<1>10. HonestSender'
  BY <1>1, <1>7 DEF HonestSender, tcpVars
<1>11. HonestReceiver'
  BY <1>7, <1>9 DEF HonestReceiver
<1> QED BY <1>10, <1>11 DEF HonestInv

\* sae_1 finds the end of the stream only between frames, when sae_2 has
\* closed the connection after the last of them.
LEMMA HonestSae1 ==
  ASSUME HonestSetting, SafetyInv, HonestInv, ~Fault, Sae1Next
  PROVE  HonestInv'
<1>1. /\ HonestSender /\ HonestReceiver /\ TcpTypeOK /\ Framing
      /\ Len(log) \in Nat /\ Len(printed) \in Nat
  BY HonestTypes DEF HonestInv
<1>2. ASSUME UNCHANGED <<printed, sae2Vars, kmeVars>>,
             UNCHANGED <<link, sent>>, HonestReceiver'
      PROVE  HonestInv'
  BY <1>1, <1>2 DEF HonestInv, HonestSender, sae2Vars, kmeVars
<1>3. CASE Sae1Start \/ BindListener \/ AcceptClient
  <2>1. /\ UNCHANGED <<printed, sae2Vars, kmeVars>> /\ UNCHANGED <<link, sent>>
        /\ sPc' \in {"bind", "accept", "len"}
    BY <1>3 DEF Sae1Start, BindListener, AcceptClient, Listen, tcpVars
  <2>2. HonestReceiver'
    BY <1>1, <2>1 DEF HonestReceiver, sae2Vars, kmeVars
  <2> QED BY <1>2, <2>1, <2>2
<1>4. CASE ReadLen \/ ReadBody
  <2>1. UNCHANGED <<printed, sae2Vars, kmeVars>>
    BY <1>4 DEF ReadLen, ReadBody
  <2>2. CASE Take(1) /\ sPc' \in {"body", "message"}
    <3>1. HonestReceiver'
      BY <1>1, <2>1, <2>2 DEF HonestReceiver, sae2Vars, kmeVars
    <3> QED BY <1>2, <2>1, <2>2, <3>1 DEF Take
  <2>3. CASE AtEnd
    <3>1. cPc = "done" /\ link = "closed" /\ taken = sent /\ sent = 2 * Len(log)
      BY <1>1, <2>3 DEF AtEnd, Available, HonestSender, TcpTypeOK
    <3>2. sPc # "body"
      BY <1>1, <3>1 DEF Framing
    <3>3. /\ sPc = "len" /\ sPc' = "done" /\ UNCHANGED <<link, sent, taken>>
      BY <1>4, <2>3, <3>1, <3>2
         DEF ReadLen, ReadBody, AtEnd, Leave, CloseServer
    <3>4. taken = 2 * Len(printed)
      BY <1>1, <3>3 DEF Framing
    <3>5. HonestReceiver'
      BY <1>1, <2>1, <3>1, <3>3, <3>4 DEF HonestReceiver, sae2Vars, kmeVars
    <3> QED BY <1>2, <2>1, <3>3, <3>5
  <2> QED BY <1>4, <2>2, <2>3 DEF ReadLen, ReadBody
<1> QED BY <1>3, <1>4, HonestHandleMessage DEF Sae1Next, Sae1Step, Sae1Killed

\* What an honest run keeps to, in every state that no failure came before.
HonestSoFar == faults = 0 => HonestInv

\* It does keep to it.
THEOREM HonestInvariant ==
  ASSUME HonestSetting
  PROVE  Spec => []HonestSoFar
<1> USE DEF HonestSoFar
<1>1. Init => HonestSoFar
  <2> SUFFICES ASSUME Init PROVE HonestInv
    OBVIOUS
  <2>1. HonestSender
    BY EmptySeq DEF Init, TcpInit, KmeInit, Sae2Init, HonestSender
  <2>2. HonestReceiver
    BY EmptySeq DEF Init, KmeInit, Sae1Init, HonestReceiver
  <2> QED BY <2>1, <2>2 DEF HonestInv
<1>2. SafetyInv /\ HonestSoFar /\ [Next]_vars => HonestSoFar'
  <2> SUFFICES ASSUME SafetyInv, HonestSoFar, [Next]_vars, faults' = 0
               PROVE  HonestInv'
    OBVIOUS
  <2>1. ~Fault
    BY HonestTypes DEF Fault
  <2>2. CASE Sae2Next
    <3>1. NoFault
      BY <2>1, <2>2 DEF Sae2Next, Sae2Step, Sae2Killed, Sae2Start, OpenFile,
         ConectarAServidor, ReadPiece, GetKeysAndId, EncryptPiece, WriteLen,
         WriteBody, WriteAll
    <3> QED BY <2>1, <2>2, <3>1, HonestSae2 DEF NoFault
  <2>3. CASE Sae1Next
    <3>1. NoFault
      BY <2>1, <2>3 DEF Sae1Next, Sae1Step, Sae1Killed, Sae1Start, BindListener,
         AcceptClient, ReadLen, ReadBody, HandleMessage
    <3> QED BY <2>1, <2>3, <3>1, HonestSae1 DEF NoFault
  <2>4. CASE NetworkNext \/ Over \/ UNCHANGED vars
    <3>1. /\ UNCHANGED <<faults, link, sent, taken>>
          /\ UNCHANGED <<kmeVars, sae2Vars, sae1Vars>>
      BY <2>1, <2>4 DEF NetworkNext, Arrive, Reset, Over, vars, tcpVars, NoFault
    <3>2. HonestInv
      BY <3>1
    <3>3. HonestSender'
      BY <3>1, <3>2 DEF HonestInv, HonestSender, kmeVars, sae2Vars
    <3>4. HonestReceiver'
      BY <3>1, <3>2 DEF HonestInv, HonestReceiver, kmeVars, sae2Vars, sae1Vars
    <3> QED BY <3>3, <3>4 DEF HonestInv
  <2> QED BY <2>2, <2>3, <2>4 DEF Next
<1> HIDE DEF HonestSoFar
<1> QED BY <1>1, <1>2, SafetyInvariant, PTL DEF Spec

\* With a link that makes enough keys, each long enough, and a file that is
\* text, a run in which nothing fails ends only when every byte of the file
\* was read, encrypted, decrypted and printed, and no expect() of sae_1 panics
\* (sae.rs:151-180).
THEOREM HonestRunsPrintAll ==
  ASSUME HonestSetting
  PROVE  Spec => []HonestRunPrintsAll
<1>1. SafetyInv /\ HonestSoFar => HonestRunPrintsAll
  <2> SUFFICES ASSUME SafetyInv, HonestInv, Sae1Stopped
               PROVE  /\ sPc = "done" /\ cPc = "done"
                      /\ pos = Len(file) /\ Len(printed) = Len(reads)
    BY DEF HonestRunPrintsAll, HonestSoFar
  <2>1. sPc = "done"
    BY DEF Sae1Stopped, HonestInv, HonestReceiver
  <2>2. cPc = "done" /\ sent = 2 * Len(printed)
    BY <2>1 DEF HonestInv, HonestReceiver
  <2>3. pos = Len(file) /\ sent = 2 * Len(log) /\ Len(reads) = Len(log)
    BY <2>2 DEF HonestInv, HonestSender
  <2> QED BY <2>1, <2>2, <2>3, HonestTypes
<1> QED BY <1>1, HonestInvariant, SafetyInvariant, PTL

-----------------------------------------------------------------------------
(* Nobody is stuck, whatever fails. *)

\* Where sae_2 is fixes the state of the link, and where sae_1 is who listens.
StreamInv ==
  /\ cPc \in {"start", "open", "connect"} => link = "none"
  /\ cPc \in {"read", "keys", "encrypt", "len", "body", "unanswered"}
        => link \in {"open", "reset"}
  /\ link = "open" => cPc \in {"read", "keys", "encrypt", "len", "body", "unanswered"}
  /\ listening => sPc \notin {"start", "bind"} /\ ~Sae1Stopped
  /\ sPc = "accept" \/ link = "open" => listening
  /\ sPc \in {"len", "body", "message", "unanswered"} => link # "none"

LEMMA StreamInit == Init => StreamInv
BY DEF Init, TcpInit, Sae2Init, Sae1Init, StreamInv, Sae1Stopped

LEMMA StreamNext ==
  ASSUME SafetyInv, StreamInv, [Next]_vars
  PROVE  StreamInv'
<1> USE DEF StreamInv, Sae1Stopped
<1>1. Sae1TypeOK /\ TcpTypeOK
  BY TypeOKParts DEF SafetyInv
<1>2. CASE Sae2Next
  <2>1. UNCHANGED sPc
    BY <1>2 DEF Sae2Next, sae1Vars
  <2>2. ASSUME NEW status \in {"done", "err", "killed"}, Return(status)
        PROVE  StreamInv'
    BY <2>1, <2>2 DEF Return, CloseClient
  <2>3. CASE ConectarAServidor
    BY <2>1, <2>3 DEF ConectarAServidor, Connect
  <2>4. CASE /\ cPc \in {"start", "open"} /\ cPc' \in {"open", "connect", "err", "killed"}
             /\ UNCHANGED tcpVars
    BY <2>1, <2>4 DEF tcpVars
  <2>5. CASE /\ cPc \in {"read", "keys", "encrypt", "len", "body"}
             /\ cPc' \in {"read", "keys", "encrypt", "len", "body", "unanswered"}
             /\ UNCHANGED <<listening, link>>
    BY <2>1, <2>5
  <2> QED BY <1>2, <2>2, <2>3, <2>4, <2>5
          DEF Sae2Next, Sae2Step, Sae2Start, OpenFile, ReadPiece, GetKeysAndId,
              Sae2GetsNoKeys, EncryptPiece, WriteLen, WriteBody, WriteAll, Push,
              Sae2Killed, tcpVars
<1>3. CASE Sae1Next
  <2>1. UNCHANGED cPc
    BY <1>3 DEF Sae1Next, Sae1Step, Sae1Start, BindListener, AcceptClient, ReadLen,
                ReadBody, HandleMessage, Sae1Killed, sae2Vars
  <2>2. ASSUME NEW status \in {"done", "err", "panic", "killed"}, Leave(status)
        PROVE  StreamInv'
    BY <2>1, <2>2 DEF Leave, CloseServer
  <2>3. CASE sPc = "start" /\ sPc' = "bind" /\ UNCHANGED tcpVars
    BY <2>1, <2>3 DEF tcpVars
  <2>4. CASE sPc = "bind" /\ sPc' = "accept" /\ Listen
    BY <2>1, <2>4 DEF Listen
  <2>5. CASE /\ sPc = "accept" /\ link # "none" /\ sPc' = "len" /\ UNCHANGED tcpVars
    BY <2>1, <2>5 DEF tcpVars
  <2>6. CASE /\ sPc \in {"len", "body", "message"}
             /\ sPc' \in {"len", "body", "message", "unanswered"}
             /\ UNCHANGED <<listening, link>>
    BY <2>1, <2>6
  <2> QED BY <1>3, <2>2, <2>3, <2>4, <2>5, <2>6
          DEF Sae1Next, Sae1Step, Sae1Start, BindListener, AcceptClient, ReadLen,
              ReadBody, HandleMessage, Sae1GetsNoKey, Sae1Killed, Take, tcpVars
<1>4. CASE NetworkNext \/ Over \/ UNCHANGED vars
  BY <1>4 DEF NetworkNext, Arrive, Reset, Over, vars, tcpVars, sae2Vars, sae1Vars
<1> QED BY <1>2, <1>3, <1>4 DEF Next

\* The invariant of the connection holds in every reachable state.
THEOREM StreamInvariant == Spec => []StreamInv
<1>1. SafetyInv /\ StreamInv /\ [Next]_vars => StreamInv'
  BY StreamNext
<1> QED BY <1>1, StreamInit, SafetyInvariant, PTL DEF Spec

\* Where sae_2 cannot go on, nor a segment, sae_1 can, or both may rest.
LEMMA StreamInvSuffices ==
  ASSUME SafetyInv, StreamInv
  PROVE  NobodyIsStuck
<1> SUFFICES ASSUME ~Sae2CanGoOn, ~SegmentUnderWay
             PROVE  Sae1CanGoOn \/ BothSettled
  BY DEF NobodyIsStuck
<1>1. Sae2TypeOK /\ Sae1TypeOK /\ TcpTypeOK /\ Window \in Nat \ {0}
  BY TypeOKParts, TcpAssumption DEF SafetyInv
<1>2. CASE link = "none"
  <2>1. Sae2Stopped \/ (cPc = "connect" /\ ~listening)
    BY <1>1, <1>2 DEF Sae2TypeOK, StreamInv, Sae2CanGoOn, Sae2Stopped
  <2>2. Sae1Stopped \/ sPc \in {"start", "bind"} \/ (sPc = "accept" /\ listening)
    BY <1>1, <1>2 DEF Sae1TypeOK, StreamInv, Sae1Stopped
  <2> QED BY <1>2, <2>1, <2>2
          DEF BothSettled, Sae2WaitsInVain, Sae1WaitsInVain, Sae1CanGoOn
<1>3. CASE link = "open"
  <2>1. cPc = "unanswered" \/ (cPc \in {"len", "body"} /\ Available > 0)
    BY <1>1, <1>3
    DEF StreamInv, Sae2CanGoOn, SegmentUnderWay, Available, TcpTypeOK
  <2>2. sPc \in {"accept", "len", "body", "message", "unanswered"}
    BY <1>1, <1>3 DEF Sae1TypeOK, StreamInv, Sae1Stopped
  <2> QED BY <1>3, <2>1, <2>2
          DEF BothSettled, Sae2WaitsInVain, Sae1WaitsInVain, Sae1CanGoOn
<1>4. CASE link \in {"closed", "reset"}
  <2>1. Available > 0 \/ AtEnd
    BY <1>1, <1>4 DEF TcpTypeOK, Available, AtEnd, SegmentUnderWay
  <2>2. Sae2Stopped \/ cPc = "unanswered"
    BY <1>1, <1>4 DEF Sae2TypeOK, StreamInv, Sae2CanGoOn, Sae2Stopped
  <2> QED BY <1>1, <1>4, <2>1, <2>2
          DEF Sae1TypeOK, BothSettled, Sae2WaitsInVain, Sae1WaitsInVain, Sae1CanGoOn,
              Sae1Stopped
<1> QED BY <1>1, <1>2, <1>3, <1>4 DEF TcpTypeOK

\* Nobody waits for somebody who waits: in every state one of the processes can
\* take its next step, or a segment is on its way, or both have ended or wait for
\* a KME that stays silent, for a peer that does, or for one that is gone.  It
\* holds for every file, buffer, window and splitting of the stream.
THEOREM NobodyIsEverStuck == Spec => []NobodyIsStuck
<1>1. SafetyInv /\ StreamInv => NobodyIsStuck
  BY StreamInvSuffices
<1> QED BY <1>1, SafetyInvariant, StreamInvariant, PTL

\* Nobody can take a step.
AtRest == ~Sae2CanGoOn /\ ~Sae1CanGoOn /\ ~SegmentUnderWay

\* A run in which nothing failed comes to rest nowhere but at a file that was
\* printed to its end.
THEOREM HonestRunRestsPrinted ==
  ASSUME HonestSetting
  PROVE  Spec => [](faults = 0 /\ AtRest
                      => sPc = "done" /\ cPc = "done" /\ pos = Len(file))
<1>1. SafetyInv /\ StreamInv /\ HonestSoFar /\ HonestRunPrintsAll
        => (faults = 0 /\ AtRest => sPc = "done" /\ cPc = "done" /\ pos = Len(file))
  <2> SUFFICES ASSUME SafetyInv, StreamInv, HonestSoFar, faults = 0, AtRest
               PROVE  Sae1Stopped
    BY DEF HonestRunPrintsAll
  <2>1. BothSettled
    BY StreamInvSuffices DEF NobodyIsStuck, AtRest
  <2>2. HonestSender /\ HonestReceiver
    BY DEF HonestSoFar, HonestInv
  <2>3. sPc # "unanswered" /\ cPc # "unanswered"
    BY <2>2 DEF HonestSender, HonestReceiver
  <2>4. link = "none" => ~Sae2Stopped
    BY <2>2 DEF HonestSender, Sae2Stopped
  <2> QED BY <2>1, <2>3, <2>4 DEF BothSettled, Sae1WaitsInVain
<1> QED BY <1>1, HonestInvariant, HonestRunsPrintAll, SafetyInvariant, StreamInvariant, PTL

-----------------------------------------------------------------------------
(* Every step uses something up. *)

\* The places of the processes and the states of the link, with what each is worth.
LEMMA Ranks ==
  /\ Sae2Steps["start"] = 4 /\ Sae2Steps["open"] = 3 /\ Sae2Steps["connect"] = 2
  /\ Sae2Steps["read"] = 1 /\ Sae2Steps["keys"] = 11 /\ Sae2Steps["encrypt"] = 10
  /\ Sae2Steps["len"] = 9 /\ Sae2Steps["body"] = 5 /\ Sae2Steps["unanswered"] = 1
  /\ Sae2Steps["done"] = 0 /\ Sae2Steps["err"] = 0 /\ Sae2Steps["killed"] = 0
  /\ Sae1Steps["start"] = 5 /\ Sae1Steps["bind"] = 4 /\ Sae1Steps["accept"] = 3
  /\ Sae1Steps["len"] = 2 /\ Sae1Steps["body"] = 2 /\ Sae1Steps["message"] = 3
  /\ Sae1Steps["unanswered"] = 1 /\ Sae1Steps["done"] = 0 /\ Sae1Steps["err"] = 0
  /\ Sae1Steps["panic"] = 0 /\ Sae1Steps["killed"] = 0
  /\ LinkSteps["none"] = 3 /\ LinkSteps["open"] = 2 /\ LinkSteps["closed"] = 1
  /\ LinkSteps["reset"] = 0
BY DEF Sae2Steps, Sae1Steps, LinkSteps

\* What the connection has before it; StepsLeft adds the file and the places.
WireSteps == LinkSteps[link] + (sent - arrived) + 2 * (sent - taken)

\* What is to be read of the file.
FileLeft == Len(file) - pos

LEMMA PartsOfStepsLeft ==
  ASSUME SafetyInv
  PROVE  /\ Sae2Steps[cPc] \in Nat /\ Sae1Steps[sPc] \in Nat
         /\ WireSteps \in Nat /\ FileLeft \in Nat
         /\ StepsLeft = Sae2Steps[cPc] + Sae1Steps[sPc] + WireSteps + 11 * FileLeft
<1>1. TcpTypeOK /\ Sae2TypeOK /\ Sae1TypeOK /\ Len(file) \in Nat /\ pos \in 0..Len(file)
  BY HonestTypes DEF Sae2TypeOK
<1>2. Sae2Steps[cPc] \in Nat
  <2>1. cPc \in {"start", "open", "connect", "read", "keys", "encrypt", "len", "body",
                 "done", "err", "killed", "unanswered"}
    BY <1>1 DEF Sae2TypeOK
  <2> QED BY <2>1, Ranks
<1>3. Sae1Steps[sPc] \in Nat /\ LinkSteps[link] \in Nat
  BY <1>1, Ranks DEF Sae1TypeOK, TcpTypeOK
<1>4. sent - arrived \in Nat /\ sent - taken \in Nat /\ FileLeft \in Nat
  BY <1>1 DEF TcpTypeOK, FileLeft
<1>5. /\ StepsLeft = Sae2Steps[cPc] + Sae1Steps[sPc] + LinkSteps[link]
                     + 11 * FileLeft + (sent - arrived) + 2 * (sent - taken)
      /\ WireSteps = LinkSteps[link] + (sent - arrived) + 2 * (sent - taken)
  BY DEF StepsLeft, WireSteps, FileLeft
<1>6. WireSteps \in Nat
  BY <1>3, <1>4, <1>5
<1> HIDE DEF WireSteps, FileLeft
<1>7. StepsLeft = Sae2Steps[cPc] + Sae1Steps[sPc] + WireSteps + 11 * FileLeft
  BY <1>2, <1>3, <1>4, <1>5
<1> QED BY <1>2, <1>3, <1>4, <1>6, <1>7

\* The same of the next state.
LEMMA PartsOfStepsLeftNext ==
  SafetyInv' =>
    /\ Sae2Steps[cPc'] \in Nat /\ Sae1Steps[sPc'] \in Nat
    /\ WireSteps' \in Nat /\ FileLeft' \in Nat
    /\ StepsLeft' = Sae2Steps[cPc'] + Sae1Steps[sPc'] + WireSteps' + 11 * FileLeft'
<1> DEFINE Parts ==
      /\ Sae2Steps[cPc] \in Nat /\ Sae1Steps[sPc] \in Nat
      /\ WireSteps \in Nat /\ FileLeft \in Nat
      /\ StepsLeft = Sae2Steps[cPc] + Sae1Steps[sPc] + WireSteps + 11 * FileLeft
<1>1. SafetyInv => Parts
  BY PartsOfStepsLeft
<1> HIDE DEF Parts
<1>2. SafetyInv' => Parts'
  BY <1>1, PTL
<1>3. Parts' => /\ Sae2Steps[cPc'] \in Nat /\ Sae1Steps[sPc'] \in Nat
                /\ WireSteps' \in Nat /\ FileLeft' \in Nat
                /\ StepsLeft' = Sae2Steps[cPc'] + Sae1Steps[sPc'] + WireSteps'
                                + 11 * FileLeft'
  BY DEF Parts, Sae2Steps, Sae1Steps
<1> QED BY <1>2, <1>3

\* What the calls of the two processes, and the network, leave of the connection.
LEMMA WireStepsLeft ==
  ASSUME SafetyInv
  PROVE  /\ UNCHANGED tcpVars \/ Listen => WireSteps' = WireSteps
         /\ Connect \/ CloseClient \/ CloseServer => WireSteps' <= WireSteps
         /\ Push(1) => WireSteps' = WireSteps + 3
         /\ Take(1) => WireSteps' = WireSteps - 2
         /\ Arrive \/ Reset => WireSteps' < WireSteps
<1>1. TcpTypeOK
  BY TypeOKParts DEF SafetyInv
<1>2. /\ WireSteps = LinkSteps[link] + (sent - arrived) + 2 * (sent - taken)
      /\ WireSteps' = LinkSteps[link'] + (sent' - arrived') + 2 * (sent' - taken')
  BY DEF WireSteps
<1>3. LinkSteps[link] \in Nat
  BY <1>1, Ranks DEF TcpTypeOK
<1>4. UNCHANGED tcpVars \/ Listen => WireSteps' = WireSteps
  BY DEF tcpVars, Listen, WireSteps
<1>5. Connect \/ CloseClient \/ CloseServer => WireSteps' <= WireSteps
  <2> SUFFICES ASSUME Connect \/ CloseClient \/ CloseServer
               PROVE  WireSteps' <= WireSteps
    OBVIOUS
  <2>1. /\ UNCHANGED <<sent, arrived, taken>>
        /\ \/ link = "none" /\ link' = "open"
           \/ link = "open" /\ link' \in {"closed", "reset"}
           \/ link' = link
    BY DEF Connect, CloseClient, CloseServer
  <2>2. LinkSteps[link'] \in Nat /\ LinkSteps[link'] <= LinkSteps[link]
    BY <1>3, <2>1, Ranks
  <2> QED BY <1>1, <1>2, <1>3, <2>1, <2>2 DEF TcpTypeOK
<1>6. Push(1) => WireSteps' = WireSteps + 3
  BY <1>1, <1>2, <1>3 DEF Push, TcpTypeOK
<1>7. Take(1) => WireSteps' = WireSteps - 2
  BY <1>1, <1>2, <1>3 DEF Take, TcpTypeOK
<1>8. ASSUME Arrive PROVE WireSteps' < WireSteps
  <2>1. PICK n \in 1..(sent - arrived) : arrived' = arrived + n
    BY <1>8 DEF Arrive
  <2>2. UNCHANGED <<link, sent, taken>>
    BY <1>8 DEF Arrive
  <2> QED BY <1>1, <1>2, <1>3, <2>1, <2>2 DEF TcpTypeOK
<1>9. ASSUME Reset PROVE WireSteps' < WireSteps
  <2>1. /\ link \in {"open", "closed"} /\ link' = "reset"
        /\ sent' = arrived /\ arrived' = arrived /\ taken' = taken
    BY <1>9 DEF Reset
  <2>2. LinkSteps[link'] = 0 /\ LinkSteps[link] > 0
    BY <2>1, Ranks
  <2> QED BY <1>1, <1>2, <1>3, <2>1, <2>2 DEF TcpTypeOK
<1> QED BY <1>4, <1>5, <1>6, <1>7, <1>8, <1>9

\* A turn of sae_2's loop, and what comes before it.
LEMMA Sae2StepsDown ==
  ASSUME SafetyInv, SafetyInv', Sae2Next
  PROVE  StepsLeft' < StepsLeft
<1>1. Sae2TypeOK /\ TcpTypeOK /\ UNCHANGED sPc
  BY TypeOKParts DEF SafetyInv, Sae2Next, sae1Vars
<1>2. /\ Sae2Steps[cPc] \in Nat /\ Sae1Steps[sPc] \in Nat
      /\ WireSteps \in Nat /\ FileLeft \in Nat
      /\ StepsLeft = Sae2Steps[cPc] + Sae1Steps[sPc] + WireSteps + 11 * FileLeft
  BY PartsOfStepsLeft
<1>3. /\ Sae2Steps[cPc'] \in Nat /\ WireSteps' \in Nat /\ FileLeft' \in Nat
      /\ StepsLeft' = Sae2Steps[cPc'] + Sae1Steps[sPc] + WireSteps' + 11 * FileLeft'
  BY <1>1, PartsOfStepsLeftNext
<1>4. /\ UNCHANGED tcpVars => WireSteps' = WireSteps
      /\ Connect \/ CloseClient => WireSteps' <= WireSteps
      /\ Push(1) => WireSteps' = WireSteps + 3
  BY WireStepsLeft
<1>5. UNCHANGED <<file, pos>> => FileLeft' = FileLeft
  BY DEF FileLeft
<1>6. ASSUME UNCHANGED <<file, pos>>, Sae2Steps[cPc'] < Sae2Steps[cPc],
             UNCHANGED tcpVars \/ Connect \/ CloseClient
      PROVE  StepsLeft' < StepsLeft
  <2>1. WireSteps' <= WireSteps /\ FileLeft' = FileLeft
    BY <1>2, <1>4, <1>5, <1>6
  <2> HIDE DEF WireSteps, FileLeft
  <2> QED BY <1>2, <1>3, <1>6, <2>1
<1>7. ASSUME NEW status \in {"done", "err", "killed"}, Return(status), ~Sae2Stopped,
             UNCHANGED <<file, pos>>
      PROVE  StepsLeft' < StepsLeft
  <2>1. cPc' = status /\ Sae2Steps[status] = 0
    BY <1>7, Ranks DEF Return
  <2>2. Sae2Steps[cPc] > 0
    <3>1. /\ cPc \in {"start", "open", "connect", "read", "keys", "encrypt", "len", "body",
                     "done", "err", "killed", "unanswered"}
          /\ cPc \notin {"done", "err", "killed"}
      BY <1>1, <1>7 DEF Sae2Stopped, Sae2TypeOK
    <3>2. cPc \in {"start", "open", "connect", "read", "keys", "encrypt", "len", "body",
                  "unanswered"}
      BY <3>1, Zenon
    <3> QED BY <3>2, Ranks
  <2>3. Sae2Steps[cPc'] < Sae2Steps[cPc]
    BY <2>1, <2>2
  <2> QED BY <1>6, <1>7, <2>3 DEF Return
<1>8. CASE Sae2Start \/ OpenFile
  BY <1>6, <1>8, Ranks DEF Sae2Start, OpenFile
<1>9. CASE ConectarAServidor
  BY <1>6, <1>9, Ranks DEF ConectarAServidor
<1>10. CASE ReadPiece /\ UNCHANGED tcpVars /\ cPc' \in {"keys", "encrypt"}
  <2> DEFINE n == Smaller(KEY_SIZE_BYTES, Fill)
  <2>1. pos' = pos + n /\ n > 0 /\ file' = file /\ cPc = "read"
    BY <1>10 DEF ReadPiece, Return
  <2>2. n \in Nat
    <3>1. Len(file) \in Nat /\ KEY_SIZE_BYTES \in Nat
      BY HonestTypes, Sae2Assumption
    <3>2. Fill \in Nat
      BY <1>1, <3>1, Sae2Assumption DEF Fill, Smaller, Sae2TypeOK
    <3> QED BY <3>1, <3>2 DEF Smaller
  <2> HIDE DEF n
  <2>3. FileLeft' = FileLeft - n
    BY <1>1, <2>1, <2>2, HonestTypes DEF FileLeft
  <2>4. Sae2Steps[cPc] = 1 /\ Sae2Steps[cPc'] <= 11
    BY <1>10, <2>1, Ranks
  <2> HIDE DEF WireSteps, FileLeft
  <2> QED BY <1>2, <1>3, <1>4, <1>10, <2>1, <2>2, <2>3, <2>4
<1>11. CASE cPc = "keys" /\ cPc' \in {"encrypt", "unanswered"} /\ UNCHANGED <<file, pos, tcpVars>>
  BY <1>6, <1>11, Ranks
<1>12. CASE cPc = "encrypt" /\ cPc' = "len" /\ UNCHANGED <<file, pos, tcpVars>>
  BY <1>6, <1>12, Ranks
<1>13. CASE UNCHANGED <<file, pos>> /\ Push(1)
            /\ ((cPc = "len" /\ cPc' = "body") \/ (cPc = "body" /\ cPc' = "read"))
  <2>1. Sae2Steps[cPc'] = Sae2Steps[cPc] - 4
    BY <1>13, Ranks
  <2> HIDE DEF WireSteps, FileLeft
  <2> QED BY <1>2, <1>3, <1>4, <1>5, <1>13, <2>1
<1>14. CASE UNCHANGED <<file, pos>> /\ UNCHANGED tcpVars
            /\ ((cPc = "len" /\ cPc' = "body") \/ (cPc = "body" /\ cPc' = "read"))
  BY <1>6, <1>14, Ranks
<1> QED BY <1>7, <1>8, <1>9, <1>10, <1>11, <1>12, <1>13, <1>14
        DEF Sae2Next, Sae2Step, ReadPiece, GetKeysAndId, Sae2GetsNoKeys, EncryptPiece,
            WriteLen, WriteBody, WriteAll, Sae2Killed, Sae2Stopped

\* A turn of sae_1's loop, and what comes before it.
LEMMA Sae1StepsDown ==
  ASSUME SafetyInv, SafetyInv', Sae1Next
  PROVE  StepsLeft' < StepsLeft
<1>1. Sae1TypeOK /\ TcpTypeOK /\ UNCHANGED <<cPc, file, pos>>
  BY TypeOKParts
  DEF SafetyInv, Sae1Next, Sae1Step, Sae1Start, BindListener, AcceptClient, ReadLen,
      ReadBody, HandleMessage, Sae1Killed, sae2Vars
<1>2. /\ Sae2Steps[cPc] \in Nat /\ Sae1Steps[sPc] \in Nat
      /\ WireSteps \in Nat /\ FileLeft \in Nat
      /\ StepsLeft = Sae2Steps[cPc] + Sae1Steps[sPc] + WireSteps + 11 * FileLeft
  BY PartsOfStepsLeft
<1>3. /\ Sae1Steps[sPc'] \in Nat /\ WireSteps' \in Nat
      /\ StepsLeft' = Sae2Steps[cPc] + Sae1Steps[sPc'] + WireSteps' + 11 * FileLeft
  <2>1. FileLeft' = FileLeft
    BY <1>1 DEF FileLeft
  <2> QED BY <1>1, <2>1, PartsOfStepsLeftNext
<1>4. /\ UNCHANGED tcpVars \/ Listen => WireSteps' = WireSteps
      /\ CloseServer => WireSteps' <= WireSteps
      /\ Take(1) => WireSteps' = WireSteps - 2
  BY WireStepsLeft
<1>5. ASSUME Sae1Steps[sPc'] < Sae1Steps[sPc],
             UNCHANGED tcpVars \/ Listen \/ CloseServer
      PROVE  StepsLeft' < StepsLeft
  <2>1. WireSteps' <= WireSteps
    BY <1>2, <1>4, <1>5
  <2> HIDE DEF WireSteps, FileLeft
  <2> QED BY <1>2, <1>3, <1>5, <2>1
<1>6. ASSUME NEW status \in {"done", "err", "panic", "killed"}, Leave(status), ~Sae1Stopped
      PROVE  StepsLeft' < StepsLeft
  <2>1. Sae1Steps[sPc'] < Sae1Steps[sPc]
    BY <1>1, <1>6, Ranks DEF Leave, Sae1Stopped, Sae1TypeOK
  <2> QED BY <1>5, <1>6, <2>1 DEF Leave
<1>7. CASE sPc = "start" /\ sPc' = "bind" /\ UNCHANGED tcpVars
  BY <1>5, <1>7, Ranks
<1>8. CASE sPc = "bind" /\ sPc' = "accept" /\ Listen
  BY <1>5, <1>8, Ranks
<1>9. CASE sPc = "accept" /\ sPc' = "len" /\ UNCHANGED tcpVars
  BY <1>5, <1>9, Ranks
<1>10. CASE Take(1) /\ \/ sPc = "len" /\ sPc' = "body"
                       \/ sPc = "body" /\ sPc' = "message"
  <2>1. Sae1Steps[sPc'] <= Sae1Steps[sPc] + 1
    BY <1>10, Ranks
  <2> HIDE DEF WireSteps, FileLeft
  <2> QED BY <1>2, <1>3, <1>4, <1>10, <2>1
<1>11. CASE sPc = "message" /\ sPc' \in {"len", "unanswered"} /\ UNCHANGED tcpVars
  BY <1>5, <1>11, Ranks
<1> QED BY <1>6, <1>7, <1>8, <1>9, <1>10, <1>11
        DEF Sae1Next, Sae1Step, Sae1Start, BindListener, AcceptClient, ReadLen,
            ReadBody, HandleMessage, Sae1GetsNoKey, Sae1Killed, Sae1Stopped

LEMMA NetworkStepsDown ==
  ASSUME SafetyInv, SafetyInv', NetworkNext
  PROVE  StepsLeft' < StepsLeft
<1>1. /\ Sae2Steps[cPc] \in Nat /\ Sae1Steps[sPc] \in Nat
      /\ WireSteps \in Nat /\ FileLeft \in Nat
      /\ StepsLeft = Sae2Steps[cPc] + Sae1Steps[sPc] + WireSteps + 11 * FileLeft
  BY PartsOfStepsLeft
<1>2. /\ WireSteps' \in Nat
      /\ StepsLeft' = Sae2Steps[cPc'] + Sae1Steps[sPc'] + WireSteps' + 11 * FileLeft'
  BY PartsOfStepsLeftNext
<1>3. WireSteps' < WireSteps /\ UNCHANGED <<cPc, sPc>> /\ FileLeft' = FileLeft
  BY WireStepsLeft DEF NetworkNext, sae2Vars, sae1Vars, FileLeft
<1> HIDE DEF WireSteps, FileLeft
<1> QED BY <1>1, <1>2, <1>3

\* Every step of the demo, the failing ones included, leaves fewer steps to take
\* than there were: no execution is longer than twelve and eleven for each byte of
\* the file.  sae_2's loop over the file and sae_1's over the frames end, however
\* short the reads are and wherever the stream is cut; a refused attempt to connect is
\* no step, and sae_2's loop around connect is not bounded by this.
THEOREM DemoStepsRunOut == Spec => StepsRunOut
<1>1. SafetyInv => StepsLeft \in Nat
  BY PartsOfStepsLeft
<1>2. SafetyInv /\ SafetyInv' /\ [Next]_vars => [StepsLeft' < StepsLeft]_vars
  BY Sae2StepsDown, Sae1StepsDown, NetworkStepsDown DEF Next, Over
<1> QED BY <1>1, <1>2, SafetyInvariant, PTL DEF Spec, StepsRunOut
=============================================================================
