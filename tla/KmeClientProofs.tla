--------------------------- MODULE KmeClientProofs ---------------------------
(***************************************************************************)
(* connection_qkd returns the whole answer or none, in however many pieces *)
(* it came, and leaves no block behind: for answers of every length.  Two  *)
(* look-ups behind one another leave nothing behind but their copies.      *)
(***************************************************************************)
EXTENDS KmeAnswer, JsonListProofs

-----------------------------------------------------------------------------
(* connection_qkd.                                                         *)

Gathering == cPc \in {"init", "perform", "failed", "unanswered"}

\* Until it is returned or freed, the block holds what was received so far.
ClientInv ==
  /\ cPc \in {"start", "init", "perform", "failed", "returned", "unanswered"}
  /\ body \in Bodies
  /\ received \in 0..Len(body) /\ size = received
  /\ cPc = "start" => blocks = 0 /\ memory = Client!NoBlock
  /\ cPc \in {"start", "init"} => received = 0
  /\ Gathering => blocks = 1 /\ memory # Client!NoBlock
  /\ Gathering /\ received > 0 => memory = SubSeq(body, 1, received) \o <<0>>
  /\ memory \in Seq(0..255)
  /\ WholeOrNothing
  /\ BlockHasOneOwner

LEMMA BodyType == ASSUME body \in Bodies PROVE body \in Seq(0..255) /\ Len(body) \in Nat
BY BodiesAssumption

LEMMA HeadType ==
  ASSUME NEW S, NEW s \in Seq(S), NEW n \in Nat, n <= Len(s)
  PROVE  SubSeq(s, 1, n) \in Seq(S) /\ Len(SubSeq(s, 1, n)) = n
<1>1. \A k \in 1..n : s[k] \in S
  <2>1. \A k \in 1..Len(s) : s[k] \in S
    OBVIOUS
  <2>2. Len(s) \in Nat
    OBVIOUS
  <2>3. \A k \in 1..n : k \in 1..Len(s)
    BY <2>2
  <2> QED BY <2>1, <2>3
<1>2. /\ SubSeq(s, 1, n) \in Seq(S)
      /\ Len(SubSeq(s, 1, n)) = IF 1 <= n THEN n - 1 + 1 ELSE 0
  BY <1>1, SubSeqProperties
<1> QED BY <1>2

LEMMA ClientInvInit == Client!Init => ClientInv
<1> SUFFICES ASSUME Client!Init PROVE ClientInv
  OBVIOUS
<1>1. Len(body) \in Nat
  BY BodyType DEF Client!Init
<1>2. <<>> \in Seq(0..255)
  OBVIOUS
<1> QED BY <1>1, <1>2 DEF Client!Init, Client!NoBlock, ClientInv, Gathering, WholeOrNothing, BlockHasOneOwner

\* One call of the callback extends what the block holds by the new piece.
LEMMA PieceIsAppended ==
  ASSUME ClientInv, cPc = "perform", NEW n \in 1..(Len(body) - received),
         Client!WriteMemoryCallback(n)
  PROVE  memory' = SubSeq(body, 1, received + n) \o <<0>>
<1> DEFINE head == SubSeq(body, 1, received)
           piece == SubSeq(body, received + 1, received + n)
<1>0. body \in Seq(0..255) /\ Len(body) \in Nat /\ received \in 0..Len(body) /\ size = received
  BY BodyType DEF ClientInv
<1>1. head \in Seq(0..255) /\ Len(head) = received
  <2>1. received \in Nat /\ received <= Len(body)
    BY <1>0
  <2> QED BY <1>0, <2>1, HeadType
<1>2. SubSeq(memory, 1, size) = head
  <2>1. CASE received = 0
    <3>1. head = <<>> /\ SubSeq(memory, 1, size) = <<>>
      BY <1>0, <2>1, SubSeqEmpty
    <3> QED BY <3>1
  <2>2. CASE received > 0
    <3>1. memory = head \o <<0>>
      BY <2>2 DEF ClientInv, Gathering
    <3>2. <<0>> \in Seq(0..255) /\ 1 \in 1..Len(head) /\ received \in 1..Len(head)
      BY <1>0, <1>1, <2>2
    <3> HIDE DEF head
    <3>3. SubSeq(memory, 1, size) = SubSeq(head, 1, received)
      BY <1>0, <1>1, <3>1, <3>2, SubSeqOfConcat1
    <3>4. SubSeq(head, 1, received) = head
      BY <1>1, SubSeqFull
    <3> QED BY <3>3, <3>4
  <2> QED BY <1>0, <2>1, <2>2
<1>3. head \o piece = SubSeq(body, 1, received + n)
  <2>1. /\ 1 \in 1..(Len(body) + 1) /\ received \in (1 - 1)..Len(body)
        /\ received + n \in received..Len(body)
    BY <1>0
  <2> QED BY <1>0, <2>1, ConcatAdjacentSubSeq
<1>4. memory' = (SubSeq(memory, 1, size) \o piece) \o <<0>>
  BY DEF Client!WriteMemoryCallback
<1> HIDE DEF head, piece
<1> QED BY <1>2, <1>3, <1>4

\* A text with its terminator is no null pointer.
LEMMA TerminatedIsNotNull == ASSUME NEW s \in Seq(0..255) PROVE s \o <<0>> # Client!NoBlock
<1>1. Len(s \o <<0>>) = Len(s) + Len(<<0>>) /\ Len(<<0>>) = 1 /\ Len(s) \in Nat
  OBVIOUS
<1>2. Len(s \o <<0>>) # 0
  BY <1>1
<1> QED BY <1>2 DEF Client!NoBlock

LEMMA ClientInvNext == ClientInv /\ [Client!Next]_clientVars => ClientInv'
<1> SUFFICES ASSUME ClientInv, [Client!Next]_clientVars PROVE ClientInv'
  OBVIOUS
<1> USE DEF Gathering, WholeOrNothing, BlockHasOneOwner
<1>0. body \in Seq(0..255) /\ Len(body) \in Nat /\ received \in 0..Len(body) /\ size = received
  BY BodyType DEF ClientInv
<1>1. CASE Client!AllocateChunk
  <2>1. \A m \in Client!Unset : m # Client!NoBlock /\ m \in Seq(0..255)
    <3>1. <<0>> \in Seq(0..255) /\ <<99>> \in Seq(0..255)
      OBVIOUS
    <3>2. <<0>> # <<>> /\ <<99>> # <<>>
      OBVIOUS
    <3> QED
      BY <3>1, <3>2 DEF Client!Unset, Client!NoBlock
  <2> QED BY <1>0, <1>1, <2>1 DEF Client!AllocateChunk, ClientInv
<1>2. CASE Client!EasyInit
  BY <1>0, <1>2 DEF Client!EasyInit, ClientInv
<1>3. CASE Client!PerformPiece
  <2>1. PICK n \in 1..(Len(body) - received) :
           \/ Client!WriteMemoryCallback(n) /\ received' = received + n /\ UNCHANGED cPc
           \/ cPc' = "failed" /\ UNCHANGED <<received, memory, size>>
    BY <1>3 DEF Client!PerformPiece
  <2>2. cPc = "perform" /\ UNCHANGED <<body, blocks>>
    BY <1>3 DEF Client!PerformPiece
  <2>3. CASE Client!WriteMemoryCallback(n) /\ received' = received + n /\ UNCHANGED cPc
    <3>1. memory' = SubSeq(body, 1, received + n) \o <<0>>
      BY <2>2, <2>3, PieceIsAppended
    <3>2. received' \in 0..Len(body) /\ received' > 0 /\ size' = received'
      BY <1>0, <2>3 DEF Client!WriteMemoryCallback
    <3>3. SubSeq(body, 1, received + n) \in Seq(0..255)
      <4>1. received + n \in Nat /\ received + n <= Len(body)
        BY <1>0, <2>3, <3>2
      <4> QED BY <1>0, <4>1, HeadType
    <3>4. memory' # Client!NoBlock
      BY <3>1, <3>3, TerminatedIsNotNull
    <3>5. memory' \in Seq(0..255)
      BY <3>1, <3>3
    <3> QED BY <2>2, <2>3, <3>1, <3>2, <3>4, <3>5 DEF ClientInv
  <2>4. CASE cPc' = "failed" /\ UNCHANGED <<received, memory, size>>
    BY <1>0, <2>2, <2>4 DEF ClientInv
  <2> QED BY <2>1, <2>3, <2>4
<1>4. CASE Client!PerformEnds
  <2>1. cPc = "perform" /\ UNCHANGED <<body, received, memory, size, blocks>>
    BY <1>4 DEF Client!PerformEnds
  <2>2. CASE received = Len(body) /\ cPc' = "returned"
    <3>1. SubSeq(body, 1, received) = body
      BY <1>0, <2>2, SubSeqFull
    <3> QED BY <1>0, <2>1, <2>2, <3>1 DEF ClientInv
  <2>3. CASE cPc' = "failed"
    BY <1>0, <2>1, <2>3 DEF ClientInv
  <2> QED BY <1>4, <2>2, <2>3 DEF Client!PerformEnds
<1>5. CASE Client!FreeChunk
  <2>1. Client!NoBlock \in Seq(0..255)
    BY DEF Client!NoBlock
  <2> QED BY <1>0, <1>5, <2>1 DEF Client!FreeChunk, ClientInv
<1>6. CASE UNCHANGED clientVars
  BY <1>6 DEF clientVars, ClientInv
<1>7. CASE Client!PerformHangs
  BY <1>0, <1>7 DEF Client!PerformHangs, ClientInv
<1> QED
  BY <1>1, <1>2, <1>3, <1>4, <1>5, <1>6, <1>7 DEF Client!Next

-----------------------------------------------------------------------------
(* The look-ups.                                                           *)

\* How many copies were kept before the look-up under way.
Copied == IF found # <<>> /\ found[1] # NULL THEN 1 ELSE 0

FoundInv ==
  /\ found \in Seq(Seq(Bytes) \cup {NULL}) /\ Len(found) <= 2
  /\ content = <<>> => pc = "start" /\ found = <<>>
  /\ content # <<>> => cPc = "returned" /\ memory # Client!NoBlock
  /\ Len(found) = 2 => pc = "extracted" /\ result = found[2]

AnswerInv ==
  /\ ClientInv /\ FoundInv
  /\ \E kept \in Nat : kept = Copied /\ CallInv(kept)

LEMMA AnswerInvInit == AnswerInit => AnswerInv
<1> SUFFICES ASSUME AnswerInit PROVE AnswerInv
  OBVIOUS
<1>1. ClientInv
  BY ClientInvInit DEF AnswerInit
<1>2. CallInv(0)
  BY FirstCall DEF AnswerInit
<1>3. found = <<>> /\ content = <<>> /\ pc = "start"
  BY DEF AnswerInit, Init, ParserInit
<1>4. found \in Seq(Seq(Bytes) \cup {NULL}) /\ Len(found) = 0
  BY <1>3
<1>5. FoundInv
  BY <1>3, <1>4 DEF FoundInv
<1> QED
  BY <1>1, <1>2, <1>3, <1>5 DEF AnswerInv, Copied

\* What the look-ups are given is a text.
LEMMA BlockType ==
  ASSUME ClientInv
  PROVE  Block \in Seq(Bytes) /\ Block # <<>>
<1>1. memory \in Seq(Bytes)
  BY DEF ClientInv, Bytes
<1>2. CString(memory) \in Seq(Bytes)
  BY <1>1, CStringTyped
<1>3. CString(memory) \in Seq(0..255)
  BY <1>2 DEF Bytes
<1>4. CString(memory) \o <<0>> \in Seq(0..255) /\ CString(memory) \o <<0>> # <<>>
  BY <1>3, TerminatedIsNotNull DEF Client!NoBlock
<1> QED
  BY <1>4 DEF Block, Bytes

LEMMA FetchKeeps == ASSUME AnswerInv, Fetch PROVE AnswerInv'
<1>1. ClientInv'
  BY ClientInvNext DEF AnswerInv, Fetch
<1>2. UNCHANGED vars /\ found' = found
  BY DEF Fetch
<1>3. cPc # "returned"
  BY DEF Fetch, Client!Next, Client!AllocateChunk, Client!EasyInit, Client!PerformPiece,
         Client!PerformEnds, Client!PerformHangs, Client!FreeChunk
<1>4. content = <<>> /\ content' = content /\ pc' = pc /\ result' = result
  BY <1>2, <1>3 DEF AnswerInv, FoundInv, vars, parserVars, bufferVars
<1>5. FoundInv'
  BY <1>2, <1>4 DEF AnswerInv, FoundInv
<1>6. PICK kept \in Nat : kept = Copied /\ CallInv(kept)
  BY DEF AnswerInv
<1>7. CallInv(kept)'
  BY <1>2, <1>6, CallSteps
<1>8. kept = Copied'
  BY <1>2, <1>6 DEF Copied
<1> QED
  BY <1>1, <1>5, <1>7, <1>8 DEF AnswerInv

\* A look-up that returned takes no further step.
LEMMA CallsEnd == ASSUME Parse \/ Extract \/ NoTree PROVE pc # "extracted" /\ content' = content
BY DEF Parse, Extract, NoTree, bufferVars, ParserStep, Start, NoStart, ParseLiteral,
       ParseStringValue, StringReturned, ParseNumber, ParseNoNumber, OpenArray, OpenObject, Open,
       OpenEmpty, OpenList, TooDeep, Opening, ParseNothing, NoElement, ArrayElement, ObjectMember,
       MemberName, NoMemberName, AfterValue, CloseList, Unwind, Parsed, Failed, StringRuns

LEMMA LookUpKeeps == ASSUME AnswerInv, LookUp PROVE AnswerInv'
<1>1. UNCHANGED clientVars /\ found' = found /\ content # <<>>
  BY DEF LookUp
<1>2. ClientInv'
  BY <1>1, ClientInvNext DEF AnswerInv
<1>3. pc # "extracted" /\ content' = content
  BY CallsEnd DEF LookUp
<1>4. FoundInv'
  BY <1>1, <1>3 DEF AnswerInv, FoundInv, clientVars
<1>5. PICK kept \in Nat : kept = Copied /\ CallInv(kept)
  BY DEF AnswerInv
<1>6. CallInv(kept)'
  BY <1>5, CallSteps DEF LookUp, Next
<1>7. kept = Copied'
  BY <1>1, <1>5 DEF Copied
<1> QED
  BY <1>2, <1>4, <1>6, <1>7 DEF AnswerInv

LEMMA AskKeeps ==
  ASSUME AnswerInv, get_key \/ get_key_id
  PROVE  AnswerInv'
<1>1. PICK name \in {KeyName, KeyIdName} : Ask(name)
  BY DEF get_key, get_key_id
<1>2. UNCHANGED clientVars /\ content' = Block /\ field' \in FieldNames
  BY <1>1, CallsAssumption DEF Ask
<1>3. ClientInv'
  BY <1>2, ClientInvNext DEF AnswerInv
<1>4. content' \in Seq(Bytes) /\ content' # <<>>
  BY <1>2, BlockType DEF AnswerInv
<1>5. CallInv(0) /\ pc \in {"start", "extracted"} /\ found = <<>>
  BY DEF AnswerInv, FoundInv, Copied, get_key, get_key_id
<1>6. PICK now \in Nat : now = 0 + IF result = NULL THEN 0 ELSE 1
  OBVIOUS
<1>7. CallInv(now)'
  BY <1>1, <1>2, <1>4, <1>5, <1>6, CallAfterCall DEF Ask
<1>8. result \in Seq(Bytes) \cup {NULL}
  BY <1>5 DEF CallInv, ResultTyped
<1>9. /\ cPc = "returned" /\ memory # Client!NoBlock
      /\ \/ found' = <<>> /\ result = NULL
         \/ found' = <<result>>
  <2>1. CASE get_key
    <3>1. content = <<>> /\ pc = "start"
      BY <2>1 DEF get_key, AnswerInv, FoundInv
    <3>2. result = NULL
      BY <1>5, <3>1 DEF CallInv, OwnedStrings
    <3> QED
      BY <1>5, <2>1, <3>2 DEF get_key
  <2>2. CASE get_key_id
    <3>1. content # <<>>
      BY <2>2 DEF get_key_id, AnswerInv, FoundInv
    <3> QED
      BY <2>2, <3>1 DEF get_key_id, AnswerInv, FoundInv
  <2> QED
    BY <2>1, <2>2
<1>10. found' \in Seq(Seq(Bytes) \cup {NULL}) /\ Len(found') \in {0, 1}
  <2>1. PICK T : T = Seq(Bytes) \cup {NULL}
    OBVIOUS
  <2>2. <<>> \in Seq(T) /\ Len(<<>>) = 0
    OBVIOUS
  <2>3. <<result>> \in Seq(T) /\ Len(<<result>>) = 1
    BY <1>8, <2>1
  <2> QED
    BY <1>9, <2>1, <2>2, <2>3
<1>11. now = Copied'
  <2>1. CASE found' = <<>> /\ result = NULL
    BY <1>6, <2>1 DEF Copied
  <2>2. CASE found' = <<result>>
    <3>1. found' # <<>> /\ found'[1] = result
      BY <2>2
    <3> QED
      BY <1>6, <3>1 DEF Copied
  <2> QED
    BY <1>9, <2>1, <2>2
<1>12. FoundInv'
  <2>1. Len(found') <= 2 /\ Len(found') # 2
    BY <1>10
  <2>2. cPc' = "returned" /\ memory' # Client!NoBlock
    BY <1>2, <1>9 DEF clientVars
  <2> QED
    BY <1>4, <1>10, <2>1, <2>2 DEF FoundInv
<1> QED
  BY <1>3, <1>7, <1>11, <1>12 DEF AnswerInv

\* Appending keeps what the sequence held.
LEMMA AppendKeeps ==
  ASSUME NEW T, NEW s \in Seq(T), NEW x \in T, NEW n, n = Len(s), NEW m, m = n + 1
  PROVE  /\ Append(s, x) \in Seq(T)
         /\ Len(Append(s, x)) = m /\ Append(s, x)[m] = x
         /\ \A k \in 1..n : Append(s, x)[k] = s[k]
<1>1. Len(s) \in Nat OBVIOUS
<1>2. n \in Nat BY <1>1
<1> QED BY <1>2

LEMMA EmptyLength == Len(<<>>) = 0
OBVIOUS

\* Named lengths: the provers do not see through a sequence of known length.
LEMMA SecondAppended ==
  ASSUME NEW T, NEW s \in Seq(T), NEW n, Len(s) = n, NEW x \in T,
         NEW m, m = n + 1, 1 \in 1..n, n # 0, m # 0
  PROVE  /\ Append(s, x) \in Seq(T) /\ Len(Append(s, x)) = m
         /\ Append(s, x)[m] = x /\ Append(s, x)[1] = s[1]
         /\ s # <<>> /\ Append(s, x) # <<>>
<1>1. /\ Append(s, x) \in Seq(T)
      /\ Len(Append(s, x)) = m /\ Append(s, x)[m] = x
      /\ \A k \in 1..n : Append(s, x)[k] = s[k]
  BY AppendKeeps
<1>2. s # <<>> /\ Append(s, x) # <<>>
  BY <1>1, EmptyLength, Zenon
<1>3. Append(s, x)[1] = s[1]
  BY <1>1, Zenon
<1> QED BY <1>1, <1>2, <1>3, Zenon

LEMMA ReturnKeeps == ASSUME AnswerInv, KeyIdReturned PROVE AnswerInv'
<1>1. UNCHANGED vars /\ UNCHANGED clientVars /\ found' = Append(found, result)
      /\ Len(found) = 1 /\ pc = "extracted"
  BY DEF KeyIdReturned
<1>2. ClientInv'
  BY <1>1, ClientInvNext DEF AnswerInv
<1>3. PICK kept \in Nat : kept = Copied /\ CallInv(kept)
  BY DEF AnswerInv
<1>4. CallInv(kept)'
  BY <1>1, <1>3, CallSteps
<1>5. found \in Seq(Seq(Bytes) \cup {NULL}) /\ result \in Seq(Bytes) \cup {NULL}
  BY <1>3 DEF AnswerInv, FoundInv, CallInv, ResultTyped
<1>6. /\ found' \in Seq(Seq(Bytes) \cup {NULL}) /\ Len(found') = 2
      /\ found'[1] = found[1] /\ found'[2] = result /\ found # <<>> /\ found' # <<>>
  <2>1. PICK T : T = Seq(Bytes) \cup {NULL}
    OBVIOUS
  <2>2. found \in Seq(T) /\ result \in T
    BY <1>5, <2>1
  <2>3. /\ Append(found, result) \in Seq(T) /\ Len(Append(found, result)) = 2
        /\ Append(found, result)[1] = found[1] /\ Append(found, result)[2] = result
        /\ found # <<>> /\ Append(found, result) # <<>>
    <3>1. PICK n : n = 1
      OBVIOUS
    <3>2. PICK m : m = 2
      OBVIOUS
    <3>3. Len(found) = n
      BY <1>1, <3>1, Zenon
    <3>4. m = n + 1 /\ 1 \in 1..n /\ n # 0 /\ m # 0
      BY <3>1, <3>2
    <3>5. /\ Append(found, result) \in Seq(T) /\ Len(Append(found, result)) = m
          /\ Append(found, result)[1] = found[1] /\ Append(found, result)[m] = result
          /\ found # <<>> /\ Append(found, result) # <<>>
      BY <2>2, <3>3, <3>4, SecondAppended
    <3> QED
      BY <3>2, <3>5, Zenon
  <2> QED
    BY <1>1, <2>1, <2>3, Zenon
<1>7. kept = Copied'
  BY <1>3, <1>6 DEF Copied
<1>8. content' = content /\ pc' = pc /\ result' = result /\ cPc' = cPc /\ memory' = memory
  BY <1>1 DEF vars, parserVars, bufferVars, clientVars
<1>9. FoundInv'
  BY <1>1, <1>6, <1>8 DEF AnswerInv, FoundInv
<1> QED
  BY <1>2, <1>4, <1>7, <1>9 DEF AnswerInv

LEMMA AnswerInvNext == AnswerInv /\ [AnswerNext]_answerVars => AnswerInv'
<1> SUFFICES ASSUME AnswerInv, [AnswerNext]_answerVars PROVE AnswerInv'
  OBVIOUS
<1>1. CASE UNCHANGED answerVars
  <2>1. UNCHANGED vars /\ UNCHANGED clientVars /\ found' = found
    BY <1>1 DEF answerVars
  <2>2. ClientInv'
    BY <2>1, ClientInvNext DEF AnswerInv
  <2>3. PICK kept \in Nat : kept = Copied /\ CallInv(kept)
    BY DEF AnswerInv
  <2>4. CallInv(kept)'
    BY <2>1, <2>3, CallSteps
  <2>5. kept = Copied'
    BY <2>1, <2>3 DEF Copied
  <2>6. content' = content /\ pc' = pc /\ result' = result /\ cPc' = cPc /\ memory' = memory
    BY <2>1 DEF vars, parserVars, bufferVars, clientVars
  <2>7. FoundInv'
    BY <2>1, <2>6 DEF AnswerInv, FoundInv
  <2> QED
    BY <2>2, <2>4, <2>5, <2>7 DEF AnswerInv
<1> QED
  BY <1>1, FetchKeeps, LookUpKeeps, AskKeeps, ReturnKeeps DEF AnswerNext, AnswerUsed

LEMMA AnswerInvariant == AnswerSpec => []AnswerInv
BY AnswerInvInit, AnswerInvNext, PTL DEF AnswerSpec

-----------------------------------------------------------------------------
(* What follows.                                                           *)

(* The variables of connection_qkd and of the look-ups keep their types,   *)
(* for answers of any length.                                              *)
THEOREM TypeCorrect == AnswerSpec => []AnswerTypeOK
<1>1. AnswerInv => AnswerTypeOK
  <2> SUFFICES ASSUME AnswerInv PROVE AnswerTypeOK
    OBVIOUS
  <2>1. Client!TypeOK
    BY BodyType DEF AnswerInv, ClientInv, Client!TypeOK, Gathering, BlockHasOneOwner
  <2>2. TypeOK
    BY DEF AnswerInv, CallInv, IInv, ResultTyped, TypeOK
  <2> QED
    BY <2>1, <2>2 DEF AnswerInv, FoundInv, AnswerTypeOK
<1> QED BY <1>1, AnswerInvariant, PTL

(* An answer of any length, cut into any pieces, is returned whole or not  *)
(* at all.                                                                 *)
THEOREM AnswerIsWholeOrNothing == AnswerSpec => []WholeOrNothing
<1>1. AnswerInv => WholeOrNothing
  BY DEF AnswerInv, ClientInv
<1> QED BY <1>1, AnswerInvariant, PTL

(* Whichever allocation or transfer fails, the block is returned or freed, *)
(* once.                                                                   *)
THEOREM NoBlockIsLost == AnswerSpec => []BlockHasOneOwner
<1>1. AnswerInv => BlockHasOneOwner
  BY DEF AnswerInv, ClientInv
<1> QED BY <1>1, AnswerInvariant, PTL

(* What keeps the parser in its bounds holds in both look-ups, whatever    *)
(* the KME answered and the first of them left behind.                     *)
THEOREM LookUpsAreSafe ==
  AnswerSpec => [](/\ OutputFits /\ ReadsStayInText /\ DepthIsNesting
                   /\ NodesHaveOneOwner /\ SiblingsLinked)
<1>1. ASSUME AnswerInv
      PROVE  IInv /\ OwnInv /\ ListInv /\ FiniteHeap
  BY <1>1 DEF AnswerInv, CallInv
<1>2. AnswerInv => OutputFits
  BY <1>1, FitsIsRoom DEF OutputFits, IInv, StringInv
<1>3. AnswerInv => ReadsStayInText
  BY <1>1 DEF ReadsStayInText, IInv, ControlInv, StringInv
<1>4. AnswerInv => DepthIsNesting
  BY <1>1 DEF DepthIsNesting, IInv, ControlInv
<1>5. AnswerInv => NodesHaveOneOwner
  BY <1>1, OwnInvOwnsOnce
<1>6. AnswerInv => SiblingsLinked
  BY <1>1, ListInvLinks
<1> QED BY <1>2, <1>3, <1>4, <1>5, <1>6, AnswerInvariant, PTL

LEMMA TwoCopies ==
  ASSUME NEW f, NEW z
  PROVE  Cardinality({n \in 1..2 : f[n] # z})
           = (IF f[1] # z THEN 1 ELSE 0) + (IF f[2] # z THEN 1 ELSE 0)
<1> DEFINE S == {n \in 1..2 : f[n] # z}
<1>1. CASE f[1] # z /\ f[2] # z
  <2>1. S = {1} \cup {2} /\ 2 \notin {1}
    BY <1>1
  <2>2. IsFiniteSet({1}) /\ Cardinality({1}) = 1
    BY FS_Singleton
  <2>3. Cardinality({1} \cup {2}) = 1 + 1
    BY <2>1, <2>2, FS_AddElement
  <2> QED BY <1>1, <2>1, <2>3
<1>2. CASE f[1] # z /\ f[2] = z
  <2>1. S = {1} /\ Cardinality({1}) = 1
    BY <1>2, FS_Singleton
  <2> QED BY <1>2, <2>1
<1>3. CASE f[1] = z /\ f[2] # z
  <2>1. S = {2} /\ Cardinality({2}) = 1
    BY <1>3, FS_Singleton
  <2> QED BY <1>3, <2>1
<1>4. CASE f[1] = z /\ f[2] = z
  <2>1. S = {} /\ Cardinality({}) = 0
    BY <1>4, FS_EmptySet
  <2> QED BY <1>4, <2>1
<1> QED BY <1>1, <1>2, <1>3, <1>4

(* Behind both look-ups nothing is in use but the block and the copies     *)
(* they returned, wherever an allocation failed.                           *)
THEOREM OnlyCopiesAreLeft == AnswerSpec => []OnlyCopiesLeft
<1>1. AnswerInv => OnlyCopiesLeft
  <2> SUFFICES ASSUME AnswerInv, Len(found) = 2
               PROVE  /\ DOMAIN heap = {} /\ blocks = 1
                      /\ strings = Cardinality({n \in 1..2 : found[n] # NULL})
    BY DEF OnlyCopiesLeft
  <2>1. PICK kept \in Nat : kept = Copied /\ CallInv(kept)
    BY DEF AnswerInv
  <2>2. found # <<>> /\ content # <<>> /\ pc = "extracted" /\ result = found[2]
    BY DEF AnswerInv, FoundInv
  <2>3. DOMAIN heap = {} /\ strings = kept + IF result = NULL THEN 0 ELSE 1
    BY <2>1, <2>2, CallLeaves
  <2>4. blocks = 1
    BY <2>2 DEF AnswerInv, FoundInv, ClientInv, BlockHasOneOwner
  <2>5. kept = IF found[1] # NULL THEN 1 ELSE 0
    BY <2>1, <2>2 DEF Copied
  <2> QED
    BY <2>2, <2>3, <2>4, <2>5, TwoCopies
<1> QED BY <1>1, AnswerInvariant, PTL

-----------------------------------------------------------------------------
(* Every step gets on.                                                     *)

(* The block is one byte longer than what is gathered, at most, and a text *)
(* of the look-ups two bytes longer than the answer.                       *)
RoomInv ==
  /\ memory \in Seq(0..255) /\ Len(memory) <= Len(body) + 1
  /\ content # <<>> => Len(content) <= Len(body) + 2
  /\ EdgeInv
  /\ StepsLeft <= 3 * Len(content) + 9

LEMMA RoomInit == AnswerInit => RoomInv
<1> SUFFICES ASSUME AnswerInit PROVE RoomInv
  OBVIOUS
<1>1. memory = <<>> /\ Len(body) \in Nat
  BY BodyType DEF AnswerInit, Client!Init, Client!NoBlock
<1>2. pc = "start" /\ content = <<>> /\ offset = 0 /\ stack = <<>>
  BY DEF AnswerInit, Init, ParserInit, BufferInit
<1>3. StepsLeft = 3 * (Len(content) - offset) + 9 /\ Len(content) = 0
  BY <1>2, StepsAtHolds DEF StepsAt
<1>4. memory \in Seq(0..255) /\ Len(memory) = 0
  BY <1>1
<1>5. StepsLeft <= 3 * Len(content) + 9
  BY <1>2, <1>3
<1> QED
  BY <1>1, <1>2, <1>4, <1>5 DEF RoomInv, EdgeInv

(* One step of connection_qkd.                                             *)
LEMMA FetchSteps ==
  ASSUME ClientInv, Len(memory) <= Len(body) + 1, Client!Next
  PROVE  /\ Len(memory') <= Len(body) + 1 /\ body' = body
         /\ GatherSteps' < GatherSteps
<1>1. Len(body) \in Nat /\ received \in 0..Len(body) /\ Len(memory) \in Nat
  BY BodyType DEF ClientInv
<1>2. body' = body
  BY DEF Client!Next, Client!AllocateChunk, Client!EasyInit, Client!PerformPiece,
         Client!PerformEnds, Client!PerformHangs, Client!FreeChunk
<1>3. CASE cPc' # cPc /\ received' = received
  <2>1. \/ cPc = "start" /\ cPc' \in {"init", "returned"}
        \/ cPc = "init" /\ cPc' \in {"perform", "returned"}
        \/ cPc = "perform" /\ cPc' \in {"failed", "returned", "unanswered"}
        \/ cPc = "failed" /\ cPc' = "returned"
    BY <1>3 DEF Client!Next, Client!AllocateChunk, Client!EasyInit, Client!PerformPiece,
                Client!PerformEnds, Client!PerformHangs, Client!FreeChunk
  <2>2. memory' \in Client!Unset \/ memory' = memory \/ memory' = Client!NoBlock
    BY <1>3 DEF Client!Next, Client!AllocateChunk, Client!EasyInit, Client!PerformPiece,
                Client!PerformEnds, Client!PerformHangs, Client!FreeChunk
  <2>3. Len(memory') = 1 \/ Len(memory') = 0 \/ memory' = memory
    <3>1. \A s : (s = <<0>> \/ s = <<99>>) => Len(s) = 1
      OBVIOUS
    <3>2. \A s : s = <<>> => Len(s) = 0
      OBVIOUS
    <3>3. memory' = <<0>> \/ memory' = <<99>> \/ memory' = <<>> \/ memory' = memory
      BY <2>2, Zenon DEF Client!Unset, Client!NoBlock
    <3> QED
      BY <3>1, <3>2, <3>3, Zenon
  <2>4. Len(memory') <= Len(body) + 1
    <3>1. PICK now : now = Len(memory')
      OBVIOUS
    <3>2. PICK old : old = Len(memory)
      OBVIOUS
    <3>3. now = 1 \/ now = 0 \/ now = old
      BY <2>3, <3>1, <3>2, Zenon
    <3>4. old <= Len(body) + 1 /\ old \in Nat
      BY <1>1, <3>2
    <3>5. now <= Len(body) + 1
      BY <1>1, <3>3, <3>4
    <3> QED
      BY <3>1, <3>5
  <2>5. GatherSteps' < GatherSteps
    BY <1>1, <1>2, <1>3, <2>1 DEF GatherSteps
  <2> QED
    BY <1>2, <2>4, <2>5
<1>4. CASE Client!PerformPiece /\ cPc' = cPc
  <2>1. PICK n \in 1..(Len(body) - received) :
           Client!WriteMemoryCallback(n) /\ received' = received + n
    BY <1>4 DEF Client!PerformPiece
  <2>2. cPc = "perform" /\ cPc' = "perform"
    BY <1>4 DEF Client!PerformPiece
  <2>3. memory' = SubSeq(body, 1, received + n) \o <<0>>
    BY <2>1, <2>2, PieceIsAppended
  <2>4. Len(memory') = received + n + 1
    <3>1. body \in Seq(0..255) /\ received + n \in Nat /\ received + n <= Len(body)
      BY <1>1, <2>1, BodyType DEF ClientInv
    <3>2. SubSeq(body, 1, received + n) \in Seq(0..255)
          /\ Len(SubSeq(body, 1, received + n)) = received + n
      BY <3>1, HeadType
    <3>3. \A s \in Seq(0..255) : Len(s \o <<0>>) = Len(s) + 1
      OBVIOUS
    <3> QED
      BY <2>3, <3>2, <3>3
  <2>5. GatherSteps' < GatherSteps
    BY <1>1, <1>2, <2>1, <2>2 DEF GatherSteps
  <2> QED
    BY <1>1, <1>2, <2>1, <2>4, <2>5
<1> QED
  BY <1>3, <1>4 DEF Client!Next, Client!AllocateChunk, Client!EasyInit, Client!PerformPiece,
                    Client!PerformEnds, Client!PerformHangs, Client!FreeChunk

LEMMA GatherIsNat == ASSUME ClientInv PROVE GatherSteps \in 0..(Len(body) + 4)
<1>1. Len(body) \in Nat /\ received \in 0..Len(body)
      /\ cPc \in {"start", "init", "perform", "failed", "returned", "unanswered"}
  BY BodyType DEF ClientInv
<1> QED
  BY <1>1 DEF GatherSteps

(* What is left of the look-ups, by where they are.                        *)
LookUpsAre ==
  /\ content = <<>> => LookUpSteps = 2 * AskSteps
  /\ content # <<>> /\ found = <<>> => LookUpSteps = (StepsLeft + 1) + AskSteps
  /\ content # <<>> /\ found # <<>> /\ Len(found) = 1 => LookUpSteps = StepsLeft + 1
  /\ content # <<>> /\ found # <<>> /\ Len(found) # 1 => LookUpSteps = 0

LEMMA LookUpAt == LookUpsAre
<1> DEFINE asked == (StepsLeft + 1) + AskSteps
           last == StepsLeft + 1
           both == 2 * AskSteps
<1>1. LookUpSteps = IF content = <<>>       THEN both
                    ELSE IF found = <<>>    THEN asked
                    ELSE IF Len(found) = 1  THEN last
                    ELSE 0
  BY DEF LookUpSteps
<1> HIDE DEF asked, last, both
<1>2. content = <<>> => LookUpSteps = both
  BY <1>1
<1>3. content # <<>> /\ found = <<>> => LookUpSteps = asked
  BY <1>1
<1>4. content # <<>> /\ found # <<>> /\ Len(found) = 1 => LookUpSteps = last
  BY <1>1
<1>5. content # <<>> /\ found # <<>> /\ Len(found) # 1 => LookUpSteps = 0
  BY <1>1
<1> QED
  BY <1>2, <1>3, <1>4, <1>5 DEF asked, last, both, LookUpsAre

LEMMA CallKnown ==
  AnswerInv => /\ IInv /\ Len(body) \in Nat /\ Len(content) \in Nat /\ StepsLeft \in Nat
               /\ (pc \in {"start", "extracted"} => stack = <<>>)
<1>1. ASSUME AnswerInv PROVE IInv /\ OwnInv /\ Len(body) \in Nat
  BY <1>1, BodyType DEF AnswerInv, CallInv, ClientInv
<1>2. ASSUME AnswerInv PROVE Len(content) \in Nat /\ StepsLeft \in Nat
  BY <1>1, <1>2, Known, StepsAreNat
<1> QED
  BY <1>1, <1>2 DEF OwnInv

LEMMA CallKnownNext ==
  AnswerInv' => IInv' /\ Len(content') \in Nat /\ StepsLeft' \in Nat
<1> DEFINE P == IInv /\ Len(content) \in Nat /\ StepsLeft \in Nat
<1>1. AnswerInv => P
  BY CallKnown
<1> HIDE DEF P
<1>2. AnswerInv' => P'
  BY <1>1, PTL
<1> QED
  BY <1>2 DEF P

LEMMA LookUpAtNext == LookUpsAre'
BY LookUpAt, PTL

(* A call of get_key or get_key_id: the text is new, and not too long.     *)
LEMMA AskSetsOut ==
  ASSUME AnswerInv, AnswerInv', RoomInv, get_key \/ get_key_id
  PROVE  /\ RoomInv' /\ body' = body /\ GatherSteps' = GatherSteps /\ content' # <<>>
         /\ StepsLeft' <= 3 * Len(body) + 15
<1>1. PICK name : Ask(name)
  BY DEF get_key, get_key_id
<1>2. /\ content' = Block /\ offset' = 0 /\ pc' = "start" /\ stack' = stack
      /\ body' = body /\ memory' = memory /\ cPc' = cPc /\ received' = received
  BY <1>1 DEF Ask, clientVars
<1>3. pc \in {"start", "extracted"} /\ stack = <<>> /\ Len(body) \in Nat
  BY CallKnown DEF get_key, get_key_id, AnswerInv, FoundInv
<1>4. Block \in Seq(Bytes) /\ Block # <<>> /\ Len(Block) <= Len(body) + 2
  <2>1. memory \in Seq(Bytes) /\ Len(memory) <= Len(body) + 1 /\ Len(memory) \in Nat
    BY DEF RoomInv, Bytes
  <2>2. CString(memory) \in Seq(Bytes) /\ Len(CString(memory)) \in 0..Len(memory)
    BY <2>1, CStringTyped
  <2>3. \A s \in Seq(Bytes) : Len(s \o <<0>>) = Len(s) + 1
    BY DEF Bytes
  <2>4. Len(Block) = Len(CString(memory)) + 1
    BY <2>2, <2>3 DEF Block
  <2> QED
    BY <1>3, <2>1, <2>2, <2>4, BlockType DEF AnswerInv
<1>5. StepsLeft' = 3 * (Len(content') - offset') + 9
  BY <1>2, StepsAtNext DEF StepsAt
<1>6. Len(content') \in Nat /\ Len(content') <= Len(body) + 2
  BY <1>2, <1>4, CallKnownNext
<1>7. StepsLeft' <= 3 * Len(body) + 15 /\ StepsLeft' <= 3 * Len(content') + 9
  BY <1>2, <1>3, <1>5, <1>6
<1>8. GatherSteps' = GatherSteps
  BY <1>2 DEF GatherSteps
<1>9. RoomInv'
  BY <1>2, <1>3, <1>6, <1>7 DEF RoomInv, EdgeInv
<1> QED
  BY <1>2, <1>4, <1>7, <1>8, <1>9

LEMMA GatherNext == ClientInv' => GatherSteps' \in Int
<1> DEFINE P == GatherSteps \in Int
<1>1. ClientInv => P
  <2>1. ASSUME ClientInv PROVE GatherSteps \in Int
    <3>1. Len(body) \in Nat
      BY <2>1, BodyType DEF ClientInv
    <3> QED
      BY <2>1, <3>1, GatherIsNat
  <2> QED
    BY <2>1
<1> HIDE DEF P
<1>2. ClientInv' => P'
  BY <1>1, PTL
<1> QED
  BY <1>2 DEF P

LEMMA AnswerRests ==
  ASSUME RoomInv, UNCHANGED answerVars
  PROVE  RoomInv' /\ body' = body
<1>1. UNCHANGED vars /\ body' = body /\ memory' = memory
  BY DEF answerVars, clientVars
<1>2. StepsLeft' = StepsLeft /\ content' = content
  BY <1>1 DEF vars, parserVars, bufferVars, callVars, stringVars, StepsLeft, StringSteps, TextLeft
<1>3. EdgeInv'
  BY <1>1, EdgesKeep DEF RoomInv
<1> QED
  BY <1>1, <1>2, <1>3 DEF RoomInv

LEMMA AnswerStep ==
  ASSUME AnswerInv, AnswerInv', RoomInv, AnswerNext
  PROVE  RoomInv' /\ body' = body
         /\ (UNCHANGED answerVars \/ AnswerStepsLeft' < AnswerStepsLeft)
<1>1. /\ IInv /\ Len(body) \in Nat /\ Len(content) \in Nat /\ StepsLeft \in Nat
      /\ IInv' /\ Len(content') \in Nat /\ StepsLeft' \in Nat
      /\ LookUpsAre /\ LookUpsAre'
  BY CallKnown, CallKnownNext, LookUpAt, LookUpAtNext
<1>2. GatherSteps \in Nat /\ AskSteps = 3 * Len(body) + 17 /\ AskSteps' = 3 * Len(body') + 17
  BY <1>1, GatherIsNat DEF AnswerInv, AskSteps
<1>3. AnswerStepsLeft = GatherSteps + LookUpSteps /\ AnswerStepsLeft' = GatherSteps' + LookUpSteps'
  BY DEF AnswerStepsLeft
<1>4. CASE Fetch
  <2>1. UNCHANGED vars /\ found' = found /\ Client!Next
    BY <1>4 DEF Fetch
  <2>2. cPc # "returned"
    BY <2>1 DEF Client!Next, Client!AllocateChunk, Client!EasyInit, Client!PerformPiece,
                Client!PerformEnds, Client!PerformHangs, Client!FreeChunk
  <2>3. content = <<>> /\ content' = content
    BY <2>1, <2>2 DEF AnswerInv, FoundInv, vars, parserVars, bufferVars
  <2>4. /\ Len(memory') <= Len(body) + 1 /\ body' = body
        /\ GatherSteps' < GatherSteps
    BY <2>1, FetchSteps DEF AnswerInv, RoomInv
  <2>5. GatherSteps' \in Int
    <3>1. ClientInv' => GatherSteps' \in Int
      BY GatherNext
    <3> QED
      BY <3>1 DEF AnswerInv
  <2>6. LookUpSteps = 2 * AskSteps /\ LookUpSteps' = 2 * AskSteps'
    BY <1>1, <2>3 DEF LookUpsAre
  <2>7. AskSteps' = AskSteps /\ AskSteps \in Nat
    BY <1>1, <1>2, <2>4
  <2>8. \A g, h \in Int, a \in Nat : h < g => h + 2 * a < g + 2 * a
    OBVIOUS
  <2>9. AnswerStepsLeft' < AnswerStepsLeft
    BY <1>2, <1>3, <2>4, <2>5, <2>6, <2>7, <2>8
  <2>10. RoomInv'
    <3>1. StepsLeft' = StepsLeft
      BY <2>1 DEF vars, parserVars, bufferVars, callVars, stringVars, StepsLeft, StringSteps,
                  TextLeft
    <3>2. EdgeInv'
      BY <2>1, EdgesKeep DEF RoomInv
    <3>3. memory' \in Seq(0..255)
      BY DEF AnswerInv, ClientInv
    <3> QED
      BY <2>3, <2>4, <3>1, <3>2, <3>3 DEF RoomInv
  <2> QED
    BY <2>4, <2>9, <2>10
<1>5. CASE get_key
  <2>1. content = <<>> /\ found = <<>> /\ found' = found
    BY <1>5 DEF get_key
  <2>2. /\ RoomInv' /\ body' = body /\ GatherSteps' = GatherSteps /\ content' # <<>>
        /\ StepsLeft' <= 3 * Len(body) + 15
    BY <1>5, AskSetsOut
  <2>3. LookUpSteps = 2 * AskSteps /\ LookUpSteps' = (StepsLeft' + 1) + AskSteps'
    <3>1. found' = <<>>
      BY <2>1
    <3> QED
      BY <1>1, <2>1, <2>2, <3>1, Zenon DEF LookUpsAre
  <2>4. AskSteps' = AskSteps /\ AskSteps \in Nat /\ StepsLeft' + 2 <= AskSteps
    BY <1>1, <1>2, <2>2 DEF AskSteps
  <2>5. \A g, a, b \in Nat : b + 2 <= a => g + ((b + 1) + a) < g + 2 * a
    OBVIOUS
  <2>6. AnswerStepsLeft' < AnswerStepsLeft
    BY <1>1, <1>2, <1>3, <2>2, <2>3, <2>4, <2>5
  <2> QED
    BY <2>2, <2>6
<1>6. CASE get_key_id
  <2>1. pc = "extracted" /\ found = <<>> /\ found' = <<result>> /\ content # <<>>
    BY <1>6 DEF get_key_id, AnswerInv, FoundInv
  <2>2. /\ RoomInv' /\ body' = body /\ GatherSteps' = GatherSteps /\ content' # <<>>
        /\ StepsLeft' <= 3 * Len(body) + 15
    BY <1>6, AskSetsOut
  <2>3. found' # <<>> /\ Len(found') = 1
    <3>1. \A x : <<x>> # <<>> /\ Len(<<x>>) = 1
      OBVIOUS
    <3> QED
      BY <2>1, <3>1, Zenon
  <2>4. LookUpSteps = (StepsLeft + 1) + AskSteps /\ LookUpSteps' = StepsLeft' + 1
    BY <1>1, <2>1, <2>2, <2>3, Zenon DEF LookUpsAre
  <2>5. AskSteps \in Nat /\ StepsLeft' + 2 <= AskSteps
    BY <1>1, <1>2, <2>2
  <2>6. \A g, a, b, c \in Nat : b + 2 <= a => g + (b + 1) < g + ((c + 1) + a)
    OBVIOUS
  <2>7. AnswerStepsLeft' < AnswerStepsLeft
    BY <1>1, <1>2, <1>3, <2>2, <2>4, <2>5, <2>6
  <2> QED
    BY <2>2, <2>7
<1>7. CASE KeyIdReturned
  <2>1. /\ UNCHANGED <<vars, clientVars>> /\ found' = Append(found, result) /\ pc = "extracted"
        /\ Len(found) = 1
    BY <1>7 DEF KeyIdReturned
  <2>2. /\ content' = content /\ body' = body /\ memory' = memory /\ cPc' = cPc
        /\ received' = received /\ StepsLeft' = StepsLeft
    BY <2>1 DEF vars, parserVars, bufferVars, callVars, stringVars, clientVars, StepsLeft,
                StringSteps, TextLeft
  <2>3. found # <<>> /\ found' # <<>> /\ Len(found') # 1 /\ content # <<>>
    <3>1. content # <<>>
      BY <2>1 DEF AnswerInv, FoundInv
    <3>2. PICK T : T = Seq(Bytes) \cup {NULL}
      OBVIOUS
    <3>3. found \in Seq(T) /\ result \in T
      BY <3>2 DEF AnswerInv, FoundInv, CallInv, ResultTyped
    <3>4. PICK n : n = 1
      OBVIOUS
    <3>5. PICK m : m = 2
      OBVIOUS
    <3>6. Len(found) = n
      BY <2>1, <3>4, Zenon
    <3>7. m = n + 1 /\ 1 \in 1..n /\ n # 0 /\ m # 0 /\ m # 1
      BY <3>4, <3>5
    <3>8. Len(Append(found, result)) = m /\ found # <<>> /\ Append(found, result) # <<>>
      BY <3>3, <3>6, <3>7, SecondAppended
    <3> QED
      BY <2>1, <3>1, <3>7, <3>8, Zenon
  <2>4. LookUpSteps = StepsLeft + 1 /\ LookUpSteps' = 0
    BY <1>1, <2>1, <2>2, <2>3, Zenon DEF LookUpsAre
  <2>5. GatherSteps' = GatherSteps
    BY <2>2 DEF GatherSteps
  <2>6. RoomInv'
    <3>1. EdgeInv'
      BY <2>1, EdgesKeep DEF RoomInv
    <3> QED
      BY <2>2, <3>1 DEF RoomInv
  <2> QED
    BY <1>1, <1>2, <1>3, <2>2, <2>4, <2>5, <2>6
<1>8. CASE LookUp
  <2>1. /\ content # <<>> /\ (Parse \/ Extract \/ NoTree)
        /\ UNCHANGED clientVars /\ found' = found
    BY <1>8 DEF LookUp
  <2>2. /\ content' = content /\ body' = body /\ memory' = memory /\ cPc' = cPc
        /\ received' = received /\ pc # "extracted"
    BY <2>1, CallsEnd DEF clientVars
  <2>3. EdgeInv'
    BY <2>1, EdgesKeep DEF RoomInv, Next
  <2>4. StepsLeft' < StepsLeft
    BY <1>1, <2>1, <2>3, StepsDown DEF RoomInv, Parse
  <2>5. RoomInv'
    BY <1>1, <2>2, <2>3, <2>4 DEF RoomInv
  <2>6. GatherSteps' = GatherSteps
    BY <2>2 DEF GatherSteps
  <2>7. Len(found) # 2
    BY <2>2 DEF AnswerInv, FoundInv
  <2>8. \/ LookUpSteps = (StepsLeft + 1) + AskSteps /\ LookUpSteps' = (StepsLeft' + 1) + AskSteps'
        \/ LookUpSteps = StepsLeft + 1 /\ LookUpSteps' = StepsLeft' + 1
    <3>1. PICK l : l = Len(found)
      OBVIOUS
    <3>2. PICK T : T = Seq(Bytes) \cup {NULL}
      OBVIOUS
    <3>3. found \in Seq(T) /\ Len(found) <= 2
      BY <3>2 DEF AnswerInv, FoundInv
    <3>4. found # <<>> => Len(found) # 0
      BY <3>3
    <3>5. l \in Nat /\ l <= 2
      BY <3>1, <3>3
    <3>6. l # 2 /\ (found # <<>> => l # 0)
      BY <2>7, <3>1, <3>4, Zenon
    <3>7. found # <<>> => l = 1
      BY <3>5, <3>6
    <3>8. CASE found = <<>>
      <4>1. found' = <<>>
        BY <2>1, <3>8
      <4> QED
        BY <1>1, <2>1, <2>2, <3>8, <4>1, Zenon DEF LookUpsAre
    <3>9. CASE found # <<>>
      <4>1. found' # <<>> /\ Len(found) = 1 /\ Len(found') = 1
        BY <2>1, <3>1, <3>7, <3>9, Zenon
      <4> QED
        BY <1>1, <2>1, <2>2, <3>9, <4>1, Zenon DEF LookUpsAre
    <3> QED
      BY <3>8, <3>9
  <2>9. AskSteps' = AskSteps /\ AskSteps \in Nat
    BY <1>1, <1>2, <2>2
  <2>10. \A g, a, b, c \in Nat : b < c => /\ g + ((b + 1) + a) < g + ((c + 1) + a)
                                         /\ g + (b + 1) < g + (c + 1)
    OBVIOUS
  <2>11. AnswerStepsLeft' < AnswerStepsLeft
    <3>1. StepsLeft \in Nat /\ StepsLeft' \in Nat
      BY <1>1
    <3>2. CASE LookUpSteps = (StepsLeft + 1) + AskSteps /\ LookUpSteps' = (StepsLeft' + 1) + AskSteps'
      BY <1>2, <1>3, <2>4, <2>6, <2>9, <2>10, <3>1, <3>2
    <3>3. CASE LookUpSteps = StepsLeft + 1 /\ LookUpSteps' = StepsLeft' + 1
      BY <1>2, <1>3, <2>4, <2>6, <2>9, <2>10, <3>1, <3>3
    <3> QED
      BY <2>8, <3>2, <3>3
  <2> QED
    BY <2>2, <2>5, <2>11
<1> QED
  BY <1>4, <1>5, <1>6, <1>7, <1>8, AnswerRests DEF AnswerNext, AnswerUsed

(* However long the answer is and however curl cuts it, from the request   *)
(* to the second field main takes at most seven steps for each byte and 38 *)
(* more, whatever fails in between (AnswerStepsRunOut).                    *)
THEOREM AnswerIsUsedUp == AnswerSpec => AnswerStepsRunOut
<1>1. AnswerInv /\ AnswerInv' /\ RoomInv /\ [AnswerNext]_answerVars
         => RoomInv' /\ [AnswerStepsLeft' < AnswerStepsLeft]_answerVars
  BY AnswerStep, AnswerRests
<1>2. ASSUME AnswerInv, RoomInv PROVE AnswerStepsLeft \in 0..(7 * Len(body) + 38)
  <2>1. Len(body) \in Nat /\ Len(content) \in Nat /\ StepsLeft \in Nat /\ LookUpsAre
    BY <1>2, CallKnown, LookUpAt
  <2>2. AskSteps = 3 * Len(body) + 17 /\ GatherSteps \in 0..(Len(body) + 4)
        /\ AnswerStepsLeft = GatherSteps + LookUpSteps
    <3>1. ClientInv
      BY <1>2 DEF AnswerInv
    <3> QED
      BY <3>1, GatherIsNat DEF AskSteps, AnswerStepsLeft
  <2>3. content # <<>> => StepsLeft <= 3 * Len(body) + 15
    BY <1>2, <2>1 DEF RoomInv
  <2>4. \/ LookUpSteps = 2 * AskSteps
        \/ content # <<>> /\ LookUpSteps = (StepsLeft + 1) + AskSteps
        \/ content # <<>> /\ LookUpSteps = StepsLeft + 1
        \/ LookUpSteps = 0
    BY <2>1, Zenon DEF LookUpsAre
  <2>5. \A l, x \in Nat : \A g \in 0..(l + 4) :
          /\ g + 2 * (3 * l + 17) \in 0..(7 * l + 38)
          /\ x <= 3 * l + 15 => /\ g + ((x + 1) + (3 * l + 17)) \in 0..(7 * l + 38)
                               /\ g + (x + 1) \in 0..(7 * l + 38)
          /\ g + 0 \in 0..(7 * l + 38)
    OBVIOUS
  <2> QED
    BY <2>1, <2>2, <2>3, <2>4, <2>5
<1> QED
  BY <1>1, <1>2, RoomInit, AnswerInvariant, PTL DEF AnswerSpec, AnswerStepsRunOut
=============================================================================
