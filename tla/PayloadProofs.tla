---------------------------- MODULE PayloadProofs ----------------------------
(***************************************************************************)
(* What the C code's handling of the payload text rests on: the size       *)
(* computed by build_json_payload is enough for what it prints,            *)
(* parse_incoming_message reads nothing beyond the array, and what it      *)
(* counts, sizes and converts there are the bytes that were printed.       *)
(* Last, the two hexadecimal conversions are inverse to each other.        *)
(***************************************************************************)
EXTENDS PayloadText, Hex, SequenceTheorems, FiniteSetTheorems, WellFoundedInduction, TLAPS

-----------------------------------------------------------------------------
(* What is printed.                                                        *)

\* %d of a byte takes at most three characters.
LEMMA DecimalLength ==
  ASSUME NEW b \in 0..255
  PROVE  decimal(b) \in Seq(Chars) /\ Len(decimal(b)) \in 1..3
<1>1. \A d \in 0..9 : Digit(d) \in Chars
  BY DEF Digit, Chars, Digits
<1>2. CASE b < 10
  <2>1. Digit(b) \in Chars /\ decimal(b) = <<Digit(b)>>
    BY <1>1, <1>2 DEF decimal
  <2> QED BY <2>1
<1>3. CASE 10 <= b /\ b < 100
  <2>1. b \div 10 \in 0..9 /\ b % 10 \in 0..9
    BY <1>3
  <2>2. decimal(b) = <<Digit(b \div 10), Digit(b % 10)>>
    BY <1>3 DEF decimal
  <2> QED BY <1>1, <2>1, <2>2
<1>4. CASE 100 <= b
  <2>1. b \div 100 \in 0..9 /\ (b \div 10) % 10 \in 0..9 /\ b % 10 \in 0..9
    BY <1>4
  <2>2. decimal(b) = <<Digit(b \div 100), Digit((b \div 10) % 10), Digit(b % 10)>>
    BY <1>4 DEF decimal
  <2> QED BY <1>1, <2>1, <2>2
<1> QED BY <1>2, <1>3, <1>4

\* One turn of the printing loop takes at most four.
LEMMA ItemLength ==
  ASSUME ciphertext \in Seq(0..255),
         NEW k \in 1..Len(ciphertext)
  PROVE  Item(k) \in Seq(Chars) /\ Len(Item(k)) \in Nat /\ Len(Item(k)) <= 4
<1>1. decimal(ciphertext[k]) \in Seq(Chars) /\ Len(decimal(ciphertext[k])) \in 1..3
  <2>1. ciphertext[k] \in 0..255
    BY ElementOfSeq
  <2> QED BY <2>1, DecimalLength
<1>2. <<Comma>> \in Seq(Chars) /\ Len(<<Comma>>) = 1
  BY DEF Chars
<1> DEFINE rest == IF k = Len(ciphertext) THEN <<>> ELSE <<Comma>>
<1>3. rest \in Seq(Chars) /\ Len(rest) \in 0..1
  BY <1>2
<1> HIDE DEF rest
<1>4. /\ decimal(ciphertext[k]) \o rest \in Seq(Chars)
      /\ Len(decimal(ciphertext[k]) \o rest) = Len(decimal(ciphertext[k])) + Len(rest)
  BY <1>1, <1>3, ConcatProperties
<1>5. Item(k) = decimal(ciphertext[k]) \o rest
  BY DEF Item, rest
<1>6. Len(Item(k)) = Len(decimal(ciphertext[k])) + Len(rest)
  BY <1>4, <1>5
<1>7. Item(k) \in Seq(Chars)
  BY <1>4, <1>5
<1>8. \A m \in 1..3, n \in 0..1 : m + n \in Nat /\ m + n <= 4
  OBVIOUS
<1> QED BY <1>1, <1>3, <1>6, <1>7, <1>8

-----------------------------------------------------------------------------
(* What is scanned.                                                        *)

\* A buffer that strtol may be handed: it ends with the terminator.
Terminated == buffer \in Seq(Chars \cup HeapChars \cup {NUL}) /\ buffer[Len(buffer)] = NUL

\* A set of numbers that is not empty has a least one.
LEMMA LeastMember ==
  ASSUME NEW T, T \subseteq Nat, T # {}
  PROVE  \E r \in T : \A t \in T : r <= t
<1> DEFINE R == OpToRel(<, Nat)
<1>1. R = {ss \in Nat \X Nat : ss[1] < ss[2]}
  BY DEF OpToRel
<1>2. IsWellFoundedOn(R, Nat)
  BY NatLessThanWellFounded
<1> HIDE DEF R
<1>3. PICK r \in T : \A t \in T : <<t, r>> \notin R
  BY <1>2, WFMin
<1>4. \A t \in T : ~(t < r)
  BY <1>1, <1>3
<1> QED BY <1>3, <1>4

\* A run of characters other than NUL ends in the buffer.
LEMMA RunEndInBuffer ==
  ASSUME Terminated, NEW S, NUL \notin S, NEW q \in 1..Len(buffer)
  PROVE  /\ RunEnd(S, q) \in q..Len(buffer)
         /\ buffer[RunEnd(S, q)] \notin S
         /\ \A t \in q..(RunEnd(S, q) - 1) : buffer[t] \in S
<1> DEFINE Ends == {r \in q..Len(buffer) : buffer[r] \notin S}
<1>1. Len(buffer) \in Nat /\ Len(buffer) \in Ends
  BY DEF Terminated
<1>2. PICK r \in Ends : \A t \in Ends : r <= t
  <2>1. Ends \subseteq Nat /\ Ends # {}
    BY <1>1
  <2> HIDE DEF Ends
  <2> QED BY <2>1, LeastMember
<1>3. \A t \in q..(r - 1) : buffer[t] \in S
  BY <1>1, <1>2
<1> QED BY <1>2, <1>3 DEF RunEnd

\* strtol stops within the buffer and passes over spaces, signs and digits.
LEMMA StrtolEnd ==
  ASSUME Terminated, NEW q \in 1..Len(buffer)
  PROVE  /\ strtol_end(q) \in q..Len(buffer)
         /\ \A t \in q..(strtol_end(q) - 1) :
               buffer[t] \in Spaces \cup Signs \cup Digits
<1>0. NUL \notin Spaces /\ NUL \notin Signs /\ NUL \notin Digits /\ Len(buffer) \in Nat
  BY DEF NUL, Spaces, Signs, Minus, Digits, Terminated
<1>1. /\ SignAt(q) \in q..Len(buffer)
      /\ \A t \in q..(SignAt(q) - 1) : buffer[t] \in Spaces
  BY <1>0, RunEndInBuffer DEF SignAt
<1>2. /\ DigitsAt(q) \in q..Len(buffer)
      /\ \A t \in q..(DigitsAt(q) - 1) : buffer[t] \in Spaces \cup Signs
  <2>1. CASE buffer[SignAt(q)] \in Signs
    <3>1. SignAt(q) < Len(buffer)
      BY <1>0, <1>1, <2>1 DEF Terminated
    <3> QED BY <1>0, <1>1, <2>1, <3>1 DEF DigitsAt
  <2>2. CASE buffer[SignAt(q)] \notin Signs
    BY <1>1, <2>2 DEF DigitsAt
  <2> QED BY <2>1, <2>2
<1> DEFINE e == RunEnd(Digits, DigitsAt(q))
<1>3. /\ e \in DigitsAt(q)..Len(buffer)
      /\ \A t \in DigitsAt(q)..(e - 1) : buffer[t] \in Digits
  <2>1. DigitsAt(q) \in 1..Len(buffer)
    BY <1>0, <1>2
  <2> QED BY <1>0, <2>1, RunEndInBuffer
<1>4. e \in q..Len(buffer) /\ \A t \in q..(e - 1) : buffer[t] \in Spaces \cup Signs \cup Digits
  <2> HIDE DEF e
  <2> QED BY <1>0, <1>2, <1>3
<1> HIDE DEF e
<1>5. strtol_end(q) = IF e = DigitsAt(q) THEN q ELSE e
  BY DEF strtol_end, e
<1> QED BY <1>0, <1>4, <1>5

-----------------------------------------------------------------------------
(* The writer.                                                             *)

\* What has been printed, against four characters for each byte.
WriterInv ==
  /\ ciphertext \in Seq(0..255)
  /\ i \in 0..Len(ciphertext)
  /\ offset \in Nat
  /\ json_msg \in Seq(Chars)
  /\ wPc \in {"prefix", "items", "built", "null"}
  /\ wPc \in {"prefix", "null"} => offset = 0
  /\ wPc = "items" => offset <= PrefixLen + FieldsLen + 4 * i
  /\ wPc = "built" => offset <= PrefixLen + FieldsLen + 4 * Len(ciphertext) + 4

LEMMA WriterInvBounds == WriterInv => NothingTruncated
<1>1. ASSUME WriterInv PROVE offset < max_size
  <2>1. Len(ciphertext) \in Nat /\ offset \in Nat
    BY <1>1 DEF WriterInv
  <2>2. offset <= PrefixLen + FieldsLen + 4 * Len(ciphertext) + 4
    BY <1>1, <2>1, WriterAssumption DEF WriterInv, PrefixLen
  <2> QED BY <2>1, <2>2, WriterAssumption DEF max_size, PrefixLen
<1> QED BY <1>1 DEF NothingTruncated

\* Printing characters leaves characters.
LEMMA SnprintfType ==
  ASSUME WriterInv, NEW text \in Seq(Chars), snprintf(text)
  PROVE  /\ json_msg' \in Seq(Chars)
         /\ offset' = offset + Len(text)
<1> DEFINE n == IF Len(text) < max_size - offset THEN Len(text) ELSE max_size - offset - 1
<1>1. Len(text) \in Nat /\ max_size \in Int /\ offset \in Nat
  BY WriterAssumption DEF WriterInv, max_size
<1>2. n \in Int /\ n <= Len(text)
  BY <1>1
<1> HIDE DEF n
<1>3. SubSeq(text, 1, n) \in Seq(Chars)
  BY <1>1, <1>2, \A x \in 1..n : x \in 1..Len(text), SubSeqProperties
<1>4. json_msg' = json_msg \o SubSeq(text, 1, n)
  BY DEF snprintf, n
<1>5. json_msg \in Seq(Chars)
  BY DEF WriterInv
<1> QED BY <1>3, <1>4, <1>5, ConcatProperties DEF snprintf

LEMMA WriterInvInit == Init => WriterInv
BY WriterAssumption DEF Init, WriterInit, WriterInv

LEMMA WriterInvNext == WriterInv /\ [Next]_vars => WriterInv'
<1> SUFFICES ASSUME WriterInv, [Next]_vars PROVE WriterInv'
  OBVIOUS
<1>0. Len(ciphertext) \in Nat /\ FieldsLen \in Nat
  BY WriterAssumption DEF WriterInv
<1>1. CASE WritePrefix
  BY <1>0, <1>1 DEF WritePrefix, WriterInv, PrefixLen
<1>2. CASE WriteItem
  <2>1. i + 1 \in 1..Len(ciphertext) /\ wPc = "items" /\ snprintf(Item(i + 1))
    BY <1>0, <1>2 DEF WriteItem, WriterInv
  <2>2. Item(i + 1) \in Seq(Chars) /\ Len(Item(i + 1)) \in Nat /\ Len(Item(i + 1)) <= 4
    BY <2>1, ItemLength DEF WriterInv
  <2>3. json_msg' \in Seq(Chars) /\ offset' = offset + Len(Item(i + 1))
    BY <2>1, <2>2, SnprintfType
  <2>4. offset' \in Nat /\ offset' <= PrefixLen + FieldsLen + 4 * (i + 1)
    <3>1. /\ offset \in Nat /\ i \in Nat
          /\ offset <= PrefixLen + FieldsLen + 4 * i
      BY <1>0, <2>1 DEF WriterInv
    <3> QED BY <1>0, <2>2, <2>3, <3>1 DEF PrefixLen
  <2>5. UNCHANGED <<wPc, ciphertext>> /\ i' = i + 1
    BY <1>2 DEF WriteItem
  <2> QED BY <2>1, <2>3, <2>4, <2>5 DEF WriterInv
<1>3. CASE WriteTrailer
  <2>1. Trailer \in Seq(Chars) /\ Len(Trailer) = 4
    <3>1. CloseArray \in Chars /\ CloseObject \in Chars
      BY DEF Chars
    <3> QED BY <3>1 DEF Trailer
  <2>2. json_msg' \in Seq(Chars) /\ offset' = offset + 4
    BY <1>3, <2>1, SnprintfType DEF WriteTrailer
  <2>3. wPc = "items" /\ i = Len(ciphertext) /\ wPc' = "built" /\ UNCHANGED <<ciphertext, i>>
    BY <1>3 DEF WriteTrailer
  <2>4. offset' \in Nat /\ offset' <= PrefixLen + FieldsLen + 4 * Len(ciphertext) + 4
    BY <1>0, <2>2, <2>3 DEF WriterInv, PrefixLen
  <2> QED BY <2>2, <2>3, <2>4 DEF WriterInv
<1>4. CASE UNCHANGED writerVars
  BY <1>4 DEF writerVars, WriterInv
<1> QED
  BY <1>1, <1>2, <1>3, <1>4
     DEF Next, Write, WriterStep, Deliver, Read, Ended, vars, writerVars

\* However long the ciphertext and the fields are, the buffer sized at the
\* start of build_json_payload holds what is printed into it.
THEOREM BufferIsLargeEnough == Spec => []NothingTruncated
<1>1. Spec => []WriterInv
  BY WriterInvInit, WriterInvNext, PTL DEF Spec
<1> QED BY <1>1, WriterInvBounds, PTL

-----------------------------------------------------------------------------
(* The reader.                                                             *)

\* The buffer is terminated, and the pointers are where the property says.
ReaderInv ==
  /\ buffer = <<>> \/ Terminated
  /\ rPc = "waiting" => buffer = <<>> /\ p = 1 /\ parser_ptr = 1
  /\ rPc \in {"count", "allocate", "convert"} => buffer # <<>>
  /\ PointersStayInArray

LEMMA ReaderInvInit == Init => ReaderInv
BY DEF Init, ReaderInit, ReaderInv, PointersStayInArray

\* One more element at the end of a sequence.
LEMMA ConcatOneElement ==
  ASSUME NEW S, NEW s \in Seq(S), NEW e \in S
  PROVE  s \o <<e>> \in Seq(S) /\ Len(s \o <<e>>) = Len(s) + 1 /\ (s \o <<e>>)[Len(s) + 1] = e
<1> DEFINE n == Len(s)
           one == <<e>>
<1>1. n \in Nat /\ one \in Seq(S) /\ Len(one) = 1 /\ one[1] = e
  OBVIOUS
<1> HIDE DEF one
<1>2. /\ s \o one \in Seq(S) /\ Len(s \o one) = n + 1
      /\ \A k \in 1..(n + 1) : (s \o one)[k] = IF k <= n THEN s[k] ELSE one[k - n]
  BY <1>1, ConcatProperties
<1>3. (s \o one)[n + 1] = one[1]
  <2> HIDE DEF n
  <2>1. n + 1 \in 1..(n + 1) /\ ~(n + 1 <= n) /\ (n + 1) - n = 1
    BY <1>1
  <2> QED BY <1>1, <1>2, <2>1
<1> QED BY <1>1, <1>2, <1>3 DEF one

\* What Bob's read loop leaves is terminated.
LEMMA DeliveredIsTerminated ==
  ASSUME WriterInv, NEW n \in 0..Len(json_msg), NEW limit \in Nat, NEW tail \in Heap(limit),
         buffer' = SubSeq(json_msg, 1, n) \o tail \o <<NUL>>
  PROVE  Terminated' /\ Len(buffer') \in Nat \ {0}
<1> DEFINE S == Chars \cup HeapChars \cup {NUL}
<1>1. SubSeq(json_msg, 1, n) \in Seq(S)
  <2>1. json_msg \in Seq(S) /\ Len(json_msg) \in Nat
    BY DEF WriterInv
  <2> HIDE DEF S
  <2> QED BY <2>1, SubSeqProperties, \A x \in 1..n : x \in 1..Len(json_msg)
<1>2. tail \in Seq(S)
  <2> DEFINE most == IF limit < MaxHeap THEN limit ELSE MaxHeap
  <2>0. most \in Nat
    BY HeapAssumption
  <2>1. PICK m \in 0..most : tail \in [1..m -> HeapChars]
    BY DEF Heap
  <2> HIDE DEF most
  <2>2. m \in Nat /\ HeapChars \subseteq S
    BY <2>0
  <2> HIDE DEF S
  <2> QED BY <2>1, <2>2
<1>3. <<NUL>> \in Seq(S) /\ Len(<<NUL>>) = 1 /\ <<NUL>>[1] = NUL
  OBVIOUS
<1> HIDE DEF S
<1> DEFINE head == SubSeq(json_msg, 1, n) \o tail
<1>4. head \in Seq(S)
  BY <1>1, <1>2, ConcatProperties
<1>5. buffer' = head \o <<NUL>>
  OBVIOUS
<1> HIDE DEF head
<1>6. Len(head) \in Nat
  BY <1>4
<1>7. buffer' \in Seq(S) /\ Len(buffer') = Len(head) + 1 /\ buffer'[Len(head) + 1] = NUL
  <2>1. NUL \in S
    BY DEF S
  <2>2. /\ head \o <<NUL>> \in Seq(S) /\ Len(head \o <<NUL>>) = Len(head) + 1
        /\ (head \o <<NUL>>)[Len(head) + 1] = NUL
    BY <1>4, <2>1, ConcatOneElement
  <2> QED BY <1>5, <2>2
<1> QED BY <1>6, <1>7 DEF Terminated, S

LEMMA ReaderInvNext == WriterInv /\ ReaderInv /\ [Next]_vars => ReaderInv'
<1> SUFFICES ASSUME WriterInv, ReaderInv, [Next]_vars PROVE ReaderInv'
  OBVIOUS
<1>1. CASE Deliver
  <2>1. rPc = "waiting" /\ rPc' = "find" /\ buffer = <<>> /\ p' = 1 /\ parser_ptr' = 1
    BY <1>1 DEF Deliver, ReaderInv
  <2>2. CASE UNCHANGED buffer
    BY <2>1, <2>2 DEF ReaderInv, PointersStayInArray
  <2>3. CASE ~UNCHANGED buffer
    <3>1. PICK n \in 0..Len(json_msg) : \E tail \in Heap(Len(json_msg) - n) :
             buffer' = SubSeq(json_msg, 1, n) \o tail \o <<NUL>>
      BY <1>1, <2>3 DEF Deliver
    <3>2. PICK tail \in Heap(Len(json_msg) - n) :
             buffer' = SubSeq(json_msg, 1, n) \o tail \o <<NUL>>
      BY <3>1
    <3>3. Terminated' /\ Len(buffer') \in Nat \ {0}
      <4>1. Len(json_msg) - n \in Nat
        BY DEF WriterInv
      <4> QED BY <3>2, <4>1, DeliveredIsTerminated
    <3> QED BY <2>1, <3>3 DEF ReaderInv, PointersStayInArray
  <2> QED BY <2>2, <2>3
<1>2. CASE FindArray
  BY <1>2 DEF FindArray, ReaderInv, PointersStayInArray, Terminated
<1>3. CASE CountCommas
  <2>1. Terminated /\ Len(buffer) \in Nat /\ p \in 1..Len(buffer) /\ UNCHANGED <<buffer, parser_ptr>>
    BY <1>3 DEF CountCommas, ReaderInv, PointersStayInArray, Terminated
  <2>2. CASE buffer[p] \in {NUL, CloseArray}
    BY <1>3, <2>1, <2>2 DEF CountCommas, ReaderInv, PointersStayInArray, Terminated
  <2>3. CASE buffer[p] \notin {NUL, CloseArray}
    <3>1. p < Len(buffer) /\ p' = p + 1 /\ rPc' = rPc /\ rPc = "count"
      BY <1>3, <2>1, <2>3 DEF CountCommas, Terminated
    <3>2. PointersStayInArray'
      BY <2>1, <2>3, <3>1 DEF ReaderInv, PointersStayInArray
    <3> QED BY <2>1, <3>1, <3>2 DEF ReaderInv, Terminated
  <2> QED BY <2>2, <2>3
<1>4. CASE AllocateMessage
  BY <1>4 DEF AllocateMessage, ReaderInv, PointersStayInArray, Terminated
<1>5. CASE Convert
  <2> DEFINE end == strtol_end(parser_ptr)
  <2>1. /\ Terminated /\ Len(buffer) \in Nat /\ parser_ptr \in 1..Len(buffer)
        /\ UNCHANGED <<buffer, p, rPc>> /\ rPc = "convert"
        /\ parser_ptr' = IF buffer[end] = Comma THEN end + 1 ELSE end
    BY <1>5 DEF Convert, ReaderInv, PointersStayInArray, Terminated
  <2>2. /\ end \in parser_ptr..Len(buffer)
        /\ \A t \in parser_ptr..(end - 1) : buffer[t] \in Spaces \cup Signs \cup Digits
    BY <2>1, StrtolEnd
  <2> HIDE DEF end
  <2>3. \A t \in parser_ptr..(end - 1) : buffer[t] \notin {NUL, CloseArray}
    <3>1. \A c \in Spaces \cup Signs \cup Digits : c \notin {NUL, CloseArray}
      BY DEF Spaces, Signs, Minus, Digits, NUL, CloseArray
    <3> QED BY <2>2, <3>1
  <2>4. /\ parser_ptr' \in 1..Len(buffer)
        /\ \A t \in parser_ptr..(parser_ptr' - 1) : buffer[t] \notin {NUL, CloseArray}
    <3>1. CASE buffer[end] = Comma
      <4>1. end < Len(buffer) /\ buffer[end] \notin {NUL, CloseArray}
        BY <2>1, <2>2, <3>1 DEF Terminated, Comma, NUL, CloseArray
      <4> QED BY <2>1, <2>2, <2>3, <3>1, <4>1
    <3>2. CASE buffer[end] # Comma
      BY <2>1, <2>2, <2>3, <3>2
    <3> QED BY <3>1, <3>2
  <2>5. PointersStayInArray'
    BY <2>1, <2>4 DEF ReaderInv, PointersStayInArray
  <2> QED BY <2>1, <2>5 DEF ReaderInv, Terminated
<1>6. CASE Parsed
  BY <1>6 DEF Parsed, ReaderInv, PointersStayInArray, Terminated
<1>7. CASE UNCHANGED readerVars
  BY <1>7 DEF readerVars, ReaderInv, PointersStayInArray, Terminated
<1> QED
  BY <1>1, <1>2, <1>3, <1>4, <1>5, <1>6, <1>7
     DEF Next, Write, Read, ReaderStep, Ended, vars, readerVars

\* Whatever Bob's buffer holds, neither pass leaves the array.
THEOREM ReaderStaysInArray == Spec => []PointersStayInArray
<1>1. Spec => [](WriterInv /\ ReaderInv)
  <2>1. Init => WriterInv /\ ReaderInv
    BY WriterInvInit, ReaderInvInit
  <2>2. WriterInv /\ ReaderInv /\ [Next]_vars => WriterInv' /\ ReaderInv'
    BY WriterInvNext, ReaderInvNext
  <2> QED BY <2>1, <2>2, PTL DEF Spec
<1>2. ReaderInv => PointersStayInArray
  BY DEF ReaderInv
<1> QED BY <1>1, <1>2, PTL

-----------------------------------------------------------------------------
(* Hexadecimal.                                                            *)

LEMMA HexDigitValue == \A v \in 0..15 : HexValue(HexDigit(v)) = v
BY DEF HexValue, HexDigit

LEMMA DivMod16 == ASSUME NEW b \in Nat PROVE b = 16 * (b \div 16) + (b % 16)
OBVIOUS

LEMMA ByteNibbles ==
  ASSUME NEW b \in 0..255
  PROVE  /\ b \div 16 \in 0..15 /\ b % 16 \in 0..15
         /\ 16 * (b \div 16) + (b % 16) = b
<1>1. b \in Nat
  OBVIOUS
<1>2. 16 * (b \div 16) + (b % 16) = b
  BY <1>1, DivMod16, Zenon
<1>3. b \div 16 \in 0..15
  OBVIOUS
<1>4. b % 16 \in 0..15
  OBVIOUS
<1> QED BY <1>2, <1>3, <1>4, Zenon

\* The bytes of the signature and of the public key that Bob's hex_to_binary
\* gives verify() are those Alice's binary_to_hex was given, at any length.
THEOREM HexRoundTrip ==
  ASSUME NEW bin \in Seq(0..255)
  PROVE  hex_to_binary(binary_to_hex(bin)) = bin
<1> DEFINE hex == binary_to_hex(bin)
<1>1. Len(bin) \in Nat /\ Len(hex) = 2 * Len(bin) /\ Len(hex) \div 2 = Len(bin)
  BY DEF binary_to_hex
<1>2. ASSUME NEW k \in 1..Len(bin)
      PROVE  16 * HexValue(hex[2 * k - 1]) + HexValue(hex[2 * k]) = bin[k]
  <2>0. bin[k] \in 0..255
    BY ElementOfSeq
  <2>1. hex[2 * k - 1] = HexDigit(bin[k] \div 16)
    <3>1. /\ 2 * k - 1 \in 1..(2 * Len(bin)) /\ (2 * k - 1) % 2 = 1
          /\ ((2 * k - 1) + 1) \div 2 = k
      BY <1>1
    <3> QED BY <3>1 DEF binary_to_hex
  <2>2. hex[2 * k] = HexDigit(bin[k] % 16)
    <3>1. /\ 2 * k \in 1..(2 * Len(bin)) /\ (2 * k) % 2 # 1
          /\ (2 * k + 1) \div 2 = k
      BY <1>1
    <3> QED BY <3>1 DEF binary_to_hex
  <2>3. /\ bin[k] \div 16 \in 0..15 /\ bin[k] % 16 \in 0..15
        /\ 16 * (bin[k] \div 16) + (bin[k] % 16) = bin[k]
    BY <2>0, ByteNibbles
  <2> HIDE DEF hex
  <2>4. /\ HexValue(hex[2 * k - 1]) = bin[k] \div 16
        /\ HexValue(hex[2 * k]) = bin[k] % 16
    BY <2>1, <2>2, <2>3, HexDigitValue
  <2> QED BY <2>3, <2>4, Zenon
<1>3. hex_to_binary(hex) = [k \in 1..Len(bin) |-> 16 * HexValue(hex[2 * k - 1]) + HexValue(hex[2 * k])]
  BY <1>1 DEF hex_to_binary
<1> HIDE DEF hex
<1>4. hex_to_binary(hex) = [k \in 1..Len(bin) |-> bin[k]]
  BY <1>2, <1>3, Zenon
<1>5. bin = [k \in 1..Len(bin) |-> bin[k]]
  OBVIOUS
<1> QED BY <1>4, <1>5 DEF hex

-----------------------------------------------------------------------------
(* What strtol returns.                                                    *)

\* A set that holds zero and the successors of its members holds them all.
LEMMA EveryNatural ==
  ASSUME NEW S, 0 \in S, \A n \in Nat : n \in S => n + 1 \in S
  PROVE  Nat \subseteq S
<1> DEFINE T == Nat \ S
<1>1. SUFFICES ASSUME T # {} PROVE FALSE
  OBVIOUS
<1>2. PICK n \in T : \A m \in T : n <= m
  BY <1>1, LeastMember
<1>3. n - 1 \in Nat /\ n - 1 \in S
  <2>1. n \in Nat /\ n # 0 /\ n - 1 \in Nat /\ ~(n <= n - 1)
    BY <1>2
  <2> QED BY <1>2, <2>1
<1> QED BY <1>2, <1>3

\* The value of the digits from first on, up to each position.
Values(first, last, g) ==
  g = [k \in (first - 1)..last |-> IF k < first THEN 0 ELSE 10 * g[k - 1] + DigitValue(buffer[k])]

LEMMA ValuesExist ==
  ASSUME NEW first \in Nat \ {0}, NEW n \in Nat
  PROVE  \E g : Values(first, first - 1 + n, g)
<1> DEFINE S == {m \in Nat : \E g : Values(first, first - 1 + m, g)}
<1>1. 0 \in S
  <2>1. Values(first, first - 1 + 0, [k \in (first - 1)..(first - 1 + 0) |-> 0])
    BY DEF Values
  <2> QED BY <2>1
<1>2. ASSUME NEW m \in Nat, m \in S PROVE m + 1 \in S
  <2>1. PICK g : Values(first, first - 1 + m, g)
    BY <1>2
  <2> DEFINE last == first - 1 + (m + 1)
             f == [k \in (first - 1)..last |->
                     IF k = last THEN 10 * g[last - 1] + DigitValue(buffer[last]) ELSE g[k]]
  <2>2. ASSUME NEW k \in (first - 1)..last
        PROVE  f[k] = IF k < first THEN 0 ELSE 10 * f[k - 1] + DigitValue(buffer[k])
    <3>0. last \in Nat /\ last >= first
      OBVIOUS
    <3>1. CASE k = last
      <4>1. f[k - 1] = g[last - 1]
        BY <3>0, <3>1
      <4> QED BY <3>0, <3>1, <4>1
    <3>2. CASE k # last
      <4>1. /\ k \in (first - 1)..(first - 1 + m)
            /\ ~(k < first) => k - 1 \in (first - 1)..last /\ k - 1 # last
        BY <3>0, <3>2
      <4>2. f[k] = g[k] /\ (~(k < first) => f[k - 1] = g[k - 1])
        BY <3>2, <4>1
      <4>3. g[k] = IF k < first THEN 0 ELSE 10 * g[k - 1] + DigitValue(buffer[k])
        BY <2>1, <4>1 DEF Values
      <4> HIDE DEF f, last
      <4> QED BY <4>2, <4>3
    <3> QED BY <3>1, <3>2
  <2>3. Values(first, first - 1 + (m + 1), f)
    BY <2>2 DEF Values
  <2> QED BY <2>3
<1> HIDE DEF S
<1>3. n \in S
  BY <1>1, <1>2, EveryNatural
<1> QED BY <1>3 DEF S

LEMMA NumberValues ==
  ASSUME NEW first \in Nat \ {0}, NEW last \in Nat, last >= first - 1
  PROVE  \E g : Values(first, last, g) /\ Number(first, last) = g[last]
<1> DEFINE upTo == CHOOSE g : g = [k \in (first - 1)..last |->
                     IF k < first THEN 0 ELSE 10 * g[k - 1] + DigitValue(buffer[k])]
<1>1. Values(first, last, upTo)
  <2>1. last - (first - 1) \in Nat /\ first - 1 + (last - (first - 1)) = last
    OBVIOUS
  <2>2. \E g : Values(first, last, g)
    <3> DEFINE n == last - (first - 1)
    <3>1. n \in Nat /\ first - 1 + n = last
      BY <2>1
    <3> HIDE DEF n
    <3>2. \E g : Values(first, first - 1 + n, g)
      BY <3>1, ValuesExist
    <3> QED BY <3>1, <3>2
  <2> QED BY <2>2 DEF Values
<1>2. Number(first, last) = upTo[last]
  BY DEF Number
<1> HIDE DEF upTo
<1> QED BY <1>1, <1>2

\* Digits spell a natural number.
LEMMA NumberIsNat ==
  ASSUME NEW first \in Nat \ {0}, NEW last \in Nat, last >= first - 1,
         \A k \in first..last : buffer[k] \in Digits
  PROVE  Number(first, last) \in Nat
<1>1. PICK g : Values(first, last, g) /\ Number(first, last) = g[last]
  BY NumberValues
<1> DEFINE S == {n \in Nat : first - 1 + n <= last => g[first - 1 + n] \in Nat}
<1>2. \A k \in (first - 1)..last :
        g[k] = IF k < first THEN 0 ELSE 10 * g[k - 1] + DigitValue(buffer[k])
  BY <1>1 DEF Values
<1>3. 0 \in S
  BY <1>2
<1>4. ASSUME NEW n \in Nat, n \in S PROVE n + 1 \in S
  <2>1. SUFFICES ASSUME first - 1 + (n + 1) <= last PROVE g[first - 1 + (n + 1)] \in Nat
    OBVIOUS
  <2> DEFINE k == first - 1 + (n + 1)
  <2>2. k \in first..last /\ k - 1 = first - 1 + n /\ k \in (first - 1)..last /\ ~(k < first)
    BY <2>1
  <2>3. g[k - 1] \in Nat
    BY <1>4, <2>1, <2>2
  <2>4. DigitValue(buffer[k]) \in Nat
    BY <2>2 DEF DigitValue, Digits
  <2>5. g[k] = 10 * g[k - 1] + DigitValue(buffer[k])
    <3> HIDE DEF k
    <3> QED BY <1>2, <2>2
  <2> HIDE DEF k
  <2>6. g[k] \in Nat
    BY <2>3, <2>4, <2>5
  <2> QED BY <2>6 DEF k
<1>5. last - (first - 1) \in S
  <2> HIDE DEF S
  <2> QED BY <1>3, <1>4, EveryNatural
<1> QED BY <1>1, <1>5

\* Whatever it is called on, strtol gives an integer.
LEMMA StrtolInt ==
  ASSUME Terminated, NEW q \in 1..Len(buffer)
  PROVE  strtol(q) \in Int
<1>0. NUL \notin Spaces /\ NUL \notin Digits /\ Len(buffer) \in Nat
  BY DEF NUL, Spaces, Digits, Terminated
<1>1. SignAt(q) \in q..Len(buffer)
  BY <1>0, RunEndInBuffer DEF SignAt
<1>2. DigitsAt(q) \in 1..Len(buffer)
  <2>1. CASE buffer[SignAt(q)] \in Signs
    <3>1. SignAt(q) # Len(buffer)
      BY <2>1 DEF Terminated, NUL, Signs, Minus
    <3> QED BY <1>0, <1>1, <2>1, <3>1 DEF DigitsAt
  <2>2. CASE buffer[SignAt(q)] \notin Signs
    BY <1>0, <1>1, <2>2 DEF DigitsAt
  <2> QED BY <2>1, <2>2
<1> DEFINE d == DigitsAt(q)
           e == RunEnd(Digits, d)
<1>3. e \in d..Len(buffer) /\ \A t \in d..(e - 1) : buffer[t] \in Digits
  BY <1>0, <1>2, RunEndInBuffer
<1>4. CASE strtol_end(q) = q
  BY <1>4 DEF strtol
<1>5. CASE strtol_end(q) # q
  <2>1. strtol_end(q) = e
    BY <1>5 DEF strtol_end
  <2>2. d \in Nat \ {0} /\ e - 1 \in Nat /\ e - 1 >= d - 1
    BY <1>0, <1>2, <1>3
  <2> HIDE DEF d, e
  <2>3. Number(d, e - 1) \in Nat
    <3> DEFINE last == e - 1
    <3>1. last \in Nat /\ last >= d - 1 /\ \A t \in d..last : buffer[t] \in Digits
      BY <1>3, <2>2
    <3> HIDE DEF last
    <3>2. Number(d, last) \in Nat
      BY <2>2, <3>1, NumberIsNat
    <3> QED BY <3>2 DEF last
  <2>4. LongMax \in Int
    BY LongAssumption
  <2> DEFINE n == Number(d, e - 1)
  <2>5. strtol(q) \in {-LongMax - 1, -n, LongMax, n}
    BY <1>5, <2>1 DEF strtol, d
  <2> HIDE DEF n
  <2>6. n \in Int
    BY <2>3 DEF n
  <2> QED BY <2>4, <2>5, <2>6
<1> QED BY <1>4, <1>5

\* The digits %d prints for a byte, and what they are worth.
LEMMA DecimalDigits ==
  ASSUME NEW b \in 0..255
  PROVE  /\ Len(decimal(b)) \in 1..3
         /\ \A j \in 1..Len(decimal(b)) : decimal(b)[j] \in Digits
         /\ Len(decimal(b)) = 1 => b = DigitValue(decimal(b)[1])
         /\ Len(decimal(b)) = 2 => b = 10 * DigitValue(decimal(b)[1]) + DigitValue(decimal(b)[2])
         /\ Len(decimal(b)) = 3 => b = 10 * (10 * DigitValue(decimal(b)[1]) + DigitValue(decimal(b)[2]))
                                       + DigitValue(decimal(b)[3])
<1>1. \A d \in 0..9 : Digit(d) \in Digits /\ DigitValue(Digit(d)) = d
  BY DEF Digit, Digits, DigitValue
<1>2. CASE b < 10
  <2>1. decimal(b) = <<Digit(b)>>
    BY <1>2 DEF decimal
  <2> QED BY <1>1, <1>2, <2>1
<1>3. CASE 10 <= b /\ b < 100
  <2>1. b \div 10 \in 0..9 /\ b % 10 \in 0..9 /\ b = 10 * (b \div 10) + (b % 10)
    BY <1>3
  <2>2. decimal(b) = <<Digit(b \div 10), Digit(b % 10)>>
    BY <1>3 DEF decimal
  <2> QED BY <1>1, <2>1, <2>2
<1>4. CASE 100 <= b
  <2>1. /\ b \div 100 \in 0..9 /\ (b \div 10) % 10 \in 0..9 /\ b % 10 \in 0..9
        /\ b = 10 * (10 * (b \div 100) + ((b \div 10) % 10)) + (b % 10)
    BY <1>4
  <2>2. decimal(b) = <<Digit(b \div 100), Digit((b \div 10) % 10), Digit(b % 10)>>
    BY <1>4 DEF decimal
  <2> QED BY <1>1, <2>1, <2>2
<1> QED BY <1>2, <1>3, <1>4

\* The end of a run is where it is broken.
LEMMA RunEndIs ==
  ASSUME Terminated, NEW S, NEW q \in 1..Len(buffer), NEW r \in q..Len(buffer),
         buffer[r] \notin S, \A t \in q..(r - 1) : buffer[t] \in S
  PROVE  RunEnd(S, q) = r
<1>1. Len(buffer) \in Nat
  BY DEF Terminated
<1> DEFINE e == RunEnd(S, q)
<1>2. e \in q..Len(buffer) /\ buffer[e] \notin S /\ \A t \in q..(e - 1) : buffer[t] \in S
  BY DEF RunEnd
<1> HIDE DEF e
<1>3. ~(e < r) /\ ~(r < e)
  BY <1>1, <1>2
<1>4. e = r
  BY <1>1, <1>2, <1>3
<1> QED BY <1>4 DEF e

\* One to three digits are worth what they are worth.
LEMMA ShortNumber ==
  ASSUME NEW q \in Nat \ {0}, NEW last \in {q, q + 1, q + 2},
         \A k \in q..last : buffer[k] \in Digits
  PROVE  /\ last = q => Number(q, last) = DigitValue(buffer[q])
         /\ last = q + 1 => Number(q, last) = 10 * DigitValue(buffer[q]) + DigitValue(buffer[q + 1])
         /\ last = q + 2 => Number(q, last) = 10 * (10 * DigitValue(buffer[q]) + DigitValue(buffer[q + 1]))
                                              + DigitValue(buffer[q + 2])
<1>1. PICK g : Values(q, last, g) /\ Number(q, last) = g[last]
  BY NumberValues
<1>2. \A k \in (q - 1)..last : g[k] = IF k < q THEN 0 ELSE 10 * g[k - 1] + DigitValue(buffer[k])
  BY <1>1 DEF Values
<1>3. \A k \in q..last : DigitValue(buffer[k]) \in Nat
  BY DEF DigitValue, Digits
<1>4. g[q - 1] = 0
  BY <1>2
<1>5. g[q] = DigitValue(buffer[q])
  <2>1. g[q] = 10 * g[q - 1] + DigitValue(buffer[q])
    BY <1>2
  <2> QED BY <1>3, <1>4, <2>1
<1>6. last # q => g[q + 1] = 10 * g[q] + DigitValue(buffer[q + 1])
  BY <1>2
<1>7. last = q + 2 => g[q + 2] = 10 * g[q + 1] + DigitValue(buffer[q + 2])
  BY <1>2
<1> QED BY <1>1, <1>5, <1>6, <1>7

\* strtol on a byte's digits, with something else behind them.
LEMMA DigitsAreRead ==
  ASSUME Terminated, NEW q \in 1..Len(buffer), NEW e \in (q + 1)..Len(buffer),
         \A k \in q..(e - 1) : buffer[k] \in Digits, buffer[e] \notin Digits,
         Number(q, e - 1) \in 0..255
  PROVE  strtol_end(q) = e /\ strtol(q) = Number(q, e - 1)
<1>1. Len(buffer) \in Nat /\ buffer[q] \in Digits /\ e \in q..Len(buffer) /\ e # q
  BY DEF Terminated
<1>2. buffer[q] \notin Spaces /\ buffer[q] \notin Signs
  <2>1. \A c \in Digits : c \notin Spaces /\ c \notin Signs
    BY SMTT(20) DEF Digits, Spaces, Signs, Minus
  <2> QED BY <1>1, <2>1
<1>3. SignAt(q) = q
  <2>1. q \in q..Len(buffer) /\ \A t \in q..(q - 1) : buffer[t] \in Spaces
    BY <1>1
  <2> QED BY <1>2, <2>1, RunEndIs DEF SignAt
<1>4. DigitsAt(q) = q
  BY <1>2, <1>3 DEF DigitsAt
<1>5. RunEnd(Digits, q) = e
  BY <1>1, RunEndIs
<1>6. strtol_end(q) = e
  BY <1>1, <1>4, <1>5 DEF strtol_end
<1>7. ~(Number(q, e - 1) > LongMax)
  <2>1. LongMax >= 255
    <3>1. LongMax \in Nat /\ LongMax % 256 = 255
      BY LongAssumption
    <3>2. \A m \in Nat : m < 255 => m % 256 = m
      OBVIOUS
    <3> QED BY <3>1, <3>2
  <2> DEFINE n == Number(q, e - 1)
  <2>2. n \in 0..255
    OBVIOUS
  <2> HIDE DEF n
  <2>3. ~(n > LongMax)
    BY <2>1, <2>2, LongAssumption
  <2> QED BY <2>3 DEF n
<1>8. buffer[SignAt(q)] # Minus
  BY <1>2, <1>3 DEF Signs
<1> QED BY <1>1, <1>4, <1>6, <1>7, <1>8 DEF strtol

\* strtol on a byte as %d printed it, with something else behind it.
LEMMA DecimalIsRead ==
  ASSUME Terminated, NEW b \in 0..255, NEW q \in 1..Len(buffer),
         NEW e \in (q + 1)..Len(buffer), e = q + Len(decimal(b)),
         \A j \in 1..Len(decimal(b)) : buffer[q + j - 1] = decimal(b)[j],
         buffer[e] \notin Digits
  PROVE  strtol_end(q) = e /\ strtol(q) = b
<1> DEFINE d == decimal(b)
           n == Len(d)
<1>1. /\ n \in 1..3 /\ \A j \in 1..n : d[j] \in Digits
      /\ n = 1 => b = DigitValue(d[1])
      /\ n = 2 => b = 10 * DigitValue(d[1]) + DigitValue(d[2])
      /\ n = 3 => b = 10 * (10 * DigitValue(d[1]) + DigitValue(d[2])) + DigitValue(d[3])
  BY DecimalDigits
<1>2. e = q + n /\ \A j \in 1..n : buffer[q + j - 1] = d[j]
  OBVIOUS
<1> HIDE DEF n, d
<1>3. q \in Nat \ {0} /\ e - 1 \in {q, q + 1, q + 2} /\ Len(buffer) \in Nat
  <2>1. Len(buffer) \in Nat
    BY DEF Terminated
  <2>2. q \in Nat \ {0} /\ n \in 1..3 /\ e = q + n
    BY <1>1, <1>2, <2>1
  <2> QED BY <2>1, <2>2
<1>4. /\ buffer[q] = d[1]
      /\ n >= 2 => buffer[q + 1] = d[2]
      /\ n = 3 => buffer[q + 2] = d[3]
  <2>1. q + 1 - 1 = q /\ q + 2 - 1 = q + 1 /\ q + 3 - 1 = q + 2
    BY <1>3
  <2> QED BY <1>1, <1>2, <2>1
<1>5. \A k \in q..(e - 1) : buffer[k] \in Digits
  <2>1. SUFFICES ASSUME NEW k \in q..(e - 1) PROVE buffer[k] \in Digits
    OBVIOUS
  <2>2. k - q + 1 \in 1..n /\ q + (k - q + 1) - 1 = k
    BY <1>1, <1>2, <1>3
  <2> QED BY <1>1, <1>2, <2>2
<1>6. Number(q, e - 1) = b
  <2> DEFINE last == e - 1
  <2>1. last \in {q, q + 1, q + 2} /\ \A k \in q..last : buffer[k] \in Digits
    BY <1>3, <1>5
  <2>2. \/ n = 1 /\ last = q
        \/ n = 2 /\ last = q + 1
        \/ n = 3 /\ last = q + 2
    BY <1>1, <1>2, <1>3
  <2> HIDE DEF last
  <2>3. /\ last = q => Number(q, last) = DigitValue(buffer[q])
        /\ last = q + 1 => Number(q, last) = 10 * DigitValue(buffer[q]) + DigitValue(buffer[q + 1])
        /\ last = q + 2 => Number(q, last) = 10 * (10 * DigitValue(buffer[q]) + DigitValue(buffer[q + 1]))
                                             + DigitValue(buffer[q + 2])
    BY <1>3, <2>1, ShortNumber
  <2>4. Number(q, last) = b
    <3>1. CASE n = 1 /\ last = q
      BY <1>1, <1>4, <2>3, <3>1
    <3>2. CASE n = 2 /\ last = q + 1
      BY <1>1, <1>4, <2>3, <3>2
    <3>3. CASE n = 3 /\ last = q + 2
      BY <1>1, <1>4, <2>3, <3>3
    <3> QED BY <2>2, <3>1, <3>2, <3>3
  <2> QED BY <2>4 DEF last
<1>7. Number(q, e - 1) \in 0..255
  BY <1>6, ZenonT(30)
<1>8. strtol_end(q) = e /\ strtol(q) = Number(q, e - 1)
  BY <1>5, <1>7, DigitsAreRead
<1> QED BY <1>6, <1>8

-----------------------------------------------------------------------------
(* Where the numbers stand in the text.                                    *)

\* The place behind the k-th number.
End(at, k) == at[k] + Len(decimal(ciphertext[k]))

\* Each of the first m numbers has its place behind the one before it and its
\* comma.
Placed(at, m) ==
  /\ at \in [1..m -> Nat \ {0}]
  /\ m > 0 => at[1] = 1
  /\ \A k \in 1..(m - 1) : at[k + 1] = End(at, k) + 1

\* It stands there as %d prints it.
Spelled(at, m) ==
  \A k \in 1..m : \A j \in 1..Len(decimal(ciphertext[k])) :
     json_msg[at[k] + j - 1] = decimal(ciphertext[k])[j]

\* There is a comma behind each number but the ciphertext's last.
Separated(at, m) ==
  \A k \in 1..m : k < Len(ciphertext) => json_msg[End(at, k)] = Comma

\* There is no other comma.
NoOtherComma(at, m) ==
  \A q \in 1..Len(json_msg) : json_msg[q] = Comma =>
     \E k \in 1..m : k < Len(ciphertext) /\ q = End(at, k)

Laid(at, m) ==
  Placed(at, m) /\ Spelled(at, m) /\ Separated(at, m) /\ NoOtherComma(at, m)

\* The array is closed behind the last number, and nowhere before it.
Closed(at) ==
  LET L == Len(ciphertext)
  IN  /\ L = 0 => Len(json_msg) = 4 /\ json_msg[1] = CloseArray
      /\ L > 0 => Len(json_msg) = End(at, L) + 3 /\ json_msg[End(at, L)] = CloseArray
      /\ \A q \in 1..Len(json_msg) : json_msg[q] = CloseArray => q >= Len(json_msg) - 3

\* The text ends where the number after the m-th is to be printed.
Filled(at, m) ==
  /\ m = 0 => Len(json_msg) = 0
  /\ m > 0 => Len(json_msg) = IF m = Len(ciphertext) THEN End(at, m) - 1 ELSE End(at, m)

PrintedInv ==
  /\ wPc \in {"prefix", "null"} => i = 0 /\ json_msg = <<>>
  /\ wPc = "items" => (\A q \in 1..Len(json_msg) : json_msg[q] # CloseArray)
  /\ wPc = "items" => \E at : Laid(at, i) /\ Filled(at, i)
  /\ wPc = "built" => \E at : Laid(at, Len(ciphertext)) /\ Closed(at)

\* No snprintf of the loop, nor the last one, is cut short.
LEMMA PrintedWhole ==
  ASSUME WriterInv, wPc = "items", NEW text \in Seq(Chars), Len(text) <= 4, snprintf(text)
  PROVE  /\ json_msg' \in Seq(Chars) /\ Len(json_msg') = Len(json_msg) + Len(text)
         /\ \A q \in 1..Len(json_msg) : json_msg'[q] = json_msg[q]
         /\ \A j \in 1..Len(text) : json_msg'[Len(json_msg) + j] = text[j]
<1>1. /\ Len(ciphertext) \in Nat /\ offset \in Nat /\ i \in Nat /\ i <= Len(ciphertext)
      /\ offset <= PrefixLen + FieldsLen + 4 * i /\ Len(text) \in Nat /\ json_msg \in Seq(Chars)
  BY DEF WriterInv
<1>2. Len(text) < max_size - offset
  BY <1>1, WriterAssumption DEF max_size, PrefixLen
<1>3. SubSeq(text, 1, Len(text)) = text
  OBVIOUS
<1>4. json_msg' = json_msg \o text
  BY <1>2, <1>3 DEF snprintf
<1>5. /\ json_msg \o text \in Seq(Chars) /\ Len(json_msg \o text) = Len(json_msg) + Len(text)
      /\ \A k \in 1..(Len(json_msg) + Len(text)) :
            (json_msg \o text)[k] = IF k <= Len(json_msg) THEN json_msg[k] ELSE text[k - Len(json_msg)]
  BY <1>1, ConcatProperties
<1> DEFINE n == Len(json_msg)
           t == Len(text)
<1>6. n \in Nat /\ t \in Nat
  BY <1>1
<1>7. /\ Len(json_msg') = n + t /\ json_msg' \in Seq(Chars)
      /\ \A k \in 1..(n + t) : json_msg'[k] = IF k <= n THEN json_msg[k] ELSE text[k - n]
  BY <1>4, <1>5
<1> HIDE DEF n, t
<1>8. \A q \in 1..n : json_msg'[q] = json_msg[q]
  BY <1>6, <1>7
<1>9. \A j \in 1..t : json_msg'[n + j] = text[j]
  <2>1. SUFFICES ASSUME NEW j \in 1..t PROVE json_msg'[n + j] = text[j]
    OBVIOUS
  <2>2. PICK k \in 1..(n + t) : k = n + j /\ ~(k <= n) /\ k - n = j
    BY <1>6
  <2>3. json_msg'[k] = text[k - n]
    BY <1>7, <2>2
  <2> QED BY <2>2, <2>3, Zenon
<1> QED BY <1>7, <1>8, <1>9 DEF n, t

\* What one turn of the loop prints.
LEMMA ItemChars ==
  ASSUME ciphertext \in Seq(0..255), NEW k \in 1..Len(ciphertext),
         NEW d, d = decimal(ciphertext[k])
  PROVE  /\ Len(d) \in 1..3 /\ Item(k) \in Seq(Chars)
         /\ \A j \in 1..Len(d) : Item(k)[j] = d[j] /\ d[j] \in Digits
         /\ k = Len(ciphertext) => Len(Item(k)) = Len(d)
         /\ k # Len(ciphertext) => Len(Item(k)) = Len(d) + 1 /\ Item(k)[Len(d) + 1] = Comma
<1>1. ciphertext[k] \in 0..255
  BY ElementOfSeq
<1>2. /\ d \in Seq(Chars) /\ Len(d) \in 1..3 /\ \A j \in 1..Len(d) : d[j] \in Digits
  <2> DEFINE b == ciphertext[k]
  <2>1. b \in 0..255
    BY <1>1
  <2> HIDE DEF b
  <2>2. decimal(b) \in Seq(Chars) /\ Len(decimal(b)) \in 1..3
    BY <2>1, DecimalLength
  <2>3. \A j \in 1..Len(decimal(b)) : decimal(b)[j] \in Digits
    BY <2>1, DecimalDigits
  <2>4. d = decimal(b)
    BY DEF b
  <2> QED BY <2>2, <2>3, <2>4, Zenon
<1>3. CASE k = Len(ciphertext)
  <2>1. Item(k) = d \o <<>>
    BY <1>3 DEF Item
  <2>2. d \o <<>> = d
    BY <1>2
  <2> QED BY <1>2, <1>3, <2>1, <2>2
<1>4. CASE k # Len(ciphertext)
  <2>1. Item(k) = d \o <<Comma>>
    BY <1>4 DEF Item
  <2>2. Comma \in Chars
    BY DEF Chars
  <2>3. d \o <<Comma>> = Append(d, Comma)
    BY <1>2, <2>2
  <2>4. /\ Append(d, Comma) \in Seq(Chars) /\ Len(Append(d, Comma)) = Len(d) + 1
        /\ Append(d, Comma)[Len(d) + 1] = Comma
        /\ \A j \in 1..Len(d) : Append(d, Comma)[j] = d[j]
    BY <1>2, <2>2
  <2> QED BY <1>2, <1>4, <2>1, <2>3, <2>4
<1> QED BY <1>3, <1>4

\* The numbers stand one behind the other.
LEMMA LaidInOrder ==
  ASSUME ciphertext \in Seq(0..255), NEW m \in 0..Len(ciphertext), NEW at, Laid(at, m)
  PROVE  /\ \A k \in 1..m : /\ Len(decimal(ciphertext[k])) \in 1..3
                            /\ at[k] \in Nat \ {0}
                            /\ End(at, k) = at[k] + Len(decimal(ciphertext[k]))
                            /\ End(at, k) \in Nat
                            /\ End(at, k) > at[k]
         /\ \A k, l \in 1..m : k < l => End(at, k) < at[l]
<1>0. Len(ciphertext) \in Nat /\ m \in Nat
  OBVIOUS
<1>1. \A k \in 1..m : Len(decimal(ciphertext[k])) \in 1..3
  <2>1. SUFFICES ASSUME NEW k \in 1..m PROVE Len(decimal(ciphertext[k])) \in 1..3
    OBVIOUS
  <2>2. k \in 1..Len(ciphertext)
    BY <1>0
  <2>3. ciphertext[k] \in 0..255
    BY <2>2, ElementOfSeq
  <2> QED BY <2>3, DecimalDigits
<1>2. \A k \in 1..m : at[k] \in Nat \ {0}
  BY DEF Laid, Placed
<1>3. \A k \in 1..m : /\ End(at, k) = at[k] + Len(decimal(ciphertext[k]))
                      /\ End(at, k) \in Nat /\ End(at, k) > at[k]
  <2>1. SUFFICES ASSUME NEW k \in 1..m
                 PROVE  /\ End(at, k) = at[k] + Len(decimal(ciphertext[k]))
                        /\ End(at, k) \in Nat /\ End(at, k) > at[k]
    OBVIOUS
  <2> DEFINE w == Len(decimal(ciphertext[k]))
  <2>2. w \in 1..3 /\ at[k] \in Nat /\ End(at, k) = at[k] + w
    BY <1>1, <1>2 DEF End
  <2> HIDE DEF w
  <2>3. \A a \in Nat, v \in 1..3 : a + v \in Nat /\ a + v > a
    OBVIOUS
  <2>4. at[k] + w \in Nat /\ at[k] + w > at[k]
    BY <2>2, <2>3, Zenon
  <2>5. End(at, k) \in Nat /\ End(at, k) > at[k]
    BY <2>2, <2>4, Zenon
  <2> QED BY <2>2, <2>5, Zenon DEF w
<1>4. \A k \in 1..(m - 1) : at[k + 1] = End(at, k) + 1
  BY DEF Laid, Placed
<1>5. \A k, l \in 1..m : k < l => End(at, k) < at[l]
  <2>1. SUFFICES ASSUME NEW k \in 1..m PROVE \A l \in 1..m : k < l => End(at, k) < at[l]
    OBVIOUS
  <2> DEFINE S == {d \in Nat : k + 1 + d <= m => End(at, k) < at[k + 1 + d]}
  <2>2. 0 \in S
    BY <1>0, <1>3, <1>4
  <2>3. ASSUME NEW d \in Nat, d \in S PROVE d + 1 \in S
    <3>1. SUFFICES ASSUME k + 1 + (d + 1) <= m PROVE End(at, k) < at[k + 1 + (d + 1)]
      OBVIOUS
    <3>2. PICK l \in 1..(m - 1) : l = k + 1 + d /\ l + 1 = k + 1 + (d + 1)
      BY <1>0, <3>1
    <3>3. End(at, k) < at[l]
      BY <1>0, <2>3, <3>2
    <3>4. at[l + 1] = End(at, l) + 1 /\ End(at, l) \in Nat /\ End(at, l) > at[l] /\ at[l] \in Nat
      BY <1>0, <1>2, <1>3, <1>4, <3>2
    <3>5. End(at, k) \in Nat
      BY <1>3
    <3>6. End(at, k) < at[l + 1]
      BY <3>3, <3>4, <3>5
    <3> QED BY <3>2, <3>6
  <2>4. Nat \subseteq S
    <3> HIDE DEF S
    <3> QED BY <2>2, <2>3, EveryNatural
  <2>5. SUFFICES ASSUME NEW l \in 1..m, k < l PROVE End(at, k) < at[l]
    OBVIOUS
  <2>6. PICK d \in Nat : k + 1 + d = l
    <3>1. l - k - 1 \in Nat /\ k + 1 + (l - k - 1) = l
      BY <1>0, <2>5
    <3> QED BY <3>1
  <2>7. d \in S
    BY <2>4
  <2>8. k + 1 + d <= m
    BY <1>0, <2>6
  <2> QED BY <2>6, <2>7, <2>8
<1> QED BY <1>1, <1>2, <1>3, <1>5

\* One turn of the loop puts the next number in its place.
LEMMA ItemLaid ==
  ASSUME WriterInv, wPc = "items", NEW m \in Nat, m = i, m < Len(ciphertext),
         NEW at, Laid(at, m), Filled(at, m),
         snprintf(Item(m + 1)), ciphertext' = ciphertext,
         NEW new, new = [k \in 1..(m + 1) |-> IF k = m + 1 THEN Len(json_msg) + 1 ELSE at[k]]
  PROVE  /\ Laid(new, m + 1)' /\ Filled(new, m + 1)'
         /\ (\A q \in 1..Len(json_msg) : json_msg[q] # CloseArray) =>
              \A q \in 1..Len(json_msg') : json_msg'[q] # CloseArray
<1> DEFINE n == Len(json_msg)
           L == Len(ciphertext)
           w == Len(decimal(ciphertext[m + 1]))
<1>1. /\ n \in Nat /\ L \in Nat /\ m + 1 \in 1..L /\ ciphertext \in Seq(0..255)
      /\ json_msg \in Seq(Chars)
  BY DEF WriterInv
<1> DEFINE d == decimal(ciphertext[m + 1])
           text == Item(m + 1)
<1>2. /\ w \in 1..3 /\ text \in Seq(Chars)
      /\ \A j \in 1..w : text[j] = d[j] /\ d[j] \in Digits
      /\ m + 1 = L => Len(text) = w
      /\ m + 1 # L => Len(text) = w + 1 /\ text[w + 1] = Comma
  BY <1>1, ItemChars
<1>3. Len(text) <= 4 /\ Len(text) \in Nat
  <2> HIDE DEF w, text, L
  <2>1. Len(text) = w \/ Len(text) = w + 1
    BY <1>2
  <2>2. \A v \in 1..3 : v <= 4 /\ v \in Nat /\ v + 1 <= 4 /\ v + 1 \in Nat
    OBVIOUS
  <2> QED BY <1>2, <2>1, <2>2
<1>4. /\ Len(json_msg') = n + Len(text)
      /\ \A q \in 1..n : json_msg'[q] = json_msg[q]
      /\ \A j \in 1..Len(text) : json_msg'[n + j] = text[j]
  BY <1>2, <1>3, PrintedWhole
<1>5. /\ \A k \in 1..m : /\ at[k] \in Nat \ {0} /\ End(at, k) \in Nat /\ End(at, k) > at[k]
                         /\ End(at, k) = at[k] + Len(decimal(ciphertext[k]))
                         /\ Len(decimal(ciphertext[k])) \in 1..3
      /\ \A k, l \in 1..m : k < l => End(at, k) < at[l]
  <2>1. m \in 0..Len(ciphertext)
    BY <1>1
  <2> QED BY <1>1, <2>1, LaidInOrder
<1>6. m = 0 => n = 0
  BY DEF Filled
<1>7. m > 0 => n = End(at, m)
  BY <1>1 DEF Filled
<1>8. \A k \in 1..m : End(at, k) \in 1..n
  <2> HIDE DEF n
  <2>1. SUFFICES ASSUME NEW k \in 1..m PROVE End(at, k) \in 1..n
    OBVIOUS
  <2>2. PICK e \in Nat, a \in Nat \ {0} : e = End(at, k) /\ a = at[k] /\ e > a
    BY <1>5
  <2>3. CASE k = m
    BY <1>1, <1>7, <2>2, <2>3
  <2>4. CASE k # m
    <3>1. m \in 1..m /\ k < m
      BY <2>4
    <3>2. n = End(at, m) /\ at[m] \in Nat /\ End(at, m) > at[m] /\ End(at, k) < at[m]
      BY <1>5, <1>7, <3>1
    <3>3. \A x \in Nat \ {0}, y, z, u \in Nat : y > x /\ y < z /\ u > z => y \in 1..u
      OBVIOUS
    <3> QED BY <1>1, <2>2, <3>2, <3>3
  <2> QED BY <2>3, <2>4
<1>9. /\ \A k \in 1..m : new[k] = at[k] /\ new[k] \in Nat \ {0}
      /\ new[m + 1] = n + 1
      /\ new \in [1..(m + 1) -> Nat \ {0}]
  <2>1. \A k \in 1..m : k \in 1..(m + 1) /\ k # m + 1
    BY <1>1
  <2>2. \A k \in 1..m : new[k] = at[k] /\ new[k] \in Nat \ {0}
    BY <1>5, <2>1
  <2>3. n + 1 \in Nat \ {0} /\ m + 1 \in 1..(m + 1)
    BY <1>1
  <2>4. \A k \in 1..(m + 1) : k = m + 1 \/ k \in 1..m
    BY <1>1
  <2> HIDE DEF n
  <2> QED BY <2>1, <2>2, <2>3, <2>4 DEF n
<1>10. /\ \A k \in 1..m : End(new, k) = End(at, k)
       /\ End(new, m + 1) = n + 1 + w
  <2> HIDE DEF n
  <2> QED BY <1>9 DEF End
<1> HIDE DEF n, L, w, d, text
<1>11. \A k \in 1..m : \A j \in 1..Len(decimal(ciphertext[k])) :
          json_msg'[new[k] + j - 1] = decimal(ciphertext[k])[j]
  <2>1. SUFFICES ASSUME NEW k \in 1..m, NEW j \in 1..Len(decimal(ciphertext[k]))
                 PROVE  json_msg'[new[k] + j - 1] = decimal(ciphertext[k])[j]
    OBVIOUS
  <2> DEFINE v == Len(decimal(ciphertext[k]))
  <2>2. /\ v \in 1..3 /\ at[k] \in Nat \ {0} /\ End(at, k) = at[k] + v
        /\ End(at, k) \in 1..n /\ j \in 1..v
    BY <1>5, <1>8
  <2> HIDE DEF v
  <2>3. at[k] + j - 1 \in 1..n
    <3>1. \A a \in Nat \ {0}, u \in 1..3 : a + u \in 1..n => \A x \in 1..u : a + x - 1 \in 1..n
      BY <1>1
    <3> QED BY <2>2, <3>1, Zenon
  <2>4. json_msg'[at[k] + j - 1] = json_msg[at[k] + j - 1]
    BY <1>4, <2>3
  <2>5. json_msg[at[k] + j - 1] = decimal(ciphertext[k])[j]
    BY DEF Laid, Spelled
  <2> QED BY <1>9, <2>4, <2>5
<1>12. \A j \in 1..w : json_msg'[n + j] = d[j] /\ d[j] \in Digits
  <2>1. \A j \in 1..w : j \in 1..Len(text)
    BY <1>2
  <2> QED BY <1>2, <1>4, <2>1
<1>13. /\ m + 1 = L => Len(json_msg') = n + w
       /\ m + 1 # L => Len(json_msg') = n + w + 1 /\ json_msg'[n + w + 1] = Comma
  <2>1. m + 1 = L => Len(json_msg') = n + w
    BY <1>2, <1>4
  <2>2. ASSUME m + 1 # L PROVE Len(json_msg') = n + w + 1 /\ json_msg'[n + w + 1] = Comma
    <3>1. w + 1 \in 1..Len(text) /\ Len(text) = w + 1 /\ text[w + 1] = Comma
      BY <1>2, <2>2
    <3>2. n + (w + 1) = n + w + 1
      BY <1>1, <1>2
    <3> QED BY <1>4, <3>1, <3>2
  <2> QED BY <2>1, <2>2
<1>14. \A q \in 1..Len(json_msg') : \/ q \in 1..n
                                    \/ \E j \in 1..w : q = n + j
                                    \/ m + 1 # L /\ q = n + w + 1
  <2>1. SUFFICES ASSUME NEW q \in 1..Len(json_msg'), q \notin 1..n, ~(m + 1 # L /\ q = n + w + 1)
                 PROVE  \E j \in 1..w : q = n + j
    OBVIOUS
  <2>2. q - n \in 1..w /\ q = n + (q - n)
    BY <1>1, <1>2, <1>13, <2>1
  <2> QED BY <2>2
<1>15. Comma \notin Digits /\ CloseArray \notin Digits /\ CloseArray # Comma
  BY DEF Comma, CloseArray, Digits
<1>16. Laid(new, m + 1)'
  <2>1. \A k \in 1..m : new[k + 1] = End(new, k) + 1
    <3>1. SUFFICES ASSUME NEW k \in 1..m PROVE new[k + 1] = End(at, k) + 1
      BY <1>10
    <3>2. CASE k = m
      BY <1>7, <1>9, <3>2
    <3>3. CASE k # m
      <4>1. k \in 1..(m - 1) /\ k + 1 \in 1..m
        BY <3>3
      <4>2. at[k + 1] = End(at, k) + 1
        BY <4>1 DEF Laid, Placed
      <4> QED BY <1>9, <4>1, <4>2
    <3> QED BY <3>2, <3>3
  <2>2. new[1] = 1
    <3>1. CASE m = 0
      BY <1>6, <1>9, <3>1
    <3>2. CASE m # 0
      <4>1. 1 \in 1..m /\ at[1] = 1
        BY <3>2 DEF Laid, Placed
      <4> QED BY <1>9, <4>1
    <3> QED BY <3>1, <3>2
  <2>3. \A k \in 1..(m + 1) : \A j \in 1..Len(decimal(ciphertext[k])) :
          json_msg'[new[k] + j - 1] = decimal(ciphertext[k])[j]
    <3>1. \A j \in 1..w : json_msg'[new[m + 1] + j - 1] = d[j]
      <4>1. \A j \in 1..w : n + 1 + j - 1 = n + j
        BY <1>1, <1>2
      <4> QED BY <1>9, <1>12, <4>1
    <3>2. \A k \in 1..(m + 1) : k = m + 1 \/ k \in 1..m
      OBVIOUS
    <3> QED BY <1>11, <3>1, <3>2 DEF w, d
  <2>4. \A k \in 1..(m + 1) : k < L => json_msg'[End(new, k)] = Comma
    <3>1. SUFFICES ASSUME NEW k \in 1..(m + 1), k < L PROVE json_msg'[End(new, k)] = Comma
      OBVIOUS
    <3>2. CASE k = m + 1
      <4>1. End(new, k) = n + w + 1
        BY <1>1, <1>2, <1>10, <3>2
      <4> QED BY <1>1, <1>13, <3>1, <3>2, <4>1
    <3>3. CASE k # m + 1
      <4>1. k \in 1..m
        BY <3>3
      <4>2. End(at, k) \in 1..n
        BY <1>8, <4>1
      <4>3. json_msg[End(at, k)] = Comma
        BY <3>1, <4>1 DEF Laid, Separated, L
      <4> QED BY <1>4, <1>10, <4>1, <4>2, <4>3
    <3> QED BY <3>2, <3>3
  <2>5. \A q \in 1..Len(json_msg') : json_msg'[q] = Comma =>
          \E k \in 1..(m + 1) : k < L /\ q = End(new, k)
    <3>1. SUFFICES ASSUME NEW q \in 1..Len(json_msg'), json_msg'[q] = Comma
                   PROVE  \E k \in 1..(m + 1) : k < L /\ q = End(new, k)
      OBVIOUS
    <3>2. CASE q \in 1..n
      <4>1. json_msg[q] = Comma
        BY <1>4, <3>1, <3>2
      <4>2. PICK k \in 1..m : k < L /\ q = End(at, k)
        BY <3>2, <4>1 DEF Laid, NoOtherComma, n, L
      <4>3. k \in 1..(m + 1) /\ q = End(new, k)
        BY <1>10, <4>2
      <4> QED BY <4>2, <4>3
    <3>3. CASE \E j \in 1..w : q = n + j
      BY <1>12, <1>15, <3>1, <3>3
    <3>4. CASE m + 1 # L /\ q = n + w + 1
      <4>1. m + 1 \in 1..(m + 1) /\ m + 1 < L /\ q = End(new, m + 1)
        BY <1>1, <1>2, <1>10, <3>4
      <4> QED BY <4>1
    <3> QED BY <1>14, <3>2, <3>3, <3>4
  <2>6. m + 1 - 1 = m
    OBVIOUS
  <2>7. ciphertext' = ciphertext
    OBVIOUS
  <2>8. Placed(new, m + 1)'
    <3>1. \A k \in 1..(m + 1 - 1) : new[k + 1] = End(new, k)' + 1
      BY <2>1, <2>6, <2>7 DEF End
    <3>2. (new \in [1..(m + 1) -> Nat \ {0}])'
      BY <1>9
    <3>3. (m + 1 > 0 => new[1] = 1)'
      BY <2>2
    <3>4. (\A k \in 1..(m + 1 - 1) : new[k + 1] = End(new, k) + 1)'
      BY <3>1
    <3> QED BY <3>2, <3>3, <3>4 DEF Placed
  <2>9. Spelled(new, m + 1)'
    BY <2>3, <2>7 DEF Spelled
  <2>10. Separated(new, m + 1)'
    BY <2>4, <2>7 DEF Separated, End, L
  <2>11. NoOtherComma(new, m + 1)'
    BY <2>5, <2>7 DEF NoOtherComma, End, L
  <2> QED BY <2>8, <2>9, <2>10, <2>11 DEF Laid
<1>17. Filled(new, m + 1)'
  <2>1. Len(json_msg') = IF m + 1 = L THEN End(new, m + 1) - 1 ELSE End(new, m + 1)
    <3> DEFINE e == End(new, m + 1)
    <3>1. e = n + 1 + w
      BY <1>10
    <3> HIDE DEF e
    <3>2. n + w = e - 1 /\ n + w + 1 = e
      BY <1>1, <1>2, <3>1
    <3> QED BY <1>13, <3>2 DEF e
  <2>2. ciphertext' = ciphertext /\ m + 1 > 0 /\ m + 1 # 0
    OBVIOUS
  <2> QED BY <2>1, <2>2 DEF Filled, End, L
<1>18. ASSUME \A q \in 1..n : json_msg[q] # CloseArray
       PROVE  \A q \in 1..Len(json_msg') : json_msg'[q] # CloseArray
  <2>1. SUFFICES ASSUME NEW q \in 1..Len(json_msg') PROVE json_msg'[q] # CloseArray
    OBVIOUS
  <2>2. CASE q \in 1..n
    BY <1>4, <1>18, <2>2
  <2>3. CASE \E j \in 1..w : q = n + j
    BY <1>12, <1>15, <2>3
  <2>4. CASE m + 1 # L /\ q = n + w + 1
    BY <1>13, <1>15, <2>4
  <2> QED BY <1>14, <2>2, <2>3, <2>4
<1> QED BY <1>16, <1>17, <1>18 DEF n

\* The closing brackets come behind the last number.
LEMMA TrailerLaid ==
  ASSUME WriterInv, wPc = "items", NEW m \in Nat, m = i, m = Len(ciphertext),
         NEW at, Laid(at, m), Filled(at, m), \A q \in 1..Len(json_msg) : json_msg[q] # CloseArray,
         snprintf(Trailer), ciphertext' = ciphertext
  PROVE  Laid(at, m)' /\ Closed(at)'
<1> DEFINE n == Len(json_msg)
<1>1. n \in Nat /\ ciphertext \in Seq(0..255) /\ m \in 0..Len(ciphertext) /\ ciphertext' = ciphertext
  BY DEF WriterInv
<1>2. Comma # CloseArray /\ CloseObject # CloseArray /\ CloseObject # Comma
  BY DEF Comma, CloseArray, CloseObject
<1>3. /\ Trailer \in Seq(Chars) /\ Len(Trailer) = 4
      /\ Trailer[1] = CloseArray
      /\ \A j \in 1..4 : Trailer[j] # Comma
  <2>1. CloseArray \in Chars /\ CloseObject \in Chars
    BY DEF Chars
  <2> QED BY <1>2, <2>1 DEF Trailer
<1>4. /\ Len(json_msg') = n + 4
      /\ \A q \in 1..n : json_msg'[q] = json_msg[q]
      /\ \A j \in 1..4 : json_msg'[n + j] = Trailer[j]
  <2>1. Len(Trailer) <= 4
    BY <1>3
  <2> QED BY <1>3, <2>1, PrintedWhole
<1>5. \A k \in 1..m : /\ at[k] \in Nat \ {0} /\ End(at, k) \in Nat /\ End(at, k) > at[k]
                      /\ End(at, k) = at[k] + Len(decimal(ciphertext[k]))
                      /\ Len(decimal(ciphertext[k])) \in 1..3
  BY <1>1, LaidInOrder
<1>6. \A k, l \in 1..m : k < l => End(at, k) < at[l]
  BY <1>1, LaidInOrder
<1>7. (m = 0 => n = 0) /\ (m > 0 => n = End(at, m) - 1)
  BY DEF Filled
<1> HIDE DEF n
<1>8. \A k \in 1..m : \A x \in at[k]..(End(at, k) - 1) : x \in 1..n
  <2>1. SUFFICES ASSUME NEW k \in 1..m, NEW x \in at[k]..(End(at, k) - 1) PROVE x \in 1..n
    OBVIOUS
  <2>2. m > 0 /\ m \in 1..m
    OBVIOUS
  <2>3. k = m \/ End(at, k) < at[m]
    BY <1>6, <2>2
  <2>4. \A a \in Nat \ {0}, e, b, f \in Nat : e > a /\ (e = f \/ e < b) /\ f > b /\ x \in a..(e - 1) => x \in 1..(f - 1)
    OBVIOUS
  <2> QED BY <1>5, <1>7, <2>2, <2>3, <2>4
<1>9. \A k \in 1..m : k < m => End(at, k) \in 1..n
  <2>1. SUFFICES ASSUME NEW k \in 1..m, k < m PROVE End(at, k) \in 1..n
    OBVIOUS
  <2>2. m > 0 /\ m \in 1..m
    OBVIOUS
  <2>3. End(at, k) < at[m]
    BY <1>6, <2>1, <2>2
  <2>4. \A a \in Nat \ {0}, e, b, f \in Nat : e > a /\ e < b /\ f > b => e \in 1..(f - 1)
    OBVIOUS
  <2> QED BY <1>5, <1>7, <2>2, <2>3, <2>4
<1>10. \A q \in 1..(n + 4) : q \in 1..n \/ \E j \in 1..4 : q = n + j
  <2>1. SUFFICES ASSUME NEW q \in 1..(n + 4), q \notin 1..n PROVE q - n \in 1..4 /\ q = n + (q - n)
    OBVIOUS
  <2> QED BY <1>1, <2>1
<1>11. Placed(at, m)'
  BY <1>1 DEF Laid, Placed, End
<1>12. Spelled(at, m)'
  <2>1. SUFFICES ASSUME NEW k \in 1..m, NEW j \in 1..Len(decimal(ciphertext[k]))
                 PROVE  json_msg'[at[k] + j - 1] = decimal(ciphertext[k])[j]
    BY <1>1 DEF Spelled
  <2> DEFINE v == Len(decimal(ciphertext[k]))
  <2>2. v \in 1..3 /\ at[k] \in Nat \ {0} /\ End(at, k) = at[k] + v /\ j \in 1..v
    BY <1>5
  <2> HIDE DEF v
  <2>3. at[k] + j - 1 \in at[k]..(End(at, k) - 1)
    <3>1. \A a \in Nat \ {0}, u \in 1..3, e \in Nat : e = a + u => \A x \in 1..u : a + x - 1 \in a..(e - 1)
      OBVIOUS
    <3>2. End(at, k) \in Nat
      BY <1>5
    <3> QED BY <2>2, <3>1, <3>2, Zenon
  <2>4. json_msg'[at[k] + j - 1] = json_msg[at[k] + j - 1]
    BY <1>4, <1>8, <2>3
  <2>5. json_msg[at[k] + j - 1] = decimal(ciphertext[k])[j]
    BY DEF Laid, Spelled
  <2> QED BY <2>4, <2>5
<1>13. Separated(at, m)'
  <2>1. SUFFICES ASSUME NEW k \in 1..m, k < m PROVE json_msg'[End(at, k)] = Comma
    BY <1>1 DEF Separated, End
  <2>2. json_msg[End(at, k)] = Comma
    BY <2>1 DEF Laid, Separated
  <2> QED BY <1>4, <1>9, <2>1, <2>2
<1>14. NoOtherComma(at, m)'
  <2>1. SUFFICES ASSUME NEW q \in 1..(n + 4), json_msg'[q] = Comma
                 PROVE  \E k \in 1..m : k < Len(ciphertext) /\ q = End(at, k)
    BY <1>1, <1>4 DEF NoOtherComma, End
  <2>2. q \in 1..n
    BY <1>3, <1>4, <1>10, <2>1
  <2>3. json_msg[q] = Comma
    BY <1>4, <2>1, <2>2
  <2> QED BY <2>2, <2>3 DEF Laid, NoOtherComma, n
<1>15. Closed(at)'
  <2>1. \A q \in 1..(n + 4) : json_msg'[q] = CloseArray => q >= n + 1
    <3>1. \A q \in 1..n : json_msg'[q] # CloseArray
      BY <1>4 DEF n
    <3>2. \A j \in 1..4 : n + j >= n + 1
      BY <1>1
    <3> QED BY <1>1, <1>10, <3>1, <3>2
  <2>2. json_msg'[n + 1] = CloseArray
    BY <1>3, <1>4
  <2>3. n + 4 - 3 = n + 1
    BY <1>1
  <2>4. m = 0 => n + 4 = 4 /\ n + 1 = 1
    BY <1>7
  <2>5. m > 0 => n + 4 = End(at, m) + 3 /\ n + 1 = End(at, m)
    <3>1. SUFFICES ASSUME m > 0 PROVE n + 4 = End(at, m) + 3 /\ n + 1 = End(at, m)
      OBVIOUS
    <3>2. m \in 1..m
      BY <3>1
    <3>3. \A e \in Nat : n = e - 1 => n + 4 = e + 3 /\ n + 1 = e
      BY <1>1
    <3> QED BY <1>5, <1>7, <3>1, <3>2, <3>3
  <2> QED BY <1>1, <1>4, <2>1, <2>2, <2>3, <2>4, <2>5 DEF Closed, End
<1> QED BY <1>11, <1>12, <1>13, <1>14, <1>15 DEF Laid

LEMMA PrintedInvInit == Init => PrintedInv
BY DEF Init, WriterInit, PrintedInv

LEMMA PrintedInvNext == WriterInv /\ PrintedInv /\ [Next]_vars => PrintedInv'
<1> SUFFICES ASSUME WriterInv, PrintedInv, [Next]_vars PROVE PrintedInv'
  OBVIOUS
<1>1. CASE WritePrefix
  <2>1. wPc = "prefix" /\ i' = 0 /\ json_msg' = <<>> /\ wPc' \in {"items", "null"}
    BY <1>1 DEF WritePrefix, PrintedInv
  <2> DEFINE at == [k \in 1..0 |-> 1]
  <2>2. Laid(at, 0)' /\ Filled(at, 0)'
    BY <2>1 DEF Laid, Filled, Placed, Spelled, Separated, NoOtherComma
  <2>3. Laid(at, i)' /\ Filled(at, i)'
    BY <2>1, <2>2 DEF Laid, Filled, Placed, Spelled, Separated, NoOtherComma
  <2> HIDE DEF at
  <2>4. \E a : Laid(a, i)' /\ Filled(a, i)'
    BY <2>3
  <2> QED BY <2>1, <2>4 DEF PrintedInv
<1>2. CASE WriteItem
  <2>1. /\ wPc = "items" /\ wPc' = "items" /\ i \in Nat /\ i < Len(ciphertext) /\ i' = i + 1
        /\ ciphertext' = ciphertext /\ snprintf(Item(i + 1))
    BY <1>2 DEF WriteItem, WriterInv
  <2>2. PICK m \in Nat : m = i
    BY <2>1
  <2>3. PICK at : Laid(at, i) /\ Filled(at, i)
    BY <2>1 DEF PrintedInv
  <2>4. Laid(at, m) /\ Filled(at, m) /\ m < Len(ciphertext) /\ snprintf(Item(m + 1))
    BY <2>1, <2>2, <2>3
  <2>5. PICK new : new = [k \in 1..(m + 1) |-> IF k = m + 1 THEN Len(json_msg) + 1 ELSE at[k]]
    OBVIOUS
  <2>6. /\ Laid(new, m + 1)' /\ Filled(new, m + 1)'
        /\ \A q \in 1..Len(json_msg') : json_msg'[q] # CloseArray
    <3>1. \A q \in 1..Len(json_msg) : json_msg[q] # CloseArray
      BY <2>1 DEF PrintedInv
    <3> QED BY <2>1, <2>2, <2>4, <2>5, <3>1, ItemLaid
  <2>7. i' = m + 1
    BY <2>1, <2>2
  <2>8. Laid(new, i)' /\ Filled(new, i)'
    BY <2>6, <2>7 DEF Laid, Filled, Placed, Spelled, Separated, NoOtherComma
  <2> QED BY <2>1, <2>6, <2>8 DEF PrintedInv
<1>3. CASE WriteTrailer
  <2>1. /\ wPc = "items" /\ wPc' = "built" /\ i \in Nat /\ i = Len(ciphertext)
        /\ ciphertext' = ciphertext /\ snprintf(Trailer)
    BY <1>3 DEF WriteTrailer, WriterInv
  <2>2. PICK m \in Nat : m = i
    BY <2>1
  <2>3. PICK at : Laid(at, i) /\ Filled(at, i)
    BY <2>1 DEF PrintedInv
  <2>4. Laid(at, m) /\ Filled(at, m) /\ m = Len(ciphertext)
    BY <2>1, <2>2, <2>3
  <2>5. \A q \in 1..Len(json_msg) : json_msg[q] # CloseArray
    BY <2>1 DEF PrintedInv
  <2>6. Laid(at, m)' /\ Closed(at)'
    BY <2>1, <2>2, <2>4, <2>5, TrailerLaid
  <2>7. m = Len(ciphertext)'
    BY <2>1, <2>4
  <2>8. Laid(at, Len(ciphertext))'
    BY <2>6, <2>7 DEF Laid, Placed, Spelled, Separated, NoOtherComma
  <2> QED BY <2>1, <2>6, <2>8 DEF PrintedInv
<1>4. CASE UNCHANGED writerVars
  <2>1. UNCHANGED <<wPc, ciphertext, i, json_msg>>
    BY <1>4 DEF writerVars
  <2>2. \A at : Laid(at, i) /\ Filled(at, i) => Laid(at, i)' /\ Filled(at, i)'
    BY <2>1 DEF Laid, Filled, Placed, Spelled, Separated, NoOtherComma, End
  <2>3. \A at : Laid(at, Len(ciphertext)) /\ Closed(at) => Laid(at, Len(ciphertext))' /\ Closed(at)'
    BY <2>1 DEF Laid, Closed, Placed, Spelled, Separated, NoOtherComma, End
  <2>4. CASE wPc = "items"
    <3>1. PICK at : Laid(at, i) /\ Filled(at, i)
      BY <2>4 DEF PrintedInv
    <3>2. Laid(at, i)' /\ Filled(at, i)'
      BY <2>2, <3>1
    <3> QED BY <2>1, <2>4, <3>2 DEF PrintedInv
  <2>5. CASE wPc = "built"
    <3>1. PICK at : Laid(at, Len(ciphertext)) /\ Closed(at)
      BY <2>5 DEF PrintedInv
    <3>2. Laid(at, Len(ciphertext))' /\ Closed(at)'
      BY <2>3, <3>1
    <3> QED BY <2>1, <2>5, <3>2 DEF PrintedInv
  <2>6. CASE wPc \notin {"items", "built"}
    BY <2>1, <2>6 DEF PrintedInv
  <2> QED BY <2>4, <2>5, <2>6
<1> QED
  BY <1>1, <1>2, <1>3, <1>4
     DEF Next, Write, WriterStep, Deliver, Read, Ended, vars, writerVars

-----------------------------------------------------------------------------
(* How many commas there are.                                              *)

\* A set each of whose members is one of m values has at most m of them.
LEMMA AtMost ==
  ASSUME NEW S, IsFiniteSet(S), NEW m \in Nat, NEW f, \A s \in S : \E k \in 1..m : s = f[k]
  PROVE  Cardinality(S) \in Nat /\ Cardinality(S) <= m
<1>1. IsFiniteSet(1..m) /\ Cardinality(1..m) = m
  <2>1. 0 \in Int /\ 1 \in Int /\ m \in Int
    OBVIOUS
  <2>2. Cardinality(1..m) = IF 1 > m THEN 0 ELSE m - 1 + 1
    BY <2>1, FS_Interval
  <2>3. (IF 1 > m THEN 0 ELSE m - 1 + 1) = m
    OBVIOUS
  <2> QED BY <2>1, <2>2, <2>3, FS_Interval
<1>2. Cardinality(S) \in Nat
  BY FS_CardinalityType
<1>3. ASSUME m < Cardinality(S) PROVE FALSE
  <2> DEFINE g == [s \in S |-> CHOOSE k \in 1..m : s = f[k]]
  <2>1. \A s \in S : g[s] \in 1..m /\ s = f[g[s]]
    OBVIOUS
  <2>2. g \in [S -> 1..m]
    BY <2>1
  <2> HIDE DEF g
  <2>3. PICK x \in S, y \in S : x # y /\ g[x] = g[y]
    <3> DEFINE T == 1..m
    <3>1. IsFiniteSet(T) /\ Cardinality(T) < Cardinality(S) /\ g \in [S -> T]
      BY <1>1, <1>3, <2>2
    <3> HIDE DEF T
    <3> QED BY <3>1, FS_PigeonHole
  <2> QED BY <2>1, <2>3
<1> QED BY <1>2, <1>3

\* A set that holds m different values has at least as many members.
LEMMA AtLeast ==
  ASSUME NEW S, IsFiniteSet(S), NEW m \in Nat, NEW f, \A k \in 1..m : f[k] \in S,
         \A k, l \in 1..m : k < l => f[k] # f[l]
  PROVE  Cardinality(S) \in Nat /\ m <= Cardinality(S)
<1>1. IsFiniteSet(1..m) /\ Cardinality(1..m) = m
  <2>1. 0 \in Int /\ 1 \in Int /\ m \in Int
    OBVIOUS
  <2>2. Cardinality(1..m) = IF 1 > m THEN 0 ELSE m - 1 + 1
    BY <2>1, FS_Interval
  <2>3. (IF 1 > m THEN 0 ELSE m - 1 + 1) = m
    OBVIOUS
  <2> QED BY <2>1, <2>2, <2>3, FS_Interval
<1>2. Cardinality(S) \in Nat
  BY FS_CardinalityType
<1>3. ASSUME Cardinality(S) < m PROVE FALSE
  <2> DEFINE g == [k \in 1..m |-> f[k]]
             T == 1..m
  <2>1. g \in [T -> S] /\ \A k \in T : g[k] = f[k]
    OBVIOUS
  <2>2. IsFiniteSet(T) /\ Cardinality(S) < Cardinality(T)
    BY <1>1, <1>3
  <2> HIDE DEF g, T
  <2>3. PICK x \in T, y \in T : x # y /\ g[x] = g[y]
    BY <2>1, <2>2, FS_PigeonHole
  <2>4. x \in 1..m /\ y \in 1..m /\ f[x] = f[y]
    BY <2>1, <2>3 DEF T
  <2>5. x < y \/ y < x
    BY <2>3, <2>4
  <2> QED BY <2>4, <2>5
<1> QED BY <1>2, <1>3

\* The commas Bob's first pass has gone by.
CommasBefore(q) == {t \in 1..(q - 1) : buffer[t] = Comma}

LEMMA CommasFinite ==
  ASSUME NEW q \in Nat
  PROVE  /\ IsFiniteSet(CommasBefore(q)) /\ Cardinality(CommasBefore(q)) \in Nat
         /\ IsFiniteSet({t \in 1..q : json_msg[t] = Comma}) /\ Commas(q) \in Nat
<1>1. IsFiniteSet(1..(q - 1))
  <2>1. 1 \in Int /\ q - 1 \in Int
    OBVIOUS
  <2> QED BY <2>1, FS_Interval
<1>2. IsFiniteSet(1..q)
  <2>1. 1 \in Int /\ q \in Int
    OBVIOUS
  <2> QED BY <2>1, FS_Interval
<1>3. CommasBefore(q) \in SUBSET (1..(q - 1))
  BY DEF CommasBefore
<1>4. {t \in 1..q : json_msg[t] = Comma} \in SUBSET (1..q)
  OBVIOUS
<1>5. IsFiniteSet(CommasBefore(q))
  BY <1>1, <1>3, FS_Subset
<1>6. IsFiniteSet({t \in 1..q : json_msg[t] = Comma})
  BY <1>2, <1>4, FS_Subset
<1> QED BY <1>5, <1>6, FS_CardinalityType DEF Commas

\* One more character, one comma more or none.
LEMMA CommasStep ==
  ASSUME NEW q \in Nat \ {0}
  PROVE  Cardinality(CommasBefore(q + 1)) =
           IF buffer[q] = Comma THEN Cardinality(CommasBefore(q)) + 1 ELSE Cardinality(CommasBefore(q))
<1>1. IsFiniteSet(CommasBefore(q))
  BY CommasFinite
<1>2. \A t : t \in 1..(q + 1 - 1) <=> t = q \/ t \in 1..(q - 1)
  OBVIOUS
<1>3. q \notin CommasBefore(q)
  BY DEF CommasBefore
<1>4. CASE buffer[q] = Comma
  <2>1. CommasBefore(q + 1) = CommasBefore(q) \cup {q}
    BY <1>2, <1>4 DEF CommasBefore
  <2> QED BY <1>1, <1>3, <1>4, <2>1, FS_AddElement
<1>5. CASE buffer[q] # Comma
  <2>1. CommasBefore(q + 1) = CommasBefore(q)
    BY <1>2, <1>5 DEF CommasBefore
  <2> QED BY <1>5, <2>1
<1> QED BY <1>4, <1>5

-----------------------------------------------------------------------------
(* What arrived, and how far it is counted.                                *)

\* The buffer begins with what arrived of the text; when all of it did,
\* nothing else is there.
DeliveredInv ==
  /\ rPc \in {"waiting", "find", "count", "allocate", "convert", "parsed", "null"}
  /\ rPc # "waiting" => wPc = "built"
  /\ arrived \in 0..Len(json_msg)
  /\ buffer = <<>> => arrived = 0
  /\ buffer # <<>> => arrived < Len(buffer)
  /\ buffer # <<>> => (\A q \in 1..arrived : buffer[q] = json_msg[q])
  /\ buffer # <<>> => (arrived = Len(json_msg) => Len(buffer) = arrived + 1)

\* The count of an array that is not empty is that of its commas, and one.
Counted ==
  \/ buffer[1] = CloseArray /\ count = 0
  \/ /\ buffer[1] # CloseArray
     /\ count = 1 + Cardinality(CommasBefore(p))
     /\ buffer[p] \in {NUL, CloseArray}

CountInv ==
  /\ count \in Nat /\ p \in Nat \ {0} /\ parser_ptr \in Nat \ {0}
  /\ rPc \in {"waiting", "find"} => p = 1 /\ count = 0
  /\ rPc = "count" => buffer[1] # CloseArray /\ count = 1 + Cardinality(CommasBefore(p))
  /\ rPc \in {"allocate", "convert", "parsed"} => buffer # <<>> /\ Counted

\* What a copy of the first n characters holds.
LEMMA DeliveredChars ==
  ASSUME WriterInv, NEW n \in 0..Len(json_msg), NEW tail \in Heap(Len(json_msg) - n),
         buffer' = SubSeq(json_msg, 1, n) \o tail \o <<NUL>>
  PROVE  /\ n < Len(buffer')
         /\ \A q \in 1..n : buffer'[q] = json_msg[q]
         /\ n = Len(json_msg) => Len(buffer') = n + 1
<1> DEFINE S == Chars \cup HeapChars \cup {NUL}
           limit == Len(json_msg) - n
           most == IF limit < MaxHeap THEN limit ELSE MaxHeap
           first == SubSeq(json_msg, 1, n)
           last == <<NUL>>
<1>1. json_msg \in Seq(S) /\ Len(json_msg) \in Nat /\ n \in Nat /\ limit \in Nat
  BY DEF WriterInv
<1>2. most \in Nat /\ most <= limit
  BY <1>1, HeapAssumption
<1>3. PICK m \in 0..most : tail \in [1..m -> HeapChars]
  BY DEF Heap
<1>4. m \in Nat /\ m <= limit
  BY <1>1, <1>2
<1>5. tail \in Seq(S) /\ Len(tail) = m
  <2>1. HeapChars \subseteq S
    OBVIOUS
  <2> HIDE DEF S, most, limit
  <2> QED BY <1>3, <1>4, <2>1
<1>6. last \in Seq(S) /\ Len(last) = 1
  OBVIOUS
<1> HIDE DEF S, most, last
<1>7. first \in Seq(S) /\ Len(first) = n /\ \A q \in 1..n : first[q] = json_msg[q]
  <2>1. \A x \in 1..n : x \in 1..Len(json_msg)
    BY <1>1
  <2> QED BY <1>1, <2>1, SubSeqProperties
<1>8. buffer' = first \o tail \o last
  BY DEF last
<1> HIDE DEF first
<1>9. /\ first \o tail \in Seq(S) /\ Len(first \o tail) = n + m
      /\ \A q \in 1..(n + m) : (first \o tail)[q] = IF q <= n THEN first[q] ELSE tail[q - n]
  <2>1. /\ first \o tail \in Seq(S) /\ Len(first \o tail) = Len(first) + Len(tail)
        /\ \A q \in 1..(Len(first) + Len(tail)) :
              (first \o tail)[q] = IF q <= Len(first) THEN first[q] ELSE tail[q - Len(first)]
    BY <1>5, <1>7, ConcatProperties
  <2> QED BY <1>5, <1>7, <2>1
<1> DEFINE both == first \o tail
<1>10. both \in Seq(S) /\ Len(both) = n + m /\ \A q \in 1..n : both[q] = first[q]
  <2>1. \A q \in 1..n : q \in 1..(n + m) /\ q <= n
    BY <1>1, <1>4
  <2> QED BY <1>9, <2>1
<1> HIDE DEF both
<1>11. /\ Len(both \o last) = n + m + 1
       /\ \A q \in 1..n : (both \o last)[q] = both[q]
  <2>1. /\ Len(both \o last) = Len(both) + Len(last)
        /\ \A q \in 1..(Len(both) + Len(last)) :
              (both \o last)[q] = IF q <= Len(both) THEN both[q] ELSE last[q - Len(both)]
    BY <1>6, <1>10, ConcatProperties
  <2>2. \A q \in 1..n : q \in 1..(n + m + 1) /\ q <= n + m
    BY <1>1, <1>4
  <2> QED BY <1>6, <1>10, <2>1, <2>2
<1>12. buffer' = both \o last
  BY <1>8 DEF both
<1>13. n < n + m + 1 /\ (limit = 0 => n + m + 1 = n + 1)
  BY <1>1, <1>4
<1>14. n = Len(json_msg) => limit = 0
  BY <1>1
<1> QED BY <1>7, <1>10, <1>11, <1>12, <1>13, <1>14

LEMMA DeliveredInvInit == Init => DeliveredInv
BY DEF Init, WriterInit, ReaderInit, DeliveredInv

LEMMA DeliveredInvNext == WriterInv /\ ReaderInv /\ DeliveredInv /\ [Next]_vars => DeliveredInv'
<1> SUFFICES ASSUME WriterInv, WriterInv', ReaderInv, DeliveredInv, [Next]_vars PROVE DeliveredInv'
  BY WriterInvNext
<1>1. CASE Write
  <2>1. wPc # "built" /\ UNCHANGED <<rPc, buffer, arrived>>
    BY <1>1 DEF Write, WriterStep, WritePrefix, WriteItem, WriteTrailer, readerVars
  <2>2. rPc = "waiting" /\ buffer = <<>> /\ arrived = 0
    BY <2>1 DEF DeliveredInv, ReaderInv
  <2>3. Len(json_msg') \in Nat
    BY DEF WriterInv
  <2> QED BY <2>1, <2>2, <2>3 DEF DeliveredInv
<1>2. CASE Deliver
  <2>1. wPc = "built" /\ rPc = "waiting" /\ rPc' = "find" /\ UNCHANGED <<wPc, json_msg>> /\ buffer = <<>> /\ arrived = 0
    BY <1>2 DEF Deliver, writerVars, ReaderInv, DeliveredInv
  <2>2. Len(json_msg) \in Nat
    BY DEF WriterInv
  <2>3. CASE UNCHANGED <<buffer, arrived>>
    BY <2>1, <2>2, <2>3 DEF DeliveredInv
  <2>4. CASE ~UNCHANGED <<buffer, arrived>>
    <3>1. PICK n \in 0..Len(json_msg) :
             /\ \E tail \in Heap(Len(json_msg) - n) : buffer' = SubSeq(json_msg, 1, n) \o tail \o <<NUL>>
             /\ arrived' = n
      BY <1>2, <2>4 DEF Deliver
    <3>2. PICK tail \in Heap(Len(json_msg) - n) : buffer' = SubSeq(json_msg, 1, n) \o tail \o <<NUL>>
      BY <3>1
    <3>3. /\ n < Len(buffer')
          /\ \A q \in 1..n : buffer'[q] = json_msg[q]
          /\ n = Len(json_msg) => Len(buffer') = n + 1
      BY <3>2, DeliveredChars
    <3>4. buffer' # <<>>
      BY <2>2, <3>3
    <3> QED BY <2>1, <3>1, <3>3, <3>4 DEF DeliveredInv
  <2> QED BY <2>3, <2>4
<1>3. CASE Read
  <2>1. /\ UNCHANGED <<buffer, arrived, wPc, json_msg>> /\ rPc # "waiting" /\ rPc' # "waiting"
        /\ rPc' \in {"waiting", "find", "count", "allocate", "convert", "parsed", "null"}
    BY <1>3 DEF Read, ReaderStep, FindArray, CountCommas, AllocateMessage, Convert, Parsed,
                writerVars, DeliveredInv
  <2> QED BY <2>1 DEF DeliveredInv
<1>4. CASE UNCHANGED vars
  BY <1>4 DEF vars, writerVars, readerVars, DeliveredInv
<1> QED BY <1>1, <1>2, <1>3, <1>4 DEF Next, Ended

LEMMA CountInvInit == Init => CountInv
BY DEF Init, ReaderInit, CountInv

LEMMA CountInvNext == ReaderInv /\ CountInv /\ DeliveredInv /\ [Next]_vars => CountInv'
<1> SUFFICES ASSUME ReaderInv, CountInv, DeliveredInv, [Next]_vars PROVE CountInv'
  OBVIOUS
<1>1. CASE Write
  <2>1. UNCHANGED <<rPc, buffer, p, count, parser_ptr>>
    BY <1>1 DEF Write, readerVars
  <2> QED BY <2>1 DEF CountInv, Counted, CommasBefore
<1>2. CASE Deliver
  BY <1>2 DEF Deliver, CountInv
<1>3. CASE FindArray
  <2>1. rPc = "find" /\ UNCHANGED <<buffer, p, parser_ptr>> /\ p = 1 /\ count = 0
    BY <1>3 DEF FindArray, CountInv
  <2>2. CASE buffer = <<>>
    BY <1>3, <2>1, <2>2 DEF FindArray, CountInv
  <2>3. CASE buffer # <<>> /\ buffer[1] = CloseArray
    BY <1>3, <2>1, <2>3 DEF FindArray, CountInv, Counted
  <2>4. CASE buffer # <<>> /\ buffer[1] # CloseArray
    <3>1. rPc' = "count" /\ count' = 1
      BY <1>3, <2>4 DEF FindArray
    <3>2. Cardinality(CommasBefore(1)) = 0
      <4>1. CommasBefore(1) = {}
        BY DEF CommasBefore
      <4> QED BY <4>1, FS_EmptySet
    <3>3. Cardinality(CommasBefore(p))' = 0
      BY <2>1, <3>2 DEF CommasBefore
    <3> QED BY <2>1, <2>4, <3>1, <3>3 DEF CountInv
  <2> QED BY <2>2, <2>3, <2>4
<1>4. CASE CountCommas
  <2>1. /\ rPc = "count" /\ UNCHANGED <<buffer, parser_ptr>> /\ buffer # <<>> /\ p \in Nat \ {0}
        /\ buffer[1] # CloseArray /\ count = 1 + Cardinality(CommasBefore(p)) /\ count \in Nat
    BY <1>4 DEF CountCommas, CountInv, ReaderInv
  <2>2. CASE buffer[p] \in {NUL, CloseArray}
    <3>1. rPc' = "allocate" /\ UNCHANGED <<p, count>>
      BY <1>4, <2>2 DEF CountCommas
    <3>2. CommasBefore(p)' = CommasBefore(p)
      BY <2>1, <3>1 DEF CommasBefore
    <3> QED BY <2>1, <2>2, <3>1, <3>2 DEF CountInv, Counted
  <2>3. CASE buffer[p] \notin {NUL, CloseArray}
    <3>1. /\ p' = p + 1 /\ rPc' = "count"
          /\ count' = IF buffer[p] = Comma THEN count + 1 ELSE count
      BY <1>4, <2>1, <2>3 DEF CountCommas
    <3>2. CommasBefore(p)' = CommasBefore(p + 1)
      BY <2>1, <3>1 DEF CommasBefore
    <3> DEFINE c == Cardinality(CommasBefore(p))
               d == Cardinality(CommasBefore(p + 1))
    <3>3. c \in Nat /\ d = IF buffer[p] = Comma THEN c + 1 ELSE c
      BY <2>1, CommasStep, CommasFinite
    <3>4. Cardinality(CommasBefore(p))' = d
      BY <3>2
    <3>5. count = 1 + c
      BY <2>1
    <3> HIDE DEF c, d
    <3>6. count' = 1 + d /\ count' \in Nat
      BY <3>1, <3>3, <3>5
    <3>7. p' \in Nat \ {0}
      BY <2>1, <3>1
    <3> QED BY <2>1, <3>1, <3>4, <3>6, <3>7 DEF CountInv
  <2> QED BY <2>2, <2>3
<1>5. CASE AllocateMessage \/ Parsed
  <2>1. /\ UNCHANGED <<buffer, p, count, parser_ptr>> /\ rPc \in {"allocate", "convert"}
        /\ rPc' \in {"convert", "parsed", "null"}
    BY <1>5 DEF AllocateMessage, Parsed
  <2>2. CommasBefore(p)' = CommasBefore(p)
    BY <2>1 DEF CommasBefore
  <2> QED BY <2>1, <2>2 DEF CountInv, Counted
<1>6. CASE Convert
  <2>1. UNCHANGED <<rPc, buffer, p, count>> /\ rPc = "convert"
    BY <1>6 DEF Convert
  <2>2. CommasBefore(p)' = CommasBefore(p)
    BY <2>1 DEF CommasBefore
  <2> DEFINE end == strtol_end(parser_ptr)
  <2>3. /\ Terminated /\ parser_ptr \in 1..Len(buffer) /\ Len(buffer) \in Nat
        /\ parser_ptr' = IF buffer[end] = Comma THEN end + 1 ELSE end
    BY <1>6, <2>1 DEF Convert, ReaderInv, PointersStayInArray, Terminated
  <2>4. end \in parser_ptr..Len(buffer)
    BY <2>3, StrtolEnd
  <2> HIDE DEF end
  <2>5. parser_ptr' \in Nat \ {0}
    BY <2>3, <2>4
  <2> QED BY <2>1, <2>2, <2>5 DEF CountInv, Counted
<1>7. CASE UNCHANGED vars
  <2>1. UNCHANGED <<rPc, buffer, p, count, parser_ptr>>
    BY <1>7 DEF vars, readerVars
  <2> QED BY <2>1 DEF CountInv, Counted, CommasBefore
<1> QED
  BY <1>1, <1>2, <1>3, <1>4, <1>5, <1>6, <1>7 DEF Next, Read, ReaderStep, Ended

-----------------------------------------------------------------------------
(* What is converted.                                                      *)

ConvertInv ==
  /\ bytes \in Seq(0..255)
  /\ rPc \in {"waiting", "find", "count", "allocate"} => bytes = <<>> /\ parser_ptr = 1
  /\ Len(bytes) <= count
  /\ rPc = "parsed" => Len(bytes) = count

\* Every number that arrived with what stands behind it is converted to its
\* byte, and the second pass is at the next number as long as none is cut.
ReadInto(at) ==
  /\ \A k \in 1..Len(ciphertext) :
        k <= Len(bytes) /\ End(at, k) <= arrived => bytes[k] = ciphertext[k]
  /\ rPc = "convert" => \A k \in 0..(Len(ciphertext) - 1) :
        k = Len(bytes) /\ (k > 0 => End(at, k) <= arrived) => parser_ptr = at[k + 1]

ReadingInv ==
  rPc # "waiting" => \A at : Laid(at, Len(ciphertext)) /\ Closed(at) => ReadInto(at)

\* strtol on the k-th number, when it arrived with what stands behind it.
LEMMA NumberIsRead ==
  ASSUME WriterInv, ReaderInv, DeliveredInv, buffer # <<>>,
         NEW at, Laid(at, Len(ciphertext)), Closed(at),
         NEW k \in 1..Len(ciphertext), End(at, k) <= arrived
  PROVE  /\ strtol(at[k]) = ciphertext[k]
         /\ strtol_end(at[k]) = End(at, k)
         /\ k < Len(ciphertext) => buffer[End(at, k)] = Comma
<1> DEFINE L == Len(ciphertext)
           q == at[k]
           e == End(at, k)
           b == ciphertext[k]
           w == Len(decimal(b))
<1>1. /\ L \in Nat /\ ciphertext \in Seq(0..255) /\ L \in 0..L /\ Terminated
      /\ Len(json_msg) \in Nat /\ Len(buffer) \in Nat
  BY DEF WriterInv, ReaderInv, Terminated
<1>2. b \in 0..255
  BY <1>1, ElementOfSeq
<1>3. w \in 1..3 /\ q \in Nat \ {0} /\ e = q + w
  BY <1>1, LaidInOrder
<1>4. arrived \in Nat /\ arrived <= Len(json_msg) /\ arrived < Len(buffer) /\ e <= arrived
  BY <1>1 DEF DeliveredInv
<1>5. \A x \in 1..arrived : buffer[x] = json_msg[x]
  BY DEF DeliveredInv
<1> HIDE DEF L, q, e, w
<1>6. q \in 1..Len(buffer) /\ e \in (q + 1)..Len(buffer) /\ e \in 1..arrived
  BY <1>1, <1>3, <1>4
<1>7. \A j \in 1..w : buffer[q + j - 1] = decimal(b)[j]
  <2>1. SUFFICES ASSUME NEW j \in 1..w PROVE buffer[q + j - 1] = decimal(b)[j]
    OBVIOUS
  <2>2. q + j - 1 \in 1..arrived
    BY <1>3, <1>4
  <2>3. buffer[q + j - 1] = json_msg[q + j - 1]
    BY <1>5, <2>2
  <2>4. json_msg[q + j - 1] = decimal(b)[j]
    BY DEF Laid, Spelled, q, w
  <2> QED BY <2>3, <2>4
<1>8. buffer[e] = json_msg[e]
  BY <1>5, <1>6
<1>9. k < L => json_msg[e] = Comma
  BY DEF Laid, Separated, L, e
<1>10. k = L => json_msg[e] = CloseArray
  BY DEF Closed, L, e
<1>11. buffer[e] \notin Digits
  <2>1. Comma \notin Digits /\ CloseArray \notin Digits
    BY DEF Comma, CloseArray, Digits
  <2>2. k < L \/ k = L
    BY <1>1 DEF L
  <2> QED BY <1>8, <1>9, <1>10, <2>1, <2>2
<1>12. strtol_end(q) = e /\ strtol(q) = b
  <2>1. e = q + Len(decimal(b)) /\ \A j \in 1..Len(decimal(b)) : buffer[q + j - 1] = decimal(b)[j]
    BY <1>3, <1>7 DEF w
  <2> HIDE DEF b
  <2> QED BY <1>1, <1>2, <1>6, <1>11, <2>1, DecimalIsRead
<1> QED BY <1>8, <1>9, <1>12 DEF q, e, L

LEMMA ConvertInvInit == Init => ConvertInv
BY DEF Init, ReaderInit, ConvertInv

LEMMA ConvertInvNext == ReaderInv /\ CountInv /\ ConvertInv /\ [Next]_vars => ConvertInv'
<1> SUFFICES ASSUME ReaderInv, CountInv, ConvertInv, [Next]_vars PROVE ConvertInv'
  OBVIOUS
<1>1. CASE Write
  BY <1>1 DEF Write, readerVars, ConvertInv
<1>2. CASE Deliver
  BY <1>2 DEF Deliver, ConvertInv
<1>3. CASE FindArray
  BY <1>3 DEF FindArray, ConvertInv
<1>4. CASE CountCommas
  <2>1. bytes = <<>> /\ UNCHANGED <<bytes, parser_ptr>> /\ rPc' \in {"count", "allocate"} /\ parser_ptr = 1
    BY <1>4 DEF CountCommas, ConvertInv
  <2>2. count' \in Nat
    BY <1>4 DEF CountCommas, CountInv
  <2> QED BY <2>1, <2>2 DEF ConvertInv
<1>5. CASE AllocateMessage
  BY <1>5 DEF AllocateMessage, ConvertInv
<1>6. CASE Convert
  <2>1. /\ rPc = "convert" /\ UNCHANGED <<rPc, count>> /\ Len(bytes) < count
        /\ bytes' = Append(bytes, strtol(parser_ptr) % 256) /\ bytes \in Seq(0..255)
    BY <1>6 DEF Convert, ConvertInv
  <2>2. Terminated /\ parser_ptr \in 1..Len(buffer)
    BY <2>1 DEF ReaderInv, PointersStayInArray
  <2> DEFINE n == strtol(parser_ptr)
  <2>3. n \in Int
    BY <2>2, StrtolInt
  <2> HIDE DEF n
  <2>4. n % 256 \in 0..255
    BY <2>3
  <2>5. bytes' = Append(bytes, n % 256)
    BY <2>1 DEF n
  <2> DEFINE byte == n % 256
  <2> HIDE DEF byte
  <2>6. bytes' \in Seq(0..255) /\ Len(bytes') = Len(bytes) + 1
    BY <2>1, <2>4, <2>5 DEF byte
  <2>7. Len(bytes) \in Nat /\ count \in Nat
    BY <2>1 DEF CountInv
  <2> QED BY <2>1, <2>6, <2>7 DEF ConvertInv
<1>7. CASE Parsed
  BY <1>7 DEF Parsed, ConvertInv
<1>8. CASE UNCHANGED vars
  BY <1>8 DEF vars, readerVars, ConvertInv
<1> QED
  BY <1>1, <1>2, <1>3, <1>4, <1>5, <1>6, <1>7, <1>8 DEF Next, Read, ReaderStep, Ended

\* One turn of the second pass.
LEMMA ConvertReads ==
  ASSUME WriterInv, ReaderInv, DeliveredInv, ConvertInv, Convert,
         NEW at, Laid(at, Len(ciphertext)), Closed(at), ReadInto(at)
  PROVE  /\ \A k \in 1..Len(ciphertext) :
               k <= Len(bytes') /\ End(at, k) <= arrived => bytes'[k] = ciphertext[k]
         /\ \A k \in 0..(Len(ciphertext) - 1) :
               k = Len(bytes') /\ (k > 0 => End(at, k) <= arrived) => parser_ptr' = at[k + 1]
<1> DEFINE L == Len(ciphertext)
           n == Len(bytes)
<1>1. /\ L \in Nat /\ L \in 0..L /\ ciphertext \in Seq(0..255) /\ n \in Nat
      /\ rPc = "convert" /\ buffer # <<>> /\ Terminated
  BY DEF WriterInv, ReaderInv, ConvertInv, Convert
<1>2. \A k \in 1..n : bytes'[k] = bytes[k]
  BY DEF Convert, ConvertInv
<1>3. bytes'[n + 1] = strtol(parser_ptr) % 256 /\ Len(bytes') = n + 1
  <2>1. parser_ptr \in 1..Len(buffer)
    BY <1>1 DEF ReaderInv, PointersStayInArray
  <2> DEFINE v == strtol(parser_ptr)
             byte == v % 256
  <2>2. byte \in 0..255
    <3>1. v \in Int
      BY <1>1, <2>1, StrtolInt
    <3> HIDE DEF v
    <3> QED BY <3>1
  <2>3. bytes' = Append(bytes, byte) /\ bytes \in Seq(0..255)
    BY DEF Convert, ConvertInv
  <2> HIDE DEF byte
  <2> QED BY <2>2, <2>3 DEF byte
<1>4. ASSUME n + 1 \in 1..L, n > 0 => End(at, n) <= arrived, End(at, n + 1) <= arrived
      PROVE  /\ bytes'[n + 1] = ciphertext[n + 1]
             /\ n + 1 < L => parser_ptr' = at[n + 2]
  <2>1. parser_ptr = at[n + 1]
    <3>1. n \in 0..(L - 1)
      BY <1>1, <1>4
    <3> QED BY <1>1, <1>4, <3>1 DEF ReadInto
  <2>2. /\ strtol(at[n + 1]) = ciphertext[n + 1]
        /\ strtol_end(at[n + 1]) = End(at, n + 1)
        /\ n + 1 < L => buffer[End(at, n + 1)] = Comma
    BY <1>1, <1>4, NumberIsRead
  <2>3. ciphertext[n + 1] \in 0..255
    BY <1>1, <1>4, ElementOfSeq
  <2>4. bytes'[n + 1] = ciphertext[n + 1]
    <3>1. \A x \in 0..255 : x % 256 = x
      OBVIOUS
    <3>2. bytes'[n + 1] = ciphertext[n + 1] % 256
      BY <1>3, <2>1, <2>2
    <3>3. ciphertext[n + 1] % 256 = ciphertext[n + 1]
      BY <2>3, <3>1
    <3> QED BY <3>2, <3>3
  <2>5. n + 1 < L => parser_ptr' = End(at, n + 1) + 1
    BY <2>1, <2>2 DEF Convert
  <2>6. n + 1 < L => at[n + 2] = End(at, n + 1) + 1
    <3>1. SUFFICES ASSUME n + 1 < L PROVE n + 1 \in 1..(L - 1) /\ n + 1 + 1 = n + 2
      BY DEF Laid, Placed
    <3> QED BY <1>1, <3>1
  <2> QED BY <2>4, <2>5, <2>6
<1>5. \A k, l \in 1..L : k < l => End(at, k) < End(at, l)
  <2>1. /\ \A k \in 1..L : at[k] \in Nat /\ End(at, k) \in Nat /\ End(at, k) > at[k]
        /\ \A k, l \in 1..L : k < l => End(at, k) < at[l]
    BY <1>1, LaidInOrder
  <2>2. \A x, y, z \in Nat : x < y /\ z > y => x < z
    OBVIOUS
  <2> HIDE DEF L
  <2> QED BY <2>1, <2>2
<1>6. \A k \in 1..L : End(at, k) \in Nat
  BY <1>1, LaidInOrder
<1>7. arrived \in Nat
  BY DEF DeliveredInv
<1> HIDE DEF L, n
<1>8. ASSUME NEW k \in 1..L, k <= n + 1, End(at, k) <= arrived
      PROVE  bytes'[k] = ciphertext[k]
  <2>1. CASE k <= n
    <3>1. bytes[k] = ciphertext[k]
      BY <1>8, <2>1 DEF ReadInto, L, n
    <3> QED BY <1>1, <1>2, <2>1, <3>1
  <2>2. CASE k = n + 1
    <3>1. n > 0 => End(at, n) <= arrived
      <4>1. SUFFICES ASSUME n > 0 PROVE End(at, n) <= arrived
        OBVIOUS
      <4>2. n \in 1..L /\ n < k
        BY <1>1, <2>2, <4>1
      <4>3. End(at, n) < End(at, k)
        BY <1>5, <4>2
      <4>4. \A x, y, z \in Nat : x < y /\ y <= z => x <= z
        OBVIOUS
      <4> QED BY <1>6, <1>7, <1>8, <4>2, <4>3, <4>4
    <3> QED BY <1>4, <1>8, <2>2, <3>1
  <2> QED BY <1>1, <1>8, <2>1, <2>2
<1>9. ASSUME NEW k \in 0..(L - 1), k = n + 1, k > 0 => End(at, k) <= arrived
      PROVE  parser_ptr' = at[k + 1]
  <2>1. n + 1 \in 1..L /\ n + 1 < L /\ n + 2 = k + 1 /\ End(at, n + 1) <= arrived
    BY <1>1, <1>9
  <2>2. n > 0 => End(at, n) <= arrived
    <3>1. SUFFICES ASSUME n > 0 PROVE End(at, n) <= arrived
      OBVIOUS
    <3>2. n \in 1..L /\ n < n + 1
      BY <1>1, <2>1, <3>1
    <3>3. End(at, n) < End(at, n + 1)
      BY <1>5, <2>1, <3>2
    <3>4. \A x, y, z \in Nat : x < y /\ y <= z => x <= z
      OBVIOUS
    <3> QED BY <1>6, <1>7, <2>1, <3>2, <3>3, <3>4
  <2> QED BY <1>4, <2>1, <2>2
<1> QED BY <1>3, <1>8, <1>9 DEF L

LEMMA ReadingInvNext ==
  WriterInv /\ ReaderInv /\ DeliveredInv /\ ConvertInv /\ ReadingInv /\ [Next]_vars => ReadingInv'
<1> SUFFICES ASSUME WriterInv, ReaderInv, DeliveredInv, ConvertInv, ReadingInv, [Next]_vars, rPc' # "waiting"
             PROVE  (\A at : Laid(at, Len(ciphertext)) /\ Closed(at) => ReadInto(at))'
  BY DEF ReadingInv
<1>1. CASE Write
  <2>1. rPc' = rPc /\ wPc # "built"
    BY <1>1 DEF Write, readerVars, WriterStep, WritePrefix, WriteItem, WriteTrailer
  <2> QED BY <2>1 DEF DeliveredInv
<1>2. CASE Deliver
  <2>1. bytes' = <<>> /\ rPc' = "find"
    BY <1>2 DEF Deliver, ConvertInv
  <2>2. \A at : ReadInto(at)'
    BY <2>1 DEF ReadInto
  <2> QED BY <2>2
<1>3. CASE Read \/ UNCHANGED vars
  <2>1. UNCHANGED <<writerVars, arrived>> /\ rPc # "waiting"
    BY <1>3 DEF Read, ReaderStep, FindArray, CountCommas, AllocateMessage, Convert, Parsed, vars, readerVars
  <2>2. UNCHANGED <<ciphertext, json_msg>> /\ UNCHANGED arrived
    BY <2>1 DEF writerVars
  <2>3. SUFFICES ASSUME NEW at, (Laid(at, Len(ciphertext)) /\ Closed(at))' PROVE ReadInto(at)'
    OBVIOUS
  <2>4. Laid(at, Len(ciphertext)) /\ Closed(at)
    <3>1. ciphertext' = ciphertext /\ json_msg' = json_msg
      BY <2>2
    <3>2. /\ Placed(at, Len(ciphertext))' => Placed(at, Len(ciphertext))
          /\ Spelled(at, Len(ciphertext))' => Spelled(at, Len(ciphertext))
      BY <3>1, Zenon DEF Placed, Spelled, End
    <3>3. Separated(at, Len(ciphertext))' => Separated(at, Len(ciphertext))
      BY <3>1, Zenon DEF Separated, End
    <3>4. NoOtherComma(at, Len(ciphertext))' => NoOtherComma(at, Len(ciphertext))
      BY <3>1, Zenon DEF NoOtherComma, End
    <3>5. Closed(at)' => Closed(at)
      BY <3>1, Zenon DEF Closed, End
    <3> QED
      BY <2>3, <3>2, <3>3, <3>4, <3>5, Zenon DEF Laid
  <2>5. ReadInto(at)
    BY <2>1, <2>4 DEF ReadingInv
  <2>6. CASE FindArray \/ CountCommas
    <3>1. bytes' = <<>> /\ rPc' # "convert"
      BY <2>6 DEF FindArray, CountCommas, ConvertInv
    <3> QED BY <3>1 DEF ReadInto
  <2>7. CASE AllocateMessage
    <3>1. bytes' = <<>> /\ parser_ptr' = 1
      BY <2>7 DEF AllocateMessage, ConvertInv
    <3>2. Len(ciphertext) > 0 => at[1] = 1
      BY <2>4 DEF Laid, Placed
    <3>3. Len(ciphertext) \in Nat
      BY DEF WriterInv
    <3> QED BY <2>2, <3>1, <3>2, <3>3 DEF ReadInto
  <2>8. CASE Convert
    <3>1. /\ \A k \in 1..Len(ciphertext) :
                k <= Len(bytes') /\ End(at, k) <= arrived => bytes'[k] = ciphertext[k]
          /\ \A k \in 0..(Len(ciphertext) - 1) :
                k = Len(bytes') /\ (k > 0 => End(at, k) <= arrived) => parser_ptr' = at[k + 1]
      BY <2>4, <2>5, <2>8, ConvertReads
    <3> QED BY <2>2, <3>1 DEF ReadInto, End
  <2>9. CASE Parsed \/ UNCHANGED vars
    <3>1. UNCHANGED <<bytes, parser_ptr>> /\ (rPc' = "convert" => rPc = "convert")
      BY <2>9 DEF Parsed, vars, readerVars
    <3> QED BY <2>2, <2>5, <3>1 DEF ReadInto, End
  <2> QED BY <1>3, <2>6, <2>7, <2>8, <2>9 DEF Read, ReaderStep
<1> QED BY <1>1, <1>2, <1>3 DEF Next, Ended

-----------------------------------------------------------------------------
(* What arrived is read.                                                   *)

PayloadInv ==
  /\ WriterInv /\ PrintedInv
  /\ ReaderInv /\ DeliveredInv /\ CountInv /\ ConvertInv /\ ReadingInv

LEMMA PayloadInvHolds == Spec => []PayloadInv
<1>1. Init => PayloadInv
  BY WriterInvInit, PrintedInvInit, ReaderInvInit, DeliveredInvInit, CountInvInit, ConvertInvInit
     DEF PayloadInv, Init, ReaderInit, ReadingInv
<1>2. PayloadInv /\ [Next]_vars => PayloadInv'
  BY WriterInvNext, PrintedInvNext, ReaderInvNext, DeliveredInvNext, CountInvNext,
     ConvertInvNext, ReadingInvNext DEF PayloadInv
<1> QED BY <1>1, <1>2, PTL DEF Spec

\* Once the second pass is over.
LEMMA ParsedIsRead ==
  ASSUME PayloadInv, rPc = "parsed"
  PROVE  /\ \A k \in 1..Commas(arrived) : bytes[k] = ciphertext[k]
         /\ arrived = Len(json_msg) => bytes = ciphertext
<1> DEFINE L == Len(ciphertext)
           M == Len(json_msg)
<1>1. /\ L \in Nat /\ L \in 0..L /\ ciphertext \in Seq(0..255) /\ wPc = "built"
      /\ M \in Nat /\ json_msg \in Seq(Chars) /\ arrived \in 0..M
  BY DEF PayloadInv, WriterInv, DeliveredInv
<1>2. PICK at : Laid(at, L) /\ Closed(at)
  BY <1>1 DEF PayloadInv, PrintedInv
<1>3. ReadInto(at)
  BY <1>2 DEF PayloadInv, ReadingInv
<1>4. /\ \A k \in 1..L : at[k] \in Nat \ {0} /\ End(at, k) \in Nat /\ End(at, k) > at[k]
      /\ \A k, l \in 1..L : k < l => End(at, k) < at[l]
  BY <1>1, <1>2, LaidInOrder
<1>5. /\ buffer # <<>> /\ Counted /\ Len(bytes) = count /\ bytes \in Seq(0..255) /\ count \in Nat
      /\ arrived < Len(buffer) /\ \A q \in 1..arrived : buffer[q] = json_msg[q]
      /\ arrived = M => Len(buffer) = arrived + 1
      /\ p \in 1..Len(buffer) /\ Len(buffer) \in Nat /\ buffer[Len(buffer)] = NUL
  BY DEF PayloadInv, CountInv, ConvertInv, DeliveredInv, ReaderInv, Terminated, PointersStayInArray
<1>6. \A q \in 1..M : json_msg[q] = CloseArray => q >= M - 3
  BY <1>2 DEF Closed
<1>7. \A q \in 1..M : json_msg[q] = Comma => \E k \in 1..L : k < L /\ q = End(at, k)
  BY <1>2 DEF Laid, NoOtherComma
<1>8. (L = 0 => M = 4 /\ json_msg[1] = CloseArray) /\ (L > 0 => M = End(at, L) + 3)
  BY <1>2 DEF Closed
<1>9. \A k, l \in 1..L : k < l => End(at, k) < End(at, l)
  <2>1. \A x, y, z \in Nat : x < y /\ z > y => x < z
    OBVIOUS
  <2> HIDE DEF L
  <2> QED BY <1>4, <2>1
<1> HIDE DEF L, M
<1> DEFINE f == [k \in 1..L |-> End(at, k)]
           C == {q \in 1..arrived : json_msg[q] = Comma}
           B == CommasBefore(p)
<1>10. \A k \in 1..L : f[k] = End(at, k)
  OBVIOUS
<1>11. /\ IsFiniteSet(C) /\ Commas(arrived) = Cardinality(C) /\ Cardinality(C) \in Nat
       /\ IsFiniteSet(B) /\ Cardinality(B) \in Nat
  <2>1. arrived \in Nat /\ p \in Nat
    BY <1>1, <1>5
  <2> QED BY <2>1, CommasFinite DEF Commas
<1>12. \A q \in C : q \in 1..arrived /\ q \in 1..M /\ \E k \in 1..L : k < L /\ q = End(at, k)
  BY <1>1, <1>7
<1>13. \A q \in B : q \in 1..(p - 1) /\ buffer[q] = Comma
  BY DEF CommasBefore
<1>14. \A q \in 1..(p - 1) : buffer[q] = Comma => q \in B
  BY DEF CommasBefore
<1>15. \A q \in 1..arrived : json_msg[q] = Comma => q \in C
  OBVIOUS
<1>16. \A q \in C : json_msg[q] = Comma
  OBVIOUS
<1> HIDE DEF f, C, B
\* Each of the numbers whose commas arrived did so itself.
<1>17. ASSUME NEW k \in 1..Cardinality(C)
       PROVE  k \in 1..L /\ End(at, k) <= arrived
  <2>1. Cardinality(C) <= L
    <3>1. \A q \in C : \E l \in 1..L : q = f[l]
      BY <1>10, <1>12
    <3> QED BY <1>1, <1>11, <3>1, AtMost
  <2>2. k \in 1..L
    BY <1>1, <1>11, <2>1
  <2>3. ASSUME End(at, k) > arrived PROVE FALSE
    <3>1. \A q \in C : \E l \in 1..(k - 1) : q = f[l]
      <4>1. SUFFICES ASSUME NEW q \in C PROVE \E l \in 1..(k - 1) : q = f[l]
        OBVIOUS
      <4>2. PICK l \in 1..L : q = End(at, l)
        BY <1>12
      <4>3. ~(l = k) /\ ~(k < l)
        <5>1. q \in Nat /\ q <= arrived /\ arrived \in Nat /\ End(at, k) \in Nat
          BY <1>1, <1>4, <1>12, <2>2
        <5>2. ~(End(at, k) <= q)
          BY <2>3, <5>1
        <5>3. k < l => End(at, k) < q
          BY <1>9, <2>2, <4>2
        <5> QED BY <4>2, <5>1, <5>2, <5>3
      <4>4. l \in 1..(k - 1)
        BY <1>1, <2>2, <4>3
      <4> QED BY <1>10, <4>2, <4>4
    <3>2. k - 1 \in Nat /\ ~(Cardinality(C) <= k - 1)
      BY <1>11
    <3> QED BY <1>11, <3>1, <3>2, AtMost
  <2>4. End(at, k) \in Nat /\ arrived \in Nat
    BY <1>1, <1>4, <2>2
  <2> QED BY <2>2, <2>3, <2>4
\* The first pass stops behind the last comma that arrived.
<1>18. ASSUME buffer[p] \in {NUL, CloseArray} PROVE \A q \in C : q \in B
  <2>1. SUFFICES ASSUME NEW q \in C, ~(q < p) PROVE FALSE
    <3>1. \A q \in C : buffer[q] = Comma /\ q \in Nat \ {0}
      BY <1>1, <1>5, <1>12, <1>16
    <3> QED BY <1>5, <1>14, <3>1
  <2>2. PICK k \in 1..L : k < L /\ q = End(at, k)
    BY <1>12
  <2>3. p \in 1..arrived /\ p \in 1..M /\ q \in Nat
    BY <1>1, <1>5, <1>12, <2>1
  <2>4. json_msg[p] \in {NUL, CloseArray}
    BY <1>5, <1>18, <2>3
  <2>5. json_msg[p] # NUL
    <3>1. json_msg[p] \in Chars
      <4>1. \A x \in 1..Len(json_msg) : json_msg[x] \in Chars
        BY <1>1, ElementOfSeq
      <4> QED BY <2>3, <4>1 DEF M
    <3>2. NUL \notin Chars
      BY DEF NUL, Chars, Digits, Comma, CloseArray, CloseObject
    <3> QED BY <3>1, <3>2
  <2>6. p >= M - 3
    BY <1>6, <2>3, <2>4, <2>5
  <2>7. L \in 1..L /\ L > 0
    BY <1>1, <2>2
  <2>8. q < End(at, L) /\ M = End(at, L) + 3 /\ End(at, L) \in Nat
    BY <1>4, <1>8, <1>9, <2>2, <2>7
  <2>9. \A e \in Nat : M = e + 3 /\ q < e => FALSE
    BY <2>1, <2>3, <2>6
  <2> QED BY <2>8, <2>9
<1>19. Cardinality(C) <= count
  <2>1. CASE buffer[1] = CloseArray /\ count = 0
    <3>1. C = {}
      <4>1. SUFFICES ASSUME NEW q \in C PROVE FALSE
        OBVIOUS
      <4>2. PICK k \in 1..L : k < L /\ q = End(at, k)
        BY <1>12
      <4>3. 1 \in 1..arrived /\ 1 \in 1..M
        BY <1>1, <1>12
      <4>4. json_msg[1] = CloseArray
        BY <1>5, <2>1, <4>3
      <4>5. 1 >= M - 3
        BY <1>6, <4>3, <4>4
      <4>6. L \in 1..L /\ L > 0 /\ k \in 1..L /\ k < L
        BY <1>1, <4>2
      <4>7. M = End(at, L) + 3 /\ at[k] \in Nat \ {0} /\ End(at, k) > at[k] /\ End(at, k) < End(at, L)
            /\ End(at, k) \in Nat /\ End(at, L) \in Nat
        BY <1>4, <1>8, <1>9, <4>6
      <4>8. \A x \in Nat \ {0}, y, z \in Nat : y > x /\ y < z => ~(1 >= z + 3 - 3)
        OBVIOUS
      <4> QED BY <4>5, <4>7, <4>8
    <3>2. Cardinality(C) = 0
      BY <3>1, FS_EmptySet
    <3> QED BY <1>5, <3>2
  <2>2. CASE count = 1 + Cardinality(B) /\ buffer[p] \in {NUL, CloseArray}
    <3>1. C \in SUBSET B
      BY <1>18, <2>2
    <3>2. Cardinality(C) <= Cardinality(B)
      BY <1>11, <3>1, FS_Subset
    <3> QED BY <1>11, <2>2, <3>2
  <2> QED BY <1>5, <2>1, <2>2 DEF Counted, B
<1>20. ASSUME NEW k \in 1..Commas(arrived) PROVE bytes[k] = ciphertext[k]
  <2>1. k \in 1..Cardinality(C)
    BY <1>11
  <2>2. k \in 1..L /\ End(at, k) <= arrived
    BY <1>17, <2>1
  <2>3. k <= Len(bytes)
    <3>1. Len(bytes) = count /\ count \in Nat
      BY <1>5
    <3> QED BY <1>11, <1>19, <2>1, <3>1
  <2> QED BY <1>3, <2>2, <2>3 DEF ReadInto, L
<1>21. ASSUME arrived = M PROVE bytes = ciphertext
  <2>1. count = L
    <3>1. CASE L = 0
      <4>1. 1 \in 1..arrived /\ json_msg[1] = CloseArray
        BY <1>8, <1>21, <3>1
      <4>2. buffer[1] = CloseArray
        BY <1>5, <4>1
      <4> QED BY <1>5, <3>1, <4>2 DEF Counted
    <3>2. CASE L # 0
      <4>1. 1 \in 1..L /\ L \in 1..L /\ L > 0 /\ L - 1 \in Nat
        BY <1>1, <3>2
      <4>2. M = End(at, L) + 3 /\ End(at, L) \in Nat /\ End(at, L) > at[L] /\ at[L] \in Nat \ {0}
        BY <1>4, <1>8, <4>1
      <4>3. buffer[1] # CloseArray
        <5>1. \A e \in Nat, a \in Nat \ {0} : M = e + 3 /\ e > a => 1 \in 1..M /\ ~(1 >= M - 3)
          OBVIOUS
        <5>2. 1 \in 1..M /\ ~(1 >= M - 3)
          BY <4>2, <5>1
        <5>3. json_msg[1] # CloseArray
          BY <1>6, <5>2
        <5> QED BY <1>5, <1>21, <5>2, <5>3
      <4>4. count = 1 + Cardinality(B) /\ buffer[p] \in {NUL, CloseArray}
        BY <1>5, <4>3 DEF Counted, B
      <4>5. Cardinality(B) <= L - 1
        <5>1. \A q \in B : \E k \in 1..(L - 1) : q = f[k]
          <6>1. SUFFICES ASSUME NEW q \in B PROVE \E k \in 1..(L - 1) : q = f[k]
            OBVIOUS
          <6>2. q \in 1..arrived /\ q \in 1..M
            BY <1>1, <1>5, <1>13, <1>21
          <6>3. json_msg[q] = Comma
            BY <1>5, <1>13, <6>2
          <6>4. PICK k \in 1..L : k < L /\ q = End(at, k)
            BY <1>7, <6>2, <6>3
          <6>5. k \in 1..(L - 1)
            BY <1>1, <6>4
          <6> QED BY <1>10, <6>4, <6>5
        <5> QED BY <1>11, <4>1, <5>1, AtMost
      <4>6. L - 1 <= Cardinality(C)
        <5>1. ASSUME NEW k \in 1..(L - 1) PROVE f[k] \in C
          <6>1. k \in 1..L /\ k < L
            BY <1>1, <5>1
          <6>2. json_msg[End(at, k)] = Comma
            BY <1>2, <6>1 DEF Laid, Separated, L
          <6>3. End(at, k) < End(at, L) /\ End(at, k) \in Nat /\ End(at, k) > at[k] /\ at[k] \in Nat \ {0}
            BY <1>4, <1>9, <4>1, <6>1
          <6>4. \A e, x \in Nat, a \in Nat \ {0} : M = e + 3 /\ x < e /\ x > a => x \in 1..M
            OBVIOUS
          <6>5. End(at, k) \in 1..arrived
            BY <1>21, <4>2, <6>3, <6>4
          <6> QED BY <1>10, <1>15, <6>1, <6>2, <6>5
        <5>2. ASSUME NEW k \in 1..(L - 1), NEW l \in 1..(L - 1), k < l PROVE f[k] # f[l]
          <6>1. k \in 1..L /\ l \in 1..L
            BY <1>1
          <6>2. End(at, k) < End(at, l) /\ End(at, k) \in Nat
            BY <1>4, <1>9, <5>2, <6>1
          <6> QED BY <1>10, <6>1, <6>2
        <5> QED BY <1>11, <4>1, <5>1, <5>2, AtLeast
      <4>7. Cardinality(C) <= Cardinality(B)
        <5>1. C \in SUBSET B
          BY <1>18, <4>4
        <5> QED BY <1>11, <5>1, FS_Subset
      <4> QED BY <1>1, <1>11, <4>4, <4>5, <4>6, <4>7
    <3> QED BY <3>1, <3>2
  <2>2. \A k \in 1..L : End(at, k) <= arrived
    <3>1. SUFFICES ASSUME NEW k \in 1..L PROVE End(at, k) <= arrived
      OBVIOUS
    <3>2. L \in 1..L /\ L > 0 /\ (k = L \/ k < L)
      BY <1>1
    <3>3. M = End(at, L) + 3 /\ End(at, L) \in Nat /\ End(at, k) \in Nat
      BY <1>4, <1>8, <3>2
    <3>4. k = L \/ End(at, k) < End(at, L)
      BY <1>9, <3>2
    <3>5. \A e, x \in Nat : M = e + 3 /\ (x = e \/ x < e) => x <= M
      OBVIOUS
    <3> QED BY <1>21, <3>3, <3>4, <3>5
  <2>3. Len(bytes) = L
    BY <1>5, <2>1
  <2>4. \A k \in 1..L : bytes[k] = ciphertext[k]
    <3>1. \A k \in 1..L : k <= Len(bytes)
      BY <1>1, <2>3
    <3> QED BY <1>3, <2>2, <3>1 DEF ReadInto, L
  <2>5. Len(bytes) = Len(ciphertext) /\ \A k \in 1..Len(bytes) : bytes[k] = ciphertext[k]
    BY <2>3, <2>4 DEF L
  <2> QED BY <1>1, <1>5, <2>5, SeqEqual
<1> QED BY <1>20, <1>21 DEF M

\* Whatever the ciphertext, and wherever Bob's buffer was cut: every byte whose
\* comma arrived is read as Alice wrote it, and the whole text gives the whole
\* ciphertext, no byte more.
THEOREM WhatArrivedIsRead == Spec => []ArrivedBytesAreRead
<1>1. PayloadInv => ArrivedBytesAreRead
  <2>1. ASSUME PayloadInv PROVE ArrivedBytesAreRead
    BY <2>1, ParsedIsRead DEF ArrivedBytesAreRead
  <2> QED BY <2>1
<1> QED BY <1>1, PayloadInvHolds, PTL

-----------------------------------------------------------------------------
(* Types.                                                                  *)

LEMMA CiphertextKept == Spec => [](ciphertext \in Ciphertexts)
<1>1. Init => ciphertext \in Ciphertexts
  BY DEF Init, WriterInit
<1>2. ciphertext \in Ciphertexts /\ [Next]_vars => (ciphertext \in Ciphertexts)'
  BY DEF Next, Write, WriterStep, WritePrefix, WriteItem, WriteTrailer, Deliver, Read, Ended,
         vars, writerVars
<1> QED BY <1>1, <1>2, PTL DEF Spec

\* Of types, the one that says something: what Bob's message holds are bytes,
\* whatever strtol made of the buffer.
THEOREM PayloadTypes == Spec => []TypeOK
<1>1. PayloadInv /\ ciphertext \in Ciphertexts => TypeOK
  <2>1. ASSUME PayloadInv, ciphertext \in Ciphertexts PROVE TypeOK
    <3>1. buffer \in Seq(Chars \cup HeapChars \cup {NUL})
      <4> DEFINE S == Chars \cup HeapChars \cup {NUL}
      <4>1. buffer = <<>> \/ buffer \in Seq(S)
        BY <2>1 DEF PayloadInv, ReaderInv, Terminated
      <4> HIDE DEF S
      <4>2. <<>> \in Seq(S)
        BY EmptySeq
      <4>3. buffer \in Seq(S)
        BY <4>1, <4>2, Zenon
      <4> QED BY <4>3 DEF S
    <3>2. /\ wPc \in {"prefix", "items", "built", "null"} /\ i \in 0..Len(ciphertext)
          /\ offset \in Nat /\ json_msg \in Seq(Chars)
      BY <2>1 DEF PayloadInv, WriterInv
    <3>3. /\ rPc \in {"waiting", "find", "count", "allocate", "convert", "parsed", "null"}
          /\ arrived \in 0..Len(json_msg)
      BY <2>1 DEF PayloadInv, DeliveredInv
    <3>4. p \in Nat \ {0} /\ parser_ptr \in Nat \ {0} /\ count \in Nat /\ bytes \in Seq(0..255)
      BY <2>1 DEF PayloadInv, CountInv, ConvertInv
    <3> QED BY <2>1, <3>1, <3>2, <3>3, <3>4 DEF TypeOK
  <2> QED BY <2>1
<1> QED BY <1>1, PayloadInvHolds, CiphertextKept, PTL
=============================================================================
