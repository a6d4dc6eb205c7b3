----------------------------- MODULE PayloadText -----------------------------
(***************************************************************************)
(* The ciphertext array from Alice's snprintfs to Bob's strtols, by way of *)
(* a buffer that the stream may have filled only in part.                  *)
(***************************************************************************)
EXTENDS PayloadReader, FiniteSets

CONSTANTS HeapChars,    \* characters memory may hold where nothing was written
          MaxHeap       \* bound: at most so many of them before a NUL

ASSUME HeapAssumption == HeapChars \subseteq 1..255 /\ MaxHeap \in Nat

VARIABLE arrived        \* how many of the array's characters reached the buffer

vars == <<writerVars, readerVars, arrived>>

Init == WriterInit /\ ReaderInit /\ arrived = 0

-----------------------------------------------------------------------------
\* What lies in memory before the first zero byte.
Heap(limit) ==
  UNION {[1..n -> HeapChars] : n \in 0..(IF limit < MaxHeap THEN limit ELSE MaxHeap)}

\* Bob's read loop ends: with all of the payload, cut in the array, with what
\* was in memory behind it, or before the array.
Deliver ==
  /\ wPc = "built" /\ rPc = "waiting"
  /\ rPc' = "find"
  /\ \/ \E n \in 0..Len(json_msg) :
         /\ \E tail \in Heap(Len(json_msg) - n) :
               buffer' = SubSeq(json_msg, 1, n) \o tail \o <<NUL>>
         /\ arrived' = n
     \/ UNCHANGED <<buffer, arrived>>
  /\ UNCHANGED <<writerVars, p, count, parser_ptr, bytes>>

Write == WriterStep /\ UNCHANGED <<readerVars, arrived>>
Read  == ReaderStep /\ UNCHANGED <<writerVars, arrived>>
Ended == (wPc = "null" \/ rPc \in {"parsed", "null"}) /\ UNCHANGED vars

Next == Write \/ Deliver \/ Read \/ Ended

Spec == Init /\ [][Next]_vars

-----------------------------------------------------------------------------
Chars == Digits \cup {Comma, CloseArray, CloseObject}

TypeOK ==
  /\ wPc \in {"prefix", "items", "built", "null"}
  /\ ciphertext \in Ciphertexts
  /\ i \in 0..Len(ciphertext)
  /\ offset \in Nat
  /\ json_msg \in Seq(Chars)
  /\ arrived \in 0..Len(json_msg)
  /\ rPc \in {"waiting", "find", "count", "allocate", "convert", "parsed", "null"}
  /\ buffer \in Seq(Chars \cup HeapChars \cup {NUL})
  /\ p \in Nat \ {0} /\ parser_ptr \in Nat \ {0} /\ count \in Nat
  /\ bytes \in Seq(0..255)

\* The buffer that build_json_payload sized before it printed anything holds
\* every character and the terminator: no snprintf is cut short, and
\* max_size - offset never wraps around (handle_msg.c:86, 108, 113).
NothingTruncated == offset < max_size

\* Neither pass goes beyond the first "]" or the terminator, whatever the
\* buffer holds and however many numbers the first pass announced to the
\* second (cryptografy.c:66, 85-88).
PointersStayInArray ==
  buffer # <<>> =>
    /\ p \in 1..Len(buffer) /\ parser_ptr \in 1..Len(buffer)
    /\ \A q \in 1..(Len(buffer) - 1) :
          q < p \/ q < parser_ptr => buffer[q] \notin {NUL, CloseArray}

\* Bob reads the bytes Alice wrote: all of them, and no others, when the
\* payload arrived whole, and each one whose comma arrived when it was cut
\* (handle_msg.c:108, cryptografy.c:86).
Commas(n) == Cardinality({q \in 1..n : json_msg[q] = Comma})
ArrivedBytesAreRead ==
  rPc = "parsed" =>
    /\ \A k \in 1..Commas(arrived) : bytes[k] = ciphertext[k]
    /\ arrived = Len(json_msg) => bytes = ciphertext
=============================================================================
