---------------------------- MODULE PayloadReader ----------------------------
(***************************************************************************)
(* parse_incoming_message of c/core/cryptografy.c: two passes over the     *)
(* ciphertext array in Bob's buffer, one that counts its commas to size    *)
(* the message and one that converts as many numbers with strtol.          *)
(***************************************************************************)
EXTENDS PayloadWriter

CONSTANT LongMax        \* the largest long

\* A long wraps to an unsigned char by its low byte.
ASSUME LongAssumption == LongMax \in Nat /\ LongMax % 256 = 255

VARIABLES rPc,          \* where parse_incoming_message is
          buffer,       \* what Bob's buffer reads as from the array's first
                        \* character to the terminator; empty: no array found
          p,            \* the pointer of the counting loop
          count,        \* its result
          parser_ptr,   \* the pointer of the converting loop
          bytes         \* msg->ciphertext, as far as it is filled

readerVars == <<rPc, buffer, p, count, parser_ptr, bytes>>

Spaces == {32} \cup 9..13
Minus  == 45
Signs  == {43, Minus}
DigitValue(c) == c - 48

\* Where the run of characters of S that starts at q ends.
RunEnd(S, q) ==
  CHOOSE r \in q..Len(buffer) :
     buffer[r] \notin S /\ \A t \in q..(r - 1) : buffer[t] \in S

\* The number the characters from first to last spell.
Number(first, last) ==
  LET upTo[k \in (first - 1)..last] ==
        IF k < first THEN 0 ELSE 10 * upTo[k - 1] + DigitValue(buffer[k])
  IN  upTo[last]

\* strtol(q, &end, 10): spaces, a sign, digits.  Without a digit it returns 0
\* and end is q; a number that is no long gives the nearest one.
SignAt(q)   == RunEnd(Spaces, q)
DigitsAt(q) == IF buffer[SignAt(q)] \in Signs THEN SignAt(q) + 1 ELSE SignAt(q)
strtol_end(q) ==
  LET e == RunEnd(Digits, DigitsAt(q)) IN IF e = DigitsAt(q) THEN q ELSE e
strtol(q) ==
  LET n == Number(DigitsAt(q), strtol_end(q) - 1)
  IN  IF strtol_end(q) = q THEN 0
      ELSE IF buffer[SignAt(q)] = Minus
           THEN IF n > LongMax THEN -LongMax - 1 ELSE -n
           ELSE IF n > LongMax THEN LongMax ELSE n

-----------------------------------------------------------------------------
ReaderInit ==
  /\ rPc = "waiting"
  /\ buffer = <<>>
  /\ p = 1 /\ count = 0
  /\ parser_ptr = 1
  /\ bytes = <<>>

\* strstr and the test for an empty array.
FindArray ==
  /\ rPc = "find"
  /\ IF buffer = <<>>
     THEN rPc' = "null" /\ UNCHANGED count
     ELSE IF buffer[1] = CloseArray
          THEN rPc' = "allocate" /\ count' = 0
          ELSE rPc' = "count" /\ count' = 1
  /\ UNCHANGED <<buffer, p, parser_ptr, bytes>>

CountCommas ==
  /\ rPc = "count"
  /\ IF buffer[p] \in {NUL, CloseArray}
     THEN rPc' = "allocate" /\ UNCHANGED <<p, count>>
     ELSE /\ p' = p + 1
          /\ count' = IF buffer[p] = Comma THEN count + 1 ELSE count
          /\ UNCHANGED rPc
  /\ UNCHANGED <<buffer, parser_ptr, bytes>>

\* The two mallocs.
AllocateMessage ==
  /\ rPc = "allocate"
  /\ rPc' \in {"convert", "null"}
  /\ UNCHANGED <<buffer, p, count, parser_ptr, bytes>>

ConvertUnwrapped ==                                 \* mutant: no cast to a byte
  /\ rPc = "convert" /\ Len(bytes) < count
  /\ bytes' = Append(bytes, strtol(parser_ptr))
  /\ LET end == strtol_end(parser_ptr)
     IN  parser_ptr' = IF buffer[end] = Comma THEN end + 1 ELSE end
  /\ UNCHANGED <<rPc, buffer, p, count>>
ConvertAlwaysSteps ==                               \* mutant: ] stepped over too
  /\ rPc = "convert" /\ Len(bytes) < count
  /\ bytes' = Append(bytes, strtol(parser_ptr) % 256)
  /\ parser_ptr' = strtol_end(parser_ptr) + 1
  /\ UNCHANGED <<rPc, buffer, p, count>>
Convert ==
  /\ rPc = "convert" /\ Len(bytes) < count
  /\ bytes' = Append(bytes, strtol(parser_ptr) % 256)
  /\ LET end == strtol_end(parser_ptr)
     IN  parser_ptr' = IF buffer[end] = Comma THEN end + 1 ELSE end
  /\ UNCHANGED <<rPc, buffer, p, count>>

Parsed ==
  /\ rPc = "convert" /\ Len(bytes) = count
  /\ rPc' = "parsed"
  /\ UNCHANGED <<buffer, p, count, parser_ptr, bytes>>

ReaderStep == FindArray \/ CountCommas \/ AllocateMessage \/ Convert \/ Parsed
=============================================================================
