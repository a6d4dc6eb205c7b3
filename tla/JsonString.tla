----------------------------- MODULE JsonString -----------------------------
(***************************************************************************)
(* parse_string of cJSON.c: a pass that looks for the closing quote and    *)
(* counts escapes to size the output, and one that writes the output.      *)
(***************************************************************************)
EXTENDS ParseBuffer, JsonNodes, Hex

\* No string is where the null pointer points.
ASSUME StringAssumption == NULL \notin Seq(0..255)

VARIABLES sPc,            \* where parse_string is
          item,           \* the node being parsed, an argument of every function
          input_pointer, input_end,
          skipped,        \* skipped_bytes, now and at each character passed
          room,           \* bytes allocated for the output
          output          \* what was written to it

stringVars == <<sPc, input_pointer, input_end, skipped, room, output>>

skipped_bytes == skipped[Len(skipped)]

Escapes ==
  [c \in {98, 102, 110, 114, 116, Quote, Backslash, 47} |->
     IF c = 98 THEN 8 ELSE IF c = 102 THEN 12 ELSE IF c = 110 THEN 10
     ELSE IF c = 114 THEN 13 ELSE IF c = 116 THEN 9 ELSE c]
LetterU == 117

\* 0 when one of the four characters is no digit.
HexDigits == (48..57) \cup (65..70) \cup (97..102)
parse_hex4(o) ==
  IF \E k \in 0..3 : Byte(o + k) \notin HexDigits THEN 0
  ELSE 4096 * HexValue(Byte(o)) + 256 * HexValue(Byte(o + 1))
       + 16 * HexValue(Byte(o + 2)) + HexValue(Byte(o + 3))

\* The bytes of a code point: its last six bits go into each byte but the first.
SixBits(x) == 128 + (x % 64)
Utf8_short(cp) ==
  IF cp < 128 THEN <<cp>> ELSE <<192 + (cp \div 64), SixBits(cp)>>
Utf8(cp) ==
  IF cp < 128 THEN <<cp>>
  ELSE IF cp < 2048 THEN <<192 + (cp \div 64), SixBits(cp)>>
  ELSE IF cp < 65536 THEN <<224 + (cp \div 4096), SixBits(cp \div 64), SixBits(cp)>>
  ELSE <<240 + (cp \div 262144), SixBits(cp \div 4096), SixBits(cp \div 64), SixBits(cp)>>

\* The literal at o: how many characters it takes, 0 for none, and its bytes.
High == 55296..56319
Low  == 56320..57343
NoLiteral == [length |-> 0, bytes |-> <<>>]
Codepoint_low(first, second) == 1024 * (first % 1024) + (second % 1024)
Codepoint(first, second) == 65536 + 1024 * (first % 1024) + (second % 1024)
SurrogatePair(o, first) ==
  IF input_end - (o + 6) < 6 \/ Byte(o + 6) # Backslash \/ Byte(o + 7) # LetterU
     \/ parse_hex4(o + 8) \notin Low
  THEN NoLiteral
  ELSE [length |-> 12, bytes |-> Utf8(Codepoint(first, parse_hex4(o + 8)))]
utf16_literal_to_utf8(o) ==
  IF input_end - o < 6 THEN NoLiteral
  ELSE LET first == parse_hex4(o + 2)
       IN  IF first \in Low THEN NoLiteral
           ELSE IF first \in High THEN SurrogatePair(o, first)
           ELSE [length |-> 6, bytes |-> Utf8(first)]

StringInit ==
  /\ sPc = "idle"
  /\ item = NULL
  /\ input_pointer = 0 /\ input_end = 0
  /\ skipped = <<0>>
  /\ room = 0
  /\ output = <<>>

-----------------------------------------------------------------------------
\* The call, with the buffer at o.
parse_string(o) ==
  /\ sPc' = IF Byte(o) = Quote THEN "scan" ELSE "fail"
  /\ offset' = o
  /\ input_pointer' = o + 1 /\ input_end' = o + 1
  /\ skipped' = <<0>>
  /\ room' = 0
  /\ output' = <<>>

ScanChar ==
  /\ sPc = "scan"
  /\ Readable(input_end) /\ Byte(input_end) \notin {Quote, Backslash}
  /\ input_end' = input_end + 1
  /\ skipped' = Append(skipped, skipped_bytes)
  /\ UNCHANGED <<offset, heapVars, sPc, input_pointer, room, output>>

ScanEscape_twice ==
  /\ sPc = "scan"
  /\ ByteIs(input_end, Backslash) /\ Readable(input_end + 1)
  /\ input_end' = input_end + 2
  /\ skipped' = skipped \o <<skipped_bytes + 2, skipped_bytes + 2>>
  /\ UNCHANGED <<offset, heapVars, sPc, input_pointer, room, output>>
ScanEscape ==
  /\ sPc = "scan"
  /\ ByteIs(input_end, Backslash)
  /\ IF Readable(input_end + 1)
     THEN /\ input_end' = input_end + 2
          /\ skipped' = skipped \o <<skipped_bytes + 1, skipped_bytes + 1>>
          /\ UNCHANGED sPc
     ELSE sPc' = "fail" /\ UNCHANGED <<input_end, skipped>>
  /\ UNCHANGED <<offset, heapVars, input_pointer, room, output>>

\* The quote that closes the string, or the end of the text; malloc may fail.
AllocateOutput ==
  /\ sPc = "scan"
  /\ Readable(input_end) => Byte(input_end) = Quote
  /\ \/ /\ Readable(input_end)
        /\ room' = input_end - offset - skipped_bytes + 1
        /\ strings' = strings + 1
        /\ sPc' = "decode"
        /\ UNCHANGED refused
     \/ /\ refused' = Readable(input_end)
        /\ sPc' = "fail"
        /\ UNCHANGED <<room, strings>>
  /\ UNCHANGED <<offset, heap, input_pointer, input_end, skipped, output>>

DecodeChar ==
  /\ sPc = "decode" /\ input_pointer < input_end
  /\ Byte(input_pointer) # Backslash
  /\ output' = Append(output, Byte(input_pointer))
  /\ input_pointer' = input_pointer + 1
  /\ UNCHANGED <<offset, heapVars, sPc, input_end, skipped, room>>

DecodeEscape ==
  /\ sPc = "decode" /\ input_pointer < input_end
  /\ Byte(input_pointer) = Backslash
  /\ Byte(input_pointer + 1) \in DOMAIN Escapes
  /\ output' = Append(output, Escapes[Byte(input_pointer + 1)])
  /\ input_pointer' = input_pointer + 2
  /\ UNCHANGED <<offset, heapVars, sPc, input_end, skipped, room>>

DecodeLiteral ==
  /\ sPc = "decode" /\ input_pointer < input_end
  /\ Byte(input_pointer) = Backslash /\ Byte(input_pointer + 1) = LetterU
  /\ LET literal == utf16_literal_to_utf8(input_pointer)
     IN  /\ literal.length > 0
         /\ output' = output \o literal.bytes
         /\ input_pointer' = input_pointer + literal.length
  /\ UNCHANGED <<offset, heapVars, sPc, input_end, skipped, room>>

\* An escape that is none, or a literal that is none: the output is freed.
DecodeFails_unseen ==
  /\ sPc = "decode" /\ input_pointer < input_end
  /\ Byte(input_pointer) = Backslash /\ Byte(input_pointer + 1) = LetterU
  /\ utf16_literal_to_utf8(input_pointer).length = 0
  /\ UNCHANGED <<offset, heapVars, sPc, input_pointer, input_end, skipped, room, output>>
DecodeFails ==
  /\ sPc = "decode" /\ input_pointer < input_end
  /\ Byte(input_pointer) = Backslash
  /\ IF Byte(input_pointer + 1) = LetterU
     THEN utf16_literal_to_utf8(input_pointer).length = 0
     ELSE Byte(input_pointer + 1) \notin DOMAIN Escapes
  /\ sPc' = "fail"
  /\ strings' = strings - 1
  /\ UNCHANGED <<offset, heap, refused, input_pointer, input_end, skipped, room, output>>

StringParsed_unmoved ==
  /\ sPc = "decode" /\ input_pointer >= input_end
  /\ heap' = [heap EXCEPT ![item].type = "String", ![item].valuestring = output]
  /\ sPc' = "ok"
  /\ UNCHANGED <<offset, strings, refused, input_pointer, input_end, skipped, room, output>>
StringParsed ==
  /\ sPc = "decode" /\ input_pointer >= input_end
  /\ heap' = [heap EXCEPT ![item].type = "String", ![item].valuestring = output]
  /\ offset' = input_end + 1
  /\ sPc' = "ok"
  /\ UNCHANGED <<strings, refused, input_pointer, input_end, skipped, room, output>>

StringFailed ==
  /\ sPc = "fail"
  /\ offset' = input_pointer
  /\ sPc' = "failed"
  /\ UNCHANGED <<heapVars, input_pointer, input_end, skipped, room, output>>

\* The caller has seen the result.
EndString ==
  /\ sPc' = "idle"
  /\ UNCHANGED <<input_pointer, input_end, skipped, room, output>>

StringStep ==
  /\ \/ ScanChar \/ ScanEscape \/ AllocateOutput
     \/ DecodeChar \/ DecodeEscape \/ DecodeLiteral \/ DecodeFails
     \/ StringParsed \/ StringFailed
  /\ UNCHANGED item
=============================================================================
