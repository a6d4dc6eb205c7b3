---------------------------- MODULE PayloadWriter ----------------------------
(***************************************************************************)
(* build_json_payload of c/core/handle_msg.c as text: a buffer whose size  *)
(* is computed beforehand, filled by one snprintf for the fields, one for  *)
(* each byte of the ciphertext and one for the closing brackets.           *)
(*                                                                         *)
(* Only the characters of the ciphertext array and what follows it are     *)
(* kept; of the fields before it only the length matters.                  *)
(***************************************************************************)
EXTENDS Integers, Sequences

CONSTANTS Ciphertexts,  \* the ciphertexts Alice may have
          FieldsLen,    \* characters of key_id, ctx, hex_sign and hex_pk
          Room          \* added for everything but the fields and the numbers

ASSUME WriterAssumption ==
  /\ Ciphertexts \subseteq Seq(0..255)
  /\ FieldsLen \in Nat
  /\ Room \in Nat /\ Room >= 68      \* 250 in the code

VARIABLES wPc,          \* where build_json_payload is
          ciphertext,   \* payload->encrypt_msg->ciphertext
          i,            \* bytes already printed
          offset,       \* what the snprintfs returned so far, added up
          json_msg      \* the array's characters that are in the buffer

writerVars == <<wPc, ciphertext, i, offset, json_msg>>

\* The characters around the fields, up to and with "ciphertext":[
PrefixLen == 63

max_size_tight == Room + FieldsLen + 3 * Len(ciphertext)    \* mutant: no comma
max_size == Room + FieldsLen + 4 * Len(ciphertext)

\* Characters are their ASCII codes.
NUL    == 0
Comma  == 44
Digits == 48..57
CloseArray  == 93
CloseObject == 125

\* %d of an unsigned char.
Digit(d) == 48 + d
decimal(b) ==
  IF b < 10 THEN <<Digit(b)>>
  ELSE IF b < 100 THEN <<Digit(b \div 10), Digit(b % 10)>>
  ELSE <<Digit(b \div 100), Digit((b \div 10) % 10), Digit(b % 10)>>

\* "%d%s": no comma after the last byte.
ItemTrailingComma(k) == decimal(ciphertext[k]) \o <<Comma>>   \* mutant
Item(k) ==
  decimal(ciphertext[k]) \o IF k = Len(ciphertext) THEN <<>> ELSE <<Comma>>

Trailer == <<CloseArray, CloseObject, CloseArray, CloseObject>>

\* snprintf returns the length of what it was to print, and writes as much of
\* it as leaves room for the terminator.
snprintf(text) ==
  /\ offset' = offset + Len(text)
  /\ json_msg' = json_msg \o
       SubSeq(text, 1, IF Len(text) < max_size - offset THEN Len(text)
                                                        ELSE max_size - offset - 1)

WriterInit ==
  /\ wPc = "prefix"
  /\ ciphertext \in Ciphertexts
  /\ i = 0
  /\ offset = 0
  /\ json_msg = <<>>

-----------------------------------------------------------------------------
\* The two conversions to hexadecimal and malloc(max_size), either of which
\* may be refused, and the snprintf of the fields.
WritePrefix ==
  /\ wPc = "prefix"
  /\ \/ wPc' = "items" /\ offset' = PrefixLen + FieldsLen
     \/ wPc' = "null" /\ UNCHANGED offset
  /\ UNCHANGED <<ciphertext, i, json_msg>>

WriteItem ==
  /\ wPc = "items" /\ i < Len(ciphertext)
  /\ snprintf(Item(i + 1))
  /\ i' = i + 1
  /\ UNCHANGED <<wPc, ciphertext>>

WriteTrailer ==
  /\ wPc = "items" /\ i = Len(ciphertext)
  /\ snprintf(Trailer)
  /\ wPc' = "built"
  /\ UNCHANGED <<ciphertext, i>>

WriterStep == WritePrefix \/ WriteItem \/ WriteTrailer
=============================================================================
