----------------------------- MODULE ParseBuffer -----------------------------
(***************************************************************************)
(* The text cJSON reads and the offset it has reached (parse_buffer of     *)
(* cJSON.c), with the two functions that skip what precedes a value.       *)
(*                                                                         *)
(* Bytes are numbers; offsets count from 0 as in C, sequences from 1.      *)
(***************************************************************************)
EXTENDS Integers, Sequences

CONSTANT Texts          \* what cJSON may be called with: with a NUL at the end
                        \* from cJSON_Parse, without from cJSON_ParseWithLength

ASSUME TextsAssumption == Texts \subseteq Seq(0..255)

VARIABLES content,      \* buffer.content, buffer.length bytes of it
          offset        \* buffer.offset

bufferVars == <<content, offset>>

Quote     == 34
Backslash == 92
Bom       == <<239, 187, 191>>

Byte(o) == content[o + 1]

\* can_access_at_index and a look at the byte there; can_read and strncmp.
Readable(o)     == o < Len(content)
ByteIs(o, c)    == Readable(o) /\ Byte(o) = c
\* (mutant: no can_read, and what lies behind the text completes the word)
WordAt_unasked(o, word) ==
  \A k \in 1..Len(word) : Readable(o + k - 1) => Byte(o + k - 1) = word[k]
WordAt(o, word) == /\ o + Len(word) <= Len(content)
                   /\ SubSeq(content, o + 1, o + Len(word)) = word

\* Everything up to the space counts as white, the terminator too, which is
\* why the last byte is never skipped.
IsBlank(o) == Byte(o) <= 32
FirstDark(o) ==
  CHOOSE e \in o..Len(content) :
     /\ Readable(e) => ~IsBlank(e)
     /\ \A k \in o..(e - 1) : IsBlank(k)
buffer_skip_whitespace(o) ==
  IF ~Readable(o) THEN o
  ELSE IF FirstDark(o) = Len(content) THEN Len(content) - 1 ELSE FirstDark(o)

\* Called at offset 0.  Five bytes are asked for.
skip_utf8_bom == IF Readable(4) /\ WordAt(0, Bom) THEN 3 ELSE 0

BufferInit == content \in Texts /\ offset = 0
=============================================================================
