----------------------------- MODULE MCSaePair ------------------------------
(* Small instances of SaePair: two-bit bytes, of which 2 begins a two-byte   *)
(* character that 1 ends.                                                    *)
EXTENDS SaePair

MCByte == 0..3
MCXor(a, b) == ((a + b) % 2) + 2 * (((a \div 2) + (b \div 2)) % 2)

\* Six keys as long as the buffer; and six of which the third is too short.
LongKeys  == << <<1, 2>>, <<3, 1>>, <<2, 2>>, <<0, 3>>, <<3, 3>>, <<1, 1>> >>
ShortKeys == << <<1, 2>>, <<3, 1>>, <<2>>, <<0, 3>>, <<3, 3>>, <<1, 1>> >>

\* Files of no, less than one, one, a piece and a half, two and a half pieces.
TextFiles == {<<>>, <<3>>, <<1, 3>>, <<3, 3, 1>>, <<1, 3, 3, 1, 3>>}
OddFiles  == {<<1, 3, 3>>}

\* A two-byte character across the end of the first piece.
WideFiles == {<<3, 2, 1, 3>>}

Always(text) == TRUE
TwoByteCharacters(text) ==
  \A i \in 1..Len(text) :
     /\ text[i] = 2 => i < Len(text) /\ text[i + 1] = 1
     /\ text[i] = 1 => i > 1 /\ text[i - 1] = 2
=============================================================================
