----------------------------- MODULE MCAliceBob -----------------------------
(* Small instances of AliceBob: two-bit bytes, of which 0 ends a C string. *)
EXTENDS AliceBob

MCByte == 0..3
MCXor(a, b) == ((a + b) % 2) + 2 * (((a \div 2) + (b \div 2)) % 2)

\* Two keys, as Alice asks for; the first is shorter than the longer files.
MCKeys == << <<1, 2>>, <<3>> >>

\* Without a 0: empty, shorter than the key, as long, and longer.
TextFiles == {<<>>, <<3>>, <<1, 2>>, <<2, 3, 1>>}

\* What may lie in memory behind a payload that was cut.
MCRemains == {<<>>, <<1>>, <<2, 0>>}

\* One file that a C string cannot hold.
BinaryFiles == {<<2, 0, 1>>}

\* Files no longer than the key.
ShortFiles == {<<1, 2>>}
=============================================================================
