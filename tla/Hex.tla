--------------------------------- MODULE Hex ---------------------------------
(* The signature and the public key as text: the two conversions of        *)
(* c/core/handle_msg.c, on byte sequences and ASCII codes.                 *)
EXTENDS Integers, Sequences

\* A digit of %02x, and the value scanf's %x gives a digit of either case.
HexDigit(v) == IF v < 10 THEN 48 + v ELSE 87 + v
HexValue(c) == CASE c \in 48..57  -> c - 48
                 [] c \in 97..102 -> c - 87
                 [] c \in 65..70  -> c - 55

binary_to_hex(bin) ==
  [k \in 1..(2 * Len(bin)) |->
     LET b == bin[(k + 1) \div 2]
     IN  HexDigit(IF k % 2 = 1 THEN b \div 16 ELSE b % 16)]

\* For a text of hexadecimal digits, as many as twice the bytes; an odd number
\* makes it return NULL, and another character leaves the byte as malloc gave it.
hex_to_binary(hexstr) ==
  [k \in 1..(Len(hexstr) \div 2) |->
     16 * HexValue(hexstr[2 * k - 1]) + HexValue(hexstr[2 * k])]
=============================================================================
