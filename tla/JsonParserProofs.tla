-------------------------- MODULE JsonParserProofs --------------------------
(***************************************************************************)
(* What holds of cJSON's parser for every text, every set of nodes and     *)
(* every nesting limit, whatever allocation is refused: it stays in its    *)
(* buffer and in the output it allocated, and counts its nesting.          *)
(***************************************************************************)
EXTENDS JsonFields, SequenceTheorems, WellFoundedInduction, TLAPS

-----------------------------------------------------------------------------
(* Numbers and sets of numbers.                                            *)

(* A set of naturals that has a member has a least one.                    *)
LEMMA LeastMember ==
  ASSUME NEW S \in SUBSET Nat, S # {}
  PROVE  \E m \in S : \A n \in S : m <= n
<1> DEFINE R == OpToRel(<, Nat)
<1>1. R = {ss \in Nat \X Nat : ss[1] < ss[2]}
  BY DEF OpToRel
<1>2. IsWellFoundedOn(R, Nat)
  BY NatLessThanWellFounded
<1> HIDE DEF R
<1>3. PICK m \in S : \A n \in S : <<n, m>> \notin R
  BY <1>2, WFMin
<1>4. \A n \in S : ~(n < m)
  BY <1>1, <1>3
<1> QED BY <1>3, <1>4

(* A bounded set of naturals that has a member has a greatest one, and it  *)
(* is what Max gives.                                                      *)
LEMMA GreatestMember ==
  ASSUME NEW S \in SUBSET Nat, S # {}, NEW b \in Nat, \A n \in S : n <= b
  PROVE  Max(S) \in S
<1> DEFINE U == {u \in Nat : \A n \in S : n <= u}
<1>1. U \in SUBSET Nat /\ U # {}
  OBVIOUS
<1>2. PICK u \in U : \A v \in U : u <= v
  BY <1>1, LeastMember
<1>3. u \in S
  <2>1. SUFFICES ASSUME u \notin S PROVE FALSE
    OBVIOUS
  <2>2. \A n \in S : n <= u - 1
    BY <2>1
  <2>3. PICK n \in S : TRUE
    OBVIOUS
  <2>4. u - 1 \in Nat
    BY <2>2, <2>3
  <2> QED
    BY <1>2, <2>2, <2>4
<1>4. \E x \in S : \A y \in S : x >= y
  BY <1>2, <1>3
<1> QED
  BY <1>4 DEF Max

-----------------------------------------------------------------------------
(* The buffer.                                                             *)

Text == content \in Seq(Bytes)

(* Skipping white space does not go back, and stays on a byte if it began  *)
(* on one.                                                                 *)
LEMMA SkipStays ==
  ASSUME Text, NEW o \in 0..Len(content)
  PROVE  /\ buffer_skip_whitespace(o) \in o..Len(content)
         /\ o < Len(content) => buffer_skip_whitespace(o) < Len(content)
<1>0. Len(content) \in Nat
  BY DEF Text
<1>1. CASE ~Readable(o)
  BY <1>0, <1>1 DEF buffer_skip_whitespace, Readable
<1>2. CASE Readable(o)
  <2> DEFINE Stops == {e \in o..Len(content) : Readable(e) => ~IsBlank(e)}
  <2>1. Len(content) \in Stops /\ Stops \in SUBSET Nat
    BY <1>0 DEF Readable
  <2>2. PICK m \in Stops : \A e \in Stops : m <= e
    BY <2>1, LeastMember
  <2>3. \A k \in o..(m - 1) : IsBlank(k)
    <3>1. SUFFICES ASSUME NEW k \in o..(m - 1), ~IsBlank(k) PROVE FALSE
      OBVIOUS
    <3>2. k \in Stops
      BY <3>1, <1>0, <2>2
    <3> QED
      BY <3>2, <2>2, <1>0
  <2>4. FirstDark(o) \in o..Len(content)
    BY <2>2, <2>3 DEF FirstDark
  <2> QED
    BY <1>0, <1>2, <2>4 DEF buffer_skip_whitespace, Readable
<1> QED
  BY <1>1, <1>2

LEMMA BomIsShort ==
  ASSUME Text
  PROVE  skip_utf8_bom \in 0..Len(content) /\ (content # <<>> => skip_utf8_bom < Len(content))
BY DEF Text, skip_utf8_bom, Readable

(* A number ends in the buffer.                                            *)
LEMMA NumberStays ==
  ASSUME Text, NEW o \in 0..Len(content)
  PROVE  NumberLength(o) \in 0..(Len(content) - o)
<1> DEFINE S == {0} \cup
      {n \in 1..(Len(content) - o) :
         /\ \A k \in o..(o + n - 1) : Byte(k) \in NumberChars
         /\ IsNumber(SubSeq(content, o + 1, o + n))}
<1>0. Len(content) \in Nat
  BY DEF Text
<1>1. /\ S \in SUBSET Nat /\ S # {}
      /\ Len(content) - o \in Nat
      /\ \A n \in S : n <= Len(content) - o
  BY <1>0
<1>2. Max(S) \in S
  BY <1>1, GreatestMember
<1>3. NumberLength(o) = Max(S)
  BY DEF NumberLength
<1> QED
  BY <1>1, <1>2, <1>3

-----------------------------------------------------------------------------
(* The bytes of a string.                                                  *)

LEMMA ByteType ==
  ASSUME Text, NEW o \in Nat, o < Len(content)
  PROVE  Byte(o) \in Bytes
BY DEF Text, Byte

LEMMA HexRange ==
  ASSUME NEW o \in Nat
  PROVE  parse_hex4(o) \in Nat /\ parse_hex4(o) < 65536
<1>1. CASE \E k \in 0..3 : Byte(o + k) \notin HexDigits
  <2>1. parse_hex4(o) = 0
    BY <1>1 DEF parse_hex4
  <2> QED
    BY <2>1, SMT
<1>2. CASE \A k \in 0..3 : Byte(o + k) \in HexDigits
  <2>1. \A c \in HexDigits : HexValue(c) \in 0..15
    <3>1. SUFFICES ASSUME NEW c \in HexDigits PROVE HexValue(c) \in 0..15
      OBVIOUS
    <3>2. CASE c \in 48..57
      BY <3>2, SMT DEF HexValue
    <3>3. CASE c \in 97..102
      BY <3>3, SMT DEF HexValue
    <3>4. CASE c \in 65..70
      BY <3>4, SMT DEF HexValue
    <3> QED
      BY <3>1, <3>2, <3>3, <3>4 DEF HexDigits
  <2> DEFINE a == HexValue(Byte(o))
             b == HexValue(Byte(o + 1))
             c == HexValue(Byte(o + 2))
             d == HexValue(Byte(o + 3))
  <2>2. parse_hex4(o) = 4096 * a + 256 * b + 16 * c + d
    BY <1>2 DEF parse_hex4
  <2>3. a \in 0..15 /\ b \in 0..15 /\ c \in 0..15 /\ d \in 0..15
    <3>1. \A k \in 0..3 : HexValue(Byte(o + k)) \in 0..15
      BY <1>2, <2>1
    <3>2. o + 0 = o
      OBVIOUS
    <3> QED
      BY <3>1, <3>2
  <2> HIDE DEF a, b, c, d
  <2> QED
    BY <2>2, <2>3, SMT
<1> QED
  BY <1>1, <1>2

LEMMA SixBitsByte ==
  ASSUME NEW x \in Nat
  PROVE  SixBits(x) \in Bytes
<1>1. x % 64 \in 0..63
  OBVIOUS
<1> QED
  BY <1>1 DEF SixBits, Bytes

LEMMA Quotient ==
  ASSUME NEW x \in Nat, NEW b \in Nat, b > 0
  PROVE  x \div b \in Nat /\ (x \div b) * b <= x
OBVIOUS

LEMMA Quotients ==
  ASSUME NEW cp \in Nat
  PROVE  /\ cp \div 64 \in Nat /\ cp \div 4096 \in Nat /\ cp \div 262144 \in Nat
         /\ cp < 2048 => cp \div 64 < 32
         /\ cp < 65536 => cp \div 4096 < 16
         /\ cp < 1114112 => cp \div 262144 < 5
<1>1. cp \div 64 \in Nat /\ (cp < 2048 => cp \div 64 < 32)
  BY SMT
<1>2. cp \div 4096 \in Nat /\ (cp < 65536 => cp \div 4096 < 16)
  BY SMT
<1>3. cp \div 262144 \in Nat /\ (cp < 1114112 => cp \div 262144 < 5)
  BY SMT
<1> QED
  BY <1>1, <1>2, <1>3, SMT

(* A code point takes one to four bytes, and four only from 65536 on.      *)
LEMMA Utf8Bytes ==
  ASSUME NEW cp \in Nat, cp < 1114112
  PROVE  Utf8(cp) \in Seq(Bytes) /\ Len(Utf8(cp)) \in 1..4 /\ (cp < 65536 => Len(Utf8(cp)) \in 1..3)
<1>1. CASE cp < 128
  <2>1. Utf8(cp) = <<cp>> /\ cp \in Bytes
    BY <1>1, SMT DEF Utf8, Bytes
  <2> QED
    BY <2>1, SMT
<1>2. CASE cp >= 128 /\ cp < 2048
  <2>1. 192 + (cp \div 64) \in Bytes /\ SixBits(cp) \in Bytes
    BY <1>2, Quotients, SixBitsByte, SMT DEF Bytes
  <2>2. Utf8(cp) = <<192 + (cp \div 64), SixBits(cp)>>
    BY <1>2, SMT DEF Utf8
  <2> QED
    BY <2>1, <2>2, SMT
<1>3. CASE cp >= 2048 /\ cp < 65536
  <2>1. 224 + (cp \div 4096) \in Bytes /\ SixBits(cp \div 64) \in Bytes /\ SixBits(cp) \in Bytes
    BY <1>3, Quotients, SixBitsByte, SMT DEF Bytes
  <2>2. Utf8(cp) = <<224 + (cp \div 4096), SixBits(cp \div 64), SixBits(cp)>>
    BY <1>3, SMT DEF Utf8
  <2> QED
    BY <2>1, <2>2, SMT
<1>4. CASE cp >= 65536
  <2>1. 240 + (cp \div 262144) \in Bytes /\ SixBits(cp \div 4096) \in Bytes
        /\ SixBits(cp \div 64) \in Bytes /\ SixBits(cp) \in Bytes
    BY <1>4, Quotients, SixBitsByte, SMT DEF Bytes
  <2>2. Utf8(cp) = <<240 + (cp \div 262144), SixBits(cp \div 4096),
                     SixBits(cp \div 64), SixBits(cp)>>
    BY <1>4, SMT DEF Utf8
  <2> QED
    BY <1>4, <2>1, <2>2, SMT
<1> QED
  BY <1>1, <1>2, <1>3, <1>4, SMT

LEMMA PairInRange ==
  ASSUME NEW x \in Nat, NEW y \in Nat
  PROVE  Codepoint(x, y) \in Nat /\ Codepoint(x, y) < 1114112
<1>1. x % 1024 \in 0..1023
  BY SMT
<1>2. y % 1024 \in 0..1023
  BY SMT
<1> QED
  BY <1>1, <1>2, SMT DEF Codepoint

(* A literal that is one takes six characters and up to three bytes, or    *)
(* twelve and four, and does not reach beyond the string.                  *)
LEMMA LiteralBytes ==
  ASSUME NEW o \in Nat, input_end \in Nat
  PROVE  LET literal == utf16_literal_to_utf8(o)
         IN  \/ literal = NoLiteral
             \/ /\ literal.bytes \in Seq(Bytes)
                /\ \/ literal.length = 6 /\ Len(literal.bytes) \in 1..3
                   \/ literal.length = 12 /\ Len(literal.bytes) \in 1..4
                /\ o + literal.length <= input_end
<1> DEFINE first == parse_hex4(o + 2)
           second == parse_hex4(o + 8)
<1>1. first \in Nat /\ first < 65536 /\ second \in Nat /\ second < 65536
  BY HexRange, SMT
<1>2. CASE input_end - o < 6
  BY <1>2, SMT DEF utf16_literal_to_utf8
<1>3. CASE ~(input_end - o < 6) /\ first \in Low
  BY <1>3, SMT DEF utf16_literal_to_utf8
<1>4. CASE ~(input_end - o < 6) /\ first \in High /\ first \notin Low
  <2>1. utf16_literal_to_utf8(o) = SurrogatePair(o, first)
    BY <1>4, SMT DEF utf16_literal_to_utf8
  <2>2. CASE SurrogatePair(o, first) = NoLiteral
    BY <2>1, <2>2, SMT
  <2>3. CASE SurrogatePair(o, first) # NoLiteral
    <3>1. /\ SurrogatePair(o, first) = [length |-> 12, bytes |-> Utf8(Codepoint(first, second))]
          /\ input_end - (o + 6) >= 6
      BY <2>3, SMT DEF SurrogatePair
    <3>2. Codepoint(first, second) \in Nat /\ Codepoint(first, second) < 1114112
      BY <1>1, PairInRange
    <3>3. /\ Utf8(Codepoint(first, second)) \in Seq(Bytes)
          /\ Len(Utf8(Codepoint(first, second))) \in 1..4
      BY <3>2, Utf8Bytes
    <3> QED
      BY <2>1, <3>1, <3>3, SMT
  <2> QED
    BY <2>2, <2>3, SMT
<1>5. CASE ~(input_end - o < 6) /\ first \notin High \cup Low
  <2>1. utf16_literal_to_utf8(o) = [length |-> 6, bytes |-> Utf8(first)]
    BY <1>5, SMT DEF utf16_literal_to_utf8
  <2>3. Utf8(first) \in Seq(Bytes) /\ Len(Utf8(first)) \in 1..3
    <3>1. first < 1114112
      BY <1>1, SMT
    <3> HIDE DEF first
    <3>2. /\ Utf8(first) \in Seq(Bytes) /\ Len(Utf8(first)) \in 1..4
          /\ (first < 65536 => Len(Utf8(first)) \in 1..3)
      BY <1>1, <3>1, Utf8Bytes
    <3> QED
      BY <1>1, <3>2
  <2> QED
    BY <1>5, <2>1, <2>3, SMT
<1> QED
  BY <1>2, <1>3, <1>4, <1>5, SMT

-----------------------------------------------------------------------------
(* The inductive invariant.                                                *)

(* Where the calls are: the offset is in the buffer and on a byte where    *)
(* one is needed, the stack is as deep as depth says, the limit holds.     *)
ControlInv ==
  /\ offset <= Len(content)
  /\ pc \in {"string", "name"} <=> sPc # "idle"
  /\ pc = "element" => offset < Len(content)
  /\ pc \in {"element", "name", "after"} => stack # <<>>
  /\ pc \in {"value", "name"} => item \in Nodes
  /\ pc \notin {"start", "fail", "done", "extracted"} => root # NULL
  /\ Len(stack) <= NestingLimit
  /\ pc \notin {"fail", "done", "extracted"} => depth = Len(stack)
  /\ pc = "done" /\ content # <<>> =>
       IF root = NULL THEN parse_end < Len(content) ELSE parse_end <= Len(content)

(* The first pass: skipped counts the escapes begun before each position.  *)
(* It grows only behind a backslash, by one in two bytes at most.          *)
Steady(s) == Len(s) > 1 => s[Len(s)] <= s[Len(s) - 1]
Counts(s, E) ==
  /\ s \in Seq(Nat) /\ s # <<>> /\ s[1] = 0
  /\ \A k \in 1..(Len(s) - 1) : s[k + 1] <= s[k] + 1
  /\ \A k \in 1..(Len(s) - 1) : k \notin E => s[k + 1] <= s[k]
  /\ \A k \in 1..(Len(s) - 2) : s[k + 2] <= s[k] + 1
  /\ \A k \in 1..Len(s) : s[Len(s)] <= s[k] + (Len(s) - k)
Escaped == {k \in Nat : Byte(offset + k) = Backslash}
ScanInv ==
  /\ offset + 1 <= input_end /\ input_end <= Len(content)
  /\ Len(skipped) = input_end - offset
  /\ Counts(skipped, Escaped)

(* The second pass: what is written so far is not longer than what was     *)
(* read, less the escapes among it.  A literal may end on the last quote.  *)
Fits(p, o) ==
  \/ p <= input_end /\ Len(o) + skipped[p - offset] <= p - offset - 1
  \/ p = input_end + 1 /\ Len(o) < room

StringInv ==
  /\ sPc \in {"scan", "decode"} => ScanInv
  /\ sPc = "scan" =>
       /\ input_pointer = offset + 1 /\ output = <<>>
       /\ Steady(skipped)
  /\ sPc = "decode" =>
       /\ input_end < Len(content)
       /\ room = Len(skipped) - skipped_bytes + 1
       /\ offset + 1 <= input_pointer
       /\ Fits(input_pointer, output)
  /\ sPc = "ok" => Len(output) < room
  /\ sPc = "fail" => input_pointer <= Len(content)

IInv == ParserTypeOK /\ ControlInv /\ StringInv

-----------------------------------------------------------------------------
(* Counting escapes.                                                       *)

(* One position further, the count is that of the position before, or one  *)
(* more if an escape began there and none just before it.                  *)
LEMMA CountOne ==
  ASSUME NEW s, NEW E, NEW x \in Nat, Counts(s, E),
         x <= s[Len(s)] + 1, Len(s) \notin E => x <= s[Len(s)], s[Len(s)] <= x,
         Len(s) > 1 => x <= s[Len(s) - 1] + 1
  PROVE  Counts(Append(s, x), E)
<1> DEFINE n == Len(s)
           t == Append(s, x)
<1>0. /\ n \in Nat /\ n > 0 /\ \A i \in 1..n : s[i] \in Nat
      /\ t \in Seq(Nat) /\ t # <<>> /\ Len(t) = n + 1
      /\ \A i \in 1..n : t[i] = s[i]
      /\ t[n + 1] = x
  BY DEF Counts
<1>1. /\ s[1] = 0
      /\ \A k \in 1..(n - 1) : s[k + 1] <= s[k] + 1
      /\ \A k \in 1..(n - 1) : k \notin E => s[k + 1] <= s[k]
      /\ \A k \in 1..(n - 2) : s[k + 2] <= s[k] + 1
      /\ \A k \in 1..n : s[n] <= s[k] + (n - k)
  BY DEF Counts
<1>2. x <= s[n] + 1 /\ (n \notin E => x <= s[n]) /\ s[n] <= x /\ (n > 1 => x <= s[n - 1] + 1)
  OBVIOUS
<1> HIDE DEF n, t
<1>3. t[1] = 0
  BY <1>0, <1>1
<1>4. \A k \in 1..n : t[k + 1] <= t[k] + 1
  <2> SUFFICES ASSUME NEW k \in 1..n PROVE t[k + 1] <= t[k] + 1
    OBVIOUS
  <2>1. CASE k = n
    BY <2>1, <1>0, <1>2
  <2>2. CASE k < n
    <3>1. k \in 1..(n - 1) /\ k + 1 \in 1..n
      BY <2>2, <1>0
    <3>2. t[k + 1] = s[k + 1] /\ t[k] = s[k] /\ s[k + 1] <= s[k] + 1
      BY <3>1, <1>0, <1>1
    <3> QED
      BY <3>2
  <2> QED
    BY <2>1, <2>2, <1>0
<1>5. \A k \in 1..n : k \notin E => t[k + 1] <= t[k]
  <2> SUFFICES ASSUME NEW k \in 1..n, k \notin E PROVE t[k + 1] <= t[k]
    OBVIOUS
  <2>1. CASE k = n
    BY <2>1, <1>0, <1>2
  <2>2. CASE k < n
    <3>1. k \in 1..(n - 1) /\ k + 1 \in 1..n
      BY <2>2, <1>0
    <3>2. t[k + 1] = s[k + 1] /\ t[k] = s[k] /\ s[k + 1] <= s[k]
      BY <3>1, <1>0, <1>1
    <3> QED
      BY <3>2
  <2> QED
    BY <2>1, <2>2, <1>0
<1>6. \A k \in 1..(n - 1) : t[k + 2] <= t[k] + 1
  <2> SUFFICES ASSUME NEW k \in 1..(n - 1) PROVE t[k + 2] <= t[k] + 1
    OBVIOUS
  <2>1. CASE k = n - 1
    <3>1. n > 1 /\ k + 2 = n + 1 /\ k \in 1..n
      BY <2>1, <1>0
    <3>2. t[k + 2] = x /\ t[k] = s[n - 1]
      BY <3>1, <2>1, <1>0
    <3> QED
      BY <3>1, <3>2, <1>2
  <2>2. CASE k < n - 1
    <3>1. k \in 1..(n - 2) /\ k + 2 \in 1..n /\ k \in 1..n
      BY <2>2, <1>0
    <3>2. t[k + 2] = s[k + 2] /\ t[k] = s[k] /\ s[k + 2] <= s[k] + 1
      BY <3>1, <1>0, <1>1
    <3> QED
      BY <3>2
  <2> QED
    BY <2>1, <2>2, <1>0
<1>7. \A k \in 1..(n + 1) : t[n + 1] <= t[k] + ((n + 1) - k)
  <2> SUFFICES ASSUME NEW k \in 1..(n + 1) PROVE t[n + 1] <= t[k] + ((n + 1) - k)
    OBVIOUS
  <2>1. CASE k = n + 1
    BY <2>1, <1>0
  <2>2. CASE k \in 1..n
    <3>1. t[k] = s[k] /\ s[n] <= s[k] + (n - k) /\ s[k] \in Nat /\ s[n] \in Nat
      BY <2>2, <1>0, <1>1
    <3>2. t[n + 1] = x /\ x <= s[n] + 1 /\ n \in Nat /\ k \in Nat
      BY <2>2, <1>0, <1>2
    <3> QED
      BY <3>1, <3>2
  <2> QED
    BY <2>1, <2>2, <1>0
<1>8. (n + 1) - 1 = n /\ (n + 1) - 2 = n - 1
  BY <1>0
<1>9. Counts(t, E)
  BY <1>0, <1>3, <1>4, <1>5, <1>6, <1>7, <1>8 DEF Counts
<1> QED
  BY <1>9 DEF t

(* A character that is no backslash. *)
LEMMA CountChar ==
  ASSUME NEW s, NEW E, Counts(s, E), Steady(s)
  PROVE  Counts(Append(s, s[Len(s)]), E) /\ Steady(Append(s, s[Len(s)]))
<1>1. /\ Len(s) \in Nat /\ Len(s) > 0 /\ s[Len(s)] \in Nat
      /\ Len(s) > 1 => s[Len(s) - 1] \in Nat
  BY DEF Counts
<1>2. Counts(Append(s, s[Len(s)]), E)
  BY <1>1, CountOne DEF Steady
<1>3. Steady(Append(s, s[Len(s)]))
  BY <1>1 DEF Steady, Counts
<1> QED
  BY <1>2, <1>3

(* An escape: two characters, of which the first is a backslash. *)
LEMMA CountEscape ==
  ASSUME NEW s, NEW E, Counts(s, E), Steady(s), Len(s) \in E
  PROVE  LET x == s[Len(s)] + 1
             t == s \o <<x, x>>
         IN  Counts(t, E) /\ Steady(t) /\ Len(t) = Len(s) + 2 /\ t[Len(t)] = x
<1> DEFINE x == s[Len(s)] + 1
           u == Append(s, x)
           t == s \o <<x, x>>
<1>1. /\ Len(s) \in Nat /\ Len(s) > 0 /\ s[Len(s)] \in Nat /\ x \in Nat /\ s \in Seq(Nat)
      /\ Len(s) > 1 => s[Len(s) - 1] \in Nat
  BY DEF Counts
<1>2. Counts(u, E)
  BY <1>1, CountOne DEF Steady
<1>3. /\ Len(u) = Len(s) + 1 /\ u[Len(u)] = x /\ u[Len(u) - 1] = s[Len(s)] /\ u \in Seq(Nat)
      /\ t = Append(u, x) /\ Len(t) = Len(s) + 2 /\ t[Len(t)] = x /\ t[Len(t) - 1] = x
  BY <1>1
<1>4. Counts(Append(u, x), E)
  <2>1. /\ x \in Nat /\ x <= u[Len(u)] + 1 /\ (Len(u) \notin E => x <= u[Len(u)])
        /\ u[Len(u)] <= x /\ (Len(u) > 1 => x <= u[Len(u) - 1] + 1)
    BY <1>1, <1>3
  <2> HIDE DEF u, x
  <2> QED
    BY <1>2, <2>1, CountOne
<1>5. Steady(t)
  <2> HIDE DEF x, t
  <2> QED
    BY <1>1, <1>3 DEF Steady
<1>6. Counts(t, E)
  BY <1>3, <1>4
<1> QED
  BY <1>3, <1>5, <1>6

-----------------------------------------------------------------------------
(* Room for the output.                                                    *)

(* What the count is at one position bounds what it is at the end.         *)
LEMMA FitsIsRoom ==
  ASSUME IInv, sPc = "decode"
  PROVE  Len(output) < room
<1> DEFINE n == Len(skipped)
           k == input_pointer - offset
<1>1. /\ n = input_end - offset /\ Counts(skipped, Escaped) /\ offset \in Nat /\ input_pointer \in Nat
      /\ input_end \in Nat /\ room = n - skipped[n] + 1 /\ offset + 1 <= input_pointer
      /\ Fits(input_pointer, output) /\ Len(output) \in Nat
  BY DEF IInv, StringInv, ScanInv, ParserTypeOK, skipped_bytes
<1>2. CASE input_pointer = input_end + 1 /\ Len(output) < room
  BY <1>2
<1>3. CASE input_pointer <= input_end /\ Len(output) + skipped[k] <= k - 1
  <2>1. k \in 1..n /\ n \in Nat
    BY <1>1, <1>3
  <2>2. skipped[n] <= skipped[k] + (n - k) /\ skipped[k] \in Nat /\ skipped[n] \in Nat
    <3> HIDE DEF k, n
    <3>1. \A i \in 1..Len(skipped) : skipped[Len(skipped)] <= skipped[i] + (Len(skipped) - i)
      BY <1>1 DEF Counts
    <3>2. skipped \in Seq(Nat)
      BY <1>1 DEF Counts
    <3> QED
      BY <2>1, <3>1, <3>2 DEF n
  <2> HIDE DEF k, n
  <2> QED
    BY <1>1, <1>3, <2>1, <2>2
<1> QED
  BY <1>1, <1>2, <1>3 DEF Fits

-----------------------------------------------------------------------------
(* The steps of parse_string.                                              *)

Rest == <<content, require, pc, callVars, endVars, item>>

LEMMA ScanCharKeeps ==
  ASSUME IInv, ScanChar, UNCHANGED Rest
  PROVE  IInv'
<1> USE DEF IInv, Rest, callVars, endVars, heapVars
<1>1. /\ sPc = "scan" /\ ScanInv /\ Steady(skipped) /\ input_end \in Nat /\ Len(content) \in Nat
      /\ input_end < Len(content) /\ skipped \in Seq(Nat) /\ skipped # <<>> /\ offset \in Nat
  BY DEF ScanChar, StringInv, ParserTypeOK, Readable
<1>2. Counts(skipped', Escaped) /\ Steady(skipped')
  BY <1>1, CountChar DEF ScanChar, skipped_bytes, ScanInv
<1>3. skipped' \in Seq(Nat) /\ skipped' # <<>> /\ Len(skipped') = Len(skipped) + 1
  BY <1>1 DEF ScanChar, skipped_bytes
<1>4. ParserTypeOK'
  BY <1>1, <1>3 DEF ParserTypeOK, ScanChar
<1>5. ControlInv'
  BY DEF ControlInv, ScanChar
<1>6. ScanInv'
  <2>1. Escaped' = Escaped
    BY DEF Escaped, ScanChar, Byte
  <2> QED
    BY <1>1, <1>2, <1>3, <2>1 DEF ScanInv, ScanChar
<1>7. StringInv'
  BY <1>1, <1>2, <1>6 DEF StringInv, ScanChar
<1> QED
  BY <1>4, <1>5, <1>7

LEMMA ScanEscapeKeeps ==
  ASSUME IInv, ScanEscape, UNCHANGED Rest
  PROVE  IInv'
<1> USE DEF IInv, Rest, callVars, endVars, heapVars
<1>1. /\ sPc = "scan" /\ ScanInv /\ Steady(skipped) /\ input_end \in Nat /\ Len(content) \in Nat
      /\ input_end < Len(content) /\ skipped \in Seq(Nat) /\ skipped # <<>> /\ offset \in Nat
      /\ Byte(input_end) = Backslash /\ input_pointer = offset + 1
  BY DEF ScanEscape, StringInv, ParserTypeOK, Readable, ByteIs
<1>2. CASE Readable(input_end + 1)
  <2> DEFINE x == skipped_bytes + 1
  <2>1. /\ input_end' = input_end + 2 /\ skipped' = skipped \o <<x, x>> /\ sPc' = sPc
        /\ input_end + 2 <= Len(content)
    BY <1>1, <1>2, SMTT(20) DEF ScanEscape, Readable
  <2>2. Len(skipped) \in Escaped
    BY <1>1 DEF ScanInv, Escaped
  <2>3. /\ Counts(skipped', Escaped) /\ Steady(skipped') /\ Len(skipped') = Len(skipped) + 2
    BY <1>1, <2>1, <2>2, CountEscape DEF skipped_bytes, ScanInv
  <2>4. skipped' \in Seq(Nat) /\ skipped' # <<>>
    BY <2>3 DEF Counts
  <2>5. ParserTypeOK'
    BY <1>1, <2>1, <2>4 DEF ParserTypeOK, ScanEscape
  <2>6. ControlInv'
    BY <2>1 DEF ControlInv, ScanEscape
  <2>7. ScanInv'
    <3>1. Escaped' = Escaped
      BY DEF Escaped, ScanEscape, Byte
    <3> QED
      BY <1>1, <2>1, <2>3, <3>1 DEF ScanInv, ScanEscape
  <2>8. StringInv'
    BY <1>1, <2>1, <2>3, <2>7 DEF StringInv, ScanEscape
  <2> QED
    BY <2>5, <2>6, <2>8
<1>3. CASE ~Readable(input_end + 1)
  <2>1. sPc' = "fail" /\ UNCHANGED <<input_end, skipped, offset, input_pointer, heap, strings, refused, room, output>>
    BY <1>3 DEF ScanEscape
  <2>2. ParserTypeOK'
    BY <2>1 DEF ParserTypeOK
  <2>3. ControlInv'
    BY <1>1, <2>1 DEF ControlInv
  <2>4. StringInv'
    BY <1>1, <2>1 DEF StringInv, ScanInv
  <2> QED
    BY <2>2, <2>3, <2>4
<1> QED
  BY <1>2, <1>3

LEMMA AllocateOutputKeeps ==
  ASSUME IInv, AllocateOutput, UNCHANGED Rest
  PROVE  IInv'
<1> USE DEF IInv, Rest, callVars, endVars, heapVars
<1>1. /\ sPc = "scan" /\ ScanInv /\ input_end \in Nat /\ Len(content) \in Nat
      /\ offset \in Nat /\ input_pointer = offset + 1 /\ output = <<>>
      /\ Counts(skipped, Escaped) /\ Len(skipped) = input_end - offset
      /\ UNCHANGED <<offset, heap, input_pointer, input_end, skipped, output>>
  BY DEF AllocateOutput, StringInv, ParserTypeOK, ScanInv
<1>2. CASE /\ Readable(input_end) /\ sPc' = "decode" /\ UNCHANGED refused
           /\ room' = input_end - offset - skipped_bytes + 1
  <2>1. /\ skipped_bytes \in Nat /\ skipped_bytes <= Len(skipped) - 1 /\ skipped[1] = 0
        /\ Len(skipped) \in Nat /\ Len(skipped) > 0
    <3>1. /\ skipped \in Seq(Nat) /\ Len(skipped) \in Nat /\ Len(skipped) > 0 /\ skipped[1] = 0
          /\ \A k \in 1..Len(skipped) : skipped[Len(skipped)] <= skipped[k] + (Len(skipped) - k)
      BY <1>1 DEF Counts
    <3>2. 1 \in 1..Len(skipped) /\ Len(skipped) \in 1..Len(skipped)
      BY <3>1
    <3>3. skipped[Len(skipped)] <= skipped[1] + (Len(skipped) - 1) /\ skipped[Len(skipped)] \in Nat
      BY <3>1, <3>2
    <3> QED
      BY <3>1, <3>3 DEF skipped_bytes
  <2>2. /\ input_end < Len(content) /\ room' \in Nat /\ room' = Len(skipped) - skipped_bytes + 1
    BY <1>1, <1>2, <2>1 DEF Readable
  <2>3. ParserTypeOK'
    BY <1>1, <1>2, <2>2 DEF ParserTypeOK
  <2>4. ControlInv'
    BY <1>1, <1>2 DEF ControlInv
  <2>5. ScanInv'
    <3>1. Escaped' = Escaped
      BY <1>1 DEF Escaped, Byte
    <3> QED
      BY <1>1, <3>1 DEF ScanInv
  <2>6. Fits(input_pointer, output)' /\ skipped_bytes' = skipped_bytes
    <3>1. input_pointer' - offset' = 1 /\ skipped'[1] = 0 /\ Len(output') = 0
      BY <1>1, <2>1
    <3>2. input_pointer' <= input_end'
      BY <1>1 DEF ScanInv
    <3> QED
      BY <1>1, <3>1, <3>2 DEF Fits, skipped_bytes
  <2>7. StringInv'
    BY <1>1, <1>2, <2>2, <2>5, <2>6 DEF StringInv
  <2> QED
    BY <2>3, <2>4, <2>7
<1>3. CASE sPc' = "fail" /\ refused' = Readable(input_end) /\ UNCHANGED room
  <2>1. ParserTypeOK'
    BY <1>1, <1>3 DEF ParserTypeOK, Readable
  <2>2. ControlInv'
    BY <1>1, <1>3 DEF ControlInv
  <2>3. StringInv'
    BY <1>1, <1>3 DEF StringInv, ScanInv
  <2> QED
    BY <2>1, <2>2, <2>3
<1> QED
  BY <1>2, <1>3 DEF AllocateOutput

(* An escape stands for a byte.                                            *)
LEMMA EscapesRange == \A c \in DOMAIN Escapes : Escapes[c] \in Bytes
BY DEF Escapes, Bytes, Quote, Backslash

(* What the second pass knows at a character of the string.                *)
LEMMA Decoding ==
  ASSUME IInv, sPc = "decode", input_pointer < input_end
  PROVE  LET k == input_pointer - offset
             n == Len(skipped)
         IN  /\ k \in 1..(n - 1) /\ n \in Nat /\ n = input_end - offset
             /\ skipped \in Seq(Nat) /\ \A i \in 1..n : skipped[i] \in Nat
             /\ \A i \in 1..(n - 1) : skipped[i + 1] <= skipped[i] + 1
             /\ \A i \in 1..(n - 1) : i \notin Escaped => skipped[i + 1] <= skipped[i]
             /\ \A i \in 1..(n - 2) : skipped[i + 2] <= skipped[i] + 1
             /\ room = n - skipped[n] + 1
             /\ Len(output) + skipped[k] <= k - 1
             /\ Len(output) \in Nat /\ output \in Seq(Bytes)
             /\ offset \in Nat /\ input_pointer \in Nat /\ input_end \in Nat
             /\ input_end < Len(content) /\ Len(content) \in Nat /\ offset + 1 <= input_pointer
<1>1. /\ ScanInv /\ Counts(skipped, Escaped) /\ Fits(input_pointer, output)
      /\ room = Len(skipped) - skipped_bytes + 1 /\ offset + 1 <= input_pointer
      /\ input_end < Len(content)
  BY DEF IInv, StringInv, ScanInv
<1>2. /\ offset \in Nat /\ input_pointer \in Nat /\ input_end \in Nat /\ output \in Seq(Bytes)
      /\ Len(output) \in Nat /\ Len(content) \in Nat
  BY DEF IInv, ParserTypeOK
<1>3. /\ skipped \in Seq(Nat) /\ \A i \in 1..Len(skipped) : skipped[i] \in Nat
      /\ Len(skipped) = input_end - offset /\ Len(skipped) \in Nat
  BY <1>1 DEF Counts, ScanInv
<1>4. input_pointer - offset \in 1..(Len(skipped) - 1)
  BY <1>1, <1>2, <1>3
<1>5. Len(output) + skipped[input_pointer - offset] <= (input_pointer - offset) - 1
  BY <1>1, <1>2 DEF Fits
<1> QED
  BY <1>1, <1>2, <1>3, <1>4, <1>5 DEF Counts, skipped_bytes

(* A step of the second pass that writes at most what it may keeps the     *)
(* invariant.                                                              *)
LEMMA DecodedKeeps ==
  ASSUME IInv, sPc = "decode", input_pointer < input_end, UNCHANGED Rest,
         UNCHANGED <<offset, heapVars, sPc, input_end, skipped, room>>,
         output' \in Seq(Bytes), input_pointer' \in Nat, input_pointer' >= input_pointer,
         Fits(input_pointer', output')
  PROVE  IInv'
<1> USE DEF IInv, Rest, callVars, endVars, heapVars
<1>1. ParserTypeOK'
  BY DEF ParserTypeOK
<1>2. ControlInv'
  BY DEF ControlInv
<1>3. ScanInv' /\ Fits(input_pointer, output)' /\ skipped_bytes' = skipped_bytes
  <2>1. Escaped' = Escaped
    BY DEF Escaped, Byte
  <2> QED
    BY <2>1 DEF StringInv, ScanInv, Fits, skipped_bytes
<1>4. offset + 1 <= input_pointer'
  BY DEF StringInv, ParserTypeOK
<1>5. StringInv'
  BY <1>3, <1>4 DEF StringInv
<1> QED
  BY <1>1, <1>2, <1>5

LEMMA DecodeCharKeeps ==
  ASSUME IInv, DecodeChar, UNCHANGED Rest
  PROVE  IInv'
<1> DEFINE k == input_pointer - offset
           n == Len(skipped)
<1>1. sPc = "decode" /\ input_pointer < input_end
  BY DEF DecodeChar
<1>2. /\ k \in 1..(n - 1) /\ n = input_end - offset /\ n \in Nat
      /\ \A i \in 1..(n - 1) : i \notin Escaped => skipped[i + 1] <= skipped[i]
      /\ \A i \in 1..n : skipped[i] \in Nat
      /\ Len(output) + skipped[k] <= k - 1
      /\ Len(output) \in Nat /\ output \in Seq(Bytes)
      /\ offset \in Nat /\ input_pointer \in Nat /\ input_end \in Nat
      /\ input_end < Len(content) /\ Len(content) \in Nat
  BY <1>1, Decoding
<1>3. k \notin Escaped
  BY <1>2 DEF Escaped, DecodeChar
<1>4. /\ skipped[k + 1] <= skipped[k] /\ skipped[k + 1] \in Nat /\ skipped[k] \in Nat
  <2> HIDE DEF k, n
  <2>1. k + 1 \in 1..n /\ k \in 1..n
    BY <1>2
  <2> QED
    BY <1>2, <1>3, <2>1
<1>5. Byte(input_pointer) \in Bytes
  BY <1>1, <1>2, ByteType DEF Text, IInv, ParserTypeOK
<1>6. output' \in Seq(Bytes) /\ Len(output') = Len(output) + 1 /\ input_pointer' = input_pointer + 1
  BY <1>2, <1>5 DEF DecodeChar
<1>7. Fits(input_pointer', output')
  <2>1. input_pointer' <= input_end /\ input_pointer' - offset = k + 1
    BY <1>1, <1>2, <1>6
  <2>2. Len(output') + skipped[k + 1] <= (k + 1) - 1
    <3> HIDE DEF k, n
    <3> QED
      BY <1>2, <1>4, <1>6
  <2> QED
    BY <2>1, <2>2 DEF Fits
<1> QED
  BY <1>1, <1>2, <1>6, <1>7, DecodedKeeps DEF DecodeChar

LEMMA DecodeEscapeKeeps ==
  ASSUME IInv, DecodeEscape, UNCHANGED Rest
  PROVE  IInv'
<1> DEFINE k == input_pointer - offset
           n == Len(skipped)
<1>1. sPc = "decode" /\ input_pointer < input_end
  BY DEF DecodeEscape
<1>2. /\ k \in 1..(n - 1) /\ n = input_end - offset /\ n \in Nat
      /\ \A i \in 1..(n - 1) : skipped[i + 1] <= skipped[i] + 1
      /\ \A i \in 1..(n - 2) : skipped[i + 2] <= skipped[i] + 1
      /\ \A i \in 1..n : skipped[i] \in Nat
      /\ room = n - skipped[n] + 1
      /\ Len(output) + skipped[k] <= k - 1
      /\ Len(output) \in Nat /\ output \in Seq(Bytes)
      /\ offset \in Nat /\ input_pointer \in Nat /\ input_end \in Nat
  BY <1>1, Decoding
<1>3. output' \in Seq(Bytes) /\ Len(output') = Len(output) + 1 /\ input_pointer' = input_pointer + 2
  BY <1>2, EscapesRange DEF DecodeEscape
<1>4. Fits(input_pointer', output')
  <2>1. CASE k <= n - 2
    <3>1. input_pointer' <= input_end /\ input_pointer' - offset = k + 2
      BY <1>2, <1>3, <2>1
    <3> HIDE DEF k, n
    <3>2. k \in 1..(n - 2) /\ k \in 1..n /\ k + 2 \in 1..n
      BY <1>2, <2>1
    <3>3. skipped[k + 2] <= skipped[k] + 1 /\ skipped[k + 2] \in Nat /\ skipped[k] \in Nat
      BY <1>2, <3>2
    <3>4. Len(output') + skipped[k + 2] <= (k + 2) - 1
      BY <1>2, <1>3, <3>3, SMTT(20)
    <3> QED
      BY <3>1, <3>4 DEF Fits
  <2>2. CASE k = n - 1
    <3>1. input_pointer' = input_end + 1
      BY <1>2, <1>3, <2>2
    <3> HIDE DEF k, n
    <3>2. k \in 1..n /\ k + 1 = n /\ n \in 1..n /\ k \in 1..(n - 1)
      BY <1>2, <2>2
    <3>3. skipped[n] <= skipped[k] + 1 /\ skipped[n] \in Nat /\ skipped[k] \in Nat
      BY <1>2, <3>2
    <3>4. Len(output') < room
      BY <1>2, <1>3, <3>2, <3>3, SMTT(20)
    <3> QED
      BY <3>1, <3>4 DEF Fits
  <2> QED
    BY <1>2, <2>1, <2>2
<1> QED
  BY <1>1, <1>2, <1>3, <1>4, DecodedKeeps DEF DecodeEscape

LEMMA DecodeLiteralKeeps ==
  ASSUME IInv, DecodeLiteral, UNCHANGED Rest
  PROVE  IInv'
<1> DEFINE k == input_pointer - offset
           n == Len(skipped)
           literal == utf16_literal_to_utf8(input_pointer)
<1>1. sPc = "decode" /\ input_pointer < input_end
  BY DEF DecodeLiteral
<1>2. /\ k \in 1..(n - 1) /\ n = input_end - offset /\ n \in Nat
      /\ \A i \in 1..(n - 2) : skipped[i + 2] <= skipped[i] + 1
      /\ \A i \in 1..n : skipped[i] \in Nat
      /\ Len(output) + skipped[k] <= k - 1
      /\ Len(output) \in Nat /\ output \in Seq(Bytes)
      /\ offset \in Nat /\ input_pointer \in Nat /\ input_end \in Nat
  BY <1>1, Decoding
<1>3. /\ literal.bytes \in Seq(Bytes)
      /\ \/ literal.length = 6 /\ Len(literal.bytes) \in 1..3
         \/ literal.length = 12 /\ Len(literal.bytes) \in 1..4
      /\ input_pointer + literal.length <= input_end
      /\ output' = output \o literal.bytes /\ input_pointer' = input_pointer + literal.length
  <2>1. literal # NoLiteral
    BY DEF DecodeLiteral, NoLiteral
  <2> QED
    BY <1>2, <2>1, LiteralBytes DEF DecodeLiteral
<1> HIDE DEF literal
<1>4. /\ output' \in Seq(Bytes) /\ Len(output') = Len(output) + Len(literal.bytes)
      /\ input_pointer' \in Nat /\ input_pointer' >= input_pointer
      /\ literal.length \in {6, 12} /\ Len(literal.bytes) \in Nat
  <2>1. output' \in Seq(Bytes) /\ Len(output') = Len(output) + Len(literal.bytes)
    BY <1>2, <1>3, SMT
  <2>2. literal.length \in {6, 12} /\ Len(literal.bytes) \in Nat
    BY <1>3, SMT
  <2>3. input_pointer' \in Nat /\ input_pointer' >= input_pointer
    <3> HIDE DEF n, k
    <3> QED
      BY <1>2, <1>3, <2>2, SMTT(20)
  <2> QED
    BY <2>1, <2>2, <2>3
<1>5. input_pointer' <= input_end /\ input_pointer' - offset = k + literal.length
  BY <1>2, <1>3, <1>4, SMTT(20)
<1>6. k + literal.length <= n /\ k \in Nat /\ k > 0
  BY <1>2, <1>3, <1>4, SMTT(20)
<1>61. n \in Nat
  BY <1>2
<1> HIDE DEF k, n
<1>7. k + 6 <= n => skipped[k + 6] <= skipped[k] + 3
  <2> SUFFICES ASSUME k + 6 <= n PROVE skipped[k + 6] <= skipped[k] + 3
    OBVIOUS
  <2>1. \A i \in {k, k + 2, k + 4} : i \in 1..(n - 2) /\ i \in 1..n /\ i + 2 \in 1..n
    BY <1>61, <1>6
  <2>2. /\ skipped[k + 2] <= skipped[k] + 1 /\ skipped[(k + 2) + 2] <= skipped[k + 2] + 1
        /\ skipped[(k + 4) + 2] <= skipped[k + 4] + 1
    BY <1>2, <2>1
  <2>3. (k + 2) + 2 = k + 4 /\ (k + 4) + 2 = k + 6
    BY <1>6
  <2>4. skipped[k] \in Nat /\ skipped[k + 2] \in Nat /\ skipped[k + 4] \in Nat /\ skipped[(k + 4) + 2] \in Nat
    BY <1>2, <2>1
  <2> QED
    BY <2>2, <2>3, <2>4
<1>8. k + 12 <= n => skipped[k + 12] <= skipped[k] + 6
  <2> SUFFICES ASSUME k + 12 <= n PROVE skipped[k + 12] <= skipped[k] + 6
    OBVIOUS
  <2>0. /\ skipped[k + 6] <= skipped[k] + 3
    BY <1>2, <1>6, <1>7
  <2>1. \A i \in {k, k + 6, k + 8, k + 10} : i \in 1..(n - 2) /\ i \in 1..n /\ i + 2 \in 1..n
    BY <1>61, <1>6
  <2>2. /\ skipped[(k + 6) + 2] <= skipped[k + 6] + 1 /\ skipped[(k + 8) + 2] <= skipped[k + 8] + 1
        /\ skipped[(k + 10) + 2] <= skipped[k + 10] + 1
    BY <1>2, <2>1
  <2>3. (k + 6) + 2 = k + 8 /\ (k + 8) + 2 = k + 10 /\ (k + 10) + 2 = k + 12
    BY <1>6
  <2>4. /\ skipped[k] \in Nat /\ skipped[k + 6] \in Nat /\ skipped[k + 8] \in Nat
        /\ skipped[k + 10] \in Nat /\ skipped[(k + 10) + 2] \in Nat
    BY <1>2, <2>1
  <2> QED
    BY <2>0, <2>2, <2>3, <2>4
<1>9. Len(output') + skipped[k + literal.length] <= (k + literal.length) - 1
  <2>1. k \in 1..n /\ k + literal.length \in 1..n
    <3>1. literal.length \in Nat
      BY <1>4
    <3> QED
      BY <3>1, <1>6, <1>61
  <2>2. skipped[k] \in Nat /\ skipped[k + literal.length] \in Nat
    BY <1>2, <2>1
  <2>3. Len(output) + skipped[k] <= k - 1 /\ Len(output) \in Nat
    BY <1>2
  <2>4. CASE literal.length = 6 /\ Len(literal.bytes) \in 1..3
    <3>0. k + literal.length = k + 6 /\ k + 6 <= n
      <4>1. literal.length = 6
        BY <2>4
      <4> QED
        BY <4>1, <1>6
    <3>1. skipped[k + 6] <= skipped[k] + 3 /\ skipped[k + 6] \in Nat
      BY <1>7, <2>2, <3>0
    <3>2. Len(output') + skipped[k + 6] <= (k + 6) - 1
      <4> DEFINE w == Len(literal.bytes)
                 x == skipped[k + 6]
                 y == skipped[k]
                 z == Len(output)
      <4>1. w \in 1..3 /\ Len(output') = z + w
        BY <1>4, <2>4
      <4>2. x <= y + 3 /\ x \in Nat /\ y \in Nat /\ z \in Nat /\ z + y <= k - 1 /\ k \in Nat
        BY <1>6, <2>2, <2>3, <3>1
      <4> HIDE DEF w, x, y, z
      <4>3. z + w + x <= (k + 6) - 1
        BY <4>1, <4>2
      <4> QED
        BY <4>1, <4>3 DEF x
    <3> QED
      BY <2>4, <3>2
  <2>5. CASE literal.length = 12 /\ Len(literal.bytes) \in 1..4
    <3>0. k + literal.length = k + 12 /\ k + 12 <= n
      <4>1. literal.length = 12
        BY <2>5
      <4> QED
        BY <4>1, <1>6
    <3>1. skipped[k + 12] <= skipped[k] + 6 /\ skipped[k + 12] \in Nat
      BY <1>8, <2>2, <3>0
    <3>2. Len(output') + skipped[k + 12] <= (k + 12) - 1
      <4> DEFINE w == Len(literal.bytes)
                 x == skipped[k + 12]
                 y == skipped[k]
                 z == Len(output)
      <4>1. w \in 1..4 /\ Len(output') = z + w
        BY <1>4, <2>5
      <4>2. x <= y + 6 /\ x \in Nat /\ y \in Nat /\ z \in Nat /\ z + y <= k - 1 /\ k \in Nat
        BY <1>6, <2>2, <2>3, <3>1
      <4> HIDE DEF w, x, y, z
      <4>3. z + w + x <= (k + 12) - 1
        BY <4>1, <4>2
      <4> QED
        BY <4>1, <4>3 DEF x
    <3> QED
      BY <2>5, <3>2
  <2> QED
    BY <1>3, <2>4, <2>5
<1>10. Fits(input_pointer', output')
  BY <1>5, <1>9 DEF Fits
<1> QED
  BY <1>1, <1>4, <1>10, DecodedKeeps DEF DecodeLiteral

LEMMA DecodeFailsKeeps ==
  ASSUME IInv, DecodeFails, UNCHANGED Rest
  PROVE  IInv'
<1> USE DEF IInv, Rest, callVars, endVars
<1>1. /\ sPc = "decode" /\ input_pointer < input_end /\ sPc' = "fail"
      /\ UNCHANGED <<offset, heap, refused, input_pointer, input_end, skipped, room, output>>
  BY DEF DecodeFails
<1>2. ParserTypeOK'
  BY <1>1 DEF ParserTypeOK
<1>3. ControlInv'
  BY <1>1 DEF ControlInv
<1>4. StringInv'
  BY <1>1 DEF StringInv, ParserTypeOK
<1> QED
  BY <1>2, <1>3, <1>4

LEMMA StringParsedKeeps ==
  ASSUME IInv, StringParsed, UNCHANGED Rest
  PROVE  IInv'
<1> USE DEF IInv, Rest, callVars, endVars
<1>1. /\ sPc = "decode" /\ sPc' = "ok" /\ offset' = input_end + 1
      /\ heap' = [heap EXCEPT ![item].type = "String", ![item].valuestring = output]
      /\ UNCHANGED <<strings, refused, input_pointer, input_end, skipped, room, output>>
      /\ input_end \in Nat /\ Len(content) \in Nat /\ input_end < Len(content)
      /\ output \in Seq(Bytes) /\ offset' \in Nat /\ offset' <= Len(content)
  BY DEF StringParsed, StringInv, ParserTypeOK
<1>2. DOMAIN heap' = DOMAIN heap /\ \A n \in DOMAIN heap : heap'[n] \in Node
  <2>1. \A n \in DOMAIN heap : heap[n] \in Node
    BY DEF ParserTypeOK
  <2> QED
    BY <1>1, <2>1 DEF Node
<1>3. ParserTypeOK'
  BY <1>1, <1>2 DEF ParserTypeOK
<1>4. ControlInv'
  BY <1>1 DEF ControlInv
<1>5. StringInv'
  BY <1>1, FitsIsRoom DEF StringInv
<1> QED
  BY <1>3, <1>4, <1>5

LEMMA StringFailedKeeps ==
  ASSUME IInv, StringFailed, UNCHANGED Rest
  PROVE  IInv'
<1> USE DEF IInv, Rest, callVars, endVars, heapVars
<1>1. /\ sPc = "fail" /\ sPc' = "failed" /\ offset' = input_pointer
      /\ UNCHANGED <<heap, strings, refused, input_pointer, input_end, skipped, room, output>>
      /\ input_pointer \in Nat /\ input_pointer <= Len(content)
  BY DEF StringFailed, StringInv, ParserTypeOK
<1>2. ParserTypeOK'
  BY <1>1 DEF ParserTypeOK
<1>3. ControlInv'
  BY <1>1 DEF ControlInv
<1>4. StringInv'
  BY <1>1 DEF StringInv
<1> QED
  BY <1>2, <1>3, <1>4

-----------------------------------------------------------------------------
(* The steps of the parser.                                                *)

HeapOK(h) == DOMAIN h \subseteq Nodes /\ \A n \in DOMAIN h : h[n] \in Node

LEMMA BlankTyped == Blank \in Node /\ \A a \in Address : [Blank EXCEPT !.prev = a] \in Node
BY DEF Blank, Node, Address

LEMMA WithTyped ==
  ASSUME NEW h, HeapOK(h), NEW n \in Nodes, NEW node \in Node
  PROVE  HeapOK(With(h, n, node))
BY DEF HeapOK, With

LEMMA TypeTyped ==
  ASSUME NEW h, HeapOK(h), NEW n,
         NEW t \in {"Invalid", "Number", "String", "Array", "Object"} \cup DOMAIN Literals
  PROVE  HeapOK([h EXCEPT ![n].type = t])
BY DEF HeapOK, Node

LEMMA FreshNode ==
  ASSUME Unused # {}
  PROVE  Fresh \in Nodes /\ Fresh # NULL
BY NodesAssumption DEF Fresh, Unused

(* Between two strings, the string's variables matter to nobody.           *)
LEMMA OutsideStrings ==
  ASSUME IInv, pc \notin {"string", "name"}, UNCHANGED <<content, require, stringVars>>,
         HeapOK(heap'), refused' \in BOOLEAN, item' \in Address, root' \in Address,
         depth' \in Nat, stack' \in Seq(Call), offset' \in Nat, parse_end' \in Nat,
         pc' \in {"start", "value", "string", "element", "name", "after", "parsed", "fail",
                  "done", "extracted"},
         ControlInv'
  PROVE  IInv'
<1>1. sPc' = "idle"
  BY DEF IInv, ControlInv, stringVars
<1>2. StringInv'
  BY <1>1 DEF StringInv
<1>3. ParserTypeOK'
  BY DEF IInv, ParserTypeOK, HeapOK, stringVars
<1> QED
  BY <1>2, <1>3 DEF IInv

(* What every step may use.                                                *)
LEMMA Known ==
  ASSUME IInv
  PROVE  /\ Text /\ Len(content) \in Nat /\ offset \in 0..Len(content)
         /\ HeapOK(heap) /\ refused \in BOOLEAN /\ item \in Address /\ root \in Address
         /\ depth \in Nat /\ stack \in Seq(Call) /\ Len(stack) \in Nat /\ parse_end \in Nat
         /\ Len(stack) <= NestingLimit
         /\ stack # <<>> => /\ top \in Call /\ Pop \in Seq(Call) /\ Len(Pop) = Len(stack) - 1
                            /\ Len(stack) > 0
         /\ stack = <<>> => Len(stack) = 0
<1>1. /\ Text /\ Len(content) \in Nat /\ offset \in 0..Len(content)
      /\ HeapOK(heap) /\ refused \in BOOLEAN /\ item \in Address /\ root \in Address
      /\ depth \in Nat /\ stack \in Seq(Call) /\ Len(stack) \in Nat /\ parse_end \in Nat
      /\ Len(stack) <= NestingLimit
  BY DEF IInv, ParserTypeOK, ControlInv, HeapOK, Text
<1>2. ASSUME stack # <<>>
      PROVE  /\ top \in Call /\ Len(stack) > 0
             /\ Pop \in Seq(Call) /\ Len(Pop) = Len(stack) - 1
  <2>1. Len(stack) > 0 /\ top \in Call
    BY <1>1, <1>2 DEF top
  <2>2. Len(stack) - 1 \in 0..Len(stack)
    BY <1>1, <2>1
  <2>3. Pop \in Seq(Call) /\ Len(Pop) = Len(stack) - 1
    <3> DEFINE m == Len(stack) - 1
    <3>1. 1 \in Int /\ m \in Int /\ m >= 0 /\ \A i \in 1..m : stack[i] \in Call
      BY <1>1, <2>2
    <3>2. Pop = SubSeq(stack, 1, m)
      BY DEF Pop
    <3> HIDE DEF m, Call
    <3>3. Pop \in Seq(Call) /\ Len(Pop) = IF 1 <= m THEN m - 1 + 1 ELSE 0
      BY <3>1, <3>2, SubSeqProperties
    <3>4. Len(Pop) = m
      BY <3>1, <3>3
    <3> QED
      BY <3>3, <3>4 DEF m
  <2> QED
    BY <2>1, <2>3
<1> QED
  BY <1>1, <1>2

LEMMA StartKeeps ==
  ASSUME IInv, Start, UNCHANGED <<content, require>>
  PROVE  IInv'
<1>1. /\ pc = "start" /\ pc' = "value" /\ Fresh \in Nodes /\ Fresh # NULL /\ item' = Fresh /\ root' = Fresh
      /\ content # <<>> /\ UNCHANGED <<stringVars, refused, depth, stack, parse_end>>
      /\ heap' = With(heap, Fresh, Blank) /\ offset' = buffer_skip_whitespace(skip_utf8_bom)
  BY FreshNode DEF Start, callVars
<1>2. offset' \in 0..Len(content)
  <2>1. Text /\ Len(content) \in Nat
    BY Known
  <2>2. skip_utf8_bom \in 0..Len(content)
    BY <2>1, BomIsShort
  <2>3. buffer_skip_whitespace(skip_utf8_bom) \in skip_utf8_bom..Len(content)
    BY <2>1, <2>2, SkipStays
  <2> HIDE DEF buffer_skip_whitespace
  <2> QED
    BY <1>1, <2>1, <2>2, <2>3
<1>3. HeapOK(heap')
  BY <1>1, Known, WithTyped, BlankTyped
<1>4. ControlInv'
  <2>1. sPc = "idle" /\ sPc' = "idle"
    BY <1>1 DEF IInv, ControlInv, stringVars
  <2> QED
    BY <1>1, <1>2, <2>1, Known DEF IInv, ControlInv
<1> QED
  BY <1>1, <1>2, <1>3, <1>4, Known, OutsideStrings DEF Address

(* The offset, the calls and the tree stay, and what is next is an error.  *)
LEMMA GivesUp ==
  ASSUME IInv, pc \notin {"string", "name"}, pc' = "fail", refused' \in BOOLEAN,
         UNCHANGED <<content, require, offset, heap, stringVars, item, callVars, endVars>>
  PROVE  IInv'
<1>1. UNCHANGED <<content, require, offset, heap, sPc, item, depth, stack, root, parse_end>>
  BY DEF stringVars, callVars, endVars
<1>2. ControlInv'
  BY <1>1 DEF IInv, ControlInv
<1> QED
  BY <1>1, <1>2, Known, OutsideStrings

LEMMA GivingUpKeeps ==
  ASSUME IInv, UNCHANGED <<content, require>>,
         \/ NoStart \/ ParseNoNumber \/ ParseNothing \/ NoElement
         \/ \E kind \in DOMAIN OpenOf : TooDeep(kind)
  PROVE  IInv'
<1>1. pc \in {"start", "value", "element"} /\ pc' = "fail"
  BY DEF NoStart, ParseNoNumber, ParseNothing, NoElement, TooDeep, Opening
<1>2. UNCHANGED <<offset, heap, stringVars, item, callVars, endVars>>
  BY DEF NoStart, ParseNoNumber, ParseNothing, NoElement, TooDeep, heapVars
<1>3. refused' \in BOOLEAN
  BY Known DEF NoStart, ParseNoNumber, ParseNothing, NoElement, TooDeep, heapVars
<1> QED
  BY <1>1, <1>2, <1>3, GivesUp

(* A value was read, and the caller goes on.                               *)
LEMMA ValueRead ==
  ASSUME IInv, pc = "value", pc' = Returned(stack),
         HeapOK(heap'), refused' = refused, offset' \in 0..Len(content),
         UNCHANGED <<content, require, stringVars, item, callVars, endVars>>
  PROVE  IInv'
<1>1. UNCHANGED <<content, sPc, item, depth, stack, root, parse_end>>
  BY DEF stringVars, callVars, endVars
<1>2. pc' \in {"after", "parsed"} /\ (pc' = "after" => stack # <<>>)
  BY DEF Returned
<1>3. ControlInv'
  BY <1>1, <1>2, Known DEF IInv, ControlInv
<1> QED
  BY <1>1, <1>2, <1>3, Known, OutsideStrings

LEMMA ParseLiteralKeeps ==
  ASSUME IInv, ParseLiteral, UNCHANGED <<content, require>>
  PROVE  IInv'
<1>1. PICK t \in DOMAIN Literals :
         /\ WordAt(offset, Literals[t])
         /\ heap' = [heap EXCEPT ![item].type = t]
         /\ offset' = offset + Len(Literals[t])
  BY DEF ParseLiteral
<1>2. HeapOK(heap')
  BY <1>1, Known, TypeTyped
<1>3. Len(Literals[t]) \in Nat
  BY DEF Literals
<1>4. offset' \in 0..Len(content)
  BY <1>1, <1>3, Known DEF WordAt
<1> QED
  BY <1>2, <1>4, ValueRead DEF ParseLiteral

LEMMA ParseNumberKeeps ==
  ASSUME IInv, ParseNumber, UNCHANGED <<content, require>>
  PROVE  IInv'
<1>1. NumberLength(offset) \in 0..(Len(content) - offset)
  BY Known, NumberStays
<1>2. HeapOK(heap')
  BY Known, TypeTyped DEF ParseNumber
<1>3. offset' \in 0..Len(content)
  BY <1>1, Known DEF ParseNumber
<1> QED
  BY <1>2, <1>3, ValueRead DEF ParseNumber

(* Skipping behind a byte.                                                 *)
LEMMA SkipBehind ==
  ASSUME IInv, offset < Len(content)
  PROVE  /\ buffer_skip_whitespace(offset + 1) \in (offset + 1)..Len(content)
         /\ Readable(offset + 1) => buffer_skip_whitespace(offset + 1) < Len(content)
<1>1. Text /\ offset + 1 \in 0..Len(content)
  BY Known
<1> QED
  BY <1>1, SkipStays DEF Readable

LEMMA OpenEmptyKeeps ==
  ASSUME IInv, NEW kind \in DOMAIN OpenOf, OpenEmpty(kind), UNCHANGED <<content, require>>
  PROVE  IInv'
<1>1. /\ pc = "value" /\ offset < Len(content) /\ Behind < Len(content) /\ offset' = Behind + 1
      /\ pc' = Returned(stack) /\ heap' = [heap EXCEPT ![item].type = kind] /\ refused' = refused
      /\ UNCHANGED <<stringVars, item, callVars, endVars>>
  BY DEF OpenEmpty, Opening, ByteIs, Readable, EmptyList, callVars
<1>2. Behind \in (offset + 1)..Len(content)
  BY <1>1, SkipBehind DEF Behind
<1>3. offset' \in 0..Len(content)
  BY <1>1, <1>2, Known
<1>4. kind \in {"Array", "Object"}
  BY DEF OpenOf
<1>5. HeapOK(heap')
  BY <1>1, <1>4, Known, TypeTyped
<1> QED
  BY <1>1, <1>3, <1>5, ValueRead

LEMMA OpenListKeeps ==
  ASSUME IInv, NEW kind \in DOMAIN OpenOf, OpenList(kind), UNCHANGED <<content, require>>
  PROVE  IInv'
<1>1. /\ pc = "value" /\ offset < Len(content) /\ offset' = Behind - 1
      /\ depth < NestingLimit /\ depth' = depth + 1 /\ depth = Len(stack) /\ item \in Nodes
      /\ UNCHANGED <<content, heap, refused, stringVars, item, root, parse_end>>
  BY DEF OpenList, Opening, ByteIs, Readable, heapVars, endVars, IInv, ControlInv
<1>2. Behind \in (offset + 1)..Len(content)
  BY <1>1, SkipBehind DEF Behind
<1>3. offset' \in 0..Len(content)
  BY <1>1, <1>2, Known
<1>4. sPc = "idle" /\ sPc' = "idle"
  BY <1>1 DEF IInv, ControlInv, stringVars
<1>5. CASE ~Readable(Behind)
  <2>1. pc' = "fail" /\ stack' = stack
    BY <1>5 DEF OpenList
  <2>2. ControlInv'
    BY <1>1, <1>3, <1>4, <2>1, Known DEF ControlInv
  <2> QED
    BY <1>1, <1>3, <2>1, <2>2, Known, OutsideStrings
<1>6. CASE Readable(Behind)
  <2> DEFINE call == [item |-> item, kind |-> kind, head |-> NULL, current |-> NULL]
  <2>1. pc' = "element" /\ stack' = Append(stack, call)
    BY <1>6 DEF OpenList
  <2>2. call \in Call
    BY <1>1 DEF Call, Address
  <2>3. stack' \in Seq(Call) /\ Len(stack') = Len(stack) + 1 /\ stack' # <<>>
    <3>1. stack \in Seq(Call)
      BY Known
    <3> HIDE DEF call
    <3> QED
      BY <2>1, <2>2, <3>1
  <2>4. offset' < Len(content)
    BY <1>1, <1>2, <1>6, Known DEF Readable
  <2>5. ControlInv'
    BY <1>1, <1>3, <1>4, <2>1, <2>3, <2>4, Known, LimitAssumption DEF IInv, ControlInv
  <2> QED
    BY <1>1, <1>3, <2>1, <2>3, <2>5, Known, OutsideStrings
<1> QED
  BY <1>5, <1>6

(* A list that grows stays a list of nodes.                                *)
LEMMA Attaching ==
  ASSUME IInv, pc = "element", AttachElement
  PROVE  /\ HeapOK(heap') /\ item' \in Nodes
         /\ stack' \in Seq(Call) /\ Len(stack') = Len(stack) /\ stack' # <<>>
<1>1. /\ Fresh \in Nodes /\ item' = Fresh /\ heap' = Attached(Fresh) /\ stack' = WithElement(Fresh)
      /\ stack # <<>>
  BY FreshNode DEF AttachElement, IInv, ControlInv
<1>2. top \in Call /\ HeapOK(heap) /\ stack \in Seq(Call) /\ Len(stack) > 0 /\ Len(stack) \in Nat
  BY <1>1, Known
<1>3. HeapOK(heap')
  <2>1. CASE top.head = NULL
    BY <1>1, <1>2, <2>1, WithTyped, BlankTyped DEF Attached
  <2>2. CASE top.head # NULL
    <3> DEFINE h == [heap EXCEPT ![top.current].next = Fresh]
               node == [Blank EXCEPT !.prev = top.current]
    <3>1. HeapOK(h)
      BY <1>1, <1>2, SMTT(20) DEF HeapOK, Node, Address
    <3>2. node \in Node
      BY <1>2, BlankTyped DEF Call
    <3>3. heap' = With(h, Fresh, node)
      BY <1>1, <2>2 DEF Attached
    <3> HIDE DEF h, node
    <3> QED
      BY <1>1, <3>1, <3>2, <3>3, WithTyped
  <2> QED
    BY <2>1, <2>2
<1>4. stack' \in Seq(Call) /\ Len(stack') = Len(stack)
  <2> DEFINE call == [top EXCEPT !.current = Fresh, !.head = IF @ = NULL THEN Fresh ELSE @]
  <2>1. call \in Call
    BY <1>1, <1>2 DEF Call, Address
  <2>2. stack' = [stack EXCEPT ![Len(stack)] = call]
    BY <1>1, <1>2 DEF WithElement, top
  <2> HIDE DEF call
  <2> QED
    BY <1>2, <2>1, <2>2
<1> QED
  BY <1>1, <1>2, <1>3, <1>4

LEMMA ArrayElementKeeps ==
  ASSUME IInv, ArrayElement, UNCHANGED <<content, require>>
  PROVE  IInv'
<1>1. /\ pc = "element" /\ AttachElement /\ pc' = "value" /\ offset < Len(content) /\ root # NULL
      /\ UNCHANGED <<content, refused, stringVars, depth, root, parse_end>>
      /\ offset' = buffer_skip_whitespace(offset + 1) /\ depth = Len(stack)
  BY DEF ArrayElement, endVars, IInv, ControlInv
<1>2. offset' \in 0..Len(content)
  BY <1>1, SkipBehind, Known
<1>3. sPc = "idle" /\ sPc' = "idle"
  BY <1>1 DEF IInv, ControlInv, stringVars
<1>4. /\ HeapOK(heap') /\ item' \in Nodes
      /\ stack' \in Seq(Call) /\ Len(stack') = Len(stack) /\ stack' # <<>>
  BY <1>1, Attaching
<1>5. ControlInv'
  BY <1>1, <1>2, <1>3, <1>4, Known DEF ControlInv
<1> QED
  BY <1>1, <1>2, <1>4, <1>5, Known, OutsideStrings DEF Address

(* The first byte of a string was looked at.                               *)
LEMMA StringBegins ==
  ASSUME Text, NEW o \in Nat, o < Len(content), parse_string(o), content' = content
  PROVE  /\ StringInv' /\ sPc' \in {"scan", "fail"} /\ offset' = o
         /\ input_pointer' \in Nat /\ input_end' \in Nat /\ room' \in Nat
         /\ skipped' \in Seq(Nat) /\ skipped' # <<>> /\ output' \in Seq(Bytes)
<1>1. /\ sPc' \in {"scan", "fail"} /\ offset' = o /\ input_pointer' = o + 1 /\ input_end' = o + 1
      /\ skipped' = <<0>> /\ room' = 0 /\ output' = <<>> /\ Len(content) \in Nat
  BY DEF parse_string, Text
<1>2. Len(skipped') = 1 /\ skipped'[1] = 0 /\ skipped' \in Seq(Nat) /\ skipped' # <<>>
  BY <1>1
<1>3. Counts(skipped', Escaped') /\ Steady(skipped')
  BY <1>2 DEF Counts, Steady
<1>4. ScanInv'
  BY <1>1, <1>2, <1>3 DEF ScanInv
<1>5. StringInv'
  BY <1>1, <1>3, <1>4 DEF StringInv
<1> QED
  BY <1>1, <1>2, <1>5

LEMMA ObjectMemberKeeps ==
  ASSUME IInv, ObjectMember, UNCHANGED <<content, require>>
  PROVE  IInv'
<1>1. /\ pc = "element" /\ AttachElement /\ offset < Len(content) /\ root # NULL
      /\ UNCHANGED <<content, require, strings, refused, depth, root, parse_end>> /\ depth = Len(stack)
  BY DEF ObjectMember, endVars, IInv, ControlInv
<1>2. /\ HeapOK(heap') /\ item' \in Nodes
      /\ stack' \in Seq(Call) /\ Len(stack') = Len(stack) /\ stack' # <<>>
  BY <1>1, Attaching
<1>3. CASE Readable(offset + 1)
  <2> DEFINE o == buffer_skip_whitespace(offset + 1)
  <2>1. parse_string(o) /\ pc' = "name"
    BY <1>3 DEF ObjectMember
  <2>2. o \in Nat /\ o < Len(content) /\ Text /\ Len(content) \in Nat
    BY <1>1, <1>3, SkipBehind, Known
  <2> HIDE DEF o
  <2>3. /\ StringInv' /\ sPc' \in {"scan", "fail"} /\ offset' = o
        /\ input_pointer' \in Nat /\ input_end' \in Nat /\ room' \in Nat
        /\ skipped' \in Seq(Nat) /\ skipped' # <<>> /\ output' \in Seq(Bytes)
    BY <1>1, <2>1, <2>2, StringBegins
  <2>4. ControlInv'
    BY <1>1, <1>2, <2>1, <2>2, <2>3, Known, SMTT(20) DEF ControlInv
  <2>5. ParserTypeOK'
    BY <1>1, <1>2, <2>1, <2>2, <2>3 DEF IInv, ParserTypeOK, HeapOK, Address
  <2> QED
    BY <2>3, <2>4, <2>5 DEF IInv
<1>4. CASE ~Readable(offset + 1)
  <2>1. pc' = "fail" /\ UNCHANGED <<offset, stringVars>>
    BY <1>4 DEF ObjectMember
  <2>2. sPc = "idle" /\ sPc' = "idle"
    BY <1>1, <2>1 DEF IInv, ControlInv, stringVars
  <2>3. ControlInv'
    BY <1>1, <1>2, <2>1, <2>2, Known DEF ControlInv
  <2> QED
    BY <1>1, <1>2, <2>1, <2>3, Known, OutsideStrings DEF Address
<1> QED
  BY <1>3, <1>4

LEMMA ParseStringValueKeeps ==
  ASSUME IInv, ParseStringValue, UNCHANGED <<content, require>>
  PROVE  IInv'
<1>1. /\ pc = "value" /\ parse_string(offset) /\ pc' = "string" /\ offset < Len(content)
      /\ UNCHANGED <<content, require, heap, strings, refused, item, depth, stack, root, parse_end>>
  BY DEF ParseStringValue, ByteIs, Readable, heapVars, callVars, endVars
<1>2. /\ StringInv' /\ sPc' \in {"scan", "fail"} /\ offset' = offset
      /\ input_pointer' \in Nat /\ input_end' \in Nat /\ room' \in Nat
      /\ skipped' \in Seq(Nat) /\ skipped' # <<>> /\ output' \in Seq(Bytes)
  BY <1>1, Known, StringBegins
<1>3. ControlInv'
  BY <1>1, <1>2 DEF IInv, ControlInv
<1>4. ParserTypeOK'
  BY <1>1, <1>2 DEF IInv, ParserTypeOK
<1> QED
  BY <1>2, <1>3, <1>4 DEF IInv

(* Back from parse_string.                                                 *)
LEMMA StringEnds ==
  ASSUME IInv, EndString, ControlInv', UNCHANGED <<content, require, refused, item, callVars, endVars>>,
         HeapOK(heap'), offset' \in Nat,
         pc' \in {"start", "value", "string", "element", "name", "after", "parsed", "fail",
                  "done", "extracted"}
  PROVE  IInv'
<1>1. sPc' = "idle" /\ UNCHANGED <<input_pointer, input_end, skipped, room, output>>
  BY DEF EndString
<1>2. StringInv'
  BY <1>1 DEF StringInv
<1>3. ParserTypeOK'
  BY <1>1 DEF IInv, ParserTypeOK, HeapOK, callVars, endVars
<1> QED
  BY <1>2, <1>3 DEF IInv

LEMMA StringReturnedKeeps ==
  ASSUME IInv, StringReturned, UNCHANGED <<content, require>>
  PROVE  IInv'
<1>1. /\ pc = "string" /\ sPc' = "idle" /\ EndString
      /\ UNCHANGED <<offset, content, heap, refused, item, depth, stack, root, parse_end>>
  BY DEF StringReturned, EndString, heapVars, callVars, endVars
<1>2. pc' \in {"after", "parsed", "fail"} /\ (pc' = "after" => stack # <<>>)
  BY DEF StringReturned, Returned
<1>3. ControlInv'
  BY <1>1, <1>2 DEF IInv, ControlInv
<1> QED
  BY <1>1, <1>2, <1>3, Known, StringEnds DEF callVars, endVars

LEMMA MemberNameKeeps ==
  ASSUME IInv, MemberName, UNCHANGED <<content, require>>
  PROVE  IInv'
<1> DEFINE o == buffer_skip_whitespace(offset)
<1>1. /\ pc = "name" /\ EndString /\ sPc' = "idle" /\ item \in Nodes
      /\ heap' = [heap EXCEPT ![item] = Named(@)]
      /\ UNCHANGED <<content, refused, item, depth, stack, root, parse_end>>
  BY DEF MemberName, EndString, callVars, endVars, IInv, ControlInv
<1>2. Text /\ o \in 0..Len(content) /\ Len(content) \in Nat
  <2>1. Text /\ Len(content) \in Nat /\ offset \in 0..Len(content)
    BY Known
  <2>2. o \in offset..Len(content)
    BY <2>1, SkipStays
  <2> HIDE DEF o
  <2> QED
    BY <2>1, <2>2
<1>3. HeapOK(heap')
  <2>1. HeapOK(heap)
    BY Known
  <2>2. \A m \in Node : Named(m) \in Node
    BY DEF Node, Named, Address
  <2>3. DOMAIN heap' = DOMAIN heap
    BY <1>1
  <2>4. \A m \in DOMAIN heap : heap'[m] = IF m = item THEN Named(heap[m]) ELSE heap[m]
    BY <1>1
  <2> QED
    BY <2>1, <2>2, <2>3, <2>4 DEF HeapOK
<1>4. pc' \in {"value", "fail"} /\ offset' \in 0..Len(content)
  <2>1. CASE ByteIs(o, Colon)
    <3>1. offset' = buffer_skip_whitespace(o + 1) /\ pc' = "value"
      BY <2>1 DEF MemberName
    <3>2. o + 1 \in 0..Len(content)
      BY <1>2, <2>1 DEF ByteIs, Readable
    <3> HIDE DEF o
    <3>3. buffer_skip_whitespace(o + 1) \in (o + 1)..Len(content)
      BY <1>2, <3>2, SkipStays
    <3> QED
      BY <1>2, <3>1, <3>3
  <2>2. CASE ~ByteIs(o, Colon)
    <3>1. offset' = o /\ pc' = "fail"
      BY <2>2 DEF MemberName
    <3> QED
      BY <1>2, <3>1
  <2> QED
    BY <2>1, <2>2
<1>5. ControlInv'
  BY <1>1, <1>2, <1>4 DEF IInv, ControlInv
<1> QED
  BY <1>1, <1>2, <1>3, <1>4, <1>5, StringEnds DEF callVars, endVars

LEMMA NoMemberNameKeeps ==
  ASSUME IInv, NoMemberName, UNCHANGED <<content, require>>
  PROVE  IInv'
<1>1. /\ pc = "name" /\ sPc' = "idle" /\ EndString /\ pc' = "fail"
      /\ UNCHANGED <<offset, content, heap, refused, item, depth, stack, root, parse_end>>
  BY DEF NoMemberName, EndString, heapVars, callVars, endVars
<1>2. ControlInv'
  BY <1>1 DEF IInv, ControlInv
<1> QED
  BY <1>1, <1>2, Known, StringEnds DEF callVars, endVars

(* Behind a value.                                                         *)
LEMMA AfterValueKeeps ==
  ASSUME IInv, AfterValue, UNCHANGED <<content, require>>
  PROVE  IInv'
<1>1. /\ pc = "after" /\ offset' = buffer_skip_whitespace(offset) /\ stack # <<>> /\ root # NULL
      /\ pc' = IF ByteIs(offset', Comma) THEN "element" ELSE "fail"
      /\ UNCHANGED <<content, heap, refused, stringVars, item, depth, stack, root, parse_end>>
  BY DEF AfterValue, heapVars, callVars, endVars, IInv, ControlInv
<1>2. offset' \in 0..Len(content)
  <2>1. Text /\ Len(content) \in Nat /\ offset \in 0..Len(content)
    BY Known
  <2>2. buffer_skip_whitespace(offset) \in offset..Len(content)
    BY <2>1, SkipStays
  <2> QED
    BY <1>1, <2>1, <2>2
<1>3. pc' = "element" => offset' < Len(content)
  BY <1>1 DEF ByteIs, Readable
<1>4. sPc = "idle" /\ sPc' = "idle"
  BY <1>1 DEF IInv, ControlInv, stringVars
<1>5. ControlInv'
  BY <1>1, <1>2, <1>3, <1>4 DEF IInv, ControlInv
<1> QED
  BY <1>1, <1>2, <1>5, Known, OutsideStrings

LEMMA CloseListKeeps ==
  ASSUME IInv, CloseList, UNCHANGED <<content, require>>
  PROVE  IInv'
<1> DEFINE o == buffer_skip_whitespace(offset)
<1>1. /\ pc = "after" /\ offset' = o + 1 /\ stack # <<>> /\ root # NULL /\ depth = Len(stack)
      /\ o < Len(content) /\ depth' = depth - 1 /\ stack' = Pop /\ heap' = ListClosed
      /\ pc' = Returned(Pop)
      /\ UNCHANGED <<content, refused, stringVars, item, root, parse_end>>
  BY DEF CloseList, ByteIs, Readable, endVars, IInv, ControlInv
<1>2. offset' \in 0..Len(content)
  <2>1. Text /\ Len(content) \in Nat /\ offset \in 0..Len(content)
    BY Known
  <2>2. o \in offset..Len(content)
    BY <2>1, SkipStays
  <2> HIDE DEF o
  <2> QED
    BY <1>1, <2>1, <2>2
<1>3. /\ Pop \in Seq(Call) /\ Len(Pop) = Len(stack) - 1 /\ Len(stack) \in Nat /\ Len(stack) > 0
      /\ Len(stack) <= NestingLimit /\ top \in Call /\ HeapOK(heap)
  BY <1>1, Known
<1>4. HeapOK(heap')
  <2>1. top.kind \in {"Array", "Object"} /\ top.head \in Address /\ top.current \in Address
    BY <1>3 DEF Call, OpenOf
  <2> DEFINE h1 == [heap EXCEPT ![top.head].prev = top.current]
             h2 == [h1 EXCEPT ![top.item].type = top.kind]
             h3 == [h2 EXCEPT ![top.item].child = top.head]
  <2>2. ListClosed = h3
    BY DEF ListClosed
  <2>3. HeapOK(h1)
    BY <1>3, <2>1, SMTT(20) DEF HeapOK, Node
  <2> HIDE DEF h1
  <2>4. HeapOK(h2)
    BY <2>1, <2>3, TypeTyped
  <2> HIDE DEF h2
  <2>5. HeapOK(h3)
    BY <2>1, <2>4 DEF HeapOK, Node
  <2> QED
    BY <1>1, <2>2, <2>5
<1>5. pc' \in {"after", "parsed"} /\ (pc' = "after" => stack' # <<>>)
  BY <1>1 DEF Returned
<1>6. sPc = "idle" /\ sPc' = "idle"
  BY <1>1 DEF IInv, ControlInv, stringVars
<1>7. ControlInv'
  BY <1>1, <1>2, <1>3, <1>5, <1>6, LimitAssumption DEF ControlInv
<1> QED
  BY <1>1, <1>2, <1>3, <1>4, <1>5, <1>7, Known, OutsideStrings

(* What is deleted is taken out, and the rest stays as it was.             *)
LEMMA DeleteTyped ==
  ASSUME NEW n, HeapOK(heap), cJSON_Delete(n)
  PROVE  HeapOK(heap')
<1>1. PICK S : heap' = Without(heap, S)
  BY DEF cJSON_Delete
<1> QED
  BY <1>1 DEF Without, HeapOK

LEMMA UnwindKeeps ==
  ASSUME IInv, Unwind, UNCHANGED <<content, require>>
  PROVE  IInv'
<1>1. /\ pc = "fail" /\ pc' = "fail" /\ stack # <<>> /\ stack' = Pop /\ cJSON_Delete(top.head)
      /\ UNCHANGED <<content, offset, refused, stringVars, item, depth, root, parse_end>>
  BY DEF Unwind, endVars
<1>2. HeapOK(heap')
  BY <1>1, Known, DeleteTyped
<1>3. /\ Pop \in Seq(Call) /\ Len(Pop) = Len(stack) - 1 /\ Len(stack) \in Nat
      /\ Len(stack) <= NestingLimit
  BY <1>1, Known
<1>4. sPc = "idle" /\ sPc' = "idle"
  BY <1>1 DEF IInv, ControlInv, stringVars
<1>5. ControlInv'
  BY <1>1, <1>3, <1>4, LimitAssumption DEF IInv, ControlInv
<1> QED
  BY <1>1, <1>2, <1>3, <1>5, Known, OutsideStrings

LEMMA ParsedKeeps ==
  ASSUME IInv, Parsed, UNCHANGED <<content, require>>
  PROVE  IInv'
<1>1. /\ pc = "parsed" /\ root # NULL
      /\ offset' = IF require THEN buffer_skip_whitespace(offset) ELSE offset
      /\ \/ pc' = "fail" /\ parse_end' = parse_end
         \/ pc' = "done" /\ parse_end' = offset'
      /\ UNCHANGED <<content, heap, refused, stringVars, item, depth, stack, root>>
  BY DEF Parsed, heapVars, callVars, IInv, ControlInv
<1>2. offset' \in 0..Len(content)
  <2>1. Text /\ Len(content) \in Nat /\ offset \in 0..Len(content)
    BY Known
  <2>2. buffer_skip_whitespace(offset) \in offset..Len(content)
    BY <2>1, SkipStays
  <2> QED
    BY <1>1, <2>1, <2>2
<1>3. sPc = "idle" /\ sPc' = "idle"
  BY <1>1 DEF IInv, ControlInv, stringVars
<1>4. ControlInv' /\ parse_end' \in Nat
  BY <1>1, <1>2, <1>3, Known DEF IInv, ControlInv
<1> QED
  BY <1>1, <1>2, <1>4, Known, OutsideStrings

LEMMA FailedKeeps ==
  ASSUME IInv, Failed, UNCHANGED <<content, require>>
  PROVE  IInv'
<1>1. /\ pc = "fail" /\ pc' = "done" /\ stack = <<>> /\ root' = NULL /\ cJSON_Delete(root)
      /\ parse_end' = IF Readable(offset) \/ content = <<>> THEN offset ELSE Len(content) - 1
      /\ UNCHANGED <<content, offset, refused, stringVars, item, depth, stack>>
  BY DEF Failed, callVars
<1>2. HeapOK(heap')
  BY <1>1, Known, DeleteTyped
<1>3. parse_end' \in Nat /\ (content # <<>> => parse_end' < Len(content))
  <2>1. Text /\ Len(content) \in Nat /\ offset \in 0..Len(content)
    BY Known
  <2>2. content # <<>> => Len(content) > 0
    BY <2>1 DEF Text
  <2> QED
    BY <1>1, <2>1, <2>2 DEF Readable
<1>4. sPc = "idle" /\ sPc' = "idle"
  BY <1>1 DEF IInv, ControlInv, stringVars
<1>5. ControlInv'
  BY <1>1, <1>3, <1>4 DEF IInv, ControlInv
<1> QED
  BY <1>1, <1>2, <1>3, <1>5, Known, OutsideStrings DEF Address

LEMMA StringRunsKeeps ==
  ASSUME IInv, StringRuns, UNCHANGED <<content, require>>
  PROVE  IInv'
<1>1. UNCHANGED Rest
  BY DEF StringRuns, StringStep, Rest
<1>2. \/ ScanChar \/ ScanEscape \/ AllocateOutput
      \/ DecodeChar \/ DecodeEscape \/ DecodeLiteral \/ DecodeFails
      \/ StringParsed \/ StringFailed
  BY DEF StringRuns, StringStep
<1> QED
  BY <1>1, <1>2, ScanCharKeeps, ScanEscapeKeeps, AllocateOutputKeeps, DecodeCharKeeps,
     DecodeEscapeKeeps, DecodeLiteralKeeps, DecodeFailsKeeps, StringParsedKeeps, StringFailedKeeps

-----------------------------------------------------------------------------
(* The steps of extract_first_key_field, and the theorems.                 *)

LEMMA ParserKeeps ==
  ASSUME IInv, ParserStep
  PROVE  IInv'
<1>1. UNCHANGED <<content, require>>
  BY DEF ParserStep
<1>2. CASE NoStart \/ ParseNoNumber \/ ParseNothing \/ NoElement
  BY <1>1, <1>2, GivingUpKeeps
<1>3. CASE OpenArray \/ OpenObject
  <2>1. PICK kind \in DOMAIN OpenOf : Open(kind)
    BY <1>3 DEF OpenArray, OpenObject, OpenOf
  <2> QED
    BY <1>1, <2>1, GivingUpKeeps, OpenEmptyKeeps, OpenListKeeps DEF Open
<1>4. CASE Start \/ ParseLiteral \/ ParseStringValue \/ StringReturned \/ ParseNumber
  BY <1>1, <1>4, StartKeeps, ParseLiteralKeeps, ParseStringValueKeeps, StringReturnedKeeps,
     ParseNumberKeeps
<1>5. CASE ArrayElement \/ ObjectMember \/ MemberName \/ NoMemberName \/ AfterValue \/ CloseList
  BY <1>1, <1>5, ArrayElementKeeps, ObjectMemberKeeps, MemberNameKeeps, NoMemberNameKeeps,
     AfterValueKeeps, CloseListKeeps
<1>6. CASE Unwind \/ Parsed \/ Failed \/ StringRuns
  BY <1>1, <1>6, UnwindKeeps, ParsedKeeps, FailedKeeps, StringRunsKeeps
<1> QED
  BY <1>2, <1>3, <1>4, <1>5, <1>6 DEF ParserStep

LEMMA ExtractKeeps ==
  ASSUME IInv, Extract
  PROVE  IInv'
<1>1. /\ pc = "done" /\ pc' = "extracted" /\ refused' \in BOOLEAN
      /\ UNCHANGED <<content, require, offset, stringVars, item, depth, stack, root, parse_end>>
  BY Known DEF Extract, bufferVars, callVars, endVars
<1>2. PICK S : heap' = Without(heap, S)
  BY DEF Extract
<1>3. HeapOK(heap')
  BY <1>2, Known DEF Without, HeapOK
<1>4. ControlInv'
  BY <1>1 DEF IInv, ControlInv, stringVars
<1> QED
  BY <1>1, <1>3, <1>4, Known, OutsideStrings

LEMMA NoTreeKeeps ==
  ASSUME IInv, NoTree
  PROVE  IInv'
<1>1. /\ pc = "done" /\ pc' = "extracted"
      /\ UNCHANGED <<content, require, offset, heap, refused, stringVars, item, depth, stack, root, parse_end>>
  BY DEF NoTree, bufferVars, heapVars, callVars, endVars
<1>2. ControlInv'
  BY <1>1 DEF IInv, ControlInv, stringVars
<1> QED
  BY <1>1, <1>2, Known, OutsideStrings

LEMMA StutterKeeps ==
  ASSUME IInv, UNCHANGED vars
  PROVE  IInv'
<1> USE DEF vars, parserVars, bufferVars, heapVars, stringVars
<1>1. ParserTypeOK'
  BY DEF IInv, ParserTypeOK
<1>2. ControlInv'
  BY DEF IInv, ControlInv
<1>3. StringInv'
  BY DEF IInv, StringInv, ScanInv, Counts, Steady, Escaped, Byte, Fits, skipped_bytes
<1> QED
  BY <1>1, <1>2, <1>3 DEF IInv

LEMMA InitInv == Init => IInv
<1> SUFFICES ASSUME Init PROVE IInv
  OBVIOUS
<1>1. /\ content \in Seq(Bytes) /\ offset = 0 /\ heap = <<>> /\ refused = FALSE /\ sPc = "idle"
      /\ item = NULL /\ root = NULL /\ input_pointer = 0 /\ input_end = 0 /\ skipped = <<0>>
      /\ room = 0 /\ output = <<>> /\ pc = "start" /\ depth = 0 /\ stack = <<>>
      /\ require \in BOOLEAN /\ parse_end = 0
  BY TextsAssumption DEF Init, ParserInit, BufferInit, HeapInit, StringInit, Bytes
<1>2. ParserTypeOK
  <2>1. DOMAIN heap = {}
    BY <1>1
  <2>2. /\ skipped \in Seq(Nat) /\ skipped # <<>>
        /\ output \in Seq(Bytes) /\ stack \in Seq(Call)
    BY <1>1
  <2> QED
    BY <1>1, <2>1, <2>2 DEF ParserTypeOK, Address
<1>3. ControlInv
  BY <1>1, LimitAssumption DEF ControlInv
<1>4. StringInv
  BY <1>1 DEF StringInv
<1> QED
  BY <1>2, <1>3, <1>4 DEF IInv

(* Every step of the program keeps the invariant.                          *)
LEMMA StepsKeep == IInv /\ [Next]_vars => IInv'
BY ParserKeeps, ExtractKeeps, NoTreeKeeps, StutterKeeps DEF Next, Parse, Ended

(* IInv, the inductive invariant, holds whatever the text, the nesting and  *)
(* the allocations refused (cJSON.c, handle_json.c:7-41): types, where the  *)
(* offset may be at each point, and the room left in the output.            *)
THEOREM Inductive == Spec => []IInv
BY InitInv, StepsKeep, PTL DEF Spec

(* Whatever the text and whatever allocation is refused, the variables and *)
(* every pointer of the parser have their types (ParserTypeOK).            *)
THEOREM ParserTypes == Spec => []ParserTypeOK
<1>1. IInv => ParserTypeOK
  BY DEF IInv
<1> QED
  BY <1>1, Inductive, PTL

(* parse_string never writes beyond what it allocated (OutputFits): the    *)
(* pass that counts escapes and the pass that decodes them agree.          *)
THEOREM OutputAlwaysFits == Spec => []OutputFits
<1>1. IInv => OutputFits
  BY FitsIsRoom DEF OutputFits, IInv, StringInv
<1> QED
  BY <1>1, Inductive, PTL

(* No function reads beyond the text it was given (ReadsStayInText), with  *)
(* or without a terminator.                                                *)
THEOREM ReadsAlwaysStay == Spec => []ReadsStayInText
<1>1. IInv => ReadsStayInText
  BY DEF ReadsStayInText, IInv, ControlInv, StringInv
<1> QED
  BY <1>1, Inductive, PTL

(* depth is the number of calls under way until one fails, and the calls   *)
(* never exceed the limit (DepthIsNesting).                                *)
THEOREM DepthIsAlwaysNesting == Spec => []DepthIsNesting
<1>1. IInv => DepthIsNesting
  BY DEF DepthIsNesting, IInv, ControlInv
<1> QED
  BY <1>1, Inductive, PTL

-----------------------------------------------------------------------------
(* Every step uses up something.                                           *)

(* Nothing was read before the parser starts, and no call is under way     *)
(* behind the root's value.                                                *)
EdgeInv ==
  /\ pc = "start" => offset = 0 /\ stack = <<>>
  /\ pc = "parsed" => stack = <<>>

LEMMA EdgesKeep ==
  ASSUME EdgeInv, [Next]_vars
  PROVE  EdgeInv'
<1> USE DEF EdgeInv
<1>1. CASE UNCHANGED vars
  BY <1>1 DEF vars, parserVars, bufferVars, callVars
<1>2. \A calls : Returned(calls) # "start" /\ (Returned(calls) = "parsed" => calls = <<>>)
  BY DEF Returned
<1>3. CASE ParseLiteral \/ ParseNumber \/ StringReturned
  BY <1>2, <1>3 DEF ParseLiteral, ParseNumber, StringReturned, callVars
<1>4. CASE CloseList
  BY <1>2, <1>4 DEF CloseList
<1>5. ASSUME NEW kind, Open(kind) PROVE EdgeInv'
  BY <1>2, <1>5 DEF Open, TooDeep, OpenEmpty, EmptyList, OpenList
<1>6. CASE \/ Start \/ NoStart \/ ParseStringValue \/ ParseNoNumber \/ ParseNothing
           \/ NoElement \/ ArrayElement \/ ObjectMember \/ MemberName \/ NoMemberName
           \/ AfterValue \/ Unwind \/ Parsed \/ Failed \/ StringRuns
           \/ Extract \/ NoTree
  <2>1. pc' \notin {"start", "parsed"}
    BY <1>6
    DEF Start, NoStart, ParseStringValue, ParseNoNumber, ParseNothing, NoElement,
        ArrayElement, ObjectMember, MemberName, NoMemberName, AfterValue, Unwind, Parsed,
        Failed, StringRuns, Extract, NoTree
  <2> QED
    BY <2>1
<1> QED
  BY <1>1, <1>3, <1>4, <1>5, <1>6
  DEF Next, Parse, ParserStep, OpenArray, OpenObject, Ended

(* What StepsLeft is at each place.                                        *)
StepsAt ==
  /\ pc = "start" => StepsLeft = TextLeft + 9
  /\ pc \in {"value", "after"} => StepsLeft = TextLeft + 8 + Len(stack)
  /\ pc = "element" => StepsLeft = TextLeft + 6 + Len(stack)
  /\ pc \in {"string", "name"} => StepsLeft = StringSteps + Len(stack)
  /\ pc = "parsed" => StepsLeft = TextLeft + 7
  /\ pc = "fail" => StepsLeft = 2 + Len(stack)
  /\ pc = "done" => StepsLeft = 1
  /\ pc = "extracted" => StepsLeft = 0
  /\ sPc = "scan" => StringSteps = TextLeft + 7 - (input_end - offset)
  /\ sPc = "decode" => StringSteps = TextLeft + 7 - (input_end - offset)
                                     - (input_pointer - offset)
  /\ sPc = "ok" => StringSteps = TextLeft + 9
  /\ sPc = "fail" => StringSteps = 4
  /\ sPc = "failed" => StringSteps = 3
  /\ TextLeft = 3 * (Len(content) - offset)

LEMMA StepsAtHolds == StepsAt
<1>1. /\ pc = "start" => StepsLeft = TextLeft + 9
      /\ pc \in {"value", "after"} => StepsLeft = TextLeft + 8 + Len(stack)
      /\ pc = "element" => StepsLeft = TextLeft + 6 + Len(stack)
      /\ pc \in {"string", "name"} => StepsLeft = StringSteps + Len(stack)
      /\ pc = "parsed" => StepsLeft = TextLeft + 7
      /\ pc = "fail" => StepsLeft = 2 + Len(stack)
      /\ pc = "done" => StepsLeft = 1
      /\ pc = "extracted" => StepsLeft = 0
  BY DEF StepsLeft
<1>2. /\ sPc = "scan" => StringSteps = TextLeft + 7 - (input_end - offset)
      /\ sPc = "decode" => StringSteps = TextLeft + 7 - (input_end - offset)
                                         - (input_pointer - offset)
      /\ sPc = "ok" => StringSteps = TextLeft + 9
      /\ sPc = "fail" => StringSteps = 4
      /\ sPc = "failed" => StringSteps = 3
  BY DEF StringSteps
<1> QED
  BY <1>1, <1>2 DEF StepsAt, TextLeft

LEMMA StepsAtNext == StepsAt'
BY StepsAtHolds, PTL

(* The step that begins a string.                                          *)
LEMMA StringBeginsDown ==
  ASSUME NEW o \in Nat, parse_string(o), content' = content, Len(content) \in Nat
  PROVE  /\ offset' = o
         /\ StringSteps' = 3 * (Len(content) - o) + 6 \/ StringSteps' = 4
<1>1. /\ offset' = o /\ input_pointer' = o + 1 /\ input_end' = o + 1
      /\ sPc' = "scan" \/ sPc' = "fail"
  BY DEF parse_string
<1>2. /\ (sPc' = "scan" => StringSteps' = TextLeft' + 7 - (input_end' - offset'))
      /\ (sPc' = "fail" => StringSteps' = 4)
      /\ TextLeft' = 3 * (Len(content) - o)
  BY <1>1, StepsAtNext DEF StepsAt
<1> QED
  BY <1>1, <1>2

(* What every step may use of the next state.                              *)
LEMMA KnownNext ==
  IInv' => offset' \in 0..Len(content') /\ Len(stack') \in Nat
<1> DEFINE P == offset \in 0..Len(content) /\ Len(stack) \in Nat
<1>1. IInv => P
  BY Known
<1> HIDE DEF P
<1>2. IInv' => P'
  BY <1>1, PTL
<1>3. P' => offset' \in 0..Len(content') /\ Len(stack') \in Nat
  BY DEF P
<1> QED
  BY <1>2, <1>3

(* Each place of parse_value, parse_array and parse_object.                *)
LEMMA CallsStepDown ==
  ASSUME IInv, EdgeInv, IInv', EdgeInv', ParserStep \/ Extract \/ NoTree, ~StringRuns
  PROVE  StepsLeft' < StepsLeft
<1>1. /\ Text /\ Len(content) \in Nat /\ offset \in 0..Len(content)
      /\ Len(stack) \in Nat /\ (stack = <<>> => Len(stack) = 0)
      /\ (stack # <<>> => Len(stack) > 0 /\ Len(Pop) = Len(stack) - 1)
      /\ content' = content
  BY Known DEF ParserStep, Extract, NoTree, bufferVars
<1>2. offset' \in 0..Len(content) /\ Len(stack') \in Nat
  BY <1>1, KnownNext
<1> DEFINE left == Len(content) - offset
           next == Len(content) - offset'
<1>3. /\ left \in Nat /\ next \in Nat
      /\ TextLeft = 3 * left /\ TextLeft' = 3 * next
  BY <1>1, <1>2, StepsAtHolds, StepsAtNext DEF StepsAt
<1>4. StepsAt /\ StepsAt'
  BY StepsAtHolds, StepsAtNext
<1>5. pc' = "fail" => StepsLeft' = 2 + Len(stack')
  BY <1>4 DEF StepsAt
<1>6. pc \in {"value", "after"} => StepsLeft = 3 * left + 8 + Len(stack)
  BY <1>3, <1>4 DEF StepsAt
<1>7. pc' \in {"value", "after"} => StepsLeft' = 3 * next + 8 + Len(stack')
  BY <1>3, <1>4 DEF StepsAt
<1>8. /\ pc' = "element" => StepsLeft' = 3 * next + 6 + Len(stack')
      /\ pc' = "parsed" => StepsLeft' = 3 * next + 7
  BY <1>3, <1>4 DEF StepsAt
<1> HIDE DEF left, next
<1>9. CASE Start
  <2>1. pc = "start" /\ pc' = "value" /\ stack' = stack
    BY <1>9 DEF Start, callVars
  <2>2. offset = 0 /\ Len(stack) = 0
    BY <1>1, <2>1 DEF EdgeInv
  <2>3. StepsLeft = 3 * left + 9 /\ next <= left
    BY <1>1, <1>2, <1>3, <1>4, <2>1, <2>2 DEF StepsAt, left, next
  <2> QED
    BY <1>3, <1>7, <2>1, <2>2, <2>3
<1>10. CASE pc' = "fail" /\ stack' = stack /\ pc # "done"
            /\ (pc = "name" => sPc \in {"ok", "failed"})
            /\ (pc = "string" => sPc = "failed")
            /\ pc # "fail" /\ pc # "extracted"
  <2>1. pc = "start" => StepsLeft = 3 * left + 9 /\ Len(stack) = 0
    BY <1>1, <1>3, <1>4, <1>10 DEF StepsAt, EdgeInv
  <2>2. pc = "parsed" => StepsLeft = 3 * left + 7 /\ Len(stack) = 0
    BY <1>1, <1>3, <1>4, <1>10 DEF StepsAt, EdgeInv
  <2>3. pc = "element" => StepsLeft = 3 * left + 6 + Len(stack)
    BY <1>3, <1>4 DEF StepsAt
  <2>4. pc \in {"name", "string"}
           => StepsLeft = 3 * left + 9 + Len(stack) \/ StepsLeft = 3 + Len(stack)
    <3>1. pc \in {"name", "string"} => StepsLeft = StringSteps + Len(stack)
      BY <1>4 DEF StepsAt
    <3>2. /\ sPc = "ok" => StringSteps = 3 * left + 9
          /\ sPc = "failed" => StringSteps = 3
      BY <1>3, <1>4 DEF StepsAt
    <3> QED
      BY <1>10, <3>1, <3>2
  <2>5. pc \in {"start", "value", "string", "element", "name", "after", "parsed"}
    BY <1>10 DEF IInv, ParserTypeOK
  <2> QED
    BY <1>1, <1>3, <1>5, <1>6, <1>10, <2>1, <2>2, <2>3, <2>4, <2>5
<1>11. CASE pc \in {"value", "after"} /\ pc' = Returned(stack') /\ next < left
            /\ Len(stack') <= Len(stack)
  <2>1. StepsLeft' = 3 * next + 8 + Len(stack') \/ StepsLeft' = 3 * next + 7
    BY <1>7, <1>8, <1>11 DEF Returned
  <2> QED
    BY <1>1, <1>2, <1>3, <1>6, <1>11, <2>1
<1>12. CASE ParseLiteral
  <2>1. PICK t \in DOMAIN Literals : offset' = offset + Len(Literals[t])
    BY <1>12 DEF ParseLiteral
  <2>2. Len(Literals[t]) \in Nat \ {0}
    BY DEF Literals
  <2>3. next < left
    BY <1>1, <1>2, <2>1, <2>2 DEF left, next
  <2> QED
    BY <1>1, <1>11, <1>12, <2>3 DEF ParseLiteral, callVars
<1>13. CASE ParseNumber
  <2>1. NumberLength(offset) \in Nat \ {0} /\ offset' = offset + NumberLength(offset)
    BY <1>1, <1>13, NumberStays DEF ParseNumber
  <2>2. next < left
    BY <1>1, <1>2, <2>1 DEF left, next
  <2> QED
    BY <1>1, <1>11, <1>13, <2>2 DEF ParseNumber, callVars
<1>14. ASSUME NEW kind, OpenEmpty(kind)
       PROVE  StepsLeft' < StepsLeft
  <2>1. /\ pc = "value" /\ offset < Len(content) /\ Behind < Len(content)
        /\ offset' = Behind + 1 /\ pc' = Returned(stack) /\ stack' = stack
    BY <1>14 DEF OpenEmpty, Opening, ByteIs, Readable, EmptyList
  <2>2. Behind \in (offset + 1)..Len(content)
    BY <2>1, SkipBehind DEF Behind
  <2>3. next < left
    BY <1>1, <1>2, <2>1, <2>2 DEF left, next
  <2> QED
    BY <1>1, <1>11, <2>1, <2>3
<1>15. ASSUME NEW kind \in DOMAIN OpenOf, OpenList(kind)
       PROVE  StepsLeft' < StepsLeft
  <2>1. pc = "value" /\ offset < Len(content) /\ offset' = Behind - 1
    BY <1>15 DEF OpenList, Opening, ByteIs, Readable
  <2>2. Behind \in (offset + 1)..Len(content)
    BY <2>1, SkipBehind DEF Behind
  <2>3. next <= left
    BY <1>1, <1>2, <2>1, <2>2 DEF left, next
  <2>4. CASE pc' = "fail" /\ stack' = stack
    BY <1>10, <2>1, <2>4
  <2>5. CASE pc' = "element" /\ Len(stack') = Len(stack) + 1
    BY <1>1, <1>3, <1>6, <1>8, <2>1, <2>3, <2>5
  <2>6. stack' = Append(stack, [item |-> item, kind |-> kind, head |-> NULL, current |-> NULL])
           => Len(stack') = Len(stack) + 1
    BY Known
  <2> QED
    BY <1>15, <2>4, <2>5, <2>6 DEF OpenList
<1>16. CASE ParseStringValue
  <2>1. pc = "value" /\ offset < Len(content) /\ parse_string(offset) /\ pc' = "string"
        /\ stack' = stack
    BY <1>16 DEF ParseStringValue, ByteIs, Readable, callVars
  <2>2. offset' = offset /\ (StringSteps' = 3 * left + 6 \/ StringSteps' = 4)
    <3>1. offset \in Nat
      BY <1>1
    <3> QED
      BY <1>1, <2>1, <3>1, StringBeginsDown DEF left
  <2>3. StepsLeft' = StringSteps' + Len(stack)
    BY <1>4, <2>1 DEF StepsAt
  <2> QED
    BY <1>1, <1>3, <1>6, <2>1, <2>2, <2>3
<1>17. CASE ArrayElement \/ ObjectMember
  <2>1. pc = "element" /\ offset < Len(content) /\ AttachElement
    BY <1>17 DEF ArrayElement, ObjectMember, IInv, ControlInv
  <2>2. Len(stack') = Len(stack)
    BY <2>1, Attaching
  <2> DEFINE o == buffer_skip_whitespace(offset + 1)
  <2>3. o \in (offset + 1)..Len(content)
    BY <2>1, SkipBehind
  <2>4. StepsLeft = 3 * left + 6 + Len(stack)
    BY <1>3, <1>4, <2>1 DEF StepsAt
  <2> HIDE DEF o
  <2>5. CASE offset' = o /\ pc' = "value"
    <3>1. next < left
      BY <1>1, <1>2, <2>3, <2>5 DEF left, next
    <3> QED
      BY <1>1, <1>3, <1>7, <2>2, <2>4, <2>5, <3>1
  <2>6. CASE parse_string(o) /\ pc' = "name"
    <3>1. StepsLeft' = StringSteps' + Len(stack)
      BY <1>4, <2>2, <2>6 DEF StepsAt
    <3>2. StringSteps' = 3 * next + 6 \/ StringSteps' = 4
      <4>1. o \in Nat
        BY <1>1, <2>3
      <4> QED
        BY <1>1, <2>6, <4>1, StringBeginsDown DEF next
    <3>3. next < left
      BY <1>1, <1>2, <2>3, <2>6 DEF left, next, parse_string
    <3> QED
      BY <1>1, <1>3, <2>4, <3>1, <3>2, <3>3
  <2>7. CASE pc' = "fail"
    BY <1>1, <1>3, <1>5, <2>2, <2>4, <2>7
  <2> QED
    BY <1>17, <2>5, <2>6, <2>7 DEF ArrayElement, ObjectMember, o
<1>18. CASE MemberName /\ pc' = "value"
  <2>1. pc = "name" /\ sPc = "ok" /\ stack' = stack
    BY <1>18 DEF MemberName, callVars
  <2>2. StepsLeft = 3 * left + 9 + Len(stack)
    BY <1>3, <1>4, <2>1 DEF StepsAt
  <2>3. next <= left
    <3> DEFINE o == buffer_skip_whitespace(offset)
    <3>1. o \in offset..Len(content)
      BY <1>1, SkipStays
    <3>2. offset' = buffer_skip_whitespace(o + 1) /\ o < Len(content)
      BY <1>18 DEF MemberName, ByteIs, Readable
    <3> HIDE DEF o
    <3>3. o + 1 \in 0..Len(content)
      BY <1>1, <3>1, <3>2
    <3>4. offset' \in (o + 1)..Len(content)
      BY <1>1, <3>2, <3>3, SkipStays
    <3> QED
      BY <1>1, <3>1, <3>4 DEF left, next
  <2> QED
    BY <1>1, <1>3, <1>7, <1>18, <2>1, <2>2, <2>3
<1>19. CASE StringReturned /\ sPc = "ok"
  <2>1. pc = "string" /\ pc' = Returned(stack) /\ stack' = stack /\ offset' = offset
    BY <1>19 DEF StringReturned, callVars
  <2>2. StepsLeft = 3 * left + 9 + Len(stack)
    BY <1>3, <1>4, <1>19, <2>1 DEF StepsAt
  <2>3. StepsLeft' = 3 * left + 8 + Len(stack) \/ StepsLeft' = 3 * left + 7
    BY <1>7, <1>8, <2>1 DEF Returned, left, next
  <2> QED
    BY <1>1, <1>3, <2>2, <2>3
<1>20. CASE AfterValue \/ CloseList
  <2> DEFINE o == buffer_skip_whitespace(offset)
  <2>1. o \in offset..Len(content)
    BY <1>1, SkipStays
  <2> HIDE DEF o
  <2>2. pc = "after"
    BY <1>20 DEF AfterValue, CloseList
  <2>3. CASE pc' = "element" /\ stack' = stack /\ offset' = o
    <3>1. next <= left
      BY <1>1, <1>2, <2>1, <2>3 DEF left, next
    <3> QED
      BY <1>1, <1>3, <1>6, <1>8, <2>2, <2>3, <3>1
  <2>4. CASE pc' = "fail" /\ stack' = stack
    BY <1>10, <2>2, <2>4
  <2>5. CASE offset' = o + 1 /\ stack' = Pop /\ pc' = Returned(Pop)
    <3>1. next < left
      BY <1>1, <1>2, <2>1, <2>5 DEF left, next
    <3>2. Len(stack') <= Len(stack)
      BY <1>1, <2>2, <2>5 DEF IInv, ControlInv
    <3> QED
      BY <1>11, <2>2, <2>5, <3>1, <3>2
  <2> QED
    BY <1>20, <2>3, <2>4, <2>5 DEF AfterValue, CloseList, callVars, o
<1>21. CASE Unwind
  BY <1>1, <1>4, <1>5, <1>21 DEF Unwind, StepsAt
<1>22. CASE Parsed
  <2>1. pc = "parsed" /\ stack' = stack /\ pc' \in {"fail", "done"}
    BY <1>22 DEF Parsed, callVars
  <2>2. StepsLeft = 3 * left + 7 /\ (pc' = "done" => StepsLeft' = 1)
    BY <1>3, <1>4, <2>1 DEF StepsAt
  <2> QED
    BY <1>3, <1>10, <2>1, <2>2
<1>23. CASE Failed \/ Extract \/ NoTree
  <2>1. \/ pc = "fail" /\ pc' = "done" /\ Len(stack) = 0
        \/ pc = "done" /\ pc' = "extracted"
    BY <1>1, <1>23 DEF Failed, Extract, NoTree
  <2> QED
    BY <1>4, <2>1 DEF StepsAt
<1>24. CASE NoStart \/ ParseNoNumber \/ ParseNothing \/ NoElement \/ NoMemberName
  BY <1>10, <1>24
  DEF NoStart, ParseNoNumber, ParseNothing, NoElement, NoMemberName, callVars
<1>25. ASSUME NEW kind, TooDeep(kind) PROVE StepsLeft' < StepsLeft
  BY <1>10, <1>25 DEF TooDeep, Opening, callVars
<1>26. CASE StringReturned /\ sPc = "failed"
  BY <1>10, <1>26 DEF StringReturned, callVars
<1>27. CASE MemberName /\ pc' = "fail"
  BY <1>10, <1>27 DEF MemberName, callVars
<1>28. CASE OpenArray \/ OpenObject
  <2>1. PICK kind \in DOMAIN OpenOf : Open(kind)
    BY <1>28 DEF OpenArray, OpenObject, OpenOf
  <2> QED
    BY <1>14, <1>15, <1>25, <2>1 DEF Open
<1>29. MemberName => pc' \in {"value", "fail"}
  BY DEF MemberName
<1>30. StringReturned => sPc \in {"ok", "failed"}
  BY DEF StringReturned
<1> QED
  BY <1>9, <1>12, <1>13, <1>16, <1>17, <1>18, <1>19, <1>20, <1>21, <1>22, <1>23, <1>24,
     <1>26, <1>27, <1>28, <1>29, <1>30
  DEF ParserStep

(* Each step of parse_string: the first pass goes on by one or two bytes,  *)
(* the second by what it decodes, and what fails is given back.            *)
LEMMA StringRunsDown ==
  ASSUME IInv, StringRuns, content' = content
  PROVE  StepsLeft' < StepsLeft
<1>1. /\ pc \in {"string", "name"} /\ pc' = pc /\ stack' = stack
      /\ StringStep
  BY DEF StringRuns, callVars
<1>2. /\ Len(content) \in Nat /\ offset \in 0..Len(content) /\ Len(stack) \in Nat
  BY Known
<1>3. input_pointer \in Nat /\ input_end \in Nat
  BY DEF IInv, ParserTypeOK
<1>4. StepsAt /\ StepsAt'
  BY StepsAtHolds, StepsAtNext
<1>5. StepsLeft = StringSteps + Len(stack) /\ StepsLeft' = StringSteps' + Len(stack)
  BY <1>1, <1>4 DEF StepsAt
<1> DEFINE left == 3 * (Len(content) - offset) + 7
           scanned == input_end - offset
           decoded == input_pointer - offset
<1>6. /\ sPc \in {"scan", "decode"} => scanned \in 1..(Len(content) - offset)
      /\ sPc = "scan" => decoded = 1
      /\ sPc = "decode" => decoded \in 1..(scanned + 1) /\ scanned < Len(content) - offset
  <2>1. sPc \in {"scan", "decode"} => offset + 1 <= input_end /\ input_end <= Len(content)
    BY DEF IInv, StringInv, ScanInv
  <2>2. sPc = "scan" => input_pointer = offset + 1
    BY DEF IInv, StringInv
  <2>3. sPc = "decode" => /\ offset + 1 <= input_pointer /\ input_end < Len(content)
                          /\ input_pointer <= input_end \/ input_pointer = input_end + 1
    BY DEF IInv, StringInv, Fits
  <2> QED
    BY <1>2, <1>3, <2>1, <2>2, <2>3
<1>7. /\ sPc = "scan" => StringSteps = left - scanned
      /\ sPc = "decode" => StringSteps = (left - scanned) - decoded
      /\ sPc = "fail" => StringSteps = 4
  BY <1>2, <1>3, <1>4 DEF StepsAt
<1>8. StringSteps' < StringSteps /\ StringSteps \in Int /\ StringSteps' \in Int
  <2>1. CASE sPc' = "fail" /\ sPc \in {"scan", "decode"}
    <3>1. StringSteps' = 4
      BY <1>4, <2>1 DEF StepsAt
    <3> QED
      BY <1>2, <1>3, <1>6, <1>7, <2>1, <3>1
  <2>2. CASE sPc = "scan" /\ sPc' = "scan" /\ offset' = offset
             /\ input_end' \in {input_end + 1, input_end + 2}
    <3>1. StringSteps' = TextLeft' + 7 - (input_end' - offset) /\ TextLeft' = left - 7
      BY <1>2, <1>4, <2>2 DEF StepsAt
    <3> QED
      BY <1>2, <1>3, <1>6, <1>7, <2>2, <3>1
  <2>3. CASE AllocateOutput /\ sPc' = "decode"
    <3>1. /\ sPc = "scan" /\ offset' = offset /\ input_end' = input_end
          /\ input_pointer' = input_pointer
      BY <2>3 DEF AllocateOutput
    <3>2. StringSteps' = left - scanned - 1
      <4>1. /\ StringSteps' = TextLeft' + 7 - (input_end' - offset') - (input_pointer' - offset')
            /\ TextLeft' = 3 * (Len(content) - offset)
        BY <1>4, <2>3, <3>1 DEF StepsAt
      <4>2. /\ input_end' - offset' = scanned /\ input_pointer' - offset' = 1
        BY <1>6, <3>1
      <4> QED
        BY <1>2, <1>3, <4>1, <4>2
    <3>3. left \in Int /\ scanned \in Int
      BY <1>2, <1>3
    <3> HIDE DEF left, scanned, decoded
    <3> QED
      BY <1>7, <3>1, <3>2, <3>3
  <2>4. CASE DecodeChar \/ DecodeEscape \/ DecodeLiteral
    <3>1. /\ sPc = "decode" /\ sPc' = "decode" /\ offset' = offset /\ input_end' = input_end
      BY <2>4 DEF DecodeChar, DecodeEscape, DecodeLiteral
    <3>2. PICK n \in {1, 2, 6, 12} : input_pointer' = input_pointer + n
      <4>1. DecodeLiteral => LET literal == utf16_literal_to_utf8(input_pointer)
                             IN  /\ literal.length > 0
                                 /\ input_pointer' = input_pointer + literal.length
        BY DEF DecodeLiteral
      <4>2. utf16_literal_to_utf8(input_pointer) = NoLiteral
            \/ utf16_literal_to_utf8(input_pointer).length \in {6, 12}
        BY <1>3, LiteralBytes
      <4>3. ~(NoLiteral.length > 0)
        BY DEF NoLiteral
      <4> QED
        BY <2>4, <4>1, <4>2, <4>3 DEF DecodeChar, DecodeEscape
    <3>3. StringSteps' = left - scanned - (decoded + n)
      <4>1. /\ StringSteps' = TextLeft' + 7 - (input_end' - offset') - (input_pointer' - offset')
            /\ TextLeft' = 3 * (Len(content) - offset)
        BY <1>4, <3>1 DEF StepsAt
      <4>2. /\ input_end' - offset' = scanned /\ input_pointer' - offset' = decoded + n
        BY <1>2, <1>3, <3>1, <3>2
      <4> QED
        BY <1>2, <1>3, <4>1, <4>2
    <3>4. left \in Int /\ scanned \in Int /\ decoded \in Int
      BY <1>2, <1>3
    <3> HIDE DEF left, scanned, decoded
    <3> QED
      BY <1>7, <3>1, <3>2, <3>3, <3>4
  <2>5. CASE StringParsed
    <3>1. sPc = "decode" /\ sPc' = "ok" /\ offset' = input_end + 1 /\ input_pointer >= input_end
      BY <2>5 DEF StringParsed
    <3>2. StringSteps' = TextLeft' + 9 /\ TextLeft' = 3 * (Len(content) - (input_end + 1))
      BY <1>4, <3>1 DEF StepsAt
    <3>3. StringSteps' = left - 3 * scanned - 1 /\ scanned \in Nat
      BY <1>2, <1>3, <1>6, <3>1, <3>2
    <3>4. StringSteps = (left - scanned) - decoded /\ decoded \in {scanned, scanned + 1}
          /\ scanned >= 1 /\ left \in Int
      BY <1>2, <1>3, <1>6, <1>7, <3>1
    <3> HIDE DEF left, scanned, decoded
    <3> QED
      BY <3>3, <3>4
  <2>6. CASE StringFailed
    <3>1. sPc = "fail" /\ StringSteps' = 3
      BY <1>4, <2>6 DEF StringFailed, StepsAt
    <3> QED
      BY <1>7, <3>1
  <2> QED
    BY <1>1, <2>1, <2>2, <2>3, <2>4, <2>5, <2>6
    DEF StringStep, ScanChar, ScanEscape, AllocateOutput, DecodeFails
<1> QED
  BY <1>2, <1>5, <1>8

LEMMA StepsDown ==
  ASSUME IInv, EdgeInv, ParserStep \/ Extract \/ NoTree, IInv', EdgeInv'
  PROVE  StepsLeft' < StepsLeft
<1>1. StringRuns /\ content' = content => StepsLeft' < StepsLeft
  BY StringRunsDown
<1>2. StringRuns => content' = content
  BY DEF ParserStep, Extract, NoTree, StringRuns, StringStep, bufferVars
<1> QED
  BY <1>1, <1>2, CallsStepDown

(* What is left is a number, whatever step the program is at.              *)
LEMMA StepsAreNat ==
  ASSUME IInv
  PROVE  StepsLeft \in Nat
<1>1. /\ Len(content) \in Nat /\ offset \in 0..Len(content) /\ Len(stack) \in Nat
  BY Known
<1>2. StepsAt /\ TextLeft \in Nat
  BY <1>1, StepsAtHolds DEF StepsAt
<1>3. pc \in {"start", "value", "after", "element", "parsed", "fail", "done", "extracted"}
         => StepsLeft \in Nat
  BY <1>1, <1>2 DEF StepsAt
<1>4. ASSUME pc \in {"string", "name"} PROVE StepsLeft \in Nat
  <2>1. sPc \in {"scan", "decode", "fail", "ok", "failed"}
    BY <1>4 DEF IInv, ParserTypeOK, ControlInv
  <2>2. CASE sPc = "scan"
    <3>1. StringSteps = TextLeft + 7 - (input_end - offset) /\ TextLeft = 3 * (Len(content) - offset)
      BY <1>2, <2>2 DEF StepsAt
    <3>2. input_end \in Nat /\ offset + 1 <= input_end /\ input_end <= Len(content)
      BY <2>2 DEF IInv, ParserTypeOK, StringInv, ScanInv
    <3>3. StringSteps \in Nat
      BY <1>1, <3>1, <3>2
    <3> QED
      BY <1>1, <1>2, <1>4, <3>3 DEF StepsAt
  <2>3. CASE sPc = "decode"
    <3>1. /\ StringSteps = TextLeft + 7 - (input_end - offset) - (input_pointer - offset)
          /\ TextLeft = 3 * (Len(content) - offset)
      BY <1>2, <2>3 DEF StepsAt
    <3>2. /\ input_end \in Nat /\ offset + 1 <= input_end /\ input_end < Len(content)
          /\ input_pointer \in Nat /\ offset + 1 <= input_pointer
      BY <2>3 DEF IInv, ParserTypeOK, StringInv, ScanInv
    <3>3. input_pointer <= input_end \/ input_pointer = input_end + 1
      BY <2>3 DEF IInv, StringInv, Fits
    <3>4. StringSteps \in Nat
      BY <1>1, <3>1, <3>2, <3>3
    <3> QED
      BY <1>1, <1>2, <1>4, <3>4 DEF StepsAt
  <2>4. CASE sPc \in {"fail", "ok", "failed"}
    <3>1. StringSteps \in Nat
      BY <1>2, <2>4 DEF StepsAt
    <3> QED
      BY <1>1, <1>2, <1>4, <3>1 DEF StepsAt
  <2> QED
    BY <2>1, <2>2, <2>3, <2>4
<1> QED
  BY <1>3, <1>4 DEF IInv, ParserTypeOK

(* extract_first_key_field takes at most three steps for each byte of the  *)
(* text and nine more, whatever the text, however deep it nests and        *)
(* whichever allocation is refused (StepsRunOut): no step goes back in the *)
(* text, only parse_string goes over what it scanned a second time, and    *)
(* unwinding costs no more than nesting did.                               *)
THEOREM ParserStepsRunOut == Spec => StepsRunOut
<1> DEFINE Bounded == StepsLeft <= 3 * Len(content) + 9
           Typed == StepsLeft \in Nat /\ Len(content) \in Nat
<1>1. Init => EdgeInv /\ Bounded
  <2>1. ASSUME Init PROVE EdgeInv /\ Bounded
    <3>1. pc = "start" /\ offset = 0 /\ stack = <<>> /\ IInv
      BY <2>1, InitInv DEF Init, ParserInit, BufferInit
    <3>2. Len(content) \in Nat
      BY <3>1, Known
    <3>3. StepsLeft = 3 * (Len(content) - offset) + 9
      BY <3>1, StepsAtHolds DEF StepsAt
    <3> QED
      BY <3>1, <3>2, <3>3 DEF EdgeInv
  <2> QED
    BY <2>1
<1>2. IInv => Typed
  BY StepsAreNat, Known
<1> HIDE DEF Typed
<1>3. IInv' => Typed'
  BY <1>2, PTL
<1>4. IInv /\ EdgeInv /\ IInv' /\ EdgeInv' /\ [Next]_vars => [StepsLeft' < StepsLeft]_vars
  BY StepsDown DEF Next, Parse, Ended
<1>5. ASSUME IInv, EdgeInv, IInv', EdgeInv', [Next]_vars, Bounded
      PROVE  Bounded'
  <2>1. content' = content
    BY <1>5
    DEF Next, Parse, ParserStep, Extract, NoTree, Ended, vars, parserVars, bufferVars
  <2>2. CASE UNCHANGED vars
    <3>1. StepsLeft' = StepsLeft
      BY <2>2 DEF vars, parserVars, bufferVars, callVars, stringVars, StepsLeft, StringSteps,
                  TextLeft
    <3> QED
      BY <1>5, <2>1, <3>1
  <2>3. CASE StepsLeft' < StepsLeft
    <3>1. Typed /\ Typed'
      BY <1>2, <1>3, <1>5
    <3> QED
      BY <1>5, <2>1, <2>3, <3>1 DEF Typed
  <2> QED
    BY <1>4, <1>5, <2>2, <2>3
<1>6. IInv /\ Bounded => StepsLeft \in 0..(3 * Len(content) + 9)
  BY <1>2 DEF Typed
<1> HIDE DEF Bounded
<1>7. Spec => []EdgeInv
  BY <1>1, EdgesKeep, PTL DEF Spec
<1> QED
  BY <1>1, <1>4, <1>5, <1>6, <1>7, Inductive, PTL DEF Spec, StepsRunOut
=============================================================================
