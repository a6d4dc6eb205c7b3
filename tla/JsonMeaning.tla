---------------------------- MODULE JsonMeaning ----------------------------
(***************************************************************************)
(* What a text spells, from the grammar of JSON as cJSON reads it: a text  *)
(* is cut at its commas and colons in every way, and the pieces must spell *)
(* something themselves.  No offset, no stack, no node.                    *)
(*                                                                         *)
(* A value is <<"Object", members>>, <<"Array", values>>,                  *)
(* <<"String", code points>> or a type alone; a member is <<name, value>>. *)
(***************************************************************************)
EXTENDS JsonFields, SequencesExt

Blank32(s)  == \A k \in 1..Len(s) : s[k] <= 32
First(s, n) == SubSeq(s, 1, n)
From(s, n)  == SubSeq(s, n, Len(s))
Trim(s) ==
  IF Blank32(s) THEN <<>>
  ELSE LET dark == {k \in 1..Len(s) : s[k] > 32} IN SubSeq(s, Min(dark), Max(dark))
Inside(s)   == SubSeq(s, 2, Len(s) - 1)
Enclosed(s, open, close) == Len(s) > 1 /\ s[1] = open /\ s[Len(s)] = close

IsHex(s) == Len(s) = 4 /\ \A k \in 1..4 : s[k] \in HexDigits
Unit(s)  == FoldLeft(LAMBDA n, c : 16 * n + HexValue(c), 0, s)
Pair(hi, lo) == 65536 + (hi - 55296) * 1024 + (lo - 56320)

(* The code points between two quotes: {} when the text is no such thing,  *)
(* otherwise the set of the one sequence it spells.                        *)
RECURSIVE Points(_)
Then(points, rest) == {points \o p : p \in Points(rest)}
IsLiteral(s) == Len(s) >= 6 /\ First(s, 2) = <<Backslash, LetterU>> /\ IsHex(SubSeq(s, 3, 6))
Literal(s) ==
  IF ~IsLiteral(s) THEN {}
  ELSE LET u    == Unit(SubSeq(s, 3, 6))
           rest == From(s, 7)
       IN  IF u \notin High \cup Low THEN Then(<<u>>, rest)
           ELSE IF u \in High /\ IsLiteral(rest) /\ Unit(SubSeq(rest, 3, 6)) \in Low
           THEN Then(<<Pair(u, Unit(SubSeq(rest, 3, 6)))>>, From(rest, 7))
           ELSE {}
Points(s) ==
  IF s = <<>> THEN {<<>>}
  ELSE IF s[1] = Quote THEN {}
  ELSE IF s[1] # Backslash THEN Then(<<s[1]>>, From(s, 2))
  ELSE IF Len(s) = 1 THEN {}
  ELSE IF s[2] = LetterU THEN Literal(s)
  ELSE IF s[2] \in DOMAIN Escapes THEN Then(<<Escapes[s[2]]>>, From(s, 3)) ELSE {}

RECURSIVE Spelled(_), Elements(_), Members(_)
Commas(s) == {k \in 1..Len(s) : s[k] = Comma}
Elements(s) ==
  {<<v>> : v \in Spelled(Trim(s))} \cup
  UNION {UNION {{<<v>> \o rest : rest \in Elements(From(s, k + 1))} :
                v \in Spelled(Trim(First(s, k - 1)))} : k \in Commas(s)}
Member(s) ==
  UNION {UNION {{<<name[2], v>> : v \in Spelled(Trim(From(s, k + 1)))} :
                name \in {w \in Spelled(Trim(First(s, k - 1))) : w[1] = "String"}} :
         k \in {j \in 1..Len(s) : s[j] = Colon}}
Members(s) ==
  {<<m>> : m \in Member(s)} \cup
  UNION {UNION {{<<m>> \o rest : rest \in Members(From(s, k + 1))} :
                m \in Member(First(s, k - 1))} : k \in Commas(s)}

Spelled(s) ==
  IF s = <<>> THEN {}
  ELSE IF \E t \in DOMAIN Literals : s = Literals[t]
  THEN {<<t>> : t \in {t \in DOMAIN Literals : s = Literals[t]}}
  ELSE IF s[1] \in Digits \cup {Minus}
  THEN IF (\A k \in 1..Len(s) : s[k] \in NumberChars) /\ IsNumber(s) THEN {<<"Number">>} ELSE {}
  ELSE IF Enclosed(s, Quote, Quote) THEN {<<"String", p>> : p \in Points(Inside(s))}
  ELSE IF Enclosed(s, 91, 93)
  THEN IF Blank32(Inside(s)) THEN {<<"Array", <<>>>>}
       ELSE {<<"Array", e>> : e \in Elements(Inside(s))}
  ELSE IF Enclosed(s, 123, 125)
  THEN IF Blank32(Inside(s)) THEN {<<"Object", <<>>>>}
       ELSE {<<"Object", m>> : m \in Members(Inside(s))}
  ELSE {}

RECURSIVE Nesting(_)
Nesting(v) ==
  CASE v[1] = "Array"  -> 1 + Max({0} \cup {Nesting(v[2][k]) : k \in DOMAIN v[2]})
    [] v[1] = "Object" -> 1 + Max({0} \cup {Nesting(v[2][k][2]) : k \in DOMAIN v[2]})
    [] OTHER           -> 0

(* What a whole text spells: a mark and white space, then the longest      *)
(* value that stands there, and, if its end is required, nothing but white *)
(* space up to a final zero.                                               *)
Begin(text) ==
  LET bom  == IF Len(text) > 4 /\ First(text, 3) = Bom THEN 3 ELSE 0
      dark == {k \in (bom + 1)..Len(text) : text[k] > 32}
  IN  IF dark = {} THEN Len(text) + 1 ELSE Min(dark)
Meaning(text, ended) ==
  LET ends == {n \in Begin(text)..Len(text) : Spelled(SubSeq(text, Begin(text), n)) # {}}
      rest == From(text, Max(ends) + 1)
  IN  IF ends = {} THEN {}
      ELSE {v \in Spelled(SubSeq(text, Begin(text), Max(ends))) :
              /\ Nesting(v) <= NestingLimit
              /\ ended => rest # <<>> /\ Blank32(rest) /\ rest[Len(rest)] = 0}

-----------------------------------------------------------------------------
(* The value a tree holds, its strings read back as code points.           *)

Size(b)  == CASE b < 192 -> 1 [] b \in 192..223 -> 2 [] b \in 224..239 -> 3 [] OTHER -> 4
Lead(b)  == CASE b < 192 -> b [] b \in 192..223 -> b - 192 [] b \in 224..239 -> b - 224
              [] OTHER -> b - 240
RECURSIVE Decoded(_)
Decoded(s) ==
  IF s = <<>> THEN <<>>
  ELSE LET n == Size(s[1])
       IN  <<FoldLeft(LAMBDA cp, b : 64 * cp + (b - 128), Lead(s[1]), SubSeq(s, 2, n))>>
           \o Decoded(From(s, n + 1))

RECURSIVE ValueOf(_)
ValueOf(n) ==
  LET items == Items(heap, n)
      Of(k) == ValueOf(items[k])
      node  == heap[n]
  IN  CASE node.type = "Array"  -> <<"Array", [k \in 1..Len(items) |-> Of(k)]>>
        [] node.type = "Object" ->
             <<"Object", [k \in 1..Len(items) |-> <<Decoded(heap[items[k]].string), Of(k)>>]>>
        [] node.type = "String" -> <<"String", Decoded(node.valuestring)>>
        [] OTHER                -> <<node.type>>

(* The look-up of handle_json.c on a value.                                *)
Under(v, name) ==
  LET at == {k \in DOMAIN v[2] : CString(v[2][k][1]) = name}
  IN  IF at = {} THEN {} ELSE {v[2][Min(at)][2]}
FieldOf(v, name) ==
  {CString(text[2]) :
     text \in {t \in UNION {Under(first, name) :
                 first \in {a[2][1] : a \in
                    {k \in IF v[1] = "Object" THEN Under(v, KeysName) ELSE {} :
                       k[1] = "Array" /\ k[2] # <<>> /\ k[2][1][1] = "Object"}}} :
               t[1] = "String"}}

FieldsMeant(text, ended, name) == UNION {FieldOf(v, name) : v \in Meaning(text, ended)}

-----------------------------------------------------------------------------
(* parse_hex4 gives 0 for what are no digits: a text with such a literal is *)
(* read as if it had a zero there.                                         *)
BadLiteral ==
  \E k \in 1..(Len(content) - 1) :
     /\ content[k] = Backslash /\ content[k + 1] = LetterU
     /\ ~IsHex(SubSeq(content, k + 2, Min({k + 5, Len(content)})))

(* When no allocation is refused, the parser accepts exactly the texts that *)
(* spell a value, and the tree it returns holds that value: nothing lost,  *)
(* doubled or moved, whatever the nesting, the white space and the escapes *)
(* (cJSON_ParseWithLengthOpts and all it calls).                           *)
ParsesWhatIsSpelled ==
  pc = "done" =>
    /\ root # NULL /\ ~BadLiteral => Meaning(content, require) = {ValueOf(root)}
    /\ root = NULL /\ ~refused => Meaning(content, require) = {}

(* extract_first_key_field returns the string the answer gives the field in *)
(* its first key, and NULL only when there is none or memory ran out.      *)
FirstKeysField ==
  pc = "extracted" /\ ~BadLiteral =>
    LET named == FieldsMeant(content, require, field)
    IN  /\ result # NULL => named = {Decoded(result)}
        /\ result = NULL /\ ~refused => named = {}
=============================================================================
