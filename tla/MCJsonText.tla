----------------------------- MODULE MCJsonText -----------------------------
(***************************************************************************)
(* The texts cJSON is checked on: the answers of a KME, what is left of    *)
(* them when a lexeme is missing, wrong or too many, or when they are cut, *)
(* every short sequence of lexemes, and strings full of escapes.           *)
(***************************************************************************)
EXTENDS JsonMeaning

CONSTANT MaxWrong       \* bound: lexemes by which a text may differ from an answer

keys == <<107>>         \* k, for the name "keys"
key  == <<102>>         \* f, for the field asked for

-----------------------------------------------------------------------------
(* Lexemes, and texts made of them.                                        *)

Q(s) == <<34>> \o s \o <<34>>
Unicode(digits) == <<Backslash, LetterU>> \o digits
Zero == Unicode(<<48, 48, 48, 48>>)

LBracket == <<91>>
RBracket == <<93>>
LBrace   == <<123>>
RBrace   == <<125>>
Lexemes == {LBracket, RBracket, LBrace, RBrace, <<Comma>>, <<Colon>>, <<32>>, <<49>>,
            <<45>>, <<49, 101, 43>>, Literals["True"], Q(keys), Q(key),
            Q(keys \o Zero \o key), <<34>>}

\* {"keys": [{"f": "f"}]}; the same with the field twice; two keys that are empty.
Value  == Q(key)
Answer == <<LBrace, Q(keys), <<Colon>>, LBracket, LBrace, Q(key), <<Colon>>, Value,
            RBrace, RBracket, RBrace>>
Twice  == SubSeq(Answer, 1, 8) \o <<<<Comma>>, Q(key), <<Colon>>, Q(keys)>> \o SubSeq(Answer, 9, 11)
Two    == <<LBrace, Q(keys), <<Colon>>, LBracket, LBrace, RBrace, <<Comma>>,
            LBracket, RBracket, RBracket, RBrace>>

Replaced(s) == {[s EXCEPT ![k] = l] : k \in DOMAIN s, l \in Lexemes}
Dropped(s)  == {RemoveAt(s, k) : k \in DOMAIN s}
Inserted(s) == {InsertAt(s, k, l) : k \in 1..(Len(s) + 1), l \in Lexemes}
Cut(s)      == {SubSeq(s, 1, k) : k \in DOMAIN s}
Wrong(s)    == {s} \cup IF MaxWrong = 0 THEN {}
                        ELSE Replaced(s) \cup Dropped(s) \cup Inserted(s) \cup Cut(s)
Short == SeqOf(Lexemes, 3)

\* Strings: letters, escapes, halves of a surrogate pair, and what is none.
Pieces == {<<97>>, <<Backslash>>, <<34>>, <<110>>, <<Backslash, 110>>, Zero,
           Unicode(<<68, 56, 51, 52>>), Unicode(<<68, 68, 49, 69>>),
           Unicode(<<50, 48, 97, 99>>), Unicode(<<48, 48, 101, 57>>),
           Unicode(<<49>>)}
Strings == {Q(FlattenSeq(s)) : s \in SeqOf(Pieces, 3)}
Deep    == {<<91, 91, 91, 93, 93, 93>>, <<91, 91, 91, 91, 93, 93, 93, 93>>,
            <<91, 91, 91, 91, 49, 93, 93, 93, 93>>}

Marked(t) == {Bom \o t, SubSeq(Bom, 1, 2) \o t}
MCFieldNames == {key}
MCTexts ==
  LET spelled == {FlattenSeq(s) : s \in Wrong(Answer) \cup Wrong(Two) \cup {Twice} \cup Short}
      plain   == spelled \cup Strings \cup Deep \cup
                  UNION {Marked(t) : t \in {<<>>, <<49>>, FlattenSeq(Two)}}
  IN  plain \cup {Append(t, 0) : t \in plain}
=============================================================================
