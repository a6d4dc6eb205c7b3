----------------------------- MODULE MCKmeClient -----------------------------
(* Small instances of KmeRequest: k, f and i stand for the names "keys",    *)
(* "key" and "key_ID".                                                     *)
EXTENDS KmeRequest

k == <<107>>
f == <<102>>
i == <<105>>
Q(s) == <<34>> \o s \o <<34>>
Pair(name, value) == Q(name) \o <<58>> \o Q(value)
Object(text) == <<123>> \o text \o <<125>>
Keys(text)   == Object(Q(k) \o <<58, 91>> \o text \o <<93>>)
And(s, t)    == s \o <<44>> \o t

\* Both fields, with a zero behind them or not; the identifier first; one of
\* two in each of two keys; an error message; a key that is no string; a
\* literal that ends too soon.
Both    == Keys(Object(And(Pair(f, <<97>>), Pair(i, <<98>>))))
Swapped == Keys(Object(And(Pair(i, <<98>>), Pair(f, <<97>>))))
Apart   == Keys(And(Object(Pair(f, <<97>>)), Object(Pair(i, <<98>>))))
Message == Object(Pair(<<109>>, <<110>>))
Odd     == Keys(Object(Q(f) \o <<58, 49>>))
Short   == Object(Q(f) \o <<58>> \o Q(<<92, 117, 49>>))
MCNames  == {f, i}
MCTexts  == {<<>>}
MCBodies == {<<>>, <<1>>, <<2, 1, 2, 2>>, Both, Both \o <<0, 125>>, Swapped, Apart,
             Message, Odd, Short, SubSeq(Both, 1, Len(Both) - 1)}
=============================================================================
