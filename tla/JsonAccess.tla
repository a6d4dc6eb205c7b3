----------------------------- MODULE JsonAccess -----------------------------
(***************************************************************************)
(* What cJSON reads from a tree: the items of an array or object, by       *)
(* position and by name, and the predicates on an item's type.             *)
(***************************************************************************)
EXTENDS JsonNodes, Sequences

\* The list that begins at c, as the next pointers give it.
ListFrom(h, c) ==
  LET after == [n \in DOMAIN h \cup {NULL} |-> IF n = NULL THEN NULL ELSE h[n].next]
      at[k \in 0..Cardinality(DOMAIN h)] == IF k = 0 THEN c ELSE after[at[k - 1]]
      size == Min({k \in DOMAIN at : at[k] = NULL})
  IN  [k \in 1..size |-> at[k - 1]]
Items(h, a) == ListFrom(h, h[a].child)

\* A string ends for C at its first zero byte.
CString(s) ==
  SubSeq(s, 1, Min({k \in 1..Len(s) : s[k] = 0} \cup {Len(s) + 1}) - 1)

cJSON_GetArraySize(h, a) == IF a = NULL THEN 0 ELSE Len(Items(h, a))

get_array_item(h, a, index) ==
  IF a # NULL /\ index < Len(Items(h, a)) THEN Items(h, a)[index + 1] ELSE NULL

GetObjectItem_last(h, o, name) ==
  LET items == IF o = NULL THEN <<>> ELSE Items(h, o)
      found == {k \in 1..Len(items) : /\ h[items[k]].string # NULL
                                      /\ CString(h[items[k]].string) = name}
  IN  IF found = {} THEN NULL ELSE items[Max(found)]

\* The search stops at an item without a name, as every item of an array is.
cJSON_GetObjectItemCaseSensitive(h, o, name) ==
  IF o = NULL THEN NULL
  ELSE LET items == Items(h, o)
           stops == {k \in 1..Len(items) : \/ h[items[k]].string = NULL
                                           \/ CString(h[items[k]].string) = name}
       IN  IF stops = {} \/ h[items[Min(stops)]].string = NULL THEN NULL
           ELSE items[Min(stops)]

cJSON_IsArray(h, n)  == n # NULL /\ h[n].type = "Array"
cJSON_IsString(h, n) == n # NULL /\ h[n].type = "String"
=============================================================================
