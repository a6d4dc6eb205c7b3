----------------------------- MODULE JsonFields -----------------------------
(***************************************************************************)
(* extract_first_key_field of c/core/handle_json.c: parse the text, find   *)
(* {"keys": [{field: "value"}]}, copy the value, delete the tree.          *)
(***************************************************************************)
EXTENDS JsonParser, JsonAccess

CONSTANTS KeysName,     \* the name "keys"
          FieldNames    \* what get_key_id, get_key, get_ctx, get_sign,
                        \* get_ciphertext and get_pk ask for

VARIABLES field,        \* the argument
          result        \* what is returned

vars == <<parserVars, field, result>>

Init ==
  /\ ParserInit
  /\ field \in FieldNames
  /\ result = NULL

Parse == ParserStep /\ UNCHANGED <<field, result>>

\* The string the look-ups lead to, NULL when one of them leads nowhere.
FieldText(keys, found) ==
  IF /\ cJSON_IsArray(heap, keys) /\ cJSON_GetArraySize(heap, keys) > 0
     /\ cJSON_IsString(heap, found) /\ heap[found].valuestring # NULL
  THEN CString(heap[found].valuestring)
  ELSE NULL

\* How many strings strdup leaves to the caller.  It may fail as well.
Copies_none(text) == 0
Copies(text) == IF text = NULL THEN 0 ELSE 1
Extract ==
  /\ pc = "done" /\ root # NULL
  /\ \E keys  \in {cJSON_GetObjectItemCaseSensitive(heap, root, KeysName)} :
     \E first \in {get_array_item(heap, keys, 0)} :
     \E found \in {cJSON_GetObjectItemCaseSensitive(heap, first, field)} :
     \E text  \in {FieldText(keys, found)} :
       \/ result' = text /\ UNCHANGED refused
       \/ text # NULL /\ refused' = TRUE /\ UNCHANGED result
  /\ LET gone == Owned(heap, root)
     IN  /\ heap' = Without(heap, gone)
         /\ strings' = strings - StringsOf(heap, gone) + Copies(result')
  /\ pc' = "extracted"
  /\ UNCHANGED <<bufferVars, stringVars, item, callVars, endVars, require, field>>

NoTree ==
  /\ pc = "done" /\ root = NULL
  /\ pc' = "extracted"
  /\ UNCHANGED <<bufferVars, heapVars, stringVars, item, callVars, endVars, require,
                 field, result>>

Ended == pc = "extracted" /\ UNCHANGED vars

Next == Parse \/ Extract \/ NoTree \/ Ended

Spec == Init /\ [][Next]_vars
FairSpec == Spec /\ WF_vars(Parse \/ Extract \/ NoTree)

-----------------------------------------------------------------------------
(* Properties.                                                             *)

Address == Nodes \cup {NULL}
Bytes   == 0..255
Node == [type : {"Invalid", "Number", "String", "Array", "Object"} \cup DOMAIN Literals,
         ref : BOOLEAN, const : BOOLEAN, next : Address, prev : Address,
         child : Address, string : Seq(Bytes) \cup {NULL},
         valuestring : Seq(Bytes) \cup {NULL}]
Call == [item : Nodes, kind : DOMAIN OpenOf, head : Address, current : Address]

(* Every variable has its type, all pointers of the tree and of the calls  *)
(* under way included (strings is pinned down by StringsHaveOneOwner).     *)
ParserTypeOK ==
  /\ content \in Seq(Bytes) /\ offset \in Nat
  /\ DOMAIN heap \subseteq Nodes /\ \A n \in DOMAIN heap : heap[n] \in Node
  /\ refused \in BOOLEAN
  /\ sPc \in {"idle", "scan", "decode", "fail", "ok", "failed"}
  /\ item \in Address /\ root \in Address
  /\ input_pointer \in Nat /\ input_end \in Nat
  /\ skipped \in Seq(Nat) /\ skipped # <<>>
  /\ room \in Nat /\ output \in Seq(Bytes)
  /\ pc \in {"start", "value", "string", "element", "name", "after", "parsed", "fail",
             "done", "extracted"}
  /\ depth \in Nat /\ stack \in Seq(Call)
  /\ require \in BOOLEAN /\ parse_end \in Nat
TypeOK == ParserTypeOK /\ field \in FieldNames /\ result \in Seq(Bytes) \cup {NULL}

(* What parse_string writes, with the zero behind it, fits into what it    *)
(* allocated after counting escapes: the two passes agree although one     *)
(* counts a literal as two bytes and the other turns it into up to four.   *)
OutputFits == sPc \in {"decode", "ok"} => Len(output) < room

(* Every function looks only at bytes of the text: the offset stays in it  *)
(* or right behind it, and where a byte is read without a question there   *)
(* is one.                                                                 *)
ReadsStayInText ==
  /\ offset <= Len(content)
  /\ pc = "element" => offset < Len(content)
  /\ sPc = "decode" => input_end < Len(content)
  /\ pc = "done" /\ content # <<>> =>
       IF root = NULL THEN parse_end < Len(content) ELSE parse_end <= Len(content)

(* Arrays and objects are counted up and down once each, on every way      *)
(* through parse_array and parse_object, so the limit bounds the recursion. *)
DepthIsNesting ==
  /\ Len(stack) <= NestingLimit
  /\ pc # "fail" /\ pc # "done" /\ pc # "extracted" => depth = Len(stack)

(* Whatever goes wrong, and wherever: every node in use belongs to the     *)
(* tree or to the list of one call under way, no pointer leads to a node   *)
(* that was freed, and no two lead to the same one, so that cJSON_Delete   *)
(* frees what it should, once.                                             *)
Owners == ({root} \cup {stack[k].head : k \in 1..Len(stack)}) \ {NULL}
LeadsTo(m) == {heap[m].next, heap[m].child} \ {NULL}
NodesHaveOneOwner ==
  /\ Closed(heap, DOMAIN heap)
  /\ \A m \in DOMAIN heap :
       /\ heap[m].next = heap[m].child => heap[m].next = NULL
       /\ LeadsTo(m) \cap Owners = {}
       /\ \A n \in DOMAIN heap \ {m} : LeadsTo(m) \cap LeadsTo(n) = {}
       /\ \E o \in Owners : m \in Owned(heap, o)

(* Every allocated string belongs to a node, to parse_string or to the     *)
(* caller, and to one of them.                                             *)
StringsHaveOneOwner ==
  strings = StringsOf(heap, DOMAIN heap) + (IF sPc = "decode" THEN 1 ELSE 0)
            + (IF result = NULL THEN 0 ELSE 1)

(* The list below a node is linked both ways, and its head knows its tail, *)
(* which is what every later append and detach goes by.                    *)
SiblingsLinked ==
  \A n \in DOMAIN heap :
    /\ heap[n].next # NULL => heap[heap[n].next].prev = n
    /\ heap[n].child # NULL =>
         LET items == Items(heap, n) IN heap[heap[n].child].prev = items[Len(items)]

(* Every step uses up something of the text, so that three steps for each  *)
(* byte and nine more are enough for any, however deep it nests: a byte of *)
(* a string's literal is looked at in one turn of each of two loops, any   *)
(* other in one turn of one, and what fails only gives back what it holds  *)
(* (cJSON.c:836, 867, 1559, 1583, 1745).                                   *)
TextLeft == 3 * (Len(content) - offset)
StringSteps ==
  CASE sPc = "scan"   -> TextLeft + 7 - (input_end - offset)
    [] sPc = "decode" -> TextLeft + 7 - (input_end - offset) - (input_pointer - offset)
    [] sPc = "ok"     -> TextLeft + 9
    [] sPc = "fail"   -> 4
    [] OTHER          -> 3
StepsLeft ==
  CASE pc = "start"               -> TextLeft + 9
    [] pc \in {"value", "after"}  -> TextLeft + 8 + Len(stack)
    [] pc = "element"             -> TextLeft + 6 + Len(stack)
    [] pc \in {"string", "name"}  -> StringSteps + Len(stack)
    [] pc = "parsed"              -> TextLeft + 7
    [] pc = "fail"                -> 2 + Len(stack)
    [] pc = "done"                -> 1
    [] OTHER                      -> 0
StepsRunOut ==
  /\ [](StepsLeft \in 0..(3 * Len(content) + 9))
  /\ [][StepsLeft' < StepsLeft]_vars

(* Every text is dealt with in the end.                                    *)
Terminates == <>(pc = "extracted")
=============================================================================
