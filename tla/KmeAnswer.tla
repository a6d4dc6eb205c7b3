------------------------------ MODULE KmeAnswer ------------------------------
(***************************************************************************)
(* What main of c/alice.c makes of a KME's answer: connection_qkd gathers  *)
(* it, then get_key and get_key_id each parse the whole of it again and    *)
(* copy one field out.                                                     *)
(***************************************************************************)
EXTENDS JsonFields

CONSTANTS Bodies,                   \* the answers a KME may give
          KeyName, KeyIdName        \* the names "key" and "key_ID"

ASSUME BodiesAssumption == Bodies \subseteq Seq(0..255)
\* The empty text is the one of no call yet.
ASSUME CallsAssumption == <<>> \in Texts /\ {KeyName, KeyIdName} \subseteq FieldNames

VARIABLES cPc, body, received, memory, size, blocks,   \* of connection_qkd
          found                     \* key and key_id, for each look-up that returned

Client == INSTANCE KmeClient
clientVars == <<cPc, body, received, memory, size, blocks>>
answerVars == <<vars, clientVars, found>>

\* The block up to its first zero byte.  One that was never written to may
\* hold none, and is read until memory happens to have one.
Block == CString(memory) \o <<0>>

AnswerInit ==
  /\ Client!Init
  /\ Init /\ content = <<>> /\ require = FALSE /\ field = KeyName
  /\ found = <<>>

-----------------------------------------------------------------------------
Fetch == Client!Next /\ UNCHANGED <<vars, found>>

\* The call of get_key, or of get_key_id.
Ask_stale(name) ==
  /\ content' = Block
  /\ field' = name
  /\ offset' = 0
  /\ pc' = "start"
  /\ depth' = 0 /\ root' = NULL
  /\ UNCHANGED <<heapVars, stringVars, item, stack, require, parse_end, result, clientVars>>
Ask(name) ==
  /\ content' = Block
  /\ field' = name
  /\ offset' = 0
  /\ pc' = "start"
  /\ depth' = 0 /\ root' = NULL /\ result' = NULL
  /\ UNCHANGED <<heapVars, stringVars, item, stack, require, parse_end, clientVars>>
get_key ==
  /\ cPc = "returned" /\ memory # Client!NoBlock
  /\ found = <<>> /\ content = <<>>
  /\ Ask(KeyName) /\ UNCHANGED found

LookUp ==
  /\ content # <<>>
  /\ Parse \/ Extract \/ NoTree
  /\ UNCHANGED <<clientVars, found>>

get_key_id ==
  /\ pc = "extracted" /\ found = <<>>
  /\ found' = <<result>>
  /\ Ask(KeyIdName)
KeyIdReturned ==
  /\ pc = "extracted" /\ Len(found) = 1
  /\ found' = Append(found, result)
  /\ UNCHANGED <<vars, clientVars>>

Settled == (cPc = "returned" /\ memory = Client!NoBlock) \/ Len(found) = 2
Unanswered == cPc = "unanswered"
AnswerUsed == (Settled \/ Unanswered) /\ UNCHANGED answerVars

AnswerNext == Fetch \/ get_key \/ LookUp \/ get_key_id \/ KeyIdReturned \/ AnswerUsed

AnswerSpec ==
  /\ AnswerInit /\ [][AnswerNext]_answerVars
  /\ WF_answerVars(Fetch) /\ WF_answerVars(get_key) /\ WF_answerVars(LookUp)
  /\ WF_answerVars(get_key_id) /\ WF_answerVars(KeyIdReturned)

-----------------------------------------------------------------------------
AnswerTypeOK ==
  /\ TypeOK /\ Client!TypeOK
  /\ found \in Seq(Seq(Bytes) \cup {NULL}) /\ Len(found) <= 2

\* What is returned once a byte was received is the whole answer and its
\* terminator, in however many pieces it came: a failure half-way returns
\* NULL and not the part that did arrive (connection_qkd.c:30-32, 61-65).
WholeOrNothing ==
  cPc = "returned" /\ received > 0 => memory \in {Client!NoBlock, body \o <<0>>}

\* The block is the caller's when a pointer is returned and free when NULL is,
\* also when realloc failed and left the old block (connection_qkd.c:27, 63).
BlockHasOneOwner ==
  cPc = "returned" => blocks = (IF memory = Client!NoBlock THEN 0 ELSE 1)

(* Behind the look-ups all that is left is the block and the copies.       *)
OnlyCopiesLeft ==
  Len(found) = 2 =>
    /\ DOMAIN heap = {} /\ blocks = 1
    /\ strings = Cardinality({n \in 1..2 : found[n] # NULL})

(* From the request to the second field every step gets on, in seven steps *)
(* for each byte of the answer and 38 more: a piece brings a byte at       *)
(* least, and each look-up reads the block once, which is one byte longer  *)
(* than the answer, or two (connection_qkd.c:22-35, handle_json.c:13-40).  *)
GatherSteps ==
  (Len(body) - received) + (CASE cPc = "start"   -> 4
                              [] cPc = "init"    -> 3
                              [] cPc = "perform" -> 2
                              [] cPc = "failed"  -> 1
                              [] OTHER           -> 0)
AskSteps == 3 * Len(body) + 17      \* the call, the look-up, the return
LookUpSteps ==
  IF content = <<>>       THEN 2 * AskSteps
  ELSE IF found = <<>>    THEN (StepsLeft + 1) + AskSteps
  ELSE IF Len(found) = 1  THEN StepsLeft + 1
  ELSE 0
AnswerStepsLeft == GatherSteps + LookUpSteps
AnswerStepsRunOut ==
  /\ [](AnswerStepsLeft \in 0..(7 * Len(body) + 38))
  /\ [][AnswerStepsLeft' < AnswerStepsLeft]_answerVars
=============================================================================
