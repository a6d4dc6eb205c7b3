----------------------------- MODULE JsonParser -----------------------------
(***************************************************************************)
(* cJSON_ParseWithLengthOpts and what it calls, from text to tree.  The    *)
(* calls of parse_array and parse_object that are under way form the       *)
(* stack; parse_value is entered at pc "value" and returns to "after", or  *)
(* to "fail", in the call on top.                                          *)
(***************************************************************************)
EXTENDS JsonString

CONSTANT NestingLimit   \* CJSON_NESTING_LIMIT

ASSUME LimitAssumption == NestingLimit \in Nat

VARIABLES pc,
          depth,        \* buffer.depth
          stack,        \* per call: the node, its list so far, and what it is
          root,         \* the tree, NULL without one
          require,      \* require_null_terminated
          parse_end     \* where parsing ended, or failed

callVars == <<depth, stack>>
endVars  == <<root, parse_end>>
parserVars == <<bufferVars, heapVars, stringVars, item, pc, depth, stack, root,
                require, parse_end>>

OpenOf  == [Array |-> 91, Object |-> 123]
CloseOf == [Array |-> 93, Object |-> 125]
Comma == 44
Colon == 58

Literals == [NULL |-> <<110, 117, 108, 108>>, False |-> <<102, 97, 108, 115, 101>>,
             True |-> <<116, 114, 117, 101>>]

Digits == 48..57
Minus  == 45
Point  == 46
Exponents   == {101, 69}
NumberChars == Digits \cup {43, Minus, Point} \cup Exponents

\* strtod: the longest prefix that spells a decimal number.
Unsigned(s) == IF s # <<>> /\ s[1] \in {43, Minus} THEN SubSeq(s, 2, Len(s)) ELSE s
AllDigits(s) == s # <<>> /\ \A k \in 1..Len(s) : s[k] \in Digits
IsDecimal(s) ==
  /\ \E k \in 1..Len(s) : s[k] \in Digits
  /\ \E point \in 1..(Len(s) + 1) : \A k \in 1..Len(s) :
        s[k] \in IF k = point THEN {Point} ELSE Digits
IsNumber(s) ==
  \/ IsDecimal(Unsigned(s))
  \/ \E e \in 1..Len(s) : /\ s[e] \in Exponents
                          /\ IsDecimal(Unsigned(SubSeq(s, 1, e - 1)))
                          /\ AllDigits(Unsigned(SubSeq(s, e + 1, Len(s))))
NumberLength(o) ==
  Max({0} \cup
      {n \in 1..(Len(content) - o) :
         /\ \A k \in o..(o + n - 1) : Byte(k) \in NumberChars
         /\ IsNumber(SubSeq(content, o + 1, o + n))})

top == stack[Len(stack)]
Pop == SubSeq(stack, 1, Len(stack) - 1)
Returned(calls) == IF calls = <<>> THEN "parsed" ELSE "after"

ParserInit ==
  /\ BufferInit /\ HeapInit /\ StringInit
  /\ pc = "start"
  /\ depth = 0
  /\ stack = <<>>
  /\ root = NULL
  /\ require \in BOOLEAN
  /\ parse_end = 0

-----------------------------------------------------------------------------
\* An empty text, or no memory for the root, fails before anything is read.
Start ==
  /\ pc = "start"
  /\ content # <<>> /\ Unused # {}
  /\ heap' = With(heap, Fresh, Blank)
  /\ root' = Fresh /\ item' = Fresh
  /\ offset' = buffer_skip_whitespace(skip_utf8_bom)
  /\ pc' = "value"
  /\ UNCHANGED <<strings, refused, stringVars, callVars, parse_end>>

NoStart ==
  /\ pc = "start"
  /\ refused' = (content # <<>>)
  /\ pc' = "fail"
  /\ UNCHANGED <<offset, heap, strings, stringVars, item, callVars, endVars>>

-----------------------------------------------------------------------------
\* parse_value, by what stands at the offset.
ParseLiteral ==
  /\ pc = "value"
  /\ \E t \in DOMAIN Literals :
       /\ WordAt(offset, Literals[t])
       /\ heap' = [heap EXCEPT ![item].type = t]
       /\ offset' = offset + Len(Literals[t])
  /\ pc' = Returned(stack)
  /\ UNCHANGED <<strings, refused, stringVars, item, callVars, endVars>>

ParseStringValue ==
  /\ pc = "value"
  /\ ByteIs(offset, Quote)
  /\ parse_string(offset)
  /\ pc' = "string"
  /\ UNCHANGED <<heapVars, item, callVars, endVars>>

StringReturned ==
  /\ pc = "string" /\ sPc \in {"ok", "failed"}
  /\ pc' = IF sPc = "ok" THEN Returned(stack) ELSE "fail"
  /\ EndString
  /\ UNCHANGED <<offset, heapVars, item, callVars, endVars>>

NumberAt(o) == Readable(o) /\ Byte(o) \in Digits \cup {Minus}

ParseNumber ==
  /\ pc = "value"
  /\ NumberAt(offset) /\ NumberLength(offset) > 0
  /\ heap' = [heap EXCEPT ![item].type = "Number"]
  /\ offset' = offset + NumberLength(offset)
  /\ pc' = Returned(stack)
  /\ UNCHANGED <<strings, refused, stringVars, item, callVars, endVars>>

\* No memory for the copy that strtod reads, or nothing strtod can use.
ParseNoNumber ==
  /\ pc = "value"
  /\ NumberAt(offset)
  /\ refused' = TRUE \/ (NumberLength(offset) = 0 /\ UNCHANGED refused)
  /\ pc' = "fail"
  /\ UNCHANGED <<offset, heap, strings, stringVars, item, callVars, endVars>>

\* The beginning of parse_array and parse_object: too deep, empty, or a list,
\* which fails at once when nothing stands behind the bracket.
Opening(kind) == pc = "value" /\ ByteIs(offset, OpenOf[kind])
Behind == buffer_skip_whitespace(offset + 1)

TooDeep(kind) ==
  /\ Opening(kind) /\ depth >= NestingLimit
  /\ pc' = "fail"
  /\ UNCHANGED <<offset, heapVars, stringVars, item, callVars, endVars>>

EmptyList ==
  /\ pc' = Returned(stack)
  /\ offset' = Behind + 1
  /\ UNCHANGED <<strings, refused, stringVars, item, stack, endVars>>
OpenEmpty_counted(kind) ==
  /\ Opening(kind) /\ depth < NestingLimit
  /\ ByteIs(Behind, CloseOf[kind])
  /\ heap' = [heap EXCEPT ![item].type = kind]
  /\ depth' = depth + 1
  /\ EmptyList
OpenEmpty(kind) ==
  /\ Opening(kind) /\ depth < NestingLimit
  /\ ByteIs(Behind, CloseOf[kind])
  /\ heap' = [heap EXCEPT ![item].type = kind]
  /\ UNCHANGED depth
  /\ EmptyList

OpenList(kind) ==
  /\ Opening(kind) /\ depth < NestingLimit
  /\ ~ByteIs(Behind, CloseOf[kind])
  /\ depth' = depth + 1
  /\ offset' = Behind - 1
  /\ IF Readable(Behind)
     THEN /\ stack' = Append(stack, [item |-> item, kind |-> kind,
                                     head |-> NULL, current |-> NULL])
          /\ pc' = "element"
     ELSE pc' = "fail" /\ UNCHANGED stack
  /\ UNCHANGED <<heapVars, stringVars, item, endVars>>

Open(kind) == TooDeep(kind) \/ OpenEmpty(kind) \/ OpenList(kind)
OpenArray  == Open("Array")
OpenObject == Open("Object")

ParseNothing ==
  /\ pc = "value"
  /\ Readable(offset) =>
       /\ \A t \in DOMAIN Literals : ~WordAt(offset, Literals[t])
       /\ Byte(offset) \notin Digits \cup {Minus, Quote, OpenOf["Array"], OpenOf["Object"]}
  /\ pc' = "fail"
  /\ UNCHANGED <<offset, heapVars, stringVars, item, callVars, endVars>>

-----------------------------------------------------------------------------
\* A node at the end of the list of the call on top.
Attached(n) ==
  IF top.head = NULL THEN With(heap, n, Blank)
  ELSE With([heap EXCEPT ![top.current].next = n], n, [Blank EXCEPT !.prev = top.current])
WithElement(n) ==
  [stack EXCEPT ![Len(stack)].current = n,
                ![Len(stack)].head = IF @ = NULL THEN n ELSE @]
AttachElement ==
  /\ Unused # {}
  /\ heap' = Attached(Fresh)
  /\ stack' = WithElement(Fresh)
  /\ item' = Fresh

NoElement ==
  /\ pc = "element"
  /\ pc' = "fail" /\ refused' = TRUE
  /\ UNCHANGED <<offset, heap, strings, stringVars, item, callVars, endVars>>

ArrayElement ==
  /\ pc = "element" /\ top.kind = "Array"
  /\ AttachElement
  /\ offset' = buffer_skip_whitespace(offset + 1)
  /\ pc' = "value"
  /\ UNCHANGED <<strings, refused, stringVars, depth, endVars>>

ObjectMember ==
  /\ pc = "element" /\ top.kind = "Object"
  /\ AttachElement
  /\ IF Readable(offset + 1)
     THEN parse_string(buffer_skip_whitespace(offset + 1)) /\ pc' = "name"
     ELSE pc' = "fail" /\ UNCHANGED <<offset, stringVars>>
  /\ UNCHANGED <<strings, refused, depth, endVars>>

\* What parse_string put into valuestring is the member's name.
Named_twice(node) == [node EXCEPT !.string = node.valuestring]
Named(node) == [node EXCEPT !.string = node.valuestring, !.valuestring = NULL]
MemberName ==
  /\ pc = "name" /\ sPc = "ok"
  /\ heap' = [heap EXCEPT ![item] = Named(@)]
  /\ LET o == buffer_skip_whitespace(offset)
     IN  IF ByteIs(o, Colon)
         THEN offset' = buffer_skip_whitespace(o + 1) /\ pc' = "value"
         ELSE offset' = o /\ pc' = "fail"
  /\ EndString
  /\ UNCHANGED <<strings, refused, item, callVars, endVars>>

NoMemberName ==
  /\ pc = "name" /\ sPc = "failed"
  /\ pc' = "fail"
  /\ EndString
  /\ UNCHANGED <<offset, heapVars, item, callVars, endVars>>

\* Behind a value: another one, the end of the array or object, or an error.
AfterValue ==
  /\ pc = "after"
  /\ offset' = buffer_skip_whitespace(offset)
  /\ ~ByteIs(offset', CloseOf[top.kind])
  /\ pc' = IF ByteIs(offset', Comma) THEN "element" ELSE "fail"
  /\ UNCHANGED <<heapVars, stringVars, item, callVars, endVars>>

ListClosed_headless ==
  [heap EXCEPT ![top.item].type = top.kind, ![top.item].child = top.head]
ListClosed ==
  [heap EXCEPT ![top.head].prev = top.current,
               ![top.item].type = top.kind, ![top.item].child = top.head]
CloseList ==
  /\ pc = "after"
  /\ LET o == buffer_skip_whitespace(offset)
     IN  ByteIs(o, CloseOf[top.kind]) /\ offset' = o + 1
  /\ depth' = depth - 1
  /\ heap' = ListClosed
  /\ stack' = Pop
  /\ pc' = Returned(Pop)
  /\ UNCHANGED <<strings, refused, stringVars, item, endVars>>

\* A call that fails deletes its list.  Its node belongs to the caller.
Unwind_keeping ==
  /\ pc = "fail" /\ stack # <<>>
  /\ stack' = Pop
  /\ UNCHANGED <<offset, heapVars, stringVars, item, pc, depth, endVars>>
Unwind ==
  /\ pc = "fail" /\ stack # <<>>
  /\ cJSON_Delete(top.head)
  /\ stack' = Pop
  /\ UNCHANGED <<offset, refused, stringVars, item, pc, depth, endVars>>

-----------------------------------------------------------------------------
\* Back in cJSON_ParseWithLengthOpts.
Parsed ==
  /\ pc = "parsed"
  /\ offset' = IF require THEN buffer_skip_whitespace(offset) ELSE offset
  /\ IF require /\ ~ByteIs(offset', 0)
     THEN pc' = "fail" /\ UNCHANGED parse_end
     ELSE pc' = "done" /\ parse_end' = offset'
  /\ UNCHANGED <<heapVars, stringVars, item, callVars, root>>

Failed ==
  /\ pc = "fail" /\ stack = <<>>
  /\ cJSON_Delete(root)
  /\ root' = NULL
  /\ parse_end' = IF Readable(offset) \/ content = <<>> THEN offset ELSE Len(content) - 1
  /\ pc' = "done"
  /\ UNCHANGED <<offset, refused, stringVars, item, callVars>>

StringRuns ==
  /\ pc \in {"string", "name"}
  /\ StringStep
  /\ UNCHANGED <<pc, callVars, endVars>>

ParserStep ==
  /\ \/ Start \/ NoStart
     \/ ParseLiteral \/ ParseStringValue \/ StringReturned
     \/ ParseNumber \/ ParseNoNumber \/ OpenArray \/ OpenObject \/ ParseNothing
     \/ NoElement \/ ArrayElement \/ ObjectMember \/ MemberName \/ NoMemberName
     \/ AfterValue \/ CloseList
     \/ Unwind \/ Parsed \/ Failed
     \/ StringRuns
  /\ UNCHANGED <<content, require>>
=============================================================================
