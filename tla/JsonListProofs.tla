--------------------------- MODULE JsonListProofs ---------------------------
(***************************************************************************)
(* cJSON's lists are linked both ways, and a head knows its tail: for      *)
(* every text, every set of addresses and every allocation refused.  What  *)
(* walks such a list sees its nodes, each once, and stops.  Every string   *)
(* that is allocated has one owner.                                        *)
(***************************************************************************)
EXTENDS JsonNodeProofs, FiniteSetTheorems

-----------------------------------------------------------------------------
(* Chains: what the next pointers make of a heap.                          *)

NextShut(h, S) == \A m \in S : h[m].next \in S \cup {NULL}

(* No two nodes have the same successor.                                   *)
Chained(h) ==
  /\ NULL \notin DOMAIN h
  /\ NextShut(h, DOMAIN h)
  /\ \A m, n \in DOMAIN h : m # n /\ h[m].next = h[n].next => h[m].next = NULL

(* A node that is nobody's successor.                                      *)
Starts(h, c) == c \in DOMAIN h /\ \A m \in DOMAIN h : h[m].next # c

(* The list from c ends in t: t has no successor, and is in every set that *)
(* holds c and the successors of its members.                              *)
EndsIn(h, c, t) ==
  /\ t \in DOMAIN h /\ h[t].next = NULL
  /\ \A S \in SUBSET DOMAIN h : c \in S /\ NextShut(h, S) => t \in S

LEMMA ForestChained ==
  ASSUME NEW h, NEW O, Forest(h, O), NULL \notin DOMAIN h
  PROVE  /\ Chained(h)
         /\ \A o \in O : Starts(h, o)
         /\ \A m \in DOMAIN h : h[m].child # NULL => Starts(h, h[m].child)
<1>1. \A m \in DOMAIN h : {h[m].next, h[m].child} \ {NULL} \subseteq DOMAIN h
  BY DEF Forest, Solid, Shut, Points
<1>2. \A m, n \in DOMAIN h : m # n =>
        ({h[m].next, h[m].child} \ {NULL}) \cap ({h[n].next, h[n].child} \ {NULL}) = {}
  BY DEF Forest, Points
<1>3. Chained(h)
  BY <1>1, <1>2 DEF Chained, NextShut
<1>4. \A o \in O : Starts(h, o)
  BY <1>1 DEF Starts, Forest, Points
<1>5. ASSUME NEW m \in DOMAIN h, h[m].child # NULL PROVE Starts(h, h[m].child)
  <2>1. h[m].child \in DOMAIN h
    BY <1>1, <1>5
  <2>2. ASSUME NEW n \in DOMAIN h PROVE h[n].next # h[m].child
    <3>1. CASE n = m
      BY <1>5, <3>1 DEF Forest
    <3>2. CASE n # m
      BY <1>2, <1>5, <3>2
    <3> QED
      BY <3>1, <3>2
  <2> QED
    BY <2>1, <2>2 DEF Starts
<1> QED
  BY <1>3, <1>4, <1>5

(* Two lists do not end in the same node.                                  *)
LEMMA ChainsApart ==
  ASSUME NEW h, Chained(h), NEW c, NEW d, Starts(h, c), Starts(h, d), c # d,
         NEW t, EndsIn(h, c, t)
  PROVE  ~EndsIn(h, d, t)
<1>1. SUFFICES ASSUME EndsIn(h, d, t) PROVE FALSE
  OBVIOUS
<1> DEFINE D == {m \in DOMAIN h : \A S \in SUBSET DOMAIN h : d \in S /\ NextShut(h, S) => m \in S}
           S == DOMAIN h \ D
<1>2. d \in D /\ D \in SUBSET DOMAIN h /\ t \in D
  BY <1>1 DEF Starts, EndsIn
<1>3. NextShut(h, D)
  BY DEF NextShut, Chained
<1>4. ASSUME NEW R \in SUBSET DOMAIN h, d \in R, NextShut(h, R) PROVE D \subseteq R
  BY <1>4
<1>5. c \notin D
  <2>1. NextShut(h, D \ {c})
    BY <1>3 DEF NextShut, Starts
  <2> QED
    BY <1>2, <1>4, <2>1
<1>6. NextShut(h, S)
  <2>1. SUFFICES ASSUME NEW m \in S, h[m].next \in D PROVE FALSE
    BY DEF NextShut, Chained
  <2> DEFINE n == h[m].next
  <2>2. n # d /\ n # NULL
    BY <2>1 DEF Starts, Chained
  <2>3. NextShut(h, D \ {n})
    BY <1>2, <1>3, <2>1, <2>2 DEF NextShut, Chained
  <2> QED
    BY <1>2, <1>4, <2>1, <2>2, <2>3
<1>7. c \in S
  BY <1>5 DEF Starts
<1>8. t \in S
  BY <1>6, <1>7 DEF EndsIn
<1> QED
  BY <1>2, <1>8

-----------------------------------------------------------------------------
(* What the parser does to the lists.                                      *)

(* Every list that has an owner or a node above it is in order: linked     *)
(* back from every successor, and known at its head if it is a child's.    *)
BackLinked(h) == \A n \in DOMAIN h : h[n].next # NULL => h[h[n].next].prev = n
TailKnown(h)  == \A n \in DOMAIN h : h[n].child # NULL => EndsIn(h, h[n].child, h[h[n].child].prev)
Building(h, s) == \A k \in 1..Len(s) : s[k].head # NULL => EndsIn(h, s[k].head, s[k].current)

SamePrev(h, g) == \A m \in DOMAIN h : g[m].prev = h[m].prev

(* As long as no next pointer changes, every list ends where it ended.     *)
LEMMA SameEnds ==
  ASSUME NEW h, NEW g, DOMAIN g = DOMAIN h, SameNext(h, g), NEW c, NEW t, EndsIn(h, c, t)
  PROVE  EndsIn(g, c, t)
BY DEF SameNext, EndsIn, NextShut

LEMMA SamePointersSameLists ==
  ASSUME NEW h, NEW g, SamePointers(h, g), SamePrev(h, g), NextShut(h, DOMAIN h),
         \A n \in DOMAIN h : h[n].child \in DOMAIN h \cup {NULL},
         NEW s, BackLinked(h), TailKnown(h), Building(h, s)
  PROVE  BackLinked(g) /\ TailKnown(g) /\ Building(g, s)
<1>1. DOMAIN g = DOMAIN h /\ SameNext(h, g)
  BY DEF SamePointers, SameNext
<1>2. BackLinked(g)
  BY <1>1 DEF BackLinked, SameNext, SamePrev, NextShut
<1>3. \A n \in DOMAIN h : h[n].child # NULL => g[h[n].child].prev = h[h[n].child].prev
  BY DEF SamePrev
<1>4. TailKnown(g)
  BY <1>1, <1>3, SameEnds DEF TailKnown, SamePointers
<1>5. Building(g, s)
  BY <1>1, SameEnds DEF Building
<1> QED
  BY <1>2, <1>4, <1>5

(* A list keeps its end when another one grows, ...                        *)
LEMMA OtherEnds ==
  ASSUME NEW h, NextShut(h, DOMAIN h), NEW g, NEW n, AddsNode(h, g, n), NEW u,
         \A m \in DOMAIN h \ {u} : g[m].next = h[m].next, u \in DOMAIN h => h[u].next = NULL,
         NEW c \in DOMAIN h, NEW t, EndsIn(h, c, t), t # u
  PROVE  EndsIn(g, c, t)
<1>1. t \in DOMAIN g /\ g[t].next = NULL
  BY DEF EndsIn, AddsNode
<1>2. ASSUME NEW S \in SUBSET DOMAIN g, c \in S, NextShut(g, S) PROVE t \in S
  <2>1. NextShut(h, S \cap DOMAIN h)
    <3>1. SUFFICES ASSUME NEW m \in S \cap DOMAIN h, h[m].next # NULL
                   PROVE  h[m].next \in S \cap DOMAIN h
      BY DEF NextShut
    <3> QED
      BY <1>2, <3>1 DEF NextShut
  <2> QED
    BY <1>2, <2>1 DEF EndsIn
<1> QED
  BY <1>1, <1>2 DEF EndsIn

(* ... and the one that grows ends in the new node.                        *)
LEMMA GrownEnd ==
  ASSUME NEW h, NextShut(h, DOMAIN h), NEW g, NEW n, AddsNode(h, g, n), NEW u,
         \A m \in DOMAIN h \ {u} : g[m].next = h[m].next,
         NEW c \in DOMAIN h, EndsIn(h, c, u), g[u].next = n
  PROVE  EndsIn(g, c, n)
<1>1. n \in DOMAIN g /\ g[n].next = NULL /\ n # NULL /\ h[u].next = NULL /\ u \in DOMAIN h
  BY DEF EndsIn, AddsNode
<1>2. ASSUME NEW S \in SUBSET DOMAIN g, c \in S, NextShut(g, S) PROVE n \in S
  <2>1. NextShut(h, S \cap DOMAIN h)
    <3>1. SUFFICES ASSUME NEW m \in S \cap DOMAIN h, h[m].next # NULL
                   PROVE  h[m].next \in S \cap DOMAIN h
      BY DEF NextShut
    <3> QED
      BY <1>1, <1>2, <3>1 DEF NextShut
  <2>2. u \in S
    BY <1>2, <2>1 DEF EndsIn
  <2> QED
    BY <1>1, <1>2, <2>2 DEF NextShut
<1> QED
  BY <1>1, <1>2 DEF EndsIn

(* A list of one node ends in it.                                          *)
LEMMA LoneEnd ==
  ASSUME NEW h, NEW n \in DOMAIN h, h[n].next = NULL
  PROVE  EndsIn(h, n, n)
BY DEF EndsIn

(* What is left when lists are deleted is as it was.                       *)
LEMMA LeftLists ==
  ASSUME NEW h, NEW R, NEW g, g = Without(h, R),
         \A m \in DOMAIN h \ R : {h[m].next, h[m].child} \subseteq (DOMAIN h \ R) \cup {NULL},
         BackLinked(h), TailKnown(h)
  PROVE  /\ BackLinked(g) /\ TailKnown(g)
         /\ \A c \in DOMAIN h \ R : \A t : EndsIn(h, c, t) => EndsIn(g, c, t)
<1>1. DOMAIN g = DOMAIN h \ R /\ \A m \in DOMAIN g : g[m] = h[m]
  BY DEF Without
<1>2. ASSUME NEW c \in DOMAIN h \ R, NEW t, EndsIn(h, c, t) PROVE EndsIn(g, c, t)
  <2>1. NextShut(h, DOMAIN g)
    BY <1>1 DEF NextShut
  <2>2. t \in DOMAIN g
    BY <1>1, <1>2, <2>1 DEF EndsIn
  <2>3. \A S \in SUBSET DOMAIN g : NextShut(g, S) => S \in SUBSET DOMAIN h /\ NextShut(h, S)
    BY <1>1 DEF NextShut
  <2> QED
    BY <1>1, <1>2, <2>2, <2>3 DEF EndsIn
<1>3. BackLinked(g)
  BY <1>1 DEF BackLinked
<1>4. TailKnown(g)
  BY <1>1, <1>2 DEF TailKnown
<1> QED
  BY <1>2, <1>3, <1>4

-----------------------------------------------------------------------------
(* The lists in every state of the parser.                                 *)

ListInv ==
  /\ BackLinked(heap) /\ TailKnown(heap)
  /\ pc # "extracted" => Building(heap, stack)

(* What the invariants of the nodes say of the lists.                      *)
LEMMA ListsKnown ==
  ASSUME IInv, OwnInv, pc # "extracted"
  PROVE  /\ Linked(heap, stack, root) /\ Chained(heap) /\ NextShut(heap, DOMAIN heap)
         /\ NULL \notin DOMAIN heap /\ HeapOK(heap) /\ stack \in Seq(Call) /\ Len(stack) \in Nat
         /\ \A m \in DOMAIN heap : heap[m].child \in DOMAIN heap \cup {NULL}
         /\ \A m \in DOMAIN heap : heap[m].child # NULL => Starts(heap, heap[m].child)
         /\ \A k \in 1..Len(stack) : stack[k].head # NULL =>
              /\ Starts(heap, stack[k].head) /\ stack[k].head \in Bases(stack, root)
              /\ \A m \in DOMAIN heap : heap[m].child # stack[k].head
<1>1. Linked(heap, stack, root) /\ HeapOK(heap) /\ stack \in Seq(Call) /\ Len(stack) \in Nat
  BY Known DEF OwnInv
<1>2. Forest(heap, Bases(stack, root))
  BY <1>1 DEF Linked
<1>3. NULL \notin DOMAIN heap
  BY <1>1, NodesAssumption DEF HeapOK
<1>4. /\ Chained(heap) /\ \A o \in Bases(stack, root) : Starts(heap, o)
      /\ \A m \in DOMAIN heap : heap[m].child # NULL => Starts(heap, heap[m].child)
  BY <1>2, <1>3, ForestChained
<1>5. \A k \in 1..Len(stack) : stack[k].head # NULL => stack[k].head \in Bases(stack, root)
  BY <1>1 DEF Bases, Base
<1>6. /\ \A m \in DOMAIN heap : heap[m].child \in DOMAIN heap \cup {NULL}
      /\ \A o \in Bases(stack, root), m \in DOMAIN heap : heap[m].child # o
  BY <1>2, <1>3 DEF Forest, Solid, Shut, Points
<1> QED
  BY <1>1, <1>3, <1>4, <1>5, <1>6 DEF Chained

(* Most steps leave the pointers and the calls alone.                      *)
PlainStep ==
  \/ NoStart \/ ParseLiteral \/ ParseStringValue \/ StringReturned
  \/ ParseNumber \/ ParseNoNumber \/ ParseNothing \/ NoElement
  \/ MemberName \/ NoMemberName \/ AfterValue \/ Parsed \/ StringRuns
  \/ \E kind \in DOMAIN OpenOf : TooDeep(kind) \/ OpenEmpty(kind)

LEMMA TypePrev ==
  ASSUME NEW h, HeapOK(h), NEW n, NEW t
  PROVE  SamePrev(h, [h EXCEPT ![n].type = t])
BY DEF SamePrev, HeapOK, Node

LEMMA PlainHeap ==
  ASSUME PlainStep
  PROVE  /\ pc # "extracted" /\ stack' = stack
         /\ \/ heap' = heap
            \/ \E t : heap' = [heap EXCEPT ![item].type = t]
            \/ heap' = [heap EXCEPT ![item] = Named(@)]
            \/ heap' = [heap EXCEPT ![item].type = "String", ![item].valuestring = output]
<1>1. CASE StringRuns
  BY <1>1 DEF StringRuns, StringStep, ScanChar, ScanEscape, AllocateOutput, DecodeChar, DecodeEscape,
              DecodeLiteral, DecodeFails, StringParsed, StringFailed, heapVars, callVars
<1>2. CASE PlainStep /\ ~StringRuns
  BY <1>2 DEF PlainStep, NoStart, ParseLiteral, ParseStringValue, StringReturned, ParseNumber,
              ParseNoNumber, ParseNothing, NoElement, MemberName, NoMemberName, AfterValue, Parsed,
              TooDeep, OpenEmpty, EmptyList, Opening, heapVars, callVars
<1> QED
  BY <1>1, <1>2

LEMMA PlainStepsKeepLists ==
  ASSUME IInv, OwnInv, ListInv, PlainStep
  PROVE  ListInv'
<1>1. /\ pc # "extracted" /\ stack' = stack
      /\ \/ heap' = heap
         \/ \E t : heap' = [heap EXCEPT ![item].type = t]
         \/ heap' = [heap EXCEPT ![item] = Named(@)]
         \/ heap' = [heap EXCEPT ![item].type = "String", ![item].valuestring = output]
  BY PlainHeap
<1>2. HeapOK(heap) /\ NextShut(heap, DOMAIN heap) /\ \A m \in DOMAIN heap : heap[m].child \in DOMAIN heap \cup {NULL}
  BY <1>1, ListsKnown
<1>3. SamePointers(heap, heap') /\ SamePrev(heap, heap')
  <2>1. CASE heap' = heap
    BY <2>1 DEF SamePointers, SamePrev
  <2>2. CASE \E t : heap' = [heap EXCEPT ![item].type = t]
    <3>1. PICK t : heap' = [heap EXCEPT ![item].type = t]
      BY <2>2
    <3> QED
      BY <1>2, <3>1, TypeOnly, TypePrev
  <2>3. CASE heap' = [heap EXCEPT ![item] = Named(@)]
    BY <1>2, <2>3 DEF Named, SamePointers, SamePrev, HeapOK, Node
  <2>4. CASE heap' = [heap EXCEPT ![item].type = "String", ![item].valuestring = output]
    BY <1>2, <2>4 DEF SamePointers, SamePrev, HeapOK, Node
  <2> QED
    BY <1>1, <2>1, <2>2, <2>3, <2>4
<1> QED
  BY <1>1, <1>2, <1>3, SamePointersSameLists DEF ListInv

LEMMA StartLists ==
  ASSUME IInv, OwnInv, Start
  PROVE  ListInv'
<1>1. /\ pc = "start" /\ pc' = "value" /\ stack' = <<>>
      /\ heap' = With(heap, Fresh, Blank)
  BY DEF Start, OwnInv, callVars
<1>2. DOMAIN heap = {}
  <2>1. stack = <<>> /\ root = NULL
    BY <1>1 DEF OwnInv
  <2> QED
    BY <1>1, <2>1, OneTree
<1>3. DOMAIN heap' = {Fresh} /\ heap'[Fresh].next = NULL /\ heap'[Fresh].child = NULL
  BY <1>1, <1>2 DEF With, Blank
<1> QED
  BY <1>1, <1>3 DEF ListInv, BackLinked, TailKnown, Building

LEMMA OpenListLists ==
  ASSUME IInv, OwnInv, ListInv, NEW kind \in DOMAIN OpenOf, OpenList(kind)
  PROVE  ListInv'
<1> DEFINE c == [item |-> item, kind |-> kind, head |-> NULL, current |-> NULL]
<1>1. pc = "value" /\ heap' = heap /\ (stack' = Append(stack, c) \/ stack' = stack)
  BY DEF OpenList, Opening, heapVars
<1>2. Building(heap, stack) /\ stack \in Seq(Call) /\ Len(stack) \in Nat
  BY <1>1, Known DEF ListInv
<1>3. Building(heap, Append(stack, c))
  <2>1. c.head = NULL
    OBVIOUS
  <2> HIDE DEF c
  <2>2. /\ Len(Append(stack, c)) = Len(stack) + 1 /\ Append(stack, c)[Len(stack) + 1] = c
        /\ \A k \in 1..Len(stack) : Append(stack, c)[k] = stack[k]
    BY <1>2
  <2>3. \A k \in 1..(Len(stack) + 1) : k \in 1..Len(stack) \/ k = Len(stack) + 1
    BY <1>2
  <2> QED
    BY <1>2, <2>1, <2>2, <2>3 DEF Building
<1> QED
  BY <1>1, <1>2, <1>3 DEF ListInv

LEMMA ElementLists ==
  ASSUME IInv, OwnInv, ListInv, ArrayElement \/ ObjectMember
  PROVE  ListInv'
<1> DEFINE N == Len(stack)
           u == stack[N].current
<1>1. /\ pc # "extracted" /\ N \in Nat /\ N > 0 /\ AddsNode(heap, heap', Fresh)
      /\ heap'[Fresh].next = NULL /\ heap'[Fresh].child = NULL
      /\ Fresh # NULL /\ Fresh \notin DOMAIN heap
      /\ DOMAIN heap' = DOMAIN heap \cup {Fresh}
  BY ElementAdded DEF AddsNode
<1>2. /\ NextShut(heap, DOMAIN heap) /\ NULL \notin DOMAIN heap /\ Chained(heap) /\ HeapOK(heap)
      /\ \A m \in DOMAIN heap : heap[m].child \in DOMAIN heap \cup {NULL}
      /\ \A m \in DOMAIN heap : heap[m].child # NULL => Starts(heap, heap[m].child)
      /\ \A k \in 1..N : stack[k].head # NULL =>
           Starts(heap, stack[k].head) /\ \A m \in DOMAIN heap : heap[m].child # stack[k].head
      /\ BackLinked(heap) /\ TailKnown(heap) /\ Building(heap, stack)
  BY <1>1, ListsKnown DEF ListInv
<1>3. /\ Len(stack') = N /\ \A k \in 1..(N - 1) : stack'[k] = stack[k]
      /\ stack'[N].current = Fresh
      /\ stack'[N].head = IF stack[N].head = NULL THEN Fresh ELSE stack[N].head
  BY ElementAdded
<1>4. IF stack[N].head = NULL THEN \A m \in DOMAIN heap : heap'[m].next = heap[m].next
      ELSE heap'[u].next = Fresh /\ \A m \in DOMAIN heap \ {u} : heap'[m].next = heap[m].next
  BY ElementAdded
<1>5. \A m \in DOMAIN heap : heap'[m].prev = heap[m].prev /\ heap'[m].child = heap[m].child
  BY ElementAdded DEF HeapOK, Node
<1>6. stack[N].head # NULL => /\ heap'[Fresh].prev = u /\ u \in DOMAIN heap
                              /\ heap[u].next = NULL /\ EndsIn(heap, stack[N].head, u)
                              /\ Starts(heap, stack[N].head)
  <2>1. stack[N].head # NULL => heap'[Fresh].prev = u
    BY ElementAdded
  <2> QED
    BY <1>1, <1>2, <2>1 DEF Building, EndsIn
<1>7. ASSUME NEW c, Starts(heap, c), c # stack[N].head \/ stack[N].head = NULL,
             NEW t, EndsIn(heap, c, t)
      PROVE  EndsIn(heap', c, t)
  <2>1. c \in DOMAIN heap /\ t \in DOMAIN heap
    BY <1>7 DEF Starts, EndsIn
  <2>2. CASE stack[N].head = NULL
    BY <1>1, <1>2, <1>4, <1>7, <2>1, <2>2, OtherEnds
  <2>3. CASE stack[N].head # NULL
    <3>1. t # u
      BY <1>2, <1>6, <1>7, <2>3, ChainsApart
    <3> QED
      BY <1>1, <1>2, <1>4, <1>6, <1>7, <2>1, <2>3, <3>1, OtherEnds
  <2> QED
    BY <2>2, <2>3
<1>8. BackLinked(heap')
  <2>1. SUFFICES ASSUME NEW n \in DOMAIN heap', heap'[n].next # NULL
                 PROVE  heap'[heap'[n].next].prev = n
    BY DEF BackLinked
  <2>2. n \in DOMAIN heap
    BY <1>1, <2>1
  <2>3. CASE heap'[n].next = heap[n].next
    <3>1. heap[n].next \in DOMAIN heap
      BY <1>2, <2>1, <2>2, <2>3 DEF NextShut
    <3> QED
      BY <1>2, <1>5, <2>1, <2>2, <2>3, <3>1 DEF BackLinked
  <2>4. CASE heap'[n].next # heap[n].next
    BY <1>4, <1>6, <2>2, <2>4
  <2> QED
    BY <2>3, <2>4
<1>9. TailKnown(heap')
  <2>1. SUFFICES ASSUME NEW n \in DOMAIN heap', heap'[n].child # NULL
                 PROVE  EndsIn(heap', heap'[n].child, heap'[heap'[n].child].prev)
    BY DEF TailKnown
  <2>2. n \in DOMAIN heap /\ heap'[n].child = heap[n].child
    BY <1>1, <1>5, <2>1
  <2>3. /\ heap[n].child \in DOMAIN heap /\ Starts(heap, heap[n].child)
        /\ EndsIn(heap, heap[n].child, heap[heap[n].child].prev)
        /\ stack[N].head # NULL => heap[n].child # stack[N].head
    BY <1>1, <1>2, <2>1, <2>2 DEF TailKnown
  <2> QED
    BY <1>5, <1>7, <2>2, <2>3
<1>10. Building(heap', stack')
  <2>1. SUFFICES ASSUME NEW k \in 1..N, stack'[k].head # NULL
                 PROVE  EndsIn(heap', stack'[k].head, stack'[k].current)
    BY <1>3 DEF Building
  <2>2. CASE k # N
    <3>1. k \in 1..(N - 1) /\ stack'[k] = stack[k]
      BY <1>1, <1>3, <2>1, <2>2
    <3>2. Linked(heap, stack, root) /\ stack[k].head = Base(stack, root, k) /\ k \in 0..N
          /\ stack[N].head = Base(stack, root, N) /\ N \in 0..N
      BY <1>1, <2>1, ListsKnown DEF Base
    <3>3. stack[k].head # stack[N].head
      BY <2>1, <2>2, <3>1, <3>2 DEF Linked
    <3> QED
      BY <1>2, <1>7, <2>1, <3>1, <3>3 DEF Building
  <2>3. CASE k = N /\ stack[N].head = NULL
    BY <1>1, <1>3, <2>3, LoneEnd
  <2>4. CASE k = N /\ stack[N].head # NULL
    <3>1. stack[N].head \in DOMAIN heap
      BY <1>6, <2>4 DEF Starts
    <3> QED
      BY <1>1, <1>2, <1>3, <1>4, <1>6, <2>4, <3>1, GrownEnd
  <2> QED
    BY <2>2, <2>3, <2>4
<1> QED
  BY <1>8, <1>9, <1>10 DEF ListInv

LEMMA CloseLists ==
  ASSUME IInv, OwnInv, ListInv, CloseList
  PROVE  ListInv'
<1> DEFINE o == stack[Len(stack)].head
           i == stack[Len(stack)].item
<1>1. /\ pc # "extracted" /\ stack' = Pop /\ o # NULL /\ o \in DOMAIN heap /\ Shorter(stack, Pop)
      /\ heap'[o].prev = stack[Len(stack)].current
      /\ \A m \in DOMAIN heap \ {o} : heap'[m].prev = heap[m].prev
  BY ListHangs
<1>2. /\ DOMAIN heap' = DOMAIN heap /\ heap'[i].child = o
      /\ \A m \in DOMAIN heap : heap'[m].next = heap[m].next
      /\ \A m \in DOMAIN heap \ {i} : heap'[m].child = heap[m].child
  BY ListHangs DEF Hangs
<1>3. /\ Len(stack) \in Nat /\ Len(stack) > 0 /\ Len(Pop) = Len(stack) - 1
      /\ \A k \in 1..Len(Pop) : Pop[k] = stack[k]
  BY <1>1, ListsKnown DEF Shorter
<1>4. /\ BackLinked(heap) /\ TailKnown(heap) /\ Building(heap, stack)
      /\ Starts(heap, o) /\ NextShut(heap, DOMAIN heap)
      /\ \A m \in DOMAIN heap : heap[m].child # o
  BY <1>1, <1>3, ListsKnown DEF ListInv
<1>5. \A c, t : EndsIn(heap, c, t) => EndsIn(heap', c, t)
  BY <1>2, SameEnds DEF SameNext
<1>6. BackLinked(heap')
  BY <1>1, <1>2, <1>4 DEF BackLinked, Starts, NextShut
<1>7. TailKnown(heap')
  <2>1. SUFFICES ASSUME NEW n \in DOMAIN heap, heap'[n].child # NULL
                 PROVE  EndsIn(heap', heap'[n].child, heap'[heap'[n].child].prev)
    BY <1>2 DEF TailKnown
  <2>2. CASE n = i
    BY <1>1, <1>2, <1>3, <1>4, <1>5, <2>2 DEF Building
  <2>3. CASE n # i
    <3>1. heap'[n].child = heap[n].child /\ heap[n].child \in DOMAIN heap
      BY <1>1, <1>2, <2>1, <2>3, ListsKnown
    <3>2. heap'[heap[n].child].prev = heap[heap[n].child].prev
      BY <1>1, <1>4, <3>1
    <3> QED
      BY <1>4, <1>5, <2>1, <3>1, <3>2 DEF TailKnown
  <2> QED
    BY <2>2, <2>3
<1>8. Building(heap', Pop)
  BY <1>3, <1>4, <1>5 DEF Building
<1> QED
  BY <1>1, <1>6, <1>7, <1>8 DEF ListInv

LEMMA UnwindLists ==
  ASSUME IInv, OwnInv, ListInv, Unwind
  PROVE  ListInv'
<1> DEFINE o == stack[Len(stack)].head
           R == IF o = NULL THEN {} ELSE Owned(heap, o)
<1>1. /\ pc = "fail" /\ pc' = "fail" /\ stack # <<>> /\ stack' = Pop /\ root' = root
      /\ Shorter(stack, Pop) /\ heap' = Without(heap, R)
  BY PopShortens DEF Unwind, cJSON_Delete, endVars
<1>2. /\ Linked(heap, stack, root) /\ Forest(heap, Bases(stack, root)) /\ NULL \notin DOMAIN heap
      /\ Len(stack) \in Nat /\ Len(stack) > 0 /\ Len(Pop) = Len(stack) - 1 /\ Pop \in Seq(Call)
      /\ \A k \in 1..Len(Pop) : Pop[k] = stack[k]
      /\ o # NULL => o \in Bases(stack, root)
      /\ BackLinked(heap) /\ TailKnown(heap) /\ Building(heap, stack)
  <2>1. Len(stack) \in Nat /\ Len(stack) > 0 /\ Linked(heap, stack, root) /\ NULL \notin DOMAIN heap
    BY <1>1, ListsKnown DEF Shorter
  <2> QED
    BY <1>1, <2>1, ListsKnown DEF Linked, Shorter, ListInv
<1>3. \A m \in DOMAIN heap \ R : {heap[m].next, heap[m].child} \subseteq (DOMAIN heap \ R) \cup {NULL}
  <2>1. SUFFICES ASSUME NEW m \in DOMAIN heap \ R
                 PROVE  Points(heap, m) \subseteq DOMAIN heap /\ Points(heap, m) \cap R = {}
    BY DEF Points
  <2>2. Points(heap, m) \subseteq DOMAIN heap
    BY <1>2 DEF Forest, Solid, Shut
  <2>3. Points(heap, m) \cap R = {}
    BY <1>2, NoWayIn
  <2> QED
    BY <2>2, <2>3
<1>4. /\ BackLinked(heap') /\ TailKnown(heap')
      /\ \A c \in DOMAIN heap \ R : \A t : EndsIn(heap, c, t) => EndsIn(heap', c, t)
  <2> HIDE DEF R
  <2> QED
    BY <1>1, <1>2, <1>3, LeftLists
<1>5. \A k \in 1..Len(Pop) : Pop[k].head # NULL => Pop[k].head \in DOMAIN heap \ R
  <2>1. Linked(heap', Pop, root)
    BY <1>1, <1>2, DroppedLinked
  <2>2. DOMAIN heap' = DOMAIN heap \ R
    BY <1>1 DEF Without
  <2>3. \A k \in 1..Len(Pop) : k \in 0..Len(Pop) /\ Base(Pop, root, k) = Pop[k].head
    BY DEF Base
  <2> QED
    BY <2>1, <2>2, <2>3, LinkedKnown
<1>6. Building(heap', Pop)
  <2>1. \A k \in 1..Len(Pop) : k \in 1..Len(stack)
    BY <1>2
  <2> QED
    BY <1>2, <1>4, <1>5, <2>1 DEF Building
<1> QED
  BY <1>1, <1>4, <1>6 DEF ListInv

LEMMA EndLists ==
  ASSUME IInv, OwnInv, Failed \/ Extract \/ NoTree
  PROVE  ListInv'
<1>1. DOMAIN heap' = {}
  <2>1. CASE Failed
    <3>1. /\ pc = "fail" /\ stack = <<>>
          /\ heap' = Without(heap, IF root = NULL THEN {} ELSE Owned(heap, root))
      BY <2>1 DEF Failed, cJSON_Delete
    <3> QED
      BY <3>1, OneTree DEF Without
  <2>2. CASE Extract \/ NoTree
    <3>1. pc' = "extracted"
      BY <2>2 DEF Extract, NoTree
    <3>2. OwnInv'
      BY EndOwns
    <3> QED
      BY <3>1, <3>2 DEF OwnInv
  <2> QED
    BY <2>1, <2>2
<1>2. pc' # "extracted" => stack' = <<>>
  BY DEF Failed, Extract, NoTree, callVars
<1> QED
  BY <1>1, <1>2 DEF ListInv, BackLinked, TailKnown, Building

LEMMA StepLists ==
  ASSUME IInv, OwnInv, ListInv, [Next]_vars
  PROVE  ListInv'
<1>1. CASE ParserStep
  <2>1. CASE OpenArray \/ OpenObject
    <3>1. PICK kind \in DOMAIN OpenOf : Open(kind)
      BY <2>1 DEF OpenArray, OpenObject, OpenOf
    <3> QED
      BY <3>1, PlainStepsKeepLists, OpenListLists DEF Open, PlainStep
  <2>2. CASE Start \/ ArrayElement \/ ObjectMember \/ CloseList \/ Unwind \/ Failed
    BY <2>2, StartLists, ElementLists, CloseLists, UnwindLists, EndLists
  <2>3. CASE \/ NoStart \/ ParseLiteral \/ ParseStringValue \/ StringReturned
             \/ ParseNumber \/ ParseNoNumber \/ ParseNothing \/ NoElement
             \/ MemberName \/ NoMemberName \/ AfterValue \/ Parsed \/ StringRuns
    BY <2>3, PlainStepsKeepLists DEF PlainStep
  <2> QED
    BY <1>1, <2>1, <2>2, <2>3 DEF ParserStep
<1>2. CASE Extract \/ NoTree
  BY <1>2, EndLists
<1>3. CASE UNCHANGED vars
  BY <1>3 DEF vars, parserVars, heapVars, callVars, ListInv
<1> QED
  BY <1>1, <1>2, <1>3 DEF Next, Parse, Ended

LEMMA InitLists == Init => ListInv
<1> SUFFICES ASSUME Init PROVE ListInv
  OBVIOUS
<1>1. stack = <<>> /\ DOMAIN heap = {}
  BY DEF Init, ParserInit, HeapInit
<1> QED
  BY <1>1 DEF ListInv, BackLinked, TailKnown, Building

LEMMA ListInvariant == Spec => []ListInv
<1>1. IInv /\ OwnInv /\ ListInv /\ [Next]_vars => ListInv'
  BY StepLists
<1> QED
  BY <1>1, InitLists, Inductive, OwnInvariant, PTL DEF Spec

-----------------------------------------------------------------------------
(* Walking a list.                                                         *)

(* A set that holds zero and the successors of its members holds them all. *)
LEMMA EveryNatural ==
  ASSUME NEW S, 0 \in S, \A n \in Nat : n \in S => n + 1 \in S
  PROVE  Nat \subseteq S
<1> DEFINE T == Nat \ S
<1>1. SUFFICES ASSUME T # {} PROVE FALSE
  OBVIOUS
<1>2. PICK n \in T : \A m \in T : n <= m
  BY <1>1, LeastMember
<1>3. n # 0 /\ n \in Nat
  BY <1>2
<1>4. n - 1 \in Nat /\ n - 1 \in S
  <2>1. n - 1 \in Nat /\ ~(n <= n - 1)
    BY <1>3
  <2> QED
    BY <1>2, <2>1
<1> QED
  BY <1>2, <1>3, <1>4

(* A function of numbers may be defined by its value at zero and from each *)
(* value to the next.                                                      *)
Walk(N, c, after, g) == g = [k \in 0..N |-> IF k = 0 THEN c ELSE after[g[k - 1]]]

LEMMA WalkExists ==
  ASSUME NEW N \in Nat, NEW c, NEW after
  PROVE  \E g : Walk(N, c, after, g)
<1> DEFINE S == {n \in Nat : \E g : Walk(n, c, after, g)}
<1>1. 0 \in S
  <2>1. Walk(0, c, after, [k \in 0..0 |-> c])
    BY DEF Walk
  <2> QED
    BY <2>1
<1>2. ASSUME NEW n \in S PROVE n + 1 \in S
  <2>1. PICK g : Walk(n, c, after, g)
    BY <1>2
  <2> DEFINE f == [k \in 0..(n + 1) |-> IF k = n + 1 THEN after[g[n]] ELSE g[k]]
  <2>2. Walk(n + 1, c, after, f)
    <3>1. ASSUME NEW k \in 0..(n + 1) PROVE f[k] = IF k = 0 THEN c ELSE after[f[k - 1]]
      <4>1. CASE k = n + 1
        BY <4>1
      <4>2. CASE k # n + 1
        <5>1. k \in 0..n /\ (k # 0 => k - 1 \in 0..n /\ k - 1 # n + 1)
          BY <4>2
        <5>2. f[k] = g[k] /\ (k # 0 => f[k - 1] = g[k - 1])
          BY <4>2, <5>1
        <5>3. g[k] = IF k = 0 THEN c ELSE after[g[k - 1]]
          BY <2>1, <5>1 DEF Walk
        <5> HIDE DEF f
        <5> QED
          BY <5>1, <5>2, <5>3
      <4> QED
        BY <4>1, <4>2
    <3> QED
      BY <3>1 DEF Walk
  <2> QED
    BY <2>2
<1> HIDE DEF S
<1>3. N \in S
  BY <1>1, <1>2, EveryNatural
<1> QED
  BY <1>3 DEF S

(* What ListFrom is, without the recursion.                                *)
After(h) == [n \in DOMAIN h \cup {NULL} |-> IF n = NULL THEN NULL ELSE h[n].next]
Walked(at) == [k \in 1..Min({k \in DOMAIN at : at[k] = NULL}) |-> at[k - 1]]

LEMMA ListFromWalks ==
  ASSUME NEW h, IsFiniteSet(DOMAIN h), NEW c
  PROVE  \E at : Walk(Cardinality(DOMAIN h), c, After(h), at) /\ ListFrom(h, c) = Walked(at)
<1> DEFINE N == Cardinality(DOMAIN h)
           at == CHOOSE g : g = [k \in 0..N |-> IF k = 0 THEN c ELSE After(h)[g[k - 1]]]
<1>1. N \in Nat
  BY FS_CardinalityType
<1>2. Walk(N, c, After(h), at)
  <2>1. \E g : g = [k \in 0..N |-> IF k = 0 THEN c ELSE After(h)[g[k - 1]]]
    <3>1. \E g : Walk(N, c, After(h), g)
      <4> HIDE DEF N
      <4> QED
        BY <1>1, WalkExists
    <3> QED
      BY <3>1 DEF Walk
  <2> QED
    BY <2>1 DEF Walk
<1>3. ListFrom(h, c) = Walked(at)
  BY DEF ListFrom, After, Walked
<1> HIDE DEF at
<1> QED
  BY <1>2, <1>3

LEMMA LeastIsMin ==
  ASSUME NEW S \in SUBSET Nat, S # {}
  PROVE  Min(S) \in S /\ \A n \in S : Min(S) <= n
<1>1. \E m \in S : \A n \in S : m <= n
  BY LeastMember
<1> QED
  BY <1>1 DEF Min

(* A walk along next stays among the nodes, comes to none twice, and so    *)
(* comes to the end.                                                       *)
LEMMA WalkEnds ==
  ASSUME NEW h, IsFiniteSet(DOMAIN h), Chained(h), NEW c, Starts(h, c),
         NEW N, N = Cardinality(DOMAIN h), NEW at, Walk(N, c, After(h), at)
  PROVE  /\ N \in Nat /\ DOMAIN at = 0..N /\ at[0] = c
         /\ \A k \in 0..(N - 1) : at[k + 1] = After(h)[at[k]]
         /\ \A k \in 0..N : at[k] \in DOMAIN h \cup {NULL}
         /\ \A j, k \in 0..N : j < k /\ at[j] = at[k] => at[j] = NULL
         /\ \E k \in 0..N : at[k] = NULL
<1>1. N \in Nat
  BY FS_CardinalityType
<1>2. /\ DOMAIN at = 0..N /\ at[0] = c
      /\ \A k \in 0..(N - 1) : at[k + 1] = After(h)[at[k]]
  <2>1. \A k \in 0..N : at[k] = IF k = 0 THEN c ELSE After(h)[at[k - 1]]
    BY DEF Walk
  <2>2. ASSUME NEW k \in 0..(N - 1) PROVE at[k + 1] = After(h)[at[k]]
    <3>1. k + 1 \in 0..N /\ k + 1 # 0 /\ (k + 1) - 1 = k
      BY <1>1
    <3> QED
      BY <2>1, <3>1
  <2> QED
    BY <1>1, <2>1, <2>2 DEF Walk
<1>3. /\ c \in DOMAIN h /\ NULL \notin DOMAIN h /\ After(h)[NULL] = NULL
      /\ \A n \in DOMAIN h : After(h)[n] = h[n].next /\ h[n].next \in DOMAIN h \cup {NULL}
  BY DEF Starts, Chained, NextShut, After
<1>4. \A k \in 0..N : at[k] \in DOMAIN h \cup {NULL}
  <2> DEFINE S == {k \in Nat : k <= N => at[k] \in DOMAIN h \cup {NULL}}
  <2>1. 0 \in S
    BY <1>2, <1>3
  <2>2. ASSUME NEW k \in Nat, k \in S PROVE k + 1 \in S
    <3>1. SUFFICES ASSUME k + 1 <= N PROVE at[k + 1] \in DOMAIN h \cup {NULL}
      OBVIOUS
    <3>2. k \in 0..(N - 1) /\ at[k] \in DOMAIN h \cup {NULL}
      BY <1>1, <2>2, <3>1
    <3> QED
      BY <1>2, <1>3, <3>2
  <2> HIDE DEF S
  <2>3. Nat \subseteq S
    BY <2>1, <2>2, EveryNatural
  <2> QED
    BY <1>1, <2>3 DEF S
<1>5. \A j, k \in 0..N : j < k /\ at[j] = at[k] => at[j] = NULL
  <2> DEFINE B == {j \in 0..N : \E k \in 0..N : j < k /\ at[j] = at[k] /\ at[j] # NULL}
  <2>1. SUFFICES ASSUME B # {} PROVE FALSE
    OBVIOUS
  <2>2. B \in SUBSET Nat
    BY <1>1
  <2>3. PICK j \in B : \A i \in B : j <= i
    <3> HIDE DEF B
    <3> QED
      BY <2>1, <2>2, LeastMember
  <2>4. PICK k \in 0..N : j < k /\ at[j] = at[k] /\ at[j] # NULL
    BY <2>3
  <2>5. j \in 0..N /\ k - 1 \in 0..(N - 1) /\ k - 1 \in 0..N /\ (k - 1) + 1 = k
    BY <1>1, <2>3, <2>4
  <2>6. at[k] = After(h)[at[k - 1]]
    BY <1>2, <2>5
  <2>7. at[k - 1] \in DOMAIN h /\ h[at[k - 1]].next = at[j]
    BY <1>3, <1>4, <2>4, <2>5, <2>6
  <2>8. j # 0
    BY <1>2, <2>7 DEF Starts
  <2>9. j - 1 \in 0..(N - 1) /\ j - 1 \in 0..N /\ (j - 1) + 1 = j /\ j - 1 < k - 1 /\ ~(j <= j - 1)
    BY <1>1, <2>4, <2>5, <2>8
  <2>10. at[j] = After(h)[at[j - 1]]
    BY <1>2, <2>9
  <2>11. at[j - 1] \in DOMAIN h /\ h[at[j - 1]].next = at[j]
    BY <1>3, <1>4, <2>4, <2>9, <2>10
  <2>12. at[j - 1] = at[k - 1]
    BY <2>4, <2>7, <2>11 DEF Chained
  <2>13. j - 1 \in B
    BY <1>3, <2>5, <2>9, <2>11, <2>12
  <2> QED
    BY <2>3, <2>9, <2>13
<1>6. \E k \in 0..N : at[k] = NULL
  <2>1. SUFFICES ASSUME \A k \in 0..N : at[k] # NULL PROVE FALSE
    OBVIOUS
  <2>2. at \in [0..N -> DOMAIN h]
    BY <1>2, <1>4, <2>1 DEF Walk
  <2>3. IsFiniteSet(0..N) /\ Cardinality(0..N) = N + 1
    <3>1. 0 \in Int /\ N \in Int /\ ~(0 > N)
      BY <1>1
    <3> QED
      BY <1>1, <3>1, FS_Interval
  <2>4. Cardinality(DOMAIN h) < Cardinality(0..N)
    BY <1>1, <2>3
  <2> DEFINE I == 0..N
  <2>5. PICK x \in I, y \in I : x # y /\ at[x] = at[y]
    <3>1. IsFiniteSet(I) /\ Cardinality(DOMAIN h) < Cardinality(I) /\ at \in [I -> DOMAIN h]
      BY <2>2, <2>3, <2>4
    <3> HIDE DEF I
    <3> QED
      BY <3>1, FS_PigeonHole
  <2>6. x < y \/ y < x
    BY <1>1, <2>5
  <2> QED
    BY <1>5, <2>1, <2>5, <2>6
<1> QED
  BY <1>1, <1>2, <1>4, <1>5, <1>6

(* What a list is for those who walk it: its nodes from the first to the   *)
(* last, in the order of next, each once.                                  *)
LEMMA ListWalked ==
  ASSUME NEW h, IsFiniteSet(DOMAIN h), Chained(h), NEW c, Starts(h, c), NEW t, EndsIn(h, c, t),
         NEW l, l = ListFrom(h, c)
  PROVE  /\ l \in Seq(DOMAIN h) /\ Len(l) \in Nat \ {0} /\ l[1] = c /\ l[Len(l)] = t
         /\ \A k \in 1..(Len(l) - 1) : l[k + 1] = h[l[k]].next
         /\ \A j, k \in 1..Len(l) : j # k => l[j] # l[k]
<1> DEFINE N == Cardinality(DOMAIN h)
<1>1. PICK at : Walk(N, c, After(h), at) /\ l = Walked(at)
  BY ListFromWalks
<1>2. /\ N \in Nat /\ DOMAIN at = 0..N /\ at[0] = c
      /\ \A k \in 0..(N - 1) : at[k + 1] = After(h)[at[k]]
      /\ \A k \in 0..N : at[k] \in DOMAIN h \cup {NULL}
      /\ \A j, k \in 0..N : j < k /\ at[j] = at[k] => at[j] = NULL
      /\ \E k \in 0..N : at[k] = NULL
  BY <1>1, WalkEnds
<1> HIDE DEF N
<1> DEFINE Z == {k \in DOMAIN at : at[k] = NULL}
           size == Min(Z)
<1>3. size \in 0..N /\ at[size] = NULL /\ \A k \in 0..N : at[k] = NULL => size <= k
  <2>1. Z \in SUBSET Nat /\ Z # {}
    BY <1>2
  <2>2. size \in Z /\ \A n \in Z : size <= n
    <3> HIDE DEF Z
    <3> QED
      BY <2>1, LeastIsMin
  <2> QED
    BY <1>2, <2>2
<1>4. l = [k \in 1..size |-> at[k - 1]]
  BY <1>1 DEF Walked
<1> HIDE DEF Z, size
<1>5. size \in Nat \ {0} /\ c \in DOMAIN h /\ c # NULL /\ NULL \notin DOMAIN h
  BY <1>2, <1>3 DEF Starts, Chained
<1>6. \A k \in 0..(size - 1) : k \in 0..N /\ at[k] \in DOMAIN h /\ at[k] # NULL
  <2>1. SUFFICES ASSUME NEW k \in 0..(size - 1) PROVE k \in 0..N /\ at[k] \in DOMAIN h /\ at[k] # NULL
    OBVIOUS
  <2>2. k \in 0..N /\ ~(size <= k)
    BY <1>2, <1>3, <1>5
  <2> QED
    BY <1>2, <1>3, <1>5, <2>2
<1>7. \A k \in 0..(size - 1) : at[k + 1] = h[at[k]].next
  <2>1. SUFFICES ASSUME NEW k \in 0..(size - 1) PROVE at[k + 1] = h[at[k]].next
    OBVIOUS
  <2>2. k \in 0..(N - 1)
    BY <1>2, <1>3, <1>5
  <2>3. at[k + 1] = After(h)[at[k]] /\ at[k] \in DOMAIN h /\ at[k] # NULL
    BY <1>2, <1>6, <2>2
  <2> QED
    BY <2>3 DEF After
<1>8. /\ l \in Seq(DOMAIN h) /\ Len(l) = size
      /\ \A k \in 1..size : l[k] = at[k - 1] /\ k - 1 \in 0..(size - 1)
  <2>1. \A k \in 1..size : k - 1 \in 0..(size - 1)
    BY <1>5
  <2>2. l \in [1..size -> DOMAIN h]
    BY <1>4, <1>6, <2>1
  <2> QED
    BY <1>4, <1>5, <2>1, <2>2
<1>9. \A k \in 1..(size - 1) : l[k + 1] = h[l[k]].next
  <2>1. SUFFICES ASSUME NEW k \in 1..(size - 1) PROVE l[k + 1] = h[l[k]].next
    OBVIOUS
  <2>2. k \in 1..size /\ k + 1 \in 1..size /\ k - 1 \in 0..(size - 1) /\ (k - 1) + 1 = (k + 1) - 1
    BY <1>5
  <2> QED
    BY <1>7, <1>8, <2>2
<1>10. \A j, k \in 1..size : j # k => l[j] # l[k]
  <2>1. SUFFICES ASSUME NEW j \in 1..size, NEW k \in 1..size, j < k, l[j] = l[k] PROVE FALSE
    BY <1>5
  <2>2. j - 1 < k - 1 /\ j - 1 \in 0..N /\ k - 1 \in 0..N /\ at[j - 1] = at[k - 1] /\ at[j - 1] # NULL
    BY <1>5, <1>6, <1>8, <2>1
  <2> QED
    BY <1>2, <2>2
<1>11. at[size - 1] = t
  <2> DEFINE S == {at[k] : k \in 0..(size - 1)}
  <2>1. c \in S /\ S \in SUBSET DOMAIN h
    BY <1>2, <1>5, <1>6
  <2>2. NextShut(h, S)
    <3>1. SUFFICES ASSUME NEW k \in 0..(size - 1) PROVE h[at[k]].next \in S \cup {NULL}
      BY DEF NextShut
    <3>2. CASE k = size - 1
      BY <1>3, <1>5, <1>7, <3>1, <3>2
    <3>3. CASE k # size - 1
      <4>1. k + 1 \in 0..(size - 1)
        BY <1>5, <3>1, <3>3
      <4> QED
        BY <1>7, <4>1
    <3> QED
      BY <3>2, <3>3
  <2>3. t \in S /\ h[t].next = NULL
    <3> HIDE DEF S
    <3> QED
      BY <2>1, <2>2 DEF EndsIn
  <2>4. PICK k \in 0..(size - 1) : t = at[k]
    BY <2>3
  <2>5. at[k + 1] = NULL /\ k + 1 \in 0..N
    <3>1. k + 1 \in 0..N
      BY <1>2, <1>3, <1>5, <2>4
    <3> QED
      BY <1>7, <2>3, <2>4, <3>1
  <2>6. size <= k + 1
    BY <1>3, <2>5
  <2>7. k = size - 1
    BY <1>5, <2>4, <2>6
  <2> QED
    BY <2>4, <2>7
<1>12. l[1] = c /\ l[Len(l)] = t
  <2>1. 1 \in 1..size /\ size \in 1..size /\ 1 - 1 = 0
    BY <1>5
  <2> QED
    BY <1>2, <1>8, <1>11, <2>1
<1> QED
  BY <1>5, <1>8, <1>9, <1>10, <1>12

(* A list of nothing is empty.                                             *)
LEMMA NoList ==
  ASSUME NEW h, IsFiniteSet(DOMAIN h), NEW l, l = ListFrom(h, NULL)
  PROVE  l = <<>>
<1>1. PICK at : Walk(Cardinality(DOMAIN h), NULL, After(h), at) /\ l = Walked(at)
  BY ListFromWalks
<1> DEFINE Z == {k \in DOMAIN at : at[k] = NULL}
<1>2. Z \in SUBSET Nat /\ 0 \in Z
  BY <1>1, FS_CardinalityType DEF Walk
<1>3. Min(Z) = 0
  <2> HIDE DEF Z
  <2>1. Min(Z) \in Nat /\ Min(Z) <= 0
    BY <1>2, LeastIsMin
  <2> QED
    BY <2>1
<1>4. l = [k \in 1..Min(Z) |-> at[k - 1]]
  BY <1>1 DEF Walked
<1> HIDE DEF Z
<1> QED
  BY <1>3, <1>4

-----------------------------------------------------------------------------
(* The lists of the program.                                               *)

(* A step adds one node at most, so there are never infinitely many.       *)
FiniteHeap == IsFiniteSet(DOMAIN heap)

LEMMA OneNodeMore ==
  ASSUME IInv, OwnInv, [Next]_vars
  PROVE  DOMAIN heap' \subseteq DOMAIN heap \cup {Fresh}
<1>1. CASE ParserStep
  <2>1. CASE PlainStep
    BY <2>1, PlainHeap
  <2>2. CASE \E kind \in DOMAIN OpenOf : OpenList(kind)
    BY <2>2 DEF OpenList, heapVars
  <2>3. CASE Start
    BY <2>3 DEF Start, With
  <2>4. CASE ArrayElement \/ ObjectMember
    BY <2>4, ElementAdded DEF AddsNode
  <2>5. CASE CloseList
    BY <2>5, ListHangs DEF Hangs
  <2>6. CASE Unwind \/ Failed
    BY <2>6 DEF Unwind, Failed, cJSON_Delete, Without
  <2>7. CASE OpenArray \/ OpenObject
    <3>1. PICK kind \in DOMAIN OpenOf : Open(kind)
      BY <2>7 DEF OpenArray, OpenObject, OpenOf
    <3> QED
      BY <2>1, <2>2, <3>1 DEF Open, PlainStep
  <2>8. \/ OpenArray \/ OpenObject \/ Start \/ ArrayElement \/ ObjectMember \/ CloseList
        \/ Unwind \/ Failed \/ PlainStep
    BY <1>1 DEF ParserStep, PlainStep
  <2> QED
    BY <2>1, <2>3, <2>4, <2>5, <2>6, <2>7, <2>8
<1>2. CASE Extract \/ NoTree
  BY <1>2 DEF Extract, NoTree, Without, heapVars
<1>3. CASE UNCHANGED vars
  BY <1>3 DEF vars, parserVars, heapVars
<1> QED
  BY <1>1, <1>2, <1>3 DEF Next, Parse, Ended

LEMMA InitFinite == Init => FiniteHeap
BY FS_EmptySet DEF Init, ParserInit, HeapInit, FiniteHeap

LEMMA StepFinite == ASSUME IInv, OwnInv, FiniteHeap, [Next]_vars PROVE FiniteHeap'
<1>1. IsFiniteSet(DOMAIN heap \cup {Fresh})
  BY FS_AddElement DEF FiniteHeap
<1>2. DOMAIN heap' \in SUBSET (DOMAIN heap \cup {Fresh})
  BY OneNodeMore
<1> QED
  BY <1>1, <1>2, FS_Subset DEF FiniteHeap

LEMMA HeapIsFinite == Spec => []FiniteHeap
<1>1. IInv /\ OwnInv /\ FiniteHeap /\ [Next]_vars => FiniteHeap'
  BY StepFinite
<1> QED
  BY <1>1, InitFinite, Inductive, OwnInvariant, PTL DEF Spec

(* What a look-up in an array or object walks along.                       *)
LEMMA ItemsWalked ==
  ASSUME IInv, OwnInv, ListInv, FiniteHeap, pc # "extracted", NEW n \in DOMAIN heap
  PROVE  /\ Items(heap, n) \in Seq(DOMAIN heap)
         /\ heap[n].child # NULL =>
              /\ Len(Items(heap, n)) \in Nat \ {0}
              /\ Items(heap, n)[Len(Items(heap, n))] = heap[heap[n].child].prev
<1>1. CASE heap[n].child = NULL
  <2>1. IsFiniteSet(DOMAIN heap) /\ Items(heap, n) = ListFrom(heap, NULL)
    BY <1>1 DEF Items, FiniteHeap
  <2>2. Items(heap, n) = <<>>
    BY <2>1, NoList
  <2> QED
    BY <1>1, <2>2
<1>2. CASE heap[n].child # NULL
  <2> DEFINE c == heap[n].child
             t == heap[c].prev
             l == ListFrom(heap, c)
  <2>1. Chained(heap) /\ Starts(heap, c) /\ EndsIn(heap, c, t) /\ IsFiniteSet(DOMAIN heap)
    BY <1>2, ListsKnown DEF ListInv, TailKnown, FiniteHeap
  <2>2. l \in Seq(DOMAIN heap) /\ Len(l) \in Nat \ {0} /\ l[Len(l)] = t
    <3> HIDE DEF c, t
    <3> QED
      BY <2>1, ListWalked
  <2> QED
    BY <1>2, <2>2 DEF Items
<1> QED
  BY <1>1, <1>2

LEMMA ListInvLinks == IInv /\ OwnInv /\ ListInv /\ FiniteHeap => SiblingsLinked
<1>1. SUFFICES ASSUME IInv, OwnInv, ListInv, FiniteHeap, NEW n \in DOMAIN heap
               PROVE  /\ heap[n].next # NULL => heap[heap[n].next].prev = n
                      /\ heap[n].child # NULL =>
                           LET items == Items(heap, n)
                           IN  heap[heap[n].child].prev = items[Len(items)]
  BY DEF SiblingsLinked
<1>2. pc # "extracted"
  BY <1>1 DEF OwnInv
<1>3. heap[n].next # NULL => heap[heap[n].next].prev = n
  BY <1>1 DEF ListInv, BackLinked
<1> QED
  BY <1>1, <1>2, <1>3, ItemsWalked

(* Whatever the text, every list of the tree is linked both ways and its   *)
(* head's prev is its last node (SiblingsLinked), also while lists are     *)
(* built and after parsing gave up: cJSON appends to a list, and detaches  *)
(* from it, by these pointers.                                             *)
THEOREM ListsAreLinkedBothWays == Spec => []SiblingsLinked
BY ListInvLinks, Inductive, OwnInvariant, ListInvariant, HeapIsFinite, PTL

-----------------------------------------------------------------------------
(* What the look-ups return.                                               *)

LEMMA CStringTyped ==
  ASSUME NEW s \in Seq(Bytes)
  PROVE  CString(s) \in Seq(Bytes) /\ Len(CString(s)) \in 0..Len(s)
<1> DEFINE Z == {k \in 1..Len(s) : s[k] = 0} \cup {Len(s) + 1}
<1>1. Len(s) \in Nat /\ Z \in SUBSET (1..(Len(s) + 1)) /\ Z # {}
  OBVIOUS
<1>2. Min(Z) \in 1..(Len(s) + 1)
  <2> HIDE DEF Z
  <2>1. Z \in SUBSET Nat
    BY <1>1
  <2> QED
    BY <1>1, <2>1, LeastIsMin
<1> DEFINE m == Min(Z) - 1
<1>3. m \in 0..Len(s)
  BY <1>1, <1>2
<1>4. CString(s) = SubSeq(s, 1, m)
  BY DEF CString
<1> HIDE DEF m, Z
<1>5. 1 \in Int /\ m \in Int /\ \A k \in 1..m : s[k] \in Bytes
  BY <1>1, <1>3
<1>6. /\ SubSeq(s, 1, m) \in Seq(Bytes)
      /\ Len(SubSeq(s, 1, m)) = IF 1 <= m THEN m - 1 + 1 ELSE 0
  BY <1>5, SubSeqProperties
<1> QED
  BY <1>3, <1>4, <1>6

(* An item of an array or object is a node, if there is one.               *)
LEMMA LookupsTyped ==
  ASSUME NEW h, NEW a \in DOMAIN h \cup {NULL}, NULL \notin DOMAIN h,
         a # NULL => Items(h, a) \in Seq(DOMAIN h)
  PROVE  /\ \A name : cJSON_GetObjectItemCaseSensitive(h, a, name) \in DOMAIN h \cup {NULL}
         /\ get_array_item(h, a, 0) \in DOMAIN h \cup {NULL}
<1>1. get_array_item(h, a, 0) \in DOMAIN h \cup {NULL}
  BY DEF get_array_item
<1>2. ASSUME NEW name PROVE cJSON_GetObjectItemCaseSensitive(h, a, name) \in DOMAIN h \cup {NULL}
  <2>1. CASE a = NULL
    BY <2>1 DEF cJSON_GetObjectItemCaseSensitive
  <2>2. CASE a # NULL
    <3> DEFINE items == Items(h, a)
               stops == {k \in 1..Len(items) : \/ h[items[k]].string = NULL
                                               \/ CString(h[items[k]].string) = name}
    <3>1. /\ items \in Seq(DOMAIN h) /\ Len(items) \in Nat
          /\ stops \in SUBSET (1..Len(items)) /\ stops \in SUBSET Nat
      BY <2>2
    <3>2. cJSON_GetObjectItemCaseSensitive(h, a, name)
            = IF stops = {} \/ h[items[Min(stops)]].string = NULL THEN NULL ELSE items[Min(stops)]
      BY <2>2 DEF cJSON_GetObjectItemCaseSensitive
    <3> HIDE DEF stops, items
    <3>3. stops # {} => Min(stops) \in 1..Len(items)
      BY <3>1, LeastIsMin
    <3> QED
      BY <3>1, <3>2, <3>3
  <2> QED
    BY <2>1, <2>2
<1> QED
  BY <1>1, <1>2

ResultTyped == field \in FieldNames /\ result \in Seq(Bytes) \cup {NULL}

LEMMA ExtractTyped ==
  ASSUME IInv, OwnInv, ListInv, FiniteHeap, ResultTyped, Extract
  PROVE  ResultTyped'
<1>1. PICK keys \in {cJSON_GetObjectItemCaseSensitive(heap, root, KeysName)} :
           \E first \in {get_array_item(heap, keys, 0)} :
           \E found \in {cJSON_GetObjectItemCaseSensitive(heap, first, field)} :
           \E text \in {FieldText(keys, found)} : result' = text \/ result' = result
  BY DEF Extract
<1>2. PICK first \in {get_array_item(heap, keys, 0)} :
           \E found \in {cJSON_GetObjectItemCaseSensitive(heap, first, field)} :
           \E text \in {FieldText(keys, found)} : result' = text \/ result' = result
  BY <1>1
<1>3. PICK found \in {cJSON_GetObjectItemCaseSensitive(heap, first, field)} :
           result' = FieldText(keys, found) \/ result' = result
  BY <1>2
<1>4. /\ pc # "extracted" /\ NULL \notin DOMAIN heap /\ HeapOK(heap)
      /\ \A n \in DOMAIN heap : Items(heap, n) \in Seq(DOMAIN heap)
  <2>1. pc = "done"
    BY DEF Extract
  <2> QED
    BY <2>1, ListsKnown, ItemsWalked
<1>5. root \in DOMAIN heap
  <2>1. Linked(heap, stack, root) /\ root # NULL
    BY DEF Extract, OwnInv
  <2>2. Base(stack, root, 0) = root /\ 0 \in 0..Len(stack)
    BY <2>1, LinkedKnown DEF Base
  <2> QED
    BY <2>1, <2>2, LinkedKnown
<1>6. keys \in DOMAIN heap \cup {NULL}
  BY <1>4, <1>5, LookupsTyped
<1>7. first \in DOMAIN heap \cup {NULL}
  BY <1>4, <1>6, LookupsTyped
<1>8. found \in DOMAIN heap \cup {NULL}
  BY <1>4, <1>7, LookupsTyped
<1>9. FieldText(keys, found) \in Seq(Bytes) \cup {NULL}
  <2>1. SUFFICES ASSUME found # NULL, heap[found].valuestring # NULL
                 PROVE  CString(heap[found].valuestring) \in Seq(Bytes)
    BY DEF FieldText, cJSON_IsString
  <2>2. heap[found].valuestring \in Seq(Bytes)
    BY <1>4, <1>8, <2>1 DEF HeapOK, Node
  <2> QED
    BY <2>2, CStringTyped
<1> QED
  BY <1>3, <1>9 DEF ResultTyped, Extract

LEMMA InitResult == Init => ResultTyped
BY DEF Init, ResultTyped

LEMMA StepResult ==
  ASSUME IInv, OwnInv, ListInv, FiniteHeap, ResultTyped, [Next]_vars
  PROVE  ResultTyped'
<1>1. CASE Extract
  BY <1>1, ExtractTyped
<1>2. CASE Parse \/ NoTree \/ UNCHANGED vars
  BY <1>2 DEF Parse, NoTree, vars, ResultTyped
<1> QED
  BY <1>1, <1>2 DEF Next, Ended

LEMMA ResultInvariant == Spec => []ResultTyped
<1>1. IInv /\ OwnInv /\ ListInv /\ FiniteHeap /\ ResultTyped /\ [Next]_vars => ResultTyped'
  BY StepResult
<1> QED
  BY <1>1, InitResult, Inductive, OwnInvariant, ListInvariant, HeapIsFinite, PTL DEF Spec

(* Every variable has its type (TypeOK): what extract_first_key_field      *)
(* returns is a string of the tree up to its first zero, or NULL, and no   *)
(* look-up on the way follows a pointer to where there is no node.         *)
THEOREM FieldsTypes == Spec => []TypeOK
<1>1. ParserTypeOK /\ ResultTyped => TypeOK
  BY DEF TypeOK, ResultTyped
<1> QED
  BY <1>1, ParserTypes, ResultInvariant, PTL

-----------------------------------------------------------------------------
(* Counting strings over a finite set of nodes.                            *)

LEMMA SmallestSet ==
  ASSUME NEW F, F # {}, \A A \in F : IsFiniteSet(A)
  PROVE  \E A \in F : \A B \in F : B \subseteq A => B = A
<1> DEFINE S == {Cardinality(A) : A \in F}
<1>1. S \in SUBSET Nat /\ S # {}
  BY FS_CardinalityType
<1>2. PICK n \in S : \A m \in S : n <= m
  <2> HIDE DEF S
  <2> QED
    BY <1>1, LeastMember
<1>3. PICK A \in F : n = Cardinality(A)
  BY <1>2
<1>4. ASSUME NEW B \in F, B \subseteq A PROVE B = A
  <2>1. Cardinality(B) <= Cardinality(A) /\ (Cardinality(A) = Cardinality(B) => A = B)
    BY <1>4, FS_Subset
  <2>2. Cardinality(A) <= Cardinality(B)
    BY <1>2, <1>3
  <2>3. Cardinality(A) \in Nat /\ Cardinality(B) \in Nat
    BY FS_CardinalityType
  <2> QED
    BY <2>1, <2>2, <2>3
<1> QED
  BY <1>4

(* The sum over a set, by the element that is taken from it first.         *)
One(s) == CHOOSE x \in s : TRUE
Sums(h, D, g) ==
  g = [s \in D |-> IF s = {} THEN 0 ELSE OwnStrings(h[One(s)]) + g[s \ {One(s)}]]

LEMMA SumsExist ==
  ASSUME NEW h, NEW S, IsFiniteSet(S)
  PROVE  \E g : Sums(h, SUBSET S, g)
<1> DEFINE Upto(n) == {s \in SUBSET S : Cardinality(s) <= n}
           P == {n \in Nat : \E g : Sums(h, Upto(n), g)}
<1>1. \A s \in SUBSET S : /\ IsFiniteSet(s) /\ Cardinality(s) \in Nat
                          /\ Cardinality(s) = 0 <=> s = {}
  BY FS_Subset, FS_CardinalityType, FS_EmptySet
<1>2. \A s \in SUBSET S : s # {} => /\ s \ {One(s)} \in SUBSET S
                                    /\ Cardinality(s \ {One(s)}) = Cardinality(s) - 1
  <2>1. SUFFICES ASSUME NEW s \in SUBSET S, s # {}
                 PROVE  Cardinality(s \ {One(s)}) = Cardinality(s) - 1
    OBVIOUS
  <2>2. One(s) \in s
    BY <2>1 DEF One
  <2> QED
    BY <1>1, <2>2, FS_RemoveElement
<1>3. 0 \in P
  <2>1. \A s \in Upto(0) : s = {}
    BY <1>1
  <2>2. Sums(h, Upto(0), [s \in Upto(0) |-> 0])
    BY <2>1 DEF Sums
  <2> QED
    BY <2>2
<1>4. ASSUME NEW n \in Nat, n \in P PROVE n + 1 \in P
  <2>1. PICK g : Sums(h, Upto(n), g)
    BY <1>4
  <2> DEFINE f == [s \in Upto(n + 1) |-> IF s \in Upto(n) THEN g[s]
                                        ELSE OwnStrings(h[One(s)]) + g[s \ {One(s)}]]
  <2>2. ASSUME NEW s \in Upto(n + 1)
        PROVE  f[s] = IF s = {} THEN 0 ELSE OwnStrings(h[One(s)]) + f[s \ {One(s)}]
    <3>1. s # {} => s \ {One(s)} \in Upto(n) /\ s \ {One(s)} \in Upto(n + 1)
      BY <1>1, <1>2
    <3>2. s # {} => f[s \ {One(s)}] = g[s \ {One(s)}]
      BY <3>1
    <3>3. CASE s \in Upto(n)
      <4>1. f[s] = g[s]
        BY <3>3
      <4>2. g[s] = IF s = {} THEN 0 ELSE OwnStrings(h[One(s)]) + g[s \ {One(s)}]
        BY <2>1, <3>3 DEF Sums
      <4> HIDE DEF f
      <4> QED
        BY <3>2, <4>1, <4>2
    <3>4. CASE s \notin Upto(n)
      <4>1. s # {} /\ f[s] = OwnStrings(h[One(s)]) + g[s \ {One(s)}]
        BY <1>1, <3>4
      <4> HIDE DEF f
      <4> QED
        BY <3>2, <4>1
    <3> QED
      BY <3>3, <3>4
  <2>3. Sums(h, Upto(n + 1), f)
    BY <2>2 DEF Sums
  <2> HIDE DEF f
  <2> QED
    BY <2>3
<1>5. Cardinality(S) \in P
  <2> HIDE DEF P
  <2>1. Nat \subseteq P
    BY <1>3, <1>4, EveryNatural
  <2> QED
    BY <2>1, FS_CardinalityType
<1>6. Upto(Cardinality(S)) = SUBSET S
  BY FS_Subset
<1> QED
  BY <1>5, <1>6

LEMMA StringsOfSums ==
  ASSUME NEW h, NEW S, IsFiniteSet(S)
  PROVE  \E g : Sums(h, SUBSET S, g) /\ StringsOf(h, S) = g[S]
<1> DEFINE iter == CHOOSE g : g = [s \in SUBSET S |->
                     IF s = {} THEN 0 ELSE OwnStrings(h[One(s)]) + g[s \ {One(s)}]]
<1>1. Sums(h, SUBSET S, iter)
  <2>1. \E g : Sums(h, SUBSET S, g)
    BY SumsExist
  <2> QED
    BY <2>1 DEF Sums
<1>2. StringsOf(h, S) = iter[S]
  BY DEF StringsOf, MapThenSumSet, MapThenFoldSet, One
<1> HIDE DEF iter
<1> QED
  BY <1>1, <1>2

LEMMA SumsAgree ==
  ASSUME NEW h, NEW S, IsFiniteSet(S), NEW D, NEW f, Sums(h, D, f), SUBSET S \subseteq D,
         NEW E, NEW g, Sums(h, E, g), SUBSET S \subseteq E
  PROVE  f[S] = g[S]
<1> DEFINE F == {A \in SUBSET S : f[A] # g[A]}
<1>1. SUFFICES ASSUME F # {} PROVE FALSE
  OBVIOUS
<1>2. \A A \in F : IsFiniteSet(A)
  BY FS_Subset
<1>3. PICK A \in F : \A B \in F : B \subseteq A => B = A
  <2> HIDE DEF F
  <2> QED
    BY <1>1, <1>2, SmallestSet
<1>4. A \in SUBSET S /\ f[A] # g[A]
  OBVIOUS
<1>5. /\ f[A] = IF A = {} THEN 0 ELSE OwnStrings(h[One(A)]) + f[A \ {One(A)}]
      /\ g[A] = IF A = {} THEN 0 ELSE OwnStrings(h[One(A)]) + g[A \ {One(A)}]
  BY <1>4 DEF Sums
<1>6. A # {} => One(A) \in A
  BY DEF One
<1>7. A # {} => f[A \ {One(A)}] = g[A \ {One(A)}]
  BY <1>3, <1>4, <1>6
<1> QED
  BY <1>4, <1>5, <1>7

LEMMA OwnNat == ASSUME NEW n PROVE OwnStrings(n) \in Nat
BY DEF OwnStrings

(* One element less.                                                       *)
LEMMA StringsStep ==
  ASSUME NEW h, NEW S, IsFiniteSet(S)
  PROVE  /\ S = {} => StringsOf(h, S) = 0
         /\ S # {} => /\ One(S) \in S
                      /\ StringsOf(h, S) = OwnStrings(h[One(S)]) + StringsOf(h, S \ {One(S)})
<1>1. PICK g : Sums(h, SUBSET S, g) /\ StringsOf(h, S) = g[S]
  BY StringsOfSums
<1>2. g[S] = IF S = {} THEN 0 ELSE OwnStrings(h[One(S)]) + g[S \ {One(S)}]
  BY <1>1 DEF Sums
<1> DEFINE T == S \ {One(S)}
<1>3. IsFiniteSet(T) /\ SUBSET T \subseteq SUBSET S
  BY FS_Subset
<1>4. PICK f : Sums(h, SUBSET T, f) /\ StringsOf(h, T) = f[T]
  <2> HIDE DEF T
  <2> QED
    BY <1>3, StringsOfSums
<1>5. f[T] = g[T]
  <2> HIDE DEF T
  <2> QED
    BY <1>1, <1>3, <1>4, SumsAgree
<1>6. S # {} => One(S) \in S
  BY DEF One
<1> QED
  BY <1>1, <1>2, <1>4, <1>5, <1>6

LEMMA StringsNat ==
  ASSUME NEW h, NEW S, IsFiniteSet(S)
  PROVE  StringsOf(h, S) \in Nat
<1> DEFINE F == {A \in SUBSET S : StringsOf(h, A) \notin Nat}
<1>1. SUFFICES ASSUME F # {} PROVE FALSE
  OBVIOUS
<1>2. \A A \in F : IsFiniteSet(A)
  BY FS_Subset
<1>3. PICK A \in F : \A B \in F : B \subseteq A => B = A
  <2> HIDE DEF F
  <2> QED
    BY <1>1, <1>2, SmallestSet
<1>4. /\ A = {} => StringsOf(h, A) = 0
      /\ A # {} => One(A) \in A /\ StringsOf(h, A) = OwnStrings(h[One(A)]) + StringsOf(h, A \ {One(A)})
  BY <1>2, StringsStep
<1>5. A # {} => StringsOf(h, A \ {One(A)}) \in Nat
  BY <1>3, <1>4
<1>6. OwnStrings(h[One(A)]) \in Nat
  BY OwnNat
<1> QED
  BY <1>3, <1>4, <1>5, <1>6

(* Whichever element is taken from it.                                     *)
LEMMA StringsOne ==
  ASSUME NEW h, NEW S, IsFiniteSet(S), NEW x \in S
  PROVE  StringsOf(h, S) = OwnStrings(h[x]) + StringsOf(h, S \ {x})
<1> DEFINE F == {A \in SUBSET S :
                   \E y \in A : StringsOf(h, A) # OwnStrings(h[y]) + StringsOf(h, A \ {y})}
<1>1. SUFFICES ASSUME F # {} PROVE FALSE
  OBVIOUS
<1>2. \A A \in F : IsFiniteSet(A)
  BY FS_Subset
<1>3. PICK A \in F : \A B \in F : B \subseteq A => B = A
  <2> HIDE DEF F
  <2> QED
    BY <1>1, <1>2, SmallestSet
<1>4. PICK y \in A : StringsOf(h, A) # OwnStrings(h[y]) + StringsOf(h, A \ {y})
  OBVIOUS
<1> DEFINE z == One(A)
<1>5. z \in A /\ StringsOf(h, A) = OwnStrings(h[z]) + StringsOf(h, A \ {z})
  BY <1>2, <1>4, StringsStep
<1>6. y # z
  BY <1>4, <1>5
<1> HIDE DEF z
<1>7. /\ StringsOf(h, A \ {z}) = OwnStrings(h[y]) + StringsOf(h, (A \ {z}) \ {y})
      /\ StringsOf(h, A \ {y}) = OwnStrings(h[z]) + StringsOf(h, (A \ {y}) \ {z})
  BY <1>3, <1>4, <1>5, <1>6
<1>8. (A \ {z}) \ {y} = (A \ {y}) \ {z} /\ IsFiniteSet((A \ {z}) \ {y})
  BY <1>2, FS_Subset
<1>9. /\ StringsOf(h, (A \ {z}) \ {y}) \in Nat
      /\ OwnStrings(h[y]) \in Nat /\ OwnStrings(h[z]) \in Nat
  BY <1>8, StringsNat, OwnNat
<1> QED
  BY <1>4, <1>5, <1>7, <1>8, <1>9

LEMMA StringsSame ==
  ASSUME NEW h, NEW g, NEW S, IsFiniteSet(S), \A m \in S : OwnStrings(g[m]) = OwnStrings(h[m])
  PROVE  StringsOf(g, S) = StringsOf(h, S)
<1> DEFINE F == {A \in SUBSET S : StringsOf(g, A) # StringsOf(h, A)}
<1>1. SUFFICES ASSUME F # {} PROVE FALSE
  OBVIOUS
<1>2. \A A \in F : IsFiniteSet(A)
  BY FS_Subset
<1>3. PICK A \in F : \A B \in F : B \subseteq A => B = A
  <2> HIDE DEF F
  <2> QED
    BY <1>1, <1>2, SmallestSet
<1>4. A \subseteq S /\ StringsOf(g, A) # StringsOf(h, A)
  OBVIOUS
<1>5. /\ A = {} => StringsOf(h, A) = 0 /\ StringsOf(g, A) = 0
      /\ A # {} => /\ One(A) \in A
                   /\ StringsOf(h, A) = OwnStrings(h[One(A)]) + StringsOf(h, A \ {One(A)})
                   /\ StringsOf(g, A) = OwnStrings(g[One(A)]) + StringsOf(g, A \ {One(A)})
  BY <1>2, StringsStep
<1>6. A # {} => StringsOf(g, A \ {One(A)}) = StringsOf(h, A \ {One(A)})
  BY <1>3, <1>5
<1> QED
  BY <1>4, <1>5, <1>6

LEMMA StringsSplit ==
  ASSUME NEW h, NEW S, IsFiniteSet(S), NEW T \in SUBSET S
  PROVE  StringsOf(h, S) = StringsOf(h, T) + StringsOf(h, S \ T)
<1> DEFINE F == {A \in SUBSET T : StringsOf(h, S) # StringsOf(h, A) + StringsOf(h, S \ A)}
<1>1. SUFFICES ASSUME F # {} PROVE FALSE
  OBVIOUS
<1>2. \A A \in F : IsFiniteSet(A)
  BY FS_Subset
<1>3. PICK A \in F : \A B \in F : B \subseteq A => B = A
  <2> HIDE DEF F
  <2> QED
    BY <1>1, <1>2, SmallestSet
<1>4. A \subseteq S /\ StringsOf(h, S) # StringsOf(h, A) + StringsOf(h, S \ A) /\ IsFiniteSet(A)
  BY <1>2
<1>5. A # {}
  <2>1. ASSUME A = {} PROVE FALSE
    <3>1. S \ A = S /\ StringsOf(h, A) = 0 /\ StringsOf(h, S) \in Nat
      BY <1>4, <2>1, StringsStep, StringsNat
    <3> QED
      BY <1>4, <3>1
  <2> QED
    BY <2>1
<1>6. PICK y : y \in A
  BY <1>5
<1> DEFINE B == A \ {y}
<1>7. /\ B \in SUBSET T /\ B # A /\ B \subseteq A /\ IsFiniteSet(B) /\ IsFiniteSet(S \ B)
      /\ IsFiniteSet(S \ A) /\ y \in S \ B /\ (S \ B) \ {y} = S \ A
  BY <1>4, <1>6, FS_Subset
<1>8. StringsOf(h, S) = StringsOf(h, B) + StringsOf(h, S \ B)
  BY <1>3, <1>7
<1>9. StringsOf(h, S \ B) = OwnStrings(h[y]) + StringsOf(h, S \ A)
  <2> HIDE DEF B
  <2>1. StringsOf(h, S \ B) = OwnStrings(h[y]) + StringsOf(h, (S \ B) \ {y})
    BY <1>7, StringsOne
  <2> QED
    BY <1>7, <2>1
<1>10. StringsOf(h, A) = OwnStrings(h[y]) + StringsOf(h, B)
  BY <1>4, <1>6, StringsOne
<1>11. StringsOf(h, S \ A) \in Nat /\ StringsOf(h, B) \in Nat /\ OwnStrings(h[y]) \in Nat
  <2> HIDE DEF B
  <2> QED
    BY <1>7, StringsNat, OwnNat
<1> HIDE DEF B
<1> QED
  BY <1>4, <1>8, <1>9, <1>10, <1>11

-----------------------------------------------------------------------------
(* The strings of the program.                                             *)

(* What StringsHaveOneOwner counts, when the caller had kept strings of    *)
(* its own before the call.                                                *)
StringsCounted(kept) ==
  strings = kept + StringsOf(heap, DOMAIN heap) + (IF sPc = "decode" THEN 1 ELSE 0)
            + (IF result = NULL THEN 0 ELSE 1)

(* Who has which string, and that a node about to get one has none.        *)
OwnedStrings(kept) ==
  /\ StringsCounted(kept)
  /\ pc # "extracted" => result = NULL
  /\ \A m \in DOMAIN heap : heap[m].const = FALSE
  /\ pc = "value" => heap[item].valuestring = NULL
  /\ pc \in {"string", "name"} => (heap[item].valuestring = NULL <=> sPc # "ok")
  /\ pc = "name" => heap[item].string = NULL

SameText(h, g) ==
  /\ DOMAIN g = DOMAIN h
  /\ \A m \in DOMAIN h : /\ g[m].ref = h[m].ref /\ g[m].const = h[m].const
                         /\ g[m].string = h[m].string /\ g[m].valuestring = h[m].valuestring

LEMMA SameTextSameStrings ==
  ASSUME NEW h, NEW g, SameText(h, g), IsFiniteSet(DOMAIN h)
  PROVE  StringsOf(g, DOMAIN g) = StringsOf(h, DOMAIN h)
<1>1. \A m \in DOMAIN h : OwnStrings(g[m]) = OwnStrings(h[m])
  BY DEF SameText, OwnStrings
<1>2. StringsOf(g, DOMAIN h) = StringsOf(h, DOMAIN h)
  BY <1>1, StringsSame
<1> QED
  BY <1>2 DEF SameText

LEMMA TypeText ==
  ASSUME NEW h, HeapOK(h), NEW n, NEW t
  PROVE  SameText(h, [h EXCEPT ![n].type = t])
BY DEF SameText, HeapOK, Node

(* One node changes.                                                       *)
LEMMA OneNodeStrings ==
  ASSUME NEW h, NEW g, IsFiniteSet(DOMAIN h), NEW n \in DOMAIN h, DOMAIN g = DOMAIN h,
         \A m \in DOMAIN h \ {n} : g[m] = h[m]
  PROVE  \E rest \in Nat : /\ StringsOf(h, DOMAIN h) = OwnStrings(h[n]) + rest
                           /\ StringsOf(g, DOMAIN g) = OwnStrings(g[n]) + rest
<1>1. IsFiniteSet(DOMAIN h \ {n})
  BY FS_Subset
<1>2. StringsOf(g, DOMAIN h \ {n}) = StringsOf(h, DOMAIN h \ {n})
  BY <1>1, StringsSame
<1>3. StringsOf(h, DOMAIN h \ {n}) \in Nat
  BY <1>1, StringsNat
<1>4. /\ StringsOf(h, DOMAIN h) = OwnStrings(h[n]) + StringsOf(h, DOMAIN h \ {n})
      /\ StringsOf(g, DOMAIN h) = OwnStrings(g[n]) + StringsOf(g, DOMAIN h \ {n})
  BY StringsOne
<1> QED
  BY <1>2, <1>3, <1>4

(* A node without strings is added.                                        *)
LEMMA AddedStrings ==
  ASSUME NEW h, NEW g, NEW n, n \notin DOMAIN h, DOMAIN g = DOMAIN h \cup {n},
         IsFiniteSet(DOMAIN h), \A m \in DOMAIN h : OwnStrings(g[m]) = OwnStrings(h[m]),
         OwnStrings(g[n]) = 0
  PROVE  StringsOf(g, DOMAIN g) = StringsOf(h, DOMAIN h)
<1>1. IsFiniteSet(DOMAIN g) /\ DOMAIN g \ {n} = DOMAIN h /\ n \in DOMAIN g
  BY FS_AddElement
<1>2. StringsOf(g, DOMAIN g) = OwnStrings(g[n]) + StringsOf(g, DOMAIN h)
  <2>1. StringsOf(g, DOMAIN g) = OwnStrings(g[n]) + StringsOf(g, DOMAIN g \ {n})
    BY <1>1, StringsOne
  <2> QED
    BY <1>1, <2>1
<1>3. StringsOf(g, DOMAIN h) = StringsOf(h, DOMAIN h) /\ StringsOf(h, DOMAIN h) \in Nat
  BY StringsSame, StringsNat
<1> QED
  BY <1>2, <1>3

(* Nodes are freed with their strings.                                     *)
LEMMA FreedStrings ==
  ASSUME NEW h, IsFiniteSet(DOMAIN h), NEW S \in SUBSET DOMAIN h
  PROVE  /\ StringsOf(h, DOMAIN h) = StringsOf(h, S) + StringsOf(Without(h, S), DOMAIN Without(h, S))
         /\ StringsOf(h, S) \in Nat
         /\ StringsOf(Without(h, S), DOMAIN Without(h, S)) \in Nat
<1> DEFINE g == Without(h, S)
<1>1. DOMAIN g = DOMAIN h \ S /\ \A m \in DOMAIN g : g[m] = h[m]
  BY DEF Without
<1>2. IsFiniteSet(DOMAIN g) /\ IsFiniteSet(S)
  BY <1>1, FS_Subset
<1> HIDE DEF g
<1>3. StringsOf(g, DOMAIN g) = StringsOf(h, DOMAIN g)
  BY <1>1, <1>2, StringsSame
<1>4. StringsOf(h, DOMAIN h) = StringsOf(h, S) + StringsOf(h, DOMAIN h \ S)
  BY StringsSplit
<1>5. StringsOf(h, S) \in Nat /\ StringsOf(h, DOMAIN g) \in Nat
  BY <1>2, StringsNat
<1>6. StringsOf(h, DOMAIN h) = StringsOf(h, S) + StringsOf(g, DOMAIN g) /\ StringsOf(g, DOMAIN g) \in Nat
  BY <1>1, <1>3, <1>4, <1>5
<1> QED
  BY <1>5, <1>6 DEF g

LEMMA CountKept ==
  ASSUME NEW kept \in Nat, StringsCounted(kept), StringsOf(heap', DOMAIN heap') = StringsOf(heap, DOMAIN heap),
         strings' = strings, sPc' = "decode" <=> sPc = "decode", result' = result
  PROVE  StringsCounted(kept)'
BY DEF StringsCounted

LEMMA ItemInHeap ==
  ASSUME OwnInv, pc \in {"value", "string", "name"}
  PROVE  item \in DOMAIN heap /\ heap[item].ref = FALSE
<1>1. Linked(heap, stack, root) /\ Filling
  BY DEF OwnInv
<1>2. Len(stack) \in 0..Len(stack)
  BY <1>1, LinkedKnown
<1> QED
  BY <1>1, <1>2, LinkedKnown DEF Filling, Solid

(* Steps that change no string and begin no value.                         *)
LEMMA QuietStrings ==
  ASSUME NEW kept \in Nat, FiniteHeap, OwnedStrings(kept), pc # "extracted",
         pc' \notin {"value", "string", "name", "extracted"},
         SameText(heap, heap'), strings' = strings, sPc # "decode", sPc' # "decode",
         result' = result
  PROVE  OwnedStrings(kept)'
<1>1. StringsCounted(kept)'
  <2>1. StringsOf(heap', DOMAIN heap') = StringsOf(heap, DOMAIN heap)
    BY SameTextSameStrings DEF FiniteHeap
  <2> QED
    BY <2>1, CountKept DEF OwnedStrings
<1>2. \A m \in DOMAIN heap' : heap'[m].const = FALSE
  BY DEF SameText, OwnedStrings
<1> QED
  BY <1>1, <1>2 DEF OwnedStrings

LEMMA QuietStepStrings ==
  ASSUME NEW kept \in Nat, IInv, FiniteHeap, OwnedStrings(kept), result' = result,
         \/ NoStart \/ ParseLiteral \/ StringReturned \/ ParseNumber \/ ParseNoNumber
         \/ ParseNothing \/ NoElement \/ NoMemberName \/ AfterValue \/ Parsed
         \/ \E kind \in DOMAIN OpenOf : TooDeep(kind) \/ OpenEmpty(kind) \/ OpenList(kind)
  PROVE  OwnedStrings(kept)'
<1>1. HeapOK(heap) /\ SameText(heap, heap)
  BY Known DEF SameText
<1>2. pc \notin {"string", "name"} => sPc = "idle"
  BY DEF IInv, ControlInv
<1>3. CASE NoStart \/ ParseNoNumber \/ ParseNothing \/ NoElement \/ AfterValue \/ Parsed
           \/ \E kind \in DOMAIN OpenOf : TooDeep(kind) \/ OpenList(kind)
  <2>1. /\ pc \notin {"extracted", "string", "name"} /\ pc' \in {"fail", "element", "done"}
        /\ heap' = heap /\ strings' = strings /\ sPc' = sPc
    BY <1>3 DEF NoStart, ParseNoNumber, ParseNothing, NoElement, AfterValue, Parsed, TooDeep, OpenList,
                Opening, heapVars, stringVars
  <2> QED
    BY <1>1, <1>2, <2>1, QuietStrings
<1>4. CASE StringReturned \/ NoMemberName
  <2>1. /\ pc \in {"string", "name"} /\ pc' \in {"fail", "parsed", "after"}
        /\ heap' = heap /\ strings' = strings /\ sPc \in {"ok", "failed"} /\ sPc' = "idle"
    BY <1>4 DEF StringReturned, NoMemberName, EndString, Returned, heapVars
  <2> QED
    BY <1>1, <2>1, QuietStrings
<1>5. CASE ParseLiteral \/ ParseNumber \/ \E kind \in DOMAIN OpenOf : OpenEmpty(kind)
  <2>1. /\ pc = "value" /\ pc' \in {"parsed", "after"} /\ strings' = strings /\ sPc' = sPc
    BY <1>5 DEF ParseLiteral, ParseNumber, OpenEmpty, EmptyList, Opening, Returned, stringVars
  <2>2. PICK t : heap' = [heap EXCEPT ![item].type = t]
    BY <1>5 DEF ParseLiteral, ParseNumber, OpenEmpty
  <2>3. SameText(heap, heap')
    BY <1>1, <2>2, TypeText
  <2> QED
    BY <1>2, <2>1, <2>3, QuietStrings
<1> QED
  BY <1>3, <1>4, <1>5

LEMMA StringBeginsStrings ==
  ASSUME NEW kept \in Nat, IInv, FiniteHeap, OwnedStrings(kept), result' = result, ParseStringValue
  PROVE  OwnedStrings(kept)'
<1>1. /\ pc = "value" /\ pc' = "string" /\ heap' = heap /\ strings' = strings /\ item' = item
      /\ sPc' \in {"scan", "fail"}
  BY DEF ParseStringValue, parse_string, heapVars
<1>2. sPc = "idle"
  BY <1>1 DEF IInv, ControlInv
<1>3. StringsCounted(kept)'
  BY <1>1, <1>2, CountKept DEF OwnedStrings
<1> QED
  BY <1>1, <1>3 DEF OwnedStrings

(* parse_string: from malloc on the string is in its hands, until it is in *)
(* the node or freed.                                                      *)
LEMMA StringRunsStrings ==
  ASSUME NEW kept \in Nat, IInv, OwnInv, FiniteHeap, OwnedStrings(kept), result' = result, StringRuns
  PROVE  OwnedStrings(kept)'
<1>1. /\ pc \in {"string", "name"} /\ pc' = pc /\ item' = item
      /\ item \in DOMAIN heap /\ heap[item].ref = FALSE
  <2>1. pc \in {"string", "name"}
    BY DEF StringRuns
  <2> QED
    BY <2>1, ItemInHeap DEF StringRuns, StringStep
<1>2. CASE /\ heap' = heap /\ strings' = strings /\ sPc # "ok" /\ sPc' # "ok"
           /\ sPc' = "decode" <=> sPc = "decode"
  <2>1. StringsCounted(kept)'
    BY <1>2, CountKept DEF OwnedStrings
  <2> QED
    BY <1>1, <1>2, <2>1 DEF OwnedStrings
<1>3. CASE /\ heap' = heap
           /\ \/ sPc = "scan" /\ sPc' = "decode" /\ strings' = strings + 1
              \/ sPc = "decode" /\ sPc' = "fail" /\ strings' = strings - 1
  <2>1. StringsOf(heap, DOMAIN heap) \in Nat
    BY StringsNat DEF FiniteHeap
  <2>2. result = NULL
    BY <1>1 DEF OwnedStrings
  <2>3. strings = kept + StringsOf(heap, DOMAIN heap) + (IF sPc = "decode" THEN 1 ELSE 0)
    BY <2>1, <2>2 DEF OwnedStrings, StringsCounted
  <2>4. strings' = kept + StringsOf(heap, DOMAIN heap) + (IF sPc' = "decode" THEN 1 ELSE 0)
    BY <1>3, <2>1, <2>3
  <2>5. StringsCounted(kept)'
    BY <1>3, <2>1, <2>2, <2>4 DEF StringsCounted
  <2> QED
    BY <1>1, <1>3, <2>5 DEF OwnedStrings
<1>4. CASE StringParsed
  <2>1. /\ sPc = "decode" /\ sPc' = "ok" /\ strings' = strings
        /\ heap' = [heap EXCEPT ![item].type = "String", ![item].valuestring = output]
    BY <1>4 DEF StringParsed
  <2>2. HeapOK(heap) /\ output # NULL
    <3>1. output \in Seq(0..255)
      BY DEF IInv, ParserTypeOK, Bytes
    <3> QED
      BY <3>1, Known, StringAssumption
  <2>3. /\ DOMAIN heap' = DOMAIN heap /\ \A m \in DOMAIN heap \ {item} : heap'[m] = heap[m]
        /\ heap'[item].valuestring = output /\ heap'[item].string = heap[item].string
        /\ heap'[item].const = heap[item].const /\ heap'[item].ref = heap[item].ref
    BY <1>1, <2>1, <2>2 DEF HeapOK, Node
  <2>4. heap[item].valuestring = NULL
    BY <1>1, <2>1 DEF OwnedStrings
  <2>5. PICK rest \in Nat : /\ StringsOf(heap, DOMAIN heap) = OwnStrings(heap[item]) + rest
                            /\ StringsOf(heap', DOMAIN heap') = OwnStrings(heap'[item]) + rest
    <3>1. IsFiniteSet(DOMAIN heap)
      BY DEF FiniteHeap
    <3> QED
      BY <1>1, <2>3, <3>1, OneNodeStrings
  <2>6. OwnStrings(heap'[item]) = OwnStrings(heap[item]) + 1 /\ OwnStrings(heap[item]) \in Nat
    BY <1>1, <2>2, <2>3, <2>4 DEF OwnStrings
  <2>7. strings = kept + StringsOf(heap, DOMAIN heap) + 1 /\ result = NULL
    BY <1>1, <2>1, <2>5, <2>6 DEF OwnedStrings, StringsCounted
  <2>8. strings' = kept + StringsOf(heap', DOMAIN heap')
    BY <2>1, <2>5, <2>6, <2>7
  <2>9. StringsCounted(kept)'
    BY <2>1, <2>5, <2>6, <2>7, <2>8 DEF StringsCounted
  <2>10. \A m \in DOMAIN heap' : heap'[m].const = FALSE
    BY <2>3 DEF OwnedStrings
  <2> QED
    BY <1>1, <2>1, <2>2, <2>3, <2>9, <2>10 DEF OwnedStrings
<1> QED
  BY <1>2, <1>3, <1>4 DEF StringRuns, StringStep, ScanChar, ScanEscape, AllocateOutput, DecodeChar,
                          DecodeEscape, DecodeLiteral, DecodeFails, StringFailed, heapVars

(* The text of a member's name moves from valuestring to string.           *)
LEMMA MemberNameStrings ==
  ASSUME NEW kept \in Nat, IInv, OwnInv, FiniteHeap, OwnedStrings(kept), result' = result, MemberName
  PROVE  OwnedStrings(kept)'
<1>1. /\ pc = "name" /\ pc' \in {"value", "fail"} /\ sPc = "ok" /\ sPc' = "idle"
      /\ item' = item /\ strings' = strings /\ heap' = [heap EXCEPT ![item] = Named(@)]
  BY DEF MemberName, EndString
<1>2. /\ HeapOK(heap) /\ item \in DOMAIN heap /\ heap[item].ref = FALSE
      /\ heap[item].valuestring # NULL /\ heap[item].string = NULL /\ heap[item].const = FALSE
  <2>1. item \in DOMAIN heap /\ heap[item].ref = FALSE
    BY <1>1, ItemInHeap
  <2> QED
    BY <1>1, <2>1, Known DEF OwnedStrings
<1>3. /\ DOMAIN heap' = DOMAIN heap /\ \A m \in DOMAIN heap \ {item} : heap'[m] = heap[m]
      /\ heap'[item].valuestring = NULL /\ heap'[item].string = heap[item].valuestring
      /\ heap'[item].const = FALSE /\ heap'[item].ref = FALSE
  BY <1>1, <1>2 DEF Named, HeapOK, Node
<1>4. OwnStrings(heap'[item]) = OwnStrings(heap[item])
  BY <1>2, <1>3 DEF OwnStrings
<1>5. StringsOf(heap', DOMAIN heap') = StringsOf(heap, DOMAIN heap)
  <2>1. IsFiniteSet(DOMAIN heap)
    BY DEF FiniteHeap
  <2>2. \A m \in DOMAIN heap : OwnStrings(heap'[m]) = OwnStrings(heap[m])
    BY <1>3, <1>4
  <2>3. StringsOf(heap', DOMAIN heap) = StringsOf(heap, DOMAIN heap)
    BY <2>1, <2>2, StringsSame
  <2> QED
    BY <1>3, <2>3
<1>6. StringsCounted(kept)'
  BY <1>1, <1>5, CountKept DEF OwnedStrings
<1>7. \A m \in DOMAIN heap' : heap'[m].const = FALSE
  BY <1>3 DEF OwnedStrings
<1> QED
  BY <1>1, <1>3, <1>6, <1>7 DEF OwnedStrings

LEMMA StartStrings ==
  ASSUME NEW kept \in Nat, IInv, FiniteHeap, OwnedStrings(kept), result' = result, Start
  PROVE  OwnedStrings(kept)'
<1>1. /\ pc = "start" /\ pc' = "value" /\ Unused # {} /\ heap' = With(heap, Fresh, Blank)
      /\ strings' = strings /\ sPc' = sPc /\ item' = Fresh
  BY DEF Start, stringVars
<1>2. Fresh \notin DOMAIN heap
  BY <1>1 DEF Fresh, Unused
<1>3. /\ DOMAIN heap' = DOMAIN heap \cup {Fresh} /\ \A m \in DOMAIN heap : heap'[m] = heap[m]
      /\ heap'[Fresh] = Blank
  BY <1>1, <1>2 DEF With
<1>4. Blank.string = NULL /\ Blank.valuestring = NULL /\ Blank.const = FALSE
  BY DEF Blank
<1>5. OwnStrings(heap'[Fresh]) = 0
  BY <1>3, <1>4 DEF OwnStrings
<1>6. StringsOf(heap', DOMAIN heap') = StringsOf(heap, DOMAIN heap)
  <2>1. IsFiniteSet(DOMAIN heap) /\ \A m \in DOMAIN heap : OwnStrings(heap'[m]) = OwnStrings(heap[m])
    BY <1>3 DEF FiniteHeap
  <2> QED
    BY <1>2, <1>3, <1>5, <2>1, AddedStrings
<1>7. StringsCounted(kept)'
  BY <1>1, <1>6, CountKept DEF OwnedStrings
<1>8. \A m \in DOMAIN heap' : heap'[m].const = FALSE
  BY <1>3, <1>4 DEF OwnedStrings
<1> QED
  BY <1>1, <1>3, <1>4, <1>7, <1>8 DEF OwnedStrings

LEMMA ElementStrings ==
  ASSUME NEW kept \in Nat, IInv, OwnInv, FiniteHeap, OwnedStrings(kept), result' = result, ArrayElement \/ ObjectMember
  PROVE  OwnedStrings(kept)'
<1>1. /\ pc = "element" /\ pc' \in {"value", "name", "fail"} /\ item' = Fresh
      /\ Fresh \notin DOMAIN heap /\ DOMAIN heap' = DOMAIN heap \cup {Fresh} /\ HeapOK(heap)
      /\ heap'[Fresh].string = NULL /\ heap'[Fresh].valuestring = NULL /\ heap'[Fresh].const = FALSE
      /\ \A m \in DOMAIN heap : heap'[m] = [heap[m] EXCEPT !.next = heap'[m].next]
  BY ElementAdded DEF AddsNode
<1>2. \A m \in DOMAIN heap :
        /\ heap'[m].ref = heap[m].ref /\ heap'[m].const = heap[m].const
        /\ heap'[m].string = heap[m].string /\ heap'[m].valuestring = heap[m].valuestring
  BY <1>1 DEF HeapOK, Node
<1>3. sPc = "idle"
  BY <1>1 DEF IInv, ControlInv
<1>4. strings' = strings /\ sPc' \in {"idle", "scan", "fail"}
  BY <1>3 DEF ArrayElement, ObjectMember, parse_string, stringVars
<1>5. StringsOf(heap', DOMAIN heap') = StringsOf(heap, DOMAIN heap)
  <2>1. IsFiniteSet(DOMAIN heap) /\ \A m \in DOMAIN heap : OwnStrings(heap'[m]) = OwnStrings(heap[m])
    BY <1>2 DEF FiniteHeap, OwnStrings
  <2>2. OwnStrings(heap'[Fresh]) = 0
    BY <1>1 DEF OwnStrings
  <2> QED
    BY <1>1, <2>1, <2>2, AddedStrings
<1>6. StringsCounted(kept)'
  BY <1>3, <1>4, <1>5, CountKept DEF OwnedStrings
<1>7. \A m \in DOMAIN heap' : heap'[m].const = FALSE
  BY <1>1, <1>2 DEF OwnedStrings
<1> QED
  BY <1>1, <1>4, <1>6, <1>7 DEF OwnedStrings

LEMMA CloseStrings ==
  ASSUME NEW kept \in Nat, IInv, OwnInv, FiniteHeap, OwnedStrings(kept), result' = result, CloseList
  PROVE  OwnedStrings(kept)'
<1>1. /\ pc = "after" /\ pc' = Returned(Pop)
      /\ Hangs(heap, heap', stack[Len(stack)].item, stack[Len(stack)].head)
      /\ \A m \in DOMAIN heap : /\ heap'[m].string = heap[m].string
                                /\ heap'[m].valuestring = heap[m].valuestring
                                /\ heap'[m].const = heap[m].const
  BY ListHangs
<1>2. SameText(heap, heap')
  BY <1>1 DEF Hangs, SameText
<1>3. sPc = "idle" /\ sPc' = sPc /\ strings' = strings /\ pc' \in {"parsed", "after"}
  BY <1>1 DEF IInv, ControlInv, CloseList, stringVars, Returned
<1> QED
  BY <1>1, <1>2, <1>3, QuietStrings

(* A list, or the whole tree, is deleted with its strings.                 *)
LEMMA DeletedStrings ==
  ASSUME NEW kept \in Nat, FiniteHeap, OwnedStrings(kept), NEW gone \in SUBSET DOMAIN heap, heap' = Without(heap, gone),
         NEW copy \in {0, 1}, strings' = strings - StringsOf(heap, gone) + copy,
         sPc # "decode", sPc' = sPc, result = NULL, result' = NULL <=> copy = 0
  PROVE  StringsCounted(kept)' /\ \A m \in DOMAIN heap' : heap'[m].const = FALSE
<1>1. /\ StringsOf(heap, DOMAIN heap) = StringsOf(heap, gone) + StringsOf(heap', DOMAIN heap')
      /\ StringsOf(heap, gone) \in Nat /\ StringsOf(heap', DOMAIN heap') \in Nat
  BY FreedStrings DEF FiniteHeap
<1>2. strings = kept + StringsOf(heap, DOMAIN heap)
  BY <1>1 DEF OwnedStrings, StringsCounted
<1>3. strings' = kept + StringsOf(heap', DOMAIN heap') + copy
  BY <1>1, <1>2
<1>4. StringsCounted(kept)'
  BY <1>1, <1>3 DEF StringsCounted
<1>5. \A m \in DOMAIN heap' : heap'[m].const = FALSE
  BY DEF Without, OwnedStrings
<1> QED
  BY <1>4, <1>5

LEMMA EndStrings ==
  ASSUME NEW kept \in Nat, IInv, FiniteHeap, OwnedStrings(kept),
         ((Unwind \/ Failed) /\ result' = result) \/ Extract \/ NoTree
  PROVE  OwnedStrings(kept)'
<1>1. \A n : Owned(heap, n) \in SUBSET DOMAIN heap
  BY DEF Owned
<1>2. pc \in {"fail", "done"} /\ sPc = "idle" /\ sPc' = "idle" /\ result = NULL
  <2>1. pc \in {"fail", "done"} /\ sPc' = sPc
    BY DEF Unwind, Failed, Extract, NoTree, stringVars
  <2> QED
    BY <2>1 DEF IInv, ControlInv, OwnedStrings
<1>3. CASE (Unwind \/ Failed) /\ result' = result
  <2>1. PICK n : /\ heap' = Without(heap, IF n = NULL THEN {} ELSE Owned(heap, n))
                 /\ strings' = strings - StringsOf(heap, IF n = NULL THEN {} ELSE Owned(heap, n))
    BY <1>3 DEF Unwind, Failed, cJSON_Delete
  <2> DEFINE gone == IF n = NULL THEN {} ELSE Owned(heap, n)
  <2>2. gone \in SUBSET DOMAIN heap /\ heap' = Without(heap, gone)
        /\ strings' = strings - StringsOf(heap, gone)
    BY <1>1, <2>1
  <2> HIDE DEF gone
  <2>3. strings \in Int /\ StringsOf(heap, gone) \in Nat
    <3>1. StringsOf(heap, gone) \in Nat /\ StringsOf(heap, DOMAIN heap) \in Nat
      BY <2>2, FreedStrings, StringsNat DEF FiniteHeap
    <3> QED
      BY <1>2, <3>1 DEF OwnedStrings, StringsCounted
  <2>4. strings' = strings - StringsOf(heap, gone) + 0
    BY <2>2, <2>3
  <2>5. StringsCounted(kept)' /\ \A m \in DOMAIN heap' : heap'[m].const = FALSE
    BY <1>2, <1>3, <2>2, <2>4, DeletedStrings
  <2>6. pc' \in {"fail", "done"}
    BY <1>3 DEF Unwind, Failed
  <2> QED
    BY <1>2, <1>3, <2>5, <2>6 DEF OwnedStrings
<1>4. CASE Extract
  <2> DEFINE gone == Owned(heap, root)
  <2>1. /\ heap' = Without(heap, gone) /\ pc' = "extracted"
        /\ strings' = strings - StringsOf(heap, gone) + Copies(result')
    BY <1>4 DEF Extract
  <2>2. Copies(result') \in {0, 1} /\ (result' = NULL <=> Copies(result') = 0)
    BY DEF Copies
  <2>3. gone \in SUBSET DOMAIN heap
    BY <1>1
  <2> HIDE DEF gone
  <2>4. StringsCounted(kept)' /\ \A m \in DOMAIN heap' : heap'[m].const = FALSE
    BY <1>2, <2>1, <2>2, <2>3, DeletedStrings
  <2> QED
    BY <2>1, <2>4 DEF OwnedStrings
<1>5. CASE NoTree
  <2>1. heap' = heap /\ strings' = strings /\ result' = result /\ pc' = "extracted"
    BY <1>5 DEF NoTree, heapVars
  <2>2. StringsCounted(kept)'
    BY <1>2, <2>1, CountKept DEF OwnedStrings
  <2> QED
    BY <2>1, <2>2 DEF OwnedStrings
<1> QED
  BY <1>3, <1>4, <1>5

LEMMA StepStrings ==
  ASSUME NEW kept \in Nat, IInv, OwnInv, FiniteHeap, OwnedStrings(kept), [Next]_vars
  PROVE  OwnedStrings(kept)'
<1>1. CASE Parse
  <2>0. result' = result /\ ParserStep
    BY <1>1 DEF Parse
  <2>1. CASE OpenArray \/ OpenObject
    <3>1. PICK kind \in DOMAIN OpenOf : Open(kind)
      BY <2>1 DEF OpenArray, OpenObject, OpenOf
    <3> QED
      BY <2>0, <3>1, QuietStepStrings DEF Open
  <2>2. CASE Start \/ ParseStringValue \/ ArrayElement \/ ObjectMember \/ MemberName \/ CloseList
             \/ Unwind \/ Failed \/ StringRuns
    BY <2>0, <2>2, StartStrings, StringBeginsStrings, ElementStrings, MemberNameStrings, CloseStrings,
       EndStrings, StringRunsStrings
  <2>3. CASE \/ NoStart \/ ParseLiteral \/ StringReturned \/ ParseNumber \/ ParseNoNumber
             \/ ParseNothing \/ NoElement \/ NoMemberName \/ AfterValue \/ Parsed
    BY <2>0, <2>3, QuietStepStrings
  <2> QED
    BY <2>0, <2>1, <2>2, <2>3 DEF ParserStep
<1>2. CASE Extract \/ NoTree
  BY <1>2, EndStrings
<1>3. CASE UNCHANGED vars
  BY <1>3 DEF vars, parserVars, heapVars, stringVars, OwnedStrings, StringsCounted
<1> QED
  BY <1>1, <1>2, <1>3 DEF Next, Ended

LEMMA InitStrings == Init => OwnedStrings(0)
<1> SUFFICES ASSUME Init PROVE OwnedStrings(0)
  OBVIOUS
<1>1. /\ pc = "start" /\ sPc = "idle" /\ result = NULL /\ strings = 0
      /\ DOMAIN heap = {} /\ IsFiniteSet(DOMAIN heap)
  BY FS_EmptySet DEF Init, ParserInit, HeapInit, StringInit
<1>2. StringsOf(heap, DOMAIN heap) = 0
  BY <1>1, StringsStep
<1>3. StringsCounted(0)
  BY <1>1, <1>2 DEF StringsCounted
<1> QED
  BY <1>1, <1>3 DEF OwnedStrings

LEMMA OwnedStringsInvariant == Spec => []OwnedStrings(0)
<1>1. IInv /\ OwnInv /\ FiniteHeap /\ OwnedStrings(0) /\ [Next]_vars => OwnedStrings(0)'
  BY StepStrings
<1> QED
  BY <1>1, InitStrings, Inductive, OwnInvariant, HeapIsFinite, PTL DEF Spec

(* What a call that returns leaves: the copy, and what was there before.   *)
LEMMA StringsLeft ==
  ASSUME IInv, OwnInv, NEW kept \in Nat, OwnedStrings(kept), pc = "extracted"
  PROVE  strings = kept + IF result = NULL THEN 0 ELSE 1
<1>1. DOMAIN heap = {} /\ IsFiniteSet(DOMAIN heap) /\ sPc = "idle"
  BY FS_EmptySet DEF OwnInv, IInv, ControlInv
<1>2. StringsOf(heap, DOMAIN heap) = 0
  BY <1>1, StringsStep
<1> QED
  BY <1>1, <1>2 DEF OwnedStrings, StringsCounted

(* Whatever the text, and whichever allocation is refused: every string in *)
(* use is a node's value or its name, or in the hands of parse_string, or  *)
(* the copy that is returned (StringsHaveOneOwner).                        *)
THEOREM EveryStringHasOneOwner == Spec => []StringsHaveOneOwner
<1>1. FiniteHeap /\ OwnedStrings(0) => StringsHaveOneOwner
  <2>1. FiniteHeap => StringsOf(heap, DOMAIN heap) \in Nat
    BY StringsNat DEF FiniteHeap
  <2> QED
    BY <2>1 DEF OwnedStrings, StringsCounted, StringsHaveOneOwner
<1> QED
  BY <1>1, HeapIsFinite, OwnedStringsInvariant, PTL

(* When extract_first_key_field returns, nothing is in use but the copy it *)
(* returns, and that only when it returns one.                             *)
THEOREM OnlyTheCopyIsLeft ==
  Spec => [](pc = "extracted" => strings = IF result = NULL THEN 0 ELSE 1)
<1>1. IInv /\ OwnInv /\ OwnedStrings(0) =>
        (pc = "extracted" => strings = IF result = NULL THEN 0 ELSE 1)
  BY StringsLeft
<1> QED
  BY <1>1, Inductive, OwnInvariant, OwnedStringsInvariant, PTL

-----------------------------------------------------------------------------
(* One call of extract_first_key_field after another, on the same heap.    *)

(* What holds in every call when the caller had kept strings before it.    *)
CallInv(kept) ==
  IInv /\ OwnInv /\ ListInv /\ FiniteHeap /\ ResultTyped /\ OwnedStrings(kept)

LEMMA FirstCall == Init => CallInv(0)
BY InitInv, InitOwns, InitLists, InitFinite, InitResult, InitStrings DEF CallInv

LEMMA CallSteps ==
  ASSUME NEW kept \in Nat, CallInv(kept), [Next]_vars
  PROVE  CallInv(kept)'
<1>1. IInv'
  BY StepsKeep DEF CallInv
<1>2. OwnInv'
  BY StepOwns DEF CallInv
<1>3. FiniteHeap'
  BY StepFinite DEF CallInv
<1>4. OwnedStrings(kept)'
  BY StepStrings DEF CallInv
<1>5. ListInv'
  BY StepLists DEF CallInv
<1>6. ResultTyped'
  BY StepResult DEF CallInv
<1> QED
  BY <1>1, <1>2, <1>3, <1>4, <1>5, <1>6 DEF CallInv

(* A call finds nothing of the one before it but the copy.                 *)
LEMMA CallAfterCall ==
  ASSUME NEW kept \in Nat, CallInv(kept), pc \in {"start", "extracted"},
         content' \in Seq(Bytes), field' \in FieldNames, offset' = 0, pc' = "start", depth' = 0, root' = NULL,
         result' = NULL,
         UNCHANGED <<heapVars, stringVars, item, stack, require, parse_end>>,
         NEW now \in Nat, now = kept + IF result = NULL THEN 0 ELSE 1
  PROVE  CallInv(now)'
<1>0. UNCHANGED <<heap, strings, refused, sPc, input_pointer, input_end, skipped, room, output>>
  BY DEF heapVars, stringVars
<1>1. stack = <<>> /\ sPc = "idle"
  BY DEF CallInv, OwnInv, IInv, ControlInv
<1>2. IInv'
  <2>1. ParserTypeOK'
    BY <1>0 DEF CallInv, IInv, ParserTypeOK, Address
  <2>2. ControlInv'
    <3>1. Len(content') \in Nat /\ NestingLimit \in Nat /\ Len(<<>>) = 0
      BY LimitAssumption
    <3> QED
      BY <1>0, <1>1, <3>1 DEF CallInv, IInv, ControlInv
  <2>3. StringInv'
    BY <1>0, <1>1 DEF StringInv
  <2> QED
    BY <2>1, <2>2, <2>3 DEF IInv
<1>3. OwnInv'
  <2>1. Linked(heap, <<>>, NULL)
    <3>1. CASE pc = "start"
      BY <3>1 DEF CallInv, OwnInv
    <3>2. CASE pc = "extracted"
      BY <3>2, EmptyHeapLinked DEF CallInv, OwnInv
    <3> QED
      BY <3>1, <3>2
  <2>2. heap' = heap /\ stack' = <<>> /\ root' = NULL
    BY <1>0, <1>1
  <2>3. Linked(heap', stack', root')
    BY <2>1, <2>2
  <2> QED
    BY <2>2, <2>3 DEF OwnInv
<1>4. FiniteHeap'
  BY <1>0 DEF CallInv, FiniteHeap
<1>5. OwnedStrings(now)'
  <2>1. StringsOf(heap, DOMAIN heap) \in Nat
    BY StringsNat DEF CallInv, FiniteHeap
  <2>2. strings = StringsOf(heap, DOMAIN heap) + now
    BY <1>1, <2>1 DEF CallInv, OwnedStrings, StringsCounted
  <2>3. StringsCounted(now)'
    BY <1>0, <1>1, <2>1, <2>2 DEF StringsCounted
  <2> QED
    BY <1>0, <2>3 DEF CallInv, OwnedStrings
<1>6. ListInv'
  <2>1. pc' = "start" /\ heap' = heap /\ Len(stack') = 0
    BY <1>0, <1>1
  <2>2. Building(heap, stack)'
    BY <2>1 DEF Building
  <2>3. CASE pc = "start"
    BY <1>0, <2>2, <2>3 DEF CallInv, ListInv, BackLinked, TailKnown, EndsIn, NextShut
  <2>4. CASE pc = "extracted"
    BY <1>0, <2>2, <2>4 DEF CallInv, OwnInv, ListInv, BackLinked, TailKnown
  <2> QED
    BY <2>3, <2>4
<1>7. ResultTyped'
  BY DEF ResultTyped
<1> QED
  BY <1>2, <1>3, <1>4, <1>5, <1>6, <1>7 DEF CallInv

LEMMA CallLeaves ==
  ASSUME NEW kept \in Nat, CallInv(kept), pc = "extracted"
  PROVE  DOMAIN heap = {} /\ strings = kept + IF result = NULL THEN 0 ELSE 1
<1>1. strings = kept + IF result = NULL THEN 0 ELSE 1
  BY StringsLeft DEF CallInv
<1> QED
  BY <1>1 DEF CallInv, OwnInv
=============================================================================
