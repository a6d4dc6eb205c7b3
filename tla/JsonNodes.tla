------------------------------ MODULE JsonNodes ------------------------------
(***************************************************************************)
(* The memory cJSON works on: the nodes that were allocated and not freed, *)
(* with the pointers between them, and how many strings were.              *)
(***************************************************************************)
EXTENDS Integers, FiniteSetsExt

CONSTANTS Nodes,        \* addresses a node may have (bound: their number)
          NULL

ASSUME NodesAssumption == NULL \notin Nodes

VARIABLES heap,         \* the nodes in use, by address
          strings,      \* how many allocated strings are in use
          refused       \* whether an allocation was refused

heapVars == <<heap, strings, refused>>

Unused == Nodes \ DOMAIN heap
Fresh  == CHOOSE n \in Unused : TRUE

\* What cJSON_New_Item leaves in a node.  ref and const are the two flags that
\* share the type field in C.
Blank == [type |-> "Invalid", ref |-> FALSE, const |-> FALSE,
          next |-> NULL, prev |-> NULL, child |-> NULL,
          string |-> NULL, valuestring |-> NULL]
With(h, n, node) == [m \in DOMAIN h \cup {n} |-> IF m = n THEN node ELSE h[m]]

\* cJSON_Delete walks along next and, unless the node is a reference, into
\* child.
Closed(h, S) ==
  \A m \in S : /\ h[m].next \in S \cup {NULL}
               /\ h[m].ref \/ h[m].child \in S \cup {NULL}
Owned(h, n) ==
  LET closed == {S \in SUBSET DOMAIN h : n \in S /\ Closed(h, S)}
  IN  {m \in DOMAIN h : \A S \in closed : m \in S}

OwnStrings(node) ==
  (IF ~node.ref /\ node.valuestring # NULL THEN 1 ELSE 0) +
  (IF ~node.const /\ node.string # NULL THEN 1 ELSE 0)
StringsOf(h, S) == MapThenSumSet(LAMBDA m : OwnStrings(h[m]), S)

Without(h, S) == [m \in DOMAIN h \ S |-> h[m]]
cJSON_Delete(n) ==
  LET gone == IF n = NULL THEN {} ELSE Owned(heap, n)
  IN  /\ heap' = Without(heap, gone)
      /\ strings' = strings - StringsOf(heap, gone)

HeapInit == heap = <<>> /\ strings = 0 /\ refused = FALSE
=============================================================================
