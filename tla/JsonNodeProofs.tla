--------------------------- MODULE JsonNodeProofs ---------------------------
(***************************************************************************)
(* cJSON neither loses a node nor frees one twice: for every text, every   *)
(* nesting limit, every set of addresses and every allocation refused.     *)
(***************************************************************************)
EXTENDS JsonParserProofs

-----------------------------------------------------------------------------
(* Heaps.  None of the parser's nodes is a reference, so cJSON_Delete      *)
(* follows every pointer.                                                  *)

Points(h, m) == {h[m].next, h[m].child} \ {NULL}
Shut(h, S) == \A m \in S : Points(h, m) \subseteq S
Solid(h) == Shut(h, DOMAIN h) /\ \A m \in DOMAIN h : h[m].ref = FALSE

(* The lists of O and nothing else: every node is reached from one owner,  *)
(* by one way.                                                             *)
Forest(h, O) ==
  /\ Solid(h)
  /\ O \subseteq DOMAIN h
  /\ \A m \in DOMAIN h : h[m].next = h[m].child => h[m].next = NULL
  /\ \A m \in DOMAIN h : Points(h, m) \cap O = {}
  /\ \A m \in DOMAIN h : \A n \in DOMAIN h \ {m} : Points(h, m) \cap Points(h, n) = {}
  /\ \A m \in DOMAIN h : \E o \in O : m \in Owned(h, o)

LEMMA ShutIsClosed ==
  ASSUME NEW h, \A m \in DOMAIN h : h[m].ref = FALSE, NEW S \in SUBSET DOMAIN h
  PROVE  Closed(h, S) <=> Shut(h, S)
BY DEF Closed, Shut, Points

(* What belongs to a node is the least set that holds it and is shut.      *)
LEMMA OwnedIsLeast ==
  ASSUME NEW h, Solid(h), NEW n \in DOMAIN h
  PROVE  /\ Owned(h, n) \subseteq DOMAIN h /\ n \in Owned(h, n) /\ Shut(h, Owned(h, n))
         /\ \A S \in SUBSET DOMAIN h : n \in S /\ Shut(h, S) => Owned(h, n) \subseteq S
<1> DEFINE shut == {S \in SUBSET DOMAIN h : n \in S /\ Shut(h, S)}
<1>1. {S \in SUBSET DOMAIN h : n \in S /\ Closed(h, S)} = shut
  BY ShutIsClosed DEF Solid
<1>2. Owned(h, n) = {m \in DOMAIN h : \A S \in shut : m \in S}
  BY <1>1 DEF Owned
<1>3. DOMAIN h \in shut
  BY DEF Solid
<1>4. Shut(h, Owned(h, n))
  <2>1. SUFFICES ASSUME NEW m \in Owned(h, n), NEW t \in Points(h, m) PROVE t \in Owned(h, n)
    BY DEF Shut
  <2>2. \A S \in shut : t \in S
    BY <1>2, <2>1 DEF Shut
  <2> QED
    BY <1>2, <1>3, <2>2
<1> QED
  BY <1>2, <1>4

(* No pointer leads into what belongs to an owner from outside, ...        *)
LEMMA NoWayIn ==
  ASSUME NEW h, NEW O, Forest(h, O), NEW o \in O, NEW m \in DOMAIN h, m \notin Owned(h, o)
  PROVE  Points(h, m) \cap Owned(h, o) = {}
<1> SUFFICES ASSUME NEW t \in Points(h, m), t \in Owned(h, o) PROVE FALSE
  OBVIOUS
<1>1. Solid(h) /\ o \in DOMAIN h /\ t # o
  BY DEF Forest
<1> DEFINE S == Owned(h, o) \ {t}
<1>2. S \in SUBSET DOMAIN h /\ o \in S
  BY <1>1, OwnedIsLeast
<1>3. Shut(h, S)
  <2>1. SUFFICES ASSUME NEW n \in S, NEW s \in Points(h, n) PROVE s \in S
    BY DEF Shut
  <2>2. s \in Owned(h, o)
    BY <1>1, <2>1, OwnedIsLeast DEF Shut
  <2>3. n \in DOMAIN h \ {m}
    BY <1>2
  <2>4. s # t
    BY <2>1, <2>3 DEF Forest
  <2> QED
    BY <2>2, <2>4
<1>4. Owned(h, o) \subseteq S
  BY <1>1, <1>2, <1>3, OwnedIsLeast
<1> QED
  BY <1>4

(* ... so that no node belongs to two.                                     *)
LEMMA OwnersApart ==
  ASSUME NEW h, NEW O, Forest(h, O), NEW o \in O, NEW p \in O, o # p
  PROVE  Owned(h, o) \cap Owned(h, p) = {}
<1>1. Solid(h) /\ o \in DOMAIN h /\ p \in DOMAIN h
  BY DEF Forest
<1> DEFINE S == DOMAIN h \ Owned(h, o)
<1>2. p \notin Owned(h, o)
  <2> DEFINE R == Owned(h, o) \ {p}
  <2>1. SUFFICES ASSUME p \in Owned(h, o) PROVE FALSE
    OBVIOUS
  <2>2. R \in SUBSET DOMAIN h /\ o \in R
    BY <1>1, OwnedIsLeast
  <2>3. Shut(h, R)
    BY <1>1, <2>2, OwnedIsLeast DEF Shut, Forest
  <2>4. Owned(h, o) \subseteq R
    BY <1>1, <2>2, <2>3, OwnedIsLeast
  <2> QED
    BY <2>1, <2>4
<1>3. Shut(h, S)
  <2>1. SUFFICES ASSUME NEW m \in S PROVE Points(h, m) \subseteq S
    BY DEF Shut
  <2>2. Points(h, m) \cap Owned(h, o) = {}
    BY <2>1, NoWayIn
  <2> QED
    BY <1>1, <2>1, <2>2 DEF Solid, Shut
<1>4. Owned(h, p) \subseteq S
  BY <1>1, <1>2, <1>3, OwnedIsLeast
<1> QED
  BY <1>4

-----------------------------------------------------------------------------
(* What the parser does to a heap.                                         *)

SamePointers(h, g) ==
  /\ DOMAIN g = DOMAIN h
  /\ \A m \in DOMAIN h : g[m].next = h[m].next /\ g[m].child = h[m].child /\ g[m].ref = h[m].ref

LEMMA SamePointersSameOwners ==
  ASSUME NEW h, NEW g, SamePointers(h, g), NEW O, Forest(h, O)
  PROVE  Forest(g, O) /\ \A n \in DOMAIN h : Owned(g, n) = Owned(h, n)
<1>1. \A m \in DOMAIN h : Points(g, m) = Points(h, m)
  BY DEF SamePointers, Points
<1>2. \A S \in SUBSET DOMAIN h : Closed(g, S) <=> Closed(h, S)
  BY DEF SamePointers, Closed
<1>3. \A n \in DOMAIN h : Owned(g, n) = Owned(h, n)
  <2>1. SUFFICES ASSUME NEW n \in DOMAIN h PROVE Owned(g, n) = Owned(h, n)
    OBVIOUS
  <2>2. {S \in SUBSET DOMAIN g : n \in S /\ Closed(g, S)}
          = {S \in SUBSET DOMAIN h : n \in S /\ Closed(h, S)}
    BY <1>2 DEF SamePointers
  <2> QED
    BY <2>2 DEF Owned, SamePointers
<1>4. Solid(g)
  BY <1>1 DEF Solid, Shut, SamePointers, Forest
<1>5. \A m \in DOMAIN g : g[m].next = g[m].child => g[m].next = NULL
  BY DEF SamePointers, Forest
<1>6. \A m \in DOMAIN g : \E o \in O : m \in Owned(g, o)
  BY <1>3 DEF SamePointers, Forest
<1> QED
  BY <1>1, <1>3, <1>4, <1>5, <1>6 DEF Forest, SamePointers

(* A tree is deleted.                                                      *)
LEMMA DeletedTree ==
  ASSUME NEW h, NEW O, Forest(h, O), NEW o \in O, NEW g, g = Without(h, Owned(h, o))
  PROVE  /\ Forest(g, O \ {o})
         /\ \A p \in O \ {o} : Owned(h, p) \subseteq Owned(g, p)
         /\ \A m \in DOMAIN h \ Owned(h, o) : m \in DOMAIN g /\ g[m] = h[m]
<1>1. Solid(h) /\ O \subseteq DOMAIN h
  BY DEF Forest
<1>2. DOMAIN g = DOMAIN h \ Owned(h, o) /\ \A m \in DOMAIN g : g[m] = h[m]
  BY DEF Without
<1>3. \A m \in DOMAIN g : Points(g, m) = Points(h, m) /\ Points(h, m) \cap Owned(h, o) = {}
  BY <1>2, NoWayIn DEF Points
<1>4. Solid(g)
  <2>1. \A m \in DOMAIN g : Points(g, m) \subseteq DOMAIN g
    BY <1>1, <1>2, <1>3 DEF Solid, Shut
  <2> QED
    BY <1>1, <1>2, <2>1 DEF Solid, Shut
<1>5. \A p \in O \ {o} : p \in DOMAIN g /\ Owned(h, p) \subseteq Owned(g, p)
  <2>1. SUFFICES ASSUME NEW p \in O \ {o} PROVE p \in DOMAIN g /\ Owned(h, p) \subseteq Owned(g, p)
    OBVIOUS
  <2>2. p \in DOMAIN g
    BY <1>1, <1>2, OwnersApart, OwnedIsLeast
  <2>3. Owned(g, p) \in SUBSET DOMAIN h /\ p \in Owned(g, p)
    BY <1>2, <1>4, <2>2, OwnedIsLeast
  <2>4. Shut(h, Owned(g, p))
    <3>1. Shut(g, Owned(g, p)) /\ Owned(g, p) \subseteq DOMAIN g
      BY <1>4, <2>2, OwnedIsLeast
    <3> QED
      BY <1>3, <3>1 DEF Shut
  <2> QED
    BY <1>1, <2>2, <2>3, <2>4, OwnedIsLeast
<1>6. \A m \in DOMAIN g : \E p \in O \ {o} : m \in Owned(g, p)
  <2>1. SUFFICES ASSUME NEW m \in DOMAIN g PROVE \E p \in O \ {o} : m \in Owned(g, p)
    OBVIOUS
  <2>2. PICK p \in O : m \in Owned(h, p)
    BY <1>2 DEF Forest
  <2> QED
    BY <1>2, <1>5, <2>2
<1>7. /\ \A m \in DOMAIN g : g[m].next = g[m].child => g[m].next = NULL
      /\ \A m \in DOMAIN g : Points(g, m) \cap (O \ {o}) = {}
      /\ \A m \in DOMAIN g : \A n \in DOMAIN g \ {m} : Points(g, m) \cap Points(g, n) = {}
  BY <1>2, <1>3 DEF Forest
<1> QED
  BY <1>1, <1>2, <1>4, <1>5, <1>6, <1>7 DEF Forest

(* A new node is added: to no list, or behind the end of one.              *)
AddsNode(h, g, n) ==
  /\ n \notin DOMAIN h /\ n # NULL
  /\ DOMAIN g = DOMAIN h \cup {n}
  /\ g[n].next = NULL /\ g[n].child = NULL /\ g[n].ref = FALSE
  /\ \A m \in DOMAIN h : g[m].child = h[m].child /\ g[m].ref = h[m].ref

(* What is reached was reached before, or is the node that is new.         *)
LEMMA NothingLost ==
  ASSUME NEW h, NEW g, NEW n, Solid(h), Solid(g), n \notin DOMAIN h, DOMAIN h \subseteq DOMAIN g,
         DOMAIN g \subseteq DOMAIN h \cup {n},
         \A m \in DOMAIN h : Points(h, m) \subseteq Points(g, m)
  PROVE  \A p \in DOMAIN h : Owned(h, p) \subseteq Owned(g, p)
<1>1. SUFFICES ASSUME NEW p \in DOMAIN h PROVE Owned(h, p) \subseteq Owned(g, p)
  OBVIOUS
<1> DEFINE S == Owned(g, p) \cap DOMAIN h
<1>2. p \in Owned(g, p) /\ Shut(g, Owned(g, p))
  BY OwnedIsLeast
<1>3. Shut(h, S)
  BY <1>2 DEF Shut, Solid
<1>4. Owned(h, p) \subseteq S
  BY <1>2, <1>3, OwnedIsLeast
<1> QED
  BY <1>4

SameNext(h, g) == \A m \in DOMAIN h : g[m].next = h[m].next

LEMMA NodeAdded ==
  ASSUME NEW h, NEW O, Forest(h, O), NEW g, NEW n, AddsNode(h, g, n), SameNext(h, g)
  PROVE  /\ Forest(g, O \cup {n}) /\ n \in Owned(g, n)
         /\ \A p \in O : Owned(h, p) \subseteq Owned(g, p)
<1>1. Points(g, n) = {} /\ \A m \in DOMAIN h : Points(g, m) = Points(h, m) /\ n \notin Points(h, m)
  BY DEF AddsNode, SameNext, Points, Forest, Solid, Shut
<1>2. Solid(g)
  BY <1>1 DEF Solid, Shut, AddsNode, Forest
<1>3. \A p \in DOMAIN h : Owned(h, p) \subseteq Owned(g, p)
  BY <1>1, <1>2, NothingLost DEF AddsNode, Forest
<1>4. n \in Owned(g, n)
  BY <1>2, OwnedIsLeast DEF AddsNode
<1>5. \A m \in DOMAIN g : \E o \in O \cup {n} : m \in Owned(g, o)
  BY <1>3, <1>4 DEF AddsNode, Forest
<1>6. /\ \A m \in DOMAIN g : g[m].next = g[m].child => g[m].next = NULL
      /\ \A m \in DOMAIN g : Points(g, m) \cap (O \cup {n}) = {}
      /\ \A m \in DOMAIN g : \A k \in DOMAIN g \ {m} : Points(g, m) \cap Points(g, k) = {}
  BY <1>1 DEF Forest, AddsNode, SameNext
<1> QED
  BY <1>2, <1>3, <1>4, <1>5, <1>6 DEF Forest, AddsNode

LEMMA NodeAppended ==
  ASSUME NEW h, NEW O, Forest(h, O), NEW g, NEW n, AddsNode(h, g, n),
         NEW o \in O, NEW c \in Owned(h, o), h[c].next = NULL, g[c].next = n,
         \A m \in DOMAIN h \ {c} : g[m].next = h[m].next
  PROVE  /\ Forest(g, O) /\ n \in Owned(g, o)
         /\ \A p \in O : Owned(h, p) \subseteq Owned(g, p)
<1>1. c \in DOMAIN h /\ o \in DOMAIN h
  BY OwnedIsLeast DEF Forest
<1>2. /\ Points(g, n) = {} /\ Points(g, c) = Points(h, c) \cup {n}
      /\ \A m \in DOMAIN h \ {c} : Points(g, m) = Points(h, m)
      /\ \A m \in DOMAIN h : n \notin Points(h, m)
  BY <1>1 DEF AddsNode, Points, Forest, Solid, Shut
<1>3. Solid(g)
  <2>1. \A m \in DOMAIN g : Points(g, m) \subseteq DOMAIN g
    BY <1>1, <1>2 DEF AddsNode, Forest, Solid, Shut
  <2> QED
    BY <2>1 DEF Solid, Shut, AddsNode, Forest
<1>4. \A p \in DOMAIN h : Owned(h, p) \subseteq Owned(g, p)
  BY <1>1, <1>2, <1>3, NothingLost DEF AddsNode, Forest
<1>5. n \in Owned(g, o)
  <2>1. c \in Owned(g, o) /\ n \in Points(g, c)
    BY <1>1, <1>2, <1>4
  <2>2. Shut(g, Owned(g, o))
    BY <1>1, <1>3, OwnedIsLeast DEF AddsNode
  <2> QED
    BY <2>1, <2>2 DEF Shut
<1>6. \A m \in DOMAIN g : \E p \in O : m \in Owned(g, p)
  BY <1>4, <1>5 DEF AddsNode, Forest
<1>7. /\ \A m \in DOMAIN g : g[m].next = g[m].child => g[m].next = NULL
      /\ \A m \in DOMAIN g : Points(g, m) \cap O = {}
  <2>1. n \notin O
    BY DEF Forest, AddsNode
  <2>2. g[c].child # n
    BY <1>1 DEF AddsNode, Forest, Solid, Shut, Points
  <2> QED
    BY <1>1, <1>2, <2>1, <2>2, SMTT(20) DEF Forest, AddsNode
<1>8. \A m \in DOMAIN g : \A k \in DOMAIN g \ {m} : Points(g, m) \cap Points(g, k) = {}
  BY <1>1, <1>2 DEF Forest, AddsNode
<1> QED
  BY <1>3, <1>4, <1>5, <1>6, <1>7, <1>8 DEF Forest, AddsNode

(* A list becomes the children of a node that is in another.               *)
Hangs(h, g, i, o) ==
  /\ DOMAIN g = DOMAIN h /\ g[i].child = o
  /\ \A m \in DOMAIN h : g[m].next = h[m].next /\ g[m].ref = h[m].ref
  /\ \A m \in DOMAIN h \ {i} : g[m].child = h[m].child

LEMMA ListHung ==
  ASSUME NEW h, NEW O, Forest(h, O), NEW o \in O, NEW i \in DOMAIN h, i \notin Owned(h, o),
         h[i].child = NULL, o # NULL, NEW g, Hangs(h, g, i, o)
  PROVE  Forest(g, O \ {o}) /\ \A p \in O \ {o} : Owned(h, p) \subseteq Owned(g, p)
<1> USE DEF Hangs
<1>1. /\ Points(g, i) = Points(h, i) \cup {o}
      /\ \A m \in DOMAIN h \ {i} : Points(g, m) = Points(h, m)
      /\ \A m \in DOMAIN h : o \notin Points(h, m)
      /\ Solid(h) /\ O \subseteq DOMAIN h
  BY DEF Points, Forest
<1>2. Solid(g)
  <2>1. \A m \in DOMAIN g : Points(g, m) \subseteq DOMAIN g
    BY <1>1 DEF Solid, Shut
  <2> QED
    BY <1>1, <2>1 DEF Solid, Shut
<1>3. \A p \in DOMAIN h : Owned(h, p) \subseteq Owned(g, p)
  <2>1. SUFFICES ASSUME NEW p \in DOMAIN h PROVE Owned(h, p) \subseteq Owned(g, p)
    OBVIOUS
  <2>2. /\ Owned(g, p) \in SUBSET DOMAIN h /\ p \in Owned(g, p) /\ Shut(g, Owned(g, p))
    BY <1>2, OwnedIsLeast
  <2>3. Shut(h, Owned(g, p))
    BY <1>1, <2>2 DEF Shut
  <2> QED
    BY <1>1, <2>2, <2>3, OwnedIsLeast
<1>4. \A m \in DOMAIN g : \E p \in O \ {o} : m \in Owned(g, p)
  <2>1. PICK p \in O : i \in Owned(h, p)
    BY DEF Forest
  <2>2. p # o /\ i \in Owned(g, p) /\ Shut(g, Owned(g, p)) /\ Owned(g, p) \in SUBSET DOMAIN h
    BY <1>1, <1>2, <1>3, <2>1, OwnedIsLeast
  <2>3. o \in Owned(g, p)
    BY <1>1, <2>2 DEF Shut
  <2>4. Shut(h, Owned(g, p))
    BY <1>1, <2>2 DEF Shut
  <2>5. Owned(h, o) \subseteq Owned(g, p)
    BY <1>1, <2>2, <2>3, <2>4, OwnedIsLeast
  <2>6. SUFFICES ASSUME NEW m \in DOMAIN g PROVE \E q \in O \ {o} : m \in Owned(g, q)
    OBVIOUS
  <2>7. PICK q \in O : m \in Owned(h, q)
    BY DEF Forest
  <2>8. CASE q = o
    BY <2>2, <2>5, <2>7, <2>8
  <2>9. CASE q # o
    BY <1>1, <1>3, <2>7, <2>9
  <2> QED
    BY <2>8, <2>9
<1>5. /\ \A m \in DOMAIN g : g[m].next = g[m].child => g[m].next = NULL
      /\ \A m \in DOMAIN g : Points(g, m) \cap (O \ {o}) = {}
  <2>1. g[i].next # o
    BY <1>1 DEF Points
  <2>2. ASSUME NEW m \in DOMAIN g PROVE g[m].next = g[m].child => g[m].next = NULL
    <3>1. CASE m = i
      BY <2>1, <3>1
    <3>2. CASE m # i
      BY <3>2 DEF Forest
    <3> QED
      BY <3>1, <3>2
  <2>3. ASSUME NEW m \in DOMAIN g PROVE Points(g, m) \cap (O \ {o}) = {}
    BY <1>1 DEF Forest
  <2> QED
    BY <2>2, <2>3
<1>6. \A m \in DOMAIN g : \A k \in DOMAIN g \ {m} : Points(g, m) \cap Points(g, k) = {}
  BY <1>1 DEF Forest
<1> QED
  BY <1>1, <1>2, <1>3, <1>4, <1>5, <1>6 DEF Forest

-----------------------------------------------------------------------------
(* The lists that are being built: the root, then one for each call.       *)

Base(s, r, k) == IF k = 0 THEN r ELSE s[k].head
Last(s, r, k) == IF k = 0 THEN r ELSE s[k].current
Bases(s, r) == {Base(s, r, k) : k \in 0..Len(s)} \ {NULL}

(* Each list is a tree of its own, and ends in the node that the next call *)
(* fills in, which has no children yet.                                    *)
Linked(h, s, r) ==
  /\ s \in Seq(Call)
  /\ Forest(h, Bases(s, r))
  /\ \A k \in 0..Len(s) : Base(s, r, k) # NULL =>
       /\ Last(s, r, k) \in Owned(h, Base(s, r, k))
       /\ h[Last(s, r, k)].next = NULL
  /\ \A k \in 0..(Len(s) - 1) :
       /\ Base(s, r, k) # NULL
       /\ s[k + 1].item = Last(s, r, k)
       /\ h[Last(s, r, k)].child = NULL
  /\ \A j, k \in 0..Len(s) : j # k /\ Base(s, r, j) # NULL => Base(s, r, j) # Base(s, r, k)

LEMMA LinkedKnown ==
  ASSUME NEW h, NEW s, NEW r, Linked(h, s, r)
  PROVE  /\ Len(s) \in Nat /\ Solid(h)
         /\ \A k \in 0..Len(s) : Base(s, r, k) # NULL =>
              /\ Base(s, r, k) \in Bases(s, r) /\ Base(s, r, k) \in DOMAIN h
              /\ Last(s, r, k) \in DOMAIN h
         /\ \A j, k \in 0..Len(s) :
              j # k /\ Base(s, r, j) # NULL /\ Base(s, r, k) # NULL => Last(s, r, j) # Last(s, r, k)
<1>1. Len(s) \in Nat /\ Solid(h)
  BY DEF Linked, Forest
<1>2. \A k \in 0..Len(s) : Base(s, r, k) # NULL =>
              /\ Base(s, r, k) \in Bases(s, r) /\ Base(s, r, k) \in DOMAIN h
  BY DEF Linked, Forest, Bases
<1>3. \A k \in 0..Len(s) : Base(s, r, k) # NULL => Last(s, r, k) \in DOMAIN h
  BY <1>1, <1>2, OwnedIsLeast DEF Linked
<1>4. ASSUME NEW j \in 0..Len(s), NEW k \in 0..Len(s), j # k,
             Base(s, r, j) # NULL, Base(s, r, k) # NULL
      PROVE  Last(s, r, j) # Last(s, r, k)
  <2>1. Base(s, r, j) # Base(s, r, k) /\ Forest(h, Bases(s, r))
    BY <1>4 DEF Linked
  <2>2. Owned(h, Base(s, r, j)) \cap Owned(h, Base(s, r, k)) = {}
    BY <1>2, <1>4, <2>1, OwnersApart
  <2> QED
    BY <1>4, <2>2 DEF Linked
<1> QED
  BY <1>1, <1>2, <1>3, <1>4

LEMMA SameLinked ==
  ASSUME NEW h, NEW s, NEW r, Linked(h, s, r), NEW g, SamePointers(h, g)
  PROVE  Linked(g, s, r) /\ \A k \in 0..Len(s) : Base(s, r, k) # NULL =>
                               g[Last(s, r, k)].child = h[Last(s, r, k)].child
<1>1. Forest(g, Bases(s, r)) /\ \A n \in DOMAIN h : Owned(g, n) = Owned(h, n)
  BY SamePointersSameOwners DEF Linked
<1>2. \A k \in 0..Len(s) : Base(s, r, k) # NULL =>
        /\ Owned(g, Base(s, r, k)) = Owned(h, Base(s, r, k))
        /\ g[Last(s, r, k)].child = h[Last(s, r, k)].child
        /\ g[Last(s, r, k)].next = h[Last(s, r, k)].next
  BY <1>1, LinkedKnown DEF SamePointers
<1>3. Len(s) \in Nat
  BY LinkedKnown
<1> QED
  BY <1>1, <1>2, <1>3 DEF Linked

(* A call begins.                                                          *)
LEMMA CallLinked ==
  ASSUME NEW h, NEW s, NEW r, Linked(h, s, r), Base(s, r, Len(s)) # NULL,
         h[Last(s, r, Len(s))].child = NULL,
         NEW c \in Call, c.item = Last(s, r, Len(s)), c.head = NULL
  PROVE  Linked(h, Append(s, c), r)
<1> DEFINE t == Append(s, c)
<1>1. s \in Seq(Call) /\ Len(s) \in Nat
  BY LinkedKnown DEF Linked
<1>2. /\ t \in Seq(Call) /\ Len(t) = Len(s) + 1 /\ t[Len(s) + 1] = c
      /\ \A k \in 1..Len(s) : t[k] = s[k]
  BY <1>1
<1> HIDE DEF t
<1>3. /\ \A k \in 0..Len(s) : Base(t, r, k) = Base(s, r, k) /\ Last(t, r, k) = Last(s, r, k)
      /\ Base(t, r, Len(t)) = NULL
  BY <1>1, <1>2 DEF Base, Last
<1>4. Bases(t, r) = Bases(s, r)
  BY <1>1, <1>2, <1>3 DEF Bases
<1>5. \A k \in 0..Len(t) : k \in 0..Len(s) \/ k = Len(t)
  BY <1>1, <1>2
<1>6. \A k \in 0..Len(t) : Base(t, r, k) # NULL =>
        Last(t, r, k) \in Owned(h, Base(t, r, k)) /\ h[Last(t, r, k)].next = NULL
  BY <1>3, <1>5 DEF Linked
<1>7. \A k \in 0..(Len(t) - 1) :
        Base(t, r, k) # NULL /\ t[k + 1].item = Last(t, r, k) /\ h[Last(t, r, k)].child = NULL
  <2>1. SUFFICES ASSUME NEW k \in 0..(Len(t) - 1)
                 PROVE  /\ Base(t, r, k) # NULL /\ t[k + 1].item = Last(t, r, k)
                        /\ h[Last(t, r, k)].child = NULL
    OBVIOUS
  <2>2. CASE k = Len(s)
    BY <1>1, <1>2, <1>3, <2>2
  <2>3. CASE k # Len(s)
    <3>1. k \in 0..(Len(s) - 1) /\ k \in 0..Len(s) /\ k + 1 \in 1..Len(s)
      BY <1>1, <1>2, <2>1, <2>3
    <3> QED
      BY <1>2, <1>3, <3>1 DEF Linked
  <2> QED
    BY <2>2, <2>3
<1>8. \A j, k \in 0..Len(t) : j # k /\ Base(t, r, j) # NULL => Base(t, r, j) # Base(t, r, k)
  BY <1>3, <1>5 DEF Linked
<1> QED
  BY <1>2, <1>4, <1>6, <1>7, <1>8 DEF Linked, t

(* A call's list gets another node at its end, or its first one.           *)
LEMMA ElementLinked ==
  ASSUME NEW h, NEW s, NEW r, Linked(h, s, r), NEW g, NEW n, AddsNode(h, g, n),
         Len(s) > 0, NEW t \in Seq(Call), Len(t) = Len(s), \A k \in 1..(Len(s) - 1) : t[k] = s[k],
         t[Len(s)].item = s[Len(s)].item, t[Len(s)].current = n,
         t[Len(s)].head = IF s[Len(s)].head = NULL THEN n ELSE s[Len(s)].head,
         IF s[Len(s)].head = NULL THEN \A m \in DOMAIN h : g[m].next = h[m].next
         ELSE /\ g[s[Len(s)].current].next = n
              /\ \A m \in DOMAIN h \ {s[Len(s)].current} : g[m].next = h[m].next
  PROVE  Linked(g, t, r) /\ Base(t, r, Len(t)) # NULL /\ g[Last(t, r, Len(t))].child = NULL
<1> DEFINE N == Len(s)
<1>1. N \in Nat /\ N > 0 /\ Len(t) = N
  BY LinkedKnown
<1>2. /\ \A k \in 0..(N - 1) : Base(t, r, k) = Base(s, r, k) /\ Last(t, r, k) = Last(s, r, k)
      /\ Base(s, r, N) = s[N].head /\ Last(s, r, N) = s[N].current
      /\ Base(t, r, N) = (IF s[N].head = NULL THEN n ELSE s[N].head) /\ Last(t, r, N) = n
      /\ \A k \in 0..(N - 1) : t[k + 1].item = s[k + 1].item
  BY <1>1 DEF Base, Last
<1>3. n # NULL /\ n \notin DOMAIN h /\ g[n].next = NULL /\ g[n].child = NULL
  BY DEF AddsNode
<1>4. \A k \in 0..(N - 1) : Base(s, r, k) # NULL /\ Base(s, r, k) \in Bases(s, r)
                            /\ Last(s, r, k) \in DOMAIN h /\ k \in 0..Len(s) /\ k # N
  BY <1>1, LinkedKnown, SMTT(20) DEF Linked
<1>5. /\ Forest(g, Bases(t, r)) /\ n \in Owned(g, Base(t, r, N))
      /\ \A p \in Bases(s, r) : Owned(h, p) \subseteq Owned(g, p)
  <2>1. CASE s[N].head = NULL
    <3>1. Bases(t, r) = Bases(s, r) \cup {n}
      BY <1>1, <1>2, <1>3, <2>1 DEF Bases
    <3>2. Forest(h, Bases(s, r))
      BY DEF Linked
    <3>3. SameNext(h, g)
      BY <2>1 DEF SameNext
    <3>4. /\ Forest(g, Bases(s, r) \cup {n}) /\ n \in Owned(g, n)
          /\ \A p \in Bases(s, r) : Owned(h, p) \subseteq Owned(g, p)
      BY <3>2, <3>3, NodeAdded, ZenonT(30)
    <3> QED
      BY <1>2, <2>1, <3>1, <3>4
  <2>2. CASE s[N].head # NULL
    <3>1. \A k \in 0..N : Base(t, r, k) = Base(s, r, k)
      BY <1>1, <1>2, <2>2
    <3>2. Bases(t, r) = Bases(s, r)
      BY <1>1, <3>1 DEF Bases
    <3>3. /\ Forest(h, Bases(s, r)) /\ s[N].head \in Bases(s, r)
          /\ s[N].current \in Owned(h, s[N].head) /\ h[s[N].current].next = NULL
      BY <1>1, <1>2, <2>2, LinkedKnown DEF Linked
    <3> QED
      BY <1>2, <2>2, <3>2, <3>3, NodeAppended
  <2> QED
    BY <2>1, <2>2
<1>6. \A k \in 0..(N - 1) : /\ g[Last(s, r, k)].next = h[Last(s, r, k)].next
                            /\ g[Last(s, r, k)].child = h[Last(s, r, k)].child
  <2>1. \A k \in 0..(N - 1) : s[N].head # NULL => Last(s, r, k) # s[N].current
    BY <1>1, <1>2, <1>4, LinkedKnown
  <2> QED
    BY <1>4, <2>1 DEF AddsNode
<1>7. \A k \in 0..N : k \in 0..(N - 1) \/ k = N
  BY <1>1
<1>8. \A k \in 0..N : Base(t, r, k) # NULL =>
        Last(t, r, k) \in Owned(g, Base(t, r, k)) /\ g[Last(t, r, k)].next = NULL
  <2>1. /\ Last(t, r, N) \in Owned(g, Base(t, r, N)) /\ g[Last(t, r, N)].next = NULL
    BY <1>2, <1>3, <1>5
  <2>2. ASSUME NEW k \in 0..(N - 1)
        PROVE  Last(t, r, k) \in Owned(g, Base(t, r, k)) /\ g[Last(t, r, k)].next = NULL
    <3>1. Last(s, r, k) \in Owned(h, Base(s, r, k)) /\ h[Last(s, r, k)].next = NULL
      BY <1>4 DEF Linked
    <3>2. Owned(h, Base(s, r, k)) \subseteq Owned(g, Base(s, r, k))
      BY <1>4, <1>5
    <3> QED
      BY <1>2, <1>6, <3>1, <3>2
  <2> QED
    BY <1>7, <2>1, <2>2
<1>9. \A k \in 0..(N - 1) :
        Base(t, r, k) # NULL /\ t[k + 1].item = Last(t, r, k) /\ g[Last(t, r, k)].child = NULL
  BY <1>2, <1>4, <1>6 DEF Linked
<1>10. \A j, k \in 0..N : j # k /\ Base(t, r, j) # NULL => Base(t, r, j) # Base(t, r, k)
  <2>1. \A k \in 0..(N - 1) : Base(s, r, k) \in DOMAIN h
    BY <1>4, LinkedKnown
  <2>2. \A j, k \in 0..(N - 1) : j # k => Base(s, r, j) # Base(s, r, k)
    BY <1>4 DEF Linked
  <2>3. \A k \in 0..(N - 1) : s[N].head # NULL => Base(s, r, k) # s[N].head
    BY <1>1, <1>2, <1>4 DEF Linked
  <2> QED
    BY <1>2, <1>3, <1>7, <2>1, <2>2, <2>3
<1> QED
  BY <1>1, <1>2, <1>3, <1>5, <1>8, <1>9, <1>10 DEF Linked

(* A call ends: one list less.                                             *)
Shorter(s, t) ==
  /\ t \in Seq(Call) /\ Len(s) > 0 /\ Len(t) = Len(s) - 1
  /\ \A k \in 1..Len(t) : t[k] = s[k]

LEMMA OneListLess ==
  ASSUME NEW h, NEW s, NEW r, Linked(h, s, r), NEW t, Shorter(s, t)
  PROVE  /\ \A k \in 0..Len(t) : /\ k \in 0..(Len(s) - 1) /\ k \in 0..Len(s) /\ k # Len(s)
                                 /\ Base(t, r, k) = Base(s, r, k) /\ Last(t, r, k) = Last(s, r, k)
                                 /\ Base(s, r, k) # NULL /\ Base(s, r, k) # s[Len(s)].head
         /\ \A k \in 0..(Len(t) - 1) : t[k + 1].item = s[k + 1].item
         /\ Bases(t, r) = Bases(s, r) \ {s[Len(s)].head}
         /\ Base(t, r, Len(t)) # NULL /\ s[Len(s)].item = Last(s, r, Len(s) - 1)
         /\ Base(s, r, Len(s)) = s[Len(s)].head /\ Last(s, r, Len(s)) = s[Len(s)].current
         /\ Len(s) \in 0..Len(s) /\ Len(s) - 1 \in 0..Len(t) /\ Len(t) \in Nat
<1>1. Len(s) \in Nat /\ Len(s) > 0 /\ Len(t) = Len(s) - 1 /\ Len(t) \in Nat
  BY LinkedKnown DEF Shorter
<1>2. \A k \in 0..Len(t) : /\ k \in 0..(Len(s) - 1) /\ k \in 0..Len(s) /\ k # Len(s)
                           /\ Base(t, r, k) = Base(s, r, k) /\ Last(t, r, k) = Last(s, r, k)
  BY <1>1 DEF Shorter, Base, Last
<1>3. Base(s, r, Len(s)) = s[Len(s)].head /\ Last(s, r, Len(s)) = s[Len(s)].current
  BY <1>1 DEF Base, Last
<1>4. \A k \in 0..(Len(s) - 1) : Base(s, r, k) # NULL /\ s[k + 1].item = Last(s, r, k)
  BY DEF Linked
<1>5. \A k \in 0..Len(t) : Base(s, r, k) # NULL /\ Base(s, r, k) # s[Len(s)].head
  <2>1. SUFFICES ASSUME NEW k \in 0..Len(t)
                 PROVE  Base(s, r, k) # NULL /\ Base(s, r, k) # s[Len(s)].head
    OBVIOUS
  <2>2. k \in 0..Len(s) /\ Len(s) \in 0..Len(s) /\ k # Len(s) /\ Base(s, r, k) # NULL
    BY <1>1, <1>2, <1>4
  <2> QED
    BY <1>3, <2>2 DEF Linked
<1>6. \A k \in 0..(Len(t) - 1) : t[k + 1].item = s[k + 1].item
  BY <1>1 DEF Shorter
<1>7. Bases(t, r) = Bases(s, r) \ {s[Len(s)].head}
  <2>1. \A k \in 0..Len(s) : k \in 0..Len(t) \/ k = Len(s)
    BY <1>1
  <2> QED
    BY <1>1, <1>2, <1>3, <1>5, <2>1 DEF Bases
<1>8. s[Len(s)].item = Last(s, r, Len(s) - 1) /\ Len(s) - 1 \in 0..Len(t) /\ Len(t) \in 0..Len(t)
  BY <1>1, <1>4
<1> QED
  BY <1>1, <1>2, <1>3, <1>5, <1>6, <1>7, <1>8, SMTT(20)

(* What is left to show when a call ends.                                  *)
LEMMA RestLinked ==
  ASSUME NEW h, NEW s, NEW r, Linked(h, s, r), NEW t, Shorter(s, t), NEW g,
         Forest(g, Bases(s, r) \ {s[Len(s)].head}),
         \A p \in Bases(s, r) \ {s[Len(s)].head} : Owned(h, p) \subseteq Owned(g, p),
         \A k \in 0..(Len(s) - 1) : g[Last(s, r, k)].next = h[Last(s, r, k)].next,
         \A k \in 0..(Len(s) - 2) : g[Last(s, r, k)].child = h[Last(s, r, k)].child
  PROVE  Linked(g, t, r) /\ Base(t, r, Len(t)) # NULL
<1>1. \A k \in 0..Len(t) : Base(s, r, k) \in Bases(s, r) \ {s[Len(s)].head}
  <2>1. \A k \in 0..Len(t) : /\ k \in 0..Len(s) /\ Base(s, r, k) # NULL
                             /\ Base(s, r, k) # s[Len(s)].head
    BY OneListLess
  <2>2. \A k \in 0..Len(s) : Base(s, r, k) # NULL => Base(s, r, k) \in Bases(s, r)
    BY DEF Bases
  <2> QED
    BY <2>1, <2>2
<1>2. t \in Seq(Call) /\ Forest(g, Bases(t, r)) /\ Len(t) = Len(s) - 1 /\ Len(t) \in Nat /\ Len(s) \in Nat
  <2>1. Bases(t, r) = Bases(s, r) \ {s[Len(s)].head} /\ Len(t) \in Nat
    BY OneListLess
  <2>2. t \in Seq(Call) /\ Len(t) = Len(s) - 1
    BY DEF Shorter
  <2> QED
    BY <2>1, <2>2, LinkedKnown
<1>3. \A k \in 0..Len(t) : Base(t, r, k) # NULL =>
        Last(t, r, k) \in Owned(g, Base(t, r, k)) /\ g[Last(t, r, k)].next = NULL
  <2>1. SUFFICES ASSUME NEW k \in 0..Len(t)
                 PROVE  Last(t, r, k) \in Owned(g, Base(t, r, k)) /\ g[Last(t, r, k)].next = NULL
    OBVIOUS
  <2>2. /\ k \in 0..(Len(s) - 1) /\ k \in 0..Len(s) /\ Base(s, r, k) # NULL
        /\ Base(t, r, k) = Base(s, r, k) /\ Last(t, r, k) = Last(s, r, k)
    BY OneListLess
  <2> QED
    BY <1>1, <2>2 DEF Linked
<1>4. \A k \in 0..(Len(t) - 1) :
        Base(t, r, k) # NULL /\ t[k + 1].item = Last(t, r, k) /\ g[Last(t, r, k)].child = NULL
  <2>1. SUFFICES ASSUME NEW k \in 0..(Len(t) - 1)
                 PROVE  /\ Base(t, r, k) # NULL /\ t[k + 1].item = Last(t, r, k)
                        /\ g[Last(t, r, k)].child = NULL
    OBVIOUS
  <2>2. k \in 0..Len(t) /\ k \in 0..(Len(s) - 2) /\ k \in 0..(Len(s) - 1)
    BY <1>2
  <2>3. /\ Base(s, r, k) # NULL /\ t[k + 1].item = s[k + 1].item
        /\ Base(t, r, k) = Base(s, r, k) /\ Last(t, r, k) = Last(s, r, k)
    BY <2>2, OneListLess
  <2> QED
    BY <2>2, <2>3 DEF Linked
<1>5. \A j, k \in 0..Len(t) : j # k /\ Base(t, r, j) # NULL => Base(t, r, j) # Base(t, r, k)
  BY OneListLess, SMTT(20) DEF Linked
<1> QED
  BY <1>2, <1>3, <1>4, <1>5, OneListLess DEF Linked

(* The call's list is hung below its node ...                              *)
LEMMA HungLinked ==
  ASSUME NEW h, NEW s, NEW r, Linked(h, s, r), NEW t, Shorter(s, t), s[Len(s)].head # NULL,
         NEW g, Hangs(h, g, s[Len(s)].item, s[Len(s)].head)
  PROVE  Linked(g, t, r) /\ Base(t, r, Len(t)) # NULL
<1> DEFINE N == Len(s)
<1>1. /\ s[N].item = Last(s, r, N - 1) /\ N - 1 \in 0..N /\ N \in 0..N /\ N - 1 # N /\ N \in Nat
      /\ Base(s, r, N - 1) # NULL /\ Base(s, r, N) = s[N].head /\ N - 1 \in 0..(N - 1)
      /\ Base(s, r, N - 1) # s[N].head
  <2>1. N \in Nat /\ Len(t) = N - 1 /\ N > 0
    BY LinkedKnown DEF Shorter
  <2>2. N - 1 \in 0..Len(t) /\ N \in 0..N /\ Base(s, r, N) = s[N].head /\ s[N].item = Last(s, r, N - 1)
    BY OneListLess
  <2>3. Base(s, r, N - 1) # NULL /\ Base(s, r, N - 1) # s[N].head
    BY <2>2, OneListLess
  <2> QED
    BY <2>1, <2>2, <2>3
<1>2. /\ s[N].head \in Bases(s, r) /\ Base(s, r, N - 1) \in Bases(s, r)
      /\ s[N].item \in DOMAIN h /\ h[s[N].item].child = NULL
      /\ s[N].item \in Owned(h, Base(s, r, N - 1))
  BY <1>1, LinkedKnown DEF Linked
<1>3. s[N].item \notin Owned(h, s[N].head)
  BY <1>1, <1>2, OwnersApart DEF Linked
<1>4. /\ Forest(g, Bases(s, r) \ {s[N].head})
      /\ \A p \in Bases(s, r) \ {s[N].head} : Owned(h, p) \subseteq Owned(g, p)
  <2>1. Forest(h, Bases(s, r))
    BY DEF Linked
  <2> QED
    BY <1>2, <1>3, <2>1, ListHung
<1>5. \A k \in 0..(N - 1) : Last(s, r, k) \in DOMAIN h /\ k \in 0..N /\ Base(s, r, k) # NULL
  BY <1>1, LinkedKnown DEF Linked
<1>6. \A k \in 0..(N - 2) : Last(s, r, k) # s[N].item /\ Last(s, r, k) \in DOMAIN h
  <2>1. \A k \in 0..(N - 2) : k \in 0..(N - 1) /\ k # N - 1
    BY <1>1
  <2> QED
    BY <1>1, <1>5, <2>1, LinkedKnown
<1>7. /\ \A k \in 0..(N - 1) : g[Last(s, r, k)].next = h[Last(s, r, k)].next
      /\ \A k \in 0..(N - 2) : g[Last(s, r, k)].child = h[Last(s, r, k)].child
  BY <1>5, <1>6 DEF Hangs
<1> QED
  BY <1>4, <1>7, RestLinked

(* ... or deleted.                                                         *)
LEMMA DroppedLinked ==
  ASSUME NEW h, NEW s, NEW r, Linked(h, s, r), NEW t, Shorter(s, t), NEW g,
         g = Without(h, IF s[Len(s)].head = NULL THEN {} ELSE Owned(h, s[Len(s)].head))
  PROVE  Linked(g, t, r)
<1> DEFINE N == Len(s)
<1>1. /\ N \in 0..N /\ N \in Nat /\ Base(s, r, N) = s[N].head
      /\ \A k \in 0..(N - 1) : k \in 0..N /\ k # N /\ Base(s, r, k) # NULL /\ Base(s, r, k) # s[N].head
  BY OneListLess, LinkedKnown DEF Shorter
<1>2. \A k \in 0..(N - 1) : /\ Last(s, r, k) \in Owned(h, Base(s, r, k)) /\ Last(s, r, k) \in DOMAIN h
                            /\ Base(s, r, k) \in Bases(s, r)
  BY <1>1, LinkedKnown DEF Linked
<1>3. CASE s[N].head = NULL
  <2>1. SamePointers(h, g)
    BY <1>3 DEF SamePointers, Without
  <2>2. Bases(s, r) \ {s[N].head} = Bases(s, r)
    BY <1>3 DEF Bases
  <2>3. Forest(g, Bases(s, r)) /\ \A n \in DOMAIN h : Owned(g, n) = Owned(h, n)
    BY <2>1, SamePointersSameOwners DEF Linked
  <2>4. Bases(s, r) \subseteq DOMAIN h
    BY DEF Linked, Forest
  <2>5. \A k \in 0..(N - 2) : k \in 0..(N - 1)
    BY <1>1
  <2> QED
    BY <1>2, <2>1, <2>2, <2>3, <2>4, <2>5, RestLinked DEF SamePointers
<1>4. CASE s[N].head # NULL
  <2>1. s[N].head \in Bases(s, r) /\ g = Without(h, Owned(h, s[N].head)) /\ Forest(h, Bases(s, r))
    BY <1>1, <1>4, LinkedKnown DEF Linked
  <2>2. /\ Forest(g, Bases(s, r) \ {s[N].head})
        /\ \A p \in Bases(s, r) \ {s[N].head} : Owned(h, p) \subseteq Owned(g, p)
        /\ \A m \in DOMAIN h \ Owned(h, s[N].head) : m \in DOMAIN g /\ g[m] = h[m]
    <3> DEFINE O == Bases(s, r)
               o == s[N].head
    <3>1. Forest(h, O) /\ o \in O /\ g = Without(h, Owned(h, o))
      BY <2>1
    <3> HIDE DEF O, o
    <3>2. /\ Forest(g, O \ {o})
          /\ \A p \in O \ {o} : Owned(h, p) \subseteq Owned(g, p)
          /\ \A m \in DOMAIN h \ Owned(h, o) : m \in DOMAIN g /\ g[m] = h[m]
      BY <3>1, DeletedTree
    <3> QED
      BY <3>2 DEF O, o
  <2>3. \A k \in 0..(N - 1) : Last(s, r, k) \notin Owned(h, s[N].head)
    <3>1. SUFFICES ASSUME NEW k \in 0..(N - 1) PROVE Last(s, r, k) \notin Owned(h, s[N].head)
      OBVIOUS
    <3>2. Owned(h, Base(s, r, k)) \cap Owned(h, s[N].head) = {}
      BY <1>1, <1>2, <2>1, OwnersApart
    <3> QED
      BY <1>2, <3>2
  <2>4. \A k \in 0..(N - 1) : g[Last(s, r, k)] = h[Last(s, r, k)]
    BY <1>2, <2>2, <2>3
  <2>5. \A k \in 0..(N - 2) : k \in 0..(N - 1)
    BY <1>1
  <2> QED
    BY <2>2, <2>4, <2>5, RestLinked
<1> QED
  BY <1>3, <1>4

-----------------------------------------------------------------------------
(* The invariant of the parser.                                            *)

(* parse_value is under way, for the node at the end of the last list.     *)
Filling ==
  /\ item = Last(stack, root, Len(stack))
  /\ Base(stack, root, Len(stack)) # NULL
  /\ heap[item].child = NULL

OwnInv ==
  /\ IF pc = "extracted" THEN DOMAIN heap = {} ELSE Linked(heap, stack, root)
  /\ pc = "start" => stack = <<>> /\ root = NULL
  /\ pc \in {"parsed", "done", "extracted"} => stack = <<>>
  /\ pc \in {"value", "string", "name"} => Filling
  /\ pc = "after" => Base(stack, root, Len(stack)) # NULL

(* Steps that leave the pointers, the calls and the tree alone.            *)
LEMMA PointersStay ==
  ASSUME OwnInv, pc # "extracted", pc' \notin {"start", "extracted"},
         SamePointers(heap, heap'), stack' = stack, root' = root,
         pc' \in {"parsed", "done"} => stack = <<>>,
         pc' \in {"value", "string", "name"} => pc \in {"value", "string", "name"} /\ item' = item,
         pc' = "after" => pc \in {"value", "string", "name"}
  PROVE  OwnInv'
<1>1. Linked(heap, stack, root)
  BY DEF OwnInv
<1>2. Linked(heap', stack, root) /\ Len(stack) \in Nat
  BY <1>1, SameLinked, LinkedKnown
<1>3. pc' \in {"value", "string", "name"} => Filling'
  <2>1. SUFFICES ASSUME pc' \in {"value", "string", "name"} PROVE Filling'
    OBVIOUS
  <2>2. Filling /\ item' = item
    BY <2>1 DEF OwnInv
  <2>3. heap'[Last(stack, root, Len(stack))].child = heap[Last(stack, root, Len(stack))].child
    BY <1>1, <1>2, <2>2, SameLinked DEF Filling
  <2> QED
    BY <2>2, <2>3 DEF Filling
<1>4. pc' = "after" => Base(stack, root, Len(stack)) # NULL
  BY DEF OwnInv, Filling
<1> QED
  BY <1>2, <1>3, <1>4 DEF OwnInv

LEMMA TypeOnly ==
  ASSUME NEW h, HeapOK(h), NEW n, NEW t
  PROVE  SamePointers(h, [h EXCEPT ![n].type = t])
BY DEF SamePointers, HeapOK, Node

LEMMA SamePointersReflexive == ASSUME NEW h PROVE SamePointers(h, h)
BY DEF SamePointers

LEMMA PlainStepsKeep ==
  ASSUME IInv, OwnInv,
         \/ NoStart \/ ParseLiteral \/ ParseStringValue \/ StringReturned
         \/ ParseNumber \/ ParseNoNumber \/ ParseNothing \/ NoElement
         \/ MemberName \/ NoMemberName \/ AfterValue \/ Parsed \/ StringRuns
         \/ \E kind \in DOMAIN OpenOf : TooDeep(kind) \/ OpenEmpty(kind)
  PROVE  OwnInv'
<1>1. CASE NoStart \/ ParseNoNumber \/ ParseNothing \/ NoElement \/ NoMemberName \/ AfterValue
           \/ \E kind \in DOMAIN OpenOf : TooDeep(kind)
  <2>1. /\ pc # "extracted" /\ pc' \in {"fail", "element"}
        /\ heap' = heap /\ stack' = stack /\ root' = root
    BY <1>1 DEF NoStart, ParseNoNumber, ParseNothing, NoElement, NoMemberName, AfterValue, TooDeep,
                Opening, heapVars, callVars, endVars
  <2> QED
    BY <2>1, SamePointersReflexive, PointersStay
<1>2. CASE ParseLiteral \/ ParseNumber \/ \E kind \in DOMAIN OpenOf : OpenEmpty(kind)
  <2>1. /\ pc = "value" /\ pc' = Returned(stack) /\ stack' = stack /\ root' = root
    BY <1>2 DEF ParseLiteral, ParseNumber, OpenEmpty, EmptyList, Opening, callVars, endVars
  <2>2. PICK t : heap' = [heap EXCEPT ![item].type = t]
    BY <1>2 DEF ParseLiteral, ParseNumber, OpenEmpty
  <2>3. SamePointers(heap, heap')
    BY <2>2, TypeOnly, Known
  <2>4. pc' \in {"parsed", "after"} /\ (pc' = "parsed" => stack = <<>>)
    BY <2>1 DEF Returned
  <2> QED
    BY <2>1, <2>3, <2>4, PointersStay
<1>3. CASE ParseStringValue \/ StringReturned
  <2>1. /\ pc \in {"value", "string"} /\ pc' \in {"string", "fail", Returned(stack)}
        /\ heap' = heap /\ stack' = stack /\ root' = root /\ item' = item
    BY <1>3 DEF ParseStringValue, StringReturned, heapVars, callVars, endVars
  <2>2. pc' \in {"string", "fail", "parsed", "after"} /\ (pc' = "parsed" => stack = <<>>)
    BY <2>1 DEF Returned
  <2> QED
    BY <2>1, <2>2, SamePointersReflexive, PointersStay
<1>4. CASE MemberName
  <2>1. /\ pc = "name" /\ pc' \in {"value", "fail"} /\ heap' = [heap EXCEPT ![item] = Named(@)]
        /\ stack' = stack /\ root' = root /\ item' = item
    BY <1>4 DEF MemberName, callVars, endVars
  <2>2. SamePointers(heap, heap')
    BY <2>1, Known DEF Named, SamePointers, HeapOK, Node
  <2> QED
    BY <2>1, <2>2, PointersStay
<1>5. CASE Parsed
  <2>1. /\ pc = "parsed" /\ pc' \in {"fail", "done"}
        /\ heap' = heap /\ stack' = stack /\ root' = root
    BY <1>5 DEF Parsed, heapVars, callVars
  <2>2. stack = <<>>
    BY <2>1 DEF OwnInv
  <2> QED
    BY <2>1, <2>2, SamePointersReflexive, PointersStay
<1>6. CASE StringRuns
  <2>1. /\ pc \in {"string", "name"} /\ pc' = pc /\ stack' = stack /\ root' = root /\ item' = item
    BY <1>6 DEF StringRuns, StringStep, callVars, endVars
  <2>2. \/ heap' = heap
        \/ heap' = [heap EXCEPT ![item].type = "String", ![item].valuestring = output]
    BY <1>6 DEF StringRuns, StringStep, ScanChar, ScanEscape, AllocateOutput, DecodeChar, DecodeEscape,
                DecodeLiteral, DecodeFails, StringParsed, StringFailed, heapVars
  <2>3. SamePointers(heap, heap')
    <3>1. SamePointers(heap, [heap EXCEPT ![item].type = "String", ![item].valuestring = output])
      BY Known DEF SamePointers, HeapOK, Node
    <3> QED
      BY <2>2, <3>1, SamePointersReflexive
  <2> QED
    BY <2>1, <2>3, PointersStay
<1> QED
  BY <1>1, <1>2, <1>3, <1>4, <1>5, <1>6

(* A new node is nobody's, and points nowhere.                             *)
LEMMA FreshAdded ==
  ASSUME Unused # {}, NEW h, DOMAIN h = DOMAIN heap, NEW node,
         node.next = NULL, node.child = NULL, node.ref = FALSE,
         \A m \in DOMAIN heap : h[m].child = heap[m].child /\ h[m].ref = heap[m].ref
  PROVE  AddsNode(heap, With(h, Fresh, node), Fresh)
<1>1. Fresh \notin DOMAIN heap /\ Fresh # NULL
  BY FreshNode DEF Fresh, Unused
<1>2. \A m \in DOMAIN heap : With(h, Fresh, node)[m] = h[m]
  BY <1>1 DEF With
<1> QED
  BY <1>1, <1>2 DEF AddsNode, With

LEMMA BlankPoints ==
  /\ Blank.next = NULL /\ Blank.child = NULL /\ Blank.ref = FALSE
  /\ \A a : LET node == [Blank EXCEPT !.prev = a]
           IN  node.next = NULL /\ node.child = NULL /\ node.ref = FALSE
BY DEF Blank

LEMMA StartOwns ==
  ASSUME IInv, OwnInv, Start
  PROVE  OwnInv'
<1>1. /\ pc = "start" /\ pc' = "value" /\ stack' = stack /\ stack = <<>> /\ root = NULL
      /\ root' = Fresh /\ item' = Fresh /\ heap' = With(heap, Fresh, Blank) /\ Unused # {}
  BY DEF Start, OwnInv, callVars
<1>2. AddsNode(heap, heap', Fresh)
  BY <1>1, FreshAdded, BlankPoints
<1>3. Forest(heap, {})
  <2>1. Bases(<<>>, NULL) = {}
    BY DEF Bases, Base
  <2> QED
    BY <1>1, <2>1 DEF OwnInv, Linked
<1>4. SameNext(heap, heap')
  BY <1>1, <1>2 DEF SameNext, With, AddsNode
<1>5. Forest(heap', {Fresh}) /\ Fresh \in Owned(heap', Fresh)
  <2>1. Forest(heap', {} \cup {Fresh}) /\ Fresh \in Owned(heap', Fresh)
    BY <1>2, <1>3, <1>4, NodeAdded
  <2> QED
    BY <2>1
<1>6. /\ Len(<<>>) = 0 /\ <<>> \in Seq(Call) /\ Fresh # NULL
      /\ heap'[Fresh].next = NULL /\ heap'[Fresh].child = NULL
  BY <1>2 DEF AddsNode
<1>7. /\ Base(<<>>, Fresh, 0) = Fresh /\ Last(<<>>, Fresh, 0) = Fresh
      /\ Bases(<<>>, Fresh) = {Fresh}
  BY <1>6 DEF Base, Last, Bases
<1>8. Linked(heap', <<>>, Fresh)
  <2>1. \A k \in 0..0 : k = 0
    OBVIOUS
  <2>2. 0..(0 - 1) = {}
    OBVIOUS
  <2> QED
    BY <1>5, <1>6, <1>7, <2>1, <2>2 DEF Linked
<1>9. Filling'
  BY <1>1, <1>6, <1>7 DEF Filling
<1> QED
  BY <1>1, <1>8, <1>9 DEF OwnInv

LEMMA OpenListOwns ==
  ASSUME IInv, OwnInv, NEW kind \in DOMAIN OpenOf, OpenList(kind)
  PROVE  OwnInv'
<1> DEFINE c == [item |-> item, kind |-> kind, head |-> NULL, current |-> NULL]
<1>1. /\ pc = "value" /\ heap' = heap /\ root' = root
      /\ \/ pc' = "element" /\ stack' = Append(stack, c)
         \/ pc' = "fail" /\ stack' = stack
  BY DEF OpenList, Opening, heapVars, endVars
<1>2. CASE pc' = "fail" /\ stack' = stack
  BY <1>1, <1>2, SamePointersReflexive, PointersStay
<1>3. CASE pc' = "element" /\ stack' = Append(stack, c)
  <2>1. Linked(heap, stack, root) /\ Filling /\ item \in Nodes
    BY <1>1 DEF OwnInv, IInv, ControlInv
  <2>2. c \in Call /\ c.item = item /\ c.head = NULL
    BY <2>1 DEF Call, Address
  <2> HIDE DEF c
  <2>3. Linked(heap, Append(stack, c), root)
    BY <2>1, <2>2, CallLinked DEF Filling
  <2> QED
    BY <1>1, <1>3, <2>3 DEF OwnInv
<1> QED
  BY <1>1, <1>2, <1>3

(* An array element or object member is a new node at the end of the list  *)
(* on top, and all that changes elsewhere is the pointer that leads to it. *)
LEMMA ElementAdded ==
  ASSUME IInv, OwnInv, ArrayElement \/ ObjectMember
  PROVE  /\ pc = "element" /\ pc' \in {"value", "name", "fail"} /\ root' = root /\ item' = Fresh
         /\ Linked(heap, stack, root) /\ HeapOK(heap) /\ Len(stack) \in Nat /\ Len(stack) > 0
         /\ stack' \in Seq(Call) /\ Len(stack') = Len(stack)
         /\ \A k \in 1..(Len(stack) - 1) : stack'[k] = stack[k]
         /\ stack'[Len(stack)].item = stack[Len(stack)].item
         /\ stack'[Len(stack)].current = Fresh
         /\ stack'[Len(stack)].head = IF stack[Len(stack)].head = NULL THEN Fresh
                                      ELSE stack[Len(stack)].head
         /\ AddsNode(heap, heap', Fresh)
         /\ IF stack[Len(stack)].head = NULL THEN \A m \in DOMAIN heap : heap'[m].next = heap[m].next
            ELSE /\ heap'[stack[Len(stack)].current].next = Fresh
                 /\ \A m \in DOMAIN heap \ {stack[Len(stack)].current} : heap'[m].next = heap[m].next
         /\ \A m \in DOMAIN heap : heap'[m] = [heap[m] EXCEPT !.next = heap'[m].next]
         /\ stack[Len(stack)].head # NULL => heap'[Fresh].prev = stack[Len(stack)].current
         /\ heap'[Fresh].string = NULL /\ heap'[Fresh].valuestring = NULL /\ heap'[Fresh].const = FALSE
<1> DEFINE N == Len(stack)
<1>1. /\ pc = "element" /\ pc' \in {"value", "name", "fail"} /\ root' = root
      /\ Unused # {} /\ heap' = Attached(Fresh) /\ stack' = WithElement(Fresh) /\ item' = Fresh
  BY DEF ArrayElement, ObjectMember, AttachElement, endVars
<1>2. /\ stack \in Seq(Call) /\ N \in Nat /\ N > 0 /\ top = stack[N] /\ Linked(heap, stack, root)
      /\ HeapOK(heap)
  BY <1>1, Known DEF IInv, ControlInv, OwnInv, top
<1>3. /\ stack' \in Seq(Call) /\ Len(stack') = N /\ \A k \in 1..(N - 1) : stack'[k] = stack[k]
      /\ stack'[N].item = stack[N].item /\ stack'[N].current = Fresh
      /\ stack'[N].head = IF stack[N].head = NULL THEN Fresh ELSE stack[N].head
  <2>1. stack' \in Seq(Call) /\ Len(stack') = N
    BY <1>1, Attaching DEF ArrayElement, ObjectMember
  <2>2. stack[N] \in Call /\ N \in DOMAIN stack
    BY <1>2
  <2>3. /\ \A k \in 1..(N - 1) : stack'[k] = stack[k]
        /\ stack'[N] = [stack[N] EXCEPT !.current = Fresh, !.head = IF @ = NULL THEN Fresh ELSE @]
    BY <1>1, <1>2, <2>2 DEF WithElement, Call
  <2> QED
    BY <2>1, <2>2, <2>3 DEF Call
<1>4. CASE stack[N].head = NULL
  <2>1. heap' = With(heap, Fresh, Blank)
    BY <1>1, <1>2, <1>4 DEF Attached
  <2>2. AddsNode(heap, heap', Fresh)
    BY <1>1, <2>1, FreshAdded, BlankPoints
  <2>3. Blank.string = NULL /\ Blank.valuestring = NULL /\ Blank.const = FALSE
    BY DEF Blank
  <2>4. \A m \in DOMAIN heap : heap'[m] = heap[m] /\ heap[m] = [heap[m] EXCEPT !.next = heap[m].next]
    BY <1>2, <2>1, <2>2 DEF With, AddsNode, HeapOK, Node
  <2>5. heap'[Fresh] = Blank
    BY <2>1 DEF With
  <2> QED
    BY <1>1, <1>2, <1>3, <1>4, <2>2, <2>3, <2>4, <2>5
<1>5. CASE stack[N].head # NULL
  <2> DEFINE h == [heap EXCEPT ![stack[N].current].next = Fresh]
             node == [Blank EXCEPT !.prev = stack[N].current]
  <2>1. heap' = With(h, Fresh, node)
    BY <1>1, <1>2, <1>5 DEF Attached
  <2>2. stack[N].current \in DOMAIN heap
    BY <1>2, <1>5, LinkedKnown DEF Base, Last
  <2>3. /\ DOMAIN h = DOMAIN heap /\ h[stack[N].current].next = Fresh
        /\ \A m \in DOMAIN heap : h[m].child = heap[m].child /\ h[m].ref = heap[m].ref
        /\ \A m \in DOMAIN heap \ {stack[N].current} : h[m].next = heap[m].next
        /\ \A m \in DOMAIN heap : h[m] = [heap[m] EXCEPT !.next = h[m].next]
    BY <1>2, <2>2 DEF HeapOK, Node
  <2>4. AddsNode(heap, With(h, Fresh, node), Fresh)
    <3>1. node.next = NULL /\ node.child = NULL /\ node.ref = FALSE
      BY BlankPoints
    <3> HIDE DEF h, node
    <3> QED
      BY <1>1, <2>3, <3>1, FreshAdded
  <2>5. \A m \in DOMAIN heap : heap'[m] = h[m]
    BY <2>1, <2>4 DEF With, AddsNode
  <2>6. /\ heap'[Fresh].prev = stack[N].current
        /\ heap'[Fresh].string = NULL /\ heap'[Fresh].valuestring = NULL /\ heap'[Fresh].const = FALSE
    BY <2>1 DEF With, Blank
  <2> HIDE DEF h, node
  <2> QED
    BY <1>1, <1>2, <1>3, <1>5, <2>1, <2>2, <2>3, <2>4, <2>5, <2>6
<1> QED
  BY <1>4, <1>5

LEMMA ElementOwns ==
  ASSUME IInv, OwnInv, ArrayElement \/ ObjectMember
  PROVE  OwnInv'
<1> DEFINE N == Len(stack)
<1>1. /\ pc' \in {"value", "name", "fail"} /\ root' = root /\ item' = Fresh
      /\ Linked(heap, stack, root) /\ N \in Nat /\ N > 0
  BY ElementAdded
<1>2. /\ stack' \in Seq(Call) /\ Len(stack') = N /\ \A k \in 1..(N - 1) : stack'[k] = stack[k]
      /\ stack'[N].item = stack[N].item /\ stack'[N].current = Fresh
      /\ stack'[N].head = IF stack[N].head = NULL THEN Fresh ELSE stack[N].head
  BY ElementAdded
<1>3. /\ AddsNode(heap, heap', Fresh)
      /\ IF stack[N].head = NULL THEN \A m \in DOMAIN heap : heap'[m].next = heap[m].next
         ELSE /\ heap'[stack[N].current].next = Fresh
              /\ \A m \in DOMAIN heap \ {stack[N].current} : heap'[m].next = heap[m].next
  BY ElementAdded
<1>4. /\ Linked(heap', stack', root) /\ Base(stack', root, Len(stack')) # NULL
      /\ heap'[Last(stack', root, Len(stack'))].child = NULL
  BY <1>1, <1>2, <1>3, ElementLinked
<1>5. Last(stack', root, Len(stack')) = Fresh
  BY <1>1, <1>2 DEF Last
<1>6. Filling'
  BY <1>1, <1>4, <1>5 DEF Filling
<1> QED
  BY <1>1, <1>4, <1>6 DEF OwnInv

LEMMA PopShortens ==
  ASSUME IInv, stack # <<>>
  PROVE  Shorter(stack, Pop) /\ top = stack[Len(stack)]
<1>1. /\ stack \in Seq(Call) /\ Len(stack) \in Nat /\ Len(stack) > 0
      /\ Pop \in Seq(Call) /\ Len(Pop) = Len(stack) - 1
  BY Known
<1>2. \A k \in 1..Len(Pop) : Pop[k] = stack[k]
  BY <1>1 DEF Pop
<1> QED
  BY <1>1, <1>2 DEF Shorter, top

(* The list on top becomes the children of its call's node, and its head   *)
(* gets to know its tail.                                                  *)
LEMMA ListHangs ==
  ASSUME IInv, OwnInv, CloseList
  PROVE  /\ pc = "after" /\ pc' = Returned(Pop) /\ stack' = Pop /\ root' = root
         /\ Linked(heap, stack, root) /\ HeapOK(heap) /\ Shorter(stack, Pop)
         /\ stack[Len(stack)].head # NULL /\ stack[Len(stack)].head \in DOMAIN heap
         /\ Hangs(heap, heap', stack[Len(stack)].item, stack[Len(stack)].head)
         /\ heap'[stack[Len(stack)].head].prev = stack[Len(stack)].current
         /\ \A m \in DOMAIN heap \ {stack[Len(stack)].head} : heap'[m].prev = heap[m].prev
         /\ \A m \in DOMAIN heap : /\ heap'[m].string = heap[m].string
                                   /\ heap'[m].valuestring = heap[m].valuestring
                                   /\ heap'[m].const = heap[m].const
<1> DEFINE N == Len(stack)
<1>1. /\ pc = "after" /\ heap' = ListClosed /\ stack' = Pop /\ pc' = Returned(Pop) /\ root' = root
      /\ stack # <<>>
  BY DEF CloseList, endVars, IInv, ControlInv
<1>2. Linked(heap, stack, root) /\ HeapOK(heap) /\ Base(stack, root, N) # NULL
  BY <1>1, Known DEF OwnInv
<1>3. Shorter(stack, Pop) /\ top = stack[N]
  BY <1>1, PopShortens
<1>4. /\ stack[N].head # NULL /\ stack[N].item = Last(stack, root, N - 1)
      /\ Base(stack, root, N - 1) # NULL /\ N - 1 \in 0..N /\ N \in 0..N
      /\ Base(stack, root, N) = stack[N].head
  BY <1>2, <1>3, OneListLess
<1>5. stack[N].item \in DOMAIN heap /\ stack[N].head \in DOMAIN heap
  BY <1>2, <1>4, LinkedKnown
<1> DEFINE g == [heap EXCEPT ![stack[N].head].prev = stack[N].current]
<1>6. /\ HeapOK(g) /\ SamePointers(heap, g) /\ g[stack[N].head].prev = stack[N].current
      /\ \A m \in DOMAIN heap \ {stack[N].head} : g[m].prev = heap[m].prev
      /\ \A m \in DOMAIN heap : /\ g[m].string = heap[m].string
                                /\ g[m].valuestring = heap[m].valuestring
                                /\ g[m].const = heap[m].const
  <2>1. stack[N].current \in Address
    BY <1>1, <1>3, Known DEF Call
  <2> QED
    BY <1>2, <1>5, <2>1, SMTT(20) DEF HeapOK, Node, SamePointers
<1>7. heap' = [g EXCEPT ![stack[N].item].type = stack[N].kind,
                        ![stack[N].item].child = stack[N].head]
  BY <1>1, <1>3 DEF ListClosed
<1> HIDE DEF g
<1>8. Hangs(heap, heap', stack[N].item, stack[N].head)
  BY <1>5, <1>6, <1>7 DEF Hangs, HeapOK, Node, SamePointers
<1>9. \A m \in DOMAIN heap : /\ heap'[m].prev = g[m].prev /\ heap'[m].string = g[m].string
                             /\ heap'[m].valuestring = g[m].valuestring /\ heap'[m].const = g[m].const
  BY <1>6, <1>7 DEF HeapOK, Node, SamePointers
<1> QED
  BY <1>1, <1>2, <1>3, <1>4, <1>5, <1>6, <1>8, <1>9

LEMMA CloseListOwns ==
  ASSUME IInv, OwnInv, CloseList
  PROVE  OwnInv'
<1>1. /\ pc' = Returned(Pop) /\ stack' = Pop /\ root' = root
      /\ Linked(heap, stack, root) /\ Shorter(stack, Pop) /\ stack[Len(stack)].head # NULL
      /\ Hangs(heap, heap', stack[Len(stack)].item, stack[Len(stack)].head)
  BY ListHangs
<1>2. Linked(heap', Pop, root) /\ Base(Pop, root, Len(Pop)) # NULL
  BY <1>1, HungLinked
<1>3. pc' \in {"parsed", "after"} /\ (pc' = "parsed" => Pop = <<>>)
  BY <1>1 DEF Returned
<1> QED
  BY <1>1, <1>2, <1>3 DEF OwnInv

LEMMA UnwindOwns ==
  ASSUME IInv, OwnInv, Unwind
  PROVE  OwnInv'
<1>1. /\ pc = "fail" /\ pc' = "fail" /\ stack # <<>> /\ stack' = Pop /\ root' = root
      /\ heap' = Without(heap, IF top.head = NULL THEN {} ELSE Owned(heap, top.head))
  BY DEF Unwind, cJSON_Delete, endVars
<1>2. Linked(heap, stack, root) /\ Shorter(stack, Pop) /\ top = stack[Len(stack)]
  BY <1>1, PopShortens DEF OwnInv
<1>3. Linked(heap', Pop, root)
  BY <1>1, <1>2, DroppedLinked
<1> QED
  BY <1>1, <1>3 DEF OwnInv

(* With one tree left, all there is belongs to it.                         *)
LEMMA OneTree ==
  ASSUME OwnInv, pc # "extracted", stack = <<>>
  PROVE  /\ root = NULL => DOMAIN heap = {}
         /\ root # NULL => DOMAIN heap \subseteq Owned(heap, root)
<1>1. Forest(heap, Bases(<<>>, root))
  BY DEF OwnInv, Linked
<1>2. Bases(<<>>, root) = {root} \ {NULL}
  BY DEF Bases, Base
<1> QED
  BY <1>1, <1>2 DEF Forest

LEMMA EmptyHeapLinked ==
  ASSUME NEW h, DOMAIN h = {}
  PROVE  Linked(h, <<>>, NULL)
<1>1. Bases(<<>>, NULL) = {} /\ Len(<<>>) = 0 /\ <<>> \in Seq(Call) /\ 0..(0 - 1) = {}
      /\ \A k \in 0..0 : k = 0
  BY DEF Bases, Base
<1>2. Forest(h, {})
  BY DEF Forest, Solid, Shut
<1> QED
  BY <1>1, <1>2 DEF Linked, Base, Last

LEMMA EndOwns ==
  ASSUME IInv, OwnInv, Failed \/ Extract \/ NoTree
  PROVE  OwnInv'
<1>1. CASE Failed
  <2>1. /\ pc = "fail" /\ pc' = "done" /\ stack = <<>> /\ stack' = <<>> /\ root' = NULL
        /\ heap' = Without(heap, IF root = NULL THEN {} ELSE Owned(heap, root))
    BY <1>1 DEF Failed, cJSON_Delete, callVars
  <2>2. DOMAIN heap' = {}
    BY <2>1, OneTree DEF Without
  <2>3. Linked(heap', <<>>, NULL)
    BY <2>2, EmptyHeapLinked
  <2> QED
    BY <2>1, <2>3 DEF OwnInv
<1>2. CASE Extract
  <2>1. /\ pc = "done" /\ root # NULL /\ pc' = "extracted" /\ stack' = stack
        /\ heap' = Without(heap, Owned(heap, root))
    BY <1>2 DEF Extract, callVars
  <2>2. stack = <<>>
    BY <2>1 DEF OwnInv
  <2>3. DOMAIN heap' = {}
    BY <2>1, <2>2, OneTree DEF Without
  <2> QED
    BY <2>1, <2>2, <2>3 DEF OwnInv
<1>3. CASE NoTree
  <2>1. pc = "done" /\ root = NULL /\ pc' = "extracted" /\ heap' = heap /\ stack' = stack
    BY <1>3 DEF NoTree, heapVars, callVars
  <2>2. stack = <<>>
    BY <2>1 DEF OwnInv
  <2> QED
    BY <2>1, <2>2, OneTree DEF OwnInv
<1> QED
  BY <1>1, <1>2, <1>3

LEMMA StepOwns ==
  ASSUME IInv, OwnInv, [Next]_vars
  PROVE  OwnInv'
<1>1. CASE ParserStep
  <2>1. CASE OpenArray \/ OpenObject
    <3>1. PICK kind \in DOMAIN OpenOf : Open(kind)
      BY <2>1 DEF OpenArray, OpenObject, OpenOf
    <3> QED
      BY <3>1, PlainStepsKeep, OpenListOwns DEF Open
  <2>2. CASE Start \/ ArrayElement \/ ObjectMember \/ CloseList \/ Unwind \/ Failed
    BY <2>2, StartOwns, ElementOwns, CloseListOwns, UnwindOwns, EndOwns
  <2>3. CASE \/ NoStart \/ ParseLiteral \/ ParseStringValue \/ StringReturned
             \/ ParseNumber \/ ParseNoNumber \/ ParseNothing \/ NoElement
             \/ MemberName \/ NoMemberName \/ AfterValue \/ Parsed \/ StringRuns
    BY <2>3, PlainStepsKeep
  <2> QED
    BY <1>1, <2>1, <2>2, <2>3 DEF ParserStep
<1>2. CASE Extract \/ NoTree
  BY <1>2, EndOwns
<1>3. CASE UNCHANGED vars
  BY <1>3 DEF vars, parserVars, heapVars, OwnInv, Filling
<1> QED
  BY <1>1, <1>2, <1>3 DEF Next, Parse, Ended

LEMMA InitOwns == Init => OwnInv
<1> SUFFICES ASSUME Init PROVE OwnInv
  OBVIOUS
<1>1. pc = "start" /\ stack = <<>> /\ root = NULL /\ DOMAIN heap = {}
  BY DEF Init, ParserInit, HeapInit
<1> QED
  BY <1>1, EmptyHeapLinked DEF OwnInv

LEMMA OwnInvariant == Spec => []OwnInv
<1>1. IInv /\ OwnInv /\ [Next]_vars => OwnInv'
  BY StepOwns
<1> QED
  BY <1>1, InitOwns, Inductive, PTL DEF Spec

LEMMA OwnInvOwnsOnce == OwnInv => NodesHaveOneOwner
<1> SUFFICES ASSUME OwnInv PROVE NodesHaveOneOwner
  OBVIOUS
<1>1. CASE pc = "extracted"
  BY <1>1 DEF OwnInv, NodesHaveOneOwner, Closed
<1>2. CASE pc # "extracted"
  <2>1. Forest(heap, Bases(stack, root)) /\ Len(stack) \in Nat
    BY <1>2, LinkedKnown DEF OwnInv, Linked
  <2>2. Bases(stack, root) = Owners
    <3>1. Bases(stack, root) = ({root} \cup {stack[k].head : k \in 1..Len(stack)}) \ {NULL}
      <4>1. \A k \in 0..Len(stack) : k = 0 \/ k \in 1..Len(stack)
        BY <2>1
      <4>2. \A k \in 1..Len(stack) : k \in 0..Len(stack) /\ k # 0
        BY <2>1
      <4>3. 0 \in 0..Len(stack)
        BY <2>1
      <4> QED
        BY <4>1, <4>2, <4>3 DEF Bases, Base
    <3> QED
      BY <3>1 DEF Owners
  <2>3. \A m : LeadsTo(m) = Points(heap, m)
    BY DEF LeadsTo, Points
  <2>4. Closed(heap, DOMAIN heap)
    BY <2>1, ShutIsClosed DEF Forest, Solid
  <2> QED
    BY <2>1, <2>2, <2>3, <2>4 DEF NodesHaveOneOwner, Forest
<1> QED
  BY <1>1, <1>2

(* Whatever the text, however deep, and wherever an allocation fails: no   *)
(* node is lost and none freed twice (NodesHaveOneOwner), so that          *)
(* cJSON_Delete may be called on what any failing function holds.          *)
THEOREM EveryNodeHasOneOwner == Spec => []NodesHaveOneOwner
BY OwnInvariant, OwnInvOwnsOnce, PTL

(* What handle_json.c leaves behind holds no node at all.                  *)
THEOREM NoNodeIsLeft == Spec => [](pc = "extracted" => DOMAIN heap = {})
<1>1. OwnInv => (pc = "extracted" => DOMAIN heap = {})
  BY DEF OwnInv
<1> QED
  BY <1>1, OwnInvariant, PTL
=============================================================================
