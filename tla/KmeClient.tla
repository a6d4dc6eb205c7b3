------------------------------ MODULE KmeClient ------------------------------
(***************************************************************************)
(* connection_qkd of c/core/connection_qkd.c: the answer of a KME is put   *)
(* together in a block that grows with each piece curl delivers.           *)
(***************************************************************************)
EXTENDS Integers, Sequences

CONSTANT Bodies         \* the answers a KME may give

VARIABLES cPc,          \* where connection_qkd is
          body,         \* what the KME answers to this request
          received,     \* how much of it curl has handed to the callback
          memory,       \* chunk.memory: the bytes of the block, or NULL
          size,         \* chunk.size
          blocks        \* blocks that are allocated

vars == <<cPc, body, received, memory, size, blocks>>

NoBlock == <<>>
\* What malloc(1) leaves in its byte, in a build that may find anything there.
Unset   == {<<0>>, <<99>>}

Init ==
  /\ cPc = "start"
  /\ body \in Bodies
  /\ received = 0
  /\ memory = NoBlock
  /\ size = 0
  /\ blocks = 0

-----------------------------------------------------------------------------
\* The block of one byte, which nothing writes to.
AllocateChunk ==
  /\ cPc = "start"
  /\ \/ memory' \in Unset /\ blocks' = 1 /\ cPc' = "init"
     \/ cPc' = "returned" /\ UNCHANGED <<memory, blocks>>
  /\ UNCHANGED <<body, received, size>>

\* curl_easy_init; without a handle chunk.memory is returned as it is.
EasyInit ==
  /\ cPc = "init"
  /\ cPc' \in {"perform", "returned"}
  /\ UNCHANGED <<body, received, memory, size, blocks>>

\* One piece: realloc, memcpy and the terminator.  When realloc fails the
\* old block stays, and the 0 returned makes curl give up.
WriteMemoryCallbackOver(n) ==                       \* mutant: size not added
  /\ memory' = SubSeq(body, received + 1, received + n) \o <<0>>
  /\ size' = n
WriteMemoryCallback(n) ==
  /\ memory' = SubSeq(memory, 1, size)
                 \o SubSeq(body, received + 1, received + n) \o <<0>>
  /\ size' = size + n

PerformPieceFreeing ==                              \* mutant: freed here too
  /\ cPc = "perform"
  /\ \E n \in 1..(Len(body) - received) :
        \/ WriteMemoryCallback(n) /\ received' = received + n /\ UNCHANGED <<cPc, blocks>>
        \/ cPc' = "failed" /\ blocks' = blocks - 1 /\ UNCHANGED <<received, memory, size>>
  /\ UNCHANGED body
PerformPiece ==
  /\ cPc = "perform"
  /\ \E n \in 1..(Len(body) - received) :
        \/ WriteMemoryCallback(n) /\ received' = received + n /\ UNCHANGED cPc
        \/ cPc' = "failed" /\ UNCHANGED <<received, memory, size>>
  /\ UNCHANGED <<body, blocks>>

\* The answer is complete, or curl fails: no connection, no certificate, a
\* transfer cut short.
PerformEndsAgain ==                                 \* mutant: asked again
  /\ cPc = "perform"
  /\ \/ received = Len(body) /\ cPc' = "returned"
     \/ cPc' = "init"
  /\ UNCHANGED <<body, received, memory, size, blocks>>
PerformEnds ==
  /\ cPc = "perform"
  /\ \/ received = Len(body) /\ cPc' = "returned"
     \/ cPc' = "failed"
  /\ UNCHANGED <<body, received, memory, size, blocks>>

\* No timeout is set: a KME that falls silent, before its answer or in the
\* middle of it, leaves the call open for ever.
PerformHangs ==
  /\ cPc = "perform"
  /\ cPc' = "unanswered"
  /\ UNCHANGED <<body, received, memory, size, blocks>>

FreeChunkForgotten ==                               \* mutant: only forgotten
  /\ cPc = "failed"
  /\ memory' = NoBlock /\ cPc' = "returned"
  /\ UNCHANGED <<body, received, size, blocks>>
FreeChunk ==
  /\ cPc = "failed"
  /\ blocks' = blocks - 1 /\ memory' = NoBlock /\ cPc' = "returned"
  /\ UNCHANGED <<body, received, size>>

Next ==
  \/ AllocateChunk \/ EasyInit
  \/ PerformPiece \/ PerformEnds \/ PerformHangs
  \/ FreeChunk

Spec == Init /\ [][Next]_vars

-----------------------------------------------------------------------------
TypeOK ==
  /\ cPc \in {"start", "init", "perform", "failed", "returned", "unanswered"}
  /\ body \in Bodies
  /\ received \in 0..Len(body)
  /\ memory \in Seq(0..255) /\ size \in Nat
  /\ blocks \in 0..1
=============================================================================
