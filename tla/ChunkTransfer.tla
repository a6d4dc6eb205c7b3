--------------------------- MODULE ChunkTransfer ----------------------------
(***************************************************************************)
(* What the Rust demo promises: one side produces pieces of text, the      *)
(* other prints them in the same order, none twice, none before it was     *)
(* produced, until the receiver gives up.                                  *)
(***************************************************************************)
EXTENDS Naturals, Sequences

CONSTANT Piece

VARIABLES source, delivered, going      \* going: the receiver is at work

vars == <<source, delivered, going>>

Init == source = <<>> /\ delivered = <<>> /\ going = TRUE

Produce == /\ \E p \in Piece : source' = Append(source, p)
           /\ UNCHANGED <<delivered, going>>

Deliver == /\ going
           /\ Len(delivered) < Len(source)
           /\ delivered' = Append(delivered, source[Len(delivered) + 1])
           /\ UNCHANGED <<source, going>>

Stop == going /\ going' = FALSE /\ UNCHANGED <<source, delivered>>

Next == Produce \/ Deliver \/ Stop
Spec == Init /\ [][Next]_vars
=============================================================================
