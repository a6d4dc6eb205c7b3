------------------------------ MODULE SaePair -------------------------------
(***************************************************************************)
(* The two Rust processes, the connection between them and the KMEs.       *)
(***************************************************************************)
EXTENDS Sae1, SequencesExt

vars == <<faults, tcpVars, kmeVars, sae2Vars, sae1Vars>>

Init == FaultsInit /\ TcpInit /\ KmeInit /\ Sae2Init /\ Sae1Init

Sae2Next    == (Sae2Step \/ Sae2Killed) /\ UNCHANGED sae1Vars
Sae1Next    == Sae1Step \/ Sae1Killed
NetworkNext == (Arrive \/ Reset) /\ UNCHANGED <<kmeVars, sae2Vars, sae1Vars>>

\* What may last: a process has ended, or waits for a KME that stays silent or
\* for a peer that does; or, before the connection, for one that is gone.
Sae2WaitsInVain ==
  \/ cPc = "unanswered"
  \/ cPc = "connect" /\ ~listening
  \/ cPc \in {"len", "body"} /\ sPc = "unanswered"
Sae1WaitsInVain ==
  \/ sPc = "unanswered"
  \/ sPc = "accept" /\ link = "none" /\ Sae2Stopped
  \/ sPc \in {"len", "body"} /\ cPc = "unanswered"
BothSettled == (Sae2Stopped \/ Sae2WaitsInVain) /\ (Sae1Stopped \/ Sae1WaitsInVain)

\* The demo is over, or hangs.
Over == BothSettled /\ UNCHANGED vars

Next == Sae2Next \/ Sae1Next \/ NetworkNext \/ Over

Spec == Init /\ [][Next]_vars

\* Each process runs until it blocks or ends, and the network delivers what it
\* accepted.  A KME that stays silent is a failure, and no failure is fair.
FairSpec ==
  /\ Spec
  /\ WF_vars(Sae2Step /\ UNCHANGED sae1Vars)
  /\ WF_vars(Sae1Step)
  /\ WF_vars(Arrive /\ UNCHANGED <<kmeVars, sae2Vars, sae1Vars>>)

-----------------------------------------------------------------------------
Piece   == [1..KEY_SIZE_BYTES -> Byte]
Message == [key_id : 1..Len(Keys), ciphertext : Piece]
Read    == [from : Nat, n : 1..KEY_SIZE_BYTES]

\* Every variable of both processes, the connection and the KMEs has its type.
TypeOK ==
  /\ FaultsTypeOK /\ TcpTypeOK /\ KmeTypeOK
  /\ cPc \in {"start", "open", "connect", "read", "keys", "encrypt", "len", "body",
              "done", "err", "killed", "unanswered"}
  /\ file \in Files
  /\ pos \in 0..Len(file) /\ ahead \in 0..(Len(file) - pos)
  /\ buffer \in Piece
  /\ queue \in Seq(1..Len(issued))
  /\ log \in Seq(Message)
  /\ reads \in Seq(Read)
  /\ sPc \in {"start", "bind", "accept", "len", "body", "message",
              "done", "err", "panic", "killed", "unanswered"}
  /\ printed \in Seq(Piece)

\* Each key of the KME covers one piece of the file and no more, however the
\* requests were answered (README.md:10, sae.rs:54).
OneTimeKeys ==
  \A i, j \in 1..Len(log) : log[i].key_id = log[j].key_id => i = j

\* What each printed piece begins with is the next stretch of the file: no
\* byte is lost, repeated or moved, wherever the stream was cut.
PrintedInFileOrder ==
  /\ Len(printed) <= Len(reads)
  /\ \A i \in 1..Len(printed) :
        /\ \A j \in 1..reads[i].n : printed[i][j] = file[reads[i].from + j]
        /\ reads[i].from = IF i = 1 THEN 0 ELSE reads[i-1].from + reads[i-1].n

\* A key sae_1 collects was used by sae_2 for a message: no key is consumed
\* for nothing on the receiving side.
CollectedKeysWereUsed == fetched \subseteq {log[i].key_id : i \in 1..Len(log)}

\* In a run in which nothing failed, sae_1 ends its loop only after the whole
\* file was read, encrypted and printed; none of its expect()s panics.
HonestRunPrintsAll ==
  faults = 0 /\ Sae1Stopped =>
     /\ sPc = "done" /\ cPc = "done"
     /\ pos = Len(file) /\ Len(printed) = Len(reads)

\* README.md:7 says the content of the file is what is encrypted and sent:
\* the printed pieces joined together are the file.
Joined(pieces) == FoldSeq(LAMBDA piece, text : text \o piece, <<>>, pieces)
PrintedIsTheFile == cPc = "done" /\ sPc = "done" /\ link = "closed"
                    /\ Len(printed) = Len(reads) => Joined(printed) = file

\* Neither process waits for ever for one that could go on (sae.rs:95, 138,
\* 139, 156, 166, 171), whichever fails, wherever the stream is cut and however
\* little of it the kernels hold.
EndsOrWaitsInVain == <>[]BothSettled

\* As in the C demo, two facts that do not speak of fairness make it so.  First,
\* one of the two processes can take its next step without anybody else's doing,
\* or a segment is under way, or both may rest: a writer behind a full window and
\* a reader in front of an empty one do not wait for each other.
Sae2CanGoOn ==
  \/ cPc \in {"start", "open", "read", "keys", "encrypt"}
  \/ cPc = "connect" /\ listening /\ link = "none"
  \/ cPc \in {"len", "body"} /\ (link = "reset" \/ (link = "open" /\ sent - taken < Window))
Sae1CanGoOn ==
  \/ sPc \in {"start", "bind", "message"}
  \/ sPc = "accept" /\ link # "none"
  \/ sPc \in {"len", "body"} /\ (Available > 0 \/ AtEnd)
SegmentUnderWay == link \in {"open", "closed"} /\ arrived < sent
NobodyIsStuck == Sae2CanGoOn \/ Sae1CanGoOn \/ SegmentUnderWay \/ BothSettled

\* Second, every step uses up something of which there is an end: a byte of the
\* file, which pays for the turn of sae_2's loop that reads it, the two writes
\* included; a write, which is carried and read once; or a place in one of the
\* processes.  So the loops of sae.rs:121 and 153 end, with the writes of the one and
\* the read_exact of the other, however short the reads are and whatever fails.  This
\* says nothing of the loop of conectar_a_servidor (sae.rs:189): an attempt that is
\* refused changes nothing and is no step, and where sae_1 never listens sae_2
\* repeats it without end, which is Sae2WaitsInVain.
Sae2Steps == [start |-> 4, open |-> 3, connect |-> 2, read |-> 1, keys |-> 11,
              encrypt |-> 10, len |-> 9, body |-> 5, unanswered |-> 1,
              done |-> 0, err |-> 0, killed |-> 0]
Sae1Steps == [start |-> 5, bind |-> 4, accept |-> 3, len |-> 2, body |-> 2, message |-> 3,
              unanswered |-> 1, done |-> 0, err |-> 0, panic |-> 0, killed |-> 0]
LinkSteps == [none |-> 3, open |-> 2, closed |-> 1, reset |-> 0]
StepsLeft == Sae2Steps[cPc] + Sae1Steps[sPc] + LinkSteps[link]
             + 11 * (Len(file) - pos) + (sent - arrived) + 2 * (sent - taken)
StepsRunOut == [](StepsLeft \in Nat) /\ [][StepsLeft' < StepsLeft]_vars

\* In a run in which nothing fails the last piece does get printed.
HonestDelivery == <>(sPc = "done" /\ cPc = "done" /\ pos = Len(file))

\* The demo implements the transfer it promises: what was encrypted comes out
\* once and in order, whatever is lost
\* (encrypting a ciphertext again gives the piece back).
PlainLog == [i \in 1..Len(log) |-> new(Keys[log[i].key_id], log[i].ciphertext)]

Transfer == INSTANCE ChunkTransfer
              WITH source <- PlainLog, delivered <- printed,
                   going <- ~Sae1Stopped
ImplementsTransfer == Transfer!Spec
=============================================================================
