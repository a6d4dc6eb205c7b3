------------------------------ MODULE AliceBob ------------------------------
(***************************************************************************)
(* The two C programs, the connection between them and the KMEs:           *)
(* docker-compose starts both containers and restarts neither.             *)
(***************************************************************************)
EXTENDS Bob

vars == <<faults, tcpVars, kmeVars, aliceVars, bobVars>>

Init == FaultsInit /\ TcpInit /\ KmeInit /\ AliceInit /\ BobInit

AliceNext   == (AliceStep \/ AliceKilled) /\ UNCHANGED bobVars
BobNext     == BobStep \/ BobKilled
NetworkNext == (Arrive \/ Reset) /\ UNCHANGED <<kmeVars, aliceVars, bobVars>>

\* What may last: a program has ended, or waits for a KME that stays silent, or
\* waits in vain before the connection: Alice for a Bob who does not listen, Bob
\* for an Alice who is gone or waits in vain herself.
AliceWaitsInVain == aPc = "unanswered" \/ (aPc = "connect" /\ ~listening)
BobWaitsInVain ==
  \/ bPc = "unanswered"
  \/ bPc = "accept" /\ link = "none" /\ (AliceStopped \/ AliceWaitsInVain)
BothSettled == (AliceStopped \/ AliceWaitsInVain) /\ (BobStopped \/ BobWaitsInVain)

\* The demo is over, or hangs.
Over == BothSettled /\ UNCHANGED vars

Next == AliceNext \/ BobNext \/ NetworkNext \/ Over

Spec == Init /\ [][Next]_vars

\* Each program runs until it blocks or ends, the network delivers what it
\* accepted.  Nothing the environment breaks is fair, a KME that stays silent
\* included.
FairSpec ==
  /\ Spec
  /\ WF_vars(AliceStep /\ UNCHANGED bobVars)
  /\ WF_vars(BobStep)
  /\ WF_vars(Arrive /\ UNCHANGED <<kmeVars, aliceVars, bobVars>>)

-----------------------------------------------------------------------------
Signature == [msg : Bytes, ctx : {Ctx}, pk : {Pk}] \cup {NoSignature}
Payload == [key_ID : Nat, ctx : {Ctx, "heap"}, sign : Signature,
            pk : {binary_to_hex(Pk, SigBytes), NoPk}, ciphertext : Bytes]

\* Every variable of both programs, the connection and the KMEs has its type.
TypeOK ==
  /\ FaultsTypeOK /\ TcpTypeOK /\ KmeTypeOK
  /\ aPc \in {"read", "keys", "connect", "header", "payload", "close",
              "exit0", "exit1", "killed", "unanswered"}
  /\ file \in Files
  /\ payload \in Payload
  /\ bPc \in {"listen", "accept", "header", "payload", "fetch", "verify",
              "exit0", "exit1", "killed", "unanswered"}
  /\ total_read \in 0..PayloadLen
  /\ seen \in Payload
  /\ verdict \in {"none", "verified", "incorrect"}
  /\ shown \in Bytes

\* "Signature verified." is printed with exactly the bytes of Alice's file
\* (bob.c:101), whatever failed on the way: a payload cut short, a buffer
\* tail that was never written, a key request that went wrong.
VerifiedIsTheFile == verdict = "verified" => shown = file

\* In a run in which nothing failed Bob does not end without having verified
\* the file: no exit of bob() that prints nothing, and no "Signature
\* incorrect", is reached (bob.c:39, 60, 74, 84, 101).
HonestRunVerifies == faults = 0 /\ BobStopped => verdict = "verified"

\* The "pk" field of the payload is Alice's public key (handle_json.c:57) and
\* nothing that lies after it in memory (handle_msg.c:73).
PkFieldIsThePublicKey == payload.key_ID # 0 => payload.pk = Pk

\* Neither program waits for ever for one that could go on (alice.c:29,
\* bob.c:36, 39, 57, connection_qkd.c:59), whichever fails and wherever the
\* stream is cut.
EndsOrWaitsInVain == <>[]BothSettled

\* Two facts that do not speak of fairness make it so.  First, wherever the two
\* programs and the connection have got to, one of them can take its next step
\* without anybody else's doing, or both programs may rest: no two of them wait
\* for each other, at a full window or at an empty one.
AliceCanGoOn ==
  \/ aPc \in {"read", "keys", "close"}
  \/ aPc = "connect" /\ listening /\ link = "none"
  \/ aPc \in {"header", "payload"} /\ link = "reset"
  \/ aPc = "header" /\ link = "open" /\ sent + HeaderLen - taken <= Window
  \/ aPc = "payload" /\ link = "open" /\ sent < HeaderLen + PayloadLen /\ sent - taken < Window
BobCanGoOn ==
  \/ bPc \in {"listen", "fetch", "verify"}
  \/ bPc = "accept" /\ listening /\ link # "none"
  \/ bPc = "header" /\ (Available > 0 \/ AtEnd)
  \/ bPc = "payload" /\ (total_read = PayloadLen \/ Available > 0 \/ AtEnd)
SegmentUnderWay == link \in {"open", "closed"} /\ arrived < sent
NobodyIsStuck == AliceCanGoOn \/ BobCanGoOn \/ SegmentUnderWay \/ BothSettled

\* Second, every step uses up something of which there is an end: a place in one
\* of the programs, a state of the connection, or a byte of the payload, which is
\* written, carried and read once.  So what goes over an open connection ends: the
\* writes of alice.c:43 and 45 and the loop of bob.c:57, however the stream is cut
\* and whatever fails.  This says nothing of the loop of alice.c:30: an attempt to
\* connect that is refused changes nothing and is no step, and where Bob never
\* listens Alice repeats it without end, which is AliceWaitsInVain.
AliceSteps == [read |-> 6, keys |-> 5, connect |-> 4, header |-> 3, payload |-> 2,
               close |-> 1, unanswered |-> 1, exit0 |-> 0, exit1 |-> 0, killed |-> 0]
BobSteps   == [listen |-> 6, accept |-> 5, header |-> 4, payload |-> 3, fetch |-> 2,
               verify |-> 1, unanswered |-> 1, exit0 |-> 0, exit1 |-> 0, killed |-> 0]
LinkSteps  == [none |-> 3, open |-> 2, closed |-> 1, reset |-> 0]
Unwritten  == IF link \in {"none", "open"} THEN (HeaderLen + PayloadLen) - sent ELSE 0
StepsLeft  == AliceSteps[aPc] + BobSteps[bPc] + LinkSteps[link]
              + 3 * Unwritten + (sent - arrived) + (sent - taken)
StepsRunOut == [](StepsLeft \in Nat) /\ [][StepsLeft' < StepsLeft]_vars

\* In a run in which nothing fails the file does get verified.
HonestDelivery == <>(verdict = "verified")

\* The demo implements the transfer it promises: Bob settles once, and only
\* on what Alice signed and offered.
Outcome ==
  CASE verdict = "verified"                       -> "accepted"
    [] verdict # "verified" /\ BobStopped         -> "refused"
    [] verdict # "verified" /\ ~BobStopped
                            /\ payload.key_ID # 0 -> "offered"
    [] OTHER                                      -> "preparing"

Transfer == INSTANCE SignedTransfer
              WITH Texts <- Files, text <- file, stage <- Outcome, output <- shown
ImplementsTransfer == Transfer!Spec
=============================================================================
