-------------------------------- MODULE Bob ---------------------------------
(***************************************************************************)
(* c/bob.c: listen, accept one connection, read the length and the         *)
(* payload, get the key it names from the KME, decrypt and verify.         *)
(***************************************************************************)
EXTENDS Alice

CONSTANT Remains        \* the bytes that unwritten memory may read as

ASSUME BobAssumption == Remains \subseteq Bytes

VARIABLES bPc,          \* where bob() is
          total_read,   \* payload bytes in the buffer
          seen,         \* the payload, as the buffer reads when it is parsed
          verdict,      \* what was printed: "none", "verified", "incorrect"
          shown         \* the text printed with "Signature verified."

bobVars == <<bPc, total_read, seen, verdict, shown>>

BobStopped == bPc \in {"exit0", "exit1", "killed"}

\* URL_GETKEYBYID, likewise.
URL_GETKEYBYID_own == [own |-> 2, other |-> 2]      \* mutant: Bob's own SAE
URL_GETKEYBYID == [own |-> 2, other |-> 1]
CanFetchKey(id) == CanFetch(URL_GETKEYBYID.own, URL_GETKEYBYID.other, id)

\* pqcrystals_dilithium5_ref_verify of the ideal scheme; it reads PkBytes of
\* the key it is given.
verify_ignoring_msg(sig, msg, ctx, pk) ==           \* mutant: text not checked
  sig.ctx = ctx /\ sig.pk = [i \in 1..PkBytes |-> pk[i]]
verify(sig, msg, ctx, pk) ==
  /\ sig.msg = CString(msg)
  /\ sig.ctx = ctx
  /\ sig.pk = [i \in 1..PkBytes |-> pk[i]]

BobInit ==
  /\ bPc = "listen"
  /\ total_read = 0
  /\ seen = payload
  /\ verdict = "none"
  /\ shown = <<>>

-----------------------------------------------------------------------------
\* socket, bind and listen, none of which is checked: when bind fails,
\* listen() binds a port nobody knows and accept() waits there.
BobListen ==
  /\ bPc = "listen"
  /\ \/ Listen /\ NoFault
     \/ Fault /\ UNCHANGED tcpVars
  /\ bPc' = "accept"
  /\ UNCHANGED <<total_read, seen, verdict, shown, aliceVars, kmeVars>>

BobExit(status) == bPc' = status /\ CloseServer

\* accept() is not checked either: when it fails, the first read() does too.
BobAccept ==
  /\ bPc = "accept" /\ listening
  /\ link # "none"
  /\ \/ bPc' = "header" /\ NoFault /\ UNCHANGED tcpVars
     \/ BobExit("exit1") /\ Fault
  /\ UNCHANGED <<total_read, seen, verdict, shown, aliceVars, kmeVars>>

\* One read() of up to four bytes.  Fewer than four, the end of the stream
\* and a buffer that cannot be allocated make bob() return 1.
BobReadHeader ==
  /\ bPc = "header"
  /\ \/ /\ Available >= HeaderLen
        /\ \/ Take(HeaderLen) /\ bPc' = "payload" /\ NoFault
           \/ BobExit("exit1") /\ Fault
     \/ /\ Available \in 1..(HeaderLen - 1) \/ AtEnd
        /\ BobExit("exit1") /\ NoFault
  /\ UNCHANGED <<total_read, seen, verdict, shown, aliceVars, kmeVars>>

\* One turn of the loop that fills the buffer.
BobReadPayloadAddingErrors ==                       \* mutant: -1 is added too
  /\ bPc = "payload" /\ total_read < PayloadLen
  /\ \/ LET n == Smaller(Available, PayloadLen - total_read)
        IN  n > 0 /\ Take(n) /\ total_read' = total_read + n
     \/ link = "reset" /\ AtEnd /\ total_read' = total_read - 1 /\ UNCHANGED tcpVars
  /\ NoFault /\ UNCHANGED <<bPc, seen, verdict, shown, aliceVars, kmeVars>>
BobReadPayload ==
  /\ bPc = "payload"
  /\ total_read < PayloadLen /\ Available > 0
  /\ LET n == Smaller(Available, PayloadLen - total_read)
     IN  Take(n) /\ total_read' = total_read + n
  /\ NoFault /\ UNCHANGED <<bPc, seen, verdict, shown, aliceVars, kmeVars>>

\* What a buffer may read as when the loop stopped early: its tail was never
\* written, and what lies there may complete the JSON.  The fields follow each
\* other as in build_json_payload; from the f-th on they are not Alice's.  The
\* array of the ciphertext is the last: it may be cut behind any of its numbers.
NoKeyId     == 0
NoSignature == [msg |-> <<>>, ctx |-> Ctx, pk |-> <<>>]
NoPk        == [i \in 1..SigBytes |-> "heap"]

CutAt(f, p, c) ==
  [key_ID     |-> IF f = 1 THEN NoKeyId ELSE p.key_ID,
   ctx        |-> IF f <= 2 THEN "heap" ELSE p.ctx,
   sign       |-> IF f <= 3 THEN NoSignature ELSE p.sign,
   pk         |-> IF f <= 4 THEN NoPk ELSE p.pk,
   ciphertext |-> c]
CutBehind(k, bytes, c) == SubSeq(bytes, 1, k) \o c
CutCiphertexts(p) ==
  {CutBehind(k, p.ciphertext, c) : k \in 0..Len(p.ciphertext), c \in Remains}
Damaged(p) == {CutAt(f, p, c) : f \in 1..4, c \in Remains}
              \cup {CutAt(5, p, c) : c \in CutCiphertexts(p)}

\* The loop is over: get_key_id, account_id and parse_incoming_message.
BobParseWhole ==                                    \* mutant: no break on 0
  /\ bPc = "payload"
  /\ \/ total_read = PayloadLen /\ seen' = payload /\ bPc' = "fetch"
     \/ AtEnd /\ UNCHANGED <<seen, bPc>>
  /\ NoFault
  /\ UNCHANGED <<total_read, verdict, shown, tcpVars, aliceVars, kmeVars>>
BobParseFirstRead ==                                \* mutant: one read() is all
  /\ bPc = "payload"
  /\ total_read > 0 \/ AtEnd
  /\ \/ /\ seen' \in IF total_read = PayloadLen THEN {payload} ELSE Damaged(payload)
        /\ bPc' = "fetch"
        /\ NoFault /\ UNCHANGED tcpVars
     \/ /\ total_read < PayloadLen
        /\ BobExit("exit0")
        /\ NoFault /\ UNCHANGED seen
     \/ /\ BobExit("exit1")
        /\ Fault /\ UNCHANGED seen
  /\ UNCHANGED <<total_read, verdict, shown, aliceVars, kmeVars>>
BobParse ==
  /\ bPc = "payload"
  /\ total_read = PayloadLen \/ AtEnd
  /\ \/ /\ seen' \in IF total_read = PayloadLen THEN {payload} ELSE Damaged(payload)
        /\ bPc' = "fetch"
        /\ NoFault /\ UNCHANGED tcpVars
     \/ /\ total_read < PayloadLen
        /\ BobExit("exit0")
        /\ NoFault /\ UNCHANGED seen
     \/ /\ BobExit("exit1")
        /\ Fault /\ UNCHANGED seen
  /\ UNCHANGED <<total_read, verdict, shown, aliceVars, kmeVars>>

\* connection_qkd for the key the payload names, and get_key.  A request the
\* KME refuses, or that fails before or after it is served, ends the run
\* with nothing printed; one that is never answered does not end it.
BobGetsNoKeyYet == UNCHANGED <<bPc, tcpVars>>       \* mutant: asks again
BobGetsNoKey == BobExit("exit0") \/ (bPc' = "unanswered" /\ UNCHANGED tcpVars)
BobFetchKey ==
  /\ bPc = "fetch"
  /\ \/ /\ CanFetchKey(seen.key_ID)
        /\ DecKeys(seen.key_ID)
        /\ \/ bPc' = "verify" /\ NoFault /\ UNCHANGED tcpVars
           \/ BobGetsNoKey /\ Fault
     \/ /\ ~CanFetchKey(seen.key_ID)
        /\ BobExit("exit0") /\ NoFault /\ UNCHANGED kmeVars
     \/ BobGetsNoKey /\ Fault /\ UNCHANGED kmeVars
  /\ UNCHANGED <<total_read, seen, verdict, shown, aliceVars>>

\* decrypt_message, verify and the print.  In a damaged payload a field may
\* be missing: nothing is printed then, or strlen() is handed a NULL context.
BobVerifyPrintsFirst ==                             \* mutant: print, then check
  /\ bPc = "verify"
  /\ LET text == decrypt_message(seen.ciphertext, Keys[seen.key_ID]) IN
     /\ shown' = CString(text)
     /\ verdict' = IF verify(seen.sign, text, seen.ctx, seen.pk)
                   THEN "verified" ELSE "incorrect"
  /\ BobExit("exit0")
  /\ NoFault /\ UNCHANGED <<total_read, seen, aliceVars, kmeVars>>
BobVerify ==
  /\ bPc = "verify"
  /\ LET text  == decrypt_message(seen.ciphertext, Keys[seen.key_ID])
         valid == verify(seen.sign, text, seen.ctx, seen.pk)
     IN \/ /\ valid /\ BobExit("exit0")
           /\ verdict' = "verified" /\ shown' = CString(text)
        \/ /\ ~valid /\ BobExit("exit0")
           /\ verdict' = "incorrect" /\ UNCHANGED shown
        \/ /\ total_read < PayloadLen
           /\ BobExit("exit0") \/ BobExit("killed")
           /\ UNCHANGED <<verdict, shown>>
  /\ NoFault /\ UNCHANGED <<total_read, seen, aliceVars, kmeVars>>

BobKilled ==
  /\ Fault
  /\ ~BobStopped
  /\ BobExit("killed")
  /\ UNCHANGED <<total_read, seen, verdict, shown, aliceVars, kmeVars>>

BobStep ==
  \/ BobListen \/ BobAccept \/ BobReadHeader \/ BobReadPayload
  \/ BobParse \/ BobFetchKey \/ BobVerify
=============================================================================
