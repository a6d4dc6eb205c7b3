------------------------------- MODULE Alice --------------------------------
(***************************************************************************)
(* c/alice.c: read the file, sign it, get a key from the KME, encrypt,     *)
(* build the JSON payload, connect to Bob and send it.                     *)
(*                                                                         *)
(* The payload is a record with the fields of the JSON object; its length  *)
(* in bytes is a constant, and Tcp counts its bytes.  Dilithium is ideal:  *)
(* a signature is the triple that was signed.                              *)
(***************************************************************************)
EXTENDS Tcp, Kme

CONSTANTS Files,        \* the contents lorem.txt may have
          PkBytes,      \* pqcrystals_dilithium5_PUBLICKEYBYTES, in units
          SigBytes,     \* pqcrystals_dilithium5_BYTES, in the same units
          PayloadLen    \* strlen of the JSON payload

ASSUME AliceAssumption ==
  /\ Files \subseteq Bytes
  /\ PkBytes \in Nat \ {0} /\ SigBytes \in Nat \ {0}
  /\ PayloadLen \in Nat \ {0}
  /\ Len(Keys) >= 2

VARIABLES aPc,          \* where Alice's main is
          file,         \* the bytes of lorem.txt
          payload       \* what she built; no ciphertext before that

aliceVars == <<aPc, file, payload>>

AliceStopped == aPc \in {"exit0", "exit1", "killed"}

HeaderLen == 4

\* The four bytes are handed to the kernel at once: an empty send buffer takes them.
ASSUME HeaderAssumption == Window >= HeaderLen

\* URL_GETKEY: whose KME is asked, with whose certificate, and for keys shared
\* with whom.
URL_GETKEY == [own |-> 1, other |-> 2]
Ctx == "To Bob"
Pk  == [i \in 1..PkBytes |-> "pk"]

\* The signature of the ideal scheme, in place of pqcrystals' SigBytes bytes.
sign(msg, ctx) == [msg |-> msg, ctx |-> ctx, pk |-> Pk]

\* binary_to_hex prints len bytes from bin's address on, whatever lies there.
binary_to_hex(bin, len) ==
  [i \in 1..len |-> IF i <= Len(bin) THEN bin[i] ELSE "heap"]

build_json_payload(key_id, ciphertext, signed) ==
  [key_ID     |-> key_id,
   ctx        |-> signed.ctx,
   sign       |-> signed,
   pk         |-> binary_to_hex(Pk, SigBytes),
   ciphertext |-> ciphertext]

AliceInit ==
  /\ aPc = "read"
  /\ file \in Files
  /\ payload = build_json_payload(0, <<>>, sign(file, Ctx))

-----------------------------------------------------------------------------
\* read_file, sign and account_id.  A size or an allocation that fails and a
\* missing ACCOUNT_ID make main return 1; a file that is not there does not:
\* read_file hands fopen's NULL to fseek.
AliceReadFile ==
  /\ aPc = "read"
  /\ \/ NoFault /\ aPc' = "keys"
     \/ Fault /\ aPc' \in {"exit1", "killed"}
  /\ UNCHANGED <<file, payload, tcpVars, kmeVars>>

\* connection_qkd for two new keys, get_key and get_key_id, which take the
\* first, encrypt_message and build_json_payload.  A request that fails may
\* fail after the KME served it.  No response, an empty key or no memory end
\* main at its closing brace; a response without keys makes it return 1.  No
\* timeout is set: from a KME that stays silent the call never returns.
AliceGetKeyAndEncrypt ==
  /\ aPc = "keys"
  /\ LET id == Len(issued) + 1 IN
     \/ /\ NoFault
        /\ EncKeys(URL_GETKEY.own, URL_GETKEY.other, 2)
        /\ payload' = build_json_payload(
                         id, encrypt_message(Keys[id], file), sign(file, Ctx))
        /\ aPc' = "connect"
     \/ /\ Fault
        /\ \/ EncKeys(URL_GETKEY.own, URL_GETKEY.other, 2)
           \/ UNCHANGED kmeVars
        /\ aPc' \in {"exit0", "exit1", "unanswered"}
        /\ UNCHANGED payload
  /\ UNCHANGED <<file, tcpVars>>

\* connect() in a loop: a refused attempt sleeps a second and changes
\* nothing, so only the attempt that succeeds is a step.
AliceConnect ==
  /\ aPc = "connect"
  /\ Connect
  /\ aPc' = "header"
  /\ NoFault /\ UNCHANGED <<file, payload, kmeVars>>

\* On a dead connection send() returns an error main ignores, or SIGPIPE
\* ends the process.
SendLost(next) ==
  /\ link = "reset"
  /\ aPc' \in {next, "killed"}
  /\ UNCHANGED tcpVars

AliceSendHeader ==
  /\ aPc = "header"
  /\ \/ Push(HeaderLen) /\ aPc' = "payload"
     \/ SendLost("payload")
  /\ NoFault /\ UNCHANGED <<file, payload, kmeVars>>

\* send() blocks until the kernel has taken the whole payload, piece by piece.
AliceSendPayload ==
  /\ aPc = "payload"
  /\ \/ \E n \in 1..(HeaderLen + PayloadLen - sent) :
           /\ Push(n)
           /\ aPc' = IF sent + n = HeaderLen + PayloadLen THEN "close" ELSE aPc
     \/ SendLost("close")
  /\ NoFault /\ UNCHANGED <<file, payload, kmeVars>>

AliceClose ==
  /\ aPc = "close"
  /\ CloseClient
  /\ aPc' = "exit0"
  /\ NoFault /\ UNCHANGED <<file, payload, kmeVars>>

\* The container is stopped; the kernel closes the socket.
AliceKilled ==
  /\ Fault
  /\ ~AliceStopped
  /\ aPc' = "killed"
  /\ CloseClient
  /\ UNCHANGED <<file, payload, kmeVars>>

AliceStep ==
  \/ AliceReadFile \/ AliceGetKeyAndEncrypt \/ AliceConnect
  \/ AliceSendHeader \/ AliceSendPayload \/ AliceClose
=============================================================================
