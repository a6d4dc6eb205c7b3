-------------------------------- MODULE Sae1 --------------------------------
(***************************************************************************)
(* sae_1 and handle_client in rust/sae/src/sae.rs, Bob of the Rust demo:   *)
(* accept one connection, read frames until the stream ends, fetch the key *)
(* each names, decrypt and print.  get_key_from_id of qukaydee.rs is part  *)
(* of it.  (The future of get_status is never awaited, so that request is  *)
(* never made.)                                                            *)
(***************************************************************************)
EXTENDS Sae2

CONSTANT ValidUtf8(_)   \* what String::from_utf8 accepts

VARIABLES sPc,          \* where sae_1 is
          printed       \* the texts handle_client has printed

sae1Vars == <<sPc, printed>>

Sae1Stopped == sPc \in {"done", "err", "panic", "killed"}

Sae1Init == sPc = "start" /\ printed = <<>>

Leave(status) == sPc' = status /\ CloseServer

-----------------------------------------------------------------------------
\* main: the same start-up as sae_2's, then the call of sae_1.
Sae1Start ==
  /\ sPc = "start"
  /\ \/ sPc' = "bind" /\ NoFault /\ UNCHANGED tcpVars
     \/ Leave("err") /\ Fault
     \/ Leave("panic") /\ Fault
  /\ UNCHANGED <<printed, sae2Vars, kmeVars>>

BindListenerAnyway ==                               \* mutant: bind not checked
  /\ sPc = "bind" /\ sPc' = "accept"
  /\ \/ Listen /\ NoFault
     \/ Fault /\ UNCHANGED tcpVars
  /\ UNCHANGED <<printed, sae2Vars, kmeVars>>
BindListener ==
  /\ sPc = "bind"
  /\ \/ Listen /\ sPc' = "accept" /\ NoFault
     \/ Leave("err") /\ Fault
  /\ UNCHANGED <<printed, sae2Vars, kmeVars>>

AcceptClient ==
  /\ sPc = "accept"
  /\ link # "none"
  /\ \/ sPc' = "len" /\ NoFault /\ UNCHANGED tcpVars
     \/ Leave("err") /\ Fault
  /\ UNCHANGED <<printed, sae2Vars, kmeVars>>

\* read_exact of the length.  Any failure ends the loop, and the loop's end
\* is reported as a communication without errors.
ReadLen ==
  /\ sPc = "len"
  /\ \/ Available > 0 /\ Take(1) /\ sPc' = "body"
     \/ AtEnd /\ Leave("done")
  /\ NoFault /\ UNCHANGED <<printed, sae2Vars, kmeVars>>

\* read_exact of the body: a failure is a panic.
ReadBodyWaits ==                                    \* mutant: end not seen
  /\ sPc = "body"
  /\ \/ Available > 0 /\ Take(1) /\ sPc' = "message"
     \/ AtEnd /\ UNCHANGED <<sPc, tcpVars>>
  /\ NoFault /\ UNCHANGED <<printed, sae2Vars, kmeVars>>
ReadBody ==
  /\ sPc = "body"
  /\ \/ Available > 0 /\ Take(1) /\ sPc' = "message"
     \/ AtEnd /\ Leave("panic")
  /\ NoFault /\ UNCHANGED <<printed, sae2Vars, kmeVars>>

\* get_key_from_id, when the KME answers with the key: sae_1 is the slave.
CanGet(id) == CanFetch(1, other_sae(1), id)
get_key_after(id) == CanGet(id + 1) /\ DecKeys(id + 1)      \* mutant: the next
get_key_from_id(id) == CanGet(id) /\ DecKeys(id)

\* The body just read is the second unit of its frame.  from_slice,
\* get_key_from_id, decrypt and println, each with expect().  A KME that stays
\* silent keeps sae_1 waiting.
Sae1GetsNoKey == Leave("panic") \/ (sPc' = "unanswered" /\ UNCHANGED tcpVars)
HandleMessage ==
  /\ sPc = "message"
  /\ LET msg  == log[taken \div 2]
         key  == Keys[msg.key_id]
         text == decrypt(msg.ciphertext, key)
         ok   == Len(key) >= Len(msg.ciphertext) /\ ValidUtf8(text)
     IN \/ /\ get_key_from_id(msg.key_id) /\ NoFault
           /\ \/ ok /\ printed' = Append(printed, text) /\ sPc' = "len"
                 /\ UNCHANGED tcpVars
              \/ ~ok /\ Leave("panic") /\ UNCHANGED printed
        \/ /\ get_key_from_id(msg.key_id) /\ Fault
           /\ Sae1GetsNoKey /\ UNCHANGED printed
        \/ /\ ~CanGet(msg.key_id) /\ NoFault
           /\ Leave("panic") /\ UNCHANGED <<printed, kmeVars>>
        \/ /\ Fault
           /\ Sae1GetsNoKey /\ UNCHANGED <<printed, kmeVars>>
  /\ UNCHANGED sae2Vars

Sae1Killed ==
  /\ Fault
  /\ ~Sae1Stopped
  /\ Leave("killed")
  /\ UNCHANGED <<printed, sae2Vars, kmeVars>>

Sae1Step ==
  \/ Sae1Start \/ BindListener \/ AcceptClient
  \/ ReadLen \/ ReadBody \/ HandleMessage
=============================================================================
