-------------------------------- MODULE Sae2 --------------------------------
(***************************************************************************)
(* sae_2 in rust/sae/src/sae.rs, Alice of the Rust demo: read the file in  *)
(* pieces, encrypt each with a key of its own and write it to the socket   *)
(* as a frame.  get_keys_and_id of qukaydee.rs is part of it.              *)
(*                                                                         *)
(* A frame is two units of the stream, one for each write_all: its length  *)
(* and its JSON body.  The i-th body is log[i].                            *)
(***************************************************************************)
EXTENDS Tcp, Kme

CONSTANTS Files,            \* the contents lorem.txt may have
          KEY_SIZE_BYTES,   \* length of the buffer, and of the keys asked for
          KEYS_PER_REQUEST,
          ReaderCapacity    \* what a BufReader reads ahead

ASSUME Sae2Assumption ==
  /\ Files \subseteq Bytes
  /\ KEY_SIZE_BYTES \in Nat \ {0}
  /\ KEYS_PER_REQUEST \in Nat \ {0}
  /\ ReaderCapacity \in Nat \ {0}

\* The peer that the url of a process names.
other_sae_same(sae_id) == IF sae_id = 1 THEN 1 ELSE 2   \* mutant: itself
other_sae(sae_id) == IF sae_id = 1 THEN 2 ELSE 1

VARIABLES cPc,          \* where sae_2 is
          file,         \* the bytes of lorem.txt
          pos,          \* how many of them reader.read has returned
          ahead,        \* how many more the BufReader holds
          buffer,       \* the vec the pieces are read into
          queue,        \* id_and_key_queue, as the ids
          log,          \* every EncryptedMessage serialized so far
          reads         \* history: where each read began and what it returned

sae2Vars == <<cPc, file, pos, ahead, buffer, queue, log, reads>>

Sae2Stopped == cPc \in {"done", "err", "killed"}

Sae2Init ==
  /\ cPc = "start"
  /\ file \in Files
  /\ pos = 0 /\ ahead = 0
  /\ buffer = [i \in 1..KEY_SIZE_BYTES |-> 0]
  /\ queue = <<>>
  /\ log = <<>> /\ reads = <<>>

\* sae_2 returns, with or without an error; the stream is dropped.
Return(status) == cPc' = status /\ CloseClient

-----------------------------------------------------------------------------
\* get_client_and_url_from_env, from main: a variable, a certificate or a key
\* that is missing or malformed is an expect() that panics or an exit(1).
Sae2Start ==
  /\ cPc = "start"
  /\ \/ NoFault /\ cPc' = "open"
     \/ Fault /\ cPc' \in {"err", "killed"}
  /\ UNCHANGED <<file, pos, ahead, buffer, queue, log, reads, tcpVars, kmeVars>>

\* File::open, before the connection is tried: expect() panics.
OpenFile ==
  /\ cPc = "open"
  /\ \/ NoFault /\ cPc' = "connect"
     \/ Fault /\ cPc' = "killed"
  /\ UNCHANGED <<file, pos, ahead, buffer, queue, log, reads, tcpVars, kmeVars>>

\* conectar_a_servidor: a refused attempt sleeps 100 ms and changes nothing.
ConectarAServidor ==
  /\ cPc = "connect"
  /\ Connect
  /\ cPc' = "read"
  /\ NoFault
  /\ UNCHANGED <<file, pos, ahead, buffer, queue, log, reads, kmeVars>>

\* What the BufReader holds when it answers a read: what is left from before,
\* or a fresh piece of the file; a buffer as large as its own is filled
\* without a copy.
Fill ==
  IF ahead > 0 THEN ahead
  ELSE Smaller(IF KEY_SIZE_BYTES >= ReaderCapacity THEN KEY_SIZE_BYTES
                                                   ELSE ReaderCapacity,
               Len(file) - pos)

\* A read of n bytes into a copy of the buffer: the rest of it stays.
ReadRightAligned(buf, n) ==                         \* mutant: wrong end
  [i \in 1..KEY_SIZE_BYTES |->
     IF i > KEY_SIZE_BYTES - n THEN file[pos + i + n - KEY_SIZE_BYTES] ELSE buf[i]]
ReadInto(buf, n) ==
  [i \in 1..KEY_SIZE_BYTES |-> IF i <= n THEN file[pos + i] ELSE buf[i]]

\* The head of the loop.  A read that returns 0 ends it, and success is
\* reported.
ReadPiece ==
  /\ cPc = "read"
  /\ LET n == Smaller(KEY_SIZE_BYTES, Fill) IN
     \/ /\ n > 0
        /\ buffer' = ReadInto(buffer, n)
        /\ pos' = pos + n /\ ahead' = Fill - n
        /\ reads' = Append(reads, [from |-> pos, n |-> n])
        /\ cPc' = IF queue = <<>> THEN "keys" ELSE "encrypt"
        /\ NoFault /\ UNCHANGED tcpVars
     \/ /\ n = 0
        /\ Return("done")
        /\ NoFault /\ UNCHANGED <<pos, ahead, buffer, reads>>
     \/ /\ Return("err")
        /\ Fault /\ UNCHANGED <<pos, ahead, buffer, reads>>
  /\ UNCHANGED <<file, queue, log, kmeVars>>

\* The strictly increasing choices of m of the ids n + 1 .. n + k: items of
\* the response without a key or an id are skipped.
Picks(n, k, m) ==
  {p \in [1..m -> (n + 1)..(n + k)] : \A i, j \in 1..m : i < j => p[i] < p[j]}

\* get_keys_and_id.  A link without enough keys answers with an error body,
\* which has no "keys": the queue stays empty and sae_2 returns an error.
\* The status of the response is not looked at.  The client has no timeout:
\* a KME that stays silent keeps the request, and the connection, open.
Sae2GetsNoKeysYet == UNCHANGED <<cPc, tcpVars>>     \* mutant: asks again
Sae2GetsNoKeys == Return("err") \/ (cPc' = "unanswered" /\ UNCHANGED tcpVars)
GetKeysAndId ==
  /\ cPc = "keys"
  /\ \/ /\ CanIssue(KEYS_PER_REQUEST)
        /\ EncKeys(2, other_sae(2), KEYS_PER_REQUEST)
        /\ \/ /\ NoFault
              /\ queue' \in Picks(Len(issued), KEYS_PER_REQUEST, KEYS_PER_REQUEST)
              /\ cPc' = "encrypt" /\ UNCHANGED tcpVars
           \/ /\ Fault
              /\ \E m \in 1..(KEYS_PER_REQUEST - 1) :
                    queue' \in Picks(Len(issued), KEYS_PER_REQUEST, m)
              /\ cPc' = "encrypt" /\ UNCHANGED tcpVars
           \/ Fault /\ Sae2GetsNoKeys /\ UNCHANGED queue
     \/ /\ ~CanIssue(KEYS_PER_REQUEST)
        /\ NoFault /\ Return("err") /\ UNCHANGED <<queue, kmeVars>>
     \/ Fault /\ Sae2GetsNoKeys /\ UNCHANGED <<queue, kmeVars>>
  /\ UNCHANGED <<file, pos, ahead, buffer, log, reads>>

\* pop_front, EncryptedMessage::new on a copy of the whole buffer, to_vec.
EncryptPieceKeepingKey ==                           \* mutant: front, not pop
  /\ cPc = "encrypt"
  /\ LET key == Keys[Head(queue)] IN
     \/ /\ Len(key) >= KEY_SIZE_BYTES
        /\ log' = Append(log, [key_id     |-> Head(queue),
                               ciphertext |-> new(key, buffer)])
        /\ cPc' = "len" /\ UNCHANGED tcpVars
     \/ /\ Len(key) < KEY_SIZE_BYTES
        /\ Return("err") /\ UNCHANGED log
  /\ NoFault
  /\ UNCHANGED <<file, pos, ahead, buffer, queue, reads, kmeVars>>
EncryptPiece ==
  /\ cPc = "encrypt"
  /\ queue' = Tail(queue)
  /\ LET key == Keys[Head(queue)] IN
     \/ /\ Len(key) >= KEY_SIZE_BYTES
        /\ log' = Append(log, [key_id     |-> Head(queue),
                               ciphertext |-> new(key, buffer)])
        /\ cPc' = "len" /\ UNCHANGED tcpVars
     \/ /\ Len(key) < KEY_SIZE_BYTES
        /\ Return("err") /\ UNCHANGED log
  /\ NoFault
  /\ UNCHANGED <<file, pos, ahead, buffer, reads, kmeVars>>

\* write_all of the length, then of the body.  On a dead connection it fails,
\* or the kernel has not noticed yet and the bytes go nowhere.
WriteAll(from, to) ==
  /\ cPc = from
  /\ \/ Push(1) /\ cPc' = to
     \/ link = "reset" /\ cPc' = to /\ UNCHANGED tcpVars
     \/ link = "reset" /\ Return("err")
  /\ NoFault
  /\ UNCHANGED <<file, pos, ahead, buffer, queue, log, reads, kmeVars>>

WriteLenForgotten ==                                \* mutant: no length written
  /\ cPc = "len" /\ cPc' = "body"
  /\ NoFault
  /\ UNCHANGED <<file, pos, ahead, buffer, queue, log, reads, tcpVars, kmeVars>>
WriteLen  == WriteAll("len", "body")
WriteBody == WriteAll("body", "read")

Sae2Killed ==
  /\ Fault
  /\ ~Sae2Stopped
  /\ Return("killed")
  /\ UNCHANGED <<file, pos, ahead, buffer, queue, log, reads, kmeVars>>

Sae2Step ==
  \/ Sae2Start \/ OpenFile \/ ConectarAServidor \/ ReadPiece \/ GetKeysAndId
  \/ EncryptPiece \/ WriteLen \/ WriteBody
=============================================================================
