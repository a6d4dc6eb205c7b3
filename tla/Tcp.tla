-------------------------------- MODULE Tcp ---------------------------------
(***************************************************************************)
(* The one TCP connection of the demo, client to server, as the two        *)
(* programs use it: socket/connect/send/close on Alice's side,             *)
(* bind/listen/accept/read/close on Bob's.  The kernel is outside the      *)
(* repository.                                                             *)
(*                                                                         *)
(* Data are counted, not stored: the stream is a growing log of units      *)
(* (bytes for the C program, write_all calls for the Rust one), of which   *)
(* the first `sent' were accepted from the client, the first `arrived'     *)
(* reached the server's kernel and the first `taken' were read.  What the  *)
(* k-th unit contains is known to the modules that write it.               *)
(***************************************************************************)
EXTENDS Faults

CONSTANTS MinSegment,   \* a segment carries this many units, or all in flight
          Window        \* units the kernels hold between client and server

ASSUME TcpAssumption == MinSegment \in Nat \ {0} /\ Window \in Nat \ {0}

VARIABLES listening,    \* a server listens on the agreed address and port
          link,         \* "none", "open", "closed" (by the client) or "reset"
          sent, arrived, taken

tcpVars == <<listening, link, sent, arrived, taken>>

TcpInit ==
  /\ listening = FALSE
  /\ link = "none"
  /\ sent = 0 /\ arrived = 0 /\ taken = 0

TcpTypeOK ==
  /\ listening \in BOOLEAN
  /\ link \in {"none", "open", "closed", "reset"}
  /\ sent \in Nat /\ arrived \in 0..sent /\ taken \in 0..arrived

Smaller(m, n) == IF m <= n THEN m ELSE n

-----------------------------------------------------------------------------
(* The server's calls. *)

Listen == listening' = TRUE /\ UNCHANGED <<link, sent, arrived, taken>>

\* What read() could hand over now, and whether it would report the end of
\* the stream (or an error) instead of blocking: a FIN is seen in order,
\* after everything sent, a reset after everything that had arrived.
Available == arrived - taken
AtEnd == /\ Available = 0
         /\ link = "reset" \/ (link = "closed" /\ arrived = sent)

Take(n) == taken' = taken + n /\ UNCHANGED <<listening, link, sent, arrived>>

\* The server's sockets go away, by close() or because the process ended.
\* A client that is still connected finds its connection dead.
CloseServer ==
  /\ listening' = FALSE
  /\ link' = IF link = "open" THEN "reset" ELSE link
  /\ UNCHANGED <<sent, arrived, taken>>

-----------------------------------------------------------------------------
(* The client's calls. *)

\* connect() completes in the server's backlog, before any accept().
Connect == /\ listening /\ link = "none"
           /\ link' = "open"
           /\ UNCHANGED <<listening, sent, arrived, taken>>

\* What the kernel takes of a write; it blocks the writer while the peer has
\* not read what fills the window.
Push(n) == /\ link = "open" /\ sent + n - taken <= Window
           /\ sent' = sent + n
           /\ UNCHANGED <<listening, link, arrived, taken>>

CloseClient == /\ link' = IF link = "open" THEN "closed" ELSE link
               /\ UNCHANGED <<listening, sent, arrived, taken>>

-----------------------------------------------------------------------------
(* The network's own steps. *)

\* The next segment reaches the server: in order, never duplicated, of any
\* size from MinSegment up.
Arrive ==
  /\ link \in {"open", "closed"}
  /\ \E n \in 1..(sent - arrived) :
        /\ n >= Smaller(MinSegment, sent - arrived)
        /\ arrived' = arrived + n
  /\ NoFault
  /\ UNCHANGED <<listening, link, sent, taken>>

\* The connection breaks; what had not arrived never will.
Reset ==
  /\ Fault
  /\ link \in {"open", "closed"}
  /\ link' = "reset"
  /\ sent' = arrived
  /\ UNCHANGED <<listening, arrived, taken>>
=============================================================================
