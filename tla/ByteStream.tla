----------------------------- MODULE ByteStream -----------------------------
(***************************************************************************)
(* What a reader may expect of one direction of a TCP connection: the      *)
(* bytes the peer sent, one after the other, and the end of the stream     *)
(* only behind the last of them.                                           *)
(*                                                                         *)
(* Netconn implements this.  When a connection is broken, the reader may   *)
(* take that for its end.  A lossy stream may leave out bytes, but even    *)
(* that one repeats and reorders none.                                     *)
(***************************************************************************)
EXTENDS Naturals

CONSTANT Total        \* the bytes the peer sends before it closes

VARIABLES acked,      \* bytes the stack has acknowledged to the peer
          position,   \* the byte that was read last
          ended,      \* the reader was told that the stream is at its end
          broken,     \* the connection was lost
          lossy       \* acknowledged bytes may be missing

stream == <<acked, position, ended, broken, lossy>>

Init ==
  /\ acked = 0 /\ position = 0
  /\ ended = FALSE /\ broken = FALSE /\ lossy \in BOOLEAN

\* Bytes that the peer will not send again.
Acknowledge ==
  /\ ~ broken
  /\ acked' \in acked..Total
  /\ UNCHANGED <<position, ended, broken, lossy>>

Read ==
  /\ position' \in (position + 1)..acked
  /\ ~ lossy => position' = position + 1
  /\ UNCHANGED <<acked, ended, broken, lossy>>

End ==
  /\ ~ (lossy \/ broken) => position = Total
  /\ ended' = TRUE
  /\ UNCHANGED <<acked, position, broken, lossy>>

Break ==
  /\ broken' = TRUE
  /\ UNCHANGED <<acked, position, ended, lossy>>

Next == Acknowledge \/ Read \/ End \/ Break

Spec == Init /\ [][Next]_stream
=============================================================================
