---------------------------- MODULE PacketStream ----------------------------
(***************************************************************************)
(* What mqtt_thread may expect of MQTTPacket_read: the packets the broker  *)
(* sent, each once and in their order.                                     *)
(*                                                                         *)
(* PacketRead implements this.  A packet that came in pieces, or that does *)
(* not fit, may put the reader out of step; then it gives anything, until  *)
(* it happens to stop at the end of a packet.                              *)
(***************************************************************************)
EXTENDS Naturals, Sequences

CONSTANTS Packets,   \* what the broker sends
          Results,   \* anything a call may return
          Error,     \* no packet
          Fits(_)

VARIABLES sent,    \* the packets so far
          cut,     \* the numbers of those that came in pieces
          taken,   \* how many are behind the reader
          lost,    \* it is out of step
          got      \* what the last call returned

packets == <<sent, cut, taken, lost, got>>

Init == sent = <<>> /\ cut = {} /\ taken = 0 /\ lost = FALSE /\ got = Error

Send ==
  /\ \E p \in Packets : sent' = Append(sent, p)
  /\ UNCHANGED <<cut, taken, lost, got>>

Cut ==
  /\ \E i \in DOMAIN sent : cut' = cut \cup {i}
  /\ UNCHANGED <<sent, taken, lost, got>>

Take ==
  /\ ~ lost /\ taken < Len(sent)
  /\ got' = sent[taken + 1] /\ taken' = taken + 1
  /\ UNCHANGED <<sent, cut, lost>>

\* Nothing came in time.
Fail ==
  /\ ~ lost
  /\ got' = Error
  /\ UNCHANGED <<sent, cut, taken, lost>>

LoseStep ==
  /\ ~ lost /\ taken < Len(sent)
  /\ taken + 1 \in cut \/ ~ Fits(sent[taken + 1])
  /\ lost' = TRUE
  /\ got' \in Results
  /\ UNCHANGED <<sent, cut, taken>>

OutOfStep ==
  /\ lost
  /\ lost' \in BOOLEAN /\ taken' \in taken..Len(sent)
  /\ got' \in Results
  /\ UNCHANGED <<sent, cut>>

Next == Send \/ Cut \/ Take \/ Fail \/ LoseStep \/ OutOfStep

Spec == Init /\ [][Next]_packets
=============================================================================
