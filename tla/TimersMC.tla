------------------------------ MODULE TimersMC ------------------------------
(* Two periodic timers and the TCP timer.  A tick is 5 ms, as in the code;   *)
(* the intervals are a few ticks.                                            *)
EXTENDS Timers

MCPeriodic == <<"arp", "dhcp_fine">>
MCInterval == [h \in Handlers |-> CASE h = "arp" -> 20 [] h = "dhcp_fine" -> 12 [] OTHER -> 10]
=============================================================================
