-------------------------------- MODULE Dhcp --------------------------------
(***************************************************************************)
(* How the box gets its address: the DHCP client of lwIP, which            *)
(* tcpip_thread runs, and lwip_dhcp_task, which starts it, polls it, falls *)
(* back to the static address and stops it.  The task calls dhcp_start and *)
(* dhcp_stop itself; tcpip_thread has the higher priority and may run      *)
(* between any two of its steps.                                           *)
(*                                                                         *)
(* The task stops the client as soon as there is an address, a quarter of  *)
(* a second after the lease at the latest, so renewing is not reached.  A  *)
(* request waits two seconds or more for its answer: the task polls before *)
(* the client sends it again.                                              *)
(***************************************************************************)
EXTENDS Naturals

CONSTANT LWIP_MAX_DHCP_TRIES

\* dhcp_timeout releases and starts anew after 6 requests; the task gives up before.
ASSUME DhcpAssumption == LWIP_MAX_DHCP_TRIES \in 2..4

VARIABLES
  state,        \* dhcp->state
  tries,        \* dhcp->tries
  timing,       \* dhcp->request_timeout is not 0
  unseen,       \* history: lwip_dhcp_task has not polled since the client last sent
  ip,           \* lwip_netif.ip_addr: "none", "leased", "static"
  up,           \* NETIF_FLAG_UP
  dhcpstatus,   \* lwipdev.dhcpstatus: 0 is "none", 2 "ok", 0xFF "failed"
  pc,           \* where lwip_dhcp_task is
  clash         \* history: tcpip_thread came between, in dhcp_start or dhcp_stop

client == <<state, tries, timing, unseen>>
netif == <<ip, up>>
dvars == <<client, netif, dhcpstatus, pc, clash>>

States == {"OFF", "SELECTING", "REQUESTING", "CHECKING", "BACKING_OFF", "BOUND"}

\* "absent": not created; "start", "starting" (the DISCOVER is sent); "poll" (at
\* l. 191), "unbound" (at l. 218: it has read no address), "fallback" (at l. 222),
\* "stop" (at l. 234), "stopping" (pcb removed), "delete", "gone"; "delay" (at l. 232).
Places == {"absent", "start", "starting", "poll", "unbound", "fallback", "stop",
           "stopping", "delete", "gone", "delay"}

DhcpTypeOK ==
  /\ state \in States /\ tries \in 0..(LWIP_MAX_DHCP_TRIES + 2)
  /\ timing \in BOOLEAN /\ unseen \in BOOLEAN
  /\ ip \in {"none", "leased", "static"} /\ up \in BOOLEAN
  /\ dhcpstatus \in {"none", "ok", "failed"}
  /\ pc \in Places /\ clash \in BOOLEAN
-----------------------------------------------------------------------------
(* The client.                                                             *)

\* Mutant: the tries of the state before are forgotten whatever the state.
Send_restart(s) == state' = s /\ tries' = 1 /\ timing' = TRUE /\ unseen' = TRUE

\* Mutant: they are never forgotten.
Send_endless(s) == state' = s /\ tries' = tries + 1 /\ timing' = TRUE /\ unseen' = TRUE

\* dhcp_set_state, then a message: the tries are those of one state.
Send(s) ==
  /\ state' = s /\ timing' = TRUE /\ unseen' = TRUE
  /\ tries' = (IF s = state THEN tries ELSE 0) + 1

\* netif_set_down, and no address.
Lose == ip' = "none" /\ up' = FALSE

\* Something of tcpip_thread happens to the client.
Touch == clash' = (clash \/ pc \in {"starting", "stopping"})

\* Mutant: a refusal is one in every state.
NakStates_all == States

NakStates == {"REQUESTING"}

Resend == [SELECTING |-> "SELECTING", BACKING_OFF |-> "SELECTING", REQUESTING |-> "REQUESTING"]

\* dhcp_timeout: the answer did not come, or (CHECKING) nobody has the address.
Timeout ==
  /\ timing
  /\ \/ /\ state \in DOMAIN Resend /\ ~ unseen
        /\ Send(Resend[state]) /\ UNCHANGED netif
     \/ state = "CHECKING" /\ tries <= 1 /\ Send("CHECKING") /\ UNCHANGED netif
     \/ /\ state = "CHECKING" /\ tries > 1
        /\ state' = "BOUND" /\ tries' = 0 /\ timing' = FALSE
        /\ ip' = "leased" /\ up' = TRUE /\ UNCHANGED unseen
  /\ Touch /\ UNCHANGED <<dhcpstatus, pc>>

\* dhcp_recv is called while the client has its pcb.
Listening == pc \notin {"absent", "start", "stopping", "delete", "gone"}

Offer ==
  /\ Listening /\ state = "SELECTING" /\ Send("REQUESTING")
  /\ Touch /\ UNCHANGED <<netif, dhcpstatus, pc>>

\* An offer that does not say from whom: the timer is off, nothing is sent.
OfferWithoutServer ==
  /\ Listening /\ state = "SELECTING"
  /\ timing' = FALSE
  /\ Touch /\ UNCHANGED <<state, tries, unseen, netif, dhcpstatus, pc>>

Ack ==
  /\ Listening /\ state = "REQUESTING" /\ Send("CHECKING")
  /\ Touch /\ UNCHANGED <<netif, dhcpstatus, pc>>

Nak ==
  /\ Listening /\ state \in NakStates
  /\ state' = "SELECTING" /\ tries' = 1 /\ timing' = TRUE /\ unseen' = TRUE
  /\ Lose
  /\ Touch /\ UNCHANGED <<dhcpstatus, pc>>

\* dhcp_arp_reply: somebody has the address that is checked.
ArpReply ==
  /\ state = "CHECKING" /\ Send("BACKING_OFF")
  /\ Touch /\ UNCHANGED <<netif, dhcpstatus, pc>>

Refusal == OfferWithoutServer \/ Nak \/ ArpReply
Client == Timeout \/ Offer \/ Ack \/ Refusal
-----------------------------------------------------------------------------
(* lwip_dhcp_task.                                                         *)

\* dhcp_start, up to the DISCOVER and from there to its end.
Start ==
  /\ pc = "start" /\ pc' = "starting"
  /\ state' = "SELECTING" /\ tries' = 0 /\ timing' = FALSE /\ unseen' = TRUE
  /\ UNCHANGED <<netif, dhcpstatus, clash>>

Started ==
  /\ pc = "starting" /\ pc' = "poll"
  /\ tries' = tries + 1 /\ timing' = TRUE /\ dhcpstatus' = "none"
  /\ UNCHANGED <<state, unseen, netif, clash>>

\* l. 192-217: there is an address, or there is none.
Poll ==
  /\ pc = "poll"
  /\ \/ ip # "none" /\ dhcpstatus' = "ok" /\ pc' = "stop"
     \/ ip = "none" /\ pc' = "unbound" /\ UNCHANGED dhcpstatus
  /\ unseen' = FALSE
  /\ UNCHANGED <<state, tries, timing, netif, clash>>

\* l. 218, 220: too many tries, or another round.
GiveUp ==
  /\ pc = "unbound"
  /\ \/ tries > LWIP_MAX_DHCP_TRIES /\ dhcpstatus' = "failed" /\ pc' = "fallback"
     \/ tries <= LWIP_MAX_DHCP_TRIES /\ pc' = "delay" /\ UNCHANGED dhcpstatus
  /\ UNCHANGED <<client, netif, clash>>

Fallback ==
  /\ pc = "fallback" /\ pc' = "stop"
  /\ ip' = "static"
  /\ UNCHANGED <<client, up, dhcpstatus, clash>>

\* dhcp_stop: the pcb goes first, then the state.
StopPcb ==
  /\ pc = "stop" /\ pc' = "stopping"
  /\ UNCHANGED <<client, netif, dhcpstatus, clash>>

Stop ==
  /\ pc = "stopping" /\ pc' = "delete"
  /\ state' = "OFF" /\ tries' = 0 /\ timing' = FALSE
  /\ UNCHANGED <<unseen, netif, dhcpstatus, clash>>

Delete ==
  /\ pc = "delete" /\ pc' = "gone"
  /\ UNCHANGED <<client, netif, dhcpstatus, clash>>

DhcpTask == Start \/ Started \/ Poll \/ GiveUp \/ Fallback \/ StopPcb \/ Stop \/ Delete

\* Its quarter of a second is over.
Wake ==
  /\ pc = "delay" /\ pc' = "poll"
  /\ UNCHANGED <<client, netif, dhcpstatus, clash>>

DhcpInit ==
  /\ state = "OFF" /\ tries = 0 /\ timing = FALSE /\ unseen = FALSE
  /\ ip = "none" /\ up = TRUE /\ dhcpstatus = "none"
  /\ pc = "absent" /\ clash = FALSE
=============================================================================
