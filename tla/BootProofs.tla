----------------------------- MODULE BootProofs -----------------------------
(***************************************************************************)
(* Boot proved for every number of tries and every order of answers,       *)
(* timeouts and tasks.                                                     *)
(*                                                                         *)
(* LeasedIsUsable holds because nothing leaves BOUND but dhcp_stop, and    *)
(* because an address that lwip_dhcp_task sees in its loop is never the    *)
(* static one; the tries are bounded because the task looks at them        *)
(* between any two repetitions of a request.                               *)
(***************************************************************************)
EXTENDS Boot, TLAPS

Stopping == {"stop", "stopping", "delete", "gone"}

\* How far the tries can be ahead of what lwip_dhcp_task let pass.
Slack == (IF unseen THEN 1 ELSE 0)
           + (IF pc \in {"absent", "start", "starting", "poll", "delay"} THEN 0 ELSE 1)

TriesInv ==
  /\ tries <= LWIP_MAX_DHCP_TRIES + Slack
  /\ pc = "starting" => unseen /\ tries <= 2

LeaseInv ==
  /\ pc \in {"absent", "start"} =>
       state = "OFF" /\ ~ timing /\ tries = 0 /\ ip = "none" /\ dhcpstatus = "none"
  /\ pc \in {"delete", "gone"} => state = "OFF" /\ ~ timing
  /\ ip = "leased" => up /\ (state = "BOUND" \/ pc \in {"delete", "gone"})
  /\ ip = "static" => dhcpstatus = "failed" /\ pc \in Stopping
  /\ dhcpstatus = "ok" => ip = "leased" /\ pc \in Stopping
  /\ dhcpstatus = "failed" => pc \in Stopping \cup {"fallback"}
  /\ pc = "fallback" => dhcpstatus = "failed"

GateInv ==
  /\ start # "gone" => pc = "absent"
  /\ select \in Tasks => dhcpstatus = "ok"
  /\ \A t \in Gated : at[t] \in {"resumed", "past"} => dhcpstatus = "ok"

DhcpInv == DhcpTypeOK /\ TriesInv /\ LeaseInv
IInv == DhcpInv /\ BootTypeOK /\ GateInv
-----------------------------------------------------------------------------
(* The client.                                                             *)

\* The tries, typed: their bound is that of the invariant.
LEMMA SlackType ==
  ASSUME DhcpTypeOK
  PROVE  /\ Slack \in 0..2 /\ (unseen => Slack >= 1)
         /\ LWIP_MAX_DHCP_TRIES \in Nat /\ LWIP_MAX_DHCP_TRIES >= 2
<1>1. LWIP_MAX_DHCP_TRIES \in Nat /\ LWIP_MAX_DHCP_TRIES >= 2
  BY DhcpAssumption
<1>2. Slack \in 0..2 /\ (unseen => Slack >= 1)
  BY DEF Slack
<1> QED
  BY <1>1, <1>2

\* What the bound leaves room for, whatever the slack.
LEMMA Enough ==
  ASSUME NEW n \in Nat, n <= LWIP_MAX_DHCP_TRIES, NEW slack \in Nat
  PROVE  n <= LWIP_MAX_DHCP_TRIES + slack
BY DhcpAssumption

\* No bound is below 2.
LEMMA Small ==
  ASSUME NEW n \in Nat, n <= 2, NEW slack \in Nat
  PROVE  n \in 0..(LWIP_MAX_DHCP_TRIES + 2) /\ n <= LWIP_MAX_DHCP_TRIES + slack
BY DhcpAssumption

\* A message: a repeated one only where lwip_dhcp_task polled since, or the second
\* of CHECKING.
LEMMA SendStep ==
  ASSUME DhcpInv, NEW s \in States \ {"BOUND"}, Send(s), UNCHANGED <<netif, dhcpstatus, pc>>,
         clash' \in BOOLEAN, state # "BOUND", pc \notin {"absent", "start", "delete", "gone"},
         s # state \/ ~ unseen \/ tries <= 1
  PROVE  DhcpInv'
<1> USE DEF DhcpInv
<1>1. /\ state' = s /\ timing' = TRUE /\ unseen' = TRUE /\ UNCHANGED <<ip, up, dhcpstatus, pc>>
      /\ tries' = (IF s = state THEN tries ELSE 0) + 1
  BY DEF Send, netif
<1>2. /\ Slack \in 0..2 /\ LWIP_MAX_DHCP_TRIES \in Nat /\ LWIP_MAX_DHCP_TRIES >= 2
      /\ tries \in Nat /\ tries <= LWIP_MAX_DHCP_TRIES + Slack
  <2>1. tries \in 0..(LWIP_MAX_DHCP_TRIES + 2) /\ tries <= LWIP_MAX_DHCP_TRIES + Slack
    BY DEF DhcpTypeOK, TriesInv
  <2> QED
    BY <2>1, SlackType
<1>3. Slack' \in Nat /\ Slack' <= 2
  BY <1>1 DEF Slack
<1>4. ASSUME ~ unseen PROVE Slack' = Slack + 1 /\ pc # "starting"
  BY <1>1, <1>4 DEF Slack, TriesInv
<1>5. /\ tries' \in 0..(LWIP_MAX_DHCP_TRIES + 2) /\ tries' <= LWIP_MAX_DHCP_TRIES + Slack'
      /\ pc = "starting" => tries' <= 2
  <2>1. CASE s = state /\ ~ unseen
    <3>1. Slack' = Slack + 1 /\ pc # "starting" /\ tries' = tries + 1
      BY <1>1, <1>4, <2>1
    <3> QED
      BY <1>2, <1>3, <3>1
  <2>2. CASE s # state
    <3>1. tries' = 1
      BY <1>1, <2>2
    <3>2. tries' \in Nat /\ tries' <= 2
      BY <3>1
    <3> QED
      BY <1>3, <3>2, Small
  <2>3. CASE s = state /\ tries <= 1
    <3>1. tries' = tries + 1
      BY <1>1, <2>3
    <3>2. tries' \in Nat /\ tries' <= 2
      BY <1>2, <2>3, <3>1
    <3> QED
      BY <1>3, <3>2, Small
  <2> QED
    BY <2>1, <2>2, <2>3
<1>6. DhcpTypeOK'
  BY <1>1, <1>5 DEF DhcpTypeOK
<1>7. TriesInv'
  BY <1>1, <1>5 DEF TriesInv
<1>8. LeaseInv'
  BY <1>1 DEF LeaseInv
<1> QED
  BY <1>6, <1>7, <1>8

\* No answer and no timeout takes a lease away, or comes after the client is
\* stopped (dhcp.c 401-457, 1536-1631).
LEMMA ClientStep ==
  ASSUME DhcpInv, Client
  PROVE  DhcpInv'
<1> USE DEF DhcpInv
<1>0. /\ UNCHANGED <<dhcpstatus, pc>> /\ clash' \in BOOLEAN
      /\ pc \notin {"absent", "start", "delete", "gone"}
  <2>1. UNCHANGED <<dhcpstatus, pc>> /\ clash' \in BOOLEAN
    BY DEF Client, Timeout, Refusal, Offer, OfferWithoutServer, Ack, Nak, ArpReply, Touch, DhcpTypeOK
  <2>2. timing \/ state = "CHECKING" \/ Listening
    BY DEF Client, Timeout, Refusal, Offer, OfferWithoutServer, Ack, Nak, ArpReply
  <2> QED
    BY <2>1, <2>2 DEF Listening, LeaseInv
<1>1. CASE Timeout
  <2>1. CASE /\ state \in DOMAIN Resend /\ ~ unseen
             /\ Send(Resend[state]) /\ UNCHANGED netif
    <3>1. state \in {"SELECTING", "BACKING_OFF", "REQUESTING"}
          /\ Resend[state] \in {"SELECTING", "REQUESTING"}
      BY <2>1 DEF Resend
    <3>2. Resend[state] \in States \ {"BOUND"} /\ state # "BOUND"
      BY <3>1 DEF States
    <3> QED
      BY <1>0, <2>1, <3>2, SendStep
  <2>2. CASE state = "CHECKING" /\ tries <= 1 /\ Send("CHECKING") /\ UNCHANGED netif
    <3>1. "CHECKING" \in States \ {"BOUND"} /\ state # "BOUND"
      BY <2>2 DEF States
    <3> QED
      BY <1>0, <2>2, <3>1, SendStep
  <2>3. CASE /\ state = "CHECKING" /\ tries > 1
             /\ state' = "BOUND" /\ tries' = 0 /\ timing' = FALSE
             /\ ip' = "leased" /\ up' = TRUE /\ UNCHANGED unseen
    <3>1. DhcpTypeOK'
      <4>1. tries' \in 0..(LWIP_MAX_DHCP_TRIES + 2)
        BY <2>3, DhcpAssumption
      <4> QED
        BY <1>0, <2>3, <4>1 DEF DhcpTypeOK, States
    <3>2. TriesInv'
      BY <1>0, <2>3, <3>1, SlackType DEF TriesInv, Slack
    <3>3. LeaseInv'
      BY <1>0, <2>3 DEF LeaseInv, Stopping
    <3> QED
      BY <3>1, <3>2, <3>3
  <2> QED
    BY <1>1, <2>1, <2>2, <2>3 DEF Timeout
<1>2. CASE Offer \/ Ack \/ ArpReply
  <2>1. PICK s \in {"REQUESTING", "CHECKING", "BACKING_OFF"} :
          Send(s) /\ s # state /\ state # "BOUND" /\ UNCHANGED <<netif, dhcpstatus, pc>>
    BY <1>2 DEF Offer, Ack, ArpReply
  <2>2. s \in States \ {"BOUND"}
    BY DEF States
  <2> QED
    BY <1>0, <2>1, <2>2, SendStep
<1>3. CASE OfferWithoutServer
  <2>1. timing' = FALSE /\ UNCHANGED <<state, tries, unseen, ip, up, dhcpstatus, pc>>
    BY <1>3 DEF OfferWithoutServer, netif
  <2> QED
    BY <1>0, <2>1 DEF DhcpTypeOK, TriesInv, Slack, LeaseInv
<1>4. CASE Nak
  <2>1. /\ state = "REQUESTING" /\ state' = "SELECTING" /\ tries' = 1 /\ timing' = TRUE
        /\ unseen' = TRUE /\ ip' = "none" /\ up' = FALSE
    BY <1>4 DEF Nak, NakStates, Lose
  <2>2. DhcpTypeOK'
    <3>1. tries' \in 0..(LWIP_MAX_DHCP_TRIES + 2)
      BY <2>1, DhcpAssumption
    <3> QED
      BY <1>0, <2>1, <3>1 DEF DhcpTypeOK, States
  <2>3. TriesInv'
    BY <1>0, <2>1, <2>2, DhcpAssumption, SlackType DEF TriesInv, Slack
  <2>4. LeaseInv'
    BY <1>0, <2>1 DEF LeaseInv
  <2> QED
    BY <2>2, <2>3, <2>4
<1> QED
  BY <1>1, <1>2, <1>3, <1>4 DEF Client, Refusal-----------------------------------------------------------------------------
(* lwip_dhcp_task.                                                         *)

\* It polls between any two repetitions, leaves its loop with a lease or with the
\* static address, and stops the client afterwards (lwip_comm.c 183-235).
LEMMA DhcpTaskStep ==
  ASSUME DhcpInv, DhcpTask \/ Wake
  PROVE  DhcpInv'
<1> USE DEF DhcpInv, client, netif
<1>0. /\ Slack \in 0..2 /\ LWIP_MAX_DHCP_TRIES \in Nat /\ LWIP_MAX_DHCP_TRIES >= 2
      /\ tries \in 0..(LWIP_MAX_DHCP_TRIES + 2) /\ tries <= LWIP_MAX_DHCP_TRIES + Slack
  BY SlackType DEF DhcpTypeOK, TriesInv
<1>1. CASE Start
  <2>1. DhcpTypeOK' /\ tries' = 0
    <3>1. tries' = 0 /\ 0 \in 0..(LWIP_MAX_DHCP_TRIES + 2)
      BY <1>0, <1>1 DEF Start
    <3> QED
      BY <1>1, <3>1 DEF Start, DhcpTypeOK, States, Places
  <2>2. TriesInv'
    <3>1. tries' <= LWIP_MAX_DHCP_TRIES + Slack'
      BY <2>1, SlackType, Small DEF Slack
    <3> QED
      BY <1>1, <2>1, <3>1 DEF Start, TriesInv
  <2>3. LeaseInv'
    BY <1>1 DEF Start, LeaseInv
  <2> QED
    BY <2>1, <2>2, <2>3
<1>2. CASE Started
  <2>1. unseen /\ tries <= 2 /\ tries' = tries + 1 /\ UNCHANGED unseen /\ pc' = "poll"
    BY <1>2 DEF Started, TriesInv
  <2>2. Slack' = 1
    BY <2>1 DEF Slack
  <2>3. tries' \in 0..(LWIP_MAX_DHCP_TRIES + 2) /\ tries' <= LWIP_MAX_DHCP_TRIES + 1
    BY <1>0, <2>1
  <2>4. DhcpTypeOK'
    BY <1>2, <2>3 DEF Started, DhcpTypeOK, Places
  <2>5. TriesInv'
    BY <2>1, <2>2, <2>3 DEF TriesInv
  <2>6. LeaseInv'
    BY <1>2 DEF Started, LeaseInv, Stopping
  <2> QED
    BY <2>4, <2>5, <2>6
<1>3. CASE Poll
  <2>1. /\ pc = "poll" /\ pc' \in {"stop", "unbound"} /\ unseen' = FALSE
        /\ UNCHANGED <<state, tries, timing, ip, up, clash>>
        /\ \/ ip # "none" /\ dhcpstatus' = "ok" /\ pc' = "stop"
           \/ dhcpstatus' = dhcpstatus
    BY <1>3 DEF Poll
  <2>2. Slack' = 1 /\ Slack \in {0, 1}
    BY <2>1 DEF Slack
  <2>3. tries' <= LWIP_MAX_DHCP_TRIES + Slack'
    BY <1>0, <2>1, <2>2
  <2>4. DhcpTypeOK'
    BY <2>1 DEF DhcpTypeOK, Places
  <2>5. TriesInv'
    BY <2>1, <2>3 DEF TriesInv
  <2>6. ip # "static" /\ dhcpstatus = "none"
    BY <2>1 DEF LeaseInv, Stopping, DhcpTypeOK
  <2>7. LeaseInv'
    BY <2>1, <2>6 DEF LeaseInv, Stopping, DhcpTypeOK
  <2> QED
    BY <2>4, <2>5, <2>7
<1>4. CASE GiveUp
  <2>1. /\ pc = "unbound" /\ UNCHANGED <<state, tries, timing, unseen, ip, up, clash>>
        /\ \/ dhcpstatus' = "failed" /\ pc' = "fallback"
           \/ tries <= LWIP_MAX_DHCP_TRIES /\ dhcpstatus' = dhcpstatus /\ pc' = "delay"
    BY <1>4 DEF GiveUp
  <2>2. tries' <= LWIP_MAX_DHCP_TRIES + Slack'
    <3>1. CASE pc' = "fallback"
      <4>1. Slack' = Slack
        BY <2>1, <3>1 DEF Slack
      <4> QED
        BY <1>0, <2>1, <4>1
    <3>2. CASE tries <= LWIP_MAX_DHCP_TRIES
      <4>1. Slack' \in Nat
        BY DEF Slack
      <4>2. tries' \in Nat /\ tries' <= LWIP_MAX_DHCP_TRIES
        BY <1>0, <2>1, <3>2
      <4> QED
        BY <4>1, <4>2, Enough
    <3> QED
      BY <2>1, <3>1, <3>2
  <2>3. DhcpTypeOK'
    BY <2>1 DEF DhcpTypeOK, Places
  <2>4. TriesInv'
    BY <2>1, <2>2 DEF TriesInv
  <2>5. LeaseInv'
    BY <2>1 DEF LeaseInv, Stopping
  <2> QED
    BY <2>3, <2>4, <2>5
<1>5. CASE Fallback \/ StopPcb \/ Delete \/ Wake
  <2>1. /\ UNCHANGED <<state, tries, timing, unseen, up, dhcpstatus, clash>>
        /\ \/ pc = "fallback" /\ pc' = "stop" /\ ip' = "static"
           \/ pc = "stop" /\ pc' = "stopping" /\ ip' = ip
           \/ pc = "delete" /\ pc' = "gone" /\ ip' = ip
           \/ pc = "delay" /\ pc' = "poll" /\ ip' = ip
    BY <1>5 DEF Fallback, StopPcb, Delete, Wake
  <2>2. Slack' = Slack
    BY <2>1 DEF Slack
  <2>3. tries' <= LWIP_MAX_DHCP_TRIES + Slack'
    BY <1>0, <2>1, <2>2
  <2>4. DhcpTypeOK'
    BY <2>1 DEF DhcpTypeOK, Places
  <2>5. TriesInv'
    BY <2>1, <2>3 DEF TriesInv
  <2>6. LeaseInv'
    BY <2>1 DEF LeaseInv, Stopping
  <2> QED
    BY <2>4, <2>5, <2>6
<1>6. CASE Stop
  <2>1. /\ pc = "stopping" /\ pc' = "delete" /\ UNCHANGED <<unseen, ip, up, dhcpstatus, clash>>
        /\ state' = "OFF" /\ tries' = 0 /\ timing' = FALSE
    BY <1>6 DEF Stop
  <2>2. tries' \in 0..(LWIP_MAX_DHCP_TRIES + 2)
    BY <1>0, <2>1
  <2>3. tries' <= LWIP_MAX_DHCP_TRIES + Slack'
    BY <2>1, Small DEF Slack
  <2>4. DhcpTypeOK'
    BY <2>1, <2>2 DEF DhcpTypeOK, States, Places
  <2>5. TriesInv'
    BY <2>1, <2>3 DEF TriesInv
  <2>6. LeaseInv'
    BY <2>1 DEF LeaseInv, Stopping
  <2> QED
    BY <2>4, <2>5, <2>6
<1> QED
  BY <1>1, <1>2, <1>3, <1>4, <1>5, <1>6 DEF DhcpTask

\* Once there is a lease to report, the report stays.
LEMMA ReportStays ==
  ASSUME DhcpInv, Client \/ DhcpTask \/ Wake, dhcpstatus = "ok"
  PROVE  dhcpstatus' = "ok"
<1>1. pc \in Stopping
  BY DEF DhcpInv, LeaseInv
<1>2. CASE Client
  BY <1>2 DEF Client, Timeout, Refusal, Offer, OfferWithoutServer, Ack, Nak, ArpReply
<1>3. CASE DhcpTask \/ Wake
  BY <1>1, <1>3 DEF DhcpTask, Wake, Start, Started, Poll, GiveUp, Fallback, StopPcb, Stop,
                    Delete, Stopping
<1> QED
  BY <1>2, <1>3
-----------------------------------------------------------------------------
(* The gates.                                                              *)

LEMMA InitIInv == Init => IInv
<1> SUFFICES ASSUME Init PROVE IInv
  OBVIOUS
<1> USE DEF Init, DhcpInit
<1>1. 0 \in 0..(LWIP_MAX_DHCP_TRIES + 2)
  BY DhcpAssumption
<1>2. DhcpTypeOK
  BY <1>1 DEF DhcpTypeOK, States, Places
<1>3. tries <= LWIP_MAX_DHCP_TRIES + Slack
  BY Small DEF Slack
<1>4. TriesInv /\ LeaseInv
  BY <1>3 DEF TriesInv, LeaseInv
<1>5. BootTypeOK /\ GateInv
  BY DEF BootTypeOK, GateInv, Tasks, Gated
<1> QED
  BY <1>2, <1>4, <1>5 DEF IInv, DhcpInv

\* A task is resumed only by dhcpselct_task, which starts to resume when there is a
\* lease (main.c 346-369).
LEMMA NextIInv == IInv /\ [Next]_vars => IInv'
<1> SUFFICES ASSUME IInv, [Next]_vars PROVE IInv'
  OBVIOUS
<1> USE DEF IInv
<1>1. ASSUME UNCHANGED <<state, tries, timing, unseen, ip, up, dhcpstatus, pc, clash>>
      PROVE  DhcpInv'
  BY <1>1 DEF DhcpInv, DhcpTypeOK, TriesInv, Slack, LeaseInv
<1>2. CASE UNCHANGED vars
  BY <1>1, <1>2 DEF vars, dvars, bvars, client, netif, BootTypeOK, GateInv
<1>3. CASE Network
  <2>1. DhcpInv' /\ UNCHANGED <<at, start, select, httpd>>
    BY <1>3, ClientStep, DhcpTaskStep DEF Network, bvars
  <2>2. dhcpstatus = "ok" => dhcpstatus' = "ok"
    BY <1>3, ReportStays DEF Network
  <2>3. pc = "absent" => pc' = "absent"
    <3>1. SUFFICES ASSUME pc = "absent" PROVE pc' = "absent"
      OBVIOUS
    <3>2. state = "OFF" /\ ~ timing
      BY <3>1 DEF DhcpInv, LeaseInv
    <3> QED
      BY <1>3, <3>1, <3>2
      DEF Network, Client, Timeout, Refusal, Offer, OfferWithoutServer, Ack, Nak, ArpReply,
          DhcpTask, Wake, Start, Started, Poll, GiveUp, Fallback, StopPcb, Stop, Delete
  <2> QED
    BY <2>1, <2>2, <2>3 DEF BootTypeOK, GateInv
<1>4. CASE StatInit \/ StatDone
  <2>1. UNCHANGED <<dvars, at, select, httpd>> /\ start # "gone" /\ start' \in {"waits", "woken"}
    BY <1>4 DEF StatInit, StatDone
  <2> QED
    BY <1>1, <2>1 DEF BootTypeOK, GateInv, dvars, client, netif
<1>5. CASE Create
  <2>1. /\ pc = "absent" /\ pc' = "start" /\ start' = "gone" /\ select' = "polls"
        /\ UNCHANGED <<state, tries, timing, unseen, ip, up, dhcpstatus, clash, httpd>>
        /\ at' = [t \in Tasks |-> IF at[t] = "absent" THEN "new" ELSE at[t]]
    BY <1>5 DEF Create, GateInv, client, netif
  <2>2. DhcpInv'
    <3>1. Slack' = Slack
      BY <2>1 DEF Slack
    <3> QED
      BY <2>1, <3>1 DEF DhcpInv, DhcpTypeOK, TriesInv, LeaseInv, Places, Stopping
  <2>3. BootTypeOK'
    BY <2>1 DEF BootTypeOK
  <2>4. \A t \in Gated : at'[t] \in {"resumed", "past"} => at[t] \in {"resumed", "past"}
    BY <2>1 DEF Gated
  <2>5. "polls" \notin Tasks
    BY DEF Tasks
  <2>6. GateInv'
    BY <2>1, <2>4, <2>5 DEF GateInv
  <2> QED
    BY <2>2, <2>3, <2>6
<1>6. ASSUME NEW t \in Tasks, Arrive(t) \/ Pass(t) PROVE IInv'
  <2>1. /\ UNCHANGED <<dvars, start, select, httpd>>
        /\ \/ at' = [at EXCEPT ![t] = IF t \in Gated THEN "suspended" ELSE "past"]
           \/ at[t] = "resumed" /\ at' = [at EXCEPT ![t] = "past"]
    BY <1>6 DEF Arrive, Pass
  <2>2. \A u \in Gated : at'[u] \in {"resumed", "past"} => at[u] \in {"resumed", "past"}
    BY <2>1 DEF BootTypeOK, Gated
  <2>3. BootTypeOK'
    BY <2>1 DEF BootTypeOK
  <2> QED
    BY <1>1, <2>1, <2>2, <2>3 DEF GateInv, dvars, client, netif
<1>7. CASE Select
  <2>1. /\ UNCHANGED <<dvars, at, start>>
        /\ \/ select' = "done" /\ httpd' = TRUE
           \/ dhcpstatus = "ok" /\ select' = "tcp_client" /\ UNCHANGED httpd
    BY <1>7 DEF Select
  <2>2. DhcpInv'
    BY <1>1, <2>1 DEF dvars, client, netif
  <2>3. "done" \notin Tasks /\ "tcp_client" \in Tasks
    BY DEF Tasks
  <2> QED
    BY <2>1, <2>2, <2>3 DEF BootTypeOK, GateInv, dvars
<1>8. CASE Resume
  <2>1. /\ UNCHANGED <<dvars, start, httpd>> /\ select \in Tasks
        /\ at' = [at EXCEPT ![select] = IF @ = "suspended" THEN "resumed" ELSE @]
        /\ select' = After[select]
    BY <1>8 DEF Resume
  <2>2. dhcpstatus = "ok" /\ dhcpstatus' = "ok"
    BY <2>1 DEF GateInv, dvars
  <2>3. select' \in Tasks \cup {"done"}
    BY <2>1 DEF After, Tasks
  <2>4. BootTypeOK'
    BY <2>1, <2>3 DEF BootTypeOK
  <2>5. pc' = pc
    BY <2>1 DEF dvars
  <2> QED
    BY <1>1, <2>1, <2>2, <2>4, <2>5 DEF GateInv, dvars, client, netif
<1> QED
  BY <1>2, <1>3, <1>4, <1>5, <1>6, <1>7, <1>8 DEF Next, Task

LEMMA Invariance == Spec => []IInv
BY InitIInv, NextIInv, PTL DEF Spec
-----------------------------------------------------------------------------
(* The theorems.                                                           *)

\* TypeOK, with it the bound of the tries: they fit their u8 (dhcp.c 401-457).
THEOREM TypeCorrect == Spec => []TypeOK
<1>1. IInv => TypeOK
  BY DEF IInv, DhcpInv, TypeOK
<1> QED
  BY <1>1, Invariance, PTL

\* LeasedIsUsable: a reported lease is never taken back (lwip_comm.c 191-217).
THEOREM LeaseIsKept == Spec => []LeasedIsUsable
<1>1. IInv => LeasedIsUsable
  BY DEF IInv, DhcpInv, LeaseInv, LeasedIsUsable
<1> QED
  BY <1>1, Invariance, PTL

\* PassedHasAddress: no task passes its gate without a leased address
\* (main.c 260-267, 346-398).
THEOREM NobodyStartsEarly == Spec => []PassedHasAddress
<1>1. IInv => PassedHasAddress
  BY DEF IInv, DhcpInv, LeaseInv, GateInv, PassedHasAddress
<1> QED
  BY <1>1, Invariance, PTL
=============================================================================
