-------------------------------- MODULE Boot --------------------------------
(***************************************************************************)
(* The start of the box: the tasks of main.c and of the TCP client wait at *)
(* a gate, OSTaskSuspend(OS_PRIO_SELF), until dhcpselct_task, which polls  *)
(* the outcome of Dhcp without a pause, resumes them.                      *)
(*                                                                         *)
(* A resume that comes before the suspend is lost, so that all depends on  *)
(* the priorities: uC/OS-II runs the ready task of the lowest number.      *)
(***************************************************************************)
EXTENDS Dhcp

Tasks == {"fan", "mqtt", "tcp_client", "dht11"}
Gated == Tasks \ {"dht11"}   \* dht11_task waits for its mailbox only

VARIABLES
  at,        \* of Tasks: "absent", "new", "suspended", "resumed", "past" (the gate)
  start,     \* start_task: "ready", "waits" (in OSStatInit), "woken", "gone"
  select,    \* dhcpselct_task: "absent", "polls", the task it resumes next, "done"
  httpd      \* httpd_init has run

bvars == <<at, start, select, httpd>>
vars == <<dvars, bvars>>

BootTypeOK ==
  /\ at \in [Tasks -> {"absent", "new", "suspended", "resumed", "past"}]
  /\ start \in {"ready", "waits", "woken", "gone"}
  /\ select \in {"absent", "polls", "done"} \cup Tasks
  /\ httpd \in BOOLEAN

TypeOK == DhcpTypeOK /\ BootTypeOK
-----------------------------------------------------------------------------
(* The scheduler.                                                          *)

\* Mutant: fan_task below dhcpselct_task.
Prio_fanlast == [start |-> 10, fan |-> 15, mqtt |-> 11, tcp_client |-> 12, dhcpselct |-> 13, dht11 |-> 14]

\* tcpip_thread has 5, lwip_dhcp_task 7.
Prio == [start |-> 10, fan |-> 8, mqtt |-> 11, tcp_client |-> 12, dhcpselct |-> 13, dht11 |-> 14]

DhcpReady == pc \notin {"absent", "delay", "gone"}

\* Behind its gate a task waits for something again and again.
Ready == {t \in Tasks : at[t] \in {"new", "resumed"}}
           \cup (IF start \in {"ready", "woken"} THEN {"start"} ELSE {})
           \cup (IF select \notin {"absent", "done"} THEN {"dhcpselct"} ELSE {})

Runs(t) == t \in Ready /\ ~ DhcpReady /\ \A u \in Ready : Prio[t] <= Prio[u]
-----------------------------------------------------------------------------
\* start_task measures the idle time first; then it creates the other tasks with
\* the interrupts off (its delay in there does not switch) and deletes itself.
StatInit ==
  /\ Runs("start") /\ start = "ready" /\ start' = "waits"
  /\ UNCHANGED <<dvars, at, select, httpd>>

StatDone ==
  /\ start = "waits" /\ start' = "woken"
  /\ UNCHANGED <<dvars, at, select, httpd>>

Create ==
  /\ Runs("start") /\ start = "woken" /\ start' = "gone"
  /\ at' = [t \in Tasks |-> IF at[t] = "absent" THEN "new" ELSE at[t]]
  /\ pc' = "start" /\ select' = "polls"
  /\ UNCHANGED <<client, netif, dhcpstatus, clash, httpd>>

\* A task comes to its gate.
Arrive(t) ==
  /\ Runs(t) /\ at[t] = "new"
  /\ at' = [at EXCEPT ![t] = IF t \in Gated THEN "suspended" ELSE "past"]
  /\ UNCHANGED <<dvars, start, select, httpd>>

Pass(t) ==
  /\ Runs(t) /\ at[t] = "resumed"
  /\ at' = [at EXCEPT ![t] = "past"]
  /\ UNCHANGED <<dvars, start, select, httpd>>

\* Mutant: any decision will do.
Select_any ==
  /\ Runs("dhcpselct") /\ select = "polls" /\ dhcpstatus # "none"
  /\ select' = "tcp_client" /\ UNCHANGED <<dvars, at, start, httpd>>

\* dhcpselct_task, a round of its loop.
Select ==
  /\ Runs("dhcpselct") /\ select = "polls"
  /\ \/ dhcpstatus = "failed" /\ httpd' = TRUE /\ select' = "done"
     \/ dhcpstatus = "ok" /\ select' = "tcp_client" /\ UNCHANGED httpd
  /\ UNCHANGED <<dvars, at, start>>

\* l. 361-366; OSTaskResume of a task that is not suspended does nothing.
After == [tcp_client |-> "mqtt", mqtt |-> "dht11", dht11 |-> "fan", fan |-> "done"]

Resume ==
  /\ Runs("dhcpselct") /\ select \in Tasks
  /\ at' = [at EXCEPT ![select] = IF @ = "suspended" THEN "resumed" ELSE @]
  /\ select' = After[select]
  /\ UNCHANGED <<dvars, start, httpd>>

Task == StatInit \/ Create \/ Select \/ Resume \/ \E t \in Tasks : Arrive(t) \/ Pass(t)
-----------------------------------------------------------------------------
Init ==
  /\ DhcpInit
  /\ at = [t \in Tasks |-> IF t = "tcp_client" THEN "new" ELSE "absent"]
  /\ start = "ready" /\ select = "absent" /\ httpd = FALSE

Network == (Client \/ DhcpTask \/ Wake) /\ UNCHANGED bvars

Next == Task \/ StatDone \/ Network

\* The processor does not stop, delays end, and what the client has sent is
\* repeated.
Spec ==
  /\ Init /\ [][Next]_vars
  /\ WF_vars(Task) /\ WF_vars(StatDone)
  /\ WF_vars(Timeout /\ UNCHANGED bvars)
  /\ WF_vars((DhcpTask \/ Wake) /\ UNCHANGED bvars)
-----------------------------------------------------------------------------
(* Properties.                                                             *)

\* A lease that lwip_dhcp_task reported stays: no answer that is late and no
\* timeout takes the address or the interface away before the client is stopped,
\* or after.
LeasedIsUsable == dhcpstatus = "ok" => ip = "leased" /\ up

\* No task of the application runs before the box has an address of DHCP.
PassedHasAddress ==
  \A t \in Gated : at[t] \in {"resumed", "past"} => dhcpstatus = "ok" /\ ip = "leased"

\* No resume is lost: with an address every task gets past its gate, without one
\* the web server starts, and then dht11_task, below dhcpselct_task, runs too.
EveryoneStarts ==
  /\ dhcpstatus = "ok" ~> \A t \in Tasks : at[t] = "past"
  /\ dhcpstatus = "failed" ~> httpd /\ at["dht11"] = "past"

\* When the servers refuse no more, the box decides; unless an offer that named no
\* server has stopped the retries for good.
Decides ==
  <>[][~ Refusal]_vars =>
    <>(dhcpstatus # "none" \/ (state = "SELECTING" /\ ~ timing /\ pc # "starting"))

\* "DHCP timed out, using the static IP address" (lwip_comm.c 225): the web server
\* is to be reached at it.  Nothing sets the interface up after this place.
FallbackIsUp == pc = "unbound" /\ tries > LWIP_MAX_DHCP_TRIES => up

\* The same, of the address: it is the static one from l. 222 on.
StaticIsKept == dhcpstatus = "failed" /\ pc \in {"stop", "stopping", "delete", "gone"} => ip = "static"

\* "This thread has exclusive access to lwIP core functions" (tcpip.c 64).
Exclusive == ~ clash
=============================================================================
