------------------------------- MODULE Timers -------------------------------
(***************************************************************************)
(* The timers of lwIP on uC/OS-II: the list of timeouts of core/timers.c,  *)
(* which tcpip_thread serves while it waits for messages, and the wait     *)
(* itself, sys_arch_mbox_fetch of the port, which counts in ticks of the   *)
(* kernel and says in milliseconds how long it took.                       *)
(*                                                                         *)
(* An entry of the list holds the time from the entry before it to itself. *)
(* All of this runs in tcpip_thread, the task of the highest priority: a   *)
(* message that is posted while it waits is received in the same tick; its *)
(* own work takes time only while it handles a message (the frames of the  *)
(* Ethernet driver and the calls of the other tasks).                      *)
(***************************************************************************)
EXTENDS Integers, Sequences, FiniteSets

CONSTANTS
  Periodic,              \* what sys_timeouts_init starts, in its order
  tcpip_tcp_timer,       \* the handler that runs while there are connections
  Interval,              \* milliseconds: ARP_TMR_INTERVAL, TCP_TMR_INTERVAL, ...
  Tick,                  \* milliseconds of a tick: 1000 / OS_TICKS_PER_SEC
  WrappedWait,           \* (0xffffffff * 1000) % 2^32 / OS_TICKS_PER_SEC + 1
  MEMP_NUM_SYS_TIMEOUT,  \* entries there are
  MaxMessages            \* bound: messages that wait in the mailbox

Handlers == {Periodic[i] : i \in DOMAIN Periodic} \cup {tcpip_tcp_timer}

ASSUME ConstantsAssumption ==
  /\ Periodic \in Seq(Handlers)
  /\ \A i, j \in DOMAIN Periodic : Periodic[i] = Periodic[j] => i = j
  /\ \A i \in DOMAIN Periodic : Periodic[i] # tcpip_tcp_timer
  /\ Interval \in [Handlers -> Nat \ {0}]
  /\ Tick \in Nat \ {0} /\ MaxMessages \in Nat
  /\ WrappedWait \in Nat /\ \A h \in Handlers : WrappedWait > Interval[h]
  /\ MEMP_NUM_SYS_TIMEOUT \in Nat /\ MEMP_NUM_SYS_TIMEOUT > Len(Periodic)

VARIABLES
  next_timeout,            \* the list: of [h |-> handler, time |-> milliseconds]
  tcpip_tcp_timer_active,
  pcbs,        \* tcp_active_pcbs or tcp_tw_pcbs is not empty
  mbox,        \* messages that wait for tcpip_thread
  pc,          \* "init", "again", "wait", "expired", "msg"
  waiting,     \* sys_arch_mbox_fetch: ticks to wait at most, 0 is for ever
  waited,      \* ticks it has waited
  age          \* history: milliseconds since a handler was started or ran

vars == <<next_timeout, tcpip_tcp_timer_active, pcbs, mbox, pc, waiting, waited, age>>

TypeOK ==
  /\ next_timeout \in Seq([h : Handlers, time : Nat])
  /\ tcpip_tcp_timer_active \in BOOLEAN /\ pcbs \in BOOLEAN
  /\ mbox \in 0..MaxMessages
  /\ pc \in {"init", "again", "wait", "expired", "msg"}
  /\ waiting \in Nat /\ waited \in Nat
  /\ age \in [Handlers -> Nat]
-----------------------------------------------------------------------------
(* The list.                                                               *)

\* Milliseconds from now to the entry k.
Due(l) ==
  LET due[k \in 0..Len(l)] == IF k = 0 THEN 0 ELSE due[k - 1] + l[k].time
  IN  due

\* Mutant: the entry that is pushed back keeps its time.
sys_timeout_shifts(l, h, ms, m) ==
  IF Len(l) >= MEMP_NUM_SYS_TIMEOUT THEN m = l
  ELSE \E k \in 0..Len(l), rest \in 0..ms :
         /\ rest = ms - Due(l)[k]
         /\ k < Len(l) => l[k + 1].time > rest
         /\ m = SubSeq(l, 1, k) \o <<[h |-> h, time |-> rest]>> \o SubSeq(l, k + 1, Len(l))

\* sys_timeout turns l into m: the new entry goes behind the first k, the last
\* that are due with it or before it, with what is left of ms behind them, and
\* that is taken off the entry it pushes back.  Without a free entry, nothing.
sys_timeout(l, h, ms, m) ==
  IF Len(l) >= MEMP_NUM_SYS_TIMEOUT THEN m = l
  ELSE \E k \in 0..Len(l), rest \in 0..ms :
         /\ rest = ms - Due(l)[k]
         /\ k < Len(l) => l[k + 1].time > rest
         /\ m = SubSeq(l, 1, k) \o <<[h |-> h, time |-> rest]>>
                  \o [i \in 1..(Len(l) - k) |->
                        IF i = 1 THEN [l[k + 1] EXCEPT !.time = @ - rest]
                        ELSE l[k + i]]

Start(h, l) == sys_timeout(l, h, Interval[h], next_timeout')

\* Mutant: does not look whether it is on.
tcp_timer_restarted ==
  IF pcbs' THEN tcpip_tcp_timer_active' = TRUE /\ Start(tcpip_tcp_timer, next_timeout)
  ELSE UNCHANGED <<tcpip_tcp_timer_active, next_timeout>>

\* TCP_REG calls this: the timer is off but needed again.
tcp_timer_needed ==
  IF ~ tcpip_tcp_timer_active /\ pcbs'
    THEN tcpip_tcp_timer_active' = TRUE /\ Start(tcpip_tcp_timer, next_timeout)
    ELSE UNCHANGED <<tcpip_tcp_timer_active, next_timeout>>
-----------------------------------------------------------------------------
(* sys_arch_mbox_fetch.                                                    *)

\* How long to wait, in ticks, but one at least.
Ticks(ms) == IF ms < 2 * Tick THEN 1 ELSE ms \div Tick

\* Mutant: the millisecond is not added, and equal times are no time.
ReportedExactly(ticks) == ticks * Tick

\* What it says it waited.  Two equal times are taken for a wrapped counter.
Reported(ticks) == IF ticks > 0 THEN ticks * Tick + 1 ELSE WrappedWait

\* Mutant: the difference may wrap.
RestUnchecked(first, needed) == first - needed

\* What is left of the first timeout after a wait.
Rest(first, needed) == IF needed < first THEN first - needed ELSE 0
-----------------------------------------------------------------------------
(* tcpip_thread.                                                           *)

sys_timeouts_init ==
  /\ pc = "init"
  /\ IF Len(next_timeout) < Len(Periodic)
       THEN Start(Periodic[Len(next_timeout) + 1], next_timeout) /\ UNCHANGED pc
       ELSE pc' = "again" /\ UNCHANGED next_timeout
  /\ UNCHANGED <<tcpip_tcp_timer_active, pcbs, mbox, waiting, waited, age>>

Wait ==
  /\ pc = "again"
  /\ next_timeout # <<>> => Head(next_timeout).time > 0
  /\ waiting' = IF next_timeout = <<>> THEN 0 ELSE Ticks(Head(next_timeout).time)
  /\ waited' = 0 /\ pc' = "wait"
  /\ UNCHANGED <<next_timeout, tcpip_tcp_timer_active, pcbs, mbox, age>>

\* A message ends the wait; the first timeout is told how long it was.
Receive ==
  /\ pc = "wait" /\ mbox > 0
  /\ mbox' = mbox - 1 /\ pc' = "msg"
  /\ IF waiting = 0 THEN UNCHANGED next_timeout
     ELSE LET first == next_timeout[1].time
              needed == Reported(waited)
          IN  next_timeout' = [next_timeout EXCEPT ![1].time = Rest(first, needed)]
  /\ UNCHANGED <<tcpip_tcp_timer_active, pcbs, waiting, waited, age>>

\* The handler of the first timeout, because the wait is over or there is no
\* time left.  tcp_tmr may remove the last connection.
Fire ==
  /\ next_timeout # <<>>
  /\ pc = "expired" \/ (pc = "again" /\ Head(next_timeout).time = 0)
  /\ LET h == Head(next_timeout).h
     IN  /\ age' = [age EXCEPT ![h] = 0]
         /\ IF h = tcpip_tcp_timer
              THEN /\ pcbs' \in {pcbs, FALSE}
                   /\ tcpip_tcp_timer_active' = pcbs'
                   /\ IF pcbs' THEN Start(h, Tail(next_timeout))
                      ELSE next_timeout' = Tail(next_timeout)
              ELSE Start(h, Tail(next_timeout)) /\ UNCHANGED <<pcbs, tcpip_tcp_timer_active>>
  /\ pc' = "again"
  /\ UNCHANGED <<mbox, waiting, waited>>

\* A message is handled; it may open the first connection (tcp_connect) or
\* close the last.
HandleMsg ==
  /\ pc = "msg" /\ pc' = "again"
  /\ \/ UNCHANGED <<pcbs, tcpip_tcp_timer_active, next_timeout, age>>
     \/ /\ pcbs' = TRUE /\ tcp_timer_needed
        /\ age' = [age EXCEPT ![tcpip_tcp_timer] = IF tcpip_tcp_timer_active THEN @ ELSE 0]
     \/ pcbs' = FALSE /\ UNCHANGED <<tcpip_tcp_timer_active, next_timeout, age>>
  /\ UNCHANGED <<mbox, waiting, waited>>

\* An interrupt or another task posts.
Post ==
  /\ mbox < MaxMessages
  /\ mbox' = mbox + 1
  /\ UNCHANGED <<next_timeout, tcpip_tcp_timer_active, pcbs, pc, waiting, waited, age>>

\* A tick of the kernel.
Aged == [h \in Handlers |-> IF age[h] < Interval[h] THEN age[h] + Tick ELSE age[h]]

TimeTick ==
  /\ pc = "msg" \/ (pc = "wait" /\ mbox = 0)
  /\ age' = Aged
  /\ IF pc = "wait" /\ waiting > 0
       THEN /\ waited' = waited + 1
            /\ pc' = IF waited + 1 = waiting THEN "expired" ELSE "wait"
       ELSE UNCHANGED <<waited, pc>>
  /\ UNCHANGED <<next_timeout, tcpip_tcp_timer_active, pcbs, mbox, waiting>>
-----------------------------------------------------------------------------
Init ==
  /\ next_timeout = <<>> /\ tcpip_tcp_timer_active = FALSE /\ pcbs = FALSE
  /\ mbox = 0 /\ pc = "init" /\ waiting = 0 /\ waited = 0
  /\ age = [h \in Handlers |-> 0]

Thread == sys_timeouts_init \/ Wait \/ Receive \/ Fire \/ HandleMsg

Next == Thread \/ Post \/ TimeTick

\* The task of the highest priority runs, and the clock does not stand still,
\* however many messages come.
Spec == Init /\ [][Next]_vars /\ WF_vars(Thread) /\ SF_vars(TimeTick)
-----------------------------------------------------------------------------
(* Properties.                                                             *)

Listed(h) == {i \in DOMAIN next_timeout : next_timeout[i].h = h}

\* Every timer there should be is listed, and once: the periodic ones always,
\* and the TCP timer exactly while tcpip_tcp_timer_active says so, as it does as
\* long as there is a connection to retransmit for.
TimersAreListed ==
  pc # "init" =>
    /\ \A i \in DOMAIN Periodic : Cardinality(Listed(Periodic[i])) = 1
    /\ Cardinality(Listed(tcpip_tcp_timer)) = IF tcpip_tcp_timer_active THEN 1 ELSE 0
    /\ pcbs => tcpip_tcp_timer_active

\* The list is an alarm clock: its differences tell every timer's time.
Left ==
  [h \in {next_timeout[i].h : i \in DOMAIN next_timeout} |->
     Due(next_timeout)[CHOOSE i \in DOMAIN next_timeout : next_timeout[i].h = h]]

Clock == INSTANCE AlarmClock WITH
           Alarms <- Handlers, Durations <- {Interval[h] : h \in Handlers}, left <- Left

IsAlarmClock == Clock!Spec

\* No load keeps a periodic timer from running: retransmission, leases and the
\* ARP table go on in a storm of messages.
AllFire == \A i \in DOMAIN Periodic : []<>(age[Periodic[i]] = 0)

\* "time in milliseconds after that the timer should expire" (sys_timeout,
\* timers.c 258); the last tick may be the one that was running already.
NotEarly ==
  [][\A h \in Handlers : age'[h] = 0 /\ pc' = "again" /\ pc \in {"again", "expired"} =>
       age[h] = 0 \/ age[h] + Tick >= Interval[h]]_vars
=============================================================================
