---------------------------- MODULE GpsReceiver ----------------------------
(***************************************************************************)
(* The GPS: USART2_IRQHandler, which collects sentences byte by byte and   *)
(* saves those of type RMC, and the wait for a position (main and          *)
(* dht11_task), which parses what was saved until there is a fix.  The     *)
(* interrupt is off between the waits, and runs between any two steps of   *)
(* one.                                                                    *)
(*                                                                         *)
(* An RMC sentence is '$', its type, time, status and the end of the line; *)
(* any other is '$', a type and the end.  A part stands for one or more    *)
(* characters; `now' tells the parts of the sentence the GPS is sending    *)
(* from those of earlier ones, and only the properties look at it.         *)
(***************************************************************************)
EXTENDS Naturals, Sequences

CONSTANTS
  USART2_REC_LEN,     \* parts that fit into the receive buffer
  GPS_Buffer_Length,  \* parts that fit into Save_Data.GPS_Buffer
  MaxLost             \* bound: parts lost in EXTI9_5_IRQHandler's 10 ms

ASSUME GpsAssumption ==
  /\ USART2_REC_LEN \in Nat /\ GPS_Buffer_Length \in 6..USART2_REC_LEN /\ MaxLost \in Nat

VARIABLES
  sentence, next,           \* the GPS: its sentence and the part it sends next
  enabled,                  \* USART_IT_RXNE
  USART2_RX_BUF, point1,    \* the parts received; the last is behind the buffer
  GPS_Buffer, isGetData, isUsefull,   \* Save_Data
  wait,                     \* the wait: "off", "test", "get", "time", "status", "clear", "disable"
  started,                  \* main's wait is over
  losses,                   \* bound: parts lost so far
  missed, saved             \* histories: see SavedIsWhole

receiver == <<USART2_RX_BUF, point1, GPS_Buffer, isGetData, missed, saved>>
gps == <<sentence, next>>
gpsvars == <<gps, enabled, receiver, isUsefull, wait, started, losses>>

Rmc(status) == <<"$", "GN", "MC", "time", status, "\n">>
Fix == Rmc("A")
NoFix == Rmc("V")
Other == <<"$", "GN", "GGA", "\n">>
Sentences == {Fix, NoFix, Other}
Words == {"$", "GN", "MC", "GGA", "time", "A", "V", "\n"}
Part(w) == [what |-> w, now |-> TRUE]
Sent(s) == [i \in 1..Len(s) |-> Part(s[i])]
Nothing == [what |-> "0", now |-> FALSE]
-----------------------------------------------------------------------------
(* The interrupt.                                                          *)

\* Mutant: '$' does not begin anew.
At_append(byte) == point1

At(byte) == IF byte.what = "$" THEN 0 ELSE point1

\* An RMC sentence is at its end.
Complete(byte, buf) == buf[0].what = "$" /\ buf[2].what = "MC" /\ byte.what = "\n"

\* memset leaves the part behind the buffer; memcpy goes on behind a GPS_Buffer
\* that is too short, into what follows it.
Save(buf, n) ==
  /\ GPS_Buffer' = [time |-> n > 4,
                    status |-> IF n > 5 /\ buf[4].what \in {"A", "V"} THEN buf[4].what ELSE "none"]
  /\ saved' = IF [i \in 1..n |-> buf[i - 1]] \in {Sent(Fix), Sent(NoFix)} THEN "frame"
              ELSE IF missed' THEN "cut" ELSE "mixed"
  /\ isGetData' = TRUE
  /\ USART2_RX_BUF' = [i \in DOMAIN buf |-> IF i < USART2_REC_LEN THEN Nothing ELSE buf[i]]
  /\ point1' = 0
  /\ isUsefull' \in IF n > GPS_Buffer_Length THEN BOOLEAN ELSE {isUsefull}

\* A full buffer keeps its count; the parts are stored behind it.
Store(buf, n) ==
  /\ USART2_RX_BUF' = buf /\ point1' = (IF n > USART2_REC_LEN THEN USART2_REC_LEN ELSE n)
  /\ UNCHANGED <<GPS_Buffer, isGetData, saved, isUsefull>>

\* Of what lies behind the part that is stored, only the third is read before it
\* is overwritten: the rest is left out.
USART2_IRQHandler(byte) ==
  LET buf == [i \in DOMAIN USART2_RX_BUF |->
                IF i = At(byte) THEN byte
                ELSE IF i < At(byte) \/ i = 2 THEN USART2_RX_BUF[i] ELSE Nothing]
      n == At(byte) + 1
  IN  /\ missed' = (missed /\ byte.what # "$")
      /\ IF Complete(byte, buf) THEN Save(buf, n) ELSE Store(buf, n)

Miss ==
  /\ missed' = TRUE
  /\ UNCHANGED <<USART2_RX_BUF, point1, GPS_Buffer, isGetData, saved, isUsefull>>

\* The GPS says something else when it has said a sentence.
Choose(s) ==
  /\ next > Len(sentence)
  /\ sentence' = s /\ next' = 1
  /\ USART2_RX_BUF' = [i \in DOMAIN USART2_RX_BUF |-> [USART2_RX_BUF[i] EXCEPT !.now = FALSE]]
  /\ UNCHANGED <<enabled, point1, GPS_Buffer, isGetData, missed, saved, isUsefull, wait,
                 started, losses>>

Byte ==
  /\ next <= Len(sentence) /\ next' = next + 1
  /\ \/ enabled /\ USART2_IRQHandler(Part(sentence[next])) /\ UNCHANGED losses
     \/ ~ enabled /\ Miss /\ UNCHANGED losses
     \/ enabled /\ losses < MaxLost /\ losses' = losses + 1 /\ Miss
  /\ UNCHANGED <<sentence, enabled, wait, started>>
-----------------------------------------------------------------------------
(* The wait.                                                               *)

\* Mutant: the interrupt stays off.
Enable_silent ==
  /\ wait = "off" /\ wait' = "test"
  /\ UNCHANGED <<gps, enabled, receiver, isUsefull, started, losses>>

Enable ==
  /\ wait = "off" /\ wait' = "test" /\ enabled' = TRUE
  /\ UNCHANGED <<gps, receiver, isUsefull, started, losses>>

\* while(Save_Data.isUsefull==0); main and dht11_task go on in different order.
Test ==
  /\ wait = "test"
  /\ wait' = IF ~ isUsefull THEN "get" ELSE IF started THEN "disable" ELSE "clear"
  /\ UNCHANGED <<gps, enabled, receiver, isUsefull, started, losses>>

\* Get_Gps, to the first comma.
Get ==
  /\ wait = "get" /\ wait' = IF isGetData THEN "time" ELSE "test"
  /\ isGetData' = FALSE
  /\ UNCHANGED <<gps, enabled, USART2_RX_BUF, point1, GPS_Buffer, missed, saved,
                 isUsefull, started, losses>>

\* i = 1: usefullBuffer is tested before it is written.
Time ==
  /\ wait = "time" /\ wait' = "status"
  /\ IF GPS_Buffer.time THEN isUsefull' \in BOOLEAN ELSE UNCHANGED isUsefull
  /\ UNCHANGED <<gps, enabled, receiver, started, losses>>

\* i = 2, and the date, up to i = 9.
Status ==
  /\ wait = "status" /\ wait' = "test"
  /\ isUsefull' = IF GPS_Buffer.status = "none" THEN isUsefull ELSE GPS_Buffer.status = "A"
  /\ UNCHANGED <<gps, enabled, receiver, started, losses>>

Disable ==
  /\ wait = "disable" /\ wait' = IF started THEN "clear" ELSE "off"
  /\ enabled' = FALSE /\ started' = TRUE
  /\ UNCHANGED <<gps, receiver, isUsefull, losses>>

Clear ==
  /\ wait = "clear" /\ wait' = IF started THEN "off" ELSE "disable"
  /\ isUsefull' = FALSE
  /\ UNCHANGED <<gps, enabled, receiver, started, losses>>

Waiting == Test \/ Get \/ Time \/ Status \/ Disable \/ Clear
-----------------------------------------------------------------------------
\* uart2_init may come in the middle of a sentence.
GpsInit ==
  /\ sentence \in Sentences /\ next \in 1..(Len(sentence) + 1)
  /\ enabled = TRUE
  /\ USART2_RX_BUF = [i \in 0..USART2_REC_LEN |-> Nothing] /\ point1 = 0
  /\ GPS_Buffer = [time |-> FALSE, status |-> "none"] /\ isGetData = FALSE /\ isUsefull = FALSE
  /\ wait = "test" /\ started = FALSE /\ losses = 0
  /\ missed = TRUE /\ saved = "frame"

GpsNext == Byte \/ (\E s \in Sentences : Choose(s)) \/ Enable \/ Waiting

GpsSpec ==
  /\ GpsInit /\ [][GpsNext]_gpsvars
  /\ WF_gpsvars(Byte) /\ SF_gpsvars(Choose(Fix)) /\ WF_gpsvars(Waiting)
-----------------------------------------------------------------------------
(* Properties.                                                             *)

GpsTypeOK ==
  /\ sentence \in Sentences /\ next \in 1..(Len(sentence) + 1)
  /\ USART2_RX_BUF \in [0..USART2_REC_LEN -> [what : Words \cup {"0"}, now : BOOLEAN]]
  /\ point1 \in 0..USART2_REC_LEN
  /\ GPS_Buffer \in [time : BOOLEAN, status : {"A", "V", "none"}]
  /\ enabled \in BOOLEAN /\ isGetData \in BOOLEAN /\ isUsefull \in BOOLEAN
  /\ started \in BOOLEAN /\ missed \in BOOLEAN
  /\ wait \in {"off", "test", "get", "time", "status", "clear", "disable"}
  /\ losses \in 0..MaxLost /\ saved \in {"frame", "cut", "mixed"}

\* What is saved is a sentence as the GPS sent it, unless a part of one passed by
\* since the last '$' was received: neither what an earlier sentence has left in
\* the buffer nor what is received while one is parsed gets into it.
SavedIsWhole == saved # "mixed"

\* "determine whether the frame GPRMC/GNRMC has been received" (commit.c 99): a
\* frame that is saved was sent.
OnlyFrames == saved = "frame"

\* Until a part is missed, the buffer holds the sentence as far as it was sent, or
\* (RMC) it was saved; before its '$' anything may be there.
Received ==
  /\ point1 = next - 1
  /\ \A i \in 1..(next - 1) : USART2_RX_BUF[i - 1] = Part(sentence[i])

RxInv == ~ missed => next = 1 \/ Received \/ next = Len(sentence) + 1

\* Every wait ends when the GPS has a fix and keeps it, whatever was in the buffers
\* when it began and whatever is lost.
WaitEnds ==
  <>[][~ Choose(NoFix)]_gpsvars => (wait = "test" ~> wait = "off")
=============================================================================
