------------------------------ MODULE Uplink -------------------------------
(***************************************************************************)
(* How a line of the base board becomes a report: USART3_IRQHandler        *)
(* collects it in USART3_RX_BUF and posts box_msg_ptr, dht11_task turns it *)
(* into _payload_out and posts BOX_TIMING_PTR, mqtt_thread publishes what  *)
(* the pointer leads to.                                                   *)
(*                                                                         *)
(* Both mailboxes carry a pointer to one static buffer, so a message is    *)
(* whatever the buffer holds when it is read.  Three contexts touch the    *)
(* buffers: the interrupt may run between any two steps of dht11_task, and *)
(* so may mqtt_thread (priority 11 against 14), whose own look at the      *)
(* payload dht11_task cannot interrupt.  A copy is two steps: the head     *)
(* (the header of the report and the first byte of the line), the rest.    *)
(***************************************************************************)
EXTENDS Naturals

CONSTANTS
  LineLen,     \* bytes of a line before CR LF
  RecLen,      \* USART3_REC_LEN
  MaxLines,    \* bound: lines the base board sends
  MaxLost,     \* bound: bytes lost on the serial line
  BoardBusy    \* the board does not wait for OSMboxCreate after its handshake

ASSUME ConstantsAssumption ==
  /\ LineLen \in Nat \ {0}
  /\ RecLen \in Nat /\ RecLen > LineLen
  /\ MaxLines \in Nat /\ MaxLost \in Nat /\ BoardBusy \in BOOLEAN

VARIABLES
  boot,        \* "handshake" (main.c 173), "net" (until l. 226), "running"
  events,      \* the lines that contain the word event
  line, next,  \* the board sends byte next of line
  lost,
  rxbuf, rxsta,  \* USART3_RX_BUF, USART3_RX_STA
  box,         \* box_msg_ptr holds a message
  timing,      \* BOX_TIMING_PTR holds a message
  payload,     \* _payload_out: its header and, behind it, a line
  mode,        \* 0, 1, or 3 after a switch command
  dht,         \* where dht11_task is
  posted       \* history: the text of the line box_msg_ptr was last posted for

serial == <<events, line, next, lost>>
rx     == <<rxbuf, rxsta>>
vars   == <<boot, serial, rx, box, timing, payload, mode, dht, posted>>

CR == LineLen + 1
LF == LineLen + 2

\* A byte: which line it belongs to, and where.  NUL ends a string.
Byte == [line : 0..MaxLines, part : 0..LF]
NUL  == [line |-> 0, part |-> 0]
Pos  == 0..(RecLen - 1)
Blank == [k \in Pos |-> NUL]

\* The string that starts at the beginning of a buffer.
Text(b) == [k \in Pos |-> IF \E j \in 0..k : b[j] = NUL THEN NUL ELSE b[k]]

\* strstr(ss,"event"): the word is in the first byte of the lines that have it.
HasEvent(b) == \E k \in Pos : Text(b)[k].part = 1 /\ Text(b)[k].line \in events

\* The fields of USART3_RX_STA: bits 13..0, bit 14, bit 15.
Receiving == [n |-> 0, cr |-> FALSE, done |-> FALSE]

Forms == {"none", "event", "working", "idle", "feedback"}
Steps == {"pend", "test", "copyHead", "copyRest", "reset", "gps",
          "mode1", "rest1", "mode0", "rest0", "mode3", "clear3", "rest3",
          "wipe", "post"}

TypeOK ==
  /\ boot \in {"handshake", "net", "running"}
  /\ events \subseteq 1..MaxLines
  /\ line \in 0..MaxLines /\ next \in 1..LF /\ lost \in 0..MaxLost
  /\ rxbuf \in [Pos -> Byte]
  /\ rxsta \in [n : Pos, cr : BOOLEAN, done : BOOLEAN]
  /\ box \in BOOLEAN /\ timing \in BOOLEAN
  /\ payload \in [form : Forms, text : [Pos -> Byte]]
  /\ mode \in {0, 1, 3}
  /\ dht \in Steps
  /\ posted \in [Pos -> Byte]
-----------------------------------------------------------------------------
(* The serial line and the interrupt.                                      *)

\* During the handshake the board answers what main() sends again and again; from
\* its answer on, it either waits for the box to come up or sends as it likes.
BoardSends ==
  /\ line < MaxLines \/ next > 1
  /\ next = 1 => BoardBusy \/ boot = "running" \/ (boot = "handshake" /\ ~rxsta.done)
  /\ line' = IF next = 1 THEN line + 1 ELSE line
  /\ next' = IF next = LF THEN 1 ELSE next + 1
  /\ UNCHANGED events

\* A byte is lost: EXTI9_5_IRQHandler keeps the USART3 interrupt waiting 10 ms.
LoseByte ==
  /\ BoardSends
  /\ lost < MaxLost /\ lost' = lost + 1
  /\ UNCHANGED <<boot, rx, box, timing, payload, mode, dht, posted>>

\* A line is complete and not yet handled: the byte is dropped.
IsrIgnore ==
  /\ BoardSends
  /\ rxsta.done
  /\ UNCHANGED <<boot, lost, rx, box, timing, payload, mode, dht, posted>>

\* CR and then no LF: start over.
IsrRestart ==
  /\ BoardSends
  /\ ~rxsta.done /\ rxsta.cr /\ next # LF
  /\ rxsta' = Receiving
  /\ UNCHANGED <<boot, lost, rxbuf, box, timing, payload, mode, dht, posted>>

\* OSMboxPost(box_msg_ptr): before OSMboxCreate there is no mailbox, and a full
\* one refuses; the line is complete either way.
IsrComplete ==
  /\ BoardSends
  /\ ~rxsta.done /\ rxsta.cr /\ next = LF
  /\ IF boot = "running" /\ ~box
       THEN box' = TRUE /\ posted' = Text(rxbuf)
       ELSE UNCHANGED <<box, posted>>
  /\ rxsta' = [rxsta EXCEPT !.done = TRUE]
  /\ UNCHANGED <<boot, lost, rxbuf, timing, payload, mode, dht>>

IsrReturn ==
  /\ BoardSends
  /\ ~rxsta.done /\ ~rxsta.cr /\ next = CR
  /\ rxsta' = [rxsta EXCEPT !.cr = TRUE]
  /\ UNCHANGED <<boot, lost, rxbuf, box, timing, payload, mode, dht, posted>>

\* Mutant: a line longer than the buffer is not started over.
IsrStoreUnbounded ==
  /\ BoardSends
  /\ ~rxsta.done /\ ~rxsta.cr /\ next # CR
  /\ rxbuf' = [rxbuf EXCEPT ![rxsta.n] = [line |-> line', part |-> next]]
  /\ rxsta' = [rxsta EXCEPT !.n = @ + 1]
  /\ UNCHANGED <<boot, lost, box, timing, payload, mode, dht, posted>>

IsrStore ==
  /\ BoardSends
  /\ ~rxsta.done /\ ~rxsta.cr /\ next # CR
  /\ rxbuf' = [rxbuf EXCEPT ![rxsta.n] = [line |-> line', part |-> next]]
  /\ rxsta' = [rxsta EXCEPT !.n = IF @ + 1 > RecLen - 1 THEN 0 ELSE @ + 1]
  /\ UNCHANGED <<boot, lost, box, timing, payload, mode, dht, posted>>

Isr == IsrIgnore \/ IsrRestart \/ IsrComplete \/ IsrReturn \/ IsrStore
-----------------------------------------------------------------------------
(* main() and start_task.                                                  *)

\* while(sonboardloadover==0): any completed line re-enables the receiver; the
\* line that says sonboard_ok ends the loop.  MaxLines counts from here.
Handshake(ok) ==
  /\ boot = "handshake" /\ rxsta.done
  /\ boot' = IF ok THEN "net" ELSE boot
  /\ rxsta' = Receiving
  /\ line' = 0
  /\ UNCHANGED <<events, next, lost, rxbuf, box, timing, payload, mode, dht, posted>>

\* lwIP, the DHCP client and 2.5 s later, start_task creates the mailboxes.
CreateMailboxes ==
  /\ boot = "net"
  /\ boot' = "running"
  /\ UNCHANGED <<serial, rx, box, timing, payload, mode, dht, posted>>
-----------------------------------------------------------------------------
(* dht11_task.                                                             *)

DhtFrame == UNCHANGED <<boot, serial, posted>>
Goto(step) == dht' = step

\* Mutant: the receiver is re-enabled as soon as the message is taken.
PendReenables ==
  /\ boot = "running" /\ dht = "pend" /\ box
  /\ box' = FALSE
  /\ rxsta' = Receiving
  /\ Goto("test")
  /\ UNCHANGED <<rxbuf, timing, payload, mode>> /\ DhtFrame

\* ss = OSMboxPend(box_msg_ptr)
Pend ==
  /\ boot = "running" /\ dht = "pend" /\ box
  /\ box' = FALSE
  /\ Goto("test")
  /\ UNCHANGED <<rx, timing, payload, mode>> /\ DhtFrame

\* Mutant: the receiver is re-enabled for an event, too, before it is copied.
TestReenables ==
  /\ dht = "test"
  /\ Goto(IF HasEvent(rxbuf) THEN "copyHead" ELSE "gps") /\ rxsta' = Receiving
  /\ UNCHANGED <<rxbuf, box, timing, payload, mode>> /\ DhtFrame

\* Mutant: the receiver is re-enabled for events only.
TestKeepsClosed ==
  /\ dht = "test"
  /\ Goto(IF HasEvent(rxbuf) THEN "copyHead" ELSE "gps")
  /\ UNCHANGED <<rx, box, timing, payload, mode>> /\ DhtFrame

\* strstr(ss,"event"); for any other line the receiver is re-enabled at once.
Test ==
  /\ dht = "test"
  /\ IF HasEvent(rxbuf)
       THEN Goto("copyHead") /\ UNCHANGED rxsta
       ELSE Goto("gps") /\ rxsta' = Receiving
  /\ UNCHANGED <<rxbuf, box, timing, payload, mode>> /\ DhtFrame

\* The head of a copy into _payload_out: the header and the first byte.
Head(form) == payload' = [form |-> form, text |-> [payload.text EXCEPT ![0] = rxbuf[0]]]

\* The rest of sprintf("...%s"): it ends with the string it reads.
Rest(form) ==
  payload' = [form |-> form,
              text |-> Text([k \in Pos |-> IF k = 0 THEN payload.text[0] ELSE rxbuf[k]])]

\* memcpy(_payload_out,ss,516)
CopyHead ==
  /\ dht = "copyHead"
  /\ Head("event") /\ Goto("copyRest")
  /\ UNCHANGED <<rx, box, timing, mode>> /\ DhtFrame

CopyRest ==
  /\ dht = "copyRest"
  /\ Rest("event") /\ Goto("reset")
  /\ UNCHANGED <<rx, box, timing, mode>> /\ DhtFrame

Reset ==
  /\ dht = "reset"
  /\ rxsta' = Receiving /\ Goto("wipe")
  /\ UNCHANGED <<rxbuf, box, timing, payload, mode>> /\ DhtFrame

\* Get_Gps until the position is usable.
GpsFix ==
  /\ dht = "gps"
  /\ Goto("mode1")
  /\ UNCHANGED <<rx, box, timing, payload, mode>> /\ DhtFrame

\* if(mode==m) sprintf(_payload_out,...,ss): three tests in a row.
Format(m, form, rest, otherwise) ==
  /\ dht = (IF m = 1 THEN "mode1" ELSE "mode0")
  /\ IF mode = m THEN Head(form) /\ Goto(rest)
     ELSE Goto(otherwise) /\ UNCHANGED payload
  /\ UNCHANGED <<rx, box, timing, mode>> /\ DhtFrame

FormatRest(step, form, then) ==
  /\ dht = step
  /\ Rest(form) /\ Goto(then)
  /\ UNCHANGED <<rx, box, timing, mode>> /\ DhtFrame

\* if(mode==3) and, a step later, mode = 0 and the feedback report.
TestSwitched ==
  /\ dht = "mode3"
  /\ Goto(IF mode = 3 THEN "clear3" ELSE "wipe")
  /\ UNCHANGED <<rx, box, timing, payload, mode>> /\ DhtFrame

ClearSwitched ==
  /\ dht = "clear3"
  /\ mode' = 0
  /\ Head("feedback") /\ Goto("rest3")
  /\ UNCHANGED <<rx, box, timing>> /\ DhtFrame

\* memset(USART3_RX_BUF,0,USART3_REC_LEN)
Wipe ==
  /\ dht = "wipe"
  /\ rxbuf' = Blank /\ Goto("post")
  /\ UNCHANGED <<rxsta, box, timing, payload, mode>> /\ DhtFrame

\* OSMboxPost(BOX_TIMING_PTR,_payload_out): a full mailbox already points there.
PostTiming ==
  /\ dht = "post"
  /\ timing' = TRUE /\ Goto("pend")
  /\ UNCHANGED <<rx, box, payload, mode>> /\ DhtFrame

Dht11Work ==
  \/ Pend \/ Test \/ CopyHead \/ CopyRest \/ Reset
  \/ Format(1, "working", "rest1", "mode0") \/ FormatRest("rest1", "working", "mode0")
  \/ Format(0, "idle", "rest0", "mode3") \/ FormatRest("rest0", "idle", "mode3")
  \/ TestSwitched \/ ClearSwitched \/ FormatRest("rest3", "feedback", "wipe")
  \/ Wipe \/ PostTiming

Dht11Task == Dht11Work \/ GpsFix
-----------------------------------------------------------------------------
(* mqtt_thread: OSMboxPend(BOX_TIMING_PTR,1) and the commands.             *)

Publish ==
  /\ timing
  /\ timing' = FALSE
  /\ UNCHANGED <<boot, serial, rx, box, payload, mode, dht, posted>>

Command(m) ==
  /\ boot = "running"
  /\ mode' = m
  /\ UNCHANGED <<boot, serial, rx, box, timing, payload, dht, posted>>
-----------------------------------------------------------------------------
Init ==
  /\ boot = "handshake"
  /\ events \in SUBSET (1..MaxLines)
  /\ line = 0 /\ next = 1 /\ lost = 0
  /\ rxbuf = Blank /\ rxsta = Receiving
  /\ box = FALSE /\ timing = FALSE
  /\ payload = [form |-> "none", text |-> Blank]
  /\ mode = 0 /\ dht = "pend" /\ posted = Blank

Next ==
  \/ Isr \/ LoseByte
  \/ \E ok \in BOOLEAN : Handshake(ok)
  \/ CreateMailboxes
  \/ Dht11Task
  \/ Publish
  \/ \E m \in {0, 1, 3} : Command(m)

Spec == Init /\ [][Next]_vars

\* The scheduler runs dht11_task when the higher tasks are blocked, the GPS
\* has a position sooner or later, and the board answers the handshake.
FairSpec ==
  /\ Spec
  /\ WF_vars(Dht11Work) /\ WF_vars(GpsFix)
  /\ WF_vars(Handshake(TRUE)) /\ WF_vars(CreateMailboxes)
-----------------------------------------------------------------------------
(* Properties.                                                             *)

Handling == {"test", "copyHead", "copyRest", "reset"}

\* In operation a completed line always has somebody who will re-enable the
\* receiver: it waits in box_msg_ptr, or dht11_task has it and has not yet
\* cleared USART3_RX_STA (main.c l. 297, 332).
CompleteIsHandled ==
  boot = "running" /\ rxsta.done => box \/ dht \in Handling

\* A message in box_msg_ptr holds the receiver closed: the line it points to is
\* not written over, and the next post never finds the mailbox full.
BoxClosesReceiver ==
  box \/ dht \in Handling => rxsta.done /\ ~(box /\ dht \in Handling)

\* The event branch copies the line that was posted, whole, whatever the board
\* sends and mqtt_thread does meanwhile: memcpy comes before USART3_RX_STA = 0.
EventCopied ==
  dht = "reset" => payload = [form |-> "event", text |-> posted]

\* The receiver is never closed for good: lines keep coming in.
ReceptionResumes == []<>(~rxsta.done)

\* "bit13~0: number of valid bytes received" (usart2.c l. 52): the bytes the
\* count covers are bytes of the board.
CountedBytesAreValid ==
  \A k \in Pos : k < rxsta.n => rxbuf[k] # NUL
=============================================================================
