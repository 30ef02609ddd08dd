---------------------------- MODULE UplinkProofs ---------------------------
(***************************************************************************)
(* The path of a line through Uplink, proved for every length of line and  *)
(* buffer, every number of lines and every pattern of loss.                *)
(*                                                                         *)
(* EventCopied is not inductive: that the copy equals the posted line rests *)
(* on the receiver staying closed from the post to the copy, and on what   *)
(* the one writer beside the interrupt, memset, may have done to a line    *)
(* that waits in the mailbox: blanked it, and then it is no event any more. *)
(***************************************************************************)
EXTENDS Uplink, TLAPS

\* What a line that is posted or being handled still holds.
LineInv ==
  /\ boot # "running" => ~box /\ dht = "pend"
  /\ box \/ dht = "test" => Text(rxbuf) = posted \/ rxbuf = Blank
  /\ dht \in {"copyHead", "copyRest"} => Text(rxbuf) = posted
  /\ dht = "copyRest" => payload.text[0] = rxbuf[0]

\* A board that waits for the box sends nothing between the answer that ends the
\* handshake and OSMboxCreate.
BoardWaits ==
  /\ boot = "handshake" /\ rxsta.done => next = 1
  /\ boot = "net" => next = 1 /\ ~rxsta.done

IInv == TypeOK /\ BoxClosesReceiver /\ LineInv /\ EventCopied

WaitInv == IInv /\ BoardWaits /\ CompleteIsHandled
-----------------------------------------------------------------------------
(* The buffers.                                                            *)

LEMMA BufferTypes ==
  /\ 0 \in Pos /\ NUL \in Byte /\ Blank \in [Pos -> Byte]
  /\ \A b \in [Pos -> Byte] : Text(b) \in [Pos -> Byte]
<1>1. 0 \in Pos
  BY ConstantsAssumption DEF Pos
<1>2. NUL \in Byte
  BY ConstantsAssumption DEF NUL, Byte, LF
<1>3. Blank \in [Pos -> Byte]
  BY <1>2 DEF Blank
<1>4. ASSUME NEW b \in [Pos -> Byte] PROVE Text(b) \in [Pos -> Byte]
  BY <1>2 DEF Text
<1> QED
  BY <1>1, <1>2, <1>3, <1>4

\* memset leaves no event behind.
LEMMA BlankHasNoEvent == ~HasEvent(Blank)
<1>1. ASSUME NEW k \in Pos PROVE Text(Blank)[k] = NUL
  BY DEF Text, Blank
<1>2. NUL.part = 0
  BY DEF NUL
<1> QED
  BY <1>1, <1>2 DEF HasEvent

\* The byte the board sends.
LEMMA SentByte ==
  ASSUME TypeOK, BoardSends
  PROVE  /\ line' \in 0..MaxLines /\ next' \in 1..LF /\ events' = events
         /\ [line |-> line', part |-> next] \in Byte
<1>1. LF \in Nat /\ LF > 1 /\ MaxLines \in Nat
  BY ConstantsAssumption DEF LF
<1>2. line' \in 0..MaxLines
  BY <1>1 DEF TypeOK, BoardSends
<1>3. next' \in 1..LF /\ events' = events
  BY <1>1 DEF TypeOK, BoardSends
<1>4. next \in 0..LF
  BY <1>1 DEF TypeOK
<1> QED
  BY <1>2, <1>3, <1>4 DEF Byte

-----------------------------------------------------------------------------
(* TypeOK.                                                                 *)

LEMMA InitTypeOK == Init => TypeOK
<1> SUFFICES ASSUME Init PROVE TypeOK
  OBVIOUS
<1>1. events \subseteq 1..MaxLines /\ line \in 0..MaxLines /\ next \in 1..LF /\ lost \in 0..MaxLost
  BY ConstantsAssumption DEF Init, LF
<1>2. rxsta \in [n : Pos, cr : BOOLEAN, done : BOOLEAN]
  BY BufferTypes DEF Init, Receiving
<1>3. payload \in [form : Forms, text : [Pos -> Byte]]
  BY BufferTypes DEF Init, Forms
<1>4. rxbuf \in [Pos -> Byte] /\ posted \in [Pos -> Byte]
  BY BufferTypes DEF Init
<1> QED
  BY <1>1, <1>2, <1>3, <1>4 DEF Init, TypeOK, Steps

\* An interrupt that takes a byte keeps the buffer and the flags typed.
LEMMA IsrTypeOK ==
  ASSUME TypeOK, Isr \/ LoseByte
  PROVE  TypeOK'
<1>1. CASE LoseByte
  <2>1. lost' \in 0..MaxLost
    BY <1>1, ConstantsAssumption DEF LoseByte, TypeOK
  <2>2. line' \in 0..MaxLines /\ next' \in 1..LF /\ events' = events
    BY <1>1, SentByte DEF LoseByte
  <2> QED
    BY <1>1, <2>1, <2>2 DEF LoseByte, TypeOK, rx
<1>2. CASE IsrIgnore
  BY <1>2, SentByte DEF IsrIgnore, TypeOK, rx
<1>3. CASE IsrRestart
  <2>1. Receiving \in [n : Pos, cr : BOOLEAN, done : BOOLEAN]
    BY BufferTypes DEF Receiving
  <2> QED
    BY <1>3, <2>1, SentByte DEF IsrRestart, TypeOK
<1>4. CASE IsrComplete
  <2>1. rxsta' \in [n : Pos, cr : BOOLEAN, done : BOOLEAN]
    BY <1>4 DEF IsrComplete, TypeOK
  <2>2. box' \in BOOLEAN /\ posted' \in [Pos -> Byte]
    BY <1>4, BufferTypes DEF IsrComplete, TypeOK
  <2> QED
    BY <1>4, <2>1, <2>2, SentByte DEF IsrComplete, TypeOK
<1>5. CASE IsrReturn
  <2>1. rxsta' \in [n : Pos, cr : BOOLEAN, done : BOOLEAN]
    BY <1>5 DEF IsrReturn, TypeOK
  <2> QED
    BY <1>5, <2>1, SentByte DEF IsrReturn, TypeOK
<1>6. CASE IsrStore
  <2>1. rxsta.n \in Pos /\ rxsta.n + 1 \in Nat
    BY ConstantsAssumption DEF TypeOK, Pos
  <2>2. (IF rxsta.n + 1 > RecLen - 1 THEN 0 ELSE rxsta.n + 1) \in Pos
    BY <2>1, ConstantsAssumption DEF Pos
  <2>3. rxsta' \in [n : Pos, cr : BOOLEAN, done : BOOLEAN]
    BY <1>6, <2>2 DEF IsrStore, TypeOK
  <2>4. rxbuf' \in [Pos -> Byte]
    BY <1>6, <2>1, SentByte DEF IsrStore, TypeOK
  <2> QED
    BY <1>6, <2>3, <2>4, SentByte DEF IsrStore, TypeOK
<1> QED
  BY <1>1, <1>2, <1>3, <1>4, <1>5, <1>6 DEF Isr

LEMMA CopyTypes ==
  ASSUME TypeOK, NEW form \in Forms
  PROVE  /\ Head(form) => payload' \in [form : Forms, text : [Pos -> Byte]]
         /\ Rest(form) => payload' \in [form : Forms, text : [Pos -> Byte]]
<1>1. payload.text \in [Pos -> Byte] /\ rxbuf \in [Pos -> Byte]
  BY DEF TypeOK
<1>2. [payload.text EXCEPT ![0] = rxbuf[0]] \in [Pos -> Byte]
  BY <1>1, BufferTypes
<1>3. [k \in Pos |-> IF k = 0 THEN payload.text[0] ELSE rxbuf[k]] \in [Pos -> Byte]
  BY <1>1, BufferTypes
<1>4. Text([k \in Pos |-> IF k = 0 THEN payload.text[0] ELSE rxbuf[k]]) \in [Pos -> Byte]
  BY <1>3, BufferTypes
<1> QED
  BY <1>2, <1>4 DEF Head, Rest

LEMMA DhtTypeOK ==
  ASSUME TypeOK, Dht11Task
  PROVE  TypeOK'
<1> USE DEF DhtFrame, Goto, serial, rx
<1>0. Receiving \in [n : Pos, cr : BOOLEAN, done : BOOLEAN]
  BY BufferTypes DEF Receiving
<1>1. CASE Pend
  BY <1>1 DEF Pend, TypeOK, Steps
<1>2. CASE Test
  BY <1>2, <1>0 DEF Test, TypeOK, Steps
<1>3. CASE CopyHead
  BY <1>3, CopyTypes DEF CopyHead, TypeOK, Steps, Forms
<1>4. CASE CopyRest
  BY <1>4, CopyTypes DEF CopyRest, TypeOK, Steps, Forms
<1>5. CASE Reset
  BY <1>5, <1>0 DEF Reset, TypeOK, Steps
<1>6. CASE GpsFix
  BY <1>6 DEF GpsFix, TypeOK, Steps
<1>7. ASSUME NEW m, NEW form \in Forms, NEW rest \in Steps, NEW otherwise \in Steps,
             Format(m, form, rest, otherwise)
      PROVE  TypeOK'
  BY <1>7, CopyTypes DEF Format, TypeOK
<1>8. ASSUME NEW step, NEW form \in Forms, NEW then \in Steps, FormatRest(step, form, then)
      PROVE  TypeOK'
  BY <1>8, CopyTypes DEF FormatRest, TypeOK
<1>9. CASE TestSwitched
  BY <1>9 DEF TestSwitched, TypeOK, Steps
<1>10. CASE ClearSwitched
  BY <1>10, CopyTypes DEF ClearSwitched, TypeOK, Steps, Forms
<1>11. CASE Wipe
  BY <1>11, BufferTypes DEF Wipe, TypeOK, Steps
<1>12. CASE PostTiming
  BY <1>12 DEF PostTiming, TypeOK, Steps
<1> QED
  BY <1>1, <1>2, <1>3, <1>4, <1>5, <1>6, <1>7, <1>8, <1>9, <1>10, <1>11, <1>12
     DEF Dht11Task, Dht11Work, Steps, Forms

LEMMA StepTypeOK == TypeOK /\ [Next]_vars => TypeOK'
<1> SUFFICES ASSUME TypeOK, [Next]_vars PROVE TypeOK'
  OBVIOUS
<1>1. CASE Isr \/ LoseByte
  BY <1>1, IsrTypeOK
<1>2. ASSUME NEW ok \in BOOLEAN, Handshake(ok) PROVE TypeOK'
  <2>1. Receiving \in [n : Pos, cr : BOOLEAN, done : BOOLEAN]
    BY BufferTypes DEF Receiving
  <2>2. line' \in 0..MaxLines
    BY <1>2, ConstantsAssumption DEF Handshake
  <2> QED
    BY <1>2, <2>1, <2>2 DEF Handshake, TypeOK
<1>3. CASE CreateMailboxes
  BY <1>3 DEF CreateMailboxes, TypeOK, serial, rx
<1>4. CASE Dht11Task
  BY <1>4, DhtTypeOK
<1>5. CASE Publish
  BY <1>5 DEF Publish, TypeOK, serial, rx
<1>6. ASSUME NEW m \in {0, 1, 3}, Command(m) PROVE TypeOK'
  BY <1>6 DEF Command, TypeOK, serial, rx
<1>7. CASE UNCHANGED vars
  BY <1>7 DEF vars, serial, rx, TypeOK
<1> QED
  BY <1>1, <1>2, <1>3, <1>4, <1>5, <1>6, <1>7 DEF Next

\* Every byte goes into the buffer: the count stays below USART3_REC_LEN whatever
\* the length of a line and wherever bytes are lost (usart2.c l. 182-187).
THEOREM TypeCorrect == Spec => []TypeOK
  BY InitTypeOK, StepTypeOK, PTL DEF Spec
-----------------------------------------------------------------------------
(* The receiver, the mailbox and the copy.                                 *)

LEMMA InitIInv == Init => IInv
<1> SUFFICES ASSUME Init PROVE IInv
  OBVIOUS
<1>1. TypeOK
  BY InitTypeOK
<1>2. ~box /\ dht = "pend" /\ rxbuf = Blank
  BY DEF Init
<1> QED
  BY <1>1, <1>2 DEF IInv, BoxClosesReceiver, LineInv, EventCopied, Handling

\* While the receiver is closed the interrupt touches nothing; when it is open,
\* nobody looks at the line.
LEMMA IsrIInv ==
  ASSUME IInv, Isr \/ LoseByte
  PROVE  IInv'
<1>1. TypeOK'
  BY IsrTypeOK DEF IInv
<1>2. CASE LoseByte \/ IsrIgnore
  <2>1. UNCHANGED <<boot, rxbuf, rxsta, box, payload, dht, posted>>
    BY <1>2 DEF LoseByte, IsrIgnore, rx
  <2> QED
    BY <1>1, <2>1 DEF IInv, BoxClosesReceiver, LineInv, EventCopied, Text
<1>3. CASE IsrRestart \/ IsrReturn \/ IsrStore
  <2>1. ~rxsta.done
    BY <1>3 DEF IsrRestart, IsrReturn, IsrStore
  <2>2. ~box /\ dht \notin Handling
    BY <2>1 DEF IInv, BoxClosesReceiver
  <2>3. UNCHANGED <<boot, box, payload, dht, posted>>
    BY <1>3 DEF IsrRestart, IsrReturn, IsrStore
  <2> QED
    BY <1>1, <2>2, <2>3 DEF IInv, BoxClosesReceiver, LineInv, EventCopied, Handling
<1>4. CASE IsrComplete
  <2>1. ~rxsta.done
    BY <1>4 DEF IsrComplete
  <2>2. ~box /\ dht \notin Handling
    BY <2>1 DEF IInv, BoxClosesReceiver
  <2>3. UNCHANGED <<boot, rxbuf, payload, dht>>
    BY <1>4 DEF IsrComplete
  <2>4. rxsta'.done
    BY <1>4 DEF IsrComplete, IInv, TypeOK
  <2>5. box' => boot = "running" /\ posted' = Text(rxbuf)
    BY <1>4, <2>2 DEF IsrComplete
  <2>6. Text(rxbuf)' = Text(rxbuf)
    BY <2>3 DEF Text
  <2> QED
    BY <1>1, <2>2, <2>3, <2>4, <2>5, <2>6
       DEF IInv, BoxClosesReceiver, LineInv, EventCopied, Handling
<1> QED
  BY <1>2, <1>3, <1>4 DEF Isr

\* A line that still has its event is the posted one, and its copy is complete.
LEMMA DhtIInv ==
  ASSUME IInv, Dht11Task
  PROVE  IInv'
<1>1. TypeOK'
  BY DhtTypeOK DEF IInv
<1>2. boot' = boot /\ posted' = posted
  BY DEF Dht11Task, Dht11Work, Pend, Test, CopyHead, CopyRest, Reset, GpsFix, Format,
         FormatRest, TestSwitched, ClearSwitched, Wipe, PostTiming, DhtFrame
<1>3. CASE Pend
  <2>1. boot = "running" /\ box /\ dht = "pend" /\ ~box' /\ dht' = "test"
    BY <1>3 DEF Pend, Goto
  <2>2. UNCHANGED <<rxbuf, rxsta, payload>>
    BY <1>3 DEF Pend, rx
  <2>3. Text(rxbuf)' = Text(rxbuf)
    BY <2>2 DEF Text
  <2> QED
    BY <1>1, <1>2, <2>1, <2>2, <2>3
       DEF IInv, BoxClosesReceiver, LineInv, EventCopied, Handling
<1>4. CASE Test
  <2>1. dht = "test" /\ box' = box /\ rxbuf' = rxbuf /\ payload' = payload
    BY <1>4 DEF Test
  <2>2. Text(rxbuf)' = Text(rxbuf) /\ boot = "running" /\ ~box
    BY <2>1 DEF Text, IInv, LineInv, BoxClosesReceiver, Handling
  <2>3. CASE HasEvent(rxbuf)
    <3>1. dht' = "copyHead" /\ rxsta' = rxsta
      BY <1>4, <2>3 DEF Test, Goto
    <3>2. Text(rxbuf) = posted
      BY <2>1, <2>3, BlankHasNoEvent DEF IInv, LineInv
    <3> QED
      BY <1>1, <1>2, <2>1, <2>2, <3>1, <3>2
         DEF IInv, BoxClosesReceiver, LineInv, EventCopied, Handling
  <2>4. CASE ~HasEvent(rxbuf)
    <3>1. dht' = "gps"
      BY <1>4, <2>4 DEF Test, Goto
    <3> QED
      BY <1>1, <1>2, <2>1, <2>2, <3>1
         DEF IInv, BoxClosesReceiver, LineInv, EventCopied, Handling
  <2> QED
    BY <2>3, <2>4
<1>5. CASE CopyHead
  <2>1. dht = "copyHead" /\ dht' = "copyRest" /\ UNCHANGED <<rxbuf, rxsta, box>>
    BY <1>5 DEF CopyHead, Goto, rx
  <2>2. payload'.text[0] = rxbuf[0]
    <3>1. payload' = [form |-> "event", text |-> [payload.text EXCEPT ![0] = rxbuf[0]]]
      BY <1>5 DEF CopyHead, Head
    <3> QED
      BY <3>1, BufferTypes DEF IInv, TypeOK
  <2>3. Text(rxbuf)' = Text(rxbuf)
    BY <2>1 DEF Text
  <2> QED
    BY <1>1, <1>2, <2>1, <2>2, <2>3
       DEF IInv, BoxClosesReceiver, LineInv, EventCopied, Handling
<1>6. CASE CopyRest
  <2>1. dht = "copyRest" /\ dht' = "reset" /\ UNCHANGED <<rxbuf, rxsta, box>>
    BY <1>6 DEF CopyRest, Goto, rx
  <2>2. [k \in Pos |-> IF k = 0 THEN payload.text[0] ELSE rxbuf[k]] = rxbuf
    BY <2>1 DEF IInv, LineInv, TypeOK
  <2>3. payload' = [form |-> "event", text |-> Text(rxbuf)]
    BY <1>6, <2>2 DEF CopyRest, Rest
  <2>4. Text(rxbuf) = posted
    BY <2>1 DEF IInv, LineInv
  <2> QED
    BY <1>1, <1>2, <2>1, <2>3, <2>4
       DEF IInv, BoxClosesReceiver, LineInv, EventCopied, Handling
<1>7. CASE Reset
  <2>1. dht = "reset" /\ dht' = "wipe" /\ UNCHANGED <<rxbuf, box>>
    BY <1>7 DEF Reset, Goto
  <2>2. ~box /\ boot = "running"
    BY <2>1 DEF IInv, BoxClosesReceiver, LineInv, Handling
  <2> QED
    BY <1>1, <1>2, <2>1, <2>2
       DEF IInv, BoxClosesReceiver, LineInv, EventCopied, Handling
<1>8. CASE Wipe
  <2>1. dht = "wipe" /\ dht' = "post" /\ rxbuf' = Blank /\ UNCHANGED <<rxsta, box>>
    BY <1>8 DEF Wipe, Goto
  <2>2. Blank' = Blank
    BY DEF Blank, NUL, Pos
  <2> QED
    BY <1>1, <1>2, <2>1, <2>2
       DEF IInv, BoxClosesReceiver, LineInv, EventCopied, Handling
<1>9. ASSUME dht \notin Handling \cup {"pend"}, dht' \notin Handling,
             UNCHANGED <<rxbuf, rxsta, box>>
      PROVE  IInv'
  <2>1. Text(rxbuf)' = Text(rxbuf)
    BY <1>9 DEF Text
  <2>2. boot = "running"
    BY <1>9 DEF IInv, LineInv
  <2>3. UNCHANGED <<rxbuf, rxsta, box>> /\ dht' \notin {"test", "copyHead", "copyRest", "reset"}
    BY <1>9 DEF Handling
  <2>4. Blank' = Blank
    BY DEF Blank, NUL, Pos
  <2> QED
    BY <1>1, <1>2, <2>1, <2>2, <2>3, <2>4
       DEF IInv, BoxClosesReceiver, LineInv, EventCopied, Handling
<1>10. ASSUME ~(Pend \/ Test \/ CopyHead \/ CopyRest \/ Reset \/ Wipe)
       PROVE  /\ dht \notin Handling \cup {"pend"} /\ dht' \notin Handling
              /\ UNCHANGED <<rxbuf, rxsta, box>>
  BY <1>10 DEF Dht11Task, Dht11Work, GpsFix, Format, FormatRest, TestSwitched,
               ClearSwitched, PostTiming, Goto, Handling, rx
<1> QED
  BY <1>3, <1>4, <1>5, <1>6, <1>7, <1>8, <1>9, <1>10

LEMMA StepIInv == IInv /\ [Next]_vars => IInv'
<1> SUFFICES ASSUME IInv, [Next]_vars PROVE IInv'
  OBVIOUS
<1>1. TypeOK'
  BY StepTypeOK DEF IInv
<1>2. ASSUME NEW ok \in BOOLEAN, Handshake(ok) PROVE IInv'
  <2>1. boot = "handshake" /\ UNCHANGED <<rxbuf, box, payload, dht, posted>>
    BY <1>2 DEF Handshake
  <2>2. ~box /\ dht = "pend"
    BY <2>1 DEF IInv, LineInv
  <2> QED
    BY <1>1, <2>1, <2>2 DEF IInv, BoxClosesReceiver, LineInv, EventCopied, Handling
<1>3. ASSUME CreateMailboxes \/ Publish \/ (\E m \in {0, 1, 3} : Command(m)) \/ UNCHANGED vars
      PROVE  IInv'
  <2>1. UNCHANGED <<rxbuf, rxsta, box, payload, dht, posted>>
    BY <1>3 DEF CreateMailboxes, Publish, Command, vars, rx
  <2>2. boot' = boot \/ boot' = "running"
    BY <1>3 DEF CreateMailboxes, Publish, Command, vars
  <2>3. Text(rxbuf)' = Text(rxbuf)
    BY <2>1 DEF Text
  <2>4. Blank' = Blank
    BY DEF Blank, NUL, Pos
  <2> QED
    BY <1>1, <2>1, <2>2, <2>3, <2>4
       DEF IInv, BoxClosesReceiver, LineInv, EventCopied, Handling
<1> QED
  BY <1>2, <1>3, IsrIInv, DhtIInv DEF Next

\* A line in box_msg_ptr or in the hands of dht11_task keeps USART3_RX_STA's bit 15
\* set (usart2.c l. 168), so nothing writes over it, and the next post never meets a
\* full mailbox.
THEOREM ReceiverClosed == Spec => []BoxClosesReceiver
<1>1. IInv => BoxClosesReceiver
  BY DEF IInv
<1> QED
  BY <1>1, InitIInv, StepIInv, PTL DEF Spec

\* What the event branch leaves in _payload_out is the posted line, whole
\* (main.c l. 330-332), whatever the board sends and the tasks do meanwhile.
THEOREM EventIntact == Spec => []EventCopied
<1>1. IInv => EventCopied
  BY DEF IInv
<1> QED
  BY <1>1, InitIInv, StepIInv, PTL DEF Spec
-----------------------------------------------------------------------------
(* A board that waits: no completed line is left without somebody to take it. *)

LEMMA StepWaits ==
  ASSUME ~BoardBusy, WaitInv, [Next]_vars
  PROVE  BoardWaits' /\ CompleteIsHandled'
<1>0. TypeOK /\ BoardWaits /\ CompleteIsHandled /\ LineInv
  BY DEF WaitInv, IInv
<1>1. LF \in Nat /\ LF > 1
  BY ConstantsAssumption DEF LF
<1>2. ASSUME Isr \/ LoseByte PROVE BoardWaits' /\ CompleteIsHandled'
  <2>1. BoardSends /\ boot' = boot /\ dht' = dht
    BY <1>2 DEF Isr, LoseByte, IsrIgnore, IsrRestart, IsrComplete, IsrReturn, IsrStore
  <2>2. boot # "net"
    BY <1>0, <2>1 DEF BoardSends, BoardWaits
  <2>3. CASE LoseByte \/ IsrIgnore
    <3>1. rxsta' = rxsta /\ box' = box
      BY <2>3 DEF LoseByte, IsrIgnore, rx
    <3>2. boot = "handshake" => ~rxsta.done
      BY <1>0, <2>1 DEF BoardSends, BoardWaits
    <3> QED
      BY <1>0, <2>1, <2>2, <3>1, <3>2 DEF BoardWaits, CompleteIsHandled, Handling
  <2>4. CASE IsrRestart \/ IsrReturn \/ IsrStore
    <3>1. ~rxsta'.done
      BY <1>0, <2>4 DEF IsrRestart, IsrReturn, IsrStore, Receiving, TypeOK
    <3> QED
      BY <2>1, <2>2, <3>1 DEF BoardWaits, CompleteIsHandled
  <2>5. CASE IsrComplete
    <3>1. next' = 1
      BY <1>0, <2>5, <2>1 DEF IsrComplete, BoardSends
    <3>2. boot = "running" => box'
      BY <2>5 DEF IsrComplete
    <3> QED
      BY <2>1, <2>2, <3>1, <3>2 DEF BoardWaits, CompleteIsHandled
  <2> QED
    BY <1>2, <2>3, <2>4, <2>5 DEF Isr
<1>3. ASSUME NEW ok \in BOOLEAN, Handshake(ok) PROVE BoardWaits' /\ CompleteIsHandled'
  <2>1. ~rxsta'.done /\ next' = next /\ boot' \in {"handshake", "net"}
    BY <1>3 DEF Handshake, Receiving
  <2>2. next = 1
    BY <1>0, <1>3 DEF Handshake, BoardWaits
  <2> QED
    BY <2>1, <2>2 DEF BoardWaits, CompleteIsHandled
<1>4. ASSUME CreateMailboxes PROVE BoardWaits' /\ CompleteIsHandled'
  <2>1. ~rxsta'.done /\ boot' = "running"
    BY <1>0, <1>4 DEF CreateMailboxes, rx, BoardWaits
  <2> QED
    BY <2>1 DEF BoardWaits, CompleteIsHandled
<1>5. ASSUME Dht11Task PROVE BoardWaits' /\ CompleteIsHandled'
  <2>1. boot' = boot /\ next' = next
    BY <1>5 DEF Dht11Task, Dht11Work, Pend, Test, CopyHead, CopyRest, Reset, GpsFix, Format,
           FormatRest, TestSwitched, ClearSwitched, Wipe, PostTiming, DhtFrame, serial
  <2>2. \/ ~rxsta'.done
        \/ rxsta' = rxsta /\ box' = box /\ dht \notin Handling
        \/ rxsta' = rxsta /\ dht' \in Handling
    BY <1>5 DEF Dht11Task, Dht11Work, Pend, Test, CopyHead, CopyRest, Reset, GpsFix, Format,
           FormatRest, TestSwitched, ClearSwitched, Wipe, PostTiming, Goto, Handling,
           Receiving, rx
  <2> QED
    BY <1>0, <2>1, <2>2 DEF BoardWaits, CompleteIsHandled
<1>6. ASSUME Publish \/ (\E m \in {0, 1, 3} : Command(m)) \/ UNCHANGED vars
      PROVE  BoardWaits' /\ CompleteIsHandled'
  <2>1. UNCHANGED <<boot, next, rxsta, box, dht>>
    BY <1>6 DEF Publish, Command, vars, rx, serial
  <2> QED
    BY <1>0, <2>1 DEF BoardWaits, CompleteIsHandled, Handling
<1> QED
  BY <1>2, <1>3, <1>4, <1>5, <1>6 DEF Next

\* With a board that waits for the box to come up, every completed line has somebody
\* who will re-enable the receiver.
THEOREM LinesAreHandled == ASSUME ~BoardBusy PROVE Spec => []CompleteIsHandled
<1>1. Init => WaitInv
  <2>1. Init => BoardWaits /\ CompleteIsHandled
    BY DEF Init, BoardWaits, CompleteIsHandled, Receiving
  <2> QED
    BY <2>1, InitIInv DEF WaitInv
<1>2. WaitInv /\ [Next]_vars => WaitInv'
  BY StepIInv, StepWaits DEF WaitInv
<1>3. WaitInv => CompleteIsHandled
  BY DEF WaitInv
<1> QED
  BY <1>1, <1>2, <1>3, PTL DEF Spec
=============================================================================
