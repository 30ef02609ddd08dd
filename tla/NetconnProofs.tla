---------------------------- MODULE NetconnProofs --------------------------
(***************************************************************************)
(* The receive path of Netconn for every size of queue, pool, window,      *)
(* segment and stream.                                                     *)
(*                                                                         *)
(* That no acknowledged byte is lost rests on a bound of the queue that    *)
(* nobody states in the code: while data may arrive, the window has paid   *)
(* for all that is queued (WindowIsExact), and behind the data there are   *)
(* at most the NULL of the FIN and the NULL of an error.  From the bound   *)
(* follows the queue's exact content (Kept), and from that the stream.     *)
(***************************************************************************)
EXTENDS Netconn, SequenceTheorems, TLAPS

\* What a place of lwip_recvfrom knows.
Places ==
  /\ pc \in {"idle", "closed"} => off = 0
  /\ pc \in {"loop", "fetch", "copy"} => len > 0
  /\ pc \in {"fetch", "eof"} => lastdata = 0
  /\ pc = "copy" => lastdata # 0
  /\ lastdata = 0 => lastoffset = 0
  /\ freed => pc = "closed"
  /\ pc = "closed" => pcb = "gone"

One(b) == IF b THEN 1 ELSE 0

\* The NULLs are behind the data, and there are two of them at most.
Queue ==
  /\ fin => rcv_nxt = Segs
  /\ pcb = "up" /\ ~ fin => \A i \in 1..Len(recvmbox) : recvmbox[i] # NULL
  /\ pcb = "up" /\ (pc = "eof" \/ last_err = "clsd") => fin
  /\ Len(recvmbox) <= WholeSegments + One(fin) + One(pcb = "gone")

\* Every queue, full ones too: what waits is behind what was read, in order.
Ordered ==
  pc # "closed" =>
    /\ Fetched <= rcv_nxt
    /\ \A i \in 1..Len(recvmbox) :
         recvmbox[i] # NULL => Fetched < recvmbox[i] /\ recvmbox[i] <= rcv_nxt
    /\ \A i, j \in 1..Len(recvmbox) :
         i < j /\ recvmbox[i] # NULL /\ recvmbox[j] # NULL => recvmbox[i] < recvmbox[j]

Position ==
  pc # "closed" =>
    /\ lastdata = 0 => position = SegLen * Fetched
    /\ lastdata # 0 => position <= SegLen * (lastdata - 1) + lastoffset
    /\ lastdata # 0 /\ Roomy => position = SegLen * (lastdata - 1) + lastoffset

\* A roomy queue, exactly: the segments not fetched, then NULLs.
Kept ==
  Roomy /\ pc # "closed" =>
    /\ rcv_nxt - Fetched <= Len(recvmbox)
    /\ \A i \in 1..Len(recvmbox) :
         recvmbox[i] = IF Fetched + i <= rcv_nxt THEN Fetched + i ELSE NULL

\* The end is seen only when all was read.
EndSeen ==
  Roomy /\ pcb = "up" /\ (pc = "eof" \/ last_err = "clsd") =>
    Fetched = rcv_nxt /\ lastdata = 0

BaseInv == TypeOK /\ Places /\ Queue /\ WindowIsExact
StreamInv == Ordered /\ Position /\ Kept /\ EndSeen /\ RoomyIsFreed
IInv == BaseInv /\ StreamInv
-----------------------------------------------------------------------------
(* Arithmetic of segments and bytes.                                       *)

LEMMA Constants == /\ SegLen \in Nat /\ SegLen > 0 /\ Segs \in Nat /\ TCP_WND \in Nat
                   /\ MaxLen \in Nat /\ MaxLen > 0 /\ QueueSizes \subseteq Nat \ {0}
BY ConstantsAssumption

\* Bytes of n segments.
LEMMA Bytes ==
  /\ \A n \in Nat : SegLen * n \in Nat
  /\ \A n \in Nat : SegLen * (n + 1) = SegLen * n + SegLen
  /\ \A m, n \in Nat : m <= n => SegLen * m <= SegLen * n
<1>1. SegLen \in Nat
  BY Constants
<1>2. \A n \in Nat : SegLen * n \in Nat
  BY <1>1
<1>3. \A n \in Nat : SegLen * (n + 1) = SegLen * n + SegLen
  BY <1>1
<1>4. ASSUME NEW m \in Nat, NEW n \in Nat, m <= n
      PROVE  SegLen * m <= SegLen * n
  <2>1. PICK d \in Nat : n = m + d
    BY <1>4
  <2>2. SegLen * n = SegLen * m + SegLen * d
    BY <1>1, <2>1
  <2>3. SegLen * d \in Nat /\ SegLen * m \in Nat
    BY <1>2
  <2> QED
    BY <2>2, <2>3
<1> QED
  BY <1>2, <1>3, <1>4

\* A whole number of segments, divided.
LEMMA WholeDiv == \A n \in Nat : (SegLen * n) \div SegLen = n
<1> SUFFICES ASSUME NEW n \in Nat PROVE (SegLen * n) \div SegLen = n
  OBVIOUS
<1>1. SegLen \in Nat /\ SegLen > 0 /\ SegLen * n \in Nat
  BY Constants, Bytes
<1>2. PICK q \in Nat : q = (SegLen * n) \div SegLen
  BY <1>1
<1>3. SegLen * q <= SegLen * n /\ SegLen * n < SegLen * q + SegLen
  BY <1>1, <1>2
<1>4. q <= n
  <2> SUFFICES ASSUME n + 1 <= q PROVE FALSE
    OBVIOUS
  <2>1. SegLen * (n + 1) <= SegLen * q /\ SegLen * (n + 1) = SegLen * n + SegLen
    BY Bytes
  <2> QED
    BY <1>1, <1>3, <2>1, Bytes
<1>5. n <= q
  <2> SUFFICES ASSUME q + 1 <= n PROVE FALSE
    OBVIOUS
  <2>1. SegLen * (q + 1) <= SegLen * n /\ SegLen * (q + 1) = SegLen * q + SegLen
    BY Bytes
  <2> QED
    BY <1>1, <1>3, <2>1, Bytes
<1> QED
  BY <1>2, <1>4, <1>5

\* Segments that fit the window, counted.
LEMMA WindowHolds ==
  /\ WholeSegments \in Nat
  /\ \A n \in Nat : SegLen * n <= TCP_WND => n <= WholeSegments
<1>1. SegLen \in Nat /\ SegLen > 0 /\ TCP_WND \in Nat
  BY Constants
<1>2. WholeSegments \in Nat /\ TCP_WND < SegLen * WholeSegments + SegLen
  BY <1>1 DEF WholeSegments
<1>3. ASSUME NEW n \in Nat, SegLen * n <= TCP_WND, WholeSegments + 1 <= n
      PROVE  FALSE
  <2>1. SegLen * (WholeSegments + 1) <= SegLen * n
    BY <1>2, <1>3, Bytes
  <2>2. SegLen * (WholeSegments + 1) = SegLen * WholeSegments + SegLen
    BY <1>2, Bytes
  <2> QED
    BY <1>1, <1>2, <1>3, <2>1, <2>2, Bytes
<1> QED
  BY <1>2, <1>3

\* The byte that is copied is one of segment lastdata.
LEMMA CopiedByte ==
  ASSUME TypeOK, lastdata # 0
  PROVE  /\ SegLen * (lastdata - 1) \in Nat
         /\ SegLen * (lastdata - 1) + SegLen = SegLen * lastdata
         /\ SegLen * (lastdata - 1) + lastoffset + 1 <= SegLen * lastdata
         /\ SegLen * lastdata <= SegLen * Segs
<1>1. lastdata - 1 \in Nat /\ lastdata \in Nat /\ lastdata <= Segs /\ lastoffset + 1 <= SegLen
      /\ lastoffset \in Nat
  BY Constants DEF TypeOK
<1>2. SegLen * (lastdata - 1) \in Nat /\ SegLen * ((lastdata - 1) + 1) = SegLen * (lastdata - 1) + SegLen
  BY <1>1, Bytes
<1>3. (lastdata - 1) + 1 = lastdata
  BY <1>1
<1>4. SegLen * lastdata <= SegLen * Segs
  BY <1>1, Bytes, Constants
<1> QED
  BY <1>1, <1>2, <1>3, <1>4, Bytes, Constants
-----------------------------------------------------------------------------
(* TypeOK, the bound of the queue and the window.                          *)

LEMMA InitBase == Init => BaseInv
<1> SUFFICES ASSUME Init PROVE BaseInv
  OBVIOUS
<1>1. TypeOK
  <2>1. recvmbox \in Seq(0..Segs) /\ Len(recvmbox) = 0 /\ OSQSize \in Nat
    BY EmptySeq, Constants DEF Init
  <2>2. position \in 0..(SegLen * Segs) /\ lastoffset \in 0..(SegLen - 1)
    BY Constants, Bytes DEF Init
  <2>3. len + off <= MaxLen /\ len \in 0..MaxLen /\ off \in 0..MaxLen /\ lastdata \in 0..Segs
    BY Constants DEF Init
  <2>4. rcv_nxt \in 0..Segs /\ rcv_wnd \in 0..TCP_WND /\ Len(recvmbox) <= OSQSize
    BY <2>1, Constants DEF Init
  <2> QED
    BY <2>1, <2>2, <2>3, <2>4 DEF Init, TypeOK
<1>2. Places
  BY DEF Init, Places
<1>3. Queue
  BY WindowHolds DEF Init, Queue, One
<1>4. WindowIsExact
  BY Constants DEF Init, WindowIsExact
<1> QED
  BY <1>1, <1>2, <1>3, <1>4 DEF BaseInv

\* A message behind all others.
LEMMA Posted ==
  ASSUME TypeOK, NEW m \in 0..Segs, Post(m), sys_mbox_valid
  PROVE  /\ recvmbox' \in Seq(0..Segs)
         /\ Len(recvmbox') = Len(recvmbox) + 1 /\ Len(recvmbox') <= OSQSize
         /\ \A i \in 1..Len(recvmbox) : recvmbox'[i] = recvmbox[i]
         /\ recvmbox'[Len(recvmbox')] = m
<1>1. recvmbox \in Seq(0..Segs) /\ recvmbox' = Append(recvmbox, m)
  BY DEF TypeOK, Post
<1>2. OSQSize \in Nat /\ Len(recvmbox) \in Nat /\ Len(recvmbox) < OSQSize
  BY <1>1, Constants, LenProperties DEF TypeOK, sys_mbox_valid
<1> QED
  BY <1>1, <1>2, AppendProperties

LEMMA Fetching ==
  ASSUME TypeOK, recvmbox # <<>>
  PROVE  /\ Head(recvmbox) \in 0..Segs /\ Head(recvmbox) = recvmbox[1]
         /\ 1 \in 1..Len(recvmbox)
         /\ Tail(recvmbox) \in Seq(0..Segs)
         /\ Len(Tail(recvmbox)) = Len(recvmbox) - 1
         /\ \A i \in 1..(Len(recvmbox) - 1) : Tail(recvmbox)[i] = recvmbox[i + 1]
<1>1. recvmbox \in Seq(0..Segs)
  BY DEF TypeOK
<1>2. Len(recvmbox) \in Nat /\ Len(recvmbox) > 0
  BY <1>1, EmptySeq, LenProperties
<1>3. /\ Head(recvmbox) \in 0..Segs /\ Tail(recvmbox) \in Seq(0..Segs)
      /\ Len(Tail(recvmbox)) = Len(recvmbox) - 1
      /\ \A i \in 1..Len(Tail(recvmbox)) : Tail(recvmbox)[i] = recvmbox[i + 1]
  BY <1>1, <1>2, HeadTailProperties
<1>4. Head(recvmbox) = recvmbox[1]
  BY <1>1, <1>2
<1> QED
  BY <1>2, <1>3, <1>4

\* While data may come, the window has paid for what is queued.
LEMMA QueuePaid ==
  ASSUME BaseInv, pcb = "up", ~ fin
  PROVE  Len(recvmbox) <= WholeSegments
<1>1. Len(recvmbox) \in Nat /\ rcv_wnd \in Nat /\ off \in Nat /\ TCP_WND \in Nat
  BY Constants, LenProperties DEF BaseInv, TypeOK
<1>2. (IF lastdata = 0 THEN 0 ELSE SegLen - lastoffset) \in Nat
  BY Constants DEF BaseInv, TypeOK
<1>3. SegLen * Len(recvmbox) \in Nat
  BY <1>1, Bytes
<1>4. SegLen * Len(recvmbox) <= TCP_WND
  BY <1>1, <1>2, <1>3 DEF BaseInv, WindowIsExact
<1> QED
  BY <1>1, <1>4, WindowHolds

LEMMA SegmentBase == BaseInv /\ Segment => BaseInv'
<1> SUFFICES ASSUME BaseInv, Segment PROVE BaseInv'
  OBVIOUS
<1>0. TypeOK /\ Places /\ Queue /\ WindowIsExact
  BY DEF BaseInv
<1>1. /\ rcv_nxt' = rcv_nxt + 1 /\ rcv_nxt' \in 0..Segs
      /\ rcv_wnd \in Nat /\ SegLen \in Nat /\ TCP_WND \in Nat
      /\ rcv_wnd - SegLen \in 0..TCP_WND
  BY <1>0, Constants DEF Segment, TypeOK
<1>2. Len(recvmbox) \in Nat /\ Len(recvmbox) <= WholeSegments /\ WholeSegments \in Nat
  BY <1>0, QueuePaid, WindowHolds, LenProperties DEF Segment, TypeOK
<1>3. CASE sys_mbox_valid
  <2>1. Post(rcv_nxt + 1) /\ last_err' = SafeErr("ok") /\ rcv_wnd' = rcv_wnd - SegLen
    BY <1>3 DEF Segment, RecvData
  <2>2. rcv_nxt + 1 \in 0..Segs
    BY <1>1
  <2>3. /\ recvmbox' \in Seq(0..Segs)
        /\ Len(recvmbox') = Len(recvmbox) + 1 /\ Len(recvmbox') <= OSQSize
        /\ \A i \in 1..Len(recvmbox) : recvmbox'[i] = recvmbox[i]
        /\ recvmbox'[Len(recvmbox')] = rcv_nxt + 1
    BY <1>0, <1>3, <2>1, <2>2, Posted
  <2>4. last_err' \in {"ok", "timeout", "clsd", "rst"} /\ (last_err' = "clsd" => last_err = "clsd")
    BY <1>0, <2>1 DEF SafeErr, Fatal, TypeOK
  <2>5. TypeOK'
    BY <1>0, <1>1, <2>1, <2>3, <2>4 DEF Segment, TypeOK, reader
  <2>6. Places'
    BY <1>0 DEF Segment, Places, reader
  <2>7. SegLen * Len(recvmbox') = SegLen * Len(recvmbox) + SegLen
    BY <1>2, <2>3, Bytes
  <2>8. SegLen * Len(recvmbox) \in Nat /\ off \in Nat
    BY <1>0, <1>2, Bytes DEF TypeOK
  <2>9. WindowIsExact'
    <3>1. rcv_wnd + SegLen * Len(recvmbox) + off
            + (IF lastdata = 0 THEN 0 ELSE SegLen - lastoffset) = TCP_WND
      BY <1>0 DEF Segment, WindowIsExact
    <3>2. (IF lastdata = 0 THEN 0 ELSE SegLen - lastoffset) \in Nat
      BY <1>0, Constants DEF TypeOK
    <3>3. rcv_wnd' + SegLen * Len(recvmbox') + off
            + (IF lastdata = 0 THEN 0 ELSE SegLen - lastoffset) = TCP_WND
      BY <1>1, <2>1, <2>7, <2>8, <3>1, <3>2
    <3> QED
      BY <3>3 DEF Segment, WindowIsExact, reader
  <2>10. Len(recvmbox') <= WholeSegments
    <3>1. (IF lastdata = 0 THEN 0 ELSE SegLen - lastoffset) \in Nat
      BY <1>0, Constants DEF TypeOK
    <3>2. SegLen * Len(recvmbox') <= TCP_WND
      BY <1>0, <1>1, <2>7, <2>8, <3>1 DEF WindowIsExact, Segment
    <3> QED
      BY <1>2, <2>3, <3>2, WindowHolds
  <2>11. \A i \in 1..Len(recvmbox') : recvmbox'[i] # NULL
    <3>1. \A i \in 1..Len(recvmbox) : recvmbox[i] # NULL
      BY <1>0 DEF Segment, Queue
    <3>2. rcv_nxt + 1 # NULL
      BY <1>0 DEF TypeOK, NULL
    <3> QED
      BY <1>2, <2>3, <3>1, <3>2
  <2>12. Queue'
    <3>1. fin' = fin /\ pcb' = pcb /\ pc' = pc /\ ~ fin /\ pcb = "up"
      BY DEF Segment, reader
    <3>2. ~ (pc = "eof" \/ last_err = "clsd")
      BY <1>0, <3>1 DEF Queue
    <3>3. ~ (pc' = "eof" \/ last_err' = "clsd")
      BY <2>4, <3>1, <3>2
    <3>4. Len(recvmbox') <= WholeSegments + One(fin)' + One(pcb = "gone")'
      BY <2>10, <3>1, <1>2, <2>3 DEF One
    <3> QED
      BY <2>11, <3>1, <3>3, <3>4 DEF Queue
  <2> QED
    BY <2>5, <2>6, <2>9, <2>12 DEF BaseInv
<1>4. CASE ~ sys_mbox_valid
  <2>1. UNCHANGED <<recvmbox, last_err, rcv_wnd, OSQSize, freed, fin, pcb, reader>>
    BY <1>4 DEF Segment, RecvData
  <2>2. TypeOK'
    BY <1>0, <1>1, <2>1 DEF TypeOK, reader
  <2>3. Places' /\ WindowIsExact'
    BY <1>0, <2>1 DEF Places, WindowIsExact, reader
  <2>4. Queue'
    BY <1>0, <2>1 DEF Queue, Segment, One, reader
  <2> QED
    BY <2>2, <2>3, <2>4 DEF BaseInv
<1> QED
  BY <1>3, <1>4

\* The two handlers that post NULL.
LEMMA NullBase == BaseInv /\ (Fin \/ Abort) => BaseInv'
<1> SUFFICES ASSUME BaseInv, Fin \/ Abort PROVE BaseInv'
  OBVIOUS
<1>0. TypeOK /\ Places /\ Queue /\ WindowIsExact
  BY DEF BaseInv
<1>1. UNCHANGED <<OSQSize, freed, rcv_nxt, rcv_wnd, reader>>
  BY DEF Fin, Abort
<1>2. \/ sys_mbox_valid /\ Post(NULL)
      \/ ~ sys_mbox_valid /\ recvmbox' = recvmbox
  BY DEF Fin, Abort, RecvEnd
<1>3. NULL \in 0..Segs
  BY Constants DEF NULL
<1>4. Len(recvmbox) \in Nat
  BY <1>0, LenProperties DEF TypeOK
<1>5. /\ recvmbox' \in Seq(0..Segs) /\ Len(recvmbox') <= OSQSize
      /\ Len(recvmbox') \in Nat /\ Len(recvmbox') <= Len(recvmbox) + 1
  BY <1>0, <1>2, <1>3, <1>4, Posted DEF TypeOK
<1>6. /\ fin' \in BOOLEAN /\ pcb' \in {"up", "gone"}
      /\ last_err' \in {"ok", "timeout", "clsd", "rst"}
      /\ (last_err' = "clsd" => last_err = "clsd")
      /\ fin' \/ pcb' = "gone"
  BY <1>0 DEF Fin, Abort, RecvEnd, SafeErr, Fatal, TypeOK
<1>7. TypeOK'
  BY <1>0, <1>1, <1>5, <1>6 DEF TypeOK, reader
<1>8. Places'
  BY <1>0, <1>1 DEF Places, Fin, Abort, reader
<1>9. WindowIsExact'
  BY <1>6 DEF WindowIsExact
<1>10. Len(recvmbox') <= WholeSegments + One(fin') + One(pcb' = "gone")
  <2>1. Len(recvmbox) <= WholeSegments + One(fin) + One(pcb = "gone")
    BY <1>0 DEF Queue
  <2>2. CASE Fin
    <3>1. One(fin) = 0 /\ One(fin') = 1 /\ pcb' = pcb
      BY <2>2 DEF Fin, One
    <3>2. One(pcb = "gone") \in Nat
      BY DEF One
    <3> QED
      BY <1>4, <1>5, <2>1, <3>1, <3>2, WindowHolds
  <2>3. CASE Abort
    <3>1. One(pcb = "gone") = 0 /\ One(pcb' = "gone") = 1 /\ fin' = fin
      BY <2>3 DEF Abort, One
    <3>2. One(fin) \in Nat
      BY DEF One
    <3> QED
      BY <1>4, <1>5, <2>1, <3>1, <3>2, WindowHolds
  <2> QED
    BY <2>2, <2>3
<1>11. fin' => rcv_nxt' = Segs
  BY <1>0 DEF Fin, Abort, Queue
<1>12. pcb' = "up" => fin'
  BY <1>6
<1>13. Queue'
  BY <1>10, <1>11, <1>12 DEF Queue
<1> QED
  BY <1>7, <1>8, <1>9, <1>13 DEF BaseInv

\* A step of the task that leaves the queue and the connection alone.
LEMMA QueueKept ==
  ASSUME Queue, UNCHANGED <<recvmbox, fin, rcv_nxt, pcb>>,
         pcb = "up" /\ (pc' = "eof" \/ last_err' = "clsd") => fin
  PROVE  Queue'
BY DEF Queue, One

LEMMA Returned ==
  ASSUME TypeOK, Places, NEW err, Return(err), pc # "closed"
  PROVE  /\ pc' \in {"recved", "idle"} /\ ended' \in BOOLEAN
         /\ pc' = "idle" => off = 0
         /\ UNCHANGED <<len, off, lastdata, lastoffset, position>>
BY DEF Return, TypeOK

LEMMA RecvBase == BaseInv /\ Recv => BaseInv'
<1> SUFFICES ASSUME BaseInv, Recv PROVE BaseInv'
  OBVIOUS
<1>0. TypeOK /\ Places /\ Queue /\ WindowIsExact
  BY DEF BaseInv
<1>1. PICK n \in 1..MaxLen : len' = n
  BY DEF Recv
<1>2. len' \in 0..MaxLen /\ off' \in 0..MaxLen /\ len' + off' <= MaxLen /\ len' > 0
  BY <1>1, Constants DEF Recv
<1>3. TypeOK'
  BY <1>0, <1>2 DEF Recv, TypeOK, network
<1>4. Places'
  BY <1>0, <1>2 DEF Recv, Places, network
<1>5. Queue'
  BY <1>0, QueueKept DEF Recv, network, Queue
<1>6. WindowIsExact'
  BY <1>0 DEF Recv, WindowIsExact, network, Places
<1> QED
  BY <1>3, <1>4, <1>5, <1>6 DEF BaseInv

LEMMA EnterBase == BaseInv /\ Enter => BaseInv'
<1> SUFFICES ASSUME BaseInv, Enter PROVE BaseInv'
  OBVIOUS
<1>0. TypeOK /\ Places /\ Queue /\ WindowIsExact
  BY DEF BaseInv
<1>1. /\ pc' \in {"copy", "fetch", "recved", "idle"} /\ ended' \in BOOLEAN
      /\ pc' = "idle" => off = 0
      /\ pc' = "copy" => lastdata # 0
      /\ pc' = "fetch" => lastdata = 0
      /\ UNCHANGED <<len, off, lastdata, lastoffset, position>>
  <2>1. pc = "loop"
    BY DEF Enter
  <2>2. CASE \E err \in {"conn", last_err} : Return(err)
    BY <1>0, <2>1, <2>2, Returned
  <2>3. CASE lastdata # 0 /\ pc' = "copy" /\ UNCHANGED <<len, off, lastdata, lastoffset, position, ended>>
    BY <1>0, <2>3 DEF TypeOK
  <2>4. CASE lastdata = 0 /\ pc' = "fetch" /\ UNCHANGED <<len, off, lastdata, lastoffset, position, ended>>
    BY <1>0, <2>4 DEF TypeOK
  <2> QED
    BY <2>2, <2>3, <2>4 DEF Enter
<1>2. TypeOK'
  BY <1>0, <1>1 DEF Enter, TypeOK, network
<1>3. Places'
  BY <1>0, <1>1 DEF Enter, Places, network
<1>4. Queue'
  BY <1>0, <1>1, QueueKept DEF Enter, network, Queue
<1>5. WindowIsExact'
  BY <1>0, <1>1 DEF Enter, WindowIsExact, network
<1> QED
  BY <1>2, <1>3, <1>4, <1>5 DEF BaseInv

LEMMA FetchBase == BaseInv /\ Fetch => BaseInv'
<1> SUFFICES ASSUME BaseInv, Fetch PROVE BaseInv'
  OBVIOUS
<1>0. TypeOK /\ Places /\ Queue /\ WindowIsExact
  BY DEF BaseInv
<1>1. /\ Head(recvmbox) \in 0..Segs /\ Head(recvmbox) = recvmbox[1]
      /\ 1 \in 1..Len(recvmbox)
      /\ recvmbox' \in Seq(0..Segs) /\ Len(recvmbox') = Len(recvmbox) - 1
      /\ \A i \in 1..(Len(recvmbox) - 1) : recvmbox'[i] = recvmbox[i + 1]
  BY <1>0, Fetching DEF Fetch
<1>2. Len(recvmbox) \in Nat /\ Len(recvmbox') \in Nat
  BY <1>0, <1>1, LenProperties DEF TypeOK
<1>3. /\ UNCHANGED <<OSQSize, freed, rcv_nxt, fin, pcb, rcv_wnd, last_err, len, off, position, ended>>
      /\ lastdata = 0 /\ lastoffset = 0 /\ len > 0 /\ pc # "closed" /\ ~ freed
  BY <1>0 DEF Fetch, Places, network
<1>4. Len(recvmbox') <= OSQSize
  BY <1>0, <1>1, <1>2, Constants DEF TypeOK
<1>5. Len(recvmbox') <= WholeSegments + One(fin') + One(pcb' = "gone")
  <2>1. One(fin') \in Nat /\ One(pcb' = "gone") \in Nat
    BY DEF One
  <2>2. Len(recvmbox) <= WholeSegments + One(fin') + One(pcb' = "gone")
    BY <1>0, <1>3 DEF Queue
  <2> QED
    BY <1>1, <1>2, <2>1, <2>2, WindowHolds
<1>6. pcb = "up" /\ ~ fin => \A i \in 1..Len(recvmbox') : recvmbox'[i] # NULL
  <2> SUFFICES ASSUME pcb = "up", ~ fin, NEW i \in 1..Len(recvmbox')
               PROVE  recvmbox'[i] # NULL
    OBVIOUS
  <2>1. i + 1 \in 1..Len(recvmbox) /\ i \in 1..(Len(recvmbox) - 1)
    BY <1>1, <1>2
  <2>2. recvmbox[i + 1] # NULL
    BY <1>0, <2>1 DEF Queue
  <2> QED
    BY <1>1, <2>1, <2>2
<1>7. CASE Head(recvmbox) = NULL
  <2>1. pc' = "eof" /\ UNCHANGED <<lastdata, lastoffset>>
    BY <1>7 DEF Fetch
  <2>2. pcb = "up" => fin
    BY <1>0, <1>1, <1>7 DEF Queue
  <2>3. TypeOK'
    BY <1>0, <1>1, <1>3, <1>4, <2>1 DEF TypeOK
  <2>4. Places'
    BY <1>0, <1>3, <2>1 DEF Places
  <2>5. WindowIsExact'
    BY <1>3, <2>2 DEF WindowIsExact
  <2>6. Queue'
    BY <1>0, <1>3, <1>5, <1>6, <2>2 DEF Queue
  <2> QED
    BY <2>3, <2>4, <2>5, <2>6 DEF BaseInv
<1>8. CASE Head(recvmbox) # NULL
  <2>1. pc' = "copy" /\ lastdata' = Head(recvmbox) /\ lastoffset' = 0 /\ lastdata' # 0
    BY <1>8 DEF Fetch, NULL
  <2>2. lastoffset' \in 0..(SegLen - 1)
    BY <2>1, Constants
  <2>3. TypeOK'
    BY <1>0, <1>1, <1>3, <1>4, <2>1, <2>2 DEF TypeOK
  <2>4. Places'
    BY <1>0, <1>3, <2>1 DEF Places
  <2>5. WindowIsExact'
    <3> SUFFICES ASSUME pcb = "up", ~ fin
                 PROVE  rcv_wnd + SegLen * Len(recvmbox') + off + (SegLen - 0) = TCP_WND
      BY <1>3, <2>1 DEF WindowIsExact
    <3>1. rcv_wnd + SegLen * Len(recvmbox) + off + 0 = TCP_WND
      BY <1>0, <1>3 DEF WindowIsExact
    <3>2. SegLen * (Len(recvmbox') + 1) = SegLen * Len(recvmbox') + SegLen
      BY <1>2, Bytes
    <3>3. Len(recvmbox') + 1 = Len(recvmbox)
      BY <1>1, <1>2
    <3>4. SegLen * Len(recvmbox) = SegLen * Len(recvmbox') + SegLen
      BY <3>2, <3>3
    <3>5. SegLen * Len(recvmbox') \in Nat /\ rcv_wnd \in Nat /\ off \in Nat /\ SegLen \in Nat
      BY <1>0, <1>2, Bytes, Constants DEF TypeOK
    <3> QED
      BY <3>1, <3>4, <3>5
  <2>6. Queue'
    <3>1. pc' # "eof" /\ last_err' = last_err
      BY <1>3, <2>1
    <3> QED
      BY <1>0, <1>3, <1>5, <1>6, <3>1 DEF Queue
  <2> QED
    BY <2>3, <2>4, <2>5, <2>6 DEF BaseInv
<1> QED
  BY <1>7, <1>8

LEMMA FetchTimeoutBase == BaseInv /\ FetchTimeout => BaseInv'
<1> SUFFICES ASSUME BaseInv, FetchTimeout PROVE BaseInv'
  OBVIOUS
<1>0. TypeOK /\ Places /\ Queue /\ WindowIsExact
  BY DEF BaseInv
<1>1. /\ pc' \in {"recved", "idle"} /\ ended' \in BOOLEAN
      /\ pc' = "idle" => off = 0
      /\ UNCHANGED <<len, off, lastdata, lastoffset, position>>
  BY <1>0, Returned DEF FetchTimeout
<1>2. /\ last_err' \in {"ok", "timeout", "clsd", "rst"}
      /\ last_err' = "clsd" => last_err = "clsd"
  BY <1>0 DEF FetchTimeout, SafeErr, Fatal, TypeOK
<1>3. UNCHANGED <<OSQSize, recvmbox, freed, rcv_nxt, fin, pcb, rcv_wnd>> /\ pc = "fetch"
  BY DEF FetchTimeout, network
<1>4. TypeOK'
  BY <1>0, <1>1, <1>2, <1>3 DEF TypeOK
<1>5. Places'
  BY <1>0, <1>1, <1>3 DEF Places
<1>6. Queue'
  BY <1>0, <1>1, <1>2, <1>3, QueueKept DEF Queue
<1>7. WindowIsExact'
  BY <1>0, <1>1, <1>3 DEF WindowIsExact
<1> QED
  BY <1>4, <1>5, <1>6, <1>7 DEF BaseInv

LEMMA Opened ==
  ASSUME TypeOK, NEW n \in Nat
  PROVE  WindowAfter(n) \in 0..TCP_WND
BY Constants DEF TypeOK, WindowAfter

LEMMA FetchedNullBase == BaseInv /\ FetchedNull => BaseInv'
<1> SUFFICES ASSUME BaseInv, FetchedNull PROVE BaseInv'
  OBVIOUS
<1>0. TypeOK /\ Places /\ Queue /\ WindowIsExact
  BY DEF BaseInv
<1>1. /\ pc' \in {"recved", "idle"} /\ ended' \in BOOLEAN
      /\ pc' = "idle" => off = 0
      /\ UNCHANGED <<len, off, lastdata, lastoffset, position>>
  BY <1>0, Returned DEF FetchedNull
<1>2. last_err' \in {"ok", "timeout", "clsd", "rst"}
  BY <1>0 DEF FetchedNull, SafeErr, Fatal, TypeOK
<1>3. UNCHANGED <<OSQSize, recvmbox, freed, rcv_nxt, fin, pcb>> /\ pc = "eof"
  BY DEF FetchedNull, network
<1>4. rcv_wnd' \in 0..TCP_WND
  BY <1>0, Opened DEF FetchedNull
<1>5. pcb = "up" => fin
  BY <1>0, <1>3 DEF Queue
<1>6. TypeOK'
  BY <1>0, <1>1, <1>2, <1>3, <1>4 DEF TypeOK
<1>7. Places'
  BY <1>0, <1>1, <1>3 DEF Places
<1>8. Queue'
  BY <1>0, <1>3, <1>5, QueueKept
<1>9. WindowIsExact'
  BY <1>3, <1>5 DEF WindowIsExact
<1> QED
  BY <1>6, <1>7, <1>8, <1>9 DEF BaseInv

LEMMA CopyBase == BaseInv /\ Copy => BaseInv'
<1> SUFFICES ASSUME BaseInv, Copy PROVE BaseInv'
  OBVIOUS
<1>0. TypeOK /\ Places /\ Queue /\ WindowIsExact
  BY DEF BaseInv
<1>1. /\ pc = "copy" /\ lastdata # 0 /\ len > 0 /\ off \in Nat /\ len \in Nat
      /\ SegLen \in Nat /\ SegLen > 0 /\ lastoffset \in Nat /\ MaxLen \in Nat
      /\ lastoffset <= SegLen - 1
  BY <1>0, Constants DEF Copy, Places, TypeOK
<1>2. /\ UNCHANGED <<OSQSize, recvmbox, freed, rcv_nxt, fin, pcb, rcv_wnd, last_err, ended>>
      /\ len' = len - 1 /\ off' = off + 1
      /\ position' = SegLen * (lastdata - 1) + lastoffset + 1
  BY DEF Copy, network
<1>3. len' \in 0..MaxLen /\ off' \in 0..MaxLen /\ len' + off' <= MaxLen
  BY <1>0, <1>1, <1>2 DEF TypeOK
<1>4. position' \in 0..(SegLen * Segs)
  <2>1. SegLen * lastdata \in Nat /\ SegLen * Segs \in Nat
    BY <1>0, Bytes, Constants DEF TypeOK
  <2> QED
    BY <1>0, <1>1, <1>2, <2>1, CopiedByte
<1>5. CASE lastoffset + 1 < SegLen
  <2>1. /\ lastoffset' = lastoffset + 1 /\ lastdata' = lastdata
        /\ pc' = IF len = 1 THEN "recved" ELSE "copy"
    BY <1>5 DEF Copy
  <2>2. lastoffset' \in 0..(SegLen - 1) /\ (pc' = "copy" => len' > 0)
    BY <1>1, <1>2, <1>5, <2>1
  <2>3. TypeOK'
    BY <1>0, <1>2, <1>3, <1>4, <2>1, <2>2 DEF TypeOK
  <2>4. Places'
    BY <1>0, <1>1, <1>2, <2>1, <2>2 DEF Places
  <2>5. WindowIsExact'
    <3> SUFFICES ASSUME pcb = "up", ~ fin
                 PROVE  rcv_wnd + SegLen * Len(recvmbox) + (off + 1) + (SegLen - (lastoffset + 1)) = TCP_WND
      BY <1>1, <1>2, <2>1 DEF WindowIsExact
    <3>1. rcv_wnd + SegLen * Len(recvmbox) + off + (SegLen - lastoffset) = TCP_WND
      BY <1>0, <1>1 DEF WindowIsExact
    <3>2. SegLen * Len(recvmbox) \in Nat /\ rcv_wnd \in Nat
      BY <1>0, Bytes, LenProperties DEF TypeOK
    <3> QED
      BY <1>1, <3>1, <3>2
  <2>6. Queue'
    BY <1>0, <1>2, <2>1, QueueKept DEF Queue
  <2> QED
    BY <2>3, <2>4, <2>5, <2>6 DEF BaseInv
<1>6. CASE ~ (lastoffset + 1 < SegLen)
  <2>1. /\ lastoffset' = 0 /\ lastdata' = 0
        /\ pc' \in {"recved", "loop"} /\ (len = 1 => pc' = "recved")
    BY <1>6 DEF Copy
  <2>2. lastoffset' \in 0..(SegLen - 1) /\ (pc' = "loop" => len' > 0) /\ lastoffset + 1 = SegLen
    BY <1>1, <1>2, <1>6, <2>1
  <2>3. TypeOK'
    <3>1. lastdata' \in 0..Segs /\ pc' \in {"recved", "loop"}
      BY <2>1, Constants
    <3> QED
      BY <1>0, <1>2, <1>3, <1>4, <2>2, <3>1 DEF TypeOK
  <2>4. Places'
    BY <1>0, <1>1, <1>2, <2>1, <2>2 DEF Places
  <2>5. WindowIsExact'
    <3> SUFFICES ASSUME pcb = "up", ~ fin
                 PROVE  rcv_wnd + SegLen * Len(recvmbox) + (off + 1) + 0 = TCP_WND
      BY <1>1, <1>2, <2>1 DEF WindowIsExact
    <3>1. rcv_wnd + SegLen * Len(recvmbox) + off + (SegLen - lastoffset) = TCP_WND
      BY <1>0, <1>1 DEF WindowIsExact
    <3>2. SegLen * Len(recvmbox) \in Nat /\ rcv_wnd \in Nat
      BY <1>0, Bytes, LenProperties DEF TypeOK
    <3> QED
      BY <1>1, <2>2, <3>1, <3>2
  <2>6. Queue'
    BY <1>0, <1>2, <2>1, QueueKept DEF Queue
  <2> QED
    BY <2>3, <2>4, <2>5, <2>6 DEF BaseInv
<1> QED
  BY <1>5, <1>6

LEMMA RecvedBase == BaseInv /\ Recved => BaseInv'
<1> SUFFICES ASSUME BaseInv, Recved PROVE BaseInv'
  OBVIOUS
<1>0. TypeOK /\ Places /\ Queue /\ WindowIsExact
  BY DEF BaseInv
<1>1. /\ UNCHANGED <<OSQSize, recvmbox, freed, rcv_nxt, fin, pcb, last_err,
                     lastdata, lastoffset, position, ended>>
      /\ pc' = "idle" /\ len' = 0 /\ off' = 0 /\ rcv_wnd' = WindowAfter(off)
  BY DEF Recved, network
<1>2. off \in Nat /\ rcv_wnd' \in 0..TCP_WND
  BY <1>0, <1>1, Opened DEF TypeOK
<1>3. TypeOK'
  BY <1>0, <1>1, <1>2, Constants DEF TypeOK
<1>4. Places'
  BY <1>0, <1>1 DEF Places, Recved
<1>5. Queue'
  BY <1>0, <1>1, QueueKept DEF Queue
<1>6. WindowIsExact'
  <2> SUFFICES ASSUME pcb = "up", ~ fin
               PROVE  rcv_wnd' + SegLen * Len(recvmbox) + 0
                        + (IF lastdata = 0 THEN 0 ELSE SegLen - lastoffset) = TCP_WND
    BY <1>1 DEF WindowIsExact
  <2>1. rcv_wnd + SegLen * Len(recvmbox) + off
          + (IF lastdata = 0 THEN 0 ELSE SegLen - lastoffset) = TCP_WND
    BY <1>0 DEF WindowIsExact
  <2>2. /\ SegLen * Len(recvmbox) \in Nat /\ rcv_wnd \in Nat /\ TCP_WND \in Nat
        /\ (IF lastdata = 0 THEN 0 ELSE SegLen - lastoffset) \in Nat
    BY <1>0, Bytes, LenProperties, Constants DEF TypeOK
  <2>3. rcv_wnd' = rcv_wnd + off
    BY <1>1, <1>2, <2>1, <2>2 DEF WindowAfter
  <2> QED
    BY <1>2, <2>1, <2>2, <2>3
<1> QED
  BY <1>3, <1>4, <1>5, <1>6 DEF BaseInv

LEMMA CloseBase == BaseInv /\ Close => BaseInv'
<1> SUFFICES ASSUME BaseInv, Close PROVE BaseInv'
  OBVIOUS
<1>0. TypeOK /\ Places /\ Queue /\ WindowIsExact
  BY DEF BaseInv
<1>1. /\ UNCHANGED <<OSQSize, rcv_nxt, fin, rcv_wnd, last_err, len, off, position, ended>>
      /\ pc' = "closed" /\ pcb' = "gone" /\ lastdata' = 0 /\ lastoffset' = 0
      /\ recvmbox' = <<>> \/ recvmbox' = recvmbox
      /\ freed' \in BOOLEAN
  BY <1>0 DEF Close, TypeOK
<1>2. /\ recvmbox' \in Seq(0..Segs) /\ Len(recvmbox') \in Nat
      /\ Len(recvmbox') <= Len(recvmbox) /\ Len(recvmbox) \in Nat
  <2>1. recvmbox \in Seq(0..Segs) /\ Len(recvmbox) \in Nat
    BY <1>0, LenProperties DEF TypeOK
  <2>2. CASE recvmbox' = recvmbox
    BY <2>1, <2>2
  <2>3. CASE recvmbox' = <<>>
    <3>1. <<>> \in Seq(0..Segs) /\ Len(<<>>) = 0
      BY EmptySeq
    <3> QED
      BY <2>1, <2>3, <3>1
  <2> QED
    BY <1>1, <2>2, <2>3
<1>3. OSQSize \in Nat
  BY <1>0, Constants DEF TypeOK
<1>4. TypeOK'
  BY <1>0, <1>1, <1>2, <1>3, Constants DEF TypeOK
<1>5. Places'
  BY <1>0, <1>1 DEF Places, Close
<1>6. One(pcb = "gone") <= One(pcb' = "gone") /\ One(pcb = "gone") \in Nat /\ One(pcb' = "gone") \in Nat
      /\ One(fin) \in Nat /\ One(fin') = One(fin)
  BY <1>1 DEF One
<1>7. Len(recvmbox') <= WholeSegments + One(fin') + One(pcb' = "gone")
  BY <1>0, <1>2, <1>6, WindowHolds DEF Queue
<1>8. Queue'
  BY <1>0, <1>1, <1>7 DEF Queue
<1>9. WindowIsExact'
  BY <1>1 DEF WindowIsExact
<1> QED
  BY <1>4, <1>5, <1>8, <1>9 DEF BaseInv

LEMMA NextBase == BaseInv /\ [Next]_vars => BaseInv'
<1> SUFFICES ASSUME BaseInv, [Next]_vars PROVE BaseInv'
  OBVIOUS
<1>1. CASE Segment
  BY <1>1, SegmentBase
<1>2. CASE Fin \/ Abort
  BY <1>2, NullBase
<1>3. CASE Recv \/ Enter \/ Fetch \/ FetchTimeout
  BY <1>3, RecvBase, EnterBase, FetchBase, FetchTimeoutBase
<1>4. CASE FetchedNull \/ Copy \/ Recved \/ Close
  BY <1>4, FetchedNullBase, CopyBase, RecvedBase, CloseBase
<1>5. CASE UNCHANGED vars
  BY <1>5 DEF vars, network, reader, BaseInv, TypeOK, Places, Queue, One, WindowIsExact
<1> QED
  BY <1>1, <1>2, <1>3, <1>4, <1>5 DEF Next, Reading

LEMMA AlwaysBase == Spec => []BaseInv
BY InitBase, NextBase, PTL DEF Spec

\* Every step of tcpip_thread and of the reading task keeps the types: no post
\* meets a full queue, and the window stays between 0 and TCP_WND.
THEOREM TypeCorrect == Spec => []TypeOK
<1>1. BaseInv => TypeOK
  BY DEF BaseInv
<1> QED
  BY <1>1, AlwaysBase, PTL

\* do_recv and recv_tcp account for every byte of the window, for any queue.
THEOREM WindowNeverLeaks == Spec => []WindowIsExact
<1>1. BaseInv => WindowIsExact
  BY DEF BaseInv
<1> QED
  BY <1>1, AlwaysBase, PTL
-----------------------------------------------------------------------------
(* The stream.                                                             *)

LEMMA Typed ==
  ASSUME TypeOK
  PROVE  /\ Fetched \in Nat /\ rcv_nxt \in Nat /\ Len(recvmbox) \in Nat
         /\ SegLen * rcv_nxt \in Nat /\ position \in Nat /\ lastoffset \in Nat
         /\ \A i \in 1..Len(recvmbox) : recvmbox[i] \in Nat
<1>1. position \in Nat /\ rcv_nxt \in Nat /\ lastdata \in Nat /\ lastoffset \in Nat
  BY Constants, Bytes DEF TypeOK
<1>2. recvmbox \in Seq(0..Segs) /\ Len(recvmbox) \in Nat
  BY LenProperties DEF TypeOK
<1>3. \A i \in 1..Len(recvmbox) : recvmbox[i] \in Nat
  <2> SUFFICES ASSUME NEW i \in 1..Len(recvmbox) PROVE recvmbox[i] \in Nat
    OBVIOUS
  <2>1. recvmbox[i] \in 0..Segs
    BY <1>2, ElementOfSeq
  <2> QED
    BY <2>1, Constants
<1>4. position \div SegLen \in Nat
  BY <1>1, Constants
<1> QED
  BY <1>1, <1>2, <1>3, <1>4, Bytes DEF Fetched

\* A roomy queue always has room for one message more.
LEMMA RoomIsThere ==
  ASSUME BaseInv, Roomy, ~ freed
  PROVE  sys_mbox_valid
<1>1. One(fin) \in Nat /\ One(fin) <= 1 /\ One(pcb = "gone") \in Nat /\ One(pcb = "gone") <= 1
  BY DEF One
<1>2. OSQSize \in Nat /\ Len(recvmbox) \in Nat
  BY Constants, LenProperties DEF BaseInv, TypeOK
<1>3. Len(recvmbox) <= WholeSegments + One(fin) + One(pcb = "gone")
  BY DEF BaseInv, Queue
<1> QED
  BY <1>1, <1>2, <1>3, WindowHolds DEF Roomy, sys_mbox_valid

LEMMA InitStream == Init => StreamInv
<1> SUFFICES ASSUME Init PROVE StreamInv
  OBVIOUS
<1>1. Fetched = 0
  <2>1. SegLen * 0 = 0 /\ (SegLen * 0) \div SegLen = 0
    BY WholeDiv, Constants
  <2> QED
    BY <2>1 DEF Init, Fetched
<1>2. SegLen * 0 = 0
  BY Constants
<1>3. Len(recvmbox) = 0
  BY EmptySeq DEF Init
<1>4. Ordered /\ Kept
  BY <1>1, <1>3 DEF Init, Ordered, Kept
<1>5. Position
  BY <1>1, <1>2 DEF Init, Position
<1>6. EndSeen /\ RoomyIsFreed
  BY DEF Init, EndSeen, RoomyIsFreed, ClosedIsFreed
<1> QED
  BY <1>4, <1>5, <1>6 DEF StreamInv

\* A step that neither moves a segment nor copies a byte.
LEMMA StreamKept ==
  ASSUME StreamInv, pc # "closed", pc' # "closed",
         UNCHANGED <<OSQSize, recvmbox, rcv_nxt, lastdata, lastoffset, position>>,
         Roomy /\ pcb' = "up" /\ (pc' = "eof" \/ last_err' = "clsd") =>
           Fetched = rcv_nxt /\ lastdata = 0
  PROVE  StreamInv'
<1>1. Fetched' = Fetched /\ Roomy' = Roomy
  BY DEF Fetched, Roomy
<1>2. Ordered'
  BY <1>1 DEF StreamInv, Ordered
<1>3. Position'
  BY <1>1 DEF StreamInv, Position
<1>4. Kept'
  BY <1>1 DEF StreamInv, Kept
<1>5. EndSeen'
  BY <1>1 DEF EndSeen
<1>6. RoomyIsFreed'
  BY DEF RoomyIsFreed, ClosedIsFreed
<1> QED
  BY <1>2, <1>3, <1>4, <1>5, <1>6 DEF StreamInv

LEMMA SegmentStream == BaseInv /\ StreamInv /\ Segment => StreamInv'
<1> SUFFICES ASSUME BaseInv, StreamInv, Segment PROVE StreamInv'
  OBVIOUS
<1>0. TypeOK /\ Places /\ Queue /\ Ordered /\ Position /\ Kept /\ EndSeen
  BY DEF BaseInv, StreamInv
<1>1. /\ UNCHANGED <<OSQSize, freed, fin, pcb, pc, lastdata, lastoffset, position>>
      /\ rcv_nxt' = rcv_nxt + 1 /\ pcb = "up" /\ ~ fin /\ pc # "closed" /\ ~ freed
  BY <1>0 DEF Segment, reader, Places
<1>2. Fetched' = Fetched /\ Roomy' = Roomy
  BY <1>1 DEF Fetched, Roomy
<1>3. /\ Fetched \in Nat /\ rcv_nxt \in Nat /\ Len(recvmbox) \in Nat
      /\ \A i \in 1..Len(recvmbox) : recvmbox[i] \in Nat
  BY <1>0, Typed
<1>4. /\ Fetched <= rcv_nxt
      /\ \A i \in 1..Len(recvmbox) :
           recvmbox[i] # NULL => Fetched < recvmbox[i] /\ recvmbox[i] <= rcv_nxt
      /\ \A i, j \in 1..Len(recvmbox) :
           i < j /\ recvmbox[i] # NULL /\ recvmbox[j] # NULL => recvmbox[i] < recvmbox[j]
  BY <1>0, <1>1 DEF Ordered
<1>5. Position'
  BY <1>0, <1>1, <1>2 DEF Position
<1>6. EndSeen' /\ RoomyIsFreed'
  <2>1. ~ (pc = "eof" \/ last_err = "clsd")
    BY <1>0, <1>1 DEF Queue
  <2>2. ~ (pc' = "eof" \/ last_err' = "clsd")
    BY <1>1, <2>1 DEF Segment, RecvData, SafeErr
  <2> QED
    BY <1>1, <2>2 DEF EndSeen, RoomyIsFreed, ClosedIsFreed
<1>7. CASE sys_mbox_valid
  <2>1. Post(rcv_nxt + 1) /\ rcv_nxt + 1 \in 0..Segs
    BY <1>0, <1>7, Constants DEF Segment, RecvData, TypeOK
  <2>2. /\ Len(recvmbox') = Len(recvmbox) + 1
        /\ \A i \in 1..Len(recvmbox) : recvmbox'[i] = recvmbox[i]
        /\ recvmbox'[Len(recvmbox) + 1] = rcv_nxt + 1
    BY <1>0, <1>7, <2>1, Posted
  <2>3. \A i \in 1..Len(recvmbox') : i \in 1..Len(recvmbox) \/ i = Len(recvmbox) + 1
    BY <1>3, <2>2
  <2>4. Ordered'
    <3>1. \A i \in 1..Len(recvmbox') :
            recvmbox'[i] # NULL => Fetched < recvmbox'[i] /\ recvmbox'[i] <= rcv_nxt + 1
      BY <1>3, <1>4, <2>2, <2>3
    <3>2. ASSUME NEW i \in 1..Len(recvmbox'), NEW j \in 1..Len(recvmbox'),
                 i < j, recvmbox'[i] # NULL, recvmbox'[j] # NULL
          PROVE  recvmbox'[i] < recvmbox'[j]
      <4>1. i \in 1..Len(recvmbox)
        BY <1>3, <2>2, <3>2
      <4>2. recvmbox'[i] = recvmbox[i] /\ recvmbox[i] <= rcv_nxt /\ recvmbox[i] \in Nat
        BY <1>3, <1>4, <2>2, <3>2, <4>1
      <4>3. CASE j = Len(recvmbox) + 1
        BY <1>3, <2>2, <4>2, <4>3
      <4>4. CASE j \in 1..Len(recvmbox)
        BY <1>4, <2>2, <3>2, <4>1, <4>2, <4>4
      <4> QED
        BY <2>3, <4>3, <4>4
    <3>3. Fetched <= rcv_nxt + 1
      BY <1>3, <1>4
    <3> QED
      BY <1>1, <1>2, <3>1, <3>2, <3>3 DEF Ordered
  <2>5. Kept'
    <3> SUFFICES ASSUME Roomy
                 PROVE  /\ rcv_nxt' - Fetched <= Len(recvmbox')
                        /\ \A i \in 1..Len(recvmbox') :
                             recvmbox'[i] = IF Fetched + i <= rcv_nxt' THEN Fetched + i ELSE NULL
      BY <1>1, <1>2 DEF Kept
    <3>1. /\ rcv_nxt - Fetched <= Len(recvmbox)
          /\ \A i \in 1..Len(recvmbox) :
               recvmbox[i] = IF Fetched + i <= rcv_nxt THEN Fetched + i ELSE NULL
      BY <1>0, <1>1 DEF Kept
    <3>2. \A i \in 1..Len(recvmbox) : recvmbox[i] # NULL
      BY <1>0, <1>1 DEF Queue
    <3>3. ASSUME NEW i \in 1..Len(recvmbox)
          PROVE  Fetched + i <= rcv_nxt /\ recvmbox[i] = Fetched + i
      <4>1. recvmbox[i] # NULL
        BY <3>2
      <4>2. recvmbox[i] = IF Fetched + i <= rcv_nxt THEN Fetched + i ELSE NULL
        BY <3>1
      <4> QED
        BY <4>1, <4>2
    <3>4. Fetched + Len(recvmbox) = rcv_nxt
      <4>1. CASE Len(recvmbox) = 0
        BY <1>3, <1>4, <3>1, <4>1
      <4>2. CASE Len(recvmbox) \in 1..Len(recvmbox)
        BY <1>3, <3>1, <3>3, <4>2
      <4> QED
        BY <1>3, <4>1, <4>2
    <3>5. ASSUME NEW i \in 1..Len(recvmbox')
          PROVE  recvmbox'[i] = Fetched + i /\ Fetched + i <= rcv_nxt + 1
      <4>1. CASE i \in 1..Len(recvmbox)
        BY <1>3, <2>2, <3>3, <4>1
      <4>2. CASE i = Len(recvmbox) + 1
        BY <1>3, <2>2, <3>4, <4>2
      <4> QED
        BY <2>3, <4>1, <4>2
    <3> QED
      BY <1>1, <1>3, <2>2, <3>4, <3>5
  <2> QED
    BY <1>5, <1>6, <2>4, <2>5 DEF StreamInv
<1>8. CASE ~ sys_mbox_valid
  <2>1. recvmbox' = recvmbox
    BY <1>8 DEF Segment, RecvData
  <2>2. ~ Roomy
    BY <1>1, <1>8, RoomIsThere
  <2>3. Kept'
    BY <1>2, <2>2 DEF Kept
  <2>4. Ordered'
    <3>1. \A i \in 1..Len(recvmbox) :
            recvmbox[i] # NULL => Fetched < recvmbox[i] /\ recvmbox[i] <= rcv_nxt + 1
      BY <1>3, <1>4
    <3>2. Fetched <= rcv_nxt + 1
      BY <1>3, <1>4
    <3> QED
      BY <1>1, <1>2, <1>4, <2>1, <3>1, <3>2 DEF Ordered
  <2> QED
    BY <1>5, <1>6, <2>3, <2>4 DEF StreamInv
<1> QED
  BY <1>7, <1>8

LEMMA NullStream == BaseInv /\ StreamInv /\ (Fin \/ Abort) => StreamInv'
<1> SUFFICES ASSUME BaseInv, StreamInv, Fin \/ Abort PROVE StreamInv'
  OBVIOUS
<1>0. TypeOK /\ Places /\ Queue /\ Ordered /\ Position /\ Kept /\ EndSeen
  BY DEF BaseInv, StreamInv
<1>1. /\ UNCHANGED <<OSQSize, freed, rcv_nxt, pc, lastdata, lastoffset, position>>
      /\ pcb = "up" /\ pc # "closed" /\ ~ freed
  BY <1>0 DEF Fin, Abort, reader, Places
<1>2. Fetched' = Fetched /\ Roomy' = Roomy
  BY <1>1 DEF Fetched, Roomy
<1>3. EndSeen' /\ RoomyIsFreed'
  <2>1. CASE Fin
    <3>1. ~ (pc = "eof" \/ last_err = "clsd")
      BY <1>0, <2>1 DEF Queue, Fin
    <3>2. ~ (pc' = "eof" \/ last_err' = "clsd")
      BY <1>1, <2>1, <3>1 DEF Fin, RecvEnd, SafeErr
    <3> QED
      BY <1>1, <3>2 DEF EndSeen, RoomyIsFreed, ClosedIsFreed
  <2>2. CASE Abort
    BY <1>1, <2>2 DEF Abort, EndSeen, RoomyIsFreed, ClosedIsFreed
  <2> QED
    BY <2>1, <2>2
<1>4. Position'
  BY <1>0, <1>1, <1>2 DEF Position
<1>5. /\ Fetched \in Nat /\ rcv_nxt \in Nat /\ Len(recvmbox) \in Nat
  BY <1>0, Typed
<1>6. CASE recvmbox' = recvmbox
  <2>1. Ordered' /\ Kept'
    BY <1>0, <1>1, <1>2, <1>6 DEF Ordered, Kept
  <2> QED
    BY <1>3, <1>4, <2>1 DEF StreamInv
<1>7. CASE sys_mbox_valid /\ Post(NULL)
  <2>1. NULL \in 0..Segs
    BY Constants DEF NULL
  <2>2. /\ Len(recvmbox') = Len(recvmbox) + 1
        /\ \A i \in 1..Len(recvmbox) : recvmbox'[i] = recvmbox[i]
        /\ recvmbox'[Len(recvmbox) + 1] = NULL
    BY <1>0, <1>7, <2>1, Posted
  <2>3. \A i \in 1..Len(recvmbox') : i \in 1..Len(recvmbox) \/ i = Len(recvmbox) + 1
    BY <1>5, <2>2
  <2>4. \A i \in 1..Len(recvmbox') :
          recvmbox'[i] # NULL => i \in 1..Len(recvmbox) /\ recvmbox'[i] = recvmbox[i]
    BY <2>2, <2>3
  <2>5. Ordered'
    <3>1. \A i \in 1..Len(recvmbox') :
            recvmbox'[i] # NULL => Fetched < recvmbox'[i] /\ recvmbox'[i] <= rcv_nxt
      BY <1>0, <1>1, <2>4 DEF Ordered
    <3>2. \A i, j \in 1..Len(recvmbox') :
            i < j /\ recvmbox'[i] # NULL /\ recvmbox'[j] # NULL => recvmbox'[i] < recvmbox'[j]
      BY <1>0, <1>1, <2>4 DEF Ordered
    <3>3. Fetched <= rcv_nxt
      BY <1>0, <1>1 DEF Ordered
    <3> QED
      BY <1>1, <1>2, <3>1, <3>2, <3>3 DEF Ordered
  <2>6. Kept'
    <3> SUFFICES ASSUME Roomy
                 PROVE  /\ rcv_nxt - Fetched <= Len(recvmbox')
                        /\ \A i \in 1..Len(recvmbox') :
                             recvmbox'[i] = IF Fetched + i <= rcv_nxt THEN Fetched + i ELSE NULL
      BY <1>1, <1>2 DEF Kept
    <3>1. /\ rcv_nxt - Fetched <= Len(recvmbox)
          /\ \A i \in 1..Len(recvmbox) :
               recvmbox[i] = IF Fetched + i <= rcv_nxt THEN Fetched + i ELSE NULL
      BY <1>0, <1>1 DEF Kept
    <3>2. ~ (Fetched + (Len(recvmbox) + 1) <= rcv_nxt)
      BY <1>5, <3>1
    <3> QED
      BY <1>5, <2>2, <2>3, <3>1, <3>2
  <2> QED
    BY <1>3, <1>4, <2>5, <2>6 DEF StreamInv
<1> QED
  BY <1>6, <1>7 DEF Fin, Abort, RecvEnd

\* recv() between its copies.
LEMMA WaitStream ==
  BaseInv /\ StreamInv /\ (Recv \/ Enter \/ FetchTimeout \/ FetchedNull \/ Recved) => StreamInv'
<1> SUFFICES ASSUME BaseInv, StreamInv,
                    Recv \/ Enter \/ FetchTimeout \/ FetchedNull \/ Recved
             PROVE  StreamInv'
  OBVIOUS
<1>0. TypeOK /\ Places /\ EndSeen
  BY DEF BaseInv, StreamInv
<1>1. UNCHANGED <<OSQSize, recvmbox, rcv_nxt, fin, pcb, lastdata, lastoffset, position>>
  BY DEF Recv, Enter, FetchTimeout, FetchedNull, Recved, network, Return
<1>2. pc # "closed" /\ pc' # "closed" /\ pc' # "eof"
  BY DEF Recv, Enter, FetchTimeout, FetchedNull, Recved, Return
<1>3. last_err' = "clsd" => last_err = "clsd" \/ pc = "eof"
  BY DEF Recv, Enter, FetchTimeout, FetchedNull, Recved, SafeErr
<1>4. Roomy /\ pcb' = "up" /\ (pc' = "eof" \/ last_err' = "clsd") =>
        Fetched = rcv_nxt /\ lastdata = 0
  BY <1>0, <1>1, <1>2, <1>3 DEF EndSeen
<1> QED
  BY <1>1, <1>2, <1>4, StreamKept

LEMMA FetchStream == BaseInv /\ StreamInv /\ Fetch => StreamInv'
<1> SUFFICES ASSUME BaseInv, StreamInv, Fetch PROVE StreamInv'
  OBVIOUS
<1>0. TypeOK /\ Places /\ Ordered /\ Position /\ Kept /\ EndSeen
  BY DEF BaseInv, StreamInv
<1>1. /\ Head(recvmbox) \in 0..Segs /\ Head(recvmbox) = recvmbox[1]
      /\ 1 \in 1..Len(recvmbox) /\ Len(recvmbox') = Len(recvmbox) - 1
      /\ \A i \in 1..(Len(recvmbox) - 1) : recvmbox'[i] = recvmbox[i + 1]
  BY <1>0, Fetching DEF Fetch
<1>2. /\ UNCHANGED <<OSQSize, freed, rcv_nxt, fin, pcb, last_err, position>>
      /\ lastdata = 0 /\ pc = "fetch" /\ pc' \in {"eof", "copy"}
  BY <1>0 DEF Fetch, Places, network
<1>3. /\ Fetched \in Nat /\ rcv_nxt \in Nat /\ Len(recvmbox) \in Nat
      /\ \A i \in 1..Len(recvmbox) : recvmbox[i] \in Nat
  BY <1>0, Typed
<1>4. \A i \in 1..Len(recvmbox') :
        i \in 1..(Len(recvmbox) - 1) /\ i + 1 \in 1..Len(recvmbox) /\ i + 1 > 1
  BY <1>1, <1>3
<1>5. Roomy' = Roomy
  BY <1>2 DEF Roomy
<1>6. /\ Fetched <= rcv_nxt
      /\ \A i \in 1..Len(recvmbox) :
           recvmbox[i] # NULL => Fetched < recvmbox[i] /\ recvmbox[i] <= rcv_nxt
      /\ \A i, j \in 1..Len(recvmbox) :
           i < j /\ recvmbox[i] # NULL /\ recvmbox[j] # NULL => recvmbox[i] < recvmbox[j]
  BY <1>0, <1>2 DEF Ordered
<1>7. ASSUME Roomy
      PROVE  /\ rcv_nxt - Fetched <= Len(recvmbox)
             /\ \A i \in 1..Len(recvmbox) :
                  recvmbox[i] = IF Fetched + i <= rcv_nxt THEN Fetched + i ELSE NULL
  BY <1>0, <1>2, <1>7 DEF Kept
<1>8. \A i, j \in 1..Len(recvmbox') :
        i < j /\ recvmbox'[i] # NULL /\ recvmbox'[j] # NULL => recvmbox'[i] < recvmbox'[j]
  <2> SUFFICES ASSUME NEW i \in 1..Len(recvmbox'), NEW j \in 1..Len(recvmbox'),
                      i < j, recvmbox'[i] # NULL, recvmbox'[j] # NULL
               PROVE  recvmbox'[i] < recvmbox'[j]
    OBVIOUS
  <2>1. i + 1 \in 1..Len(recvmbox) /\ j + 1 \in 1..Len(recvmbox) /\ i + 1 < j + 1
    BY <1>3, <1>4
  <2>2. recvmbox'[i] = recvmbox[i + 1] /\ recvmbox'[j] = recvmbox[j + 1]
    BY <1>1, <1>4
  <2> QED
    BY <1>6, <2>1, <2>2
<1>9. RoomyIsFreed'
  BY <1>2 DEF RoomyIsFreed, ClosedIsFreed
<1>10. CASE Head(recvmbox) = NULL
  <2>1. lastdata' = 0 /\ Fetched' = Fetched
    BY <1>2, <1>10 DEF Fetch, Fetched
  <2>2. ASSUME Roomy PROVE Fetched = rcv_nxt
    <3>1. ~ (Fetched + 1 <= rcv_nxt)
      <4>1. recvmbox[1] = IF Fetched + 1 <= rcv_nxt THEN Fetched + 1 ELSE NULL
        BY <1>1, <1>7, <2>2
      <4>2. Fetched + 1 # NULL
        BY <1>3 DEF NULL
      <4> QED
        BY <1>1, <1>10, <4>1, <4>2
    <3> QED
      BY <1>3, <1>6, <3>1
  <2>3. Ordered'
    <3>1. \A i \in 1..Len(recvmbox') :
            recvmbox'[i] # NULL => Fetched < recvmbox'[i] /\ recvmbox'[i] <= rcv_nxt
      BY <1>1, <1>4, <1>6
    <3> QED
      BY <1>2, <1>6, <1>8, <2>1, <3>1 DEF Ordered
  <2>4. Position'
    BY <1>0, <1>2, <2>1 DEF Position
  <2>5. Kept'
    <3> SUFFICES ASSUME Roomy
                 PROVE  /\ rcv_nxt - Fetched <= Len(recvmbox')
                        /\ \A i \in 1..Len(recvmbox') :
                             recvmbox'[i] = IF Fetched + i <= rcv_nxt THEN Fetched + i ELSE NULL
      BY <1>2, <1>5, <2>1 DEF Kept
    <3>1. Fetched = rcv_nxt
      BY <2>2
    <3>2. ASSUME NEW i \in 1..Len(recvmbox')
          PROVE  recvmbox'[i] = NULL /\ ~ (Fetched + i <= rcv_nxt)
      <4>1. recvmbox'[i] = recvmbox[i + 1] /\ i + 1 \in 1..Len(recvmbox)
        BY <1>1, <1>4
      <4>2. ~ (Fetched + (i + 1) <= rcv_nxt) /\ ~ (Fetched + i <= rcv_nxt)
        BY <1>1, <1>3, <3>1
      <4> QED
        BY <1>7, <4>1, <4>2
    <3> QED
      BY <1>1, <1>3, <3>1, <3>2
  <2>6. EndSeen'
    BY <1>2, <1>5, <2>1, <2>2 DEF EndSeen
  <2> QED
    BY <1>9, <2>3, <2>4, <2>5, <2>6 DEF StreamInv
<1>11. CASE Head(recvmbox) # NULL
  <2> DEFINE h == Head(recvmbox)
  <2>1. /\ pc' = "copy" /\ lastdata' = h /\ lastoffset' = 0
        /\ lastdata' # 0 /\ Fetched' = h
    BY <1>11 DEF Fetch, NULL, Fetched
  <2>2. h \in Nat /\ Fetched < h /\ h <= rcv_nxt /\ h = recvmbox[1] /\ h # NULL
    BY <1>1, <1>3, <1>6, <1>11
  <2>3. Roomy => h = Fetched + 1
    BY <1>1, <1>7, <2>2
  <2> HIDE DEF h
  <2>4. Ordered'
    <3>1. ASSUME NEW i \in 1..Len(recvmbox'), recvmbox'[i] # NULL
          PROVE  h < recvmbox'[i] /\ recvmbox'[i] <= rcv_nxt
      <4>1. recvmbox'[i] = recvmbox[i + 1] /\ i + 1 \in 1..Len(recvmbox) /\ 1 < i + 1
        BY <1>1, <1>4
      <4> QED
        BY <1>1, <1>6, <2>2, <3>1, <4>1
    <3> QED
      BY <1>2, <1>8, <2>1, <2>2, <3>1 DEF Ordered
  <2>5. Position'
    <3>1. position = SegLen * Fetched
      BY <1>0, <1>2 DEF Position
    <3>2. h - 1 \in Nat /\ Fetched <= h - 1
      BY <1>3, <2>2
    <3>3. SegLen * Fetched <= SegLen * (h - 1) /\ SegLen * (h - 1) \in Nat
      BY <1>3, <3>2, Bytes
    <3>4. Roomy => Fetched = h - 1
      BY <1>3, <2>2, <2>3
    <3>5. SegLen * (h - 1) + 0 = SegLen * (h - 1)
      BY <3>3
    <3> QED
      BY <1>2, <1>5, <2>1, <3>1, <3>3, <3>4, <3>5 DEF Position
  <2>6. Kept'
    <3> SUFFICES ASSUME Roomy
                 PROVE  /\ rcv_nxt - h <= Len(recvmbox')
                        /\ \A i \in 1..Len(recvmbox') :
                             recvmbox'[i] = IF h + i <= rcv_nxt THEN h + i ELSE NULL
      BY <1>2, <1>5, <2>1 DEF Kept
    <3>1. ASSUME NEW i \in 1..Len(recvmbox')
          PROVE  recvmbox'[i] = IF h + i <= rcv_nxt THEN h + i ELSE NULL
      <4>1. recvmbox'[i] = recvmbox[i + 1] /\ i + 1 \in 1..Len(recvmbox)
        BY <1>1, <1>4
      <4>2. recvmbox[i + 1] = IF Fetched + (i + 1) <= rcv_nxt THEN Fetched + (i + 1) ELSE NULL
        BY <1>7, <4>1
      <4>3. Fetched + (i + 1) = h + i
        BY <1>1, <1>3, <2>3
      <4> QED
        BY <4>1, <4>2, <4>3
    <3> QED
      BY <1>1, <1>3, <1>7, <2>3, <3>1
  <2>7. EndSeen'
    <3>1. Roomy => Fetched # rcv_nxt
      BY <1>3, <2>2, <2>3
    <3> QED
      BY <1>0, <1>2, <1>5, <2>1, <3>1 DEF EndSeen
  <2> QED
    BY <1>9, <2>4, <2>5, <2>6, <2>7 DEF StreamInv
<1> QED
  BY <1>10, <1>11

LEMMA CopyStream == BaseInv /\ StreamInv /\ Copy => StreamInv'
<1> SUFFICES ASSUME BaseInv, StreamInv, Copy PROVE StreamInv'
  OBVIOUS
<1>0. TypeOK /\ Places /\ Ordered /\ Position /\ Kept /\ EndSeen
  BY DEF BaseInv, StreamInv
<1>1. /\ UNCHANGED <<OSQSize, recvmbox, freed, rcv_nxt, fin, pcb, last_err>>
      /\ pc = "copy" /\ lastdata # 0 /\ pc' \in {"recved", "copy", "loop"}
      /\ position' = SegLen * (lastdata - 1) + lastoffset + 1
  BY <1>0 DEF Copy, Places, network
<1>2. lastdata \in Nat /\ SegLen \in Nat /\ lastoffset \in 0..(SegLen - 1)
  BY <1>0, Constants DEF TypeOK
<1>3. /\ SegLen * (lastdata - 1) \in Nat
      /\ SegLen * (lastdata - 1) + SegLen = SegLen * lastdata
  BY <1>0, <1>1, CopiedByte
<1>4. Fetched = lastdata /\ Roomy' = Roomy
  BY <1>1 DEF Fetched, Roomy
<1>5. /\ Fetched' = lastdata
      /\ lastdata' = 0 => position' = SegLen * Fetched'
      /\ lastdata' # 0 => position' = SegLen * (lastdata' - 1) + lastoffset'
  <2>1. CASE lastoffset + 1 < SegLen
    BY <1>1, <1>2, <1>3, <2>1 DEF Copy, Fetched
  <2>2. CASE ~ (lastoffset + 1 < SegLen)
    <3>1. lastdata' = 0 /\ position' = SegLen * lastdata
      BY <1>1, <1>2, <1>3, <2>2 DEF Copy
    <3>2. position' \div SegLen = lastdata
      BY <1>2, <3>1, WholeDiv
    <3> QED
      BY <3>1, <3>2 DEF Fetched
  <2> QED
    BY <2>1, <2>2
<1>6. Fetched' = Fetched
  BY <1>4, <1>5
<1>7. Ordered' /\ Kept'
  BY <1>0, <1>1, <1>4, <1>6 DEF Ordered, Kept
<1>8. Position'
  <2>1. lastdata' # 0 => lastdata' = lastdata /\ lastoffset' \in Nat
    BY <1>2 DEF Copy
  <2>2. lastdata' # 0 => SegLen * (lastdata' - 1) + lastoffset' <= SegLen * (lastdata' - 1) + lastoffset'
    BY <1>3, <2>1
  <2> QED
    BY <1>5, <2>2 DEF Position
<1>9. EndSeen' /\ RoomyIsFreed'
  BY <1>0, <1>1, <1>4 DEF EndSeen, RoomyIsFreed, ClosedIsFreed
<1> QED
  BY <1>7, <1>8, <1>9 DEF StreamInv

LEMMA CloseStream == BaseInv /\ StreamInv /\ Close => StreamInv'
<1> SUFFICES ASSUME BaseInv, StreamInv, Close PROVE StreamInv'
  OBVIOUS
<1>1. pc' = "closed" /\ pcb' = "gone" /\ Roomy' = Roomy
  BY DEF Close, Roomy
<1>2. ~ freed
  BY DEF Close, BaseInv, Places
<1>3. Roomy => freed'
  BY <1>2, RoomIsThere DEF Close
<1>4. RoomyIsFreed'
  BY <1>1, <1>3 DEF RoomyIsFreed, ClosedIsFreed
<1> QED
  BY <1>1, <1>4 DEF StreamInv, Ordered, Position, Kept, EndSeen

LEMMA NextIInv == IInv /\ [Next]_vars => IInv'
<1> SUFFICES ASSUME IInv, [Next]_vars PROVE IInv'
  OBVIOUS
<1>0. BaseInv /\ StreamInv
  BY DEF IInv
<1>1. BaseInv'
  BY <1>0, NextBase
<1>2. StreamInv'
  <2>1. CASE Segment \/ Fin \/ Abort
    BY <1>0, <2>1, SegmentStream, NullStream
  <2>2. CASE Recv \/ Enter \/ FetchTimeout \/ FetchedNull \/ Recved
    BY <1>0, <2>2, WaitStream
  <2>3. CASE Fetch \/ Copy \/ Close
    BY <1>0, <2>3, FetchStream, CopyStream, CloseStream
  <2>4. CASE UNCHANGED vars
    <3>1. /\ UNCHANGED <<OSQSize, recvmbox, freed, rcv_nxt, fin, pcb, rcv_wnd, last_err,
                         pc, lastdata, lastoffset, position>>
      BY <2>4 DEF vars, network, reader
    <3>2. Fetched' = Fetched /\ Roomy' = Roomy
      BY <3>1 DEF Fetched, Roomy
    <3> QED
      BY <1>0, <3>1, <3>2 DEF StreamInv, Ordered, Position, Kept, EndSeen, RoomyIsFreed,
           ClosedIsFreed
  <2> QED
    BY <2>1, <2>2, <2>3, <2>4 DEF Next, Reading
<1> QED
  BY <1>1, <1>2 DEF IInv

LEMMA AlwaysIInv == Spec => []IInv
<1>1. Init => IInv
  BY InitBase, InitStream DEF IInv
<1> QED
  BY <1>1, NextIInv, PTL DEF Spec

\* recv_tcp, however it interleaves with recv(), loses no acknowledged segment
\* of a roomy queue: each is read, being read, or waits at its place.
THEOREM NothingAckedIsLost == Spec => []AckedIsKept
<1>1. IInv => AckedIsKept
  <2> SUFFICES ASSUME IInv, Roomy, ~ freed, NEW n \in (Fetched + 1)..rcv_nxt
               PROVE  n - Fetched \in DOMAIN recvmbox /\ recvmbox[n - Fetched] = n
    BY DEF AckedIsKept
  <2>1. pc # "closed"
    BY DEF IInv, StreamInv, RoomyIsFreed, ClosedIsFreed
  <2>2. /\ rcv_nxt - Fetched <= Len(recvmbox)
        /\ \A i \in 1..Len(recvmbox) :
             recvmbox[i] = IF Fetched + i <= rcv_nxt THEN Fetched + i ELSE NULL
    BY <2>1 DEF IInv, StreamInv, Kept
  <2>3. Fetched \in Nat /\ rcv_nxt \in Nat /\ Len(recvmbox) \in Nat
    BY Typed DEF IInv, BaseInv
  <2>4. n - Fetched \in 1..Len(recvmbox) /\ Fetched + (n - Fetched) = n /\ n <= rcv_nxt
    BY <2>2, <2>3
  <2>5. DOMAIN recvmbox = 1..Len(recvmbox)
    BY LenProperties DEF IInv, BaseInv, TypeOK
  <2> QED
    BY <2>2, <2>4, <2>5
<1> QED
  BY <1>1, AlwaysIInv, PTL

\* close() frees a roomy queue and what is in it, whatever happened before.
THEOREM RoomyQueueIsFreed == Spec => []RoomyIsFreed
<1>1. IInv => RoomyIsFreed
  BY DEF IInv, StreamInv
<1> QED
  BY <1>1, AlwaysIInv, PTL
-----------------------------------------------------------------------------
(* Netconn implements ByteStream.                                          *)

LEMMA InitMaps == Init => Stream!Init
<1> SUFFICES ASSUME Init PROVE Stream!Init
  OBVIOUS
<1>1. SegLen * 0 = 0
  BY Constants
<1> QED
  BY <1>1 DEF Init, Stream!Init

\* A segment is acknowledged, a connection ends: nothing is read.
LEMMA ConnectionMaps ==
  IInv /\ (Segment \/ Fin \/ Abort \/ Close) => [Stream!Next]_(Stream!stream)
<1> SUFFICES ASSUME IInv, Segment \/ Fin \/ Abort \/ Close
             PROVE  [Stream!Next]_(Stream!stream)
  OBVIOUS
<1>1. UNCHANGED <<position, ended, OSQSize>>
  BY DEF Segment, Fin, Abort, Close, reader
<1>2. Roomy' = Roomy
  BY <1>1 DEF Roomy
<1>3. CASE Segment
  <2>1. rcv_nxt \in Nat /\ rcv_nxt' = rcv_nxt + 1 /\ rcv_nxt' \in Nat /\ rcv_nxt' <= Segs
    BY <1>3, Constants DEF Segment, IInv, BaseInv, TypeOK
  <2>2. /\ SegLen * rcv_nxt \in Nat /\ SegLen * rcv_nxt' \in Nat /\ SegLen * Segs \in Nat
        /\ SegLen * rcv_nxt <= SegLen * rcv_nxt' /\ SegLen * rcv_nxt' <= SegLen * Segs
    BY <2>1, Bytes, Constants
  <2>3. SegLen * rcv_nxt' \in (SegLen * rcv_nxt)..(SegLen * Segs)
    BY <2>2
  <2>4. pcb = "up" /\ pcb' = "up"
    BY <1>3 DEF Segment
  <2>5. Stream!Acknowledge
    BY <1>1, <1>2, <2>3, <2>4 DEF Stream!Acknowledge
  <2> QED
    BY <2>5 DEF Stream!Next
<1>4. CASE Fin
  <2>1. rcv_nxt' = rcv_nxt /\ pcb' = pcb
    BY <1>4 DEF Fin
  <2> QED
    BY <1>1, <1>2, <2>1 DEF Stream!stream
<1>5. CASE Abort \/ Close
  <2>1. rcv_nxt' = rcv_nxt /\ pcb' = "gone"
    BY <1>5 DEF Abort, Close
  <2>2. Stream!Break
    BY <1>1, <1>2, <2>1 DEF Stream!Break
  <2> QED
    BY <2>2 DEF Stream!Next
<1> QED
  BY <1>3, <1>4, <1>5

\* recv() copies the next byte, or is told of the end.
LEMMA CopyMaps == IInv /\ Copy => Stream!Read
<1> SUFFICES ASSUME IInv, Copy PROVE Stream!Read
  OBVIOUS
<1>0. TypeOK /\ Places /\ Ordered /\ Position
  BY DEF IInv, BaseInv, StreamInv
<1>1. /\ UNCHANGED <<OSQSize, rcv_nxt, pcb, ended>> /\ pc # "closed" /\ lastdata # 0
      /\ position' = SegLen * (lastdata - 1) + lastoffset + 1
  BY <1>0 DEF Copy, Places, network
<1>2. Roomy' = Roomy
  BY <1>1 DEF Roomy
<1>3. /\ position <= SegLen * (lastdata - 1) + lastoffset
      /\ Roomy => position = SegLen * (lastdata - 1) + lastoffset
  BY <1>0, <1>1 DEF Position
<1>4. lastdata \in Nat /\ rcv_nxt \in Nat /\ lastdata <= rcv_nxt
  BY <1>0, <1>1, Typed DEF Ordered, Fetched, TypeOK
<1>5. /\ SegLen * (lastdata - 1) \in Nat
      /\ SegLen * (lastdata - 1) + lastoffset + 1 <= SegLen * lastdata
      /\ SegLen * lastdata <= SegLen * rcv_nxt
      /\ SegLen * lastdata \in Nat /\ SegLen * rcv_nxt \in Nat
      /\ lastoffset \in Nat /\ position \in Nat
  BY <1>0, <1>1, <1>4, CopiedByte, Bytes, Typed
<1>6. position' \in (position + 1)..(SegLen * rcv_nxt)
  BY <1>1, <1>3, <1>5
<1>7. Roomy => position' = position + 1
  BY <1>1, <1>3, <1>5
<1> QED
  BY <1>1, <1>2, <1>6, <1>7 DEF Stream!Read

LEMMA EndMaps ==
  IInv /\ (Enter \/ FetchTimeout \/ FetchedNull) => [Stream!Next]_(Stream!stream)
<1> SUFFICES ASSUME IInv, Enter \/ FetchTimeout \/ FetchedNull
             PROVE  [Stream!Next]_(Stream!stream)
  OBVIOUS
<1>0. TypeOK /\ Queue /\ Position /\ EndSeen
  BY DEF IInv, BaseInv, StreamInv
<1>1. UNCHANGED <<OSQSize, rcv_nxt, pcb, position>> /\ pc # "closed"
  BY DEF Enter, FetchTimeout, FetchedNull, network, Return
<1>2. Roomy' = Roomy
  BY <1>1 DEF Roomy
<1>3. CASE ended' = ended
  BY <1>1, <1>2, <1>3 DEF Stream!stream
<1>4. CASE ended' # ended
  <2>1. ended' = TRUE /\ (pc = "eof" \/ last_err = "clsd")
    BY <1>0, <1>4 DEF Enter, FetchTimeout, FetchedNull, Return, TypeOK
  <2>2. Roomy /\ pcb = "up" => position = SegLen * Segs
    <3> SUFFICES ASSUME Roomy, pcb = "up" PROVE position = SegLen * Segs
      OBVIOUS
    <3>1. Fetched = rcv_nxt /\ lastdata = 0
      BY <1>0, <2>1 DEF EndSeen
    <3>2. rcv_nxt = Segs
      BY <1>0, <2>1 DEF Queue
    <3> QED
      BY <1>0, <1>1, <3>1, <3>2 DEF Position
  <2>3. pcb = "gone" \/ pcb = "up"
    BY <1>0 DEF TypeOK
  <2>4. Stream!End
    BY <1>1, <1>2, <2>1, <2>2, <2>3 DEF Stream!End
  <2> QED
    BY <2>4 DEF Stream!Next
<1> QED
  BY <1>3, <1>4

LEMMA StepMaps == IInv /\ [Next]_vars => [Stream!Next]_(Stream!stream)
<1> SUFFICES ASSUME IInv, [Next]_vars PROVE [Stream!Next]_(Stream!stream)
  OBVIOUS
<1>1. CASE Segment \/ Fin \/ Abort \/ Close
  BY <1>1, ConnectionMaps
<1>2. CASE Copy
  BY <1>2, CopyMaps DEF Stream!Next
<1>3. CASE Enter \/ FetchTimeout \/ FetchedNull
  BY <1>3, EndMaps
<1>4. CASE Recv \/ Fetch \/ Recved \/ UNCHANGED vars
  <2>1. UNCHANGED <<OSQSize, rcv_nxt, pcb, position, ended>>
    BY <1>4 DEF Recv, Fetch, Recved, vars, network, reader
  <2>2. Roomy' = Roomy
    BY <2>1 DEF Roomy
  <2> QED
    BY <2>1, <2>2 DEF Stream!stream
<1> QED
  BY <1>1, <1>2, <1>3, <1>4 DEF Next, Reading

\* The receive path of lwIP on this port delivers the peer's bytes in order,
\* none twice; from a roomy queue also none missing, and the end behind them.
THEOREM ImplementsByteStream == Spec => DeliversStream
BY InitMaps, StepMaps, AlwaysIInv, PTL DEF Spec, DeliversStream, Stream!Spec
=============================================================================
