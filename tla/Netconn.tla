------------------------------ MODULE Netconn ------------------------------
(***************************************************************************)
(* The receiving half of one TCP connection: tcpip_thread, which puts      *)
(* segments into the connection's recvmbox (recv_tcp, err_tcp and          *)
(* do_delconn of lwIP's api_msg.c), and the task that reads them (recv()   *)
(* and close(), as mqtt_thread calls them).  Between the two is the queue  *)
(* of sys_arch.c.                                                          *)
(*                                                                         *)
(* tcpip_thread has the higher priority and runs a handler to its end; it  *)
(* may do so between any two steps of the task.  Segments have one length, *)
(* and segment n carries the bytes SegLen * (n - 1) + 1 to SegLen * n.     *)
(* sys_mbox_valid is asked before each post, and only tcpip_thread posts:  *)
(* a post cannot fail, and recv_tcp never refuses data.                    *)
(***************************************************************************)
EXTENDS Integers, Sequences, FiniteSets

CONSTANTS
  QueueSizes,   \* the sizes sys_mbox_new is called with
  PoolSize,     \* PBUF_POOL_SIZE: one pbuf holds one segment
  TCP_WND,      \* the receive window, in bytes
  SegLen,       \* bytes of a segment
  Segs,         \* bound: segments the peer sends before it closes
  MaxLen        \* bound: bytes one recv() asks for

ASSUME ConstantsAssumption ==
  /\ QueueSizes \subseteq Nat \ {0}
  /\ PoolSize \in Nat \ {0} /\ TCP_WND \in Nat \ {0} /\ SegLen \in Nat \ {0}
  /\ Segs \in Nat /\ MaxLen \in Nat \ {0}

VARIABLES
  OSQSize,      \* the size of the queue behind recvmbox
  recvmbox,     \* segments, or NULL, which wakes the reader at the end
  freed,        \* recvmbox was deleted
  rcv_nxt,      \* segments acknowledged
  fin,          \* the peer's FIN was acknowledged
  rcv_wnd,      \* bytes the peer may still send
  pcb,          \* "up", or "gone" after an error or the close
  last_err,     \* "ok", "timeout", and the fatal "clsd" and "rst"
  pc,           \* where the reading task is
  len, off,     \* lwip_recvfrom: bytes wanted and bytes copied
  lastdata, lastoffset,   \* the segment being read (0: none)
  position, ended         \* history: the byte read last; recv() returned 0

network == <<rcv_nxt, fin, pcb>>
reader == <<pc, len, off, lastdata, lastoffset, position, ended>>
vars == <<OSQSize, recvmbox, freed, network, rcv_wnd, last_err, reader>>

NULL == 0
Fatal(e) == e \in {"clsd", "rst"}

\* NETCONN_SET_SAFE_ERR: a fatal error stays.
SafeErr(e) == IF Fatal(last_err) THEN last_err ELSE e

PbufsInUse ==
  Cardinality({i \in DOMAIN recvmbox : recvmbox[i] # NULL})
    + (IF lastdata = 0 THEN 0 ELSE 1)

TypeOK ==
  /\ OSQSize \in QueueSizes
  /\ recvmbox \in Seq(0..Segs) /\ Len(recvmbox) <= OSQSize
  /\ freed \in BOOLEAN /\ fin \in BOOLEAN /\ ended \in BOOLEAN
  /\ rcv_nxt \in 0..Segs /\ rcv_wnd \in 0..TCP_WND
  /\ pcb \in {"up", "gone"} /\ last_err \in {"ok", "timeout", "clsd", "rst"}
  /\ pc \in {"idle", "loop", "fetch", "eof", "copy", "recved", "closed"}
  /\ len \in 0..MaxLen /\ off \in 0..MaxLen /\ len + off <= MaxLen
  /\ lastdata \in 0..Segs /\ lastoffset \in 0..(SegLen - 1)
  /\ position \in 0..(SegLen * Segs)
-----------------------------------------------------------------------------
(* sys_arch.c: the queue.                                                  *)

\* Mutant: a queue with three slots left is taken for full.
ValidEarly == ~ freed /\ Len(recvmbox) + 3 < OSQSize

\* Mutant: a full queue is taken for valid.
ValidWhenFull == ~ freed

\* A full queue is not "valid".
sys_mbox_valid == ~ freed /\ Len(recvmbox) < OSQSize

Post(msg) == recvmbox' = Append(recvmbox, msg)
-----------------------------------------------------------------------------
(* tcpip_thread.                                                           *)

\* do_recv and tcp_recved.
WindowAfter(n) ==
  IF pcb = "gone" THEN rcv_wnd
  ELSE IF rcv_wnd + n > TCP_WND THEN TCP_WND ELSE rcv_wnd + n

\* Mutant: the bytes of a segment that was freed are not given back.
RecvDataKeepsWindow(p) ==
  /\ rcv_wnd' = rcv_wnd - SegLen
  /\ IF sys_mbox_valid THEN Post(p) /\ last_err' = SafeErr("ok")
     ELSE UNCHANGED <<recvmbox, last_err>>

\* Mutant: the segment overtakes what waits.
RecvDataAtHead(p) ==
  IF sys_mbox_valid
    THEN /\ recvmbox' = <<p>> \o recvmbox
         /\ last_err' = SafeErr("ok") /\ rcv_wnd' = rcv_wnd - SegLen
    ELSE UNCHANGED <<recvmbox, last_err, rcv_wnd>>

\* recv_tcp with data: a segment for an "invalid" recvmbox is freed and its
\* bytes are given back to the window.
RecvData(p) ==
  IF sys_mbox_valid
    THEN Post(p) /\ last_err' = SafeErr("ok") /\ rcv_wnd' = rcv_wnd - SegLen
    ELSE UNCHANGED <<recvmbox, last_err, rcv_wnd>>

\* recv_tcp at the end of the stream.
RecvEnd ==
  IF sys_mbox_valid THEN Post(NULL) /\ last_err' = SafeErr("ok")
  ELSE UNCHANGED <<recvmbox, last_err>>

\* The next segment in sequence, for which there is a pbuf and a window.
Segment ==
  /\ pcb = "up" /\ ~ fin /\ rcv_nxt < Segs
  /\ rcv_wnd >= SegLen
  /\ PbufsInUse < PoolSize
  /\ rcv_nxt' = rcv_nxt + 1
  /\ RecvData(rcv_nxt + 1)
  /\ UNCHANGED <<OSQSize, freed, fin, pcb, reader>>

\* The FIN: the window pays for it and gets it back.
Fin ==
  /\ pcb = "up" /\ ~ fin /\ rcv_nxt = Segs /\ rcv_wnd > 0
  /\ fin' = TRUE
  /\ RecvEnd
  /\ UNCHANGED <<OSQSize, freed, rcv_nxt, pcb, rcv_wnd, reader>>

\* err_tcp: the peer resets the connection, or TCP gives it up.
Abort ==
  /\ pcb = "up"
  /\ pcb' = "gone" /\ last_err' = "rst"
  /\ IF sys_mbox_valid THEN Post(NULL) ELSE UNCHANGED recvmbox
  /\ UNCHANGED <<OSQSize, freed, rcv_nxt, fin, rcv_wnd, reader>>
-----------------------------------------------------------------------------
(* The task: lwip_recvfrom.                                                *)

Recv ==
  /\ pc = "idle"
  /\ \E n \in 1..MaxLen : len' = n
  /\ off' = 0 /\ pc' = "loop"
  /\ UNCHANGED <<OSQSize, recvmbox, freed, network, rcv_wnd, last_err,
                 lastdata, lastoffset, position, ended>>

\* An error of netconn_recv_data: what was copied so far counts; else ERR_CLSD
\* is told as 0 and everything else as -1.
Return(err) ==
  /\ pc' = IF off > 0 THEN "recved" ELSE "idle"
  /\ ended' = (ended \/ (err = "clsd" /\ off = 0))
  /\ UNCHANGED <<len, off, lastdata, lastoffset, position>>

\* What is left of the last segment, or netconn_recv_data's own tests.
Enter ==
  /\ pc = "loop"
  /\ \/ /\ lastdata # 0
        /\ pc' = "copy"
        /\ UNCHANGED <<len, off, lastdata, lastoffset, position, ended>>
     \/ lastdata = 0 /\ ~ sys_mbox_valid /\ Return("conn")
     \/ lastdata = 0 /\ sys_mbox_valid /\ Fatal(last_err) /\ Return(last_err)
     \/ /\ lastdata = 0 /\ sys_mbox_valid /\ ~ Fatal(last_err)
        /\ pc' = "fetch"
        /\ UNCHANGED <<len, off, lastdata, lastoffset, position, ended>>
  /\ UNCHANGED <<OSQSize, recvmbox, freed, network, rcv_wnd, last_err>>

\* sys_arch_mbox_fetch.
Fetch ==
  /\ pc = "fetch" /\ recvmbox # <<>>
  /\ recvmbox' = Tail(recvmbox)
  /\ IF Head(recvmbox) = NULL
       THEN pc' = "eof" /\ UNCHANGED <<lastdata, lastoffset>>
       ELSE pc' = "copy" /\ lastdata' = Head(recvmbox) /\ lastoffset' = 0
  /\ UNCHANGED <<OSQSize, freed, network, rcv_wnd, last_err, len, off, position, ended>>

FetchTimeout ==
  /\ pc = "fetch" /\ recvmbox = <<>>
  /\ last_err' = SafeErr("timeout")
  /\ Return("timeout")
  /\ UNCHANGED <<OSQSize, recvmbox, freed, network, rcv_wnd>>

\* NULL was fetched: do_recv with length 1, then ERR_CLSD whatever woke us.
FetchedNull ==
  /\ pc = "eof"
  /\ rcv_wnd' = WindowAfter(1)
  /\ last_err' = SafeErr("clsd")
  /\ Return("clsd")
  /\ UNCHANGED <<OSQSize, recvmbox, freed, network>>

\* Mutant: what is left of a segment is dropped when recv() returns.
CopyDropsRest ==
  /\ pc = "copy"
  /\ position' = SegLen * (lastdata - 1) + lastoffset + 1
  /\ len' = len - 1 /\ off' = off + 1
  /\ IF lastoffset + 1 < SegLen /\ len > 1
       THEN lastoffset' = lastoffset + 1 /\ UNCHANGED lastdata /\ pc' = "copy"
       ELSE /\ lastoffset' = 0 /\ lastdata' = 0
            /\ \E push \in BOOLEAN :
                 pc' = IF len = 1 \/ push \/ recvmbox = <<>> THEN "recved" ELSE "loop"
  /\ UNCHANGED <<OSQSize, recvmbox, freed, network, rcv_wnd, last_err, ended>>

\* pbuf_copy_partial, a byte at a time.  The loop goes on in the next segment
\* if more was asked for, one is waiting, and this one had no PUSH flag.
Copy ==
  /\ pc = "copy"
  /\ position' = SegLen * (lastdata - 1) + lastoffset + 1
  /\ len' = len - 1 /\ off' = off + 1
  /\ IF lastoffset + 1 < SegLen
       THEN /\ lastoffset' = lastoffset + 1 /\ UNCHANGED lastdata
            /\ pc' = IF len = 1 THEN "recved" ELSE "copy"
       ELSE /\ lastoffset' = 0 /\ lastdata' = 0
            /\ \E push \in BOOLEAN :
                 pc' = IF len = 1 \/ push \/ recvmbox = <<>> THEN "recved" ELSE "loop"
  /\ UNCHANGED <<OSQSize, recvmbox, freed, network, rcv_wnd, last_err, ended>>

\* Mutant: TCP is not told what was read.
RecvedSilently ==
  /\ pc = "recved"
  /\ pc' = "idle" /\ len' = 0 /\ off' = 0
  /\ UNCHANGED <<OSQSize, recvmbox, freed, network, rcv_wnd, last_err,
                 lastdata, lastoffset, position, ended>>

\* netconn_recved: do_recv with the bytes copied, and recv() returns.
Recved ==
  /\ pc = "recved"
  /\ rcv_wnd' = WindowAfter(off)
  /\ pc' = "idle" /\ len' = 0 /\ off' = 0
  /\ UNCHANGED <<OSQSize, recvmbox, freed, network, last_err,
                 lastdata, lastoffset, position, ended>>

\* close(): netconn_drain, tcp_close, free_socket.
Close ==
  /\ pc = "idle"
  /\ pc' = "closed" /\ pcb' = "gone"
  /\ lastdata' = 0 /\ lastoffset' = 0
  /\ IF sys_mbox_valid THEN recvmbox' = <<>> /\ freed' = TRUE
     ELSE UNCHANGED <<recvmbox, freed>>
  /\ UNCHANGED <<OSQSize, rcv_nxt, fin, rcv_wnd, last_err, len, off, position, ended>>
-----------------------------------------------------------------------------
Init ==
  /\ OSQSize \in QueueSizes
  /\ recvmbox = <<>> /\ freed = FALSE
  /\ rcv_nxt = 0 /\ fin = FALSE /\ rcv_wnd = TCP_WND /\ pcb = "up" /\ last_err = "ok"
  /\ pc = "idle" /\ len = 0 /\ off = 0 /\ lastdata = 0 /\ lastoffset = 0
  /\ position = 0 /\ ended = FALSE

Reading == Recv \/ Enter \/ Fetch \/ FetchTimeout \/ FetchedNull \/ Copy \/ Recved

Next == Segment \/ Fin \/ Abort \/ Reading \/ Close

\* The peer sends again what was not acknowledged; tcpip_thread has the highest
\* priority; mqtt_thread reads in every pass of its loop.
Spec == Init /\ [][Next]_vars /\ WF_vars(Segment) /\ WF_vars(Reading)
-----------------------------------------------------------------------------
(* Properties.                                                             *)

\* The queue has room for a window full of segments, for the NULL of the FIN
\* and for that of an error, and one slot more.  With 20 slots and a window of
\* 2920 bytes, segments of 163 bytes and more are enough.
WholeSegments == TCP_WND \div SegLen
Roomy == OSQSize > WholeSegments + 2

\* The segment that was fetched last.
Fetched == IF lastdata # 0 THEN lastdata ELSE position \div SegLen

\* Whatever was acknowledged and not read is in the queue, in order: recv_tcp
\* drops nothing that the peer will not send again (api_msg.c 230-255).
AckedIsKept ==
  Roomy /\ ~ freed =>
    \A n \in (Fetched + 1)..rcv_nxt :
      n - Fetched \in DOMAIN recvmbox /\ recvmbox[n - Fetched] = n

\* The window is exactly what is not occupied by bytes that were not read, or
\* whose reading was not told to TCP yet (sockets.c 733, api_msg.c 233): bytes
\* neither leak from it nor are given back twice, full queue or not.
WindowIsExact ==
  pcb = "up" /\ ~ fin =>
    rcv_wnd + SegLen * Len(recvmbox) + off
      + (IF lastdata = 0 THEN 0 ELSE SegLen - lastoffset) = TCP_WND

\* "Delete rcvmbox and acceptmbox of a netconn and free the left-over data in
\* these mboxes" (netconn_drain, api_msg.c 673-674).
ClosedIsFreed == pc = "closed" => freed

RoomyIsFreed == Roomy => ClosedIsFreed

\* The connection as ByteStream promises it; only a queue that is not Roomy may
\* lose bytes, and even then none comes twice or out of order.
Stream == INSTANCE ByteStream WITH
            Total <- SegLen * Segs, acked <- SegLen * rcv_nxt,
            broken <- pcb = "gone", lossy <- ~ Roomy

DeliversStream == Stream!Spec

\* Everything the peer sends is read, however recv() is called and whatever
\* times out, unless the connection is lost or closed.
AllIsRead ==
  Roomy ~> (position = SegLen * Segs \/ pcb = "gone")
=============================================================================
