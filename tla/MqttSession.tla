---------------------------- MODULE MqttSession ----------------------------
(***************************************************************************)
(* The MQTT session of the box: mqtt_thread (mqtt/app/mqtt_app.c) over the *)
(* single socket of mqtt/transport/transport.c, the TCP connection, and    *)
(* the broker at the other end.                                            *)
(*                                                                         *)
(* mqtt_thread is one endless loop driven by the variable msgtypes: the    *)
(* type of the last packet read, or of the next packet to send.  One pass  *)
(* of the loop is: keepalive test ("top"), periodic report ("door" to      *)
(* "mbox", only while connect_flag is set), switch(msgtypes) ("switch"),   *)
(* MQTTPacket_read ("read").  The report and the switch share one buffer,  *)
(* buf, with the packet the previous pass read.                            *)
(*                                                                         *)
(* Time is two booleans: pingDue (60 s since the last ping) and reportDue  *)
(* (10 s since the last report).                                           *)
(***************************************************************************)
EXTENDS Naturals, Sequences

CONSTANTS
  Commands,    \* what the platform publishes: sets of keywords of a payload
  HeapText,    \* keyword sets a recycled heap block may happen to contain
  ActiveAlarms,  \* the alarms that may go off, of "door" and "fan"
  GarbageQos,  \* values the uninitialized local qos may start with
  PushIds,     \* packet identifiers the broker uses for QoS 1 pushes
  NumNetconn,  \* MEMP_NUM_NETCONN: connections lwIP can have allocated
  SubTries,    \* failed SUBSCRIBEs before CONNECT is tried (10 in the code)
  SndBuf,      \* packets the TCP send buffer holds before write() blocks
  RcvBuf,      \* packets on their way to the box, or in its receive mailbox
  Backlog,     \* a period runs out only with at most this many packets under way
  SlowConnect, \* a keepalive period may run out while a connection is set up
  MaxFaults,   \* bound: refusals, broken connections and failed connects
  MaxPush      \* bound: packets the platform pushes

Alarms == {"door", "fan"}

Keywords == {"switch", "reset", "info", "setMode", "operation", "restart"}

ASSUME ConstantsAssumption ==
  /\ Commands \subseteq SUBSET Keywords
  /\ HeapText \subseteq SUBSET Keywords
  /\ HeapText # {}
  /\ ActiveAlarms \subseteq Alarms /\ GarbageQos \subseteq 0..2
  /\ PushIds \subseteq Nat
  /\ NumNetconn \in Nat \ {0} /\ SubTries \in Nat \ {0}
  /\ SndBuf \in Nat \ {0} /\ RcvBuf \in Nat \ {0}
  /\ Backlog \in Nat /\ SlowConnect \in BOOLEAN
  /\ MaxFaults \in Nat /\ MaxPush \in Nat

VARIABLES
  pc,            \* where mqtt_thread is in its loop
  msgtypes,      \* the message state ("none" is the code's 0)
  connect_flag,  \* the broker accepted the CONNECT
  buf,           \* the packet in buf[1024]; NoPacket when it is zeroed
  msgid,         \* packet identifier, overwritten by received PUBLISHes
  qos,           \* QoS of the last PUBLISH deserialized
  t,             \* failed SUBSCRIBEs
  ti,            \* the initial device description is still to be sent
  mode,          \* working mode the commands set
  netconns,      \* netconns allocated, leaked ones included
  flag,          \* door_flag and fan_warn
  timing,        \* BOX_TIMING_PTR holds a message
  pingDue, reportDue,
  link,          \* "none", "up", "half" (peer gone, not noticed), "down"
  uplink, downlink,
  broker,        \* "new", "accepted", "refused"
  subscribed,    \* the broker has the subscription of this connection
  owed,          \* history: PUBRECs read whose PUBREL has not been sent
  faults, pushes

device == <<pc, msgtypes, connect_flag, buf, msgid, qos, t, ti, mode>>
clocks == <<pingDue, reportDue>>
inputs == <<flag, timing>>
conn   == <<netconns, link, uplink, downlink, broker, subscribed, owed>>
vars   == <<device, clocks, inputs, conn, faults, pushes>>

Types == {"CONNECT", "CONNACK", "PUBLISH", "PUBACK", "PUBREC", "PUBREL",
          "PUBCOMP", "SUBSCRIBE", "SUBACK", "PINGREQ", "PINGRESP"}

Packet == [type : Types \cup {"none"}, id : Nat, qos : 0..2,
           kw : SUBSET Keywords, ok : BOOLEAN]

MkPacket(type, id, q, kw, ok) ==
  [type |-> type, id |-> id, qos |-> q, kw |-> kw, ok |-> ok]

NoPacket           == MkPacket("none", 0, 0, {}, FALSE)
Simple(type)       == MkPacket(type, 0, 0, {}, FALSE)
Numbered(type, id) == MkPacket(type, id, 0, {}, FALSE)
Connack(ok)        == MkPacket("CONNACK", 0, 0, {}, ok)
\* A report of the box, published with publish_req_qos = 2 and the current msgid.
Report             == MkPacket("PUBLISH", msgid, 2, {}, FALSE)

TypeOK ==
  /\ pc \in {"open", "top", "door", "doorClear", "fan", "fanClear",
             "init", "mbox", "switch", "reopen", "read"}
  /\ msgtypes \in Types \cup {"none", "INFO"}
  /\ connect_flag \in {0, 1}
  /\ buf \in Packet
  /\ msgid \in Nat /\ qos \in 0..2 /\ t \in 0..(SubTries - 1) /\ ti \in {0, 1}
  /\ mode \in {0, 1, 3}
  /\ netconns \in 0..NumNetconn
  /\ flag \in [Alarms -> BOOLEAN] /\ timing \in BOOLEAN
  /\ pingDue \in BOOLEAN /\ reportDue \in BOOLEAN
  /\ link \in {"none", "up", "half", "down"}
  /\ uplink \in Seq(Packet) /\ Len(uplink) <= SndBuf
  /\ downlink \in Seq(Packet) /\ Len(downlink) <= RcvBuf
  /\ broker \in {"new", "accepted", "refused"}
  /\ subscribed \in BOOLEAN
  /\ owed \subseteq Nat
  /\ faults \in 0..MaxFaults /\ pushes \in 0..MaxPush
-----------------------------------------------------------------------------
(* transport.c: write(), socket() + connect(), close().                    *)

\* write() reports the whole length unless the connection is known to be dead.
SendOK == link \in {"up", "half"}

\* write() blocks while the send buffer is full; a dead peer gets nothing.
Send(p) ==
  /\ link = "up" => Len(uplink) < SndBuf
  /\ uplink' = IF link = "up" THEN Append(uplink, p) ELSE uplink

\* The queues and the broker's state belong to one TCP connection.
FreshConnection(state) ==
  /\ link' = state
  /\ uplink' = <<>> /\ downlink' = <<>> /\ owed' = {}
  /\ broker' = "new" /\ subscribed' = FALSE

\* A netconn is allocated before connect(); a failed connect() returns
\* without closing it, and without netconns socket() itself fails.
TransportOpen ==
  \/ /\ netconns < NumNetconn
     /\ netconns' = netconns + 1
     /\ FreshConnection("up")
     /\ UNCHANGED faults
  \/ /\ netconns < NumNetconn /\ faults < MaxFaults
     /\ netconns' = netconns + 1 /\ faults' = faults + 1
     /\ FreshConnection("none")
  \/ /\ netconns = NumNetconn
     /\ FreshConnection("none")
     /\ UNCHANGED <<netconns, faults>>

\* close() of the descriptor mqtt_thread holds: -1 (link "none") frees nothing.
TransportClose ==
  /\ netconns' = IF link = "none" THEN netconns ELSE netconns - 1
  /\ FreshConnection("none")
-----------------------------------------------------------------------------
(* mqtt_thread.                                                            *)

BootDevice ==
  /\ pc' = "open" /\ msgtypes' = "CONNECT" /\ connect_flag' = 0
  /\ buf' = NoPacket /\ msgid' = 1 /\ qos' \in GarbageQos /\ t' = 0 /\ ti' = 1
  /\ mode' = 0

\* Mutant: the message state is not reset to CONNECT after reconnecting.
OpenKeepsState ==
  /\ pc \in {"open", "reopen"}
  /\ TransportOpen
  /\ pc' = IF pc = "open" THEN "top" ELSE "read"
  /\ msgtypes' = IF pc = "open" THEN "CONNECT" ELSE "none"
  /\ UNCHANGED <<connect_flag, buf, msgid, qos, t, ti, mode, clocks, inputs, pushes>>

\* transport_open before the loop and, after a failed ping, inside it.
Open ==
  /\ pc \in {"open", "reopen"}
  /\ TransportOpen
  /\ pc' = IF pc = "open" THEN "top" ELSE "read"
  /\ msgtypes' = "CONNECT"
  /\ UNCHANGED <<connect_flag, buf, msgid, qos, t, ti, mode, clocks, inputs, pushes>>

\* Mutant: the periodic report does not wait for connect_flag.
TopUnguarded ==
  /\ pc = "top"
  /\ IF pingDue /\ msgtypes = "none"
       THEN msgtypes' = "PINGREQ" /\ pingDue' = FALSE
       ELSE UNCHANGED <<msgtypes, pingDue>>
  /\ IF reportDue
       THEN pc' = "door" /\ reportDue' = FALSE
       ELSE pc' = "switch" /\ UNCHANGED reportDue
  /\ UNCHANGED <<connect_flag, buf, msgid, qos, t, ti, mode, inputs, conn, faults, pushes>>

\* The keepalive test sets PINGREQ only in an idle message state.
Top ==
  /\ pc = "top"
  /\ IF pingDue /\ msgtypes = "none"
       THEN msgtypes' = "PINGREQ" /\ pingDue' = FALSE
       ELSE UNCHANGED <<msgtypes, pingDue>>
  /\ IF connect_flag = 1 /\ reportDue
       THEN pc' = "door" /\ reportDue' = FALSE
       ELSE pc' = "switch" /\ UNCHANGED reportDue
  /\ UNCHANGED <<connect_flag, buf, msgid, qos, t, ti, mode, inputs, conn, faults, pushes>>

ClearOf(a) == IF a = "door" THEN "doorClear" ELSE "fanClear"
AfterAlarm(a) == IF a = "door" THEN "fan" ELSE "init"

\* if(door_flag) / if(fan_warn): the report is serialized into buf and sent.
ReportAlarm(a) ==
  /\ pc = a
  /\ IF flag[a]
       THEN Send(Report) /\ buf' = Report /\ pc' = ClearOf(a)
       ELSE pc' = AfterAlarm(a) /\ UNCHANGED <<buf, uplink>>
  /\ UNCHANGED <<msgtypes, connect_flag, msgid, qos, t, ti, mode, clocks, inputs,
                 netconns, link, downlink, broker, subscribed, owed, faults, pushes>>

\* The flag is dropped after the send, whatever it returned; buf is zeroed.
ClearAlarm(a) ==
  /\ pc = ClearOf(a)
  /\ flag' = [flag EXCEPT ![a] = FALSE]
  /\ buf' = NoPacket
  /\ pc' = AfterAlarm(a)
  /\ UNCHANGED <<msgtypes, connect_flag, msgid, qos, t, ti, mode, clocks, timing,
                 conn, faults, pushes>>

\* if(ti==1): the device description, once; buf is zeroed.
ReportInit ==
  /\ pc = "init"
  /\ IF ti = 1 THEN Send(Report) /\ buf' = NoPacket ELSE UNCHANGED <<buf, uplink>>
  /\ ti' = 0
  /\ pc' = "mbox"
  /\ UNCHANGED <<msgtypes, connect_flag, msgid, qos, t, mode, clocks, inputs,
                 netconns, link, downlink, broker, subscribed, owed, faults, pushes>>

\* OSMboxPend(BOX_TIMING_PTR,1): the status report; buf keeps the packet sent.
ReportStatus ==
  /\ pc = "mbox"
  /\ IF timing THEN Send(Report) /\ buf' = Report ELSE UNCHANGED <<buf, uplink>>
  /\ timing' = FALSE
  /\ pc' = "switch"
  /\ UNCHANGED <<msgtypes, connect_flag, msgid, qos, t, ti, mode, clocks, flag,
                 netconns, link, downlink, broker, subscribed, owed, faults, pushes>>

\* The cases of the switch share their frame: what they neither send nor set.
\* (A case serializes its answer into buf, which is zeroed before the read.)
Case(type) == pc = "switch" /\ msgtypes = type /\ pc' = "read"
SwitchFrame == UNCHANGED <<buf, clocks, inputs, netconns, link, downlink, broker,
                           subscribed, faults, pushes>>

HandleConnect ==
  /\ Case("CONNECT")
  /\ Send(Simple("CONNECT"))
  /\ msgtypes' = "none"
  /\ UNCHANGED <<connect_flag, msgid, qos, t, ti, mode, owed>> /\ SwitchFrame

\* The CONNACK is parsed out of buf.
HandleConnack ==
  /\ Case("CONNACK")
  /\ IF buf.type = "CONNACK" /\ buf.ok
       THEN connect_flag' = 1 /\ msgtypes' = "SUBSCRIBE"
       ELSE msgtypes' = "CONNECT" /\ UNCHANGED connect_flag
  /\ UNCHANGED <<msgid, qos, t, ti, mode, uplink, owed>> /\ SwitchFrame

\* Mutant: the count of failed SUBSCRIBEs is not reset.
HandleSubscribeNoReset ==
  /\ Case("SUBSCRIBE")
  /\ Send(Numbered("SUBSCRIBE", msgid))
  /\ IF SendOK
       THEN msgtypes' = "none" /\ UNCHANGED t
       ELSE t' = t + 1 /\ msgtypes' = IF t + 1 >= SubTries THEN "CONNECT" ELSE msgtypes
  /\ UNCHANGED <<connect_flag, msgid, qos, ti, mode, owed>> /\ SwitchFrame

HandleSubscribe ==
  /\ Case("SUBSCRIBE")
  /\ Send(Numbered("SUBSCRIBE", msgid))
  /\ IF SendOK
       THEN msgtypes' = "none" /\ UNCHANGED t
       ELSE IF t + 1 >= SubTries
              THEN t' = 0 /\ msgtypes' = "CONNECT"
              ELSE t' = t + 1 /\ UNCHANGED msgtypes
  /\ UNCHANGED <<connect_flag, msgid, qos, ti, mode, owed>> /\ SwitchFrame

\* SUBACK, PUBACK, PUBCOMP, PINGRESP end an exchange; PUBREC asks for PUBREL.
HandleReply ==
  /\ \/ /\ \E type \in {"SUBACK", "PUBACK", "PUBCOMP", "PINGRESP"} : Case(type)
        /\ msgtypes' = "none"
     \/ Case("PUBREC") /\ msgtypes' = "PUBREL"
     \/ Case("none") /\ UNCHANGED msgtypes
  /\ UNCHANGED <<connect_flag, msgid, qos, t, ti, mode, uplink, owed>> /\ SwitchFrame

\* What MQTTDeserialize_publish leaves in payload_in: the payload in buf, or,
\* when buf is no PUBLISH, the block mymalloc just returned, with old contents.
PayloadTexts == IF buf.type = "PUBLISH" THEN {buf.kw} ELSE HeapText

\* case PUBLISH: the keyword tests run in sequence and the last one that
\* matches decides msgtypes; without a match it stays PUBLISH.
HandlePublish(kw) ==
  /\ Case("PUBLISH")
  /\ kw \in PayloadTexts /\ "reset" \notin kw
  /\ qos' = IF buf.type = "PUBLISH" THEN buf.qos ELSE qos
  /\ msgid' = IF buf.type = "PUBLISH" /\ buf.qos > 0 THEN buf.id ELSE msgid
  /\ mode' = IF "setMode" \in kw THEN (IF "operation" \in kw THEN 1 ELSE 0)
             ELSE IF "switch" \in kw THEN 3 ELSE mode
  /\ msgtypes' = IF kw \cap {"setMode", "restart"} # {} THEN "none"
                 ELSE IF "info" \in kw THEN "INFO"
                 ELSE IF "switch" \in kw THEN "none" ELSE msgtypes
  /\ IF qos' = 1 THEN Send(Numbered("PUBACK", msgid')) ELSE UNCHANGED uplink
  /\ UNCHANGED <<connect_flag, t, ti, owed>> /\ SwitchFrame

\* "reset": mcuRestart does not return; the TCP connection dies unnoticed.
HandleReset(kw) ==
  /\ pc = "switch" /\ msgtypes = "PUBLISH"
  /\ kw \in PayloadTexts /\ "reset" \in kw
  /\ BootDevice
  /\ netconns' = 0 /\ FreshConnection("none")
  /\ timing' = FALSE /\ flag' = [a \in Alarms |-> FALSE]
  /\ pingDue' = FALSE /\ reportDue' = FALSE
  /\ UNCHANGED <<faults, pushes>>

\* case 15: the device description on request.
HandleInfo ==
  /\ Case("INFO")
  /\ Send(Report)
  /\ ti' = 0 /\ msgtypes' = "none"
  /\ UNCHANGED <<connect_flag, msgid, qos, t, mode, owed>> /\ SwitchFrame

HandlePubrel ==
  /\ Case("PUBREL")
  /\ Send(Numbered("PUBREL", msgid))
  /\ owed' = owed \ {msgid}
  /\ msgtypes' = "none"
  /\ UNCHANGED <<connect_flag, msgid, qos, t, ti, mode>> /\ SwitchFrame

\* Mutant: connect_flag survives the connection.
HandlePingreqKeepsFlag ==
  /\ pc = "switch" /\ msgtypes = "PINGREQ"
  /\ IF SendOK
       THEN /\ Send(Simple("PINGREQ"))
            /\ msgtypes' = "none" /\ pc' = "read"
            /\ UNCHANGED <<netconns, link, downlink, broker, subscribed, owed>>
       ELSE TransportClose /\ pc' = "reopen" /\ UNCHANGED msgtypes
  /\ UNCHANGED <<connect_flag, buf, msgid, qos, t, ti, mode, clocks, inputs, faults, pushes>>

\* Mutant: a ping that cannot be sent is dropped like any other packet.
HandlePingreqIgnoresError ==
  /\ Case("PINGREQ")
  /\ Send(Simple("PINGREQ"))
  /\ msgtypes' = "none"
  /\ UNCHANGED <<connect_flag, msgid, qos, t, ti, mode, owed>> /\ SwitchFrame

HandlePingreq ==
  /\ pc = "switch" /\ msgtypes = "PINGREQ"
  /\ IF SendOK
       THEN /\ Send(Simple("PINGREQ"))
            /\ msgtypes' = "none" /\ pc' = "read"
            /\ UNCHANGED <<connect_flag, netconns, link, downlink, broker, subscribed, owed>>
       ELSE /\ connect_flag' = 0
            /\ TransportClose
            /\ pc' = "reopen"
            /\ UNCHANGED msgtypes
  /\ UNCHANGED <<buf, msgid, qos, t, ti, mode, clocks, inputs, faults, pushes>>

\* memset(buf) and MQTTPacket_read: a packet becomes the message state.
ReadPacket ==
  /\ pc = "read" /\ SendOK /\ downlink # <<>>
  /\ buf' = Head(downlink) /\ msgtypes' = Head(downlink).type
  /\ downlink' = Tail(downlink)
  /\ owed' = IF Head(downlink).type = "PUBREC" THEN owed \cup {Head(downlink).id}
             ELSE owed
  /\ pc' = "top"
  /\ UNCHANGED <<connect_flag, msgid, qos, t, ti, mode, clocks, inputs, netconns, link,
                 uplink, broker, subscribed, faults, pushes>>

\* Nothing within the receive timeout, or an error: msgtypes stays.
ReadNothing ==
  /\ pc = "read" /\ (SendOK => downlink = <<>>)
  /\ buf' = NoPacket
  /\ pc' = "top"
  /\ UNCHANGED <<msgtypes, connect_flag, msgid, qos, t, ti, mode, clocks, inputs, conn,
                 faults, pushes>>

MqttThread ==
  \/ Open \/ Top \/ ReportInit \/ ReportStatus
  \/ \E a \in Alarms : ReportAlarm(a) \/ ClearAlarm(a)
  \/ HandleConnect \/ HandleConnack \/ HandleSubscribe \/ HandleReply
  \/ \E kw \in SUBSET Keywords : HandlePublish(kw) \/ HandleReset(kw)
  \/ HandleInfo \/ HandlePubrel \/ HandlePingreq
  \/ ReadPacket \/ ReadNothing
-----------------------------------------------------------------------------
(* The other contexts of the box: the tick, the door interrupt and         *)
(* fan_task, and dht11_task, which posts the status report.                *)

\* 10 s and 60 s are long against a round trip: with a small Backlog the reports
\* of one period are served before the next one.
Caught == Len(uplink) + Len(downlink) <= Backlog

\* Between transport_open and the SUBSCRIBE, the 60 s of the last ping (or of the
\* start of the thread) run out only when connecting is slow.
Connecting ==
  \/ pc \in {"open", "reopen"} \/ msgtypes = "PINGREQ"
  \/ link = "up" /\ ~subscribed

Elapse60s ==
  /\ Caught
  /\ Connecting => SlowConnect
  /\ pingDue' = TRUE
  /\ UNCHANGED <<device, reportDue, inputs, conn, faults, pushes>>

Elapse10s ==
  /\ Caught
  /\ reportDue' = TRUE
  /\ UNCHANGED <<device, pingDue, inputs, conn, faults, pushes>>

\* EXTI9_5_IRQHandler sets door_flag; fan_task sets fan_warn either way.
RaiseAlarm(a, v) ==
  /\ a = "door" => v
  /\ flag' = [flag EXCEPT ![a] = v]
  /\ UNCHANGED <<device, clocks, timing, conn, faults, pushes>>

PostStatus ==
  /\ timing' = TRUE
  /\ UNCHANGED <<device, clocks, flag, conn, faults, pushes>>

Environment ==
  \/ Elapse60s \/ Elapse10s \/ PostStatus
  \/ \E a \in ActiveAlarms, v \in BOOLEAN : RaiseAlarm(a, v)
-----------------------------------------------------------------------------
(* The broker and the network (external).  What a broker does with a packet *)
(* before the CONNECT, or a second CONNECT, is left out: ConnectFirstAndOnce *)
(* says that the box sends none.                                           *)

BrokerFrame == UNCHANGED <<device, clocks, inputs, netconns, owed>>

\* The connection is gone for the peer; the box has not noticed yet and can
\* still read what had arrived.
Abandon == link' = "half" /\ uplink' = <<>> /\ subscribed' = FALSE

Answer(p) == downlink' = Append(downlink, p)

BrokerConnect(accept) ==
  /\ link = "up" /\ uplink # <<>> /\ Head(uplink).type = "CONNECT"
  /\ broker = "new" /\ Len(downlink) < RcvBuf
  /\ Answer(Connack(accept))
  /\ IF accept
       THEN /\ broker' = "accepted" /\ uplink' = Tail(uplink)
            /\ UNCHANGED <<link, subscribed, faults>>
       ELSE /\ faults < MaxFaults /\ faults' = faults + 1
            /\ broker' = "refused" /\ Abandon
  /\ UNCHANGED pushes /\ BrokerFrame

Reply(p) ==
  CASE p.type = "SUBSCRIBE" -> <<Simple("SUBACK")>>
    [] p.type = "PUBLISH"   -> <<Numbered("PUBREC", p.id)>>
    [] p.type = "PUBREL"    -> <<Numbered("PUBCOMP", p.id)>>
    [] p.type = "PINGREQ"   -> <<Simple("PINGRESP")>>
    [] OTHER                -> <<>>

BrokerServe ==
  /\ link = "up" /\ uplink # <<>> /\ broker = "accepted"
  /\ Head(uplink).type # "CONNECT"
  /\ Len(downlink) < RcvBuf
  /\ downlink' = downlink \o Reply(Head(uplink))
  /\ uplink' = Tail(uplink)
  /\ subscribed' = (subscribed \/ Head(uplink).type = "SUBSCRIBE")
  /\ UNCHANGED <<link, broker, faults, pushes>> /\ BrokerFrame

BrokerPush(kw, q, id) ==
  /\ link = "up" /\ subscribed /\ Len(downlink) < RcvBuf
  /\ pushes < MaxPush /\ pushes' = pushes + 1
  /\ Answer(MkPacket("PUBLISH", id, q, kw, FALSE))
  /\ UNCHANGED <<link, uplink, broker, subscribed, faults>> /\ BrokerFrame

Break ==
  /\ link = "up"
  /\ faults < MaxFaults /\ faults' = faults + 1
  /\ Abandon
  /\ UNCHANGED <<downlink, broker, pushes>> /\ BrokerFrame

\* A reset, the end of the stream or the retransmission limit reaches the box.
Notice ==
  /\ link = "half"
  /\ link' = "down" /\ downlink' = <<>>
  /\ UNCHANGED <<uplink, broker, subscribed, faults, pushes>> /\ BrokerFrame

Broker ==
  \/ \E accept \in BOOLEAN : BrokerConnect(accept)
  \/ BrokerServe
  \/ \E kw \in Commands, q \in {0, 1}, id \in PushIds : BrokerPush(kw, q, id)

Network == Break \/ Notice
-----------------------------------------------------------------------------
Init ==
  /\ pc = "open" /\ msgtypes = "CONNECT" /\ connect_flag = 0
  /\ buf = NoPacket /\ msgid = 1 /\ qos \in GarbageQos /\ t = 0 /\ ti = 1 /\ mode = 0
  /\ netconns = 0 /\ flag = [a \in Alarms |-> FALSE] /\ timing = FALSE
  /\ pingDue = FALSE /\ reportDue = FALSE
  /\ link = "none" /\ uplink = <<>> /\ downlink = <<>>
  /\ broker = "new" /\ subscribed = FALSE /\ owed = {}
  /\ faults = 0 /\ pushes = 0

Next == MqttThread \/ Environment \/ Broker \/ Network

Spec == Init /\ [][Next]_vars

\* The scheduler runs mqtt_thread (every higher task blocks), time passes, the
\* broker serves what reaches it, and a dead connection is noticed.
FairSpec ==
  /\ Spec
  /\ WF_vars(MqttThread) /\ WF_vars(Elapse60s)
  /\ WF_vars(BrokerConnect(TRUE)) /\ WF_vars(BrokerServe) /\ WF_vars(Notice)
-----------------------------------------------------------------------------
(* Properties.                                                             *)

InUplink(S) == \E i \in 1..Len(uplink) : uplink[i].type \in S

\* What only a client whose CONNECT was accepted may send.
Traffic == {"PUBLISH", "PUBACK", "PUBREL", "SUBSCRIBE"}

\* On every TCP connection the first packet handed to TCP is the CONNECT and
\* no second one follows an accepted one, whatever was refused, broken or
\* reopened before: a broker hangs up on anything else.  About the reset of
\* connect_flag and msgtypes around transport_close/transport_open (l. 500-504).
ConnectFirstAndOnce ==
  link = "up" =>
    /\ broker = "new" /\ uplink # <<>> => Head(uplink).type = "CONNECT"
    /\ broker = "accepted" => ~InUplink({"CONNECT"})

\* No report, subscription or acknowledgement goes out on a connection whose
\* CONNECT the broker has not accepted: connect_flag never outlives the
\* connection it was set for.
TrafficOnlyWhenAccepted ==
  link = "up" /\ broker # "accepted" => ~InUplink(Traffic)

\* When the switch runs case CONNACK the buffer still holds the CONNACK that
\* was read: a periodic report, which reuses buf, never runs in between.
ConnackStillBuffered ==
  pc = "switch" /\ msgtypes = "CONNACK" => buf.type = "CONNACK"

\* case PUBLISH is commented "the server has pushed information": the packet
\* it parses is one the broker pushed, not a report of the box or zeroes.
PublishStillBuffered ==
  pc = "switch" /\ msgtypes = "PUBLISH" => buf.type = "PUBLISH" /\ buf.qos < 2

\* A PUBREC the box has read is answered by PUBREL in the next pass, the
\* second half of the QoS 2 handshake: it is never forgotten.
PubrecNotForgotten ==
  owed # {} => msgtypes \in {"PUBREC", "PUBREL"}

\* The PUBREL about to be sent carries the identifier of a PUBREC received.
PubrelNamesPubrec ==
  msgtypes = "PUBREL" => msgid \in owed

Online == link = "up" /\ subscribed

\* "connected: carry out the subscription" (l. 269): on a connection the broker
\* has accepted, the CONNACK is still to be handled, or SUBSCRIBE is the message
\* state, or it is on its way, or it was served: no other packet displaces it.
SubscribeNotDisplaced ==
  link = "up" /\ broker = "accepted" /\ ~subscribed =>
    \/ \E i \in 1..Len(downlink) : downlink[i].type = "CONNACK"
    \/ msgtypes \in {"CONNACK", "SUBSCRIBE"}
    \/ InUplink({"SUBSCRIBE"})

\* Whatever refusals, breaks and failed connects happened before, the box ends
\* up connected and subscribed again: the keepalive finds every dead
\* connection and "reconnects to the MQTT server" (l. 499).
Reconnects == []<>Online
=============================================================================
