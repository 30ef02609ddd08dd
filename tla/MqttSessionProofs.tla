------------------------- MODULE MqttSessionProofs -------------------------
(***************************************************************************)
(* The session invariants of MqttSession, proved for every value of its    *)
(* constants.  None of them is inductive alone: whether the first packet   *)
(* of a connection is the CONNECT depends on what msgtypes may be while    *)
(* connect_flag is 0, on what the broker may have answered by then, and on *)
(* what is still under way from the box.                                   *)
(***************************************************************************)
EXTENDS MqttSession, SequenceTheorems, TLAPS

Accepted == connect_flag = 1

ReportBlock == {"door", "doorClear", "fan", "fanClear", "init", "mbox"}

\* Message states that only an accepted client reaches.
Established == {"PUBLISH", "PUBACK", "PUBREC", "PUBREL", "PUBCOMP",
                "SUBSCRIBE", "SUBACK", "INFO"}

\* What is under way to the broker: the CONNECT goes first, and once, and what
\* only an accepted client may send waits for connect_flag.
UplinkInv ==
  /\ link # "up" => uplink = <<>>
  /\ \A i \in 1..Len(uplink) :
       /\ uplink[i].type \in Traffic => Accepted
       /\ uplink[i].type = "CONNECT" => i = 1 /\ broker = "new"
  /\ link = "up" /\ broker = "new" /\ uplink # <<>> => Head(uplink).type = "CONNECT"

\* What is under way to the box: at most one CONNACK, the first answer, and
\* everything else but a PINGRESP only for an accepted client.
DownlinkInv ==
  /\ \A i \in 1..Len(downlink) :
       /\ downlink[i].type # "CONNECT"
       /\ downlink[i].type \in Established => Accepted
       /\ downlink[i].type = "CONNACK" =>
            /\ i = 1 /\ ~Accepted /\ msgtypes # "CONNACK"
            /\ ~downlink[i].ok => broker = "refused"
  /\ link = "up" /\ broker = "new" => downlink = <<>>
  /\ subscribed => Accepted
  /\ broker = "refused" => link # "up"
  /\ link = "up" /\ Accepted => broker = "accepted"

\* The message state: which values it may have on which connection.
DeviceInv ==
  /\ msgtypes \in Established => Accepted
  /\ pc \in ReportBlock => Accepted
  /\ pc \in {"open", "reopen"} => ~Accepted
  /\ link = "up" /\ broker = "new" =>
       /\ msgtypes \in {"none", "CONNECT", "PINGREQ"}
       /\ uplink = <<>> => msgtypes = "CONNECT"
  /\ link = "up" /\ msgtypes = "CONNECT" => broker = "new" /\ uplink = <<>>
  /\ msgtypes = "CONNACK" =>
       /\ pc \in {"top", "switch"} /\ ~Accepted
       /\ buf.type = "CONNACK"
       /\ ~buf.ok => broker = "refused"

-----------------------------------------------------------------------------
(* Typing.                                                                 *)

\* A connection has a netconn: close() never frees one that is not there.
SocketHeld == link # "none" => netconns > 0

TypeInv == TypeOK /\ SocketHeld

\* The packets the box and the broker build are packets of their type.
LEMMA PacketTypes ==
  /\ NoPacket \in Packet
  /\ \A type \in Types : Simple(type) \in Packet /\ Simple(type).type = type
  /\ \A type \in Types, id \in Nat :
       Numbered(type, id) \in Packet /\ Numbered(type, id).type = type
  /\ \A ok \in BOOLEAN :
       /\ Connack(ok) \in Packet
       /\ Connack(ok).type = "CONNACK" /\ Connack(ok).ok = ok
  /\ TypeOK => Report \in Packet /\ Report.type = "PUBLISH"
<1>1. NoPacket \in Packet
  BY DEF NoPacket, MkPacket, Packet
<1>2. ASSUME NEW type \in Types, NEW id \in Nat
      PROVE  /\ Simple(type) \in Packet /\ Simple(type).type = type
             /\ Numbered(type, id) \in Packet /\ Numbered(type, id).type = type
  BY DEF Simple, Numbered, MkPacket, Packet
<1>3. ASSUME NEW ok \in BOOLEAN
      PROVE  Connack(ok) \in Packet /\ Connack(ok).type = "CONNACK" /\ Connack(ok).ok = ok
  BY DEF Connack, MkPacket, Packet, Types
<1>4. ASSUME TypeOK PROVE Report \in Packet /\ Report.type = "PUBLISH"
  <2>1. msgid \in Nat
    BY <1>4 DEF TypeOK
  <2> QED BY <2>1 DEF Report, MkPacket, Packet, Types
<1>5. 0 \in Nat
  OBVIOUS
<1> QED BY <1>1, <1>2, <1>3, <1>4, <1>5

\* write() keeps the send queue within the send buffer.
LEMMA SendType ==
  ASSUME TypeOK, NEW p \in Packet, Send(p)
  PROVE  uplink' \in Seq(Packet) /\ Len(uplink') <= SndBuf
BY ConstantsAssumption DEF TypeOK, Send, ConstantsAssumption

LEMMA EmptyQueue ==
  /\ <<>> \in Seq(Packet) /\ Len(<<>>) = 0
  /\ Len(<<>>) <= SndBuf /\ Len(<<>>) <= RcvBuf
BY ConstantsAssumption DEF ConstantsAssumption

LEMMA FreshType ==
  ASSUME NEW state \in {"none", "up"}, FreshConnection(state)
  PROVE  /\ link' \in {"none", "up", "half", "down"}
         /\ uplink' \in Seq(Packet) /\ Len(uplink') <= SndBuf
         /\ downlink' \in Seq(Packet) /\ Len(downlink') <= RcvBuf
         /\ broker' \in {"new", "accepted", "refused"}
         /\ subscribed' \in BOOLEAN /\ owed' \subseteq Nat
BY EmptyQueue DEF FreshConnection

LEMMA InitType == Init => TypeInv
<1> SUFFICES ASSUME Init PROVE TypeInv
  OBVIOUS
<1>1. qos \in 0..2 /\ t \in 0..(SubTries - 1) /\ netconns \in 0..NumNetconn
      /\ faults \in 0..MaxFaults /\ pushes \in 0..MaxPush
  BY ConstantsAssumption DEF Init, ConstantsAssumption
<1> QED BY <1>1, EmptyQueue, PacketTypes DEF Init, TypeInv, TypeOK, SocketHeld, Types, Alarms

\* The loop of mqtt_thread outside the switch.
LEMMA LoopType ==
  ASSUME TypeInv, Open \/ Top \/ ReportInit \/ ReportStatus \/ ReadPacket \/ ReadNothing
  PROVE  TypeInv'
<1> USE ConstantsAssumption DEF TypeInv, SocketHeld
<1>1. CASE Open
  <2>1. netconns' \in 0..NumNetconn /\ faults' \in 0..MaxFaults /\ SocketHeld'
    BY <1>1 DEF Open, TransportOpen, FreshConnection, TypeOK, ConstantsAssumption
  <2>2. PICK state \in {"none", "up"} : FreshConnection(state)
    BY <1>1 DEF Open, TransportOpen
  <2> QED BY <1>1, <2>1, <2>2, FreshType DEF Open, TypeOK, Types, inputs, clocks
<1>2. CASE Top
  <2>1. /\ pc' \in {"door", "switch"} /\ msgtypes' \in Types \cup {"none", "INFO"}
        /\ pingDue' \in BOOLEAN /\ reportDue' \in BOOLEAN
    BY <1>2 DEF Top, TypeOK, Types
  <2> QED BY <1>2, <2>1 DEF Top, TypeOK, inputs, conn
<1>3. CASE ReportInit
  BY <1>3, PacketTypes, SendType DEF ReportInit, TypeOK, inputs, clocks
<1>4. CASE ReportStatus
  <2>1. buf' \in Packet /\ uplink' \in Seq(Packet) /\ Len(uplink') <= SndBuf
    BY <1>4, PacketTypes, SendType DEF ReportStatus, TypeOK
  <2>2. pc' = "switch" /\ timing' \in BOOLEAN
    BY <1>4 DEF ReportStatus
  <2> QED BY <1>4, <2>1, <2>2 DEF ReportStatus, TypeOK, clocks
<1>5. CASE ReadPacket
  <2>1. Head(downlink) \in Packet /\ Tail(downlink) \in Seq(Packet)
        /\ Len(Tail(downlink)) <= RcvBuf
    BY <1>5 DEF ReadPacket, TypeOK
  <2>2. Head(downlink).type \in Types \cup {"none", "INFO"} /\ Head(downlink).id \in Nat
    BY <2>1 DEF Packet
  <2>3. pc' = "top" /\ msgtypes' \in Types \cup {"none", "INFO"} /\ buf' \in Packet
        /\ owed' \subseteq Nat
    BY <1>5, <2>1, <2>2 DEF ReadPacket, TypeOK
  <2>4. downlink' \in Seq(Packet) /\ Len(downlink') <= RcvBuf
    BY <1>5, <2>1 DEF ReadPacket
  <2> QED BY <1>5, <2>3, <2>4 DEF ReadPacket, TypeOK, inputs, clocks
<1>6. CASE ReadNothing
  BY <1>6, PacketTypes DEF ReadNothing, TypeOK, inputs, clocks, conn
<1> QED BY <1>1, <1>2, <1>3, <1>4, <1>5, <1>6

\* The periodic report of an alarm.
LEMMA AlarmType ==
  ASSUME TypeInv, NEW a \in Alarms, ReportAlarm(a) \/ ClearAlarm(a)
  PROVE  TypeInv'
<1> USE DEF TypeInv, SocketHeld
<1>1. ClearOf(a) \in {"doorClear", "fanClear"} /\ AfterAlarm(a) \in {"fan", "init"}
  BY DEF ClearOf, AfterAlarm
<1>2. CASE ReportAlarm(a)
  BY <1>1, <1>2, PacketTypes, SendType DEF ReportAlarm, TypeOK, inputs, clocks
<1>3. CASE ClearAlarm(a)
  BY <1>1, <1>3, PacketTypes DEF ClearAlarm, TypeOK, clocks, conn
<1> QED BY <1>2, <1>3

\* The cases of the switch.
LEMMA SwitchType ==
  ASSUME TypeInv,
         \/ HandleConnect \/ HandleConnack \/ HandleSubscribe \/ HandleReply
         \/ HandleInfo \/ HandlePubrel \/ HandlePingreq
  PROVE  TypeInv'
<1> USE ConstantsAssumption DEF TypeInv, SocketHeld
<1> USE DEF Case, SwitchFrame, inputs, clocks
<1>1. CASE HandleConnect
  <2>1. Simple("CONNECT") \in Packet
    BY PacketTypes DEF Types
  <2> QED BY <1>1, <2>1, SendType DEF HandleConnect, TypeOK
<1>2. CASE HandleConnack
  BY <1>2 DEF HandleConnack, TypeOK, Types
<1>3. CASE HandleSubscribe
  <2>1. Numbered("SUBSCRIBE", msgid) \in Packet
    BY PacketTypes DEF Types, TypeOK
  <2>2. t' \in 0..(SubTries - 1)
    BY <1>3 DEF HandleSubscribe, TypeOK, ConstantsAssumption
  <2> QED BY <1>3, <2>1, <2>2, SendType DEF HandleSubscribe, TypeOK, Types
<1>4. CASE HandleReply
  BY <1>4 DEF HandleReply, TypeOK, Types
<1>5. CASE HandleInfo
  BY <1>5, PacketTypes, SendType DEF HandleInfo, TypeOK
<1>6. CASE HandlePubrel
  <2>1. Numbered("PUBREL", msgid) \in Packet
    BY PacketTypes DEF Types, TypeOK
  <2> QED BY <1>6, <2>1, SendType DEF HandlePubrel, TypeOK
<1>7. CASE HandlePingreq
  <2>1. Simple("PINGREQ") \in Packet
    BY PacketTypes DEF Types
  <2>2. CASE SendOK
    <3>1. uplink' \in Seq(Packet) /\ Len(uplink') <= SndBuf
      BY <1>7, <2>1, <2>2, SendType DEF HandlePingreq
    <3>2. pc' = "read" /\ msgtypes' = "none"
      BY <1>7, <2>2 DEF HandlePingreq
    <3>3. UNCHANGED <<connect_flag, netconns, link, downlink, broker, subscribed, owed>>
      BY <1>7, <2>2 DEF HandlePingreq
    <3>4. UNCHANGED <<buf, msgid, qos, t, ti, mode, clocks, inputs, faults, pushes>>
      BY <1>7 DEF HandlePingreq
    <3> QED BY <3>1, <3>2, <3>3, <3>4 DEF TypeOK
  <2>3. CASE ~SendOK
    <3>1. FreshConnection("none")
      BY <1>7, <2>3 DEF HandlePingreq, TransportClose
    <3>2. netconns' \in 0..NumNetconn /\ SocketHeld'
      BY <1>7, <2>3 DEF HandlePingreq, TransportClose, FreshConnection, TypeOK,
                        ConstantsAssumption
    <3>3. /\ link' \in {"none", "up", "half", "down"}
          /\ uplink' \in Seq(Packet) /\ Len(uplink') <= SndBuf
          /\ downlink' \in Seq(Packet) /\ Len(downlink') <= RcvBuf
          /\ broker' \in {"new", "accepted", "refused"}
          /\ subscribed' \in BOOLEAN /\ owed' \subseteq Nat
      BY <3>1, FreshType
    <3>4. pc' = "reopen" /\ connect_flag' = 0
      BY <1>7, <2>3 DEF HandlePingreq
    <3>5. UNCHANGED <<msgtypes, buf, msgid, qos, t, ti, mode, clocks, inputs,
                      faults, pushes>>
      BY <1>7, <2>3 DEF HandlePingreq
    <3> QED BY <3>2, <3>3, <3>4, <3>5 DEF TypeOK
  <2> QED BY <2>2, <2>3
<1> QED BY <1>1, <1>2, <1>3, <1>4, <1>5, <1>6, <1>7

\* The commands of the platform.
LEMMA PublishType ==
  ASSUME TypeInv, NEW kw \in SUBSET Keywords, HandlePublish(kw) \/ HandleReset(kw)
  PROVE  TypeInv'
<1> USE ConstantsAssumption DEF TypeInv, SocketHeld
<1>1. CASE HandlePublish(kw)
  <2>1. buf.qos \in 0..2 /\ buf.id \in Nat
    BY DEF TypeOK, Packet
  <2>2. msgid' \in Nat /\ qos' \in 0..2 /\ mode' \in {0, 1, 3}
    BY <1>1, <2>1 DEF HandlePublish, TypeOK
  <2>3. Numbered("PUBACK", msgid') \in Packet
    BY <2>2, PacketTypes DEF Types
  <2>4. uplink' \in Seq(Packet) /\ Len(uplink') <= SndBuf
    BY <1>1, <2>3, SendType DEF HandlePublish, TypeOK
  <2>5. msgtypes' \in Types \cup {"none", "INFO"}
    BY <1>1 DEF HandlePublish, TypeOK
  <2> QED BY <1>1, <2>2, <2>4, <2>5
          DEF HandlePublish, Case, SwitchFrame, TypeOK, inputs, clocks
<1>2. CASE HandleReset(kw)
  <2>1. FreshConnection("none")
    BY <1>2 DEF HandleReset
  <2>2. netconns' \in 0..NumNetconn /\ SocketHeld' /\ qos' \in 0..2
        /\ t' \in 0..(SubTries - 1)
    BY <1>2 DEF HandleReset, BootDevice, FreshConnection, ConstantsAssumption
  <2> QED BY <1>2, <2>1, <2>2, FreshType, PacketTypes
          DEF HandleReset, BootDevice, TypeOK, Types
<1> QED BY <1>1, <1>2

LEMMA EnvironmentType ==
  ASSUME TypeInv, Environment
  PROVE  TypeInv'
<1> USE DEF TypeInv, SocketHeld, TypeOK, device, inputs, clocks, conn
<1>1. CASE Elapse60s
  BY <1>1 DEF Elapse60s
<1>2. CASE Elapse10s
  BY <1>2 DEF Elapse10s
<1>3. CASE PostStatus
  BY <1>3 DEF PostStatus
<1>4. ASSUME NEW a \in ActiveAlarms, NEW v \in BOOLEAN, RaiseAlarm(a, v)
      PROVE  TypeInv'
  <2>1. flag' \in [Alarms -> BOOLEAN]
    BY <1>4 DEF RaiseAlarm
  <2> QED BY <1>4, <2>1 DEF RaiseAlarm
<1> QED BY <1>1, <1>2, <1>3, <1>4 DEF Environment

\* What one step of the broker or the network leaves alone keeps its type.
LEMMA BrokerFrameType ==
  ASSUME TypeInv, BrokerFrame, link' \in {"up", "half", "down"}, link # "none",
         uplink' \in Seq(Packet), Len(uplink') <= SndBuf,
         downlink' \in Seq(Packet), Len(downlink') <= RcvBuf,
         broker' \in {"new", "accepted", "refused"}, subscribed' \in BOOLEAN,
         faults' \in 0..MaxFaults, pushes' \in 0..MaxPush
  PROVE  TypeInv'
BY DEF BrokerFrame, device, clocks, inputs, TypeInv, TypeOK, SocketHeld

LEMMA AnswerType ==
  ASSUME TypeOK, Len(downlink) < RcvBuf, NEW p \in Packet, Answer(p)
  PROVE  downlink' \in Seq(Packet) /\ Len(downlink') <= RcvBuf
BY ConstantsAssumption DEF TypeOK, Answer, ConstantsAssumption

LEMMA BrokerType ==
  ASSUME TypeInv, Broker \/ Network
  PROVE  TypeInv'
<1>1. ASSUME NEW accept \in BOOLEAN, BrokerConnect(accept) PROVE TypeInv'
  <2>1. downlink' \in Seq(Packet) /\ Len(downlink') <= RcvBuf
    BY <1>1, PacketTypes, AnswerType DEF BrokerConnect, TypeInv
  <2>2. uplink' \in Seq(Packet) /\ Len(uplink') <= SndBuf
    <3>1. uplink \in Seq(Packet) /\ uplink # <<>> /\ Len(uplink) <= SndBuf
      BY <1>1 DEF BrokerConnect, TypeInv, TypeOK
    <3>2. uplink' = Tail(uplink) \/ uplink' = <<>>
      BY <1>1 DEF BrokerConnect, Abandon
    <3>3. Tail(uplink) \in Seq(Packet) /\ Len(Tail(uplink)) <= SndBuf
      BY <3>1, ConstantsAssumption DEF ConstantsAssumption
    <3> QED BY <3>2, <3>3, EmptyQueue
  <2>3. /\ link' \in {"up", "half", "down"} /\ link # "none"
        /\ broker' \in {"new", "accepted", "refused"} /\ subscribed' \in BOOLEAN
        /\ faults' \in 0..MaxFaults /\ pushes' \in 0..MaxPush
    <3>1. CASE accept
      BY <1>1, <3>1 DEF BrokerConnect, TypeInv, TypeOK
    <3>2. CASE ~accept
      <4>1. faults' \in 0..MaxFaults
        BY <1>1, <3>2, ConstantsAssumption
           DEF BrokerConnect, TypeInv, TypeOK, ConstantsAssumption
      <4> QED BY <1>1, <3>2, <4>1 DEF BrokerConnect, Abandon, TypeInv, TypeOK
    <3> QED BY <3>1, <3>2
  <2> QED BY <1>1, <2>1, <2>2, <2>3, BrokerFrameType DEF BrokerConnect
<1>2. CASE BrokerServe
  <2>1. Head(uplink) \in Packet /\ Tail(uplink) \in Seq(Packet)
        /\ Len(Tail(uplink)) <= SndBuf
    <3>1. uplink \in Seq(Packet) /\ uplink # <<>> /\ Len(uplink) <= SndBuf
      BY <1>2 DEF BrokerServe, TypeInv, TypeOK
    <3> QED BY <3>1, ConstantsAssumption DEF ConstantsAssumption
  <2>2. \/ Reply(Head(uplink)) = <<>>
        \/ \E p \in Packet : Reply(Head(uplink)) = <<p>>
    <3>1. Head(uplink).id \in Nat
      BY <2>1 DEF Packet
    <3> QED BY <3>1, PacketTypes DEF Reply, Types
  <2>3. downlink' \in Seq(Packet) /\ Len(downlink') <= RcvBuf
    <3>1. /\ downlink \in Seq(Packet) /\ Len(downlink) < RcvBuf /\ RcvBuf \in Nat
          /\ downlink' = downlink \o Reply(Head(uplink))
      BY <1>2, ConstantsAssumption DEF BrokerServe, TypeInv, TypeOK, ConstantsAssumption
    <3>2. CASE Reply(Head(uplink)) = <<>>
      <4>1. /\ downlink \o <<>> \in Seq(Packet)
            /\ Len(downlink \o <<>>) = Len(downlink) + Len(<<>>)
        BY <3>1, EmptyQueue, ConcatProperties
      <4>2. Len(downlink) + Len(<<>>) <= RcvBuf
        BY <3>1
      <4> QED BY <3>1, <3>2, <4>1, <4>2
    <3>3. ASSUME NEW p \in Packet, Reply(Head(uplink)) = <<p>>
          PROVE  downlink' \in Seq(Packet) /\ Len(downlink') <= RcvBuf
      BY <3>1, <3>3
    <3> QED BY <2>2, <3>2, <3>3
  <2> QED BY <1>2, <2>1, <2>3, BrokerFrameType DEF BrokerServe, TypeInv, TypeOK
<1>3. ASSUME NEW kw \in Commands, NEW q \in {0, 1}, NEW id \in PushIds,
             BrokerPush(kw, q, id)
      PROVE  TypeInv'
  <2>1. MkPacket("PUBLISH", id, q, kw, FALSE) \in Packet
    BY ConstantsAssumption DEF MkPacket, Packet, Types, ConstantsAssumption
  <2>2. downlink' \in Seq(Packet) /\ Len(downlink') <= RcvBuf
    BY <1>3, <2>1, AnswerType DEF BrokerPush, TypeInv
  <2>3. pushes' \in 0..MaxPush
    BY <1>3, ConstantsAssumption DEF BrokerPush, TypeInv, TypeOK, ConstantsAssumption
  <2> QED BY <1>3, <2>2, <2>3, BrokerFrameType DEF BrokerPush, TypeInv, TypeOK
<1>4. CASE Break
  <2>1. faults' \in 0..MaxFaults
    BY <1>4, ConstantsAssumption DEF Break, TypeInv, TypeOK, ConstantsAssumption
  <2> QED BY <1>4, <2>1, EmptyQueue, BrokerFrameType DEF Break, Abandon, TypeInv, TypeOK
<1>5. CASE Notice
  BY <1>5, EmptyQueue, BrokerFrameType DEF Notice, TypeInv, TypeOK
<1> QED BY <1>1, <1>2, <1>3, <1>4, <1>5 DEF Broker, Network

LEMMA TypeStep == TypeInv /\ [Next]_vars => TypeInv'
<1> SUFFICES ASSUME TypeInv, [Next]_vars PROVE TypeInv'
  OBVIOUS
<1>1. CASE MqttThread
  BY <1>1, LoopType, AlarmType, SwitchType, PublishType DEF MqttThread
<1>2. CASE Environment
  BY <1>2, EnvironmentType
<1>3. CASE Broker \/ Network
  BY <1>3, BrokerType
<1>4. CASE UNCHANGED vars
  BY <1>4 DEF vars, device, clocks, inputs, conn, TypeInv, TypeOK, SocketHeld
<1> QED BY <1>1, <1>2, <1>3, <1>4 DEF Next

\* Type correctness of the session: every variable keeps its type, the send
\* queue and the receive queue their bounds, and close() never runs without a
\* netconn to free.
THEOREM TypeCorrect == Spec => []TypeOK
<1>1. TypeInv => TypeOK
  BY DEF TypeInv
<1> QED BY InitType, TypeStep, <1>1, PTL DEF Spec
-----------------------------------------------------------------------------
(* The session.                                                            *)

SessionInv == UplinkInv /\ DownlinkInv /\ DeviceInv

IInv == TypeInv /\ SessionInv

LEMMA InitInv == Init => IInv
<1> SUFFICES ASSUME Init PROVE SessionInv
  BY InitType DEF IInv
<1>1. Len(uplink) = 0 /\ Len(downlink) = 0
  BY EmptyQueue DEF Init
<1> QED BY <1>1 DEF Init, SessionInv, UplinkInv, DownlinkInv, DeviceInv, Accepted,
                    Established, ReportBlock

\* A connection that was just opened or closed, by a client that is not accepted.
LEMMA FreshInv ==
  ASSUME NEW state \in {"none", "up"}, FreshConnection(state), connect_flag' = 0,
         msgtypes' = "CONNECT" \/ (msgtypes' = "PINGREQ" /\ state = "none"),
         pc' \notin ReportBlock
  PROVE  SessionInv'
<1>1. Len(uplink') = 0 /\ Len(downlink') = 0
  BY EmptyQueue DEF FreshConnection
<1> QED BY <1>1 DEF FreshConnection, SessionInv, UplinkInv, DownlinkInv, DeviceInv,
                    Accepted, Established

\* Handing a packet to TCP keeps the order of the connection, if the packet may
\* be sent at all: a CONNECT on an unused connection and on no other, and what
\* needs an accepted client only after connect_flag is set.
LEMMA SendInv ==
  ASSUME TypeInv, UplinkInv, NEW p \in Packet, Send(p),
         p.type \in Traffic => Accepted,
         link = "up" => (p.type = "CONNECT" <=> broker = "new" /\ uplink = <<>>),
         UNCHANGED <<link, broker, connect_flag>>
  PROVE  UplinkInv' /\ (link = "up" => uplink' # <<>>)
<1>1. CASE link # "up"
  BY <1>1 DEF Send, UplinkInv, Accepted
<1>2. CASE link = "up"
  <2>1. uplink \in Seq(Packet) /\ uplink' = Append(uplink, p)
    BY <1>2 DEF Send, TypeInv, TypeOK
  <2>2. /\ Len(uplink') = Len(uplink) + 1 /\ uplink' # <<>> /\ Len(uplink) \in Nat
        /\ \A i \in 1..Len(uplink) : uplink'[i] = uplink[i]
        /\ uplink'[Len(uplink) + 1] = p
    BY <2>1
  <2>3. ASSUME NEW i \in 1..Len(uplink')
        PROVE  /\ uplink'[i].type \in Traffic => Accepted
               /\ uplink'[i].type = "CONNECT" => i = 1 /\ broker = "new"
    <3>1. CASE i \in 1..Len(uplink)
      BY <2>2, <3>1 DEF UplinkInv
    <3>2. CASE i = Len(uplink) + 1
      <4>1. uplink = <<>> => Len(uplink) = 0
        BY EmptyQueue
      <4> QED BY <1>2, <2>2, <3>2, <4>1
    <3> QED BY <2>2, <3>1, <3>2
  <2>4. broker = "new" => Head(uplink').type = "CONNECT"
    <3>1. CASE uplink = <<>>
      BY <1>2, <2>1, <3>1
    <3>2. CASE uplink # <<>>
      BY <1>2, <2>1, <3>2 DEF UplinkInv
    <3> QED BY <3>1, <3>2
  <2> QED BY <1>2, <2>2, <2>3, <2>4 DEF UplinkInv, Accepted
<1> QED BY <1>1, <1>2

\* Reading, reporting and the keepalive test: none of them starts an exchange
\* that connect_flag does not allow.
LEMMA LoopInv ==
  ASSUME IInv, Open \/ Top \/ ReportInit \/ ReportStatus \/ ReadPacket \/ ReadNothing
  PROVE  SessionInv'
<1> USE DEF IInv, SessionInv, Accepted
<1>1. CASE Open
  <2>1. PICK state \in {"none", "up"} : FreshConnection(state)
    BY <1>1 DEF Open, TransportOpen
  <2>2. connect_flag' = 0 /\ msgtypes' = "CONNECT" /\ pc' \notin ReportBlock
    BY <1>1 DEF Open, DeviceInv, TypeInv, TypeOK, ReportBlock
  <2> QED BY <2>1, <2>2, FreshInv
<1>2. CASE Top
  <2>1. UNCHANGED <<connect_flag, buf, link, uplink, downlink, broker, subscribed>>
    BY <1>2 DEF Top, conn
  <2>2. /\ msgtypes' = msgtypes \/ (msgtypes = "none" /\ msgtypes' = "PINGREQ")
        /\ pc' = "switch" \/ (Accepted /\ pc' = "door")
    BY <1>2 DEF Top
  <2>3. UplinkInv'
    BY <2>1 DEF UplinkInv
  <2>4. DownlinkInv'
    BY <2>1, <2>2 DEF DownlinkInv
  <2>5. DeviceInv'
    BY <2>1, <2>2 DEF DeviceInv, Established, ReportBlock
  <2> QED BY <2>3, <2>4, <2>5
<1>3. CASE ReportInit \/ ReportStatus
  <2>1. /\ UNCHANGED <<connect_flag, msgtypes, link, downlink, broker, subscribed>>
        /\ pc \in ReportBlock /\ pc' \in {"mbox", "switch"}
        /\ Send(Report) \/ UNCHANGED uplink
    BY <1>3 DEF ReportInit, ReportStatus, ReportBlock
  <2>2. Accepted
    BY <2>1 DEF DeviceInv
  <2>3. link = "up" => broker = "accepted"
    BY <2>2 DEF DownlinkInv
  <2>4. UplinkInv'
    <3>1. CASE UNCHANGED uplink
      BY <2>1, <3>1 DEF UplinkInv
    <3>2. CASE Send(Report)
      <4>1. Report \in Packet /\ Report.type = "PUBLISH"
        BY PacketTypes DEF TypeInv
      <4> QED BY <2>1, <2>2, <2>3, <3>2, <4>1, SendInv
    <3> QED BY <2>1, <3>1, <3>2
  <2>5. DownlinkInv'
    BY <2>1 DEF DownlinkInv
  <2>6. DeviceInv'
    <3>1. msgtypes # "CONNACK" /\ (link = "up" => msgtypes # "CONNECT")
      BY <2>2, <2>3 DEF DeviceInv
    <3> QED BY <2>1, <2>2, <2>3, <3>1 DEF DeviceInv
  <2> QED BY <2>4, <2>5, <2>6
<1>4. CASE ReadPacket
  <2>1. /\ UNCHANGED <<connect_flag, link, uplink, broker, subscribed>>
        /\ downlink # <<>> /\ downlink \in Seq(Packet)
        /\ buf' = downlink[1] /\ msgtypes' = downlink[1].type
        /\ pc' = "top" /\ downlink' = Tail(downlink)
    BY <1>4 DEF ReadPacket, TypeInv, TypeOK
  <2>2. /\ 1 \in 1..Len(downlink) /\ downlink[1] \in Packet
        /\ \A i \in 1..Len(downlink') :
             i + 1 \in 1..Len(downlink) /\ downlink'[i] = downlink[i + 1] /\ i + 1 # 1
    BY <2>1
  <2>3. UplinkInv'
    BY <2>1 DEF UplinkInv
  <2>4. DownlinkInv'
    BY <2>1, <2>2 DEF DownlinkInv
  <2>5. DeviceInv'
    <3>1. downlink[1].type \in Types \cup {"none"}
      BY <2>2 DEF Packet
    <3>2. link = "up" => broker # "new"
      BY <2>1 DEF DownlinkInv
    <3>3. downlink[1].type # "CONNECT"
      BY <2>2 DEF DownlinkInv
    <3> QED BY <2>1, <2>2, <3>1, <3>2, <3>3 DEF DeviceInv, DownlinkInv, ReportBlock
  <2> QED BY <2>3, <2>4, <2>5
<1>5. CASE ReadNothing
  <2>1. /\ UNCHANGED <<connect_flag, msgtypes, link, uplink, downlink, broker, subscribed>>
        /\ pc = "read" /\ pc' = "top"
    BY <1>5 DEF ReadNothing, conn
  <2> QED BY <2>1 DEF UplinkInv, DownlinkInv, DeviceInv, ReportBlock
<1> QED BY <1>1, <1>2, <1>3, <1>4, <1>5

\* A report goes out only while connect_flag is set, so the CONNACK it would
\* overwrite in buf has been handled.
LEMMA AlarmInv ==
  ASSUME IInv, NEW a \in Alarms, ReportAlarm(a) \/ ClearAlarm(a)
  PROVE  SessionInv'
<1> USE DEF IInv, SessionInv, Accepted
<1>1. /\ UNCHANGED <<connect_flag, msgtypes, link, downlink, broker, subscribed>>
      /\ pc \in ReportBlock /\ pc' \in ReportBlock
      /\ Send(Report) \/ UNCHANGED uplink
  BY DEF ReportAlarm, ClearAlarm, ClearOf, AfterAlarm, ReportBlock, Alarms, conn
<1>2. Accepted
  BY <1>1 DEF DeviceInv
<1>3. link = "up" => broker = "accepted"
  BY <1>2 DEF DownlinkInv
<1>4. UplinkInv'
  <2>1. CASE UNCHANGED uplink
    BY <1>1, <2>1 DEF UplinkInv
  <2>2. CASE Send(Report)
    <3>1. Report \in Packet /\ Report.type = "PUBLISH"
      BY PacketTypes DEF TypeInv
    <3> QED BY <1>1, <1>2, <1>3, <2>2, <3>1, SendInv
  <2> QED BY <1>1, <2>1, <2>2
<1>5. DownlinkInv'
  BY <1>1 DEF DownlinkInv
<1>6. DeviceInv'
  <2>1. msgtypes # "CONNACK" /\ (link = "up" => msgtypes # "CONNECT")
    BY <1>2, <1>3 DEF DeviceInv
  <2> QED BY <1>1, <1>2, <1>3, <2>1 DEF DeviceInv, ReportBlock
<1> QED BY <1>4, <1>5, <1>6

\* A case of the switch that sends p and goes idle, or keeps its message state
\* when it could not send.
LEMMA AnswerInv ==
  ASSUME IInv, NEW p \in Packet, Send(p), pc' = "read", pc = "switch",
         UNCHANGED <<connect_flag, link, downlink, broker, subscribed>>,
         p.type \in Traffic => Accepted,
         link = "up" => (p.type = "CONNECT" <=> broker = "new" /\ uplink = <<>>),
         \/ msgtypes' = "none"
         \/ link # "up" /\ msgtypes' \in {"SUBSCRIBE", "CONNECT"} /\ Accepted
  PROVE  SessionInv'
<1> USE DEF IInv, SessionInv, Accepted
<1>1. UplinkInv' /\ (link = "up" => uplink' # <<>>)
  BY SendInv
<1>2. DownlinkInv'
  BY DEF DownlinkInv
<1>3. DeviceInv'
  BY <1>1 DEF DeviceInv, Established, ReportBlock
<1> QED BY <1>1, <1>2, <1>3

LEMMA SwitchInv ==
  ASSUME IInv,
         \/ HandleConnect \/ HandleConnack \/ HandleSubscribe \/ HandleReply
         \/ HandleInfo \/ HandlePubrel \/ HandlePingreq
  PROVE  SessionInv'
<1> USE DEF IInv, SessionInv, Accepted
<1>1. CASE HandleConnect
  <2>1. Simple("CONNECT") \in Packet /\ Simple("CONNECT").type = "CONNECT"
    BY PacketTypes DEF Types
  <2>2. link = "up" => broker = "new" /\ uplink = <<>>
    BY <1>1 DEF HandleConnect, Case, DeviceInv
  <2> QED BY <1>1, <2>1, <2>2, AnswerInv DEF HandleConnect, Case, SwitchFrame, Traffic
<1>2. CASE HandleConnack
  <2>1. /\ pc = "switch" /\ pc' = "read" /\ msgtypes = "CONNACK"
        /\ UNCHANGED <<buf, link, uplink, downlink, broker, subscribed>>
        /\ \/ buf.ok /\ connect_flag' = 1 /\ msgtypes' = "SUBSCRIBE"
           \/ ~(buf.type = "CONNACK" /\ buf.ok) /\ msgtypes' = "CONNECT"
              /\ UNCHANGED connect_flag
    BY <1>2 DEF HandleConnack, Case, SwitchFrame
  <2>2. /\ ~Accepted /\ buf.type = "CONNACK" /\ (~buf.ok => broker = "refused")
        /\ link = "up" => broker # "new" /\ broker # "refused"
    BY <2>1 DEF DeviceInv, DownlinkInv
  <2>3. link = "up" => broker = "accepted"
    BY <2>2 DEF TypeInv, TypeOK
  <2>4. \A i \in 1..Len(downlink) : downlink[i].type # "CONNACK"
    BY <2>1 DEF DownlinkInv
  <2>5. UplinkInv'
    BY <2>1, <2>2 DEF UplinkInv
  <2>6. DownlinkInv'
    BY <2>1, <2>2, <2>3, <2>4 DEF DownlinkInv
  <2>7. DeviceInv'
    BY <2>1, <2>2, <2>3 DEF DeviceInv, DownlinkInv, Established, ReportBlock
  <2> QED BY <2>5, <2>6, <2>7
<1>3. CASE HandleSubscribe
  <2>1. Numbered("SUBSCRIBE", msgid) \in Packet
        /\ Numbered("SUBSCRIBE", msgid).type = "SUBSCRIBE"
    BY PacketTypes DEF Types, TypeInv, TypeOK
  <2>2. Accepted /\ (link = "up" => broker = "accepted")
    BY <1>3 DEF HandleSubscribe, Case, DeviceInv, DownlinkInv, Established
  <2>3. \/ msgtypes' = "none"
        \/ link # "up" /\ msgtypes' \in {"SUBSCRIBE", "CONNECT"}
    BY <1>3 DEF HandleSubscribe, Case, SendOK
  <2> QED BY <1>3, <2>1, <2>2, <2>3, AnswerInv DEF HandleSubscribe, Case, SwitchFrame
<1>4. CASE HandleReply
  <2>1. /\ pc = "switch" /\ pc' = "read"
        /\ UNCHANGED <<connect_flag, buf, link, uplink, downlink, broker, subscribed>>
        /\ \/ msgtypes \in {"SUBACK", "PUBACK", "PUBCOMP", "PINGRESP"}
              /\ msgtypes' = "none"
           \/ msgtypes = "PUBREC" /\ msgtypes' = "PUBREL"
           \/ msgtypes = "none" /\ msgtypes' = "none"
    BY <1>4 DEF HandleReply, Case, SwitchFrame
  <2>2. UplinkInv'
    BY <2>1 DEF UplinkInv
  <2>3. DownlinkInv'
    BY <2>1 DEF DownlinkInv
  <2>4. DeviceInv'
    BY <2>1 DEF DeviceInv, Established, ReportBlock
  <2> QED BY <2>2, <2>3, <2>4
<1>5. CASE HandleInfo
  <2>1. Report \in Packet /\ Report.type = "PUBLISH"
    BY PacketTypes DEF TypeInv
  <2>2. Accepted /\ (link = "up" => broker = "accepted")
    BY <1>5 DEF HandleInfo, Case, DeviceInv, DownlinkInv, Established
  <2> QED BY <1>5, <2>1, <2>2, AnswerInv DEF HandleInfo, Case, SwitchFrame
<1>6. CASE HandlePubrel
  <2>1. Numbered("PUBREL", msgid) \in Packet /\ Numbered("PUBREL", msgid).type = "PUBREL"
    BY PacketTypes DEF Types, TypeInv, TypeOK
  <2>2. Accepted /\ (link = "up" => broker = "accepted")
    BY <1>6 DEF HandlePubrel, Case, DeviceInv, DownlinkInv, Established
  <2> QED BY <1>6, <2>1, <2>2, AnswerInv DEF HandlePubrel, Case, SwitchFrame
<1>7. CASE HandlePingreq
  <2>1. CASE SendOK
    <3>1. Simple("PINGREQ") \in Packet /\ Simple("PINGREQ").type = "PINGREQ"
      BY PacketTypes DEF Types
    <3>2. /\ Send(Simple("PINGREQ")) /\ msgtypes' = "none" /\ pc = "switch" /\ pc' = "read"
          /\ UNCHANGED <<connect_flag, link, downlink, broker, subscribed>>
      BY <1>7, <2>1 DEF HandlePingreq
    <3>3. link = "up" => ~(broker = "new" /\ uplink = <<>>)
      BY <1>7 DEF HandlePingreq, DeviceInv
    <3> QED BY <3>1, <3>2, <3>3, AnswerInv DEF Traffic
  <2>2. CASE ~SendOK
    BY <1>7, <2>2, FreshInv DEF HandlePingreq, TransportClose, ReportBlock
  <2> QED BY <2>1, <2>2
<1> QED BY <1>1, <1>2, <1>3, <1>4, <1>5, <1>6, <1>7

LEMMA PublishInv ==
  ASSUME IInv, NEW kw \in SUBSET Keywords, HandlePublish(kw) \/ HandleReset(kw)
  PROVE  SessionInv'
<1> USE DEF IInv, SessionInv, Accepted
<1>1. CASE HandlePublish(kw)
  <2>1. /\ pc = "switch" /\ pc' = "read" /\ msgtypes = "PUBLISH"
        /\ UNCHANGED <<connect_flag, link, downlink, broker, subscribed>>
        /\ msgtypes' \in {"none", "INFO", "PUBLISH"}
        /\ Send(Numbered("PUBACK", msgid')) \/ UNCHANGED uplink
    BY <1>1 DEF HandlePublish, Case, SwitchFrame
  <2>2. Accepted /\ (link = "up" => broker = "accepted")
    BY <2>1 DEF DeviceInv, DownlinkInv, Established
  <2>3. UplinkInv'
    <3>1. CASE UNCHANGED uplink
      BY <2>1, <3>1 DEF UplinkInv
    <3>2. CASE Send(Numbered("PUBACK", msgid'))
      <4>1. msgid' \in Nat
        BY <1>1, PublishType DEF TypeInv, TypeOK
      <4>2. Numbered("PUBACK", msgid') \in Packet
            /\ Numbered("PUBACK", msgid').type = "PUBACK"
        BY <4>1, PacketTypes DEF Types
      <4> QED BY <2>1, <2>2, <3>2, <4>2, SendInv
    <3> QED BY <2>1, <3>1, <3>2
  <2>4. DownlinkInv'
    BY <2>1 DEF DownlinkInv
  <2>5. DeviceInv'
    BY <2>1, <2>2 DEF DeviceInv, ReportBlock
  <2> QED BY <2>3, <2>4, <2>5
<1>2. CASE HandleReset(kw)
  BY <1>2, FreshInv DEF HandleReset, BootDevice, ReportBlock
<1> QED BY <1>1, <1>2

LEMMA EnvironmentInv ==
  ASSUME IInv, Environment
  PROVE  SessionInv'
<1>1. UNCHANGED <<pc, msgtypes, connect_flag, buf, link, uplink, downlink, broker, subscribed>>
  BY DEF Environment, Elapse60s, Elapse10s, PostStatus, RaiseAlarm, device, conn
<1> QED BY <1>1 DEF IInv, SessionInv, UplinkInv, DownlinkInv, DeviceInv, Accepted

\* The broker answers the CONNECT once, and everything else it sends answers or
\* follows a packet of an accepted client.
LEMMA BrokerInv ==
  ASSUME IInv, Broker \/ Network
  PROVE  SessionInv'
<1> USE DEF IInv, SessionInv, Accepted
<1>1. ASSUME NEW accept \in BOOLEAN, BrokerConnect(accept) PROVE SessionInv'
  <2>1. /\ link = "up" /\ broker = "new" /\ uplink # <<>> /\ uplink \in Seq(Packet)
        /\ UNCHANGED <<pc, msgtypes, connect_flag, buf>>
        /\ downlink' = Append(downlink, Connack(accept))
    BY <1>1 DEF BrokerConnect, Answer, BrokerFrame, device, TypeInv, TypeOK
  <2>2. /\ downlink = <<>> /\ ~Accepted /\ ~subscribed
        /\ msgtypes \in {"none", "PINGREQ"}
    BY <2>1 DEF DownlinkInv, DeviceInv
  <2>3. /\ Len(downlink') = 1 /\ downlink'[1] = Connack(accept)
        /\ downlink'[1].type = "CONNACK" /\ downlink'[1].ok = accept
    BY <2>1, <2>2, PacketTypes
  <2>4. CASE accept
    <3>1. link' = "up" /\ broker' = "accepted" /\ uplink' = Tail(uplink) /\ ~subscribed'
      BY <1>1, <2>2, <2>4 DEF BrokerConnect
    <3>2. \A i \in 1..Len(uplink') :
            i + 1 \in 1..Len(uplink) /\ uplink'[i] = uplink[i + 1] /\ i + 1 # 1
      BY <2>1, <3>1
    <3>3. UplinkInv'
      BY <2>1, <3>1, <3>2 DEF UplinkInv
    <3>4. DownlinkInv'
      <4>1. ASSUME NEW i \in 1..Len(downlink')
            PROVE  i = 1 /\ downlink'[i].type = "CONNACK" /\ downlink'[i].ok
        <5>1. i = 1
          BY <2>3
        <5>2. downlink'[1].ok
          BY <2>3, <2>4, Zenon
        <5> QED BY <2>3, <5>1, <5>2
      <4> QED BY <2>1, <2>2, <3>1, <4>1 DEF DownlinkInv, Established
    <3>5. DeviceInv'
      BY <2>1, <2>2, <3>1 DEF DeviceInv, Established
    <3> QED BY <3>3, <3>4, <3>5
  <2>5. CASE ~accept
    <3>1. link' = "half" /\ broker' = "refused" /\ uplink' = <<>> /\ ~subscribed'
      BY <1>1, <2>5 DEF BrokerConnect, Abandon
    <3>2. UplinkInv'
      BY <3>1, EmptyQueue DEF UplinkInv
    <3>3. DownlinkInv'
      BY <2>1, <2>2, <2>3, <3>1 DEF DownlinkInv, Established
    <3>4. DeviceInv'
      BY <2>1, <2>2, <3>1 DEF DeviceInv, Established
    <3> QED BY <3>2, <3>3, <3>4
  <2> QED BY <2>4, <2>5
<1>2. CASE BrokerServe
  <2>1. /\ link = "up" /\ link' = "up" /\ broker = "accepted" /\ broker' = "accepted"
        /\ uplink # <<>> /\ uplink \in Seq(Packet) /\ downlink \in Seq(Packet)
        /\ UNCHANGED <<pc, msgtypes, connect_flag, buf>>
        /\ uplink' = Tail(uplink)
        /\ downlink' = downlink \o Reply(Head(uplink))
        /\ subscribed' => subscribed \/ Head(uplink).type = "SUBSCRIBE"
    BY <1>2 DEF BrokerServe, BrokerFrame, device, TypeInv, TypeOK
  <2>2. /\ Head(uplink) = uplink[1] /\ 1 \in 1..Len(uplink)
        /\ \A i \in 1..Len(uplink') :
             i + 1 \in 1..Len(uplink) /\ uplink'[i] = uplink[i + 1] /\ i + 1 # 1
    BY <2>1
  <2>3. Head(uplink).type \in Traffic => Accepted
    BY <2>2 DEF UplinkInv
  <2>4. \/ Reply(Head(uplink)) = <<>>
        \/ \E p \in Packet :
             /\ Reply(Head(uplink)) = <<p>>
             /\ p.type \notin {"CONNECT", "CONNACK"}
             /\ p.type \in Established => Accepted
    <3>1. Head(uplink).id \in Nat
      <4>1. Head(uplink) \in Packet
        BY <2>1
      <4> QED BY <4>1 DEF Packet
    <3> QED BY <2>3, <3>1, PacketTypes DEF Reply, Types, Traffic, Established
  <2>5. UplinkInv'
    BY <2>1, <2>2 DEF UplinkInv
  <2>6. \A i \in 1..Len(downlink') :
          \/ i \in 1..Len(downlink) /\ downlink'[i] = downlink[i]
          \/ /\ downlink'[i].type \notin {"CONNECT", "CONNACK"}
             /\ downlink'[i].type \in Established => Accepted
    <3>1. CASE Reply(Head(uplink)) = <<>>
      <4>1. Len(downlink') = Len(downlink) /\ \A i \in 1..Len(downlink) : downlink'[i] = downlink[i]
        BY <2>1, <3>1, EmptyQueue, ConcatProperties
      <4> QED BY <4>1
    <3>2. ASSUME NEW p \in Packet, Reply(Head(uplink)) = <<p>>,
                 p.type \notin {"CONNECT", "CONNACK"},
                 p.type \in Established => Accepted
          PROVE  \A i \in 1..Len(downlink') :
                   \/ i \in 1..Len(downlink) /\ downlink'[i] = downlink[i]
                   \/ /\ downlink'[i].type \notin {"CONNECT", "CONNACK"}
                      /\ downlink'[i].type \in Established => Accepted
      <4>1. downlink' = Append(downlink, p)
        BY <2>1, <3>2, AppendIsConcat
      <4>2. /\ Len(downlink') = Len(downlink) + 1 /\ downlink'[Len(downlink) + 1] = p
            /\ \A i \in 1..Len(downlink) : downlink'[i] = downlink[i]
        BY <2>1, <4>1
      <4>3. \A i \in 1..Len(downlink') : i \in 1..Len(downlink) \/ i = Len(downlink) + 1
        BY <2>1, <4>2
      <4> QED BY <3>2, <4>2, <4>3
    <3> QED BY <2>4, <3>1, <3>2
  <2>7. DownlinkInv'
    BY <2>1, <2>3, <2>6 DEF DownlinkInv, Traffic
  <2>8. DeviceInv'
    BY <2>1 DEF DeviceInv
  <2> QED BY <2>5, <2>7, <2>8
<1>3. ASSUME NEW kw \in Commands, NEW q \in {0, 1}, NEW id \in PushIds,
             BrokerPush(kw, q, id)
      PROVE  SessionInv'
  <2> DEFINE p == MkPacket("PUBLISH", id, q, kw, FALSE)
  <2>1. /\ link = "up" /\ subscribed /\ downlink \in Seq(Packet)
        /\ UNCHANGED <<pc, msgtypes, connect_flag, buf, link, uplink, broker, subscribed>>
        /\ downlink' = Append(downlink, p)
    BY <1>3 DEF BrokerPush, Answer, BrokerFrame, device, TypeInv, TypeOK
  <2>2. p.type = "PUBLISH"
    BY DEF MkPacket
  <2>3. Accepted /\ broker = "accepted"
    BY <2>1 DEF DownlinkInv
  <2> HIDE DEF p
  <2>4. /\ Len(downlink') = Len(downlink) + 1 /\ downlink'[Len(downlink) + 1] = p
        /\ \A i \in 1..Len(downlink) : downlink'[i] = downlink[i]
    BY <2>1
  <2>5. \A i \in 1..Len(downlink') : i \in 1..Len(downlink) \/ i = Len(downlink) + 1
    BY <2>1, <2>4
  <2>6. UplinkInv'
    BY <2>1 DEF UplinkInv
  <2>7. DownlinkInv'
    BY <2>1, <2>2, <2>3, <2>4, <2>5 DEF DownlinkInv
  <2>8. DeviceInv'
    BY <2>1 DEF DeviceInv
  <2> QED BY <2>6, <2>7, <2>8
<1>4. CASE Break \/ Notice
  <2>1. /\ UNCHANGED <<pc, msgtypes, connect_flag, buf, broker>>
        /\ link' \in {"half", "down"}
        /\ downlink' = downlink \/ downlink' = <<>>
        /\ subscribed' => subscribed
    BY <1>4 DEF Break, Notice, Abandon, BrokerFrame, device
  <2>2. uplink' = <<>>
    BY <1>4 DEF Break, Notice, Abandon, UplinkInv
  <2>3. UplinkInv'
    BY <2>1, <2>2, EmptyQueue DEF UplinkInv
  <2>4. DownlinkInv'
    <3>1. CASE downlink' = downlink
      BY <2>1, <3>1 DEF DownlinkInv
    <3>2. CASE downlink' = <<>>
      BY <2>1, <3>2, EmptyQueue DEF DownlinkInv
    <3> QED BY <2>1, <3>1, <3>2
  <2>5. DeviceInv'
    BY <2>1 DEF DeviceInv
  <2> QED BY <2>3, <2>4, <2>5
<1> QED BY <1>1, <1>2, <1>3, <1>4 DEF Broker, Network

LEMMA Invariance == Spec => []IInv
<1>1. IInv /\ [Next]_vars => IInv'
  <2> SUFFICES ASSUME IInv, [Next]_vars PROVE IInv'
    OBVIOUS
  <2>1. TypeInv'
    BY TypeStep DEF IInv
  <2>2. CASE MqttThread
    BY <2>1, <2>2, LoopInv, AlarmInv, SwitchInv, PublishInv DEF MqttThread, IInv
  <2>3. CASE Environment
    BY <2>1, <2>3, EnvironmentInv DEF IInv
  <2>4. CASE Broker \/ Network
    BY <2>1, <2>4, BrokerInv DEF IInv
  <2>5. CASE UNCHANGED vars
    BY <2>1, <2>5 DEF vars, device, conn, IInv, SessionInv, UplinkInv, DownlinkInv,
                      DeviceInv, Accepted
  <2> QED BY <2>2, <2>3, <2>4, <2>5 DEF Next
<1> QED BY InitInv, <1>1, PTL DEF Spec

\* On every connection the CONNECT is the first packet and the only CONNECT.
THEOREM ConnectOrder == Spec => []ConnectFirstAndOnce
<1>1. IInv => ConnectFirstAndOnce
  BY DEF IInv, SessionInv, UplinkInv, ConnectFirstAndOnce, InUplink
<1> QED BY Invariance, <1>1, PTL

\* No report, subscription or acknowledgement leaves on a connection whose
\* CONNECT the broker has not accepted.
THEOREM TrafficGated == Spec => []TrafficOnlyWhenAccepted
<1>1. IInv => TrafficOnlyWhenAccepted
  BY DEF IInv, SessionInv, UplinkInv, DownlinkInv, TrafficOnlyWhenAccepted, InUplink
<1> QED BY Invariance, <1>1, PTL

\* The CONNACK is still in the shared buffer when the switch parses it.
THEOREM ConnackIntact == Spec => []ConnackStillBuffered
<1>1. IInv => ConnackStillBuffered
  BY DEF IInv, SessionInv, DeviceInv, ConnackStillBuffered
<1> QED BY Invariance, <1>1, PTL
=============================================================================
