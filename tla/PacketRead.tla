----------------------------- MODULE PacketRead -----------------------------
(***************************************************************************)
(* MQTTPacket_read: how mqtt_thread takes a packet from the stream: a byte *)
(* of header, the remaining length as digits of seven bits, the rest.      *)
(* Each of them is one recv, which returns what is there up to the end of  *)
(* a pushed segment, and gives up after a second without a byte.           *)
(*                                                                         *)
(* The bytes carry where they belong to: a packet's number, and their      *)
(* place in it.  Only the histories read that.                             *)
(***************************************************************************)
EXTENDS Naturals, Sequences, FiniteSets

CONSTANTS
  Base,        \* 128: a length has digits of this base, below their top bit
  Flags,       \* 16: values of the lower bits of the first byte
  buflen,
  Packets,     \* what the broker sends
  MaxPackets,  \* bound: packets
  MaxCut       \* bound: packets that come in pieces

\* MAX_NO_OF_REMAINING_LENGTH_BYTES
MaxDigits == 4

\* multiplier, after so many digits.
Weight[d \in 0..MaxDigits] == IF d = 0 THEN 1 ELSE Weight[d - 1] * Base

ASSUME ConstantsAssumption ==
  /\ Base \in Nat \ {0, 1} /\ Flags \in 1..Base
  /\ buflen \in Nat /\ buflen > MaxDigits
  /\ \A p \in Packets : /\ p \in [type : Nat, body : Seq(0..(2 * Base - 1))]
                        /\ p.type * Flags < 2 * Base /\ Len(p.body) < Weight[MaxDigits]
  /\ MaxPackets \in Nat /\ MaxCut \in Nat

VARIABLES
  stream,    \* the bytes the broker wrote
  arrived,   \* how many of them have arrived
  pushes,    \* where recv stops: behind a segment that was pushed
  read,      \* how many recv has given
  pc,        \* in MQTTPacket_read: "header", "length", "rest"
  type,      \* buf[0], its upper bits
  rem_len,   \* the length so far
  digits,    \* MQTTPacket_decode's len
  sent, cut, taken, lost, got   \* histories: see PacketStream

wire == <<stream, arrived, pushes, read>>
reader == <<pc, type, rem_len, digits>>
history == <<sent, cut, taken, lost, got>>
vars == <<wire, reader, history>>

Value == 0..(2 * Base - 1)
WireByte == [value : Value, of : Nat, at : Nat]
Packet == [type : Nat, body : Seq(Value)]

\* mqtt_thread makes no difference between -1 and a packet of type 0.
Error == [type |-> 0, body |-> <<>>]
-----------------------------------------------------------------------------
(* Lengths.                                                                *)

\* How many digits MQTTPacket_encode writes, and which.
Digits(n) == CHOOSE d \in 1..MaxDigits : n < Weight[d] /\ \A e \in 1..(d - 1) : n >= Weight[e]

Encoded(n) ==
  [i \in 1..Digits(n) |->
     ((n \div Weight[i - 1]) % Base) + (IF i < Digits(n) THEN Base ELSE 0)]

\* Mutant: every digit counts as the first.
DecodedUnscaled(value) == rem_len + (value % Base)

Decoded(value) == rem_len + (value % Base) * Weight[digits]

\* Mutant: the rest alone has to fit.
SizeOfRest(n) == n

\* The header and the length take their part of buf.
Size(n) == 1 + Digits(n) + n

Fits(p) == Size(Len(p.body)) <= buflen

Wire(p) == <<p.type * Flags>> \o Encoded(Len(p.body)) \o p.body
Tagged(p, n) == [i \in 1..Len(Wire(p)) |-> [value |-> Wire(p)[i], of |-> n, at |-> i]]
-----------------------------------------------------------------------------
(* The broker and TCP.                                                     *)

Send(p) ==
  /\ Len(sent) < MaxPackets
  /\ sent' = Append(sent, p)
  /\ stream' = stream \o Tagged(p, Len(sent) + 1)
  /\ UNCHANGED <<arrived, pushes, read, reader, cut, taken, lost, got>>

\* A packet begins here, or will.
Starts(i) == i \in DOMAIN stream => stream[i].at = 1

\* A segment, pushed or not.
Arrive ==
  \E n \in 1..(Len(stream) - arrived), push \in BOOLEAN :
    /\ arrived' = arrived + n
    /\ pushes' = pushes \cup (IF push THEN {arrived'} ELSE {})
    /\ cut' = cut \cup (IF Starts(arrived' + 1) THEN {} ELSE {stream[arrived' + 1].of})
    /\ Cardinality(cut') <= MaxCut
    /\ UNCHANGED <<stream, read, reader, sent, taken, lost, got>>
-----------------------------------------------------------------------------
(* recv and MQTTPacket_read.                                               *)

\* Where recv stops.
Stop == IF pushes = {} THEN arrived ELSE CHOOSE p \in pushes : \A q \in pushes : p <= q

\* recv of n bytes gives so many; none when a second is over.
Recv(n) == IF Stop - read < n THEN Stop - read ELSE n

Take(k) ==
  /\ read' = read + k
  /\ pushes' = {p \in pushes : p > read'}
  /\ UNCHANGED <<stream, arrived>>

\* The call returns: is the next byte the first of a packet?
Return(result) ==
  /\ got' = result /\ pc' = "header" /\ type' = 0 /\ rem_len' = 0 /\ digits' = 0
  /\ lost' = ~ Starts(read' + 1)
  /\ taken' = IF read' = Len(stream) THEN Len(sent) ELSE stream[read' + 1].of - 1
  /\ UNCHANGED <<sent, cut>>

Header ==
  /\ pc = "header" /\ Recv(1) = 1
  /\ type' = stream[read + 1].value \div Flags
  /\ rem_len' = 0 /\ digits' = 0 /\ pc' = "length"
  /\ Take(1) /\ UNCHANGED history

NoHeader ==
  /\ pc = "header" /\ Recv(1) = 0
  /\ Take(0) /\ Return(Error)

\* Behind MQTTPacket_decode, whatever that returned.
Check(n) ==
  \/ /\ Size(n) > buflen
     /\ Return(Error)
  \/ /\ Size(n) <= buflen /\ n = 0
     /\ Return([type |-> type, body |-> <<>>])
  \/ /\ Size(n) <= buflen /\ n > 0
     /\ pc' = "rest" /\ rem_len' = n /\ UNCHANGED <<type, digits, history>>

\* A digit; behind the last, or behind four, the length is done.
Length ==
  /\ pc = "length" /\ digits < MaxDigits /\ Recv(1) = 1
  /\ Take(1)
  /\ LET value == stream[read + 1].value
     IN  \/ /\ value >= Base
            /\ rem_len' = Decoded(value) /\ digits' = digits + 1
            /\ UNCHANGED <<pc, type, history>>
         \/ value < Base /\ Check(Decoded(value))

\* Mutant: without a digit, it waits for another second.
LengthEndsFour ==
  /\ pc = "length" /\ (digits = MaxDigits \/ Recv(1) = 0)
  /\ Take(0)
  /\ IF digits = MaxDigits THEN Check(rem_len) ELSE UNCHANGED <<reader, history>>

\* Too many digits, or none in time.
LengthEnds ==
  /\ pc = "length" /\ (digits = MaxDigits \/ Recv(1) = 0)
  /\ Take(0) /\ Check(rem_len)

Rest ==
  /\ pc = "rest"
  /\ LET k == Recv(rem_len)
     IN  /\ Take(k)
         /\ \/ /\ k = rem_len
               /\ Return([type |-> type, body |-> [i \in 1..k |-> stream[read + i].value]])
            \/ k < rem_len /\ Return(Error)

MQTTPacket_read == Header \/ NoHeader \/ Length \/ LengthEnds \/ Rest
-----------------------------------------------------------------------------
Init ==
  /\ stream = <<>> /\ arrived = 0 /\ pushes = {} /\ read = 0
  /\ pc = "header" /\ type = 0 /\ rem_len = 0 /\ digits = 0
  /\ sent = <<>> /\ cut = {} /\ taken = 0 /\ lost = FALSE /\ got = Error

Next == MQTTPacket_read \/ Arrive \/ \E p \in Packets : Send(p)

\* mqtt_thread reads again and again, and TCP delivers.
Spec == Init /\ [][Next]_vars /\ WF_vars(MQTTPacket_read) /\ WF_vars(Arrive)
-----------------------------------------------------------------------------
(* Properties.                                                             *)

\* Nothing is written behind the end of buf, whatever the length says.
TypeOK ==
  /\ stream \in Seq(WireByte) /\ arrived \in 0..Len(stream)
  /\ read \in 0..arrived /\ pushes \subseteq (read + 1)..arrived
  /\ pc \in {"header", "length", "rest"} /\ type \in Nat
  /\ rem_len \in 0..(Weight[MaxDigits] - 1) /\ digits \in 0..MaxDigits
  /\ pc = "rest" => rem_len \in 1..(buflen - 1 - Digits(rem_len))
  /\ sent \in Seq(Packets) /\ cut \subseteq Nat /\ taken \in 0..Len(sent) /\ lost \in BOOLEAN
  /\ got \in Packet

Stream == INSTANCE PacketStream WITH Results <- Packet

\* Packets that come whole and fit are returned as they were sent, each once and in
\* their order, whatever segments and timeouts there are between them; and only one
\* that is in pieces or too long puts the reader out of step.
DeliversPackets == Stream!Spec

\* A reader that is out of step finds back when the broker is silent: no length it
\* made up keeps it waiting.
Resynchronises ==
  <>[][~ \E p \in Packets : Send(p)]_vars => <>[](~ lost /\ taken = Len(sent))

\* "integer MQTT packet type, or -1 on error" (MQTTPacket.c l. 287): what is
\* returned as a packet was sent.
OnlySent == got # Error => \E i \in DOMAIN sent : got = sent[i]
=============================================================================
