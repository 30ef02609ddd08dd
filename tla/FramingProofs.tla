--------------------------- MODULE FramingProofs ---------------------------
(***************************************************************************)
(* How the box finds the pieces in a stream of bytes: the packets of the   *)
(* broker (PacketRead), the sentences of the GPS (GpsReceiver).            *)
(*                                                                         *)
(* MQTTPacket_read finds them by counting.  The argument is in three       *)
(* parts.  Lengths: the digits of MQTTPacket_encode, decoded one by one,   *)
(* are the remainders of the length, because the next remainder is the     *)
(* last and a digit.  The stream: its bytes stand one behind the other,    *)
(* packet by packet, so that who knows where in a packet a byte is knows   *)
(* where the packet ends.  The reader: in step it has the remainder of     *)
(* the length that belongs to the byte it stands at (IInv); a recv that    *)
(* gives less than was asked for stops where a segment does, and then the  *)
(* packet is in pieces.  Every step is then one of PacketStream.           *)
(*                                                                         *)
(* USART2_IRQHandler finds them by their '$': RxInv says that the buffer   *)
(* follows the sentence part by part after it, and point1 with it, so that *)
(* at the end of an RMC sentence what is saved is all of it; before the    *)
(* '$' of the next one nothing can be saved.  What the wait does is not    *)
(* seen by the receiver at all.                                            *)
(***************************************************************************)
EXTENDS PacketRead, GpsReceiver,
        WellFoundedInduction, SequenceTheorems, TLAPS

\* Every set of numbers that is not empty has a least element.
LEMMA LeastNumber ==
  ASSUME NEW T \in SUBSET Nat, T # {}
  PROVE  \E m \in T : \A k \in T : m <= k
<1>1. IsWellFoundedOn(OpToRel(<, Nat), Nat)
  BY NatLessThanWellFounded, Zenon
<1>2. PICK m \in T : \A k \in T : <<k, m>> \notin OpToRel(<, Nat)
  BY <1>1, WFMin, Zenon
<1>3. \A k \in T : ~(k < m)
  BY <1>2 DEF OpToRel
<1> QED
  BY <1>3

\* A set that contains 0 and never stops before n contains 0..n.
LEMMA Reaches ==
  ASSUME NEW n \in Nat, NEW G, 0 \in G, \A k \in 0..(n - 1) : k \in G => k + 1 \in G
  PROVE  \A k \in 0..n : k \in G
<1> DEFINE Missed == (0..n) \ G
<1>1. Missed = {}
  <2> SUFFICES ASSUME Missed # {} PROVE FALSE
    OBVIOUS
  <2>1. PICK k \in Missed : \A j \in Missed : k <= j
    <3>1. Missed \in SUBSET Nat
      OBVIOUS
    <3> QED
      BY <3>1, LeastNumber
  <2>2. k \in 0..n /\ k \notin G /\ k # 0
    BY <2>1
  <2>3. k - 1 \in 0..(n - 1) /\ ~(k <= k - 1) /\ (k - 1) + 1 = k
    BY <2>2
  <2>4. k - 1 \in 0..n
    BY <2>2
  <2>5. k - 1 \in G
    BY <2>1, <2>3, <2>4
  <2> QED
    BY <2>2, <2>3, <2>5
<1> QED
  BY <1>1
-----------------------------------------------------------------------------
(* Lengths.                                                                *)

\* multiplier is the power of the base it should be: the equation of Weight holds.
LEMMA WeightIs ==
  /\ Weight[0] = 1
  /\ \A d \in 0..3 : Weight[d + 1] = Weight[d] * Base
<1> DEFINE one == 1 * Base
           two == one * Base
           three == two * Base
           four == three * Base
           w == [d \in 0..4 |-> IF d = 0 THEN 1 ELSE IF d = 1 THEN one ELSE IF d = 2 THEN two
                                ELSE IF d = 3 THEN three ELSE four]
<1>1. w = [d \in 0..4 |-> IF d = 0 THEN 1 ELSE w[d - 1] * Base]
  <2> SUFFICES ASSUME NEW d \in 0..4 PROVE w[d] = IF d = 0 THEN 1 ELSE w[d - 1] * Base
    OBVIOUS
  <2>1. w[0] = 1 /\ w[1] = one /\ w[2] = two /\ w[3] = three /\ w[4] = four
    OBVIOUS
  <2> HIDE DEF w
  <2>2. d = 0 \/ d = 1 \/ d = 2 \/ d = 3 \/ d = 4
    OBVIOUS
  <2> QED
    BY <2>1, <2>2
<1> HIDE DEF w
<1>2. Weight = [d \in 0..4 |-> IF d = 0 THEN 1 ELSE Weight[d - 1] * Base]
  BY <1>1 DEF Weight, MaxDigits
<1>3. ASSUME NEW d \in 0..3 PROVE Weight[d + 1] = Weight[d] * Base
  <2>1. d + 1 \in 0..4 /\ d + 1 # 0 /\ (d + 1) - 1 = d
    OBVIOUS
  <2> QED
    BY <1>2, <2>1
<1> QED
  BY <1>2, <1>3

LEMMA WeightType ==
  /\ \A d \in 0..4 : Weight[d] \in Nat \ {0}
  /\ Base \in Nat /\ Base > 1
<1>1. Base \in Nat /\ Base > 1
  BY ConstantsAssumption
<1>2. \A a \in Nat \ {0} : a * Base \in Nat \ {0}
  BY <1>1
<1>3. Weight[0] \in Nat \ {0} /\ Weight[1] \in Nat \ {0} /\ Weight[2] \in Nat \ {0}
      /\ Weight[3] \in Nat \ {0} /\ Weight[4] \in Nat \ {0}
  <2>1. Weight[0] \in Nat \ {0}
    BY WeightIs
  <2>2. \A d \in 0..3 : Weight[d] \in Nat \ {0} => Weight[d + 1] \in Nat \ {0}
    BY <1>2, WeightIs
  <2>3. Weight[0 + 1] \in Nat \ {0}
    BY <2>1, <2>2
  <2>4. Weight[1 + 1] \in Nat \ {0}
    BY <2>2, <2>3
  <2>5. Weight[2 + 1] \in Nat \ {0}
    BY <2>2, <2>4
  <2>6. Weight[3 + 1] \in Nat \ {0}
    BY <2>2, <2>5
  <2> QED
    BY <2>1, <2>3, <2>4, <2>5, <2>6
<1>4. \A d \in 0..4 : d = 0 \/ d = 1 \/ d = 2 \/ d = 3 \/ d = 4
  OBVIOUS
<1> QED
  BY <1>1, <1>3, <1>4

\* A number's digits: all the lower ones, and the next.
LEMMA NextDigit ==
  ASSUME NEW n \in Nat, NEW w \in Nat \ {0}, NEW b \in Nat \ {0}
  PROVE  /\ n % (w * b) = (n % w) + ((n \div w) % b) * w
         /\ w * b \in Nat \ {0}
<1> DEFINE q == n \div w
           r == n % w
           s == q \div b
           t == q % b
<1>1. q \in Nat /\ r \in 0..(w - 1) /\ n = w * q + r
  OBVIOUS
<1> HIDE DEF q, r
<1>2. s \in Nat /\ t \in 0..(b - 1) /\ q = b * s + t
  BY <1>1
<1> HIDE DEF s, t
<1> DEFINE m == w * b
           x == t * w + r
<1>3. m \in Nat /\ m > 0
  <2>1. \A u, v \in Nat \ {0} : u * v \in Nat /\ u * v > 0
    OBVIOUS
  <2> QED
    BY <2>1
<1>4. x \in Nat /\ x < m
  <2>1. t * w \in Nat /\ t * w <= (b - 1) * w
    <3>1. t \in Nat /\ b - 1 \in Nat /\ t <= b - 1
      BY <1>2
    <3>2. \A u, v, y \in Nat : u <= v => u * y <= v * y
      OBVIOUS
    <3> QED
      BY <3>1, <3>2
  <2>2. (b - 1) * w = m - w
    OBVIOUS
  <2> HIDE DEF m
  <2> QED
    BY <1>1, <1>3, <2>1, <2>2
<1>5. n = m * s + x
  <2>1. n = w * (b * s + t) + r
    BY <1>1, <1>2
  <2>2. w * (b * s + t) = (w * b) * s + t * w
    BY <1>2
  <2> QED
    BY <1>1, <1>2, <2>1, <2>2
<1> HIDE DEF m, x
<1>6. n % m = x
  BY <1>2, <1>3, <1>4, <1>5
<1> QED
  BY <1>3, <1>6 DEF m, x, q, r, t

LEMMA WeightGrows ==
  /\ \A d \in 0..3 : Weight[d] < Weight[d + 1]
  /\ \A d \in 0..4 : Weight[d] <= Weight[4]
<1>1. ASSUME NEW d \in 0..3 PROVE Weight[d] < Weight[d + 1]
  <2>1. Weight[d] \in Nat \ {0} /\ Base \in Nat /\ Base > 1
    BY WeightType
  <2>2. \A w \in Nat \ {0}, b \in Nat : b > 1 => w < w * b
    OBVIOUS
  <2>3. Weight[d] < Weight[d] * Base
    BY <2>1, <2>2
  <2> QED
    BY <2>3, WeightIs
<1>2. ASSUME NEW d \in 0..4 PROVE Weight[d] <= Weight[4]
  <2>1. Weight[0] < Weight[1] /\ Weight[1] < Weight[2] /\ Weight[2] < Weight[3] /\ Weight[3] < Weight[4]
    <3>1. Weight[0] < Weight[0 + 1] /\ Weight[1] < Weight[1 + 1]
          /\ Weight[2] < Weight[2 + 1] /\ Weight[3] < Weight[3 + 1]
      BY <1>1
    <3> QED
      BY <3>1
  <2>2. Weight[0] \in Nat /\ Weight[1] \in Nat /\ Weight[2] \in Nat /\ Weight[3] \in Nat /\ Weight[4] \in Nat
    BY WeightType
  <2>3. d = 0 \/ d = 1 \/ d = 2 \/ d = 3 \/ d = 4
    OBVIOUS
  <2> QED
    BY <2>1, <2>2, <2>3
<1> QED
  BY <1>1, <1>2

\* MQTTPacket_encode needs a digit, and never more than it must.
LEMMA DigitsAre ==
  ASSUME NEW n \in 0..(Weight[4] - 1)
  PROVE  /\ Digits(n) \in 1..4 /\ n < Weight[Digits(n)]
         /\ \A e \in 1..(Digits(n) - 1) : n >= Weight[e]
<1> DEFINE D(d) == n < Weight[d] /\ \A e \in 1..(d - 1) : n >= Weight[e]
           T == {d \in 1..4 : n < Weight[d]}
<1>1. \E d \in 1..4 : D(d)
  <2>1. n \in Nat /\ \A d \in 1..4 : Weight[d] \in Nat
    BY WeightType
  <2>2. 4 \in T /\ T \in SUBSET Nat
    BY WeightType
  <2>3. PICK d \in T : \A e \in T : d <= e
    BY <2>2, LeastNumber
  <2>4. ASSUME NEW e \in 1..(d - 1) PROVE n >= Weight[e]
    <3>1. e \in 1..4 /\ ~(d <= e)
      BY <2>3
    <3>2. e \notin T
      BY <2>3, <3>1
    <3> QED
      BY <2>1, <3>1, <3>2
  <2> QED
    BY <2>3, <2>4
<1>2. Digits(n) = CHOOSE d \in 1..4 : D(d)
  BY DEF Digits, MaxDigits
<1> HIDE DEF D
<1>3. Digits(n) \in 1..4 /\ D(Digits(n))
  BY <1>1, <1>2
<1> QED
  BY <1>3 DEF D

\* What MQTTPacket_decode has after one more digit of any value.
LEMMA DecodedFits ==
  ASSUME NEW d \in 0..3, NEW r \in 0..(Weight[d] - 1), NEW v \in Nat
  PROVE  r + (v % Base) * Weight[d] \in 0..(Weight[d + 1] - 1)
<1> DEFINE w == Weight[d]
           t == v % Base
<1>1. w \in Nat \ {0} /\ Base \in Nat \ {0} /\ Weight[d + 1] = w * Base
  BY WeightType, WeightIs
<1>2. t \in 0..(Base - 1)
  BY <1>1
<1> HIDE DEF w, t
<1>3. t * w \in Nat /\ t * w <= (Base - 1) * w
  <2>1. t \in Nat /\ Base - 1 \in Nat /\ t <= Base - 1
    BY <1>1, <1>2
  <2>2. \A u, x, y \in Nat : u <= x => u * y <= x * y
    OBVIOUS
  <2>3. \A u, y \in Nat : u * y \in Nat
    OBVIOUS
  <2> QED
    BY <1>1, <2>1, <2>2, <2>3
<1>4. (Base - 1) * w = w * Base - w
  BY <1>1
<1>5. r \in 0..(w - 1)
  BY DEF w
<1>6. w * Base \in Nat
  BY <1>1
<1> DEFINE x == t * w
           y == (Base - 1) * w
           z == w * Base
<1> HIDE DEF x, y, z
<1>7. r + x \in 0..(z - 1)
  <2>1. x \in Nat /\ x <= y /\ y = z - w /\ z \in Nat
    BY <1>3, <1>4, <1>6 DEF x, y, z
  <2> QED
    BY <2>1, <1>1, <1>5
<1> QED
  BY <1>1, <1>7 DEF x, z, w, t

\* A digit that is decoded, in its place, is the digit that was encoded.
LEMMA DigitIs ==
  ASSUME NEW n \in 0..(Weight[4] - 1), NEW d \in 0..(Digits(n) - 1)
  PROVE  /\ Encoded(n)[d + 1] \in Value
         /\ Encoded(n)[d + 1] >= Base <=> d + 1 < Digits(n)
         /\ (n % Weight[d]) + (Encoded(n)[d + 1] % Base) * Weight[d] = n % Weight[d + 1]
         /\ d + 1 = Digits(n) => n % Weight[d + 1] = n
<1>1. Digits(n) \in 1..4 /\ n < Weight[Digits(n)] /\ n \in Nat
  BY DigitsAre, WeightType
<1>2. d \in 0..3 /\ d \in 0..4 /\ d + 1 \in 1..Digits(n) /\ (d + 1) - 1 = d /\ d + 1 \in 0..4
  BY <1>1
<1>3. Weight[d] \in Nat \ {0} /\ Weight[d + 1] \in Nat \ {0} /\ Base \in Nat \ {0}
  BY <1>2, WeightType
<1> DEFINE t == (n \div Weight[d]) % Base
           e == t + (IF d + 1 < Digits(n) THEN Base ELSE 0)
<1>4. t \in 0..(Base - 1)
  BY <1>1, <1>3
<1>5. Encoded(n)[d + 1] = e
  BY <1>2 DEF Encoded
<1>6. n % Weight[d + 1] = (n % Weight[d]) + t * Weight[d]
  BY <1>1, <1>2, <1>3, NextDigit, WeightIs
<1> HIDE DEF t
<1>7. e % Base = t /\ e \in Value /\ (e >= Base <=> d + 1 < Digits(n))
  BY <1>3, <1>4 DEF Value
<1>8. d + 1 = Digits(n) => n % Weight[d + 1] = n
  <2>1. \A w \in Nat \ {0} : n < w => n % w = n
    BY <1>1
  <2> QED
    BY <2>1, <1>1, <1>3
<1> HIDE DEF e
<1> QED
  BY <1>5, <1>6, <1>7, <1>8
-----------------------------------------------------------------------------
(* The bytes of a packet, and those of the stream.                         *)

\* Both parts of a sequence that is put together.
LEMMA Joined ==
  ASSUME NEW S, NEW s \in Seq(S), NEW t \in Seq(S)
  PROVE  /\ s \o t \in Seq(S) /\ Len(s \o t) = Len(s) + Len(t)
         /\ Len(s) \in Nat /\ Len(t) \in Nat
         /\ \A i \in 1..Len(s) : (s \o t)[i] = s[i]
         /\ \A i \in 1..Len(t) : (s \o t)[Len(s) + i] = t[i]
<1>1. Len(s) \in Nat /\ Len(t) \in Nat
  OBVIOUS
<1>2. /\ s \o t \in Seq(S) /\ Len(s \o t) = Len(s) + Len(t)
      /\ \A i \in 1..(Len(s) + Len(t)) :
           (s \o t)[i] = IF i <= Len(s) THEN s[i] ELSE t[i - Len(s)]
  BY ConcatProperties
<1>3. ASSUME NEW i \in 1..Len(s) PROVE (s \o t)[i] = s[i]
  <2>1. i \in 1..(Len(s) + Len(t)) /\ i <= Len(s)
    BY <1>1
  <2> QED
    BY <1>2, <2>1
<1>4. ASSUME NEW i \in 1..Len(t) PROVE (s \o t)[Len(s) + i] = t[i]
  <2>1. Len(s) + i \in 1..(Len(s) + Len(t)) /\ ~(Len(s) + i <= Len(s)) /\ (Len(s) + i) - Len(s) = i
    BY <1>1
  <2> QED
    BY <1>2, <2>1
<1> QED
  BY <1>1, <1>2, <1>3, <1>4

\* A packet in the stream: its type, the digits of its length, its body.
LEMMA WireIs ==
  ASSUME NEW p \in Packets, NEW n, n = Len(p.body)
  PROVE  /\ n \in 0..(Weight[4] - 1) /\ Digits(n) \in 1..4
         /\ Wire(p) \in Seq(Value) /\ Len(Wire(p)) = 1 + Digits(n) + n
         /\ Wire(p)[1] \div Flags = p.type /\ p.type \in Nat
         /\ \A i \in 1..Digits(n) : Wire(p)[1 + i] = Encoded(n)[i]
         /\ p.body \in Seq(Value)
         /\ \A i \in 1..n : Wire(p)[1 + Digits(n) + i] = p.body[i]
<1> DEFINE D == Digits(n)
           h == <<p.type * Flags>>
<1>1. /\ p.type \in Nat /\ p.type * Flags < 2 * Base
      /\ p.body \in Seq(Value) /\ Len(p.body) < Weight[4]
      /\ Base \in Nat /\ Base > 1 /\ Flags \in Nat \ {0}
  BY ConstantsAssumption DEF Value, MaxDigits
<1>2. n \in 0..(Weight[4] - 1) /\ n \in Nat
  <2>1. Len(p.body) \in Nat
    BY <1>1
  <2> QED
    BY <1>1, <2>1, WeightType
<1>3. D \in 1..4
  BY <1>2, DigitsAre
<1>4. p.type * Flags \in Value /\ (p.type * Flags) \div Flags = p.type
  <2>1. \A a \in Nat, b \in Nat \ {0} : a * b \in Nat /\ (a * b) \div b = a
    OBVIOUS
  <2>2. p.type * Flags \in Nat /\ (p.type * Flags) \div Flags = p.type
    BY <1>1, <2>1
  <2> QED
    BY <1>1, <2>2 DEF Value
<1>5. Encoded(n) \in Seq(Value) /\ Len(Encoded(n)) = D
  <2>1. ASSUME NEW i \in 1..D PROVE Encoded(n)[i] \in Value
    <3>1. i - 1 \in 0..(D - 1) /\ (i - 1) + 1 = i
      BY <1>3
    <3> QED
      BY <1>2, <3>1, DigitIs
  <2>2. Encoded(n) = [i \in 1..D |-> Encoded(n)[i]]
    BY DEF Encoded
  <2>3. Encoded(n) \in [1..D -> Value]
    BY <2>1, <2>2
  <2>4. D \in Nat
    BY <1>3
  <2> QED
    BY <2>3, <2>4
<1> HIDE DEF D
<1>6. h \in Seq(Value) /\ Len(h) = 1 /\ h[1] = p.type * Flags
  BY <1>4
<1> HIDE DEF h
<1> DEFINE hE == h \o Encoded(n)
<1>7. /\ hE \in Seq(Value) /\ Len(hE) = 1 + D
      /\ hE[1] = p.type * Flags /\ \A i \in 1..D : hE[1 + i] = Encoded(n)[i]
  <2>0. \A u, v \in Seq(Value) :
          /\ u \o v \in Seq(Value) /\ Len(u \o v) = Len(u) + Len(v)
          /\ \A i \in 1..Len(u) : (u \o v)[i] = u[i]
          /\ \A i \in 1..Len(v) : (u \o v)[Len(u) + i] = v[i]
    BY Joined
  <2>1. /\ hE \in Seq(Value) /\ Len(hE) = Len(h) + Len(Encoded(n))
        /\ \A i \in 1..Len(h) : hE[i] = h[i]
        /\ \A i \in 1..Len(Encoded(n)) : hE[Len(h) + i] = Encoded(n)[i]
    BY <1>5, <1>6, <2>0, Zenon
  <2> HIDE DEF hE
  <2> QED
    BY <1>3, <1>5, <1>6, <2>1
<1>8. Wire(p) = hE \o p.body
  BY <1>2 DEF Wire, h
<1> HIDE DEF hE
<1>9. /\ Wire(p) \in Seq(Value) /\ Len(Wire(p)) = 1 + D + n
      /\ \A i \in 1..(1 + D) : Wire(p)[i] = hE[i]
      /\ \A i \in 1..n : Wire(p)[1 + D + i] = p.body[i]
  <2>0. \A u, v \in Seq(Value) :
          /\ u \o v \in Seq(Value) /\ Len(u \o v) = Len(u) + Len(v)
          /\ \A i \in 1..Len(u) : (u \o v)[i] = u[i]
          /\ \A i \in 1..Len(v) : (u \o v)[Len(u) + i] = v[i]
    BY Joined
  <2>1. /\ hE \o p.body \in Seq(Value) /\ Len(hE \o p.body) = Len(hE) + Len(p.body)
        /\ \A i \in 1..Len(hE) : (hE \o p.body)[i] = hE[i]
        /\ \A i \in 1..Len(p.body) : (hE \o p.body)[Len(hE) + i] = p.body[i]
    <3>1. hE \in Seq(Value) /\ p.body \in Seq(Value)
      BY <1>1, <1>7
    <3> QED
      BY <2>0, <3>1, Zenon
  <2>2. Len(hE) = 1 + D /\ Len(p.body) = n
    BY <1>7
  <2> QED
    BY <1>8, <2>1, <2>2, Zenon
<1>10. Wire(p)[1] = p.type * Flags /\ \A i \in 1..D : Wire(p)[1 + i] = Encoded(n)[i]
  <2>1. 1 \in 1..(1 + D)
    BY <1>3
  <2>2. ASSUME NEW i \in 1..D PROVE 1 + i \in 1..(1 + D)
    BY <1>3
  <2> QED
    BY <1>7, <1>9, <2>1, <2>2
<1> QED
  BY <1>1, <1>2, <1>3, <1>4, <1>9, <1>10 DEF D

\* How long the packet of a byte is.
Total(b) == Len(Wire(sent[b.of]))

InPlace(b) ==
  b.of \in DOMAIN sent /\ b.at \in 1..Total(b) /\ b.value = Wire(sent[b.of])[b.at]

Follows(a, b) ==
  \/ b.of = a.of /\ b.at = a.at + 1
  \/ a.at = Total(a) /\ b.of = a.of + 1 /\ b.at = 1

\* The packets stand in the stream one behind the other.
StreamInv ==
  /\ \A i \in 1..Len(stream) : InPlace(stream[i])
  /\ \A i \in 1..(Len(stream) - 1) : Follows(stream[i], stream[i + 1])
  /\ stream # <<>> => /\ stream[Len(stream)].of = Len(sent)
                      /\ stream[Len(stream)].at = Total(stream[Len(stream)])

Bytes == stream \in Seq(WireByte) /\ sent \in Seq(Packets)

LEMMA TotalIs ==
  ASSUME Bytes, NEW b, b.of \in DOMAIN sent
  PROVE  Total(b) \in Nat /\ Total(b) > 1
<1>1. sent[b.of] \in Packets
  BY DEF Bytes
<1>2. sent[b.of].body = sent[b.of].body
  OBVIOUS
<1> DEFINE n == Len(sent[b.of].body)
<1>3. n \in 0..(Weight[4] - 1) /\ Digits(n) \in 1..4 /\ Len(Wire(sent[b.of])) = 1 + Digits(n) + n
  BY <1>1, WireIs
<1> HIDE DEF n
<1>4. n \in Nat /\ Digits(n) \in Nat /\ Digits(n) > 0
  BY <1>3, WeightType
<1> QED
  BY <1>3, <1>4 DEF Total

LEMMA ByteIs ==
  ASSUME Bytes, StreamInv, NEW i \in 1..Len(stream)
  PROVE  /\ stream[i] \in WireByte /\ InPlace(stream[i]) /\ i \in DOMAIN stream
         /\ stream[i].of \in 1..Len(sent) /\ stream[i].at \in 1..Total(stream[i])
         /\ Total(stream[i]) \in Nat /\ Len(stream) \in Nat
         /\ stream[i].of \in Nat /\ stream[i].at \in Nat /\ stream[i].value \in Value
<1>1. stream[i] \in WireByte /\ i \in DOMAIN stream /\ Len(stream) \in Nat
  BY DEF Bytes
<1>2. InPlace(stream[i])
  BY DEF StreamInv
<1>3. stream[i].of \in 1..Len(sent)
  <2>1. DOMAIN sent = 1..Len(sent)
    BY DEF Bytes
  <2> QED
    BY <1>2, <2>1 DEF InPlace
<1>4. stream[i].of \in Nat /\ stream[i].at \in Nat /\ stream[i].value \in Value
  BY <1>1 DEF WireByte
<1>5. Total(stream[i]) \in Nat
  BY <1>2, TotalIs DEF InPlace
<1> QED
  BY <1>1, <1>2, <1>3, <1>4, <1>5 DEF InPlace

\* A byte is followed by the others of its packet.
LEMMA Ahead ==
  ASSUME Bytes, StreamInv, NEW i \in 1..Len(stream), NEW m \in Nat,
         stream[i].at + m <= Total(stream[i])
  PROVE  /\ i + m \in 1..Len(stream)
         /\ stream[i + m].of = stream[i].of /\ stream[i + m].at = stream[i].at + m
<1> DEFINE G == {k \in Nat : /\ i + k <= Len(stream)
                             /\ stream[i + k].of = stream[i].of
                             /\ stream[i + k].at = stream[i].at + k}
<1>0. /\ stream[i].at \in Nat /\ stream[i].of \in Nat /\ Total(stream[i]) \in Nat /\ Len(stream) \in Nat
      /\ i \in Nat /\ i <= Len(stream)
  BY ByteIs
<1>1. 0 \in G
  BY <1>0
<1>2. ASSUME NEW k \in 0..(m - 1), k \in G PROVE k + 1 \in G
  <2> DEFINE j == i + k
  <2>1. /\ j \in 1..Len(stream) /\ stream[j].of = stream[i].of /\ stream[j].at = stream[i].at + k
        /\ k \in Nat
    BY <1>0, <1>2
  <2>2. i + (k + 1) = j + 1
    BY <1>0, <2>1
  <2> HIDE DEF j
  <2>3. Total(stream[j]) = Total(stream[i])
    BY <2>1 DEF Total
  <2>4. stream[j].at < Total(stream[j]) /\ stream[j].at \in Nat /\ Total(stream[j]) \in Nat
    BY <1>0, <2>1, <2>3
  <2>5. j # Len(stream)
    <3> SUFFICES ASSUME j = Len(stream) PROVE FALSE
      OBVIOUS
    <3>1. stream # <<>>
      BY <2>1
    <3> QED
      BY <2>4, <3>1 DEF StreamInv
  <2>6. j \in 1..(Len(stream) - 1)
    BY <1>0, <2>1, <2>5
  <2>7. Follows(stream[j], stream[j + 1])
    BY <2>6 DEF StreamInv
  <2>8. stream[j + 1].of = stream[j].of /\ stream[j + 1].at = stream[j].at + 1
    BY <2>4, <2>7 DEF Follows
  <2>9. stream[j + 1].at = stream[i].at + (k + 1)
    <3>1. (stream[i].at + k) + 1 = stream[i].at + (k + 1)
      <4>1. \A a, c \in Nat : (a + c) + 1 = a + (c + 1)
        OBVIOUS
      <4> QED
        BY <1>0, <2>1, <4>1, Zenon
    <3> QED
      BY <2>1, <2>8, <3>1
  <2>10. k + 1 \in Nat /\ i + (k + 1) <= Len(stream)
    BY <1>0, <2>1, <2>2, <2>6
  <2> QED
    BY <2>1, <2>2, <2>8, <2>9, <2>10
<1>3. m \in G
  <2> HIDE DEF G
  <2>1. \A k \in 0..m : k \in G
    BY <1>1, <1>2, Reaches
  <2> QED
    BY <2>1
<1>4. i + m \in 1..Len(stream)
  BY <1>0, <1>3
<1> QED
  BY <1>3, <1>4

\* Behind the last byte of a packet the next begins.
LEMMA NextPacket ==
  ASSUME Bytes, StreamInv, NEW i \in 1..Len(stream), stream[i].at = Total(stream[i])
  PROVE  IF i = Len(stream) THEN stream[i].of = Len(sent)
         ELSE stream[i + 1].of = stream[i].of + 1 /\ stream[i + 1].at = 1
<1>1. CASE i = Len(stream)
  <2>1. stream # <<>>
    BY ByteIs DEF Bytes
  <2> QED
    BY <1>1, <2>1 DEF StreamInv
<1>2. CASE i # Len(stream)
  <2>1. i \in 1..(Len(stream) - 1) /\ i + 1 \in 1..Len(stream)
    BY <1>2, ByteIs
  <2>2. Follows(stream[i], stream[i + 1])
    BY <2>1 DEF StreamInv
  <2>3. stream[i + 1].at \in 1..Total(stream[i + 1])
    BY <2>1, ByteIs
  <2>4. ~(stream[i + 1].of = stream[i].of /\ stream[i + 1].at = stream[i].at + 1)
    <3> SUFFICES ASSUME stream[i + 1].of = stream[i].of, stream[i + 1].at = stream[i].at + 1
                 PROVE FALSE
      OBVIOUS
    <3>1. Total(stream[i + 1]) = Total(stream[i])
      BY DEF Total
    <3>2. Total(stream[i]) \in Nat /\ Total(stream[i]) + 1 <= Total(stream[i])
      BY <2>3, <3>1, ByteIs
    <3> QED
      BY <3>2
  <2> QED
    BY <1>2, <2>2, <2>4 DEF Follows
<1> QED
  BY <1>1, <1>2

\* No byte of an earlier packet comes after one of a later.
LEMMA Later ==
  ASSUME Bytes, StreamInv, NEW i \in 1..Len(stream), NEW j \in i..Len(stream)
  PROVE  stream[i].of <= stream[j].of
<1> DEFINE G == {k \in Nat : i + k <= Len(stream) /\ stream[i].of <= stream[i + k].of}
<1>0. Len(stream) \in Nat /\ i \in Nat /\ i >= 1 /\ stream[i].of \in Nat /\ j \in 1..Len(stream)
  BY ByteIs
<1>1. 0 \in G
  BY <1>0
<1>2. ASSUME NEW k \in 0..((j - i) - 1), k \in G PROVE k + 1 \in G
  <2> DEFINE h == i + k
  <2>1. h \in 1..(Len(stream) - 1) /\ h \in 1..Len(stream) /\ h + 1 \in 1..Len(stream)
        /\ i + (k + 1) = h + 1 /\ k + 1 \in Nat /\ stream[i].of <= stream[h].of
    BY <1>0, <1>2
  <2> HIDE DEF h
  <2>2. Follows(stream[h], stream[h + 1])
    BY <2>1 DEF StreamInv
  <2>3. stream[h].of \in Nat /\ stream[h + 1].of \in Nat
    BY <2>1, ByteIs
  <2>4. stream[h].of <= stream[h + 1].of
    BY <2>2, <2>3 DEF Follows
  <2>5. stream[i].of <= stream[h + 1].of /\ h + 1 <= Len(stream)
    BY <1>0, <2>1, <2>3, <2>4
  <2> QED
    BY <2>1, <2>5
<1>3. j - i \in G
  <2> HIDE DEF G
  <2>1. j - i \in Nat
    BY <1>0
  <2>2. \A k \in 0..(j - i) : k \in G
    BY <1>1, <1>2, <2>1, Reaches
  <2> QED
    BY <2>1, <2>2
<1>4. i + (j - i) = j
  BY <1>0
<1> QED
  BY <1>3, <1>4
-----------------------------------------------------------------------------
(* The invariant.                                                          *)

\* How many packets are behind a place in the stream.
Behind(r) == IF r = Len(stream) THEN Len(sent) ELSE stream[r + 1].of - 1

\* Where recv stops, a packet is at its end or is in pieces.
Whole(r) == Starts(r + 1) \/ stream[r + 1].of \in cut

CutInv ==
  /\ cut \subseteq 1..Len(sent)
  /\ \A r \in pushes \cup {arrived} : Whole(r)

\* The r-th byte is this one of the packet the reader is in.
LastRead(r, at) ==
  /\ taken < Len(sent) /\ r \in 1..Len(stream)
  /\ stream[r].of = taken + 1 /\ stream[r].at = at

Reading == sent[taken + 1]
Body == Len(Reading.body)
Known == type = Reading.type

\* The length was read as it was sent, or a digit did not come in time: then the
\* packet is in pieces, and what is to be read is within it.
Measured(r, n) == LastRead(r, 1 + Digits(Body)) /\ Known /\ n = Body
Torn(r, n) == taken + 1 \in cut /\ \E at \in 1..(Len(Wire(Reading)) - (n + 1)) : LastRead(r, at)

\* A reader that is in step knows what it has read.
InStep ==
  /\ pc = "header" => Starts(read + 1) /\ taken = Behind(read)
  /\ pc = "length" => /\ LastRead(read, 1 + digits) /\ digits < Digits(Body)
                      /\ Known /\ rem_len = Body % Weight[digits]
  /\ pc = "rest" => Measured(read, rem_len) \/ Torn(read, rem_len)

ReaderInv == IF lost THEN taken <= Behind(read) ELSE InStep

LengthInv == pc = "length" => rem_len < Weight[digits]

IInv == TypeOK /\ StreamInv /\ CutInv /\ LengthInv /\ ReaderInv

WireType ==
  /\ stream \in Seq(WireByte) /\ arrived \in 0..Len(stream)
  /\ read \in 0..arrived /\ pushes \subseteq (read + 1)..arrived

ReaderType ==
  /\ pc \in {"header", "length", "rest"} /\ type \in Nat
  /\ rem_len \in 0..(Weight[4] - 1) /\ digits \in 0..4
  /\ pc = "rest" => rem_len \in 1..(buflen - 1 - Digits(rem_len))

HistoryType ==
  /\ sent \in Seq(Packets) /\ cut \subseteq Nat /\ taken \in 0..Len(sent) /\ lost \in BOOLEAN
  /\ got \in Packet

LEMMA Types == TypeOK <=> WireType /\ ReaderType /\ HistoryType
BY DEF TypeOK, WireType, ReaderType, HistoryType, MaxDigits

LEMMA TypesNext == TypeOK' <=> WireType' /\ ReaderType' /\ HistoryType'
BY DEF TypeOK, WireType, ReaderType, HistoryType, MaxDigits

\* The numbers of the wire, as the proofs use them.
LEMMA Counts ==
  ASSUME WireType, HistoryType
  PROVE  /\ Bytes /\ Len(stream) \in Nat /\ Len(sent) \in Nat
         /\ arrived \in Nat /\ read \in Nat /\ taken \in Nat
         /\ read <= arrived /\ arrived <= Len(stream) /\ taken <= Len(sent)
<1>1. Len(stream) \in Nat /\ Len(sent) \in Nat
  BY DEF WireType, HistoryType
<1> QED
  BY <1>1 DEF WireType, HistoryType, Bytes

\* recv stops behind what has arrived, or before.
LEMMA StopIs ==
  ASSUME WireType
  PROVE  /\ Stop \in pushes \cup {arrived} /\ Stop \in read..arrived
         /\ Stop = read => arrived = read
<1>1. Len(stream) \in Nat /\ arrived \in Nat /\ read \in Nat /\ read <= arrived
  <2>1. Len(stream) \in Nat
    BY DEF WireType
  <2> QED
    BY <2>1 DEF WireType
<1>2. pushes \subseteq (read + 1)..arrived
  BY DEF WireType
<1>3. CASE pushes = {}
  BY <1>1, <1>3 DEF Stop
<1>4. CASE pushes # {}
  <2>1. pushes \in SUBSET Nat
    BY <1>1, <1>2
  <2>2. \E p \in pushes : \A q \in pushes : p <= q
    BY <1>4, <2>1, LeastNumber
  <2>3. Stop \in pushes
    BY <1>4, <2>2 DEF Stop
  <2> QED
    BY <1>1, <1>2, <2>3
<1> QED
  BY <1>3, <1>4

LEMMA RecvIs ==
  ASSUME WireType, NEW n \in Nat
  PROVE  /\ Recv(n) \in 0..(Stop - read) /\ Recv(n) <= n /\ Recv(n) \in Nat
         /\ Recv(n) < n => read + Recv(n) = Stop
         /\ Stop - read \in Nat /\ read \in Nat /\ Stop \in Nat
<1>1. Stop \in Nat /\ read \in Nat /\ read <= Stop
  <2>1. Len(stream) \in Nat
    BY DEF WireType
  <2>2. arrived \in Nat /\ read \in Nat
    BY <2>1 DEF WireType
  <2> QED
    BY <2>2, StopIs
<1> QED
  BY <1>1 DEF Recv

LEMMA BehindIs ==
  ASSUME Bytes, StreamInv, NEW r \in 0..Len(stream)
  PROVE  Behind(r) \in 0..Len(sent)
<1>1. Len(sent) \in Nat /\ Len(stream) \in Nat
  BY DEF Bytes
<1>2. CASE r = Len(stream)
  BY <1>1, <1>2 DEF Behind
<1>3. CASE r # Len(stream)
  <2>1. r + 1 \in 1..Len(stream)
    BY <1>1, <1>3
  <2>2. stream[r + 1].of \in 1..Len(sent)
    BY <2>1, ByteIs
  <2> QED
    BY <1>1, <1>3, <2>2 DEF Behind
<1> QED
  BY <1>2, <1>3

LEMMA BehindGrows ==
  ASSUME Bytes, StreamInv, NEW r \in 0..Len(stream), NEW q \in r..Len(stream)
  PROVE  Behind(r) <= Behind(q)
<1>1. Len(sent) \in Nat /\ Len(stream) \in Nat
  BY DEF Bytes
<1>2. CASE q = Len(stream)
  BY <1>1, <1>2, BehindIs DEF Behind
<1>3. CASE q # Len(stream)
  <2>1. r + 1 \in 1..Len(stream) /\ q + 1 \in 1..Len(stream) /\ q + 1 \in (r + 1)..Len(stream)
        /\ r # Len(stream)
    BY <1>1, <1>3
  <2>2. stream[r + 1].of <= stream[q + 1].of
    BY <2>1, Later
  <2>3. stream[r + 1].of \in Nat /\ stream[q + 1].of \in Nat
    BY <2>1, ByteIs
  <2> QED
    BY <1>3, <2>1, <2>2, <2>3 DEF Behind
<1> QED
  BY <1>2, <1>3
-----------------------------------------------------------------------------
(* Where the reader is in its packet.                                      *)

\* The packet it is in.
LEMMA ReadingIs ==
  ASSUME HistoryType, taken < Len(sent)
  PROVE  /\ Reading \in Packets /\ taken + 1 \in 1..Len(sent) /\ taken \in Nat
         /\ Body \in 0..(Weight[4] - 1) /\ Body \in Nat /\ Digits(Body) \in 1..4
         /\ Len(Wire(Reading)) = 1 + Digits(Body) + Body /\ Len(Wire(Reading)) \in Nat
<1>1. Len(sent) \in Nat /\ taken \in Nat
  <2>1. Len(sent) \in Nat
    BY DEF HistoryType
  <2> QED
    BY <2>1 DEF HistoryType
<1>2. taken + 1 \in 1..Len(sent)
  BY <1>1
<1>3. Reading \in Packets
  BY <1>2 DEF HistoryType, Reading
<1>4. /\ Body \in 0..(Weight[4] - 1) /\ Digits(Body) \in 1..4
      /\ Len(Wire(Reading)) = 1 + Digits(Body) + Body
  BY <1>3, WireIs DEF Body
<1>5. Body \in Nat /\ Digits(Body) \in Nat
  BY <1>4, WeightType
<1> QED
  BY <1>1, <1>2, <1>3, <1>4, <1>5

\* It reads on in its packet.
LEMMA Onward ==
  ASSUME WireType, HistoryType, StreamInv, NEW r, NEW at \in Nat, LastRead(r, at),
         NEW m \in Nat, at + m <= Len(Wire(Reading))
  PROVE  LastRead(r + m, at + m) /\ stream[r + m].value = Wire(Reading)[at + m]
<1>0. /\ taken < Len(sent) /\ r \in 1..Len(stream)
      /\ stream[r].of = taken + 1 /\ stream[r].at = at
  BY DEF LastRead
<1>1. Bytes
  BY Counts
<1>2. stream[r].at + m <= Total(stream[r])
  BY <1>0 DEF Total, Reading
<1>3. /\ r + m \in 1..Len(stream)
      /\ stream[r + m].of = stream[r].of /\ stream[r + m].at = stream[r].at + m
  BY <1>0, <1>1, <1>2, Ahead
<1>4. InPlace(stream[r + m])
  BY <1>1, <1>3, ByteIs
<1> QED
  BY <1>0, <1>3, <1>4 DEF LastRead, InPlace, Reading

\* At the end of its packet another begins.
LEMMA AtItsEnd ==
  ASSUME WireType, HistoryType, StreamInv, NEW r, LastRead(r, Len(Wire(Reading)))
  PROVE  Behind(r) = taken + 1 /\ Starts(r + 1)
<1>0. /\ taken < Len(sent) /\ r \in 1..Len(stream)
      /\ stream[r].of = taken + 1 /\ stream[r].at = Total(stream[r])
  BY DEF LastRead, Total, Reading
<1>1. Bytes /\ taken \in Nat /\ Len(sent) \in Nat /\ Len(stream) \in Nat
  BY Counts
<1>2. IF r = Len(stream) THEN stream[r].of = Len(sent)
      ELSE stream[r + 1].of = stream[r].of + 1 /\ stream[r + 1].at = 1
  BY <1>0, <1>1, NextPacket
<1>3. CASE r = Len(stream)
  <2>1. r + 1 \notin DOMAIN stream
    BY <1>1, <1>3 DEF WireType
  <2> QED
    BY <1>0, <1>2, <1>3, <2>1 DEF Behind, Starts
<1>4. CASE r # Len(stream)
  BY <1>0, <1>1, <1>2, <1>4 DEF Behind, Starts
<1> QED
  BY <1>3, <1>4

\* Before it, none does.
LEMMA BeforeItsEnd ==
  ASSUME WireType, HistoryType, StreamInv, NEW r, NEW at \in Nat, LastRead(r, at),
         at < Len(Wire(Reading))
  PROVE  /\ Behind(r) = taken /\ ~ Starts(r + 1)
         /\ r + 1 \in 1..Len(stream) /\ stream[r + 1].of = taken + 1
<1>0. at \in 1..Len(Wire(Reading)) /\ Len(Wire(Reading)) \in Nat
  <2>1. taken < Len(sent) /\ r \in 1..Len(stream) /\ stream[r].at = at /\ stream[r].of = taken + 1
    BY DEF LastRead
  <2>2. stream[r].at \in 1..Total(stream[r]) /\ Total(stream[r]) \in Nat
    BY <2>1, Counts, ByteIs
  <2> QED
    BY <2>1, <2>2 DEF Total, Reading
<1>1. at + 1 <= Len(Wire(Reading)) /\ at + 1 # 1
  BY <1>0
<1>2. LastRead(r + 1, at + 1)
  BY <1>1, Onward
<1>3. /\ r + 1 \in 1..Len(stream) /\ stream[r + 1].of = taken + 1 /\ stream[r + 1].at = at + 1
  BY <1>2 DEF LastRead
<1>4. Len(stream) \in Nat /\ taken \in Nat /\ DOMAIN stream = 1..Len(stream)
  BY Counts DEF WireType
<1>5. r \in 1..Len(stream)
  BY DEF LastRead
<1>6. r # Len(stream)
  <2>1. r + 1 \in 1..Len(stream)
    BY <1>3
  <2>2. \A l \in Nat : l + 1 \notin 1..l
    OBVIOUS
  <2> QED
    BY <1>4, <2>1, <2>2, Zenon
<1> QED
  BY <1>1, <1>3, <1>4, <1>6 DEF Behind, Starts

\* Where recv stops within a packet, it is in pieces.
LEMMA StopsInPieces ==
  ASSUME WireType, HistoryType, StreamInv, CutInv, NEW at \in Nat, LastRead(Stop, at),
         at < Len(Wire(Reading))
  PROVE  taken + 1 \in cut
<1>1. Stop \in pushes \cup {arrived}
  BY StopIs
<1>2. Whole(Stop)
  BY <1>1 DEF CutInv
<1>3. ~ Starts(Stop + 1) /\ stream[Stop + 1].of = taken + 1
  BY BeforeItsEnd
<1> QED
  BY <1>2, <1>3 DEF Whole
-----------------------------------------------------------------------------
(* The steps of the reader.                                                *)

\* recv leaves the stream as it is and goes on in it.
LEMMA TakeKeeps ==
  ASSUME WireType, HistoryType, StreamInv, CutInv, NEW k \in 0..(Stop - read), Take(k),
         UNCHANGED <<sent, cut>>
  PROVE  /\ WireType' /\ StreamInv' /\ CutInv' /\ read' = read + k
         /\ read' \in 0..Len(stream) /\ read \in 0..Len(stream) /\ read <= read'
<1>0. /\ stream' = stream /\ arrived' = arrived /\ read' = read + k
      /\ pushes' = {p \in pushes : p > read'} /\ sent' = sent /\ cut' = cut
  BY DEF Take
<1>1. Len(stream) \in Nat /\ read \in Nat /\ arrived \in Nat /\ arrived <= Len(stream)
  BY Counts
<1>2. k \in Nat /\ read + k <= arrived
  BY <1>1, StopIs
<1>3. WireType'
  <2>1. pushes' \subseteq (read' + 1)..arrived
    <3>1. pushes \subseteq (read + 1)..arrived
      BY DEF WireType
    <3> SUFFICES ASSUME NEW p \in pushes, p > read' PROVE p \in (read' + 1)..arrived
      BY <1>0
    <3>2. p \in (read + 1)..arrived
      BY <3>1
    <3> QED
      BY <1>0, <1>1, <1>2, <3>2
  <2> QED
    BY <1>0, <1>1, <1>2, <2>1 DEF WireType
<1>4. StreamInv'
  BY <1>0 DEF StreamInv, InPlace, Follows, Total
<1>5. CutInv'
  <2>1. pushes' \cup {arrived'} \subseteq pushes \cup {arrived}
    BY <1>0
  <2> QED
    BY <1>0, <2>1 DEF CutInv, Whole, Starts
<1> QED
  BY <1>0, <1>1, <1>2, <1>3, <1>4, <1>5

\* The call goes on.
LEMMA GoesOn ==
  ASSUME IInv, NEW k \in 0..(Stop - read), Take(k), UNCHANGED history,
         ReaderType', LengthInv', ~ lost => InStep'
  PROVE  IInv' /\ [Stream!Next]_(Stream!packets)
<1>0. sent' = sent /\ cut' = cut /\ taken' = taken /\ lost' = lost /\ got' = got
  BY DEF history
<1>1. WireType /\ HistoryType /\ StreamInv /\ CutInv /\ ReaderInv
  BY Types DEF IInv
<1>2. /\ WireType' /\ StreamInv' /\ CutInv' /\ stream' = stream
      /\ read' \in 0..Len(stream) /\ read \in 0..Len(stream) /\ read <= read'
  BY <1>0, <1>1, TakeKeeps DEF Take
<1>3. HistoryType'
  BY <1>0, <1>1 DEF HistoryType
<1>4. ReaderInv'
  <2>1. CASE lost
    <3>1. taken <= Behind(read)
      BY <1>1, <2>1 DEF ReaderInv
    <3>2. Bytes /\ Len(stream) \in Nat /\ Len(sent) \in Nat /\ taken \in Nat
      BY <1>1, Counts
    <3>3. read' \in read..Len(stream)
      BY <1>2, <3>2
    <3>4. Behind(read) <= Behind(read') /\ Behind(read) \in 0..Len(sent) /\ Behind(read') \in 0..Len(sent)
      BY <1>1, <1>2, <3>2, <3>3, BehindGrows, BehindIs
    <3>5. taken <= Behind(read')
      BY <3>1, <3>2, <3>4
    <3>6. Behind(read)' = Behind(read')
      BY <1>0, <1>2 DEF Behind
    <3> QED
      BY <1>0, <2>1, <3>5, <3>6 DEF ReaderInv
  <2>2. CASE ~ lost
    BY <1>0, <2>2 DEF ReaderInv
  <2> QED
    BY <2>1, <2>2
<1>5. UNCHANGED Stream!packets
  BY <1>0 DEF Stream!packets
<1> QED
  BY <1>2, <1>3, <1>4, <1>5, TypesNext DEF IInv

\* The call returns; out of step, with anything.
LEMMA Returns ==
  ASSUME IInv, NEW k \in 0..(Stop - read), Take(k), NEW result \in Packet, Return(result)
  PROVE  /\ IInv'
         /\ lost => Stream!OutOfStep
         /\ sent' = sent /\ cut' = cut /\ got' = result
         /\ taken' = Behind(read + k) /\ lost' = ~ Starts(read + k + 1)
<1>0. /\ sent' = sent /\ cut' = cut /\ got' = result /\ stream' = stream /\ read' = read + k
      /\ pc' = "header" /\ type' = 0 /\ rem_len' = 0 /\ digits' = 0
      /\ taken' = Behind(read') /\ lost' = ~ Starts(read' + 1)
  BY DEF Return, Take, Behind
<1>1. WireType /\ HistoryType /\ StreamInv /\ CutInv /\ ReaderInv
  BY Types DEF IInv
<1>2. /\ WireType' /\ StreamInv' /\ CutInv'
      /\ read' \in 0..Len(stream) /\ read \in 0..Len(stream) /\ read <= read'
  BY <1>0, <1>1, TakeKeeps
<1>3. Bytes /\ Len(stream) \in Nat /\ Len(sent) \in Nat /\ taken \in Nat
  BY <1>1, Counts
<1>4. Behind(read') \in 0..Len(sent)
  BY <1>1, <1>2, <1>3, BehindIs
<1>5. HistoryType'
  BY <1>0, <1>1, <1>4 DEF HistoryType
<1>6. ReaderType'
  BY <1>0, WeightType DEF ReaderType
<1>7. LengthInv'
  BY <1>0 DEF LengthInv
<1>8. Behind(read)' = Behind(read') /\ Starts(read + 1)' = Starts(read' + 1)
  BY <1>0 DEF Behind, Starts
<1>9. ReaderInv'
  <2>1. taken' <= Behind(read)'
    BY <1>0, <1>3, <1>4, <1>8
  <2>2. ~ lost' => InStep'
    BY <1>0, <1>8 DEF InStep
  <2> QED
    BY <2>1, <2>2 DEF ReaderInv
<1>10. ASSUME lost PROVE Stream!OutOfStep
  <2>1. taken <= Behind(read)
    BY <1>1, <1>10 DEF ReaderInv
  <2>2. read' \in read..Len(stream)
    BY <1>2, <1>3
  <2>3. Behind(read) <= Behind(read') /\ Behind(read) \in 0..Len(sent)
    BY <1>1, <1>2, <1>3, <2>2, BehindGrows, BehindIs
  <2>4. taken' \in taken..Len(sent)
    BY <1>0, <1>3, <1>4, <2>1, <2>3
  <2>5. lost' \in BOOLEAN
    BY <1>5 DEF HistoryType
  <2> QED
    BY <1>0, <1>10, <2>4, <2>5 DEF Stream!OutOfStep
<1> QED
  BY <1>0, <1>2, <1>5, <1>6, <1>7, <1>9, <1>10, TypesNext DEF IInv

\* In step, a call that stops within a packet has lost it.
LEMMA Slips ==
  ASSUME IInv, ~ lost, NEW k \in 0..(Stop - read), Take(k), NEW result \in Packet, Return(result),
         NEW at \in Nat, LastRead(read + k, at), at < Len(Wire(Reading)),
         taken + 1 \in cut \/ ~ Fits(Reading)
  PROVE  IInv' /\ Stream!LoseStep
<1>1. WireType /\ HistoryType /\ StreamInv
  BY Types DEF IInv
<1>2. Behind(read + k) = taken /\ ~ Starts(read + k + 1)
  BY <1>1, BeforeItsEnd
<1>3. /\ IInv' /\ sent' = sent /\ cut' = cut /\ got' = result
      /\ taken' = Behind(read + k) /\ lost' = ~ Starts(read + k + 1)
  BY Returns, Zenon
<1>4. taken < Len(sent)
  BY DEF LastRead
<1>5. taken' = taken /\ lost' = TRUE
  BY <1>2, <1>3
<1> QED
  BY <1>3, <1>4, <1>5 DEF Stream!LoseStep, Reading

\* In step, a call that reads to the end of a packet has it.
LEMMA Takes ==
  ASSUME IInv, ~ lost, NEW k \in 0..(Stop - read), Take(k), Return(Reading),
         LastRead(read + k, Len(Wire(Reading)))
  PROVE  IInv' /\ Stream!Take
<1>1. WireType /\ HistoryType /\ StreamInv
  BY Types DEF IInv
<1>2. Behind(read + k) = taken + 1 /\ Starts(read + k + 1)
  BY <1>1, AtItsEnd
<1>3. taken < Len(sent)
  BY DEF LastRead
<1>4. Reading \in Packet
  <2>1. Reading \in Packets
    BY <1>1, <1>3, ReadingIs
  <2> QED
    BY <2>1, ConstantsAssumption DEF Packet, Value
<1>5. /\ IInv' /\ sent' = sent /\ cut' = cut /\ got' = Reading
      /\ taken' = Behind(read + k) /\ lost' = ~ Starts(read + k + 1)
  BY <1>4, Returns, Zenon
<1>6. taken' = taken + 1 /\ lost' = FALSE
  BY <1>2, <1>5
<1>7. lost' = lost
  <2>1. lost = FALSE
    BY <1>1 DEF HistoryType
  <2> QED
    BY <1>6, <2>1
<1> QED
  BY <1>3, <1>5, <1>6, <1>7 DEF Stream!Take, Reading

\* -1 is returned like a packet.
LEMMA ErrorIs == Error \in Packet
<1>1. <<>> \in Seq(Value)
  OBVIOUS
<1> QED
  BY <1>1 DEF Error, Packet

LEMMA NoHeaderStep ==
  ASSUME IInv, NoHeader
  PROVE  IInv' /\ [Stream!Next]_(Stream!packets)
<1>0. pc = "header" /\ Recv(1) = 0 /\ Take(0) /\ Return(Error)
  BY DEF NoHeader
<1>1. WireType /\ HistoryType /\ StreamInv /\ CutInv /\ ReaderInv
  BY Types DEF IInv
<1>2. 0 \in 0..(Stop - read) /\ read \in Nat
  BY <1>1, RecvIs
<1>3. /\ IInv' /\ (lost => Stream!OutOfStep)
      /\ sent' = sent /\ cut' = cut /\ got' = Error
      /\ taken' = Behind(read + 0) /\ lost' = ~ Starts(read + 0 + 1)
  BY <1>0, <1>2, ErrorIs, Returns, Zenon
<1>4. CASE lost
  BY <1>3, <1>4 DEF Stream!Next
<1>5. CASE ~ lost
  <2>1. Starts(read + 1) /\ taken = Behind(read)
    BY <1>0, <1>1, <1>5 DEF ReaderInv, InStep
  <2>2. read + 0 = read
    BY <1>2
  <2>3. taken' = taken /\ lost' = FALSE
    BY <1>3, <2>1, <2>2
  <2>4. lost' = lost
    <3>1. lost = FALSE
      BY <1>1, <1>5 DEF HistoryType
    <3> QED
      BY <2>3, <3>1
  <2>5. Stream!Fail
    BY <1>3, <1>5, <2>3, <2>4 DEF Stream!Fail
  <2> QED
    BY <1>3, <2>5 DEF Stream!Next
<1> QED
  BY <1>4, <1>5

LEMMA HeaderStep ==
  ASSUME IInv, Header
  PROVE  IInv' /\ [Stream!Next]_(Stream!packets)
<1>0. /\ pc = "header" /\ Recv(1) = 1 /\ Take(1) /\ UNCHANGED history
      /\ type' = stream[read + 1].value \div Flags
      /\ rem_len' = 0 /\ digits' = 0 /\ pc' = "length"
      /\ stream' = stream /\ read' = read + 1 /\ sent' = sent /\ taken' = taken
  BY DEF Header, Take, history
<1>1. WireType /\ HistoryType /\ StreamInv /\ CutInv /\ ReaderInv
  BY Types DEF IInv
<1>2. Bytes /\ Len(stream) \in Nat /\ Len(sent) \in Nat /\ taken \in Nat /\ read \in Nat
      /\ arrived \in Nat /\ arrived <= Len(stream)
  BY <1>1, Counts
<1>3. 1 \in 0..(Stop - read)
  BY <1>0, <1>1, RecvIs
<1>4. read + 1 \in 1..Len(stream) /\ read # Len(stream)
  <2>1. Stop \in read..arrived
    BY <1>1, StopIs
  <2> QED
    BY <1>2, <1>3, <2>1
<1> DEFINE b == stream[read + 1]
<1>5. b.value \in Value /\ b.of \in 1..Len(sent) /\ b.of \in Nat /\ InPlace(b)
      /\ read + 1 \in DOMAIN stream
  BY <1>2, <1>4, <1>1, ByteIs
<1>6. ReaderType'
  <2>1. b.value \in Nat /\ Flags \in Nat \ {0}
    <3>1. Base \in Nat /\ Flags \in Nat \ {0}
      BY ConstantsAssumption
    <3> QED
      BY <1>5, <3>1 DEF Value
  <2>2. type' \in Nat
    BY <1>0, <2>1
  <2>3. 0 \in 0..(Weight[4] - 1)
    BY WeightType
  <2> QED
    BY <1>0, <2>2, <2>3 DEF ReaderType
<1>7. LengthInv'
  BY <1>0, WeightIs DEF LengthInv
<1>8. ASSUME ~ lost PROVE InStep'
  <2>1. b.at = 1 /\ taken = b.of - 1
    BY <1>0, <1>1, <1>4, <1>5, <1>8 DEF ReaderInv, InStep, Starts, Behind
  <2>2. taken < Len(sent) /\ b.of = taken + 1
    BY <1>2, <1>5, <2>1
  <2>3. LastRead(read + 1, 1)
    BY <1>4, <2>1, <2>2 DEF LastRead
  <2>4. /\ Reading \in Packets /\ Body \in Nat /\ Digits(Body) \in 1..4
        /\ Wire(Reading)[1] \div Flags = Reading.type
    BY <1>1, <2>2, ReadingIs, WireIs
  <2>5. b.value = Wire(Reading)[1]
    BY <1>5, <2>1, <2>2 DEF InPlace, Reading
  <2>6. type' = Reading.type
    BY <1>0, <2>4, <2>5
  <2>7. Body % Weight[0] = 0
    <3>1. \A n \in Nat : n % 1 = 0
      OBVIOUS
    <3> QED
      BY <2>4, <3>1, WeightIs
  <2>8. LastRead(read, 1 + digits)' /\ Body' = Body /\ Reading' = Reading
    BY <1>0, <2>3 DEF LastRead, Body, Reading
  <2>9. Digits(Body)' = Digits(Body) /\ (Body % Weight[digits])' = Body % Weight[0]
    BY <1>0, <2>8
  <2>10. digits' < Digits(Body)' /\ Known' /\ rem_len' = (Body % Weight[digits])'
    BY <1>0, <2>4, <2>6, <2>7, <2>8, <2>9 DEF Known
  <2> QED
    BY <1>0, <2>8, <2>10 DEF InStep
<1> QED
  BY <1>0, <1>3, <1>6, <1>7, <1>8, GoesOn

\* A length that does not fit, is none, or is to be read.
LEMMA CheckStep ==
  ASSUME IInv, pc = "length", NEW k \in 0..(Stop - read), Take(k),
         NEW n \in 0..(Weight[4] - 1), Check(n),
         ~ lost => Measured(read + k, n) \/ Torn(read + k, n)
  PROVE  IInv' /\ [Stream!Next]_(Stream!packets)
<1>1. WireType /\ ReaderType /\ HistoryType /\ StreamInv /\ CutInv /\ ReaderInv
  BY Types DEF IInv
<1>2. n \in Nat /\ Digits(n) \in 1..4 /\ Digits(n) \in Nat
  BY DigitsAre, WeightType
<1>3. Size(n) = 1 + Digits(n) + n /\ buflen \in Nat /\ buflen > 4
  BY ConstantsAssumption DEF Size, MaxDigits
<1>4. \/ Size(n) > buflen /\ Return(Error)
      \/ n = 0 /\ Return([type |-> type, body |-> <<>>])
      \/ /\ Size(n) <= buflen /\ n > 0 /\ pc' = "rest" /\ rem_len' = n
         /\ UNCHANGED <<type, digits, history>>
  BY DEF Check
<1>5. CASE Size(n) > buflen /\ Return(Error)
  <2>1. CASE lost
    BY <1>5, <2>1, ErrorIs, Returns DEF Stream!Next
  <2>2. CASE ~ lost
    <3>1. n > 0
      BY <1>2, <1>3, <1>5
    <3>2. CASE Measured(read + k, n)
      <4>0. LastRead(read + k, 1 + Digits(Body)) /\ n = Body
        BY <3>2 DEF Measured
      <4>1. taken < Len(sent)
        BY <4>0 DEF LastRead
      <4>2. Len(Wire(Reading)) = 1 + Digits(n) + n
        BY <1>1, <4>0, <4>1, ReadingIs
      <4>3. 1 + Digits(n) \in Nat /\ 1 + Digits(n) < Len(Wire(Reading))
        BY <1>2, <3>1, <4>2
      <4>4. ~ Fits(Reading)
        BY <1>2, <1>3, <1>5, <4>0 DEF Fits, Body
      <4>5. IInv' /\ Stream!LoseStep
        BY <1>5, <2>2, <4>0, <4>3, <4>4, ErrorIs, Slips
      <4> QED
        BY <4>5 DEF Stream!Next
    <3>3. CASE Torn(read + k, n)
      <4>1. PICK at \in 1..(Len(Wire(Reading)) - (n + 1)) : LastRead(read + k, at)
        BY <3>3 DEF Torn
      <4>2. taken < Len(sent)
        BY <4>1 DEF LastRead
      <4>3. at \in Nat /\ at < Len(Wire(Reading))
        BY <1>1, <1>2, <4>1, <4>2, ReadingIs
      <4>4. IInv' /\ Stream!LoseStep
        BY <1>5, <2>2, <3>3, <4>1, <4>3, ErrorIs, Slips DEF Torn
      <4> QED
        BY <4>4 DEF Stream!Next
    <3> QED
      BY <2>2, <3>2, <3>3
  <2> QED
    BY <2>1, <2>2
<1>6. CASE n = 0 /\ Return([type |-> type, body |-> <<>>])
  <2> DEFINE result == [type |-> type, body |-> <<>>]
  <2>0. result \in Packet
    <3>1. <<>> \in Seq(Value) /\ type \in Nat
      BY <1>1 DEF ReaderType
    <3> QED
      BY <3>1 DEF Packet
  <2>1. CASE lost
    <3> HIDE DEF result
    <3>1. Return(result)
      BY <1>6 DEF result
    <3> QED
      BY <2>0, <2>1, <3>1, Returns DEF Stream!Next
  <2>2. CASE ~ lost
    <3>2. CASE Measured(read + k, n)
      <4>0. LastRead(read + k, 1 + Digits(Body)) /\ n = Body /\ Known
        BY <3>2 DEF Measured
      <4>1. taken < Len(sent)
        BY <4>0 DEF LastRead
      <4>2. Len(Wire(Reading)) = 1 + Digits(Body) + Body /\ Reading \in Packets /\ Digits(Body) \in Nat
        BY <1>1, <4>1, ReadingIs
      <4>3. Len(Wire(Reading)) = 1 + Digits(Body)
        BY <1>2, <1>6, <4>0, <4>2
      <4>4. Reading = result
        <5>1. Reading \in [type : Nat, body : Seq(Value)]
          BY <4>2, ConstantsAssumption DEF Value
        <5>2. Reading.body = <<>>
          BY <1>6, <4>0, <5>1 DEF Body
        <5>3. Reading = [type |-> Reading.type, body |-> Reading.body]
          BY <5>1
        <5> QED
          BY <4>0, <5>2, <5>3 DEF Known
      <4>5. IInv' /\ Stream!Take
        <5>1. Return(Reading)
          BY <1>6, <4>4
        <5>2. LastRead(read + k, Len(Wire(Reading)))
          BY <4>0, <4>3
        <5> QED
          BY <2>2, <5>1, <5>2, Takes
      <4> QED
        BY <4>5 DEF Stream!Next
    <3>3. CASE Torn(read + k, n)
      <4>1. PICK at \in 1..(Len(Wire(Reading)) - (n + 1)) : LastRead(read + k, at)
        BY <3>3 DEF Torn
      <4>2. taken < Len(sent)
        BY <4>1 DEF LastRead
      <4>3. at \in Nat /\ at < Len(Wire(Reading))
        BY <1>1, <1>2, <4>1, <4>2, ReadingIs
      <4>4. IInv' /\ Stream!LoseStep
        <5> HIDE DEF result
        <5>1. Return(result)
          BY <1>6 DEF result
        <5> QED
          BY <5>1, <2>0, <2>2, <3>3, <4>1, <4>3, Slips DEF Torn
      <4> QED
        BY <4>4 DEF Stream!Next
    <3> QED
      BY <2>2, <3>2, <3>3
  <2> QED
    BY <2>1, <2>2
<1>7. CASE /\ Size(n) <= buflen /\ n > 0 /\ pc' = "rest" /\ rem_len' = n
           /\ UNCHANGED <<type, digits, history>>
  <2>0. /\ stream' = stream /\ read' = read + k /\ sent' = sent /\ taken' = taken /\ cut' = cut
        /\ type' = type /\ digits' = digits
    BY <1>7 DEF Take, history
  <2>1. ReaderType'
    <3>1. n \in 1..(buflen - 1 - Digits(n))
      BY <1>2, <1>3, <1>7
    <3> QED
      BY <1>1, <1>7, <2>0, <3>1 DEF ReaderType
  <2>2. LengthInv'
    BY <1>7 DEF LengthInv
  <2>3. ASSUME ~ lost PROVE InStep'
    <3>1. Measured(read + k, n) \/ Torn(read + k, n)
      BY <2>3
    <3>2. Measured(read, rem_len)' \/ Torn(read, rem_len)'
      BY <1>7, <2>0, <3>1 DEF Measured, Torn, LastRead, Known, Body, Reading
    <3> QED
      BY <1>7, <3>2 DEF InStep
  <2>4. UNCHANGED history
    BY <1>7
  <2> QED
    BY <2>1, <2>2, <2>3, <2>4, GoesOn
<1> QED
  BY <1>4, <1>5, <1>6, <1>7

LEMMA LengthStep ==
  ASSUME IInv, Length
  PROVE  IInv' /\ [Stream!Next]_(Stream!packets)
<1> DEFINE value == stream[read + 1].value
<1>0. /\ pc = "length" /\ digits < 4 /\ Recv(1) = 1 /\ Take(1)
      /\ stream' = stream /\ read' = read + 1
      /\ \/ /\ value >= Base
            /\ rem_len' = Decoded(value) /\ digits' = digits + 1
            /\ UNCHANGED <<pc, type, history>>
         \/ value < Base /\ Check(Decoded(value))
  BY DEF Length, Take, MaxDigits
<1>1. WireType /\ ReaderType /\ HistoryType /\ StreamInv /\ CutInv /\ ReaderInv /\ LengthInv
  BY Types DEF IInv
<1>2. Bytes /\ Len(stream) \in Nat /\ Len(sent) \in Nat /\ taken \in Nat /\ read \in Nat
      /\ arrived \in Nat /\ arrived <= Len(stream)
  BY <1>1, Counts
<1>3. 1 \in 0..(Stop - read)
  BY <1>0, <1>1, RecvIs
<1>4. read + 1 \in 1..Len(stream)
  <2>1. Stop \in read..arrived
    BY <1>1, StopIs
  <2> QED
    BY <1>2, <1>3, <2>1
<1>5. value \in Nat /\ Base \in Nat
  <2>1. Base \in Nat /\ value \in Value
    BY <1>2, <1>4, <1>1, ByteIs, ConstantsAssumption
  <2> QED
    BY <2>1 DEF Value
<1>6. digits \in 0..3 /\ digits + 1 \in 0..4 /\ rem_len \in 0..(Weight[digits] - 1)
  <2>1. digits \in 0..3 /\ rem_len \in Nat /\ rem_len < Weight[digits]
    <3>1. rem_len \in 0..(Weight[4] - 1) /\ digits \in 0..4
      BY <1>1 DEF ReaderType
    <3>2. rem_len \in Nat
      BY <3>1, WeightType
    <3> QED
      BY <1>0, <1>1, <3>1, <3>2 DEF LengthInv
  <2> QED
    BY <2>1, WeightType
<1>7. Decoded(value) \in 0..(Weight[digits + 1] - 1)
  BY <1>5, <1>6, DecodedFits DEF Decoded
<1>8. Decoded(value) \in 0..(Weight[4] - 1) /\ Decoded(value) < Weight[digits + 1]
  <2>1. Weight[digits + 1] \in Nat /\ Weight[4] \in Nat /\ Weight[digits + 1] <= Weight[4]
    BY <1>6, WeightType, WeightGrows
  <2> QED
    BY <1>7, <2>1
\* In step, it is the digit that was encoded.
<1>9. ASSUME ~ lost
      PROVE  /\ LastRead(read + 1, 1 + (digits + 1)) /\ Known
             /\ Decoded(value) = Body % Weight[digits + 1]
             /\ value >= Base => digits + 1 < Digits(Body)
             /\ value < Base => digits + 1 = Digits(Body) /\ Decoded(value) = Body
  <2>1. LastRead(read, 1 + digits) /\ digits < Digits(Body) /\ Known /\ rem_len = Body % Weight[digits]
    BY <1>0, <1>1, <1>9 DEF ReaderInv, InStep
  <2>2. taken < Len(sent)
    BY <2>1 DEF LastRead
  <2>3. /\ Reading \in Packets /\ Body \in 0..(Weight[4] - 1) /\ Body \in Nat /\ Digits(Body) \in 1..4
        /\ Len(Wire(Reading)) = 1 + Digits(Body) + Body
    BY <1>1, <2>2, ReadingIs
  <2>4. /\ 1 + digits \in Nat /\ (1 + digits) + 1 = 1 + (digits + 1)
        /\ (1 + digits) + 1 <= Len(Wire(Reading))
        /\ digits \in 0..(Digits(Body) - 1) /\ digits + 1 \in 1..Digits(Body)
    BY <1>6, <2>1, <2>3
  <2>5. LastRead(read + 1, 1 + (digits + 1)) /\ value = Wire(Reading)[1 + (digits + 1)]
    <3>1. LastRead(read + 1, (1 + digits) + 1) /\ value = Wire(Reading)[(1 + digits) + 1]
      BY <1>1, <2>1, <2>4, Onward
    <3> QED
      BY <2>4, <3>1
  <2>6. value = Encoded(Body)[digits + 1]
    BY <2>3, <2>4, <2>5, WireIs DEF Body
  <2>7. /\ value >= Base <=> digits + 1 < Digits(Body)
        /\ (Body % Weight[digits]) + (value % Base) * Weight[digits] = Body % Weight[digits + 1]
        /\ digits + 1 = Digits(Body) => Body % Weight[digits + 1] = Body
    BY <2>3, <2>4, <2>6, DigitIs
  <2>8. Decoded(value) = Body % Weight[digits + 1]
    BY <2>1, <2>7 DEF Decoded
  <2>9. value < Base => digits + 1 = Digits(Body)
    BY <1>5, <2>3, <2>4, <2>7
  <2> QED
    BY <2>1, <2>5, <2>7, <2>8, <2>9
<1>10. CASE /\ value >= Base
            /\ rem_len' = Decoded(value) /\ digits' = digits + 1
            /\ UNCHANGED <<pc, type, history>>
  <2> HIDE DEF value
  <2>0. /\ pc' = "length" /\ type' = type /\ sent' = sent /\ taken' = taken /\ UNCHANGED history
        /\ rem_len' = Decoded(value) /\ digits' = digits + 1
    BY <1>0, <1>10 DEF history
  <2>1. ReaderType'
    BY <1>1, <1>6, <1>8, <2>0 DEF ReaderType
  <2>2. LengthInv'
    BY <1>8, <2>0 DEF LengthInv
  <2>3. ASSUME ~ lost PROVE InStep'
    <3>1. /\ LastRead(read + 1, 1 + (digits + 1)) /\ Known /\ digits + 1 < Digits(Body)
          /\ Decoded(value) = Body % Weight[digits + 1]
      BY <1>9, <1>10, <2>3 DEF value
    <3>2. LastRead(read, 1 + digits)' /\ Body' = Body /\ Known'
      BY <1>0, <2>0, <3>1 DEF LastRead, Body, Reading, Known
    <3>3. Digits(Body)' = Digits(Body) /\ (Body % Weight[digits])' = Body % Weight[digits + 1]
      BY <2>0, <3>2
    <3> QED
      BY <2>0, <3>1, <3>2, <3>3 DEF InStep
  <2> QED
    BY <1>0, <1>3, <2>0, <2>1, <2>2, <2>3, GoesOn
<1>11. CASE value < Base /\ Check(Decoded(value))
  <2>1. ASSUME ~ lost PROVE Measured(read + 1, Decoded(value))
    <3>1. /\ LastRead(read + 1, 1 + (digits + 1)) /\ Known
          /\ digits + 1 = Digits(Body) /\ Decoded(value) = Body
      BY <1>9, <1>11, <2>1
    <3> QED
      BY <3>1 DEF Measured
  <2> HIDE DEF value
  <2> QED
    BY <1>0, <1>3, <1>8, <1>11, <2>1, CheckStep
<1> QED
  BY <1>0, <1>10, <1>11

LEMMA LengthEndsStep ==
  ASSUME IInv, LengthEnds
  PROVE  IInv' /\ [Stream!Next]_(Stream!packets)
<1>0. pc = "length" /\ (digits = 4 \/ Recv(1) = 0) /\ Take(0) /\ Check(rem_len)
  BY DEF LengthEnds, MaxDigits
<1>1. WireType /\ ReaderType /\ HistoryType /\ StreamInv /\ CutInv /\ ReaderInv /\ LengthInv
  BY Types DEF IInv
<1>2. rem_len \in 0..(Weight[4] - 1) /\ rem_len \in Nat /\ digits \in 0..4
  <2>1. rem_len \in 0..(Weight[4] - 1) /\ digits \in 0..4
    BY <1>1 DEF ReaderType
  <2> QED
    BY <2>1, WeightType
<1>3. 0 \in 0..(Stop - read) /\ read + 0 = read
  BY <1>1, RecvIs
<1>4. ASSUME ~ lost PROVE Torn(read + 0, rem_len)
  <2>1. LastRead(read, 1 + digits) /\ digits < Digits(Body) /\ rem_len = Body % Weight[digits]
    BY <1>0, <1>1, <1>4 DEF ReaderInv, InStep
  <2>2. taken < Len(sent)
    BY <2>1 DEF LastRead
  <2>3. /\ Body \in Nat /\ Digits(Body) \in 1..4
        /\ Len(Wire(Reading)) = 1 + Digits(Body) + Body
    BY <1>1, <2>2, ReadingIs
  <2>4. Recv(1) = 0
    BY <1>0, <1>2, <2>1, <2>3
  <2>5. Stop = read
    BY <1>1, <2>4, RecvIs
  <2>6. rem_len <= Body
    <3>1. \A n \in Nat, w \in Nat \ {0} : n % w <= n
      OBVIOUS
    <3> QED
      BY <1>2, <2>1, <2>3, <3>1, WeightType
  <2>7. 1 + digits \in 1..(Len(Wire(Reading)) - (rem_len + 1)) /\ 1 + digits \in Nat
        /\ 1 + digits < Len(Wire(Reading))
    BY <1>2, <2>1, <2>3, <2>6
  <2>8. taken + 1 \in cut
    BY <1>1, <2>1, <2>5, <2>7, StopsInPieces
  <2> QED
    BY <1>3, <2>1, <2>7, <2>8 DEF Torn
<1> QED
  BY <1>0, <1>2, <1>3, <1>4, CheckStep

\* What recv gave of the rest, as bytes.
LEMMA RestIs ==
  ASSUME WireType, NEW k \in Nat, read + k <= Len(stream)
  PROVE  [i \in 1..k |-> stream[read + i].value] \in Seq(Value)
<1>1. Len(stream) \in Nat /\ read \in Nat
  <2>1. Len(stream) \in Nat
    BY DEF WireType
  <2> QED
    BY <2>1 DEF WireType
<1>2. ASSUME NEW i \in 1..k PROVE stream[read + i].value \in Value
  <2>1. read + i \in 1..Len(stream)
    BY <1>1
  <2>2. stream[read + i] \in WireByte
    BY <2>1 DEF WireType
  <2> QED
    BY <2>2 DEF WireByte
<1>3. [i \in 1..k |-> stream[read + i].value] \in [1..k -> Value]
  BY <1>2
<1> QED
  BY <1>3

LEMMA RestStep ==
  ASSUME IInv, Rest
  PROVE  IInv' /\ [Stream!Next]_(Stream!packets)
<1> DEFINE k == Recv(rem_len)
           bytes == [i \in 1..k |-> stream[read + i].value]
           result == [type |-> type, body |-> bytes]
<1>0. /\ pc = "rest" /\ Take(k)
      /\ \/ k = rem_len /\ Return(result)
         \/ k < rem_len /\ Return(Error)
  BY DEF Rest
<1>1. WireType /\ ReaderType /\ HistoryType /\ StreamInv /\ CutInv /\ ReaderInv
  BY Types DEF IInv
<1>2. rem_len \in Nat /\ rem_len > 0
  <2>1. rem_len \in 0..(Weight[4] - 1)
    BY <1>1 DEF ReaderType
  <2>2. Digits(rem_len) \in 1..4 /\ rem_len \in Nat
    BY <2>1, DigitsAre, WeightType
  <2>3. rem_len \in 1..(buflen - 1 - Digits(rem_len)) /\ buflen \in Nat
    BY <1>0, <1>1, ConstantsAssumption DEF ReaderType
  <2> QED
    BY <2>2, <2>3
<1>3. /\ k \in 0..(Stop - read) /\ k <= rem_len /\ k \in Nat
      /\ k < rem_len => read + k = Stop
      /\ Stop - read \in Nat /\ read \in Nat
  BY <1>1, <1>2, RecvIs
<1>4. Stop \in read..arrived /\ arrived <= Len(stream) /\ arrived \in Nat /\ Len(stream) \in Nat
  BY <1>1, StopIs, Counts
<1> HIDE DEF k
<1>5. read + k <= Len(stream)
  BY <1>3, <1>4
<1>6. result \in Packet
  <2>1. bytes \in Seq(Value)
    BY <1>1, <1>3, <1>5, RestIs
  <2>2. type \in Nat
    BY <1>1 DEF ReaderType
  <2> HIDE DEF bytes
  <2> QED
    BY <2>1, <2>2 DEF Packet
<1> HIDE DEF bytes
<1>7. CASE lost
  <2> HIDE DEF result
  <2>1. CASE Return(result)
    BY <1>0, <1>3, <1>6, <1>7, <2>1, Returns DEF Stream!Next
  <2>2. CASE Return(Error)
    BY <1>0, <1>3, <1>7, <2>2, ErrorIs, Returns DEF Stream!Next
  <2> QED
    BY <1>0, <2>1, <2>2
<1>8. CASE ~ lost
  <2>1. Measured(read, rem_len) \/ Torn(read, rem_len)
    BY <1>0, <1>1, <1>8 DEF ReaderInv, InStep
  <2>2. CASE Torn(read, rem_len)
    <3>1. PICK at \in 1..(Len(Wire(Reading)) - (rem_len + 1)) : LastRead(read, at)
      BY <2>2 DEF Torn
    <3>2. taken < Len(sent)
      BY <3>1 DEF LastRead
    <3>3. Len(Wire(Reading)) \in Nat
      BY <1>1, <3>2, ReadingIs
    <3>4. at \in Nat /\ at + k \in Nat /\ at + k < Len(Wire(Reading)) /\ at + k <= Len(Wire(Reading))
      BY <1>2, <1>3, <3>1, <3>3
    <3>5. LastRead(read + k, at + k)
      BY <1>1, <1>3, <3>1, <3>4, Onward
    <3>6. taken + 1 \in cut
      BY <2>2 DEF Torn
    <3> HIDE DEF result
    <3>7. CASE Return(result)
      BY <1>0, <1>3, <1>6, <1>8, <3>4, <3>5, <3>6, <3>7, Slips DEF Stream!Next
    <3>8. CASE Return(Error)
      BY <1>0, <1>3, <1>8, <3>4, <3>5, <3>6, <3>8, ErrorIs, Slips DEF Stream!Next
    <3> QED
      BY <1>0, <3>7, <3>8
  <2>3. CASE Measured(read, rem_len)
    <3> DEFINE at == 1 + Digits(Body)
    <3>1. LastRead(read, at) /\ Known /\ rem_len = Body
      BY <2>3 DEF Measured
    <3>2. taken < Len(sent)
      BY <3>1 DEF LastRead
    <3>3. /\ Reading \in Packets /\ Body \in Nat /\ at \in Nat
          /\ Len(Wire(Reading)) = at + Body /\ Len(Wire(Reading)) \in Nat
      <4>1. /\ Reading \in Packets /\ Body \in Nat /\ Digits(Body) \in 1..4
            /\ Len(Wire(Reading)) = 1 + Digits(Body) + Body
        BY <1>1, <3>2, ReadingIs
      <4> QED
        BY <4>1
    <3>4. \A i \in 1..Body : Wire(Reading)[at + i] = Reading.body[i]
      BY <3>3, WireIs DEF Body
    <3> HIDE DEF at
    <3>5. at + k \in Nat /\ at + k <= Len(Wire(Reading))
      BY <1>3, <3>1, <3>3
    <3>6. LastRead(read + k, at + k)
      BY <1>1, <1>3, <3>1, <3>3, <3>5, Onward
    <3>7. CASE k < rem_len /\ Return(Error)
      <4>1. at + k < Len(Wire(Reading)) /\ read + k = Stop
        BY <1>3, <3>1, <3>3, <3>7
      <4>2. taken + 1 \in cut
        BY <1>1, <3>5, <3>6, <4>1, StopsInPieces
      <4>3. IInv' /\ Stream!LoseStep
        BY <1>0, <1>3, <1>8, <3>5, <3>6, <3>7, <4>1, <4>2, ErrorIs, Slips
      <4> QED
        BY <4>3 DEF Stream!Next
    <3>8. CASE k = rem_len /\ Return(result)
      <4>1. Reading.body \in Seq(Value) /\ Reading \in [type : Nat, body : Seq(Value)]
        BY <3>3, ConstantsAssumption DEF Value
      <4>2. bytes = Reading.body
        <5>1. ASSUME NEW i \in 1..k PROVE stream[read + i].value = Reading.body[i]
          <6>1. i \in 1..Body /\ i \in Nat /\ at + i <= Len(Wire(Reading))
            BY <1>3, <3>1, <3>3, <3>8
          <6>2. stream[read + i].value = Wire(Reading)[at + i]
            BY <1>1, <3>1, <3>3, <6>1, Onward
          <6> QED
            BY <3>4, <6>1, <6>2
        <5>2. Reading.body = [i \in 1..k |-> Reading.body[i]]
          <6>1. k = Len(Reading.body)
            BY <3>1, <3>8 DEF Body
          <6> QED
            BY <4>1, <6>1
        <5> QED
          BY <5>1, <5>2 DEF bytes
      <4>3. result = Reading
        <5>1. Reading = [type |-> Reading.type, body |-> Reading.body]
          BY <4>1
        <5> QED
          BY <3>1, <4>2, <5>1 DEF Known
      <4>4. LastRead(read + k, Len(Wire(Reading)))
        <5>1. at + k = Len(Wire(Reading))
          BY <3>1, <3>3, <3>8
        <5> QED
          BY <3>6, <5>1
      <4>5. IInv' /\ Stream!Take
        <5>1. Return(Reading)
          BY <3>8, <4>3
        <5> QED
          BY <1>0, <1>3, <1>8, <4>4, <5>1, Takes
      <4> QED
        BY <4>5 DEF Stream!Next
    <3> QED
      BY <1>0, <3>7, <3>8
  <2> QED
    BY <2>1, <2>2, <2>3
<1> QED
  BY <1>7, <1>8
-----------------------------------------------------------------------------
(* The broker and TCP.                                                     *)

\* What is written behind the stream leaves the reader where it is.
LEMMA SendStep ==
  ASSUME IInv, NEW p \in Packets, Send(p)
  PROVE  IInv' /\ [Stream!Next]_(Stream!packets)
<1> DEFINE new == Tagged(p, Len(sent) + 1)
           L == Len(stream)
           N == Len(sent)
           W == Len(Wire(p))
<1>0. /\ sent' = Append(sent, p) /\ stream' = stream \o new
      /\ arrived' = arrived /\ pushes' = pushes /\ read' = read
      /\ pc' = pc /\ type' = type /\ rem_len' = rem_len /\ digits' = digits
      /\ cut' = cut /\ taken' = taken /\ lost' = lost /\ got' = got
  BY DEF Send, reader
<1>1. WireType /\ ReaderType /\ HistoryType /\ StreamInv /\ CutInv /\ ReaderInv /\ LengthInv
  BY Types DEF IInv
<1>2. /\ Bytes /\ L \in Nat /\ N \in Nat /\ taken \in Nat /\ read \in Nat /\ arrived \in Nat
      /\ read <= arrived /\ arrived <= L /\ taken <= N /\ DOMAIN stream = 1..L
  BY <1>1, Counts DEF WireType
<1>3. /\ sent' \in Seq(Packets) /\ Len(sent') = N + 1 /\ sent'[N + 1] = p
      /\ \A i \in 1..N : sent'[i] = sent[i]
      /\ DOMAIN sent = 1..N /\ DOMAIN sent' = 1..(N + 1)
  <2>1. sent \in Seq(Packets)
    BY <1>2 DEF Bytes
  <2> QED
    BY <1>0, <2>1, AppendProperties, LenProperties
<1>4. W \in Nat /\ W > 1 /\ Wire(p) \in Seq(Value)
  <2>1. /\ Wire(p) \in Seq(Value) /\ Len(p.body) \in 0..(Weight[4] - 1)
        /\ Digits(Len(p.body)) \in 1..4 /\ W = 1 + Digits(Len(p.body)) + Len(p.body)
    BY WireIs
  <2>2. Len(p.body) \in Nat
    BY <2>1, WeightType
  <2> HIDE DEF W
  <2> QED
    BY <2>1, <2>2
<1>5. /\ new \in Seq(WireByte) /\ Len(new) = W
      /\ \A i \in 1..W : new[i] = [value |-> Wire(p)[i], of |-> N + 1, at |-> i]
  <2>1. new = [i \in 1..W |-> [value |-> Wire(p)[i], of |-> N + 1, at |-> i]]
    BY DEF Tagged
  <2>2. ASSUME NEW i \in 1..W PROVE [value |-> Wire(p)[i], of |-> N + 1, at |-> i] \in WireByte
    <3>1. Wire(p)[i] \in Value /\ N + 1 \in Nat /\ i \in Nat
      BY <1>2, <1>4
    <3> QED
      BY <3>1 DEF WireByte
  <2> HIDE DEF new, W, N
  <2>3. new \in [1..W -> WireByte]
    BY <2>1, <2>2
  <2>4. new \in Seq(WireByte) /\ Len(new) = W
    BY <1>4, <2>3
  <2> QED
    BY <2>1, <2>4
<1> HIDE DEF new, W, L, N
<1>6. /\ stream' \in Seq(WireByte) /\ Len(stream') = L + W /\ DOMAIN stream' = 1..(L + W)
      /\ \A i \in 1..L : stream'[i] = stream[i]
      /\ \A i \in 1..W : stream'[L + i] = new[i]
  <2>1. \A s, t \in Seq(WireByte) :
          /\ s \o t \in Seq(WireByte) /\ Len(s \o t) = Len(s) + Len(t)
          /\ \A i \in 1..Len(s) : (s \o t)[i] = s[i]
          /\ \A i \in 1..Len(t) : (s \o t)[Len(s) + i] = t[i]
    BY Joined
  <2>2. stream \in Seq(WireByte)
    BY <1>2 DEF Bytes
  <2>3. /\ stream \o new \in Seq(WireByte) /\ Len(stream \o new) = Len(stream) + Len(new)
        /\ \A i \in 1..Len(stream) : (stream \o new)[i] = stream[i]
        /\ \A i \in 1..Len(new) : (stream \o new)[Len(stream) + i] = new[i]
    BY <1>5, <2>1, <2>2, Zenon
  <2>4. /\ stream' \in Seq(WireByte) /\ Len(stream') = L + W
        /\ \A i \in 1..L : stream'[i] = stream[i]
        /\ \A i \in 1..W : stream'[L + i] = new[i]
    BY <1>0, <1>5, <2>3, Zenon DEF L
  <2>5. DOMAIN stream' = 1..(L + W)
    BY <2>4, LenProperties
  <2> QED
    BY <2>4, <2>5
\* The bytes before are where they were, the others in the new packet.
<1>7. ASSUME NEW i \in 1..L
      PROVE  /\ stream'[i] = stream[i] /\ stream[i].of \in 1..N
             /\ sent'[stream[i].of] = sent[stream[i].of]
  <2>1. stream[i].of \in 1..N
    BY <1>1, <1>2, ByteIs DEF L, N
  <2> QED
    BY <1>3, <1>6, <2>1
<1>8. ASSUME NEW i \in 1..W
      PROVE  /\ stream'[L + i].of = N + 1 /\ stream'[L + i].at = i
             /\ stream'[L + i].value = Wire(p)[i]
  BY <1>5, <1>6
<1>9. ASSUME NEW i \in 1..(L + W), ~ (i \in 1..L) PROVE i - L \in 1..W /\ i = L + (i - L)
  BY <1>2, <1>4, <1>9
<1>10. StreamInv'
  <2>1. ASSUME NEW i \in 1..(L + W) PROVE InPlace(stream[i])'
    <3>1. CASE i \in 1..L
      <4>1. InPlace(stream[i]) /\ stream[i].of \in 1..N /\ stream'[i] = stream[i]
            /\ sent'[stream[i].of] = sent[stream[i].of]
        BY <1>1, <1>2, <1>7, <3>1, ByteIs DEF L
      <4>2. stream[i].of \in DOMAIN sent'
        BY <1>2, <1>3, <4>1
      <4> QED
        BY <4>1, <4>2 DEF InPlace, Total
    <3>2. CASE ~ (i \in 1..L)
      <4>1. i - L \in 1..W /\ i = L + (i - L)
        BY <1>9, <3>2
      <4>2. stream'[i].of = N + 1 /\ stream'[i].at = i - L /\ stream'[i].value = Wire(p)[i - L]
        BY <1>8, <4>1
      <4>3. N + 1 \in DOMAIN sent' /\ sent'[N + 1] = p
        BY <1>2, <1>3
      <4> QED
        BY <4>1, <4>2, <4>3 DEF InPlace, Total, W
    <3> QED
      BY <3>1, <3>2
  <2>2. ASSUME NEW i \in 1..((L + W) - 1) PROVE Follows(stream[i], stream[i + 1])'
    <3>0. i \in Nat /\ i \in 1..(L + W) /\ i + 1 \in 1..(L + W)
      BY <1>2, <1>4
    <3>1. CASE i + 1 \in 1..L
      <4>1. i \in 1..L /\ i \in 1..(L - 1)
        BY <1>2, <3>0, <3>1
      <4>2. Follows(stream[i], stream[i + 1])
        BY <1>1, <4>1 DEF StreamInv, L
      <4>3. /\ stream'[i] = stream[i] /\ stream'[i + 1] = stream[i + 1]
            /\ sent'[stream[i].of] = sent[stream[i].of]
        BY <1>7, <3>1, <4>1
      <4> QED
        BY <4>2, <4>3 DEF Follows, Total
    <3>2. CASE i = L
      <4>1. 1 \in 1..W /\ L \in 1..L
        BY <1>2, <1>4, <3>0, <3>2
      <4>2. stream'[L + 1].of = N + 1 /\ stream'[L + 1].at = 1
        BY <1>8, <4>1
      <4>3. stream[L].of = N /\ stream[L].at = Total(stream[L])
        <5>1. stream # <<>>
          BY <4>1 DEF L
        <5> QED
          BY <1>1, <5>1 DEF StreamInv, L, N
      <4>4. stream'[L] = stream[L] /\ sent'[stream[L].of] = sent[stream[L].of]
        BY <1>7, <4>1
      <4> QED
        BY <3>2, <4>2, <4>3, <4>4 DEF Follows, Total
    <3>3. CASE ~ (i \in 1..L)
      <4>1. i - L \in 1..W /\ i = L + (i - L)
        BY <1>9, <3>0, <3>3
      <4>2. (i + 1) - L \in 1..W /\ i + 1 = L + ((i + 1) - L) /\ (i + 1) - L = (i - L) + 1
        BY <1>2, <1>4, <3>0, <4>1
      <4>3. stream'[i].of = N + 1 /\ stream'[i].at = i - L
        BY <1>8, <4>1
      <4>4. stream'[i + 1].of = N + 1 /\ stream'[i + 1].at = (i - L) + 1
        BY <1>8, <4>2
      <4> QED
        BY <4>3, <4>4 DEF Follows
    <3>4. i + 1 \in 1..L \/ i = L \/ ~ (i \in 1..L)
      BY <1>2, <3>0
    <3> QED
      BY <3>1, <3>2, <3>3, <3>4
  <2>3. /\ stream'[L + W].of = Len(sent') /\ stream'[L + W].at = Len(Wire(sent'[stream'[L + W].of]))
    <3>1. W \in 1..W
      BY <1>4
    <3>2. stream'[L + W].of = N + 1 /\ stream'[L + W].at = W
      BY <1>8, <3>1
    <3>3. sent'[stream'[L + W].of] = p
      BY <1>3, <3>2
    <3>4. Len(Wire(sent'[stream'[L + W].of])) = W
      BY <3>3 DEF W
    <3> QED
      BY <1>3, <3>2, <3>4
  <2>4. Len(stream)' = L + W
    BY <1>6
  <2>5. \A i \in 1..Len(stream)' : InPlace(stream[i])'
    BY <2>1, <2>4
  <2>6. \A i \in 1..(Len(stream)' - 1) : Follows(stream[i], stream[i + 1])'
    BY <2>2, <2>4
  <2>7. stream'[Len(stream)'].of = Len(sent)' /\ stream'[Len(stream)'].at = Total(stream[Len(stream)])'
    BY <2>3, <2>4 DEF Total
  <2> QED
    BY <2>5, <2>6, <2>7 DEF StreamInv
<1>11. WireType'
  BY <1>0, <1>1, <1>2, <1>4, <1>6 DEF WireType
<1>12. ReaderType'
  BY <1>0, <1>1 DEF ReaderType
<1>13. HistoryType'
  <2>1. taken \in 0..(N + 1)
    BY <1>2
  <2> QED
    BY <1>0, <1>1, <1>3, <2>1 DEF HistoryType
<1>14. LengthInv'
  BY <1>0, <1>1 DEF LengthInv
\* A place keeps what is before it.
<1>15. ASSUME NEW r \in 0..L
       PROVE  /\ ~ Starts(r + 1) => stream'[r + 1] = stream[r + 1]
              /\ Starts(r + 1) /\ r + 1 \in DOMAIN stream' => stream'[r + 1].at = 1
              /\ Behind(r) = IF r = Len(stream') THEN Len(sent') ELSE stream'[r + 1].of - 1
  <2>1. CASE r = L
    <3>1. 1 \in 1..W /\ ~ (L + 1 \in 1..L) /\ L # L + W
      BY <1>2, <1>4
    <3>2. stream'[L + 1].of = N + 1 /\ stream'[L + 1].at = 1
      BY <1>8, <3>1
    <3>3. Starts(r + 1)
      BY <1>2, <2>1, <3>1 DEF Starts
    <3>4. Behind(r) = N
      BY <2>1 DEF Behind, L, N
    <3>5. (N + 1) - 1 = N
      BY <1>2
    <3> QED
      BY <1>6, <2>1, <3>1, <3>2, <3>3, <3>4, <3>5
  <2>2. CASE r # L
    <3>1. r + 1 \in 1..L /\ r # L + W
      BY <1>2, <1>4, <2>2
    <3>2. stream'[r + 1] = stream[r + 1]
      BY <1>7, <3>1
    <3>3. Starts(r + 1) => stream'[r + 1].at = 1
      BY <1>2, <3>1, <3>2 DEF Starts
    <3>4. Behind(r) = stream'[r + 1].of - 1
      BY <2>2, <3>2 DEF Behind, L
    <3> QED
      BY <1>6, <3>1, <3>2, <3>3, <3>4
  <2> QED
    BY <2>1, <2>2
<1>16. CutInv'
  <2>1. ASSUME NEW r \in pushes \cup {arrived} PROVE Whole(r)'
    <3>1. r \in 0..L
      <4>1. pushes \subseteq (read + 1)..arrived
        BY <1>1 DEF WireType
      <4> QED
        BY <1>2, <4>1
    <3>2. Whole(r)
      BY <1>1 DEF CutInv
    <3>3. CASE Starts(r + 1)
      <4>1. r + 1 \in DOMAIN stream' => stream'[r + 1].at = 1
        BY <1>15, <3>1, <3>3
      <4> QED
        BY <4>1 DEF Whole, Starts
    <3>4. CASE ~ Starts(r + 1)
      <4>1. stream'[r + 1] = stream[r + 1]
        BY <1>15, <3>1, <3>4
      <4>2. stream[r + 1].of \in cut
        BY <3>2, <3>4 DEF Whole
      <4> QED
        BY <1>0, <4>1, <4>2 DEF Whole
    <3> QED
      BY <3>3, <3>4
  <2>2. cut' \subseteq 1..Len(sent')
    <3>1. cut \subseteq 1..N
      BY <1>1 DEF CutInv, N
    <3> QED
      BY <1>0, <1>2, <1>3, <3>1
  <2> QED
    BY <1>0, <2>1, <2>2 DEF CutInv
<1>17. ReaderInv'
  <2>0. read \in 0..L
    BY <1>2
  <2>1. CASE lost
    <3>1. Behind(read) = IF read = Len(stream') THEN Len(sent') ELSE stream'[read + 1].of - 1
      BY <1>15, <2>0
    <3>2. Behind(read)' = Behind(read)
      BY <1>0, <3>1 DEF Behind
    <3> QED
      BY <1>0, <1>1, <2>1, <3>2 DEF ReaderInv
  <2>2. CASE ~ lost
    <3>1. ASSUME NEW r, NEW at, LastRead(r, at)
          PROVE  LastRead(r, at)' /\ Reading' = Reading /\ Body' = Body
      <4>1. taken < N /\ r \in 1..L
        BY <3>1 DEF LastRead, L, N
      <4>2. taken + 1 \in 1..N /\ taken < N + 1 /\ r \in 1..(L + W)
        BY <1>2, <1>4, <4>1
      <4>3. Reading' = Reading
        BY <1>0, <1>3, <4>2 DEF Reading
      <4>4. stream'[r] = stream[r]
        BY <1>7, <4>1
      <4> QED
        BY <1>0, <1>3, <1>6, <3>1, <4>2, <4>3, <4>4 DEF LastRead, Body
    <3>2. InStep
      BY <1>1, <2>2 DEF ReaderInv
    <3>3. CASE pc = "header"
      <4>1. Starts(read + 1)' /\ Behind(read)' = Behind(read) /\ taken = Behind(read)
        <5>1. Starts(read + 1) /\ taken = Behind(read)
          BY <3>2, <3>3 DEF InStep
        <5>2. Starts(read + 1)' /\ Behind(read)' = Behind(read)
          <6>1. /\ read + 1 \in DOMAIN stream' => stream'[read + 1].at = 1
                /\ Behind(read) = IF read = Len(stream') THEN Len(sent') ELSE stream'[read + 1].of - 1
            BY <1>15, <2>0, <5>1
          <6> QED
            BY <1>0, <6>1 DEF Starts, Behind
        <5> QED
          BY <5>1, <5>2
      <4>2. InStep'
        BY <1>0, <3>3, <4>1 DEF InStep
      <4> QED
        BY <1>0, <2>2, <4>2 DEF ReaderInv
    <3>4. CASE pc = "length"
      <4>1. LastRead(read, 1 + digits) /\ digits < Digits(Body) /\ Known /\ rem_len = Body % Weight[digits]
        BY <3>2, <3>4 DEF InStep
      <4>2. LastRead(read, 1 + digits)' /\ Reading' = Reading /\ Body' = Body
        BY <1>0, <3>1, <4>1
      <4>3. Digits(Body)' = Digits(Body) /\ (Body % Weight[digits])' = Body % Weight[digits] /\ Known'
        BY <1>0, <4>1, <4>2 DEF Known
      <4>4. InStep'
        BY <1>0, <3>4, <4>1, <4>2, <4>3 DEF InStep
      <4> QED
        BY <1>0, <2>2, <4>4 DEF ReaderInv
    <3>5. CASE pc = "rest"
      <4>1. CASE Measured(read, rem_len)
        <5>1. LastRead(read, 1 + Digits(Body)) /\ Known /\ rem_len = Body
          BY <4>1 DEF Measured
        <5>2. LastRead(read, 1 + Digits(Body))' /\ Reading' = Reading /\ Body' = Body
          BY <1>0, <3>1, <5>1
        <5>3. Measured(read, rem_len)'
          BY <1>0, <5>1, <5>2 DEF Measured, Known
        <5> QED
          BY <1>0, <2>2, <3>5, <5>3 DEF ReaderInv, InStep
      <4>2. CASE Torn(read, rem_len)
        <5>1. PICK at \in 1..(Len(Wire(Reading)) - (rem_len + 1)) : LastRead(read, at)
          BY <4>2 DEF Torn
        <5>2. LastRead(read, at)' /\ Reading' = Reading
          BY <1>0, <3>1, <5>1
        <5>3. Torn(read, rem_len)'
          BY <1>0, <4>2, <5>1, <5>2 DEF Torn
        <5> QED
          BY <1>0, <2>2, <3>5, <5>3 DEF ReaderInv, InStep
      <4> QED
        BY <3>2, <3>5, <4>1, <4>2 DEF InStep
    <3> QED
      BY <1>1, <3>3, <3>4, <3>5 DEF ReaderType
  <2> QED
    BY <2>1, <2>2
<1>18. Stream!Send
  BY <1>0 DEF Stream!Send
<1> QED
  BY <1>10, <1>11, <1>12, <1>13, <1>14, <1>16, <1>17, <1>18, TypesNext DEF IInv, Stream!Next

\* A segment that ends within a packet cuts it.
LEMMA ArriveStep ==
  ASSUME IInv, Arrive
  PROVE  IInv' /\ [Stream!Next]_(Stream!packets)
<1>1. WireType /\ ReaderType /\ HistoryType /\ StreamInv /\ CutInv /\ ReaderInv /\ LengthInv
  BY Types DEF IInv
<1>2. /\ Bytes /\ Len(stream) \in Nat /\ Len(sent) \in Nat /\ read \in Nat /\ arrived \in Nat
      /\ read <= arrived /\ arrived <= Len(stream) /\ DOMAIN stream = 1..Len(stream)
      /\ DOMAIN sent = 1..Len(sent)
  BY <1>1, Counts DEF WireType, HistoryType
<1>3. PICK n \in 1..(Len(stream) - arrived), push \in BOOLEAN :
        /\ arrived' = arrived + n
        /\ pushes' = pushes \cup (IF push THEN {arrived'} ELSE {})
        /\ cut' = cut \cup (IF Starts(arrived' + 1) THEN {} ELSE {stream[arrived' + 1].of})
        /\ UNCHANGED <<stream, read, reader, sent, taken, lost, got>>
  BY DEF Arrive
<1>4. /\ stream' = stream /\ read' = read /\ sent' = sent /\ taken' = taken /\ lost' = lost
      /\ got' = got /\ pc' = pc /\ type' = type /\ rem_len' = rem_len /\ digits' = digits
  BY <1>3 DEF reader
<1>5. arrived' \in 0..Len(stream) /\ arrived' > arrived /\ arrived' \in Nat
  BY <1>2, <1>3
<1>6. WireType'
  <2>1. pushes \subseteq (read + 1)..arrived
    BY <1>1 DEF WireType
  <2>2. (read + 1)..arrived \subseteq (read + 1)..arrived' /\ arrived' \in (read + 1)..arrived'
        /\ read \in 0..arrived'
    BY <1>2, <1>5
  <2>3. pushes' \subseteq (read + 1)..arrived'
    BY <1>3, <2>1, <2>2
  <2> QED
    BY <1>1, <1>4, <1>5, <2>2, <2>3 DEF WireType
<1>7. ReaderType' /\ LengthInv'
  BY <1>1, <1>4 DEF ReaderType, LengthInv
<1>8. StreamInv'
  BY <1>1, <1>4 DEF StreamInv, InPlace, Follows, Total
<1>9. cut' = cut \/ \E i \in 1..Len(sent) : cut' = cut \cup {i}
  <2>1. CASE Starts(arrived' + 1)
    BY <1>3, <2>1
  <2>2. CASE ~ Starts(arrived' + 1)
    <3>1. arrived' + 1 \in 1..Len(stream)
      BY <1>2, <2>2 DEF Starts
    <3>2. stream[arrived' + 1].of \in 1..Len(sent)
      BY <1>1, <1>2, <3>1, ByteIs
    <3> QED
      BY <1>3, <2>2, <3>2
  <2> QED
    BY <2>1, <2>2
<1>10. cut \subseteq cut' /\ cut' \subseteq 1..Len(sent) /\ cut' \subseteq Nat
  <2>1. cut \subseteq 1..Len(sent)
    BY <1>1 DEF CutInv
  <2>2. cut \subseteq cut' /\ cut' \subseteq 1..Len(sent)
    BY <1>9, <2>1
  <2>3. 1..Len(sent) \subseteq Nat
    BY <1>2
  <2> QED
    BY <2>2, <2>3
<1>11. HistoryType'
  BY <1>1, <1>4, <1>10 DEF HistoryType
<1>12. CutInv'
  <2>1. ASSUME NEW r \in pushes' \cup {arrived'} PROVE Whole(r)'
    <3>1. CASE r \in pushes
      <4>1. Whole(r)
        BY <1>1, <3>1 DEF CutInv
      <4> QED
        BY <1>4, <1>10, <4>1 DEF Whole, Starts
    <3>2. CASE r = arrived'
      <4>1. Starts(r + 1) \/ stream[r + 1].of \in cut'
        BY <1>3, <3>2
      <4> QED
        BY <1>4, <4>1 DEF Whole, Starts
    <3> QED
      BY <1>3, <3>1, <3>2
  <2> QED
    BY <1>4, <1>10, <2>1 DEF CutInv
<1>13. ReaderInv'
  <2>1. Behind(read)' = Behind(read) /\ Starts(read + 1)' = Starts(read + 1)
    BY <1>4 DEF Behind, Starts
  <2>2. Reading' = Reading /\ Body' = Body /\ Known' = Known
    BY <1>4 DEF Reading, Body, Known
  <2>3. \A r, at : LastRead(r, at)' = LastRead(r, at)
    BY <1>4 DEF LastRead
  <2>4. Measured(read, rem_len) => Measured(read, rem_len)'
    BY <1>4 DEF Measured, LastRead, Known, Body, Reading
  <2>5. Torn(read, rem_len) => Torn(read, rem_len)'
    BY <1>4, <1>10 DEF Torn, LastRead, Reading
  <2>6. InStep => InStep'
    BY <1>4, <2>1, <2>2, <2>3, <2>4, <2>5 DEF InStep
  <2> QED
    BY <1>1, <1>4, <2>1, <2>6 DEF ReaderInv
<1>14. Stream!Cut \/ UNCHANGED Stream!packets
  BY <1>2, <1>4, <1>9 DEF Stream!Cut, Stream!packets
<1> QED
  BY <1>6, <1>7, <1>8, <1>11, <1>12, <1>13, <1>14, TypesNext DEF IInv, Stream!Next
-----------------------------------------------------------------------------
(* The theorems.                                                           *)

LEMMA InitIInv == Init => IInv /\ Stream!Init
<1> SUFFICES ASSUME Init PROVE IInv /\ Stream!Init
  OBVIOUS
<1>1. /\ stream = <<>> /\ arrived = 0 /\ pushes = {} /\ read = 0
      /\ pc = "header" /\ type = 0 /\ rem_len = 0 /\ digits = 0
      /\ sent = <<>> /\ cut = {} /\ taken = 0 /\ lost = FALSE /\ got = Error
  BY DEF Init
<1>2. Len(stream) = 0 /\ Len(sent) = 0 /\ stream \in Seq(WireByte) /\ sent \in Seq(Packets)
      /\ DOMAIN stream = {}
  BY <1>1
<1>3. WireType
  BY <1>1, <1>2 DEF WireType
<1>4. ReaderType
  BY <1>1, WeightType DEF ReaderType
<1>5. HistoryType
  <2>1. taken \in 0..Len(sent)
    BY <1>1, <1>2
  <2>3. cut \subseteq Nat /\ lost \in BOOLEAN
    BY <1>1
  <2>2. got \in Packet
    BY <1>1, ErrorIs
  <2> QED
    BY <1>2, <2>1, <2>2, <2>3 DEF HistoryType
<1>6. StreamInv /\ CutInv /\ LengthInv
  BY <1>1, <1>2 DEF StreamInv, CutInv, LengthInv, Whole, Starts
<1>7. ReaderInv
  BY <1>1, <1>2 DEF ReaderInv, InStep, Behind, Starts
<1>8. Stream!Init
  BY <1>1 DEF Stream!Init
<1> QED
  BY <1>3, <1>4, <1>5, <1>6, <1>7, <1>8, Types DEF IInv

LEMMA NextIInv == IInv /\ [Next]_vars => IInv' /\ [Stream!Next]_(Stream!packets)
<1> SUFFICES ASSUME IInv, [Next]_vars PROVE IInv' /\ [Stream!Next]_(Stream!packets)
  OBVIOUS
<1>1. CASE MQTTPacket_read
  BY <1>1, HeaderStep, NoHeaderStep, LengthStep, LengthEndsStep, RestStep DEF MQTTPacket_read
<1>2. CASE Arrive
  BY <1>2, ArriveStep
<1>3. CASE \E p \in Packets : Send(p)
  BY <1>3, SendStep
<1>4. CASE UNCHANGED vars
  <2>1. UNCHANGED <<wire, reader, history>>
    BY <1>4 DEF vars
  <2>2. IInv'
    BY <2>1 DEF IInv, TypeOK, StreamInv, InPlace, Follows, Total, CutInv, Whole, Starts, LengthInv,
                ReaderInv, InStep, Behind, Measured, Torn, LastRead, Known, Body, Reading,
                wire, reader, history
  <2>3. UNCHANGED Stream!packets
    BY <2>1 DEF history, Stream!packets
  <2> QED
    BY <2>2, <2>3
<1> QED
  BY <1>1, <1>2, <1>3, <1>4 DEF Next

\* Every state of the reader has its type; what is read of a packet into buf stays
\* within it, whatever a length says, and a length within four digits.
THEOREM PacketTypes == Spec => []TypeOK
<1>1. IInv => TypeOK
  BY DEF IInv
<1> QED
  BY <1>1, InitIInv, NextIInv, PTL DEF Spec

\* The packets that came whole and fit are returned as they were sent, each once and
\* in their order, for every base, buffer and packets: what segments and timeouts do
\* in between is a step of PacketStream.
THEOREM ReadsWhatWasSent == Spec => DeliversPackets
BY InitIInv, NextIInv, PTL DEF Spec, DeliversPackets, Stream!Spec
-----------------------------------------------------------------------------
(* The GPS.                                                                *)

FrameInv == GpsTypeOK /\ RxInv /\ SavedIsWhole

\* The sentences, spelled out.
LEMMA SentenceShape ==
  ASSUME NEW s \in Sentences
  PROVE  /\ Len(s) \in {4, 6} /\ \A i \in 1..Len(s) : s[i] \in Words
         /\ \A i \in 1..Len(s) : s[i] = "$" <=> i = 1
         /\ \A i \in 1..Len(s) : s[i] = "\n" <=> i = Len(s)
         /\ s[3] = "MC" <=> s \in {Fix, NoFix}
         /\ s \in {Fix, NoFix} => Len(s) = 6
<1>1. CASE s = Fix
  <2>1. Len(s) = 6 /\ s[1] = "$" /\ s[2] = "GN" /\ s[3] = "MC" /\ s[4] = "time" /\ s[5] = "A" /\ s[6] = "\n"
    BY <1>1 DEF Fix, Rmc
  <2>2. \A i \in 1..6 : i = 1 \/ i = 2 \/ i = 3 \/ i = 4 \/ i = 5 \/ i = 6
    OBVIOUS
  <2>3. s \in {Fix, NoFix}
    BY <1>1
  <2> QED
    BY <2>1, <2>2, <2>3 DEF Words
<1>2. CASE s = NoFix
  <2>1. Len(s) = 6 /\ s[1] = "$" /\ s[2] = "GN" /\ s[3] = "MC" /\ s[4] = "time" /\ s[5] = "V" /\ s[6] = "\n"
    BY <1>2 DEF NoFix, Rmc
  <2>2. \A i \in 1..6 : i = 1 \/ i = 2 \/ i = 3 \/ i = 4 \/ i = 5 \/ i = 6
    OBVIOUS
  <2>3. s \in {Fix, NoFix}
    BY <1>2
  <2> QED
    BY <2>1, <2>2, <2>3 DEF Words
<1>3. CASE s = Other
  <2>1. Len(s) = 4 /\ s[1] = "$" /\ s[2] = "GN" /\ s[3] = "GGA" /\ s[4] = "\n"
    BY <1>3 DEF Other
  <2>2. \A i \in 1..4 : i = 1 \/ i = 2 \/ i = 3 \/ i = 4
    OBVIOUS
  <2>3. s \notin {Fix, NoFix}
    BY <1>3 DEF Fix, NoFix, Other, Rmc
  <2> QED
    BY <2>1, <2>2, <2>3 DEF Words
<1> QED
  BY <1>1, <1>2, <1>3 DEF Sentences

LEMMA GpsInitInv == GpsInit => FrameInv
<1> SUFFICES ASSUME GpsInit PROVE FrameInv
  OBVIOUS
<1> USE GpsAssumption
<1>0. Len(sentence) \in {4, 6}
  BY SentenceShape DEF GpsInit
<1>r. USART2_RX_BUF \in [0..USART2_REC_LEN -> [what : Words \cup {"0"}, now : BOOLEAN]]
  BY DEF GpsInit, Nothing
<1>g. GPS_Buffer \in [time : BOOLEAN, status : {"A", "V", "none"}]
  BY DEF GpsInit
<1>1. GpsTypeOK
  BY <1>0, <1>r, <1>g DEF GpsInit, GpsTypeOK
<1> QED
  BY <1>1 DEF GpsInit, FrameInv, RxInv, SavedIsWhole

\* A part is received.
LEMMA ReceiveInv ==
  ASSUME FrameInv, next <= Len(sentence), next' = next + 1, sentence' = sentence,
         USART2_IRQHandler(Part(sentence[next])),
         UNCHANGED <<enabled, wait, started>>, losses' = losses
  PROVE  FrameInv'
<1> DEFINE byte == Part(sentence[next])
           at == At(byte)
           n == at + 1
           buf == [i \in DOMAIN USART2_RX_BUF |->
                     IF i = at THEN byte
                     ELSE IF i < at \/ i = 2 THEN USART2_RX_BUF[i] ELSE Nothing]
<1> USE GpsAssumption
<1>s. sentence \in Sentences
  BY DEF FrameInv, GpsTypeOK
<1>l. /\ Len(sentence) \in {4, 6} /\ \A i \in 1..Len(sentence) : sentence[i] \in Words
      /\ \A i \in 1..Len(sentence) : sentence[i] = "$" <=> i = 1
      /\ \A i \in 1..Len(sentence) : sentence[i] = "\n" <=> i = Len(sentence)
      /\ sentence[3] = "MC" <=> sentence \in {Fix, NoFix}
      /\ sentence \in {Fix, NoFix} => Len(sentence) = 6
  BY <1>s, SentenceShape
<1>b. /\ byte \in [what : Words \cup {"0"}, now : BOOLEAN] /\ byte.what = sentence[next]
      /\ next \in 1..Len(sentence)
  BY <1>l DEF FrameInv, GpsTypeOK, Part
<1>a. at \in 0..USART2_REC_LEN /\ (next = 1 => at = 0) /\ (next # 1 => at = point1)
  BY <1>b, <1>l DEF FrameInv, GpsTypeOK, At
<1>c. buf \in [0..USART2_REC_LEN -> [what : Words \cup {"0"}, now : BOOLEAN]]
  BY <1>a, <1>b DEF FrameInv, GpsTypeOK, Nothing
<1>h. /\ missed' = (missed /\ next # 1)
      /\ IF Complete(byte, buf) THEN Save(buf, n) ELSE Store(buf, n)
  BY <1>b, <1>l DEF USART2_IRQHandler
<1>m. ~ missed' => ~ missed \/ next = 1
  BY <1>h
\* As long as nothing was missed, what was received is the sentence up to here.
<1>r. ASSUME ~ missed'
      PROVE  at = next - 1 /\ \A i \in 1..next : buf[i - 1] = Part(sentence[i])
  <2>1. CASE next = 1
    BY <2>1, <1>a, <1>c
  <2>2. CASE next # 1
    <3>1. Received
      BY <2>2, <1>r, <1>m, <1>b, <1>l DEF FrameInv, RxInv, GpsTypeOK
    <3> QED
      BY <3>1, <2>2, <1>a, <1>b, <1>l DEF Received, FrameInv, GpsTypeOK
  <2> QED
    BY <2>1, <2>2
<1>1. CASE Complete(byte, buf)
  <2>1. Save(buf, n)
    BY <1>1, <1>h
  <2>n. next = Len(sentence)
    BY <1>1, <1>b, <1>l DEF Complete
  <2>2. GpsTypeOK'
    BY <2>1, <1>a, <1>b, <1>c, <1>h DEF Save, FrameInv, GpsTypeOK, Nothing
  <2>3. RxInv'
    BY <2>n, <1>l DEF RxInv
  <2>4. SavedIsWhole'
    <3> SUFFICES ASSUME ~ missed' PROVE saved' = "frame"
      BY <2>1 DEF Save, SavedIsWhole
    <3>1. sentence \in {Fix, NoFix} /\ n = 6 /\ Len(sentence) = 6
      <4>1. buf[2] = Part(sentence[3])
        BY <1>r, <1>l, <2>n
      <4>2. sentence[3] = "MC"
        BY <4>1, <1>1 DEF Complete, Part
      <4> QED
        BY <4>2, <1>r, <1>l, <2>n
    <3>2. [i \in 1..n |-> buf[i - 1]] = Sent(sentence)
      BY <3>1, <1>r, <2>n DEF Sent
    <3> QED
      BY <3>1, <3>2, <2>1 DEF Save
  <2> QED
    BY <2>2, <2>3, <2>4 DEF FrameInv
<1>2. CASE ~ Complete(byte, buf)
  <2>1. Store(buf, n)
    BY <1>2, <1>h
  <2>2. GpsTypeOK'
    BY <2>1, <1>a, <1>b, <1>c, <1>h DEF Store, FrameInv, GpsTypeOK
  <2>3. RxInv'
    <3> SUFFICES ASSUME ~ missed' PROVE Received'
      BY DEF RxInv
    <3>0. at = next - 1 /\ \A i \in 1..next : buf[i - 1] = Part(sentence[i])
      BY <1>r
    <3>n. next \in Nat /\ next <= 6
      BY <1>b, <1>l
    <3> HIDE DEF at, buf
    <3>1. n = next /\ n <= USART2_REC_LEN
      BY <3>0, <3>n
    <3>2. point1' = next' - 1
      BY <3>1, <3>n, <2>1 DEF Store
    <3>3. \A i \in 1..(next' - 1) : USART2_RX_BUF'[i - 1] = Part(sentence'[i])
      BY <3>0, <3>n, <2>1 DEF Store
    <3> QED
      BY <3>2, <3>3 DEF Received
  <2> QED
    BY <2>1, <2>2, <2>3 DEF Store, FrameInv, SavedIsWhole
<1> QED
  BY <1>1, <1>2

LEMMA GpsNextInv == FrameInv /\ [GpsNext]_gpsvars => FrameInv'
<1> SUFFICES ASSUME FrameInv, [GpsNext]_gpsvars PROVE FrameInv'
  OBVIOUS
<1> USE GpsAssumption
<1>1. CASE Byte
  <2>1. CASE enabled /\ USART2_IRQHandler(Part(sentence[next])) /\ UNCHANGED losses
    BY <1>1, <2>1, ReceiveInv DEF Byte
  <2>2. CASE Miss
    BY <1>1, <2>2 DEF Byte, Miss, FrameInv, GpsTypeOK, RxInv, SavedIsWhole
  <2> QED
    BY <1>1, <2>1, <2>2 DEF Byte
<1>2. ASSUME NEW s \in Sentences, Choose(s) PROVE FrameInv'
  <2>1. Len(s) \in {4, 6}
    BY SentenceShape
  <2>r. USART2_RX_BUF' \in [0..USART2_REC_LEN -> [what : Words \cup {"0"}, now : BOOLEAN]]
    BY <1>2 DEF Choose, FrameInv, GpsTypeOK
  <2>2. GpsTypeOK'
    BY <1>2, <2>1, <2>r DEF Choose, FrameInv, GpsTypeOK
  <2> QED
    BY <1>2, <2>2 DEF Choose, FrameInv, RxInv, SavedIsWhole
<1>3. CASE Enable
  BY <1>3 DEF Enable, FrameInv, GpsTypeOK, RxInv, Received, SavedIsWhole, gps, receiver
<1>4. CASE Test
  BY <1>4 DEF Test, FrameInv, GpsTypeOK, RxInv, Received, SavedIsWhole, gps, receiver
<1>5. CASE Get
  BY <1>5 DEF Get, FrameInv, GpsTypeOK, RxInv, Received, SavedIsWhole, gps
<1>6. CASE Time
  BY <1>6 DEF Time, FrameInv, GpsTypeOK, RxInv, Received, SavedIsWhole, gps, receiver
<1>7. CASE Status
  BY <1>7 DEF Status, FrameInv, GpsTypeOK, RxInv, Received, SavedIsWhole, gps, receiver
<1>8. CASE Disable
  BY <1>8 DEF Disable, FrameInv, GpsTypeOK, RxInv, Received, SavedIsWhole, gps, receiver
<1>9. CASE Clear
  BY <1>9 DEF Clear, FrameInv, GpsTypeOK, RxInv, Received, SavedIsWhole, gps, receiver
<1>10. CASE UNCHANGED gpsvars
  BY <1>10 DEF gpsvars, FrameInv, GpsTypeOK, RxInv, Received, SavedIsWhole, gps, receiver
<1> QED
  BY <1>1, <1>2, <1>3, <1>4, <1>5, <1>6, <1>7, <1>8, <1>9, <1>10 DEF GpsNext, Waiting

LEMMA GpsInvariance == GpsSpec => []FrameInv
<1> QED
  BY GpsInitInv, GpsNextInv, PTL DEF GpsSpec

\* Every state of the receiver and of the wait has its type; the count stays
\* inside the buffer.
THEOREM GpsTypes == GpsSpec => []GpsTypeOK
<1>1. FrameInv => GpsTypeOK
  BY DEF FrameInv
<1> QED
  BY <1>1, GpsInvariance, PTL

\* Nothing that is saved mixes two sentences or is old, unless a part was missed.
THEOREM FramesAreWhole == GpsSpec => []SavedIsWhole
<1>1. FrameInv => SavedIsWhole
  BY DEF FrameInv
<1> QED
  BY <1>1, GpsInvariance, PTL
=============================================================================
