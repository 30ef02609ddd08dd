---------------------------- MODULE TimersProofs ----------------------------
(***************************************************************************)
(* The list of timeouts for every set of timers, every interval and every  *)
(* length of a tick: no insertion, however late the wait was noticed,      *)
(* loses a timer or lists one twice.  The pool of entries is large enough  *)
(* because a timer's entry is freed before its handler starts it again.    *)
(* And the differences the list stores are the times of an alarm clock.    *)
(***************************************************************************)
EXTENDS Timers, FiniteSetTheorems, SequenceTheorems, WellFoundedInduction, TLAPS

Entry == [h : Handlers, time : Nat]

\* The timers of l are those of S, each once.
Once(l, S) ==
  /\ l \in Seq(Entry)
  /\ \A i, j \in 1..Len(l) : l[i].h = l[j].h => i = j
  /\ \A h : h \in S <=> \E i \in 1..Len(l) : l[i].h = h

Started == {Periodic[i] : i \in 1..Len(next_timeout)}
Needed == {Periodic[i] : i \in DOMAIN Periodic}
            \cup (IF tcpip_tcp_timer_active THEN {tcpip_tcp_timer} ELSE {})

\* While they are started the list is as long as what was started of them;
\* then it holds the timers there should be.
ListInv ==
  /\ pc = "init" => /\ Len(next_timeout) <= Len(Periodic) /\ Once(next_timeout, Started)
                    /\ ~ tcpip_tcp_timer_active /\ ~ pcbs
  /\ pc # "init" => /\ Once(next_timeout, Needed)
                    /\ Len(next_timeout) =
                         Len(Periodic) + (IF tcpip_tcp_timer_active THEN 1 ELSE 0)
                    /\ pcbs => tcpip_tcp_timer_active

IInv == TypeOK /\ ListInv

-----------------------------------------------------------------------------
(* The list.                                                               *)

\* sys_timeout with a free entry (timers.c 266-308) puts one entry behind the first
\* k, with what is left of its time there, and takes that off the next one.
LEMMA Inserted ==
  ASSUME NEW l \in Seq(Entry), NEW h \in Handlers,
         Len(l) < MEMP_NUM_SYS_TIMEOUT, NEW m, sys_timeout(l, h, Interval[h], m)
  PROVE  /\ m \in Seq(Entry) /\ Len(m) = Len(l) + 1
         /\ \E k \in 0..Len(l), rest \in 0..Interval[h] :
              /\ rest = Interval[h] - Due(l)[k]
              /\ \A i \in 1..Len(m) :
                   m[i].h = IF i <= k THEN l[i].h ELSE IF i = k + 1 THEN h ELSE l[i - 1].h
              /\ \A i \in 1..Len(m) :
                   m[i].time = IF i <= k THEN l[i].time
                               ELSE IF i = k + 1 THEN rest
                               ELSE l[i - 1].time - (IF i = k + 2 THEN rest ELSE 0)
<1>1. l \in Seq(Entry) /\ Len(l) \in Nat
  OBVIOUS
<1>2. PICK k \in 0..Len(l), rest \in 0..Interval[h] :
        /\ rest = Interval[h] - Due(l)[k]
        /\ k < Len(l) => l[k + 1].time > rest
        /\ m = SubSeq(l, 1, k) \o <<[h |-> h, time |-> rest]>>
                 \o [i \in 1..(Len(l) - k) |->
                       IF i = 1 THEN [l[k + 1] EXCEPT !.time = @ - rest] ELSE l[k + i]]
  <2>1. ~ (Len(l) >= MEMP_NUM_SYS_TIMEOUT)
    BY <1>1, ConstantsAssumption
  <2> QED
    BY <2>1, Zenon DEF sys_timeout
<1> DEFINE e == [h |-> h, time |-> rest]
           a == SubSeq(l, 1, k)
           c == [i \in 1..(Len(l) - k) |->
                   IF i = 1 THEN [l[k + 1] EXCEPT !.time = @ - rest] ELSE l[k + i]]
<1>3. Interval[h] \in Nat /\ k \in Nat /\ rest \in Nat /\ e \in Entry
  <2>1. Interval[h] \in Nat
    BY ConstantsAssumption
  <2> QED
    BY <1>1, <2>1 DEF Entry
<1>4. \A i \in 1..Len(l) : l[i] \in Entry
  BY <1>1
<1>5. a \in Seq(Entry) /\ Len(a) = k /\ \A i \in 1..k : a[i] = l[i]
  BY <1>1, <1>3, <1>4, SubSeqProperties
<1>6. /\ c \in Seq(Entry) /\ Len(c) = Len(l) - k
      /\ \A i \in 1..(Len(l) - k) :
           c[i].h = l[k + i].h
           /\ c[i].time = l[k + i].time - (IF i = 1 THEN rest ELSE 0)
  <2>1. ASSUME NEW i \in 1..(Len(l) - k)
        PROVE  /\ c[i] \in Entry /\ c[i].h = l[k + i].h
               /\ c[i].time = l[k + i].time - (IF i = 1 THEN rest ELSE 0)
    <3>1. l[k + i] \in Entry /\ k + i \in 1..Len(l)
      BY <1>1, <1>3, <1>4
    <3>2. CASE i = 1
      <4>1. l[k + 1] \in [h : Handlers, time : Nat] /\ l[k + 1].time - rest \in Nat
        <5>1. k < Len(l) /\ l[k + 1] \in Entry
          BY <1>1, <1>3, <3>1, <3>2
        <5>2. l[k + 1].time > rest
          BY <1>2, <5>1
        <5>3. l[k + 1].time \in Nat /\ rest \in Nat
          BY <1>3, <5>1 DEF Entry
        <5>4. l[k + 1].time - rest \in Nat
          BY <5>2, <5>3
        <5> QED
          BY <5>1, <5>4 DEF Entry
      <4>2. c[i] = [l[k + 1] EXCEPT !.time = @ - rest]
        BY <3>2
      <4> QED
        BY <3>2, <4>1, <4>2 DEF Entry
    <3>3. CASE i # 1
      <4>1. c[i] = l[k + i] /\ l[k + i].time \in Nat
        BY <3>1, <3>3 DEF Entry
      <4> QED
        BY <3>1, <3>3, <4>1
    <3> QED
      BY <3>2, <3>3
  <2>2. Len(l) - k \in Nat
    BY <1>1, <1>3
  <2>3. c \in [1..(Len(l) - k) -> Entry]
    BY <2>1
  <2> HIDE DEF c
  <2> QED
    BY <2>1, <2>2, <2>3
<1>7. <<e>> \in Seq(Entry) /\ Len(<<e>>) = 1 /\ <<e>>[1] = e
  BY <1>3
<1> HIDE DEF a, c, e
<1>8. /\ a \o <<e>> \in Seq(Entry) /\ Len(a \o <<e>>) = k + 1
      /\ \A i \in 1..(k + 1) : (a \o <<e>>)[i] = IF i <= k THEN l[i] ELSE e
  BY <1>3, <1>5, <1>7, ConcatProperties
<1>9. m = (a \o <<e>>) \o c
  BY <1>2 DEF a, c, e
<1>10. /\ m \in Seq(Entry) /\ Len(m) = Len(l) + 1
       /\ \A i \in 1..Len(m) :
            m[i] = IF i <= k + 1 THEN (a \o <<e>>)[i] ELSE c[i - (k + 1)]
  BY <1>1, <1>3, <1>6, <1>8, <1>9, ConcatProperties
<1>11. ASSUME NEW i \in 1..Len(m)
       PROVE  /\ i <= k => m[i] = l[i]
              /\ i = k + 1 => m[i].h = h /\ m[i].time = rest
              /\ i > k + 1 => /\ m[i].h = l[i - 1].h
                              /\ m[i].time = l[i - 1].time - (IF i = k + 2 THEN rest ELSE 0)
  <2>1. CASE i <= k
    <3>1. i \in 1..(k + 1) /\ i <= k + 1 /\ ~(i > k + 1) /\ i # k + 1
      BY <1>3, <2>1
    <3>2. m[i] = (a \o <<e>>)[i]
      BY <1>10, <3>1
    <3>3. (a \o <<e>>)[i] = l[i]
      BY <1>8, <2>1, <3>1
    <3> QED
      BY <3>1, <3>2, <3>3
  <2>2. CASE i = k + 1
    <3>1. k + 1 \in 1..(k + 1) /\ ~(k + 1 <= k) /\ ~(k + 1 > k + 1) /\ k + 1 <= k + 1
      BY <1>3
    <3>2. m[i] = e
      BY <1>8, <1>10, <2>2, <3>1
    <3> QED
      BY <2>2, <3>1, <3>2 DEF e
  <2>3. CASE i > k + 1
    <3> DEFINE j == i - (k + 1)
    <3>1. j \in 1..(Len(l) - k) /\ k + j = i - 1 /\ (j = 1 <=> i = k + 2)
          /\ ~(i <= k + 1) /\ ~(i <= k) /\ i # k + 1
      BY <1>1, <1>3, <1>10, <2>3
    <3>2. m[i] = c[j]
      BY <1>10, <3>1
    <3> HIDE DEF j
    <3> QED
      BY <1>6, <3>1, <3>2
  <2> QED
    BY <1>3, <2>1, <2>2, <2>3
<1>12. \A i \in 1..Len(m) : i <= k \/ i = k + 1 \/ i > k + 1
  BY <1>3
<1>13. \A i \in 1..Len(m) : ~(i <= k /\ i = k + 1) /\ ~(i <= k /\ i > k + 1)
                            /\ ~(i = k + 1 /\ i > k + 1)
  BY <1>3
<1>14. \A i \in 1..Len(m) :
         m[i].h = IF i <= k THEN l[i].h ELSE IF i = k + 1 THEN h ELSE l[i - 1].h
  BY <1>11, <1>12, <1>13
<1>15. \A i \in 1..Len(m) :
         m[i].time = IF i <= k THEN l[i].time
                     ELSE IF i = k + 1 THEN rest
                     ELSE l[i - 1].time - (IF i = k + 2 THEN rest ELSE 0)
  BY <1>11, <1>12, <1>13
<1> QED
  BY <1>2, <1>10, <1>14, <1>15

\* The entry is a new timer, and the others are still there.
LEMMA Insert ==
  ASSUME NEW l, NEW S \in SUBSET Handlers, Once(l, S), NEW h \in Handlers, h \notin S,
         Len(l) < MEMP_NUM_SYS_TIMEOUT, NEW m, sys_timeout(l, h, Interval[h], m)
  PROVE  Once(m, S \cup {h}) /\ Len(m) = Len(l) + 1
<1>1. l \in Seq(Entry) /\ Len(l) \in Nat
  BY DEF Once
<1>10. m \in Seq(Entry) /\ Len(m) = Len(l) + 1
  BY <1>1, Inserted
<1>11. PICK k \in 0..Len(l) :
         \A i \in 1..Len(m) :
           m[i].h = IF i <= k THEN l[i].h ELSE IF i = k + 1 THEN h ELSE l[i - 1].h
  BY <1>1, Inserted
<1>12. /\ \A i \in 1..Len(l) : l[i].h \in S /\ l[i].h # h
       /\ \A i, j \in 1..Len(l) : l[i].h = l[j].h => i = j
       /\ \A g \in S : \E i \in 1..Len(l) : l[i].h = g
  BY DEF Once
<1> DEFINE n == Len(l)
<1>13. n \in Nat /\ k \in 0..n /\ Len(m) = n + 1
  BY <1>1, <1>10
<1>14. /\ \A i \in 1..k : m[i].h = l[i].h
       /\ m[k + 1].h = h
       /\ \A i \in (k + 1)..n : m[i + 1].h = l[i].h
  BY <1>11, <1>13
<1> HIDE DEF n
<1>15. \A i \in 1..(n + 1) : i \in 1..k \/ i = k + 1 \/ i - 1 \in (k + 1)..n
  BY <1>13
<1>16. \A i \in 1..n : l[i].h \in S /\ l[i].h # h
  BY <1>12 DEF n
<1>17. \A i, j \in 1..n : l[i].h = l[j].h => i = j
  BY <1>12 DEF n
<1>18. \A i \in 1..(n + 1) : i # k + 1 => m[i].h \in S /\ m[i].h # h
  BY <1>11, <1>13, <1>16
<1>19. \A i, j \in 1..(n + 1) : m[i].h = m[j].h => i = j
  <2> SUFFICES ASSUME NEW i \in 1..(n + 1), NEW j \in 1..(n + 1), m[i].h = m[j].h
               PROVE  i = j
    OBVIOUS
  <2>1. CASE i = k + 1 \/ j = k + 1
    BY <1>14, <1>18, <2>1
  <2>2. CASE i # k + 1 /\ j # k + 1
    <3> DEFINE p(x) == IF x <= k THEN x ELSE x - 1
    <3>1. p(i) \in 1..n /\ p(j) \in 1..n /\ (p(i) = p(j) => i = j)
      BY <1>13, <2>2
    <3>2. m[i].h = l[p(i)].h /\ m[j].h = l[p(j)].h
      BY <1>11, <1>13, <2>2
    <3> HIDE DEF p
    <3> QED
      BY <1>17, <3>1, <3>2
  <2> QED
    BY <2>1, <2>2
<1>20. ASSUME NEW g \in S PROVE \E i \in 1..(n + 1) : m[i].h = g
  <2>1. PICK i \in 1..n : l[i].h = g
    BY <1>12 DEF n
  <2>2. CASE i <= k
    BY <1>13, <1>14, <2>1, <2>2
  <2>3. CASE i > k
    <3>1. i \in (k + 1)..n /\ i + 1 \in 1..(n + 1)
      BY <1>13, <2>3
    <3>2. m[i + 1].h = g
      BY <1>14, <2>1, <3>1
    <3> QED
      BY <3>1, <3>2
  <2> QED
    BY <1>13, <2>2, <2>3
<1>21. \A g : g \in S \cup {h} <=> \E i \in 1..(n + 1) : m[i].h = g
  <2>1. k + 1 \in 1..(n + 1)
    BY <1>13
  <2>2. \A i \in 1..(n + 1) : m[i].h \in S \cup {h}
    BY <1>14, <1>18
  <2> QED
    BY <1>14, <1>20, <2>1, <2>2
<1> QED
  BY <1>10, <1>13, <1>19, <1>21 DEF Once, n

\* Taking the first timeout off the list (timers.c 444-445) takes its timer.
LEMMA TakeFirst ==
  ASSUME NEW l, NEW S, Once(l, S), l # <<>>
  PROVE  /\ Once(Tail(l), S \ {Head(l).h}) /\ Len(Tail(l)) = Len(l) - 1
         /\ Head(l).h \in S
<1>1. l \in Seq(Entry) /\ Len(l) \in Nat \ {0} /\ Head(l) = l[1]
  BY EmptySeq DEF Once
<1>2. /\ Tail(l) \in Seq(Entry) /\ Len(Tail(l)) = Len(l) - 1
      /\ \A i \in 1..(Len(l) - 1) : Tail(l)[i] = l[i + 1]
  BY <1>1, HeadTailProperties
<1>3. Head(l).h \in S
  BY <1>1 DEF Once
<1>4. ASSUME NEW i \in 1..Len(Tail(l)), NEW j \in 1..Len(Tail(l)),
             Tail(l)[i].h = Tail(l)[j].h
      PROVE  i = j
  BY <1>1, <1>2, <1>4 DEF Once
<1>5. ASSUME NEW g \in S, g # Head(l).h PROVE \E i \in 1..Len(Tail(l)) : Tail(l)[i].h = g
  <2>1. PICK j \in 1..Len(l) : l[j].h = g
    BY DEF Once
  <2>2. j - 1 \in 1..Len(Tail(l)) /\ Tail(l)[j - 1].h = g
    BY <1>1, <1>2, <1>5, <2>1
  <2> QED
    BY <2>2
<1>6. ASSUME NEW i \in 1..Len(Tail(l)) PROVE Tail(l)[i].h \in S \ {Head(l).h}
  <2>1. i + 1 \in 1..Len(l) /\ Tail(l)[i] = l[i + 1]
    BY <1>1, <1>2
  <2>2. l[i + 1].h # l[1].h
    BY <1>1, <2>1 DEF Once
  <2> QED
    BY <1>1, <2>1, <2>2 DEF Once
<1> QED
  BY <1>2, <1>3, <1>4, <1>5, <1>6 DEF Once

\* The wait shortens the first timeout (timers.c 470-474) and moves none.
LEMMA Shorten ==
  ASSUME NEW l, NEW S, Once(l, S), NEW r \in Nat,
         NEW m, m = [l EXCEPT ![1].time = r]
  PROVE  Once(m, S) /\ Len(m) = Len(l)
<1>1. l \in Seq(Entry) /\ Len(l) \in Nat /\ l \in [1..Len(l) -> Entry]
  BY DEF Once
<1>2. m \in [1..Len(l) -> Entry] /\ \A i \in 1..Len(l) : m[i].h = l[i].h
  <2>1. ASSUME NEW i \in 1..Len(l)
        PROVE  m[i] \in Entry /\ m[i].h = l[i].h
    <3>1. l[i] \in [h : Handlers, time : Nat]
      BY <1>1 DEF Entry
    <3>2. CASE i = 1
      <4>1. m[i] = [l[i] EXCEPT !.time = r]
        BY <1>1, <3>2
      <4> QED
        BY <3>1, <4>1 DEF Entry
    <3>3. CASE i # 1
      BY <1>1, <3>1, <3>3 DEF Entry
    <3> QED
      BY <3>2, <3>3
  <2>2. DOMAIN m = 1..Len(l) /\ m = [i \in 1..Len(l) |-> m[i]]
    BY <1>1
  <2> QED
    BY <2>1, <2>2
<1>3. m \in Seq(Entry) /\ Len(m) = Len(l)
  BY <1>1, <1>2
<1> QED
  BY <1>2, <1>3 DEF Once
-----------------------------------------------------------------------------
(* The time of an entry.  Due is a recursive function; what it computes is      *)
(* proved by induction over the list, which a set that contains 0 and, with     *)
(* every number below n, the next one stands for.                               *)

\* Every set of numbers that is not empty has a least element.
LEMMA LeastNumber ==
  ASSUME NEW T \in SUBSET Nat, T # {}
  PROVE  \E m \in T : \A k \in T : m <= k
<1>1. IsWellFoundedOn(OpToRel(<, Nat), Nat)
  BY NatLessThanWellFounded, Zenon
<1>2. PICK m \in T : \A k \in T : <<k, m>> \notin OpToRel(<, Nat)
  BY <1>1, WFMin, Zenon
<1>3. \A k \in T : ~(k < m)
  BY <1>2 DEF OpToRel
<1> QED
  BY <1>3

\* A set that contains 0 and never stops before n contains 0..n.
LEMMA Reaches ==
  ASSUME NEW n \in Nat, NEW G, 0 \in G, \A k \in 0..(n - 1) : k \in G => k + 1 \in G
  PROVE  \A k \in 0..n : k \in G
<1> DEFINE Missed == (0..n) \ G
<1>1. Missed = {}
  <2> SUFFICES ASSUME Missed # {} PROVE FALSE
    OBVIOUS
  <2>1. PICK k \in Missed : \A j \in Missed : k <= j
    <3>1. Missed \in SUBSET Nat
      OBVIOUS
    <3> QED
      BY <3>1, LeastNumber
  <2>2. k \in 0..n /\ k \notin G /\ k # 0
    BY <2>1
  <2>3. k - 1 \in 0..(n - 1) /\ ~(k <= k - 1) /\ (k - 1) + 1 = k
    BY <2>2
  <2>4. k - 1 \in 0..n
    BY <2>2
  <2>5. k - 1 \in G
    BY <2>1, <2>3, <2>4
  <2> QED
    BY <2>2, <2>3, <2>5
<1> QED
  BY <1>1

\* What due adds up at the entry k, when it added up due[k - 1] at the one before.
Adds(l, due, k) == IF k = 0 THEN 0 ELSE due[k - 1] + l[k].time

\* Due is the function its equation says.
LEMMA DueIs ==
  ASSUME NEW l, Len(l) \in Nat
  PROVE  Due(l) = [k \in 0..Len(l) |-> Adds(l, Due(l), k)]
<1> DEFINE Solved(n) == \E g : g = [k \in 0..n |-> Adds(l, g, k)]
           G == {n \in Nat : Solved(n)}
<1>1. 0 \in G
  <2> DEFINE g == [k \in 0..0 |-> 0]
  <2>1. \A k \in 0..0 : Adds(l, g, k) = 0
    BY DEF Adds
  <2>2. g = [k \in 0..0 |-> Adds(l, g, k)]
    BY <2>1
  <2> QED
    BY <2>2
<1>2. ASSUME NEW n \in 0..(Len(l) - 1), n \in G
      PROVE  n + 1 \in G
  <2>1. PICK g : g = [k \in 0..n |-> Adds(l, g, k)]
    BY <1>2
  <2> DEFINE h == [k \in 0..(n + 1) |-> IF k = n + 1 THEN Adds(l, g, k) ELSE g[k]]
  <2>2. ASSUME NEW k \in 0..(n + 1) PROVE h[k] = Adds(l, h, k)
    <3>1. Adds(l, h, k) = Adds(l, g, k)
      <4>1. CASE k = 0
        BY <4>1 DEF Adds
      <4>2. CASE k # 0
        <5>1. k - 1 \in 0..(n + 1) /\ k - 1 # n + 1
          BY <4>2
        <5>2. h[k - 1] = g[k - 1]
          BY <5>1
        <5> QED
          BY <5>2 DEF Adds
      <4> QED
        BY <4>1, <4>2
    <3>2. h[k] = Adds(l, g, k)
      <4>1. CASE k = n + 1
        BY <4>1
      <4>2. CASE k # n + 1
        <5>1. k \in 0..n
          BY <4>2
        <5>2. g[k] = Adds(l, g, k)
          BY <2>1, <5>1
        <5> QED
          BY <4>2, <5>2
      <4> QED
        BY <4>1, <4>2
    <3> QED
      BY <3>1, <3>2
  <2>3. h = [k \in 0..(n + 1) |-> Adds(l, h, k)]
    BY <2>2
  <2> HIDE DEF h
  <2>4. Solved(n + 1)
    BY <2>3
  <2> QED
    BY <2>4
<1> HIDE DEF G
<1>3. \A n \in 0..Len(l) : n \in G
  BY <1>1, <1>2, Reaches
<1>4. Solved(Len(l))
  BY <1>3 DEF G
<1>5. PICK g : g = [k \in 0..Len(l) |-> Adds(l, g, k)]
  BY <1>4
<1> QED
  BY <1>5 DEF Due, Adds

LEMMA DueSteps ==
  ASSUME NEW l, Len(l) \in Nat
  PROVE  /\ Due(l)[0] = 0
         /\ \A k \in 1..Len(l) : Due(l)[k] = Due(l)[k - 1] + l[k].time
<1>1. \A k \in 0..Len(l) : Due(l)[k] = Adds(l, Due(l), k)
  <2> DEFINE d == Due(l)
  <2>1. d = [k \in 0..Len(l) |-> Adds(l, d, k)]
    BY DueIs
  <2> HIDE DEF d
  <2>2. \A k \in 0..Len(l) : d[k] = Adds(l, d, k)
    BY <2>1
  <2> QED
    BY <2>2 DEF d
<1> QED
  BY <1>1 DEF Adds

LEMMA Times ==
  ASSUME NEW l \in Seq(Entry)
  PROVE  Len(l) \in Nat /\ \A k \in 1..Len(l) : l[k].time \in Nat /\ l[k].h \in Handlers
<1>1. \A k \in 1..Len(l) : l[k] \in Entry
  OBVIOUS
<1> QED
  BY <1>1 DEF Entry

\* Times only grow along the list.
LEMMA DueGrows ==
  ASSUME NEW l \in Seq(Entry)
  PROVE  /\ \A k \in 0..Len(l) : Due(l)[k] \in Nat
         /\ \A k \in 1..Len(l) : Due(l)[1] <= Due(l)[k]
<1>1. Len(l) \in Nat /\ \A k \in 1..Len(l) : l[k].time \in Nat
  BY Times
<1> DEFINE d == Due(l)
<1>2. d[0] = 0 /\ \A k \in 1..Len(l) : d[k] = d[k - 1] + l[k].time
  BY <1>1, DueSteps
<1> HIDE DEF d
<1> DEFINE G == {k \in Nat : d[k] \in Nat /\ (k >= 1 => d[1] <= d[k])}
<1>3. 0 \in G
  BY <1>2
<1>4. ASSUME NEW k \in 0..(Len(l) - 1), k \in G PROVE k + 1 \in G
  <2>1. d[k + 1] = d[k] + l[k + 1].time /\ l[k + 1].time \in Nat
    <3>1. k + 1 \in 1..Len(l) /\ (k + 1) - 1 = k
      BY <1>1
    <3> QED
      BY <1>1, <1>2, <3>1
  <2>2. d[k] \in Nat /\ (k >= 1 => d[1] <= d[k])
    BY <1>4
  <2>3. d[k + 1] \in Nat
    BY <2>1, <2>2
  <2>4. CASE k = 0
    BY <2>3, <2>4
  <2>5. CASE k >= 1
    <3>1. d[1] <= d[k] /\ d[k] <= d[k + 1] /\ d[1] \in Int
      BY <1>1, <1>2, <2>1, <2>2, <2>5
    <3> QED
      BY <2>2, <2>3, <3>1
  <2> QED
    BY <2>4, <2>5
<1> HIDE DEF G
<1>5. \A k \in 0..Len(l) : k \in G
  BY <1>1, <1>3, <1>4, Reaches
<1> QED
  BY <1>1, <1>5 DEF G, d

\* The n entries of l behind the first s, and those of m behind the first t.
SameTimes(l, s, m, t, n) == \A i \in 1..n : l[s + i].time = m[t + i].time
SameShift(l, s, m, t, n) ==
  \A i \in 0..n : Due(l)[s + i] - Due(l)[s] = Due(m)[t + i] - Due(m)[t]

\* Where two lists have the same differences, their times differ by the same.
LEMMA DueShift ==
  ASSUME NEW l \in Seq(Entry), NEW m \in Seq(Entry), NEW s \in 0..Len(l), NEW t \in 0..Len(m),
         NEW n \in Nat, s + n <= Len(l), t + n <= Len(m), SameTimes(l, s, m, t, n)
  PROVE  SameShift(l, s, m, t, n)
<1> DEFINE d == Due(l)
           e == Due(m)
           G == {i \in 0..n : d[s + i] - d[s] = e[t + i] - e[t]}
<1>1. Len(l) \in Nat /\ Len(m) \in Nat
  OBVIOUS
<1>0. \A i \in 1..n : l[s + i].time = m[t + i].time
  BY DEF SameTimes
<1>2. /\ \A k \in 0..Len(l) : d[k] \in Nat
      /\ \A k \in 0..Len(m) : e[k] \in Nat
      /\ \A k \in 1..Len(l) : d[k] = d[k - 1] + l[k].time
      /\ \A k \in 1..Len(m) : e[k] = e[k - 1] + m[k].time
  BY <1>1, DueSteps, DueGrows
<1> HIDE DEF d, e
<1>3. 0 \in G
  BY <1>1, <1>2
<1>4. ASSUME NEW i \in 0..(n - 1), i \in G PROVE i + 1 \in G
  <2>1. /\ s + (i + 1) \in 1..Len(l) /\ (s + (i + 1)) - 1 = s + i
        /\ t + (i + 1) \in 1..Len(m) /\ (t + (i + 1)) - 1 = t + i
        /\ s + i \in 0..Len(l) /\ t + i \in 0..Len(m) /\ i + 1 \in 1..n
    BY <1>1
  <2> DEFINE x == l[s + (i + 1)].time
  <2>2. d[s + (i + 1)] = d[s + i] + x
    BY <1>2, <2>1
  <2>3. e[t + (i + 1)] = e[t + i] + x
    BY <1>0, <1>2, <2>1
  <2>4. d[s + (i + 1)] \in Nat /\ e[t + (i + 1)] \in Nat
        /\ d[s + i] \in Nat /\ e[t + i] \in Nat /\ d[s] \in Nat /\ e[t] \in Nat
    BY <1>1, <1>2, <2>1
  <2>5. d[s + i] - d[s] = e[t + i] - e[t]
    BY <1>4
  <2> HIDE DEF x
  <2>6. x \in Int
    BY <2>1, Times DEF x
  <2>7. d[s + (i + 1)] - d[s] = e[t + (i + 1)] - e[t]
    <3> DEFINE a == d[s + i]
               b == d[s]
               u == e[t + i]
               v == e[t]
    <3>1. a \in Int /\ b \in Int /\ u \in Int /\ v \in Int /\ a - b = u - v
      BY <2>4, <2>5
    <3>2. d[s + (i + 1)] = a + x /\ e[t + (i + 1)] = u + x
      BY <2>2, <2>3
    <3> HIDE DEF a, b, u, v
    <3>3. (a + x) - b = (u + x) - v
      BY <2>6, <3>1
    <3> QED
      BY <3>2, <3>3 DEF b, v
  <2> QED
    BY <2>1, <2>7
<1> HIDE DEF G
<1>5. \A i \in 0..n : i \in G
  BY <1>3, <1>4, Reaches
<1> QED
  BY <1>5 DEF G, d, e, SameShift
-----------------------------------------------------------------------------
(* The invariant.                                                          *)

\* There is an entry for a timer that is started: an init that is not done has
\* fewer, and a handler that starts itself again was taken off first.
LEMMA RoomForOne ==
  ASSUME NEW n \in Nat, n <= Len(Periodic)
  PROVE  n < MEMP_NUM_SYS_TIMEOUT
BY ConstantsAssumption

LEMMA PeriodicHandlers ==
  /\ Len(Periodic) \in Nat /\ DOMAIN Periodic = 1..Len(Periodic)
  /\ tcpip_tcp_timer \in Handlers /\ {Periodic[i] : i \in DOMAIN Periodic} \in SUBSET Handlers
  /\ \A i \in DOMAIN Periodic : Periodic[i] # tcpip_tcp_timer
  /\ Interval \in [Handlers -> Nat]
BY ConstantsAssumption DEF Handlers

LEMMA InitKeeps ==
  ASSUME IInv, sys_timeouts_init
  PROVE  ListInv'
<1>1. /\ Len(next_timeout) <= Len(Periodic) /\ Once(next_timeout, Started) /\ pc = "init"
      /\ ~ tcpip_tcp_timer_active /\ ~ pcbs /\ ~ tcpip_tcp_timer_active' /\ ~ pcbs'
  BY DEF IInv, ListInv, sys_timeouts_init
<1>2. Len(next_timeout) \in Nat
  BY <1>1 DEF Once
<1>3. CASE Len(next_timeout) < Len(Periodic)
  <2> DEFINE n == Len(next_timeout) + 1
             h == Periodic[n]
  <2>1. sys_timeout(next_timeout, h, Interval[h], next_timeout') /\ pc' = "init"
    BY <1>1, <1>3 DEF sys_timeouts_init, Start
  <2>2. n \in 1..Len(Periodic) /\ h \in Handlers
    BY <1>2, <1>3, PeriodicHandlers
  <2>3. Started \in SUBSET Handlers /\ h \notin Started
    <3>1. \A i, j \in 1..Len(Periodic) : Periodic[i] = Periodic[j] => i = j
      BY PeriodicHandlers, ConstantsAssumption
    <3>2. \A i \in 1..Len(next_timeout) : i \in 1..Len(Periodic) /\ i # n
      BY <1>2, <1>3, PeriodicHandlers
    <3>3. Started \in SUBSET Handlers
      BY <3>2, PeriodicHandlers DEF Started
    <3> HIDE DEF n
    <3>4. h \notin Started
      BY <2>2, <3>1, <3>2 DEF Started
    <3> QED
      BY <3>3, <3>4
  <2>4. Len(next_timeout) < MEMP_NUM_SYS_TIMEOUT
    BY <1>1, <1>2, RoomForOne
  <2> HIDE DEF h
  <2>5. Once(next_timeout', Started \cup {h}) /\ Len(next_timeout') = n
    BY <1>1, <2>1, <2>2, <2>3, <2>4, Insert
  <2>6. Started' = Started \cup {h}
    BY <1>2, <2>5 DEF Started, h
  <2> QED
    BY <1>1, <1>2, <2>1, <2>2, <2>5, <2>6 DEF ListInv
<1>4. CASE ~ (Len(next_timeout) < Len(Periodic))
  <2>1. pc' = "again" /\ next_timeout' = next_timeout
    BY <1>4 DEF sys_timeouts_init
  <2>2. Len(next_timeout) = Len(Periodic)
    BY <1>1, <1>2, <1>4, PeriodicHandlers
  <2>3. Needed' = Started
    BY <1>1, <2>2, PeriodicHandlers DEF Started, Needed
  <2> QED
    BY <1>1, <2>1, <2>2, <2>3, PeriodicHandlers DEF ListInv
<1> QED
  BY <1>3, <1>4

LEMMA FireKeeps ==
  ASSUME IInv, Fire
  PROVE  ListInv'
<1> DEFINE h == Head(next_timeout).h
           rest == Tail(next_timeout)
<1>1. /\ Once(next_timeout, Needed) /\ next_timeout # <<>> /\ pc' = "again"
      /\ Len(next_timeout) = Len(Periodic) + (IF tcpip_tcp_timer_active THEN 1 ELSE 0)
      /\ pcbs => tcpip_tcp_timer_active
      /\ tcpip_tcp_timer_active \in BOOLEAN /\ pcbs \in BOOLEAN
  BY DEF IInv, ListInv, Fire, TypeOK
<1>2. Once(rest, Needed \ {h}) /\ Len(rest) = Len(next_timeout) - 1 /\ h \in Needed
  BY <1>1, TakeFirst
<1>3. Needed \in SUBSET Handlers /\ Needed \ {h} \in SUBSET Handlers
  BY PeriodicHandlers DEF Needed
<1>4. Len(rest) \in Nat /\ Len(rest) <= Len(Periodic)
  BY <1>1, <1>2, PeriodicHandlers DEF Once
<1>5. Len(rest) < MEMP_NUM_SYS_TIMEOUT
  BY <1>4, RoomForOne
<1>6. ASSUME Start(h, rest)
      PROVE  Once(next_timeout', Needed) /\ Len(next_timeout') = Len(next_timeout)
  <2>1. sys_timeout(rest, h, Interval[h], next_timeout')
    BY <1>6 DEF Start
  <2>2. h \in Handlers /\ h \notin Needed \ {h} /\ (Needed \ {h}) \cup {h} = Needed
    BY <1>2, <1>3
  <2>3. Once(next_timeout', (Needed \ {h}) \cup {h}) /\ Len(next_timeout') = Len(rest) + 1
    <3> HIDE DEF h, rest
    <3> QED
      BY <1>2, <1>3, <1>5, <2>1, <2>2, Insert
  <2>4. Len(next_timeout) \in Nat
    BY <1>1 DEF Once
  <2>5. Len(next_timeout') = Len(next_timeout)
    BY <1>2, <2>3, <2>4
  <2> QED
    BY <2>2, <2>3, <2>5
<1>7. CASE h = tcpip_tcp_timer
  <2>1. /\ pcbs' \in {pcbs, FALSE} /\ tcpip_tcp_timer_active' = pcbs'
        /\ IF pcbs' THEN Start(h, rest) ELSE next_timeout' = rest
    BY <1>7 DEF Fire
  <2>2. tcpip_tcp_timer_active
    BY <1>2, <1>7, PeriodicHandlers DEF Needed
  <2>3. CASE pcbs'
    <3>1. Needed' = Needed /\ tcpip_tcp_timer_active'
      BY <2>1, <2>2, <2>3 DEF Needed
    <3> QED
      BY <1>1, <1>6, <2>1, <2>2, <2>3, <3>1 DEF ListInv
  <2>4. CASE ~ pcbs'
    <3>1. Needed' = Needed \ {h} /\ ~ tcpip_tcp_timer_active'
      BY <1>7, <2>1, <2>2, <2>4, PeriodicHandlers DEF Needed
    <3>2. next_timeout' = rest
      BY <2>1, <2>4
    <3>3. Len(rest) = Len(Periodic)
      BY <1>1, <1>2, <2>2, PeriodicHandlers
    <3>4. Once(next_timeout', Needed') /\ Len(next_timeout') = Len(Periodic)
      BY <1>2, <3>1, <3>2, <3>3
    <3> QED
      BY <1>1, <2>4, <3>1, <3>4, PeriodicHandlers DEF ListInv
  <2> QED
    BY <2>3, <2>4
<1>8. CASE h # tcpip_tcp_timer
  <2>1. Start(h, rest) /\ pcbs' = pcbs /\ tcpip_tcp_timer_active' = tcpip_tcp_timer_active
    BY <1>8 DEF Fire
  <2>2. Needed' = Needed
    BY <2>1 DEF Needed
  <2> QED
    BY <1>1, <1>6, <2>1, <2>2 DEF ListInv
<1> QED
  BY <1>7, <1>8

LEMMA HandleMsgKeeps ==
  ASSUME IInv, HandleMsg
  PROVE  ListInv'
<1>1. /\ Once(next_timeout, Needed) /\ pc' = "again"
      /\ Len(next_timeout) = Len(Periodic) + (IF tcpip_tcp_timer_active THEN 1 ELSE 0)
      /\ pcbs => tcpip_tcp_timer_active
  BY DEF IInv, ListInv, HandleMsg
<1>2. CASE tcp_timer_needed /\ pcbs' /\ ~ tcpip_tcp_timer_active
  <2>1. /\ tcpip_tcp_timer_active'
        /\ sys_timeout(next_timeout, tcpip_tcp_timer, Interval[tcpip_tcp_timer], next_timeout')
    BY <1>2 DEF tcp_timer_needed, Start
  <2>2. Len(next_timeout) \in Nat /\ Len(next_timeout) <= Len(Periodic)
    BY <1>1, <1>2, PeriodicHandlers
  <2>3. /\ Len(next_timeout) < MEMP_NUM_SYS_TIMEOUT /\ tcpip_tcp_timer \notin Needed
        /\ Needed \in SUBSET Handlers /\ tcpip_tcp_timer \in Handlers
    BY <1>2, <2>2, RoomForOne, PeriodicHandlers DEF Needed
  <2>4. Once(next_timeout', Needed \cup {tcpip_tcp_timer})
        /\ Len(next_timeout') = Len(next_timeout) + 1
    BY <1>1, <2>1, <2>3, Insert
  <2>5. Needed' = Needed \cup {tcpip_tcp_timer}
    BY <1>2, <2>1 DEF Needed
  <2> QED
    BY <1>1, <1>2, <2>1, <2>2, <2>4, <2>5, PeriodicHandlers DEF ListInv
<1>3. CASE UNCHANGED <<tcpip_tcp_timer_active, next_timeout>>
           /\ (pcbs' => tcpip_tcp_timer_active)
  <2>1. Needed' = Needed
    BY <1>3 DEF Needed
  <2> QED
    BY <1>1, <1>3, <2>1 DEF ListInv
<1>4. CASE pcbs' = TRUE /\ tcp_timer_needed
  <2>1. CASE tcpip_tcp_timer_active
    <3>1. UNCHANGED <<tcpip_tcp_timer_active, next_timeout>>
      BY <1>4, <2>1 DEF tcp_timer_needed
    <3> QED
      BY <1>3, <2>1, <3>1
  <2>2. CASE ~ tcpip_tcp_timer_active
    BY <1>2, <1>4, <2>2
  <2> QED
    BY <2>1, <2>2
<1>5. CASE UNCHANGED <<pcbs, tcpip_tcp_timer_active, next_timeout>>
  <2>1. pcbs' => tcpip_tcp_timer_active
    BY <1>1, <1>5
  <2> QED
    BY <1>3, <1>5, <2>1
<1>6. CASE pcbs' = FALSE /\ UNCHANGED <<tcpip_tcp_timer_active, next_timeout>>
  BY <1>3, <1>6
<1> QED
  BY <1>4, <1>5, <1>6 DEF HandleMsg

LEMMA ReceiveKeeps ==
  ASSUME IInv, Receive
  PROVE  ListInv'
<1>1. /\ Once(next_timeout, Needed) /\ pc' = "msg"
      /\ Len(next_timeout) = Len(Periodic) + (IF tcpip_tcp_timer_active THEN 1 ELSE 0)
      /\ pcbs => tcpip_tcp_timer_active
      /\ UNCHANGED <<tcpip_tcp_timer_active, pcbs>>
  BY DEF IInv, ListInv, Receive
<1>2. Needed' = Needed
  BY <1>1 DEF Needed
<1>3. CASE next_timeout' = next_timeout
  BY <1>1, <1>2, <1>3 DEF ListInv
<1>4. CASE next_timeout' # next_timeout
  <2> DEFINE r == Rest(next_timeout[1].time, Reported(waited))
  <2>1. next_timeout' = [next_timeout EXCEPT ![1].time = r]
    BY <1>4 DEF Receive
  <2>2. CASE next_timeout = <<>>
    <3>1. next_timeout' = next_timeout
      BY <2>1, <2>2
    <3> QED
      BY <1>4, <3>1
  <2>3. CASE next_timeout # <<>>
    <3>1. next_timeout \in Seq(Entry) /\ Len(next_timeout) \in Nat \ {0}
      BY <1>1, <2>3, EmptySeq DEF Once
    <3>2. next_timeout[1] \in Entry
      BY <3>1
    <3>3. next_timeout[1].time \in Nat /\ Reported(waited) \in Nat
      <4>1. waited \in Nat /\ Tick \in Nat /\ WrappedWait \in Nat
        BY ConstantsAssumption DEF IInv, TypeOK
      <4> QED
        BY <3>2, <4>1 DEF Reported, Entry
    <3>4. r \in Nat
      BY <3>3 DEF Rest
    <3> HIDE DEF r
    <3>5. Once(next_timeout', Needed) /\ Len(next_timeout') = Len(next_timeout)
      BY <1>1, <2>1, <3>4, Shorten
    <3> QED
      BY <1>1, <1>2, <3>5 DEF ListInv
  <2> QED
    BY <2>2, <2>3
<1> QED
  BY <1>3, <1>4

LEMMA Unlisted ==
  ASSUME IInv, UNCHANGED <<next_timeout, tcpip_tcp_timer_active, pcbs>>,
         pc' = "init" <=> pc = "init"
  PROVE  ListInv'
<1>1. Needed' = Needed /\ Started' = Started
  BY DEF Needed, Started
<1> QED
  BY <1>1 DEF IInv, ListInv

LEMMA InvariantKept ==
  ASSUME IInv, [Next]_vars
  PROVE  IInv'
<1>1. ListInv'
  <2>1. CASE sys_timeouts_init
    BY <2>1, InitKeeps
  <2>2. CASE Wait
    BY <2>2, Unlisted DEF Wait
  <2>3. CASE Receive
    BY <2>3, ReceiveKeeps
  <2>4. CASE Fire
    BY <2>4, FireKeeps
  <2>5. CASE HandleMsg
    BY <2>5, HandleMsgKeeps
  <2>6. CASE Post
    BY <2>6, Unlisted DEF Post
  <2>7. CASE TimeTick
    <3>1. UNCHANGED <<next_timeout, tcpip_tcp_timer_active, pcbs>>
          /\ (pc' = "init" <=> pc = "init")
      BY <2>7 DEF TimeTick
    <3> QED
      BY <3>1, Unlisted
  <2>8. CASE UNCHANGED vars
    BY <2>8, Unlisted DEF vars
  <2> QED
    BY <2>1, <2>2, <2>3, <2>4, <2>5, <2>6, <2>7, <2>8 DEF Next, Thread
<1>2. next_timeout' \in Seq([h : Handlers, time : Nat])
  BY <1>1 DEF ListInv, Once, Entry
<1>3. Tick \in Nat \ {0} /\ MaxMessages \in Nat
  BY ConstantsAssumption
<1>4. TypeOK'
  <2>1. CASE sys_timeouts_init
    BY <1>2, <2>1 DEF IInv, TypeOK, sys_timeouts_init
  <2>2. CASE Wait
    <3>1. waiting' \in Nat
      <4>1. CASE next_timeout = <<>>
        BY <2>2, <4>1 DEF Wait
      <4>2. CASE next_timeout # <<>>
        <5>1. Head(next_timeout).time \in Nat
          <6>1. next_timeout \in Seq(Entry)
            BY DEF IInv, TypeOK, Entry
          <6>2. Head(next_timeout) \in Entry
            BY <4>2, <6>1, HeadTailProperties
          <6> QED
            BY <6>2 DEF Entry
        <5> DEFINE ms == Head(next_timeout).time
        <5>2. waiting' = Ticks(ms)
          BY <2>2, <4>2 DEF Wait
        <5> HIDE DEF ms
        <5>3. Ticks(ms) \in Nat
          BY <1>3, <5>1 DEF Ticks, ms
        <5> QED
          BY <5>2, <5>3
      <4> QED
        BY <4>1, <4>2
    <3> QED
      BY <2>2, <3>1 DEF IInv, TypeOK, Wait
  <2>3. CASE Receive
    BY <1>2, <1>3, <2>3 DEF IInv, TypeOK, Receive
  <2>4. CASE Fire
    <3>1. pcbs' \in BOOLEAN /\ tcpip_tcp_timer_active' \in BOOLEAN
      BY <2>4 DEF IInv, TypeOK, Fire
    <3>2. age' \in [Handlers -> Nat]
      BY <2>4 DEF IInv, TypeOK, Fire
    <3> QED
      BY <1>2, <2>4, <3>1, <3>2 DEF IInv, TypeOK, Fire
  <2>5. CASE HandleMsg
    <3>1. pcbs' \in BOOLEAN /\ tcpip_tcp_timer_active' \in BOOLEAN
      BY <2>5 DEF IInv, TypeOK, HandleMsg, tcp_timer_needed
    <3>2. age' \in [Handlers -> Nat]
      BY <2>5 DEF IInv, TypeOK, HandleMsg
    <3> QED
      BY <1>2, <2>5, <3>1, <3>2 DEF IInv, TypeOK, HandleMsg
  <2>6. CASE Post
    BY <1>3, <2>6 DEF IInv, TypeOK, Post
  <2>7. CASE TimeTick
    <3>1. age' \in [Handlers -> Nat]
      BY <1>3, <2>7 DEF IInv, TypeOK, TimeTick, Aged
    <3> QED
      BY <2>7, <3>1 DEF IInv, TypeOK, TimeTick
  <2>8. CASE UNCHANGED vars
    BY <2>8 DEF IInv, TypeOK, vars
  <2> QED
    BY <2>1, <2>2, <2>3, <2>4, <2>5, <2>6, <2>7, <2>8 DEF Next, Thread
<1> QED
  BY <1>1, <1>4 DEF IInv

LEMMA InvariantHolds == Spec => []IInv
<1>1. Init => IInv
  <2> SUFFICES ASSUME Init PROVE IInv
    OBVIOUS
  <2>1. TypeOK
    <3>1. 0 \in 0..MaxMessages
      BY ConstantsAssumption
    <3>2. age \in [Handlers -> Nat]
      BY DEF Init
    <3>3. next_timeout \in Seq([h : Handlers, time : Nat])
      BY DEF Init
    <3> QED
      BY <3>1, <3>2, <3>3 DEF Init, TypeOK
  <2>2. Len(next_timeout) = 0 /\ next_timeout \in Seq(Entry)
    BY DEF Init
  <2>3. Once(next_timeout, Started)
    BY <2>2 DEF Once, Started
  <2> QED
    BY <2>1, <2>2, <2>3, PeriodicHandlers DEF Init, IInv, ListInv
<1>2. IInv /\ [Next]_vars => IInv'
  BY InvariantKept
<1> QED
  BY <1>1, <1>2, PTL DEF Spec
-----------------------------------------------------------------------------
(* The refinement.                                                         *)

\* The alarms of a list: Left is what they are of next_timeout.
LeftOf(l) ==
  [h \in {l[i].h : i \in DOMAIN l} |-> Due(l)[CHOOSE i \in DOMAIN l : l[i].h = h]]

\* What setting an alarm, letting time pass and ringing make of the alarms f.
WithAlarm(f, h, d) == [b \in DOMAIN f \cup {h} |-> IF b = h THEN d ELSE f[b]]
Elapsed(f, d)      == [b \in DOMAIN f |-> f[b] - d]
Rung(f, h)         == [b \in DOMAIN f \ {h} |-> f[b] - f[h]]

LEMMA LeftIs ==
  ASSUME NEW l, NEW S, Once(l, S)
  PROVE  /\ DOMAIN LeftOf(l) = S
         /\ LeftOf(l) = [h \in S |-> LeftOf(l)[h]]
         /\ \A i \in 1..Len(l) : l[i].h \in S /\ LeftOf(l)[l[i].h] = Due(l)[i]
<1>1. DOMAIN l = 1..Len(l)
  BY DEF Once
<1>2. {l[i].h : i \in DOMAIN l} = S
  BY <1>1 DEF Once
<1>3. ASSUME NEW i \in 1..Len(l)
      PROVE  l[i].h \in S /\ LeftOf(l)[l[i].h] = Due(l)[i]
  <2> DEFINE j == CHOOSE j \in DOMAIN l : l[j].h = l[i].h
  <2>1. j \in 1..Len(l) /\ l[j].h = l[i].h
    BY <1>1
  <2> HIDE DEF j
  <2>2. j = i
    BY <2>1 DEF Once
  <2>3. l[i].h \in S
    BY DEF Once
  <2>4. LeftOf(l)[l[i].h] = Due(l)[j]
    BY <1>2, <2>3 DEF LeftOf, j
  <2> QED
    BY <2>2, <2>3, <2>4
<1>4. LeftOf(l) = [h \in S |-> Due(l)[CHOOSE i \in DOMAIN l : l[i].h = h]]
  BY <1>2 DEF LeftOf
<1> QED
  BY <1>3, <1>4

\* An alarm is an alarm of one entry.
LEMMA LeftAt ==
  ASSUME NEW l, NEW S, Once(l, S), NEW h \in S
  PROVE  \E i \in 1..Len(l) : l[i].h = h /\ LeftOf(l)[h] = Due(l)[i]
<1>1. PICK i \in 1..Len(l) : l[i].h = h
  BY DEF Once
<1> QED
  BY <1>1, LeftIs

\* The first entry has the earliest alarm.
LEMMA FirstIsEarliest ==
  ASSUME NEW l, NEW S, Once(l, S), l # <<>>
  PROVE  /\ Head(l) = l[1] /\ l[1].h \in S /\ l[1].time \in Nat
         /\ LeftOf(l)[l[1].h] = l[1].time
         /\ \A h \in S : LeftOf(l)[h] \in Nat /\ l[1].time <= LeftOf(l)[h]
<1>1. l \in Seq(Entry) /\ Len(l) \in Nat \ {0} /\ Head(l) = l[1] /\ 1 \in 1..Len(l)
  BY EmptySeq DEF Once
<1>2. Due(l)[1] = l[1].time /\ l[1].time \in Nat
  <2>1. Due(l)[1] = Due(l)[1 - 1] + l[1].time /\ Due(l)[0] = 0 /\ 1 - 1 = 0
    BY <1>1, DueSteps
  <2>2. l[1].time \in Nat
    BY <1>1, Times
  <2> QED
    BY <2>1, <2>2
<1>3. ASSUME NEW h \in S PROVE LeftOf(l)[h] \in Nat /\ l[1].time <= LeftOf(l)[h]
  <2>1. PICK i \in 1..Len(l) : LeftOf(l)[h] = Due(l)[i]
    BY LeftAt
  <2>2. Due(l)[i] \in Nat /\ Due(l)[1] <= Due(l)[i]
    BY <1>1, DueGrows
  <2> QED
    BY <1>2, <2>1, <2>2
<1> QED
  BY <1>1, <1>2, <1>3, LeftIs

\* A timer that is started is the only one whose alarm changes.
LEMMA InsertSets ==
  ASSUME NEW l, NEW S \in SUBSET Handlers, Once(l, S), NEW h \in Handlers, h \notin S,
         Len(l) < MEMP_NUM_SYS_TIMEOUT, NEW m, sys_timeout(l, h, Interval[h], m)
  PROVE  LeftOf(m) = WithAlarm(LeftOf(l), h, Interval[h])
<1>1. l \in Seq(Entry) /\ Len(l) \in Nat /\ Interval[h] \in Nat
  BY PeriodicHandlers DEF Once
<1>2. m \in Seq(Entry) /\ Len(m) = Len(l) + 1 /\ Once(m, S \cup {h})
  BY <1>1, Inserted, Insert
<1>3. PICK k \in 0..Len(l), rest \in 0..Interval[h] :
        /\ rest = Interval[h] - Due(l)[k]
        /\ \A i \in 1..Len(m) :
             m[i].h = IF i <= k THEN l[i].h ELSE IF i = k + 1 THEN h ELSE l[i - 1].h
        /\ \A i \in 1..Len(m) :
             m[i].time = IF i <= k THEN l[i].time
                         ELSE IF i = k + 1 THEN rest
                         ELSE l[i - 1].time - (IF i = k + 2 THEN rest ELSE 0)
  BY <1>1, Inserted
<1> DEFINE n == Len(l)
           d == Due(l)
           e == Due(m)
<1>4. n \in Nat /\ k \in 0..n /\ rest \in Nat /\ Len(m) = n + 1
  BY <1>1, <1>2, <1>3
<1>5. /\ d[0] = 0 /\ \A i \in 1..n : d[i] = d[i - 1] + l[i].time
      /\ e[0] = 0 /\ \A i \in 1..(n + 1) : e[i] = e[i - 1] + m[i].time
  BY <1>2, <1>4, DueSteps
<1>6. /\ \A i \in 0..n : d[i] \in Nat
      /\ \A i \in 0..(n + 1) : e[i] \in Nat
      /\ \A i \in 1..n : l[i].time \in Nat
  BY <1>1, <1>2, <1>4, DueGrows, Times
<1>7. \A i \in 0..k : d[i] = e[i]
  <2>1. SameTimes(l, 0, m, 0, k)
    <3>1. \A i \in 1..k : i \in 1..Len(m) /\ 0 + i = i
      BY <1>4
    <3> QED
      BY <1>3, <3>1 DEF SameTimes
  <2>2. 0 \in 0..Len(l) /\ 0 \in 0..Len(m) /\ k \in Nat /\ 0 + k <= Len(l) /\ 0 + k <= Len(m)
    BY <1>4
  <2>3. SameShift(l, 0, m, 0, k)
    BY <1>1, <1>2, <2>1, <2>2, DueShift
  <2>4. ASSUME NEW i \in 0..k PROVE d[i] = e[i]
    <3>1. d[i] \in Int /\ e[i] \in Int /\ 0 + i = i
      BY <1>4, <1>6
    <3> QED
      BY <1>5, <2>3, <3>1 DEF SameShift
  <2> QED
    BY <2>4
<1>8. e[k + 1] = Interval[h]
  <2>1. k + 1 \in 1..(n + 1) /\ (k + 1) - 1 = k /\ ~(k + 1 <= k) /\ k \in 0..k
    BY <1>4
  <2>2. m[k + 1].time = rest
    BY <1>3, <1>4, <2>1
  <2>3. e[k + 1] = d[k] + rest
    BY <1>5, <1>7, <2>1, <2>2
  <2>4. d[k] \in Nat
    BY <1>4, <1>6
  <2> QED
    BY <1>1, <1>3, <2>3, <2>4
<1>9. \A i \in (k + 1)..n : e[i + 1] = d[i]
  <2>1. CASE k = n
    BY <1>4, <2>1
  <2>2. CASE k # n
    <3>1. k + 1 \in 1..n /\ k + 2 \in 1..(n + 1) /\ (k + 2) - 1 = k + 1 /\ (k + 1) - 1 = k
          /\ ~(k + 2 <= k) /\ k + 2 # k + 1
      BY <1>4, <2>2
    <3>2. m[k + 2].time = l[k + 1].time - rest
      BY <1>3, <1>4, <3>1
    <3>3. e[k + 2] = Interval[h] + (l[k + 1].time - rest)
      BY <1>5, <1>8, <3>1, <3>2
    <3>4. d[k + 1] = d[k] + l[k + 1].time
      BY <1>5, <3>1
    <3>5. l[k + 1].time \in Nat /\ d[k] \in Nat /\ rest = Interval[h] - d[k]
      BY <1>3, <1>4, <1>6, <3>1
    <3>6. e[k + 2] = d[k + 1]
      <4> DEFINE x == l[k + 1].time
                 y == d[k]
                 z == Interval[h]
      <4>1. x \in Nat /\ y \in Nat /\ z \in Nat /\ rest = z - y
            /\ e[k + 2] = z + (x - rest) /\ d[k + 1] = y + x
        BY <1>1, <3>3, <3>4, <3>5
      <4> HIDE DEF x, y, z
      <4> QED
        BY <4>1
    <3> DEFINE r == n - (k + 1)
    <3>7. /\ r \in Nat /\ (k + 1) + r <= Len(l) /\ (k + 2) + r <= Len(m)
          /\ k + 1 \in 0..Len(l) /\ k + 2 \in 0..Len(m)
      BY <1>4, <3>1
    <3>8. SameTimes(l, k + 1, m, k + 2, r)
      <4> SUFFICES ASSUME NEW i \in 1..r PROVE l[(k + 1) + i].time = m[(k + 2) + i].time
        BY DEF SameTimes
      <4> DEFINE j == (k + 2) + i
      <4>1. j \in 1..Len(m) /\ ~(j <= k) /\ j # k + 1 /\ j # k + 2 /\ j - 1 = (k + 1) + i
            /\ j - 1 \in 1..n
        BY <1>4, <3>1
      <4> HIDE DEF j
      <4>2. m[j].time = l[j - 1].time - 0
        BY <1>3, <4>1
      <4>3. l[j - 1].time \in Nat
        BY <1>6, <4>1
      <4> QED
        BY <4>1, <4>2, <4>3 DEF j
    <3> HIDE DEF r
    <3>9. SameShift(l, k + 1, m, k + 2, r)
      BY <1>1, <1>2, <3>7, <3>8, DueShift
    <3>10. ASSUME NEW i \in (k + 1)..n PROVE e[i + 1] = d[i]
      <4>1. i - (k + 1) \in 0..r /\ (k + 1) + (i - (k + 1)) = i
            /\ (k + 2) + (i - (k + 1)) = i + 1
        BY <1>4 DEF r
      <4>2. d[i] - d[k + 1] = e[i + 1] - e[k + 2]
        BY <3>9, <4>1 DEF SameShift
      <4>3. d[i] \in Int /\ d[k + 1] \in Int /\ e[i + 1] \in Int /\ e[k + 2] \in Int
        BY <1>4, <1>6, <3>1
      <4> QED
        BY <3>6, <4>2, <4>3
    <3> QED
      BY <3>10
  <2> QED
    BY <2>1, <2>2
<1> HIDE DEF d, e
<1>10. ASSUME NEW g \in S \cup {h}
       PROVE  LeftOf(m)[g] = IF g = h THEN Interval[h] ELSE LeftOf(l)[g]
  <2>1. CASE g = h
    <3>1. k + 1 \in 1..Len(m) /\ ~(k + 1 <= k)
      BY <1>4
    <3>2. m[k + 1].h = h
      BY <1>3, <3>1
    <3>3. LeftOf(m)[h] = e[k + 1]
      BY <1>2, <3>1, <3>2, LeftIs DEF e
    <3> QED
      BY <1>8, <2>1, <3>3
  <2>2. CASE g # h
    <3>1. PICK i \in 1..n : l[i].h = g /\ LeftOf(l)[g] = d[i]
      BY <2>2, LeftAt DEF d
    <3>2. CASE i <= k
      <4>1. i \in 1..Len(m) /\ i \in 0..k
        BY <1>4, <3>2
      <4>2. m[i].h = g
        BY <1>3, <3>1, <3>2, <4>1
      <4>3. LeftOf(m)[g] = e[i]
        BY <1>2, <4>1, <4>2, LeftIs DEF e
      <4> QED
        BY <1>7, <2>2, <3>1, <4>1, <4>3
    <3>3. CASE ~(i <= k)
      <4>1. i + 1 \in 1..Len(m) /\ ~(i + 1 <= k) /\ i + 1 # k + 1 /\ (i + 1) - 1 = i
            /\ i \in (k + 1)..n
        BY <1>4, <3>3
      <4>2. m[i + 1].h = g
        BY <1>3, <3>1, <4>1
      <4>3. LeftOf(m)[g] = e[i + 1]
        BY <1>2, <4>1, <4>2, LeftIs DEF e
      <4> QED
        BY <1>9, <2>2, <3>1, <4>1, <4>3
    <3> QED
      BY <3>2, <3>3
  <2> QED
    BY <2>1, <2>2
<1>11. LeftOf(m) = [g \in S \cup {h} |-> LeftOf(m)[g]]
  BY <1>2, LeftIs
<1>12. DOMAIN LeftOf(l) = S
  BY LeftIs
<1> QED
  BY <1>10, <1>11, <1>12 DEF WithAlarm

\* Taking the first entry off leaves the others what they had beyond its time.
LEMMA TailRings ==
  ASSUME NEW l, NEW S, Once(l, S), l # <<>>
  PROVE  LeftOf(Tail(l)) = Rung(LeftOf(l), l[1].h)
<1>1. l \in Seq(Entry) /\ Len(l) \in Nat \ {0} /\ Head(l) = l[1]
  BY EmptySeq DEF Once
<1> DEFINE t == Tail(l)
<1>2. /\ t \in Seq(Entry) /\ Len(t) = Len(l) - 1 /\ Once(t, S \ {l[1].h})
      /\ \A i \in 1..(Len(l) - 1) : t[i] = l[i + 1]
  BY <1>1, HeadTailProperties, TakeFirst
<1> HIDE DEF t
<1>3. SameShift(l, 1, t, 0, Len(l) - 1)
  <2>1. 1 \in 0..Len(l) /\ 0 \in 0..Len(t) /\ Len(l) - 1 \in Nat
        /\ 1 + (Len(l) - 1) <= Len(l) /\ 0 + (Len(l) - 1) <= Len(t)
    BY <1>1, <1>2
  <2>2. SameTimes(l, 1, t, 0, Len(l) - 1)
    BY <1>1, <1>2 DEF SameTimes
  <2> QED
    BY <1>1, <1>2, <2>1, <2>2, DueShift
<1>4. ASSUME NEW g \in S \ {l[1].h}
      PROVE  LeftOf(t)[g] = LeftOf(l)[g] - l[1].time
  <2>1. PICK i \in 1..Len(t) : t[i].h = g /\ LeftOf(t)[g] = Due(t)[i]
    BY <1>2, LeftAt
  <2>2. i + 1 \in 1..Len(l) /\ l[i + 1].h = g /\ i \in 0..(Len(l) - 1) /\ 1 + i = i + 1
        /\ i \in 0..Len(t) /\ 0 + i = i /\ 1 \in 1..Len(l)
    BY <1>1, <1>2, <2>1
  <2>3. LeftOf(l)[g] = Due(l)[i + 1]
    BY <2>2, LeftIs
  <2>4. Due(l)[1] = l[1].time
    BY <2>2, LeftIs, FirstIsEarliest
  <2>5. Due(t)[0] = 0 /\ Due(t)[i] \in Nat /\ Due(l)[i + 1] \in Nat /\ Due(l)[1] \in Nat
    <3>1. Len(t) \in Nat /\ i + 1 \in 0..Len(l) /\ 1 \in 0..Len(l)
      BY <1>1, <1>2, <2>2
    <3> QED
      BY <1>1, <1>2, <2>2, <3>1, DueSteps, DueGrows
  <2>6. Due(l)[i + 1] - Due(l)[1] = Due(t)[i] - Due(t)[0]
    BY <1>3, <2>2 DEF SameShift
  <2>7. Due(t)[i] = Due(l)[i + 1] - Due(l)[1]
    BY <2>5, <2>6
  <2> QED
    BY <2>1, <2>3, <2>4, <2>7
<1>5. LeftOf(t) = [g \in S \ {l[1].h} |-> LeftOf(t)[g]]
  BY <1>2, LeftIs
<1>6. DOMAIN LeftOf(l) = S /\ LeftOf(l)[l[1].h] = l[1].time
  BY LeftIs, FirstIsEarliest
<1> QED
  BY <1>4, <1>5, <1>6 DEF t, Rung

\* What the first entry loses, every alarm loses.
LEMMA ShortenPasses ==
  ASSUME NEW l, NEW S, Once(l, S), l # <<>>, NEW r \in Nat,
         NEW m, m = [l EXCEPT ![1].time = r]
  PROVE  LeftOf(m) = Elapsed(LeftOf(l), l[1].time - r)
<1>1. l \in Seq(Entry) /\ Len(l) \in Nat \ {0} /\ 1 \in 1..Len(l) /\ DOMAIN l = 1..Len(l)
  BY EmptySeq DEF Once
<1>2. Once(m, S) /\ Len(m) = Len(l) /\ m \in Seq(Entry)
  <2>1. Once(m, S) /\ Len(m) = Len(l)
    BY Shorten
  <2> QED
    BY <2>1 DEF Once
<1>3. /\ m[1] = [l[1] EXCEPT !.time = r]
      /\ \A i \in 1..Len(l) : i # 1 => m[i] = l[i]
  BY <1>1
<1>4. l[1] \in [h : Handlers, time : Nat]
  <2>1. l[1] \in Entry
    BY <1>1
  <2> QED
    BY <2>1 DEF Entry
<1>5. m[1].time = r /\ l[1].time \in Nat
  BY <1>3, <1>4
<1>6. SameShift(l, 1, m, 1, Len(l) - 1)
  <2>1. 1 \in 0..Len(l) /\ 1 \in 0..Len(m) /\ Len(l) - 1 \in Nat
        /\ 1 + (Len(l) - 1) <= Len(l) /\ 1 + (Len(l) - 1) <= Len(m)
    BY <1>1, <1>2
  <2>2. SameTimes(l, 1, m, 1, Len(l) - 1)
    <3>1. \A i \in 1..(Len(l) - 1) : 1 + i \in 1..Len(l) /\ 1 + i # 1
      BY <1>1
    <3> QED
      BY <1>3, <3>1 DEF SameTimes
  <2> QED
    BY <1>1, <1>2, <2>1, <2>2, DueShift
<1>7. Due(l)[1] = l[1].time /\ Due(m)[1] = r
  <2>1. /\ Due(l)[0] = 0 /\ Due(l)[1] = Due(l)[1 - 1] + l[1].time
        /\ Due(m)[0] = 0 /\ Due(m)[1] = Due(m)[1 - 1] + m[1].time
    BY <1>1, <1>2, DueSteps
  <2> QED
    BY <1>5, <2>1
<1>8. \A i \in 1..Len(l) : m[i].h = l[i].h
  BY <1>3, <1>4
<1>9. ASSUME NEW g \in S PROVE LeftOf(m)[g] = LeftOf(l)[g] - (l[1].time - r)
  <2>1. PICK i \in 1..Len(l) : l[i].h = g /\ LeftOf(l)[g] = Due(l)[i]
    BY LeftAt
  <2>2. LeftOf(m)[g] = Due(m)[i]
    <3>1. i \in 1..Len(m) /\ m[i].h = g
      BY <1>2, <1>8, <2>1
    <3> QED
      BY <1>2, <3>1, LeftIs
  <2>3. i - 1 \in 0..(Len(l) - 1) /\ 1 + (i - 1) = i /\ i \in 0..Len(l)
    BY <1>1
  <2>4. Due(l)[i] - Due(l)[1] = Due(m)[i] - Due(m)[1]
    BY <1>6, <2>3 DEF SameShift
  <2>5. Due(l)[i] \in Int /\ Due(m)[i] \in Int
    <3>1. i \in 0..Len(m)
      BY <1>2, <2>3
    <3>2. Due(l)[i] \in Nat
      BY <1>1, <2>3, DueGrows
    <3>3. Due(m)[i] \in Nat
      BY <1>2, <3>1, DueGrows
    <3> QED
      BY <3>2, <3>3
  <2>6. Due(m)[i] = Due(l)[i] - (l[1].time - r)
    <3> DEFINE x == Due(l)[i]
               y == Due(m)[i]
               f == l[1].time
    <3>1. x \in Int /\ y \in Int /\ f \in Int /\ x - f = y - r
      BY <1>5, <1>7, <2>4, <2>5
    <3> HIDE DEF x, y, f
    <3>2. y = x - (f - r)
      BY <3>1
    <3> QED
      BY <3>2 DEF x, y, f
  <2> QED
    BY <2>1, <2>2, <2>6
<1>10. LeftOf(m) = [g \in S |-> LeftOf(m)[g]]
  BY <1>2, LeftIs
<1>11. DOMAIN LeftOf(l) = S
  BY LeftIs
<1> QED
  BY <1>9, <1>10, <1>11 DEF Elapsed

LEMMA LeftIsOf ==
  /\ Left = LeftOf(next_timeout)
  /\ Left' = LeftOf(next_timeout')
BY DEF Left, LeftOf

\* Starting a timer that is not listed sets its alarm.
LEMMA StartSets ==
  ASSUME NEW S \in SUBSET Handlers, Once(next_timeout, S), NEW h \in Handlers, h \notin S,
         Len(next_timeout) < MEMP_NUM_SYS_TIMEOUT,
         sys_timeout(next_timeout, h, Interval[h], next_timeout')
  PROVE  Clock!Set
<1>1. Left' = WithAlarm(Left, h, Interval[h])
  BY InsertSets, LeftIsOf
<1>2. DOMAIN Left = S
  BY LeftIs, LeftIsOf
<1>3. h \in Handlers \ DOMAIN Left /\ Interval[h] \in {Interval[g] : g \in Handlers}
  BY <1>2
<1> QED
  BY <1>1, <1>3 DEF Clock!Set, WithAlarm

\* The wait lets time pass, and never beyond the first alarm.
LEMMA ReceivePasses ==
  ASSUME IInv, Receive
  PROVE  Clock!Pass \/ Left' = Left
<1>1. Once(next_timeout, Needed)
  BY DEF IInv, ListInv, Receive
<1>2. CASE next_timeout' = next_timeout
  BY <1>2, LeftIsOf
<1>3. CASE next_timeout' # next_timeout
  <2> DEFINE first == next_timeout[1].time
             r == Rest(first, Reported(waited))
  <2>1. next_timeout' = [next_timeout EXCEPT ![1].time = r]
    BY <1>3 DEF Receive
  <2>2. next_timeout # <<>>
    <3>1. next_timeout = <<>> => [next_timeout EXCEPT ![1].time = r] = next_timeout
      OBVIOUS
    <3> QED
      BY <1>3, <2>1, <3>1
  <2> DEFINE h == next_timeout[1].h
  <2>3. /\ h \in Needed /\ first \in Nat /\ Left[h] = first
        /\ \A g \in Needed : Left[g] \in Nat /\ first <= Left[g]
    BY <1>1, <2>2, FirstIsEarliest, LeftIsOf
  <2>4. DOMAIN Left = Needed /\ Left = [g \in Needed |-> Left[g]]
    BY <1>1, LeftIs, LeftIsOf
  <2>5. Reported(waited) \in Nat \ {0}
    <3>1. waited \in Nat /\ Tick \in Nat /\ WrappedWait \in Nat
      BY ConstantsAssumption DEF IInv, TypeOK
    <3>2. WrappedWait > Interval[tcpip_tcp_timer] /\ Interval[tcpip_tcp_timer] \in Nat
      BY PeriodicHandlers, ConstantsAssumption
    <3>3. WrappedWait # 0
      BY <3>1, <3>2
    <3>4. waited * Tick + 1 \in Nat \ {0}
      BY <3>1
    <3> QED
      BY <3>1, <3>3, <3>4 DEF Reported
  <2> HIDE DEF first, h
  <2>6. r \in 0..first /\ (first > 0 => first - r \in 1..first)
    BY <2>3, <2>5 DEF Rest
  <2> HIDE DEF r
  <2>7. Left' = Elapsed(Left, first - r)
    <3>1. r \in Nat
      BY <2>3, <2>6
    <3> QED
      BY <1>1, <2>1, <2>2, <3>1, ShortenPasses, LeftIsOf DEF first
  <2>8. CASE first = 0
    <3>1. first - r = 0
      <4>1. r = 0
        BY <2>6, <2>8
      <4> QED
        BY <2>8, <4>1
    <3>2. \A g \in Needed : Left[g] - 0 = Left[g]
      BY <2>3
    <3>3. Left' = [g \in Needed |-> Left[g] - 0]
      BY <2>4, <2>7, <3>1 DEF Elapsed
    <3>4. Left' = [g \in Needed |-> Left[g]]
      BY <3>2, <3>3
    <3> QED
      BY <2>4, <3>4
  <2>9. CASE first > 0
    <3>1. h \in DOMAIN Left /\ Clock!Earliest(h)
      BY <2>3, <2>4 DEF Clock!Earliest
    <3>2. first - r \in 1..Left[h]
      BY <2>3, <2>6, <2>9
    <3> QED
      BY <2>7, <3>1, <3>2 DEF Clock!Pass, Elapsed
  <2> QED
    BY <2>3, <2>8, <2>9
<1> QED
  BY <1>2, <1>3

\* The first timeout is the alarm that rings.
LEMMA FireRings ==
  ASSUME IInv, Fire
  PROVE  Clock!Ring
<1> DEFINE l == next_timeout
           h == l[1].h
           t == Tail(l)
<1>1. /\ Once(l, Needed) /\ l # <<>> /\ Head(l) = l[1]
      /\ Len(l) = Len(Periodic) + (IF tcpip_tcp_timer_active THEN 1 ELSE 0)
  BY FirstIsEarliest DEF IInv, ListInv, Fire
<1>2. /\ h \in Needed /\ Left[h] = l[1].time
      /\ \A g \in Needed : Left[g] \in Nat /\ l[1].time <= Left[g]
  BY <1>1, FirstIsEarliest, LeftIsOf
<1>3. DOMAIN Left = Needed
  BY <1>1, LeftIs, LeftIsOf
<1>4. h \in DOMAIN Left /\ Clock!Earliest(h)
  BY <1>2, <1>3 DEF Clock!Earliest
<1>5. LeftOf(t) = Rung(Left, h)
  BY <1>1, TailRings, LeftIsOf
<1>6. Once(t, Needed \ {h}) /\ Len(t) = Len(l) - 1
  BY <1>1, TakeFirst
<1>7. h \in Handlers /\ Needed \in SUBSET Handlers
  BY <1>2, PeriodicHandlers DEF Needed
<1>8. CASE next_timeout' = t
  <2>1. Left' = Rung(Left, h)
    BY <1>5, <1>8, LeftIsOf
  <2> QED
    BY <1>4, <2>1 DEF Clock!Ring, Rung
<1>9. CASE Start(h, t)
  <2>1. sys_timeout(t, h, Interval[h], next_timeout')
    BY <1>9 DEF Start
  <2>2. Len(t) < MEMP_NUM_SYS_TIMEOUT
    <3>1. Len(t) \in Nat /\ Len(t) <= Len(Periodic)
      BY <1>1, <1>6, PeriodicHandlers DEF Once
    <3> QED
      BY <3>1, RoomForOne
  <2> HIDE DEF h, t
  <2>3. Left' = WithAlarm(Rung(Left, h), h, Interval[h])
    <3>1. Needed \ {h} \in SUBSET Handlers /\ h \notin Needed \ {h}
      BY <1>7
    <3>2. LeftOf(next_timeout') = WithAlarm(LeftOf(t), h, Interval[h])
      BY <1>6, <1>7, <2>1, <2>2, <3>1, InsertSets
    <3> QED
      BY <1>5, <3>2, LeftIsOf
  <2>4. DOMAIN Rung(Left, h) \cup {h} = DOMAIN Left
    BY <1>4 DEF Rung
  <2>5. Interval[h] \in {Interval[g] : g \in Handlers}
    BY <1>7
  <2> QED
    BY <1>4, <2>3, <2>4, <2>5 DEF Clock!Ring, Rung, WithAlarm
<1>10. next_timeout' = t \/ Start(h, t)
  <2>1. Head(next_timeout).h = h
    BY <1>1
  <2>2. CASE h = tcpip_tcp_timer
    BY <2>1, <2>2 DEF Fire
  <2>3. CASE h # tcpip_tcp_timer
    BY <2>1, <2>3 DEF Fire
  <2> QED
    BY <2>2, <2>3
<1> QED
  BY <1>8, <1>9, <1>10

LEMMA HandleMsgSets ==
  ASSUME IInv, HandleMsg
  PROVE  Clock!Set \/ Left' = Left
<1>1. CASE next_timeout' = next_timeout
  BY <1>1, LeftIsOf
<1>2. CASE next_timeout' # next_timeout
  <2>1. /\ Once(next_timeout, Needed) /\ ~ tcpip_tcp_timer_active
        /\ Len(next_timeout) = Len(Periodic)
        /\ sys_timeout(next_timeout, tcpip_tcp_timer, Interval[tcpip_tcp_timer], next_timeout')
    <3>1. tcp_timer_needed
      BY <1>2 DEF HandleMsg
    <3>2. ~ tcpip_tcp_timer_active
      BY <1>2, <3>1 DEF tcp_timer_needed
    <3>3. sys_timeout(next_timeout, tcpip_tcp_timer, Interval[tcpip_tcp_timer], next_timeout')
      BY <1>2, <3>1 DEF tcp_timer_needed, Start
    <3>4. Once(next_timeout, Needed) /\ Len(next_timeout) = Len(Periodic) + 0
      BY <3>2 DEF IInv, ListInv, HandleMsg
    <3> QED
      BY <3>2, <3>3, <3>4, PeriodicHandlers
  <2>2. /\ Len(next_timeout) < MEMP_NUM_SYS_TIMEOUT /\ tcpip_tcp_timer \notin Needed
        /\ Needed \in SUBSET Handlers /\ tcpip_tcp_timer \in Handlers
    BY <2>1, RoomForOne, PeriodicHandlers DEF Needed
  <2> QED
    BY <2>1, <2>2, StartSets
<1> QED
  BY <1>1, <1>2

LEMMA InitSets ==
  ASSUME IInv, sys_timeouts_init
  PROVE  Clock!Set \/ Left' = Left
<1>1. Once(next_timeout, Started)
  BY DEF IInv, ListInv, sys_timeouts_init
<1>2. CASE next_timeout' = next_timeout
  BY <1>2, LeftIsOf
<1>3. CASE next_timeout' # next_timeout
  <2> DEFINE n == Len(next_timeout) + 1
             h == Periodic[n]
  <2>1. /\ Len(next_timeout) < Len(Periodic)
        /\ sys_timeout(next_timeout, h, Interval[h], next_timeout')
    BY <1>3 DEF sys_timeouts_init, Start
  <2>2. Len(next_timeout) \in Nat /\ n \in 1..Len(Periodic) /\ h \in Handlers
    BY <1>1, <2>1, PeriodicHandlers DEF Once
  <2>3. Started \in SUBSET Handlers /\ h \notin Started
    <3>1. \A i, j \in 1..Len(Periodic) : Periodic[i] = Periodic[j] => i = j
      BY PeriodicHandlers, ConstantsAssumption
    <3>2. \A i \in 1..Len(next_timeout) : i \in 1..Len(Periodic) /\ i # n
      BY <2>1, <2>2, PeriodicHandlers
    <3>3. Started \in SUBSET Handlers
      BY <3>2, PeriodicHandlers DEF Started
    <3> HIDE DEF n
    <3>4. h \notin Started
      BY <2>2, <3>1, <3>2 DEF Started
    <3> QED
      BY <3>3, <3>4
  <2>4. Len(next_timeout) < MEMP_NUM_SYS_TIMEOUT
    BY <2>1, <2>2, RoomForOne, PeriodicHandlers
  <2> HIDE DEF h
  <2> QED
    BY <1>1, <2>1, <2>2, <2>3, <2>4, StartSets
<1> QED
  BY <1>2, <1>3

\* Every step of the thread, the clock and the other tasks is a step of the alarm
\* clock or none.
LEMMA ClockSteps ==
  ASSUME IInv, [Next]_vars
  PROVE  [Clock!Next]_Left
<1>1. CASE sys_timeouts_init
  BY <1>1, InitSets DEF Clock!Next
<1>2. CASE Receive
  BY <1>2, ReceivePasses DEF Clock!Next
<1>3. CASE Fire
  BY <1>3, FireRings DEF Clock!Next
<1>4. CASE HandleMsg
  BY <1>4, HandleMsgSets DEF Clock!Next
<1>5. CASE Wait \/ Post \/ TimeTick \/ UNCHANGED vars
  <2>1. next_timeout' = next_timeout
    BY <1>5 DEF Wait, Post, TimeTick, vars
  <2> QED
    BY <2>1, LeftIsOf
<1> QED
  BY <1>1, <1>2, <1>3, <1>4, <1>5 DEF Next, Thread

-----------------------------------------------------------------------------
(* The theorems.                                                           *)

\* No time on the list is negative: the u32 differences of sys_timeout and
\* sys_timeouts_mbox_fetch do not wrap.
THEOREM TypeCorrect == Spec => []TypeOK
<1>1. IInv => TypeOK
  BY DEF IInv
<1> QED
  BY <1>1, InvariantHolds, PTL

\* Every timer that should be is on the list, and once (timers.c 79-308, 423-477).
THEOREM NoTimerIsLost == Spec => []TimersAreListed
<1>1. ASSUME IInv PROVE TimersAreListed
  <2> SUFFICES ASSUME pc # "init" PROVE TimersAreListed
    BY DEF TimersAreListed
  <2>1. Once(next_timeout, Needed) /\ (pcbs => tcpip_tcp_timer_active)
    BY <1>1 DEF IInv, ListInv
  <2>2. DOMAIN next_timeout = 1..Len(next_timeout)
    BY <2>1 DEF Once
  <2>3. ASSUME NEW h \in Needed PROVE Cardinality(Listed(h)) = 1
    <3>1. PICK i \in 1..Len(next_timeout) : next_timeout[i].h = h
      BY <2>1 DEF Once
    <3>2. Listed(h) = {i}
      BY <2>1, <2>2, <3>1 DEF Once, Listed
    <3> QED
      BY <3>2, FS_Singleton
  <2>4. ASSUME NEW h, h \notin Needed PROVE Cardinality(Listed(h)) = 0
    <3>1. Listed(h) = {}
      BY <2>1, <2>2, <2>4 DEF Once, Listed
    <3> QED
      BY <3>1, FS_EmptySet
  <2>5. \A i \in DOMAIN Periodic : Periodic[i] \in Needed
    BY DEF Needed
  <2>6. tcpip_tcp_timer \in Needed <=> tcpip_tcp_timer_active
    BY PeriodicHandlers DEF Needed
  <2> QED
    BY <2>1, <2>3, <2>4, <2>5, <2>6 DEF TimersAreListed
<1> QED
  BY <1>1, InvariantHolds, PTL

\* The list of differences is an alarm clock: whatever is started, waited for and
\* fired in whatever order, no timer's time depends on the others of the list
\* (timers.c 256-308, 423-477).
THEOREM ListIsAlarmClock == Spec => IsAlarmClock
<1>1. Init => Clock!Init
  <2> SUFFICES ASSUME Init PROVE Clock!Init
    OBVIOUS
  <2>1. Once(next_timeout, {})
    <3>1. Len(next_timeout) = 0 /\ next_timeout \in Seq(Entry)
      BY DEF Init
    <3> QED
      BY <3>1 DEF Once
  <2>2. Left = [h \in {} |-> Left[h]]
    BY <2>1, LeftIs, LeftIsOf
  <2> QED
    BY <2>2 DEF Clock!Init
<1>2. IInv /\ [Next]_vars => [Clock!Next]_Left
  BY ClockSteps
<1> QED
  BY <1>1, <1>2, InvariantHolds, PTL DEF Spec, IsAlarmClock, Clock!Spec
=============================================================================
