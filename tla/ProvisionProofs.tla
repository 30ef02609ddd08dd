--------------------------- MODULE ProvisionProofs -------------------------
(***************************************************************************)
(* mqtt_thread only ever runs with the credentials of one registration,    *)
(* proved for every number of power failures, resets, pieces and           *)
(* registrations, and for flash writes that power cuts short.              *)
(*                                                                         *)
(* The answer that carries a password does not say whose it is.  That it   *)
(* belongs to the user name in the flash rests on the whole exchange: a    *)
(* connection has one answer, fin_step and regist_buf stay what they were  *)
(* when the request was built until that answer is parsed, and an answer   *)
(* of an earlier connection is never read.                                 *)
(***************************************************************************)
EXTENDS Provision, SequenceTheorems, TLAPS

Answers == {"0", "1", "2", "3", "4", "other"}

Registering == {"connect", "recv", "parse", "send", "register_flash", "query_flash"}

\* The server registers the device again only after it forgot it.
AccountInv ==
  /\ used["forget"] <= MaxForget
  /\ gen <= used["forget"] + (IF account = "none" THEN 0 ELSE 1)

TypeInv == TypeOK /\ AccountInv

\* What is stored, and when mqtt_task may go.
StoreInv ==
  /\ flash.user \in {Blank, Torn} \/ \E g \in 1..gen : flash.user = Name(g)
  /\ \/ flash.pass = Blank
     \/ \E g \in 1..gen : flash.user = Name(g) /\ flash.pass \in {Pass(g), Torn}
  /\ TCP_STEP # "boot" => regist_buf = flash.user /\ passcode_buf = flash.pass
  /\ TCP_STEP \in Registering => flash.pass = Blank
  /\ TCP_STEP \in {"ready", "complete"} => flash.pass # Blank
  /\ regist_sem > 0 \/ mqtt = "running" => TCP_STEP = "suspended" /\ flash.pass # Blank
  /\ TCP_STEP = "register_flash" => \E g \in 1..gen : get_passidbuf = Name(g)
  /\ TCP_STEP = "query_flash" =>
       \E g \in 1..gen : get_passidbuf = Pass(g) /\ flash.user = Name(g)

\* A value is of the kind fin_step says, and a password is that of the stored name.
Good(msg) ==
  msg.kind = "0" =>
    \E g \in 1..gen :
      IF fin_step = "REG" THEN msg.value = Name(g)
      ELSE msg.value = Pass(g) /\ flash.user = Name(g)

NoAnswer == \A i \in 1..Len(recvmbox) : recvmbox[i].kind \notin Answers

\* One connection, one request, one answer.
ExchangeInv ==
  /\ TCP_STEP \in {"boot", "ready", "connect"} =>
       session = "closed" /\ recvmbox = <<>> /\ conn = "deleted"
  /\ session \in {"greet", "open"} =>
       /\ conn = "up" /\ TCP_STEP \in {"recv", "parse", "send"}
       /\ NoAnswer /\ (TCP_STEP = "parse" => recvbuf.kind \notin Answers)
       /\ sendbuf = RequestFor(fin_step)
  /\ session # "closed" /\ asked # NoRequest => session = "open" /\ asked = RequestFor(fin_step)
  /\ \A i \in 1..Len(recvmbox) : recvmbox[i].kind \in Answers =>
       /\ TCP_STEP \in {"recv", "parse", "send"} /\ Good(recvmbox[i])
       /\ TCP_STEP = "parse" => recvbuf.kind \notin Answers
       /\ \A j \in 1..Len(recvmbox) : recvmbox[j].kind \in Answers => i = j
  /\ TCP_STEP = "parse" /\ recvbuf.kind \in Answers => Good(recvbuf)

IInv == TypeInv /\ StoreInv /\ ExchangeInv
-----------------------------------------------------------------------------
(* Typing.                                                                 *)

LEMMA Credentials ==
  /\ Blank \in Cred /\ Torn \in Cred
  /\ \A g \in 0..(MaxForget + 1) : Name(g) \in Cred /\ Pass(g) \in Cred
  /\ \A g, h : /\ Name(g) = Name(h) => g = h
               /\ Pass(g) = Pass(h) => g = h
               /\ Name(g) # Pass(h) /\ Name(g) # Blank /\ Pass(g) # Blank
               /\ Name(g) # Torn /\ Pass(g) # Torn
  /\ Torn # Blank
<1>1. Blank \in Cred /\ Torn \in Cred
  BY ConstantsAssumption DEF Blank, Torn, Cred
<1>2. \A g \in 0..(MaxForget + 1) : Name(g) \in Cred /\ Pass(g) \in Cred
  BY DEF Name, Pass, Cred
<1>3. ASSUME NEW g, NEW h
      PROVE  /\ Name(g) = Name(h) => g = h
             /\ Pass(g) = Pass(h) => g = h
             /\ Name(g) # Pass(h) /\ Name(g) # Blank /\ Pass(g) # Blank
             /\ Name(g) # Torn /\ Pass(g) # Torn
  <2>1. Name(g).gen = g /\ Name(h).gen = h /\ Pass(g).gen = g /\ Pass(h).gen = h
    BY DEF Name, Pass
  <2>2. Name(g).kind = "name" /\ Pass(g).kind = "pass" /\ Pass(h).kind = "pass"
    BY DEF Name, Pass
  <2>3. Blank.kind = "blank" /\ Torn.kind = "torn"
    BY DEF Blank, Torn
  <2> QED
    BY <2>1, <2>2, <2>3
<1>4. Torn # Blank
  BY DEF Torn, Blank
<1> QED
  BY <1>1, <1>2, <1>3, <1>4

LEMMA Requests ==
  /\ NoRequest \in Request /\ Register \in Request
  /\ \A c \in Cred : Query(c) \in Request
  /\ Register.method = "register" /\ NoRequest.method = "none"
  /\ \A c : Query(c).method = "query" /\ Query(c).code = c
<1>1. NoRequest \in Request /\ Register \in Request
  BY Credentials DEF NoRequest, Register, Request
<1>2. \A c \in Cred : Query(c) \in Request
  BY DEF Query, Request
<1> QED
  BY <1>1, <1>2 DEF Query, Register, NoRequest

LEMMA Messages ==
  /\ \A kind \in Kinds : Plain(kind) \in Message /\ Plain(kind).kind = kind
  /\ \A value \in Cred : [kind |-> "0", value |-> value] \in Message
<1>1. ASSUME NEW kind \in Kinds PROVE Plain(kind) \in Message /\ Plain(kind).kind = kind
  BY Credentials DEF Plain, Message
<1>2. ASSUME NEW value \in Cred PROVE [kind |-> "0", value |-> value] \in Message
  BY DEF Message, Kinds
<1> QED
  BY <1>1, <1>2

\* What a step takes of a bound.
LEMMA UseBound ==
  ASSUME TypeInv, NEW b \in Bounds, Use(b)
  PROVE  /\ used' \in [Bounds -> Nat]
         /\ used'["forget"] = used["forget"] + (IF b = "forget" THEN 1 ELSE 0)
         /\ used'["forget"] <= MaxForget
<1>1. used \in [Bounds -> Nat] /\ "forget" \in Bounds
  BY DEF TypeInv, TypeOK, Bounds
<1>2. used' = [used EXCEPT ![b] = used[b] + 1] /\ used[b] < Limit[b]
  BY DEF Use
<1>3. Limit["forget"] = MaxForget
  BY <1>1 DEF Limit
<1>4. used' \in [Bounds -> Nat]
  BY <1>1, <1>2
<1>5. used'["forget"] = IF b = "forget" THEN used[b] + 1 ELSE used["forget"]
  BY <1>1, <1>2
<1>6. used["forget"] \in Nat /\ used["forget"] <= MaxForget /\ MaxForget \in Nat
  BY <1>1, ConstantsAssumption DEF TypeInv, AccountInv
<1> QED
  BY <1>2, <1>3, <1>4, <1>5, <1>6

\* A step that leaves the server and the bounds alone, or uses another bound.
LEMMA SameAccount ==
  ASSUME TypeInv, UNCHANGED server,
         used' = used \/ \E b \in Bounds \ {"forget"} : Use(b)
  PROVE  AccountInv' /\ used' \in [Bounds -> Nat]
<1>1. CASE used' = used
  BY <1>1 DEF TypeInv, TypeOK, AccountInv, server
<1>2. ASSUME NEW b \in Bounds \ {"forget"}, Use(b)
      PROVE  AccountInv' /\ used' \in [Bounds -> Nat]
  <2>1. used' \in [Bounds -> Nat] /\ used'["forget"] = used["forget"] + 0
    BY <1>2, UseBound
  <2>2. used["forget"] \in Nat
    BY DEF TypeInv, TypeOK, Bounds
  <2> QED
    BY <2>1, <2>2 DEF TypeInv, AccountInv, server
<1> QED
  BY <1>1, <1>2

LEMMA NextRequest ==
  ASSUME TypeOK, NEW fin
  PROVE  RequestFor(fin) \in Request
  BY Requests DEF RequestFor, TypeOK

LEMMA InitTypeInv == Init => TypeInv
<1> SUFFICES ASSUME Init PROVE TypeInv
  OBVIOUS
<1>1. recvmbox \in Seq(Message)
  BY DEF Init
<1>2. Plain("none") \in Message
  BY Messages DEF Kinds
<1>3. flash \in [user : Cred, pass : Cred]
  BY Credentials DEF Init
<1>4. used \in [Bounds -> Nat] /\ used["forget"] = 0
  BY DEF Init, Bounds
<1>5. gen = 0 /\ account = "none" /\ 0 \in 0..(MaxForget + 1) /\ 0 <= MaxForget
  BY ConstantsAssumption DEF Init
<1>6. TypeOK
  BY <1>1, <1>2, <1>3, <1>4, <1>5, Credentials, Requests DEF Init, TypeOK
<1> QED
  BY <1>4, <1>5, <1>6 DEF TypeInv, AccountInv

\* The task's own steps.
LEMMA ClientTypeOK ==
  ASSUME TypeInv, Client \/ MqttTask
  PROVE  TypeOK'
<1> USE DEF Goto, client, link, server, task, Parsed, ClientSteps
<1>0. TypeOK
  BY DEF TypeInv
<1>1. <<>> \in Seq(Message)
  OBVIOUS
<1>2. CASE Boot
  BY <1>0, <1>2, Requests DEF Boot, TypeOK
<1>3. CASE Ready
  BY <1>0, <1>3 DEF Ready, TypeOK
<1>4. CASE Connect
  <2>1. sendbuf' \in Request /\ asked' \in Request
    BY <1>0, <1>4, NextRequest, Requests DEF Connect
  <2>2. recvmbox' \in Seq(Message)
    BY <1>1, <1>4 DEF Connect
  <2> QED
    BY <1>0, <1>4, <2>1, <2>2 DEF Connect, TypeOK
<1>5. CASE Recv
  <2>1. Head(recvmbox) \in Message /\ Tail(recvmbox) \in Seq(Message)
    BY <1>0, <1>5, HeadTailProperties DEF Recv, TypeOK
  <2> QED
    BY <1>0, <1>5, <2>1 DEF Recv, TypeOK
<1>6. CASE RecvClosed
  <2>1. recvmbox' \in Seq(Message)
    BY <1>1, <1>6 DEF RecvClosed, Delete
  <2> QED
    BY <1>0, <1>6, <2>1 DEF RecvClosed, Delete, TypeOK
<1>7. CASE ParseOther
  BY <1>0, <1>7 DEF ParseOther, TypeOK
<1>8. CASE ParseValue
  <2>1. recvbuf.value \in Cred
    BY <1>0 DEF TypeOK, Message
  <2> QED
    BY <1>0, <1>8, <2>1 DEF ParseValue, TypeOK
<1>9. CASE ParseRefused
  BY <1>0, <1>9 DEF ParseRefused, TypeOK
<1>10. CASE ParseTwo
  <2>1. sendbuf' \in Request
    <3>1. sendbuf' = Register \/ sendbuf' = Query(regist_buf)
      BY <1>10 DEF ParseTwo, RequestFor
    <3> QED
      BY <1>0, <3>1, Requests DEF TypeOK
  <2> QED
    BY <1>0, <1>10, <2>1 DEF ParseTwo, TypeOK
<1>11. CASE ParseThree
  BY <1>0, <1>11 DEF ParseThree, TypeOK
<1>12. CASE Send
  <2>1. used' \in [Bounds -> Nat]
    BY <1>0, <1>12, UseBound DEF Send, Bounds, TypeOK
  <2>2. asked' \in Request
    BY <1>0, <1>12 DEF Send, TypeOK
  <2> QED
    BY <1>0, <1>12, <2>1, <2>2 DEF Send, TypeOK
<1>13. CASE RegisterFlash
  <2>1. flash' \in [user : Cred, pass : Cred]
    BY <1>0, <1>13 DEF RegisterFlash, TypeOK
  <2>2. sendbuf' \in Request
    BY <1>0, <1>13, Requests DEF RegisterFlash, TypeOK
  <2> QED
    BY <1>0, <1>13, <2>1, <2>2 DEF RegisterFlash, TypeOK
<1>14. CASE QueryFlash
  <2>1. flash' \in [user : Cred, pass : Cred]
    BY <1>0, <1>14 DEF QueryFlash, TypeOK
  <2> QED
    BY <1>0, <1>14, <2>1 DEF QueryFlash, TypeOK
<1>15. CASE Suspend
  <2>1. recvmbox' \in Seq(Message)
    BY <1>1, <1>15 DEF Suspend, Delete
  <2> QED
    BY <1>0, <1>15, <2>1 DEF Suspend, Delete, TypeOK
<1>16. CASE Complete
  <2>1. recvmbox' \in Seq(Message)
    BY <1>1, <1>16 DEF Complete, Delete
  <2> QED
    BY <1>0, <1>16, <2>1 DEF Complete, Delete, TypeOK
<1>17. CASE MqttTask
  <2>1. regist_sem' \in Nat
    BY <1>0, <1>17 DEF MqttTask, TypeOK
  <2> QED
    BY <1>0, <1>17, <2>1 DEF MqttTask, TypeOK
<1> QED
  BY <1>2, <1>3, <1>4, <1>5, <1>6, <1>7, <1>8, <1>9, <1>10, <1>11, <1>12, <1>13, <1>14,
     <1>15, <1>16, <1>17 DEF Client

LEMMA DeliverType ==
  ASSUME TypeInv, NEW msg \in Message, Deliver(msg)
  PROVE  /\ recvmbox' \in Seq(Message)
         /\ used' = used \/ Use("fragments")
<1>1. Append(recvmbox, msg) \in Seq(Message)
  BY AppendProperties DEF TypeInv, TypeOK
<1>2. <<Plain("piece"), Plain("piece")>> \in Seq(Message)
  BY Messages DEF Kinds
<1>3. recvmbox \o <<Plain("piece"), Plain("piece")>> \in Seq(Message)
  BY <1>2, ConcatProperties DEF TypeInv, TypeOK
<1> QED
  BY <1>1, <1>3 DEF Deliver, TypeInv, TypeOK

LEMMA StepTypeInv == TypeInv /\ [Next]_vars => TypeInv'
<1> SUFFICES ASSUME TypeInv, [Next]_vars PROVE TypeInv'
  OBVIOUS
<1> USE DEF client, link, server, task
<1>0. TypeOK /\ AccountInv /\ gen \in Nat /\ used["forget"] \in Nat /\ MaxForget \in Nat
  BY ConstantsAssumption DEF TypeInv, TypeOK, Bounds
<1>1. CASE Client \/ MqttTask
  <2>1. TypeOK'
    BY <1>1, ClientTypeOK
  <2>2. UNCHANGED server /\ (used' = used \/ Use("resets"))
    BY <1>1 DEF Client, Boot, Ready, Connect, Recv, RecvClosed, ParseOther, ParseValue,
         ParseRefused, ParseTwo, ParseThree, Parsed, Send, RegisterFlash, QueryFlash,
         Suspend, Complete, MqttTask
  <2>3. "resets" \in Bounds \ {"forget"}
    BY DEF Bounds
  <2> QED
    BY <2>1, <2>2, <2>3, SameAccount DEF TypeInv
<1>2. CASE ConnectFails
  <2>1. AccountInv' /\ used' \in [Bounds -> Nat]
    BY <1>2, SameAccount DEF ConnectFails, Bounds
  <2>2. counter' \in 0..255
    BY <1>0, <1>2 DEF ConnectFails, TypeOK
  <2> QED
    BY <1>0, <1>2, <2>1, <2>2 DEF ConnectFails, Goto, TypeInv, TypeOK, ClientSteps
<1>3. CASE PowerFails \/ PowerFailsInWrite
  <2>1. UNCHANGED server /\ Use("outages") /\ Restart /\ asked' = asked
    BY <1>3 DEF PowerFails, PowerFailsInWrite
  <2>2. AccountInv' /\ used' \in [Bounds -> Nat]
    BY <2>1, SameAccount DEF Bounds
  <2>3. flash' \in [user : Cred, pass : Cred]
    <3>1. flash \in [user : Cred, pass : Cred]
      BY <1>0 DEF TypeOK
    <3>2. ASSUME NEW place \in {"user", "pass"}
          PROVE  Remains(place) \subseteq [user : Cred, pass : Cred]
      BY <3>1, <3>2, Credentials DEF Remains
    <3> QED
      BY <1>3, <3>1, <3>2 DEF PowerFails, PowerFailsInWrite
  <2>4. recvbuf' \in Message /\ recvmbox' \in Seq(Message) /\ sendbuf' \in Request
    BY <2>1, Messages, Requests DEF Restart, Kinds
  <2> QED
    BY <1>0, <2>1, <2>2, <2>3, <2>4, Credentials DEF Restart, TypeInv, TypeOK
<1>4. CASE Greet
  <2>1. recvmbox' \in Seq(Message) /\ (used' = used \/ Use("fragments"))
    BY <1>4, DeliverType, Messages DEF Greet, Kinds
  <2>2. AccountInv' /\ used' \in [Bounds -> Nat]
    BY <1>4, <2>1, SameAccount DEF Greet, Bounds
  <2> QED
    BY <1>0, <1>4, <2>1, <2>2 DEF Greet, TypeInv, TypeOK
<1>5. CASE Serve
  <2>1. PICK msg : Deliver(msg) /\ msg \in Message
    /\ \/ UNCHANGED server
       \/ account = "none" /\ account' = "pending" /\ gen' = gen + 1
    <3>1. CASE asked.method = "register" /\ account = "none"
               /\ account' = "pending" /\ gen' = gen + 1
               /\ Deliver([kind |-> "0", value |-> Name(gen')])
      <4>1. Name(gen') \in Cred
        <5>1. gen' \in 0..(MaxForget + 1)
          BY <1>0, <3>1 DEF AccountInv
        <5> QED
          BY <5>1, Credentials
      <4> QED
        BY <3>1, <4>1, Messages
    <3>2. CASE UNCHANGED server /\ Deliver(Plain("2"))
      BY <3>2, Messages DEF Kinds
    <3>3. CASE UNCHANGED server /\ Deliver(IF account = "pending" THEN Plain("3")
                                           ELSE [kind |-> "0", value |-> Pass(gen)])
      <4>1. Pass(gen) \in Cred
        BY <1>0, Credentials DEF TypeOK
      <4> QED
        BY <3>3, <4>1, Messages DEF Kinds
    <3>4. ASSUME NEW code \in Refusals, Deliver(Plain(code)), UNCHANGED server
          PROVE  \E msg : Deliver(msg) /\ msg \in Message /\ UNCHANGED server
      BY <3>4, Messages, ConstantsAssumption DEF Kinds
    <3> QED
      BY <1>5, <3>1, <3>2, <3>3, <3>4 DEF Serve, Served
  <2>2. recvmbox' \in Seq(Message) /\ (used' = used \/ Use("fragments"))
    BY <2>1, DeliverType
  <2>3. used' \in [Bounds -> Nat] /\ used'["forget"] = used["forget"]
    <3>1. CASE used' = used
      BY <1>0, <3>1 DEF TypeOK
    <3>2. CASE Use("fragments")
      <4>1. used' \in [Bounds -> Nat] /\ used'["forget"] = used["forget"] + 0
        BY <3>2, UseBound DEF Bounds
      <4> QED
        BY <1>0, <4>1
    <3> QED
      BY <2>2, <3>1, <3>2
  <2>4. AccountInv' /\ gen' \in 0..(MaxForget + 1) /\ account' \in {"none", "pending", "approved"}
    BY <1>0, <2>1, <2>3 DEF AccountInv, TypeOK
  <2>5. asked' \in Request /\ session' \in {"closed", "greet", "open", "served"}
    BY <1>0, <1>5, Requests DEF Serve, TypeOK
  <2> QED
    BY <1>0, <1>5, <2>2, <2>3, <2>4, <2>5 DEF Serve, TypeInv, TypeOK
<1>6. CASE ServerCloses
  <2>1. recvmbox' \in Seq(Message)
    BY <1>0, <1>6, Messages, AppendProperties DEF ServerCloses, TypeOK, Kinds
  <2>2. AccountInv' /\ used' \in [Bounds -> Nat]
    BY <1>6, SameAccount DEF ServerCloses
  <2> QED
    BY <1>0, <1>6, <2>1, <2>2 DEF ServerCloses, TypeInv, TypeOK
<1>7. CASE Reset
  <2>1. AccountInv' /\ used' \in [Bounds -> Nat]
    BY <1>7, SameAccount DEF Reset, Bounds
  <2>2. <<Plain("FIN")>> \in Seq(Message)
    BY Messages DEF Kinds
  <2>3. recvmbox' \in Seq(Message) /\ conn' \in {"deleted", "up", "reset"}
    BY <1>0, <1>7, <2>2 DEF Reset, TypeOK
  <2> QED
    BY <1>0, <1>7, <2>1, <2>3 DEF Reset, TypeInv, TypeOK
<1>8. CASE Approve
  BY <1>0, <1>8 DEF Approve, TypeInv, TypeOK, AccountInv
<1>9. CASE Forget
  <2>1. /\ used' \in [Bounds -> Nat] /\ used'["forget"] = used["forget"] + 1
        /\ used'["forget"] <= MaxForget
    BY <1>9, UseBound DEF Forget, Bounds
  <2> QED
    BY <1>0, <1>9, <2>1 DEF Forget, TypeInv, TypeOK, AccountInv
<1>10. CASE UNCHANGED vars
  BY <1>0, <1>10 DEF vars, TypeInv, TypeOK, AccountInv
<1> QED
  BY <1>1, <1>2, <1>3, <1>4, <1>5, <1>6, <1>7, <1>8, <1>9, <1>10 DEF Next

\* The task and the server stay within their types, for every number of outages,
\* registrations, failures, resets and pieces.
THEOREM TypeCorrect == Spec => []TypeOK
<1>1. TypeInv => TypeOK
  BY DEF TypeInv
<1> QED
  BY <1>1, InitTypeInv, StepTypeInv, PTL DEF Spec
-----------------------------------------------------------------------------
(* The exchange and the store.                                             *)

\* Steps between connections, or after the answer: nothing is on its way.
LEMMA QuietExchange ==
  ASSUME session' \notin {"greet", "open"}, session' = "closed" \/ asked' = NoRequest, NoAnswer',
         TCP_STEP' = "parse" => recvbuf'.kind \notin Answers,
         TCP_STEP' \in {"boot", "ready", "connect"} =>
           session' = "closed" /\ recvmbox' = <<>> /\ conn' = "deleted"
  PROVE  ExchangeInv'
<1>1. NoRequest' = NoRequest /\ Answers' = Answers
  BY DEF NoRequest, Blank, Answers
<1>2. \A i \in 1..Len(recvmbox') : recvmbox'[i].kind \notin Answers
  BY <1>1 DEF NoAnswer
<1> QED
  BY <1>1, <1>2 DEF ExchangeInv, NoAnswer

LEMMA EmptyMailbox == recvmbox' = <<>> => NoAnswer'
<1>1. recvmbox' = <<>> => Len(recvmbox') = 0
  OBVIOUS
<1> QED
  BY <1>1 DEF NoAnswer

\* Steps that touch neither the store nor the position of the task.
LEMMA StoreFrame ==
  ASSUME TypeInv, StoreInv, gen' = gen \/ gen' = gen + 1,
         UNCHANGED <<TCP_STEP, flash, regist_buf, passcode_buf, get_passidbuf, regist_sem, mqtt>>
  PROVE  StoreInv'
<1>1. gen \in Nat
  BY DEF TypeInv, TypeOK
<1>2. \A g \in 1..gen : g \in 1..gen'
  BY <1>1
<1> QED
  BY <1>2 DEF StoreInv

\* What was good stays good while fin_step and the stored name do.
LEMMA GoodFrame ==
  ASSUME TypeInv, gen' = gen \/ gen' = gen + 1, UNCHANGED <<fin_step, flash>>,
         NEW msg, Good(msg)
  PROVE  Good(msg)'
<1>1. gen \in Nat
  BY DEF TypeInv, TypeOK
<1>2. \A g \in 1..gen : g \in 1..gen'
  BY <1>1
<1>3. msg' = msg
  OBVIOUS
<1> QED
  BY <1>2 DEF Good

LEMMA InitIInv == Init => IInv
<1> SUFFICES ASSUME Init PROVE IInv
  OBVIOUS
<1>1. TypeInv
  BY InitTypeInv
<1>2. StoreInv
  BY DEF Init, StoreInv, Registering
<1>3. Len(recvmbox) = 0
  BY DEF Init
<1>4. ExchangeInv
  BY <1>3 DEF Init, ExchangeInv
<1> QED
  BY <1>1, <1>2, <1>4 DEF IInv

\* The steps from a restart to a connection.
LEMMA StartStep ==
  ASSUME IInv, Boot \/ Ready \/ Connect \/ ConnectFails
  PROVE  StoreInv' /\ ExchangeInv'
<1> USE DEF IInv, Goto, link, client, task, server
<1>1. CASE Boot
  <2>1. StoreInv'
    <3>1. flash.user = Blank => flash.pass = Blank
      BY Credentials DEF StoreInv
    <3> QED
      BY <1>1, <3>1 DEF Boot, StoreInv, Registering
  <2>2. recvmbox' = <<>> /\ session' = "closed" /\ conn' = "deleted" /\ TCP_STEP' # "parse"
    BY <1>1 DEF Boot, ExchangeInv
  <2> QED
    BY <2>1, <2>2, QuietExchange, EmptyMailbox
<1>2. CASE Ready
  <2>1. StoreInv'
    BY <1>2 DEF Ready, StoreInv, Registering
  <2>2. recvmbox' = <<>> /\ session' = "closed" /\ conn' = "deleted" /\ TCP_STEP' = "suspended"
    BY <1>2 DEF Ready, ExchangeInv
  <2> QED
    BY <2>1, <2>2, QuietExchange, EmptyMailbox
<1>3. CASE Connect
  <2>1. StoreInv'
    BY <1>3 DEF Connect, StoreInv, Registering
  <2>2. Len(recvmbox') = 0
    BY <1>3 DEF Connect
  <2>3. sendbuf' = RequestFor(fin_step)'
    BY <1>3 DEF Connect, RequestFor, Register, Query, Blank
  <2>4. asked' = NoRequest'
    BY <1>3 DEF Connect, NoRequest, Blank
  <2>5. session' = "greet" /\ conn' = "up" /\ TCP_STEP' = "recv"
    BY <1>3 DEF Connect
  <2>6. NoAnswer'
    BY <2>2 DEF NoAnswer
  <2>7. ExchangeInv'
    BY <2>2, <2>3, <2>4, <2>5, <2>6 DEF ExchangeInv
  <2> QED
    BY <2>1, <2>7
<1>4. CASE ConnectFails
  <2>1. StoreInv'
    BY <1>4 DEF ConnectFails, StoreInv, Registering
  <2>2. recvmbox' = <<>> /\ session' = "closed" /\ conn' = "deleted" /\ TCP_STEP' \in {"recv", "connect"}
    BY <1>4 DEF ConnectFails, ExchangeInv
  <2> QED
    BY <2>1, <2>2, QuietExchange, EmptyMailbox
<1> QED
  BY <1>1, <1>2, <1>3, <1>4

\* Reading the mailbox.
LEMMA RecvStep ==
  ASSUME IInv, Recv \/ RecvClosed
  PROVE  StoreInv' /\ ExchangeInv'
<1> USE DEF IInv, Goto, link, client, task, server
<1>1. CASE Recv
  <2>1. StoreInv'
    BY <1>1 DEF Recv, StoreInv, Registering
  <2>2. /\ recvmbox \in Seq(Message) /\ recvmbox # <<>>
        /\ recvbuf' = recvmbox[1] /\ 1 \in 1..Len(recvmbox)
        /\ Len(recvmbox') = Len(recvmbox) - 1
        /\ \A i \in 1..Len(recvmbox') : recvmbox'[i] = recvmbox[i + 1]
    BY <1>1, HeadTailProperties DEF Recv, TypeInv, TypeOK
  <2>3. \A i \in 1..Len(recvmbox') : i + 1 \in 1..Len(recvmbox) /\ i + 1 # 1
    <3>1. Len(recvmbox) \in Nat
      BY <2>2
    <3> QED
      BY <2>2, <3>1
  <2>4. /\ UNCHANGED <<fin_step, sendbuf, conn, session, asked, flash, regist_buf, gen>>
        /\ TCP_STEP = "recv" /\ TCP_STEP' = "parse" /\ conn = "up"
    BY <1>1 DEF Recv
  <2>5. \A msg : Good(msg) => Good(msg)'
    BY <2>4 DEF Good
  <2>6. RequestFor(fin_step)' = RequestFor(fin_step)
    BY <2>4 DEF RequestFor, Register, Query, Blank
  <2>7. NoRequest' = NoRequest
    BY DEF NoRequest, Blank
  <2>8. NoAnswer => NoAnswer' /\ recvbuf'.kind \notin Answers
    BY <2>2, <2>3 DEF NoAnswer
  <2>9. session' \in {"greet", "open"} =>
          /\ conn' = "up" /\ TCP_STEP' \in {"recv", "parse", "send"}
          /\ NoAnswer' /\ recvbuf'.kind \notin Answers
          /\ sendbuf' = RequestFor(fin_step)'
    BY <2>4, <2>6, <2>8 DEF ExchangeInv
  <2>10. ASSUME NEW i \in 1..Len(recvmbox'), recvmbox'[i].kind \in Answers
         PROVE  /\ Good(recvmbox[i])' /\ recvbuf'.kind \notin Answers
                /\ \A j \in 1..Len(recvmbox') : recvmbox'[j].kind \in Answers => i = j
    <3>1. i \in Nat /\ \A j \in 1..Len(recvmbox') : j \in Nat
      OBVIOUS
    <3>2. /\ Good(recvmbox[i + 1])
          /\ \A j \in 1..Len(recvmbox) : recvmbox[j].kind \in Answers => i + 1 = j
      BY <2>2, <2>3, <2>10 DEF ExchangeInv
    <3>3. recvbuf'.kind \notin Answers
      BY <2>2, <2>3, <3>2
    <3>4. \A j \in 1..Len(recvmbox') : recvmbox'[j].kind \in Answers => i = j
      BY <2>2, <2>3, <3>1, <3>2
    <3>5. Good(recvmbox[i])'
      BY <2>2, <2>4, <3>2, <2>10 DEF Good
    <3> QED
      BY <3>3, <3>4, <3>5
  <2>11. ASSUME recvbuf'.kind \in Answers PROVE Good(recvbuf)'
    <3>1. Good(recvmbox[1])
      BY <2>2, <2>11 DEF ExchangeInv
    <3> QED
      BY <2>2, <2>4, <3>1 DEF Good
  <2> QED
    BY <2>1, <2>2, <2>4, <2>6, <2>7, <2>9, <2>10, <2>11 DEF ExchangeInv, Answers
<1>2. CASE RecvClosed
  <2>1. StoreInv'
    BY <1>2 DEF RecvClosed, StoreInv, Registering
  <2>2. recvmbox' = <<>> /\ session' = "closed" /\ conn' = "deleted" /\ TCP_STEP' = "connect"
    BY <1>2 DEF RecvClosed, Delete
  <2> QED
    BY <2>1, <2>2, QuietExchange, EmptyMailbox
<1> QED
  BY <1>1, <1>2

\* Parsing.  An answer is the last thing of its connection, so nothing of the
\* exchange is left when fin_step changes.
LEMMA ParseStep ==
  ASSUME IInv, ParseOther \/ ParseValue \/ ParseRefused \/ ParseTwo \/ ParseThree
  PROVE  StoreInv' /\ ExchangeInv'
<1> USE DEF IInv, Goto, link, task, server, Parsed
<1>0. /\ UNCHANGED <<recvbuf, regist_buf, passcode_buf, flash, conn, recvmbox, session,
                     asked, regist_sem, mqtt, gen>>
      /\ TCP_STEP = "parse"
  BY DEF ParseOther, ParseValue, ParseRefused, ParseTwo, ParseThree
<1>1. CASE ParseOther
  <2>1. StoreInv'
    BY <1>1 DEF ParseOther, StoreInv, Registering
  <2>2. TCP_STEP' = "send" /\ UNCHANGED <<fin_step, sendbuf>>
    BY <1>1 DEF ParseOther
  <2>3. RequestFor(fin_step)' = RequestFor(fin_step) /\ NoRequest' = NoRequest
    BY <1>0, <2>2 DEF RequestFor, Register, Query, NoRequest, Blank
  <2>4. NoAnswer' = NoAnswer
    BY <1>0 DEF NoAnswer, Answers
  <2>5. \A i \in 1..Len(recvmbox) : Good(recvmbox[i]) => Good(recvmbox[i])'
    BY <1>0, <2>2 DEF Good
  <2>6. ExchangeInv'
    BY <1>0, <2>2, <2>3, <2>4, <2>5 DEF ExchangeInv, Answers
  <2> QED
    BY <2>1, <2>6
<1>2. ASSUME recvbuf.kind \in Answers, TCP_STEP' # "parse", TCP_STEP' \notin {"boot", "ready", "connect"}
      PROVE  ExchangeInv'
  <2>1. session \notin {"greet", "open"}
    BY <1>0, <1>2 DEF ExchangeInv
  <2>2. session = "closed" \/ asked = NoRequest
    BY <2>1 DEF ExchangeInv
  <2>3. NoAnswer
    BY <1>0, <1>2 DEF ExchangeInv, NoAnswer
  <2>4. NoAnswer' /\ NoRequest' = NoRequest
    BY <1>0, <2>3 DEF NoAnswer, Answers, NoRequest, Blank
  <2> QED
    BY <1>0, <1>2, <2>1, <2>2, <2>4, QuietExchange
<1>3. CASE ParseValue
  <2>1. recvbuf.kind \in Answers /\ recvbuf.kind = "0" /\ get_passidbuf' = recvbuf.value
        /\ fin_step' = fin_step
        /\ TCP_STEP' = IF fin_step = "QUE" THEN "query_flash" ELSE "register_flash"
    BY <1>3 DEF ParseValue, Answers
  <2>2. Good(recvbuf) /\ fin_step \in {"REG", "QUE"}
    BY <1>0, <2>1 DEF ExchangeInv, TypeInv, TypeOK
  <2>3. \E g \in 1..gen : IF fin_step = "REG" THEN get_passidbuf' = Name(g)
                          ELSE get_passidbuf' = Pass(g) /\ flash.user = Name(g)
    BY <2>1, <2>2 DEF Good
  <2>4. StoreInv'
    BY <1>0, <2>1, <2>2, <2>3 DEF StoreInv, Registering
  <2> QED
    BY <1>2, <2>1, <2>2, <2>4
<1>4. CASE ParseRefused
  <2>1. StoreInv'
    BY <1>0, <1>4 DEF ParseRefused, StoreInv, Registering
  <2> QED
    BY <1>2, <1>4, <2>1 DEF ParseRefused, Answers
<1>5. CASE ParseTwo \/ ParseThree
  <2>1. StoreInv'
    BY <1>0, <1>5 DEF ParseTwo, ParseThree, StoreInv, Registering
  <2> QED
    BY <1>2, <1>5, <2>1 DEF ParseTwo, ParseThree, Answers
<1> QED
  BY <1>1, <1>3, <1>4, <1>5

\* The request goes out as it was built for fin_step.
LEMMA SendStep ==
  ASSUME IInv, Send
  PROVE  StoreInv' /\ ExchangeInv'
<1> USE DEF IInv, Goto, client, task, server
<1>1. /\ UNCHANGED <<fin_step, sendbuf, recvbuf, get_passidbuf, regist_buf, passcode_buf,
                     flash, recvmbox, session, regist_sem, mqtt, gen>>
      /\ TCP_STEP = "send" /\ TCP_STEP' = "recv"
      /\ asked' = IF session = "open" /\ conn = "up" /\ asked = NoRequest THEN sendbuf ELSE asked
      /\ conn' = conn \/ (session = "closed" /\ conn' = "reset")
  BY DEF Send
<1>2. StoreInv'
  BY <1>1 DEF StoreInv, Registering
<1>3. RequestFor(fin_step)' = RequestFor(fin_step) /\ NoRequest' = NoRequest /\ NoAnswer' = NoAnswer
  BY <1>1 DEF RequestFor, Register, Query, NoRequest, Blank, NoAnswer, Answers
<1>4. \A i \in 1..Len(recvmbox) : Good(recvmbox[i]) => Good(recvmbox[i])'
  BY <1>1 DEF Good
<1>5. conn' = "up" => conn = "up"
  BY <1>1
<1>6. session' \in {"greet", "open"} => conn' = "up" /\ NoAnswer' /\ sendbuf' = RequestFor(fin_step)'
  BY <1>1, <1>3 DEF ExchangeInv
<1>7. session' # "closed" /\ asked' # NoRequest' => session' = "open" /\ asked' = RequestFor(fin_step)'
  <2>1. CASE asked' = asked
    BY <1>1, <1>3, <1>5, <2>1 DEF ExchangeInv
  <2>2. CASE session = "open" /\ asked' = sendbuf
    BY <1>1, <1>3, <2>2 DEF ExchangeInv
  <2> QED
    BY <1>1, <2>1, <2>2
<1>8. ExchangeInv'
  BY <1>1, <1>3, <1>4, <1>6, <1>7 DEF ExchangeInv, Answers
<1> QED
  BY <1>2, <1>8

\* The writes, and the end of the registration.
LEMMA StoreStep ==
  ASSUME IInv, RegisterFlash \/ QueryFlash \/ Suspend \/ Complete \/ MqttTask
  PROVE  StoreInv' /\ ExchangeInv'
<1> USE DEF IInv, Goto, link, client, task, server
<1>0. TypeOK
  BY DEF TypeInv
<1>1. ASSUME TCP_STEP \in {"register_flash", "query_flash", "suspended"},
             UNCHANGED <<conn, recvmbox, session, asked>>,
             TCP_STEP' \in {"recv", "complete", "suspended"}
      PROVE  ExchangeInv'
  <2>1. session \notin {"greet", "open"} /\ NoAnswer
    BY <1>1 DEF ExchangeInv, NoAnswer
  <2>2. session = "closed" \/ asked = NoRequest
    BY <2>1 DEF ExchangeInv
  <2>3. NoAnswer' /\ NoRequest' = NoRequest
    BY <1>1, <2>1 DEF NoAnswer, Answers, NoRequest, Blank
  <2> QED
    BY <1>1, <2>1, <2>2, <2>3, QuietExchange
<1>2. CASE RegisterFlash
  <2>1. PICK g \in 1..gen : get_passidbuf = Name(g)
    BY <1>2 DEF RegisterFlash, StoreInv
  <2>2. flash' = [user |-> Name(g), pass |-> Blank] /\ regist_buf' = Name(g) /\ passcode_buf' = Blank
    <3>1. flash.pass = Blank /\ passcode_buf = flash.pass
      BY <1>2 DEF RegisterFlash, StoreInv, Registering
    <3>2. flash = [user |-> flash.user, pass |-> flash.pass]
      BY <1>0 DEF TypeOK
    <3> QED
      BY <1>2, <2>1, <3>1, <3>2 DEF RegisterFlash
  <2>3. StoreInv'
    BY <1>2, <2>1, <2>2 DEF RegisterFlash, StoreInv, Registering
  <2> QED
    BY <1>1, <1>2, <2>3 DEF RegisterFlash
<1>3. CASE QueryFlash
  <2>1. PICK g \in 1..gen : get_passidbuf = Pass(g) /\ flash.user = Name(g)
    BY <1>3 DEF QueryFlash, StoreInv
  <2>2. flash' = [user |-> Name(g), pass |-> Pass(g)] /\ passcode_buf' = Pass(g)
        /\ regist_buf' = Name(g)
    <3>1. flash = [user |-> flash.user, pass |-> flash.pass] /\ regist_buf = flash.user
      BY <1>0, <1>3 DEF QueryFlash, StoreInv, TypeOK
    <3> QED
      BY <1>3, <2>1, <3>1 DEF QueryFlash
  <2>3. Pass(g) # Blank
    BY Credentials
  <2>4. StoreInv'
    BY <1>3, <2>1, <2>2, <2>3 DEF QueryFlash, StoreInv, Registering
  <2> QED
    BY <1>1, <1>3, <2>4 DEF QueryFlash
<1>4. CASE Suspend \/ Complete
  <2>1. StoreInv'
    BY <1>0, <1>4 DEF Suspend, Complete, StoreInv, Registering, TypeOK
  <2>2. recvmbox' = <<>> /\ session' = "closed" /\ conn' = "deleted" /\ TCP_STEP' = "suspended"
    BY <1>4 DEF Suspend, Complete, Delete
  <2> QED
    BY <2>1, <2>2, QuietExchange, EmptyMailbox
<1>5. CASE MqttTask
  <2>1. TCP_STEP = "suspended" /\ flash.pass # Blank
    BY <1>5 DEF MqttTask, StoreInv
  <2>2. StoreInv'
    BY <1>5, <2>1 DEF MqttTask, StoreInv, Registering
  <2> QED
    BY <1>1, <1>5, <2>1, <2>2 DEF MqttTask
<1> QED
  BY <1>2, <1>3, <1>4, <1>5

\* What Deliver leaves in the mailbox.
LEMMA Delivered ==
  ASSUME TypeOK, NEW msg \in Message, Deliver(msg)
  PROVE  \A i \in 1..Len(recvmbox') :
           \/ i \in 1..Len(recvmbox) /\ recvmbox'[i] = recvmbox[i]
           \/ recvmbox'[i].kind = "piece"
           \/ i = Len(recvmbox) + 1 /\ recvmbox'[i] = msg /\ session # "closed"
<1>1. recvmbox \in Seq(Message) /\ Len(recvmbox) \in Nat
  BY DEF TypeOK
<1>2. CASE recvmbox' = recvmbox
  BY <1>2
<1>3. CASE session # "closed" /\ recvmbox' = Append(recvmbox, msg)
  <2>1. /\ Len(recvmbox') = Len(recvmbox) + 1
        /\ \A i \in 1..Len(recvmbox) : recvmbox'[i] = recvmbox[i]
        /\ recvmbox'[Len(recvmbox) + 1] = msg
    BY <1>1, <1>3, AppendProperties
  <2> QED
    BY <1>1, <1>3, <2>1
<1>4. CASE recvmbox' = recvmbox \o <<Plain("piece"), Plain("piece")>>
  <2> DEFINE p == <<Plain("piece"), Plain("piece")>>
  <2>1. p \in Seq(Message) /\ Len(p) = 2 /\ p[1].kind = "piece" /\ p[2].kind = "piece"
    BY Messages DEF Kinds
  <2> HIDE DEF p
  <2>2. /\ Len(recvmbox \o p) = Len(recvmbox) + Len(p)
        /\ \A i \in 1..(Len(recvmbox) + Len(p)) :
             (recvmbox \o p)[i] = IF i <= Len(recvmbox) THEN recvmbox[i] ELSE p[i - Len(recvmbox)]
    BY <1>1, <2>1, ConcatProperties
  <2>3. recvmbox' = recvmbox \o p
    BY <1>4 DEF p
  <2>4. ASSUME NEW i \in 1..Len(recvmbox'), i > Len(recvmbox)
        PROVE  recvmbox'[i].kind = "piece"
    <3>1. i - Len(recvmbox) = 1 \/ i - Len(recvmbox) = 2
      BY <1>1, <2>1, <2>2, <2>3, <2>4
    <3>2. recvmbox'[i] = p[i - Len(recvmbox)]
      BY <1>1, <2>1, <2>2, <2>3, <2>4
    <3> QED
      BY <2>1, <3>1, <3>2
  <2>5. ASSUME NEW i \in 1..Len(recvmbox'), i <= Len(recvmbox)
        PROVE  i \in 1..Len(recvmbox) /\ recvmbox'[i] = recvmbox[i]
    BY <1>1, <2>1, <2>2, <2>3, <2>5
  <2> QED
    BY <1>1, <2>4, <2>5
<1> QED
  BY <1>2, <1>3, <1>4 DEF Deliver

\* The server's steps leave the task and the store alone.
LEMMA ServerStep ==
  ASSUME IInv, Greet \/ Serve \/ ServerCloses \/ Reset \/ Approve \/ Forget
  PROVE  StoreInv' /\ ExchangeInv'
<1> USE DEF IInv
<1>0. TypeOK
  BY DEF TypeInv
<1>1. /\ UNCHANGED <<TCP_STEP, fin_step, sendbuf, recvbuf, get_passidbuf, regist_buf,
                     passcode_buf, flash, regist_sem, mqtt>>
      /\ gen' = gen \/ gen' = gen + 1
  BY DEF Greet, Serve, Served, ServerCloses, Reset, Approve, Forget, client, task, server
<1>2. StoreInv'
  BY <1>1, StoreFrame
<1>3. RequestFor(fin_step)' = RequestFor(fin_step) /\ NoRequest' = NoRequest
  BY <1>1 DEF RequestFor, Register, Query, NoRequest, Blank
<1>4. \A msg : Good(msg) => (msg.kind = "0" =>
        \E g \in 1..gen' : IF fin_step' = "REG" THEN msg.value = Name(g)
                           ELSE msg.value = Pass(g) /\ flash'.user = Name(g))
  <2>1. \A g \in 1..gen : g \in 1..gen'
    BY <1>0, <1>1 DEF TypeOK
  <2> QED
    BY <1>1, <2>1 DEF Good
<1>5. TCP_STEP' = "parse" /\ recvbuf'.kind \in Answers => Good(recvbuf)'
  <2>1. TCP_STEP = "parse" /\ recvbuf.kind \in Answers => Good(recvbuf)
    BY DEF ExchangeInv
  <2>2. Good(recvbuf) => Good(recvbuf)'
    BY <1>1, <1>4 DEF Good
  <2> QED
    BY <1>1, <2>1, <2>2
\* Steps that bring no answer.
<1>6. ASSUME \A i \in 1..Len(recvmbox') :
               \/ i \in 1..Len(recvmbox) /\ recvmbox'[i] = recvmbox[i]
               \/ recvmbox'[i].kind \notin Answers,
             asked' = asked \/ asked' = NoRequest,
             session = "closed" /\ conn = "deleted" =>
               UNCHANGED <<session, conn, recvmbox>>,
             session' \in {"greet", "open"} => session \in {"greet", "open"} /\ conn' = conn,
             session' # "closed" => session # "closed" /\ (session = "open" => session' = "open" \/ asked' = NoRequest)
      PROVE  ExchangeInv'
  <2>1. TCP_STEP' \in {"boot", "ready", "connect"} =>
          session' = "closed" /\ recvmbox' = <<>> /\ conn' = "deleted"
    BY <1>1, <1>6 DEF ExchangeInv
  <2>2. session' \in {"greet", "open"} => NoAnswer'
    <3>1. session' \in {"greet", "open"} => NoAnswer
      BY <1>6 DEF ExchangeInv
    <3> QED
      BY <1>6, <3>1 DEF NoAnswer
  <2>3. session' \in {"greet", "open"} =>
          /\ conn' = "up" /\ TCP_STEP' \in {"recv", "parse", "send"}
          /\ NoAnswer' /\ (TCP_STEP' = "parse" => recvbuf'.kind \notin Answers)
          /\ sendbuf' = RequestFor(fin_step)'
    BY <1>1, <1>3, <1>6, <2>2 DEF ExchangeInv
  <2>4. session' # "closed" /\ asked' # NoRequest' =>
          session' = "open" /\ asked' = RequestFor(fin_step)'
    BY <1>3, <1>6 DEF ExchangeInv
  <2>5. ASSUME NEW i \in 1..Len(recvmbox'), recvmbox'[i].kind \in Answers
        PROVE  /\ TCP_STEP' \in {"recv", "parse", "send"} /\ Good(recvmbox[i])'
               /\ TCP_STEP' = "parse" => recvbuf'.kind \notin Answers
               /\ \A j \in 1..Len(recvmbox') : recvmbox'[j].kind \in Answers => i = j
    <3>1. i \in 1..Len(recvmbox) /\ recvmbox'[i] = recvmbox[i]
      BY <1>6, <2>5
    <3>2. /\ TCP_STEP \in {"recv", "parse", "send"} /\ Good(recvmbox[i])
          /\ TCP_STEP = "parse" => recvbuf.kind \notin Answers
          /\ \A j \in 1..Len(recvmbox) : recvmbox[j].kind \in Answers => i = j
      BY <2>5, <3>1 DEF ExchangeInv
    <3>3. Good(recvmbox[i])'
      BY <1>4, <3>1, <3>2 DEF Good
    <3>4. \A j \in 1..Len(recvmbox') : recvmbox'[j].kind \in Answers => i = j
      BY <1>6, <3>2
    <3> QED
      BY <1>1, <3>2, <3>3, <3>4
  <2>6. Answers' = Answers
    BY DEF Answers
  <2> QED
    BY <1>5, <2>1, <2>3, <2>4, <2>5, <2>6 DEF ExchangeInv
<1>7. CASE Greet
  <2>1. /\ session = "greet" /\ session' = "open" /\ Deliver(Plain("hi"))
        /\ UNCHANGED <<conn, asked>>
    BY <1>7 DEF Greet
  <2>2. \A i \in 1..Len(recvmbox') :
          \/ i \in 1..Len(recvmbox) /\ recvmbox'[i] = recvmbox[i]
          \/ recvmbox'[i].kind \in {"piece", "hi"}
    BY <1>0, <2>1, Delivered, Messages DEF Kinds
  <2>3. \A i \in 1..Len(recvmbox') :
          \/ i \in 1..Len(recvmbox) /\ recvmbox'[i] = recvmbox[i]
          \/ recvmbox'[i].kind \notin Answers
    BY <2>2 DEF Answers
  <2> QED
    BY <1>2, <1>6, <2>1, <2>3
<1>8. CASE ServerCloses
  <2>1. /\ session = "served" /\ session' = "closed"
        /\ recvmbox' = Append(recvmbox, Plain("FIN"))
        /\ UNCHANGED <<conn, asked>>
    BY <1>8 DEF ServerCloses
  <2>2. recvmbox \in Seq(Message) /\ Plain("FIN") \in Message /\ Plain("FIN").kind = "FIN"
    BY <1>0, Messages DEF TypeOK, Kinds
  <2>3. /\ Len(recvmbox') = Len(recvmbox) + 1
        /\ \A i \in 1..Len(recvmbox) : recvmbox'[i] = recvmbox[i]
        /\ recvmbox'[Len(recvmbox) + 1] = Plain("FIN")
    BY <2>1, <2>2, AppendProperties
  <2>4. \A i \in 1..Len(recvmbox') : i \in 1..Len(recvmbox) \/ i = Len(recvmbox) + 1
    BY <2>2, <2>3
  <2>5. \A i \in 1..Len(recvmbox') :
          \/ i \in 1..Len(recvmbox) /\ recvmbox'[i] = recvmbox[i]
          \/ recvmbox'[i].kind \notin Answers
    BY <2>2, <2>3, <2>4 DEF Answers
  <2> QED
    BY <1>2, <1>6, <2>1, <2>5
<1>9. CASE Reset
  <2>1. conn = "up" /\ session' = "closed" /\ asked' = asked
    BY <1>9 DEF Reset
  <2>2. Plain("FIN").kind = "FIN" /\ Len(<<Plain("FIN")>>) = 1
    BY Messages DEF Kinds
  <2>3. recvmbox' = recvmbox \/ recvmbox' = <<Plain("FIN")>>
    BY <1>9 DEF Reset
  <2>4. \A i \in 1..Len(recvmbox') :
          \/ i \in 1..Len(recvmbox) /\ recvmbox'[i] = recvmbox[i]
          \/ recvmbox'[i].kind \notin Answers
    <3>1. CASE recvmbox' = recvmbox
      BY <3>1
    <3>2. CASE recvmbox' = <<Plain("FIN")>>
      <4>1. \A i \in 1..Len(recvmbox') : recvmbox'[i] = Plain("FIN")
        BY <2>2, <3>2
      <4> QED
        BY <2>2, <4>1 DEF Answers
    <3> QED
      BY <2>3, <3>1, <3>2
  <2> QED
    BY <1>2, <1>6, <2>1, <2>4
<1>10. CASE Approve \/ Forget
  <2>1. UNCHANGED <<conn, recvmbox, session, asked>>
    BY <1>10 DEF Approve, Forget, link
  <2> QED
    BY <1>2, <1>6, <2>1
<1>11. CASE Serve
  <2>1. /\ asked # NoRequest /\ Served /\ asked' = NoRequest /\ conn' = conn
        /\ session' = IF session = "open" THEN "served" ELSE session
    BY <1>11 DEF Serve
  <2>2. CASE session = "closed"
    <3>1. session \notin {"greet", "open"}
      BY <2>2 DEF ExchangeInv
    <3>2. recvmbox' = recvmbox
      BY <2>1, <2>2 DEF Served, Deliver
    <3> QED
      BY <1>2, <1>6, <2>1, <2>2, <3>1, <3>2
  <2>3. CASE session # "closed"
    <3>1. /\ session = "open" /\ asked = RequestFor(fin_step)
          /\ TCP_STEP \in {"recv", "parse", "send"}
          /\ NoAnswer /\ (TCP_STEP = "parse" => recvbuf.kind \notin Answers)
      BY <2>1, <2>3 DEF ExchangeInv
    <3>2. PICK msg \in Message : Deliver(msg) /\ Good(msg)'
      <4>1. CASE asked.method = "register" /\ account = "none"
                 /\ account' = "pending" /\ gen' = gen + 1
                 /\ Deliver([kind |-> "0", value |-> Name(gen')])
        <5>1. fin_step = "REG"
          BY <3>1, <4>1, Requests DEF RequestFor
        <5>2. gen' \in 0..(MaxForget + 1) /\ gen' \in 1..gen'
          <6>1. gen \in Nat /\ used["forget"] \in Nat /\ used["forget"] <= MaxForget
                /\ gen <= used["forget"] /\ MaxForget \in Nat
            BY <1>0, <4>1, ConstantsAssumption DEF TypeInv, AccountInv, TypeOK, Bounds
          <6> QED
            BY <4>1, <6>1
        <5> DEFINE m == [kind |-> "0", value |-> Name(gen')]
        <5>3. m \in Message
          BY <5>2, Credentials, Messages
        <5>4. m.kind = "0" => \E g \in 1..gen' :
                IF fin_step' = "REG" THEN m.value = Name(g)
                ELSE m.value = Pass(g) /\ flash'.user = Name(g)
          BY <1>1, <5>1, <5>2
        <5> QED
          BY <4>1, <5>3, <5>4 DEF Good
      <4>2. CASE Deliver(Plain("2")) \/ \E code \in Refusals : Deliver(Plain(code))
        <5>1. PICK kind \in {"1", "2", "4", "other"} : Deliver(Plain(kind))
          BY <4>2, ConstantsAssumption
        <5>2. Plain(kind) \in Message /\ Plain(kind).kind # "0"
          BY <5>1, Messages DEF Kinds
        <5>3. Good(Plain(kind))'
          BY <5>2 DEF Good, Plain, Blank
        <5> QED
          BY <5>1, <5>2, <5>3
      <4>3. CASE /\ asked.method = "query" /\ asked.code = Name(gen)
                 /\ Deliver(IF account = "pending" THEN Plain("3")
                            ELSE [kind |-> "0", value |-> Pass(gen)])
                 /\ UNCHANGED server
        <5>1. fin_step # "REG" /\ asked.code = regist_buf
          BY <3>1, <4>3, Requests DEF RequestFor
        <5>2. flash.user = Name(gen)
          BY <3>1, <4>3, <5>1 DEF StoreInv
        <5>3. gen \in 1..gen
          BY <5>2, Credentials DEF StoreInv
        <5>4. CASE account = "pending"
          <6>1. Plain("3") \in Message /\ Plain("3").kind # "0"
            BY Messages DEF Kinds
          <6>2. Good(Plain("3"))'
            BY <6>1 DEF Good, Plain, Blank
          <6> QED
            BY <4>3, <5>4, <6>1, <6>2
        <5>5. CASE account # "pending"
          <6> DEFINE m == [kind |-> "0", value |-> Pass(gen)]
          <6>1. m \in Message
            BY <1>0, Credentials, Messages DEF TypeOK
          <6>2. gen' = gen
            BY <4>3 DEF server
          <6>3. m.kind = "0" => \E g \in 1..gen' :
                  IF fin_step' = "REG" THEN m.value = Name(g)
                  ELSE m.value = Pass(g) /\ flash'.user = Name(g)
            BY <1>1, <5>1, <5>2, <5>3, <6>2
          <6> QED
            BY <4>3, <5>5, <6>1, <6>3 DEF Good
        <5> QED
          BY <5>4, <5>5
      <4> QED
        BY <2>1, <4>1, <4>2, <4>3 DEF Served
    <3>3. \A i \in 1..Len(recvmbox') : recvmbox'[i].kind \in Answers =>
            i = Len(recvmbox) + 1 /\ recvmbox'[i] = msg
      <4>1. \A i \in 1..Len(recvmbox') :
              \/ i \in 1..Len(recvmbox) /\ recvmbox'[i] = recvmbox[i]
              \/ recvmbox'[i].kind = "piece"
              \/ i = Len(recvmbox) + 1 /\ recvmbox'[i] = msg
        BY <1>0, <3>2, Delivered
      <4> QED
        BY <3>1, <4>1 DEF NoAnswer, Answers
    <3>4. ASSUME NEW i \in 1..Len(recvmbox'), recvmbox'[i].kind \in Answers
          PROVE  /\ TCP_STEP' \in {"recv", "parse", "send"} /\ Good(recvmbox[i])'
                 /\ TCP_STEP' = "parse" => recvbuf'.kind \notin Answers
                 /\ \A j \in 1..Len(recvmbox') : recvmbox'[j].kind \in Answers => i = j
      BY <1>1, <3>1, <3>2, <3>3, <3>4 DEF Good
    <3>5. session' = "served" /\ Answers' = Answers
      BY <2>1, <3>1 DEF Answers
    <3> QED
      BY <1>1, <1>2, <1>3, <1>5, <2>1, <3>1, <3>4, <3>5 DEF ExchangeInv
  <2> QED
    BY <2>2, <2>3
<1> QED
  BY <1>7, <1>8, <1>9, <1>10, <1>11

\* A power failure takes what is in RAM, and leaves the flash as it was, or as the
\* write that it cut short has left it: a user name is written while there is no
\* password, a password when its user name is there.
LEMMA PowerStep ==
  ASSUME IInv, PowerFails \/ PowerFailsInWrite
  PROVE  StoreInv' /\ ExchangeInv'
<1> DEFINE Stored(f) ==
      /\ f.user \in {Blank, Torn} \/ \E g \in 1..gen : f.user = Name(g)
      /\ \/ f.pass = Blank
         \/ \E g \in 1..gen : f.user = Name(g) /\ f.pass \in {Pass(g), Torn}
<1>1. Restart /\ gen' = gen
  BY DEF PowerFails, PowerFailsInWrite, server
<1>2. Stored(flash) /\ flash = [user |-> flash.user, pass |-> flash.pass]
  BY DEF IInv, StoreInv, TypeInv, TypeOK
<1>3. ASSUME PowerFailsInWrite PROVE Stored(flash')
  <2>1. CASE TCP_STEP = "register_flash"
    <3>1. flash.pass = Blank
      BY <2>1 DEF IInv, StoreInv, Registering
    <3>2. flash' \in {[user |-> Torn, pass |-> Blank], [user |-> Blank, pass |-> Blank]}
      BY <1>2, <1>3, <2>1, <3>1 DEF PowerFailsInWrite, Remains
    <3> QED
      BY <3>2
  <2>2. CASE TCP_STEP = "query_flash"
    <3>1. PICK g \in 1..gen : flash.pass = Blank /\ flash.user = Name(g)
      BY <2>2 DEF IInv, StoreInv, Registering
    <3>2. flash' = [user |-> Name(g), pass |-> Torn]
      BY <1>2, <1>3, <2>2, <3>1 DEF PowerFailsInWrite, Remains
    <3> QED
      BY <3>2
  <2> QED
    BY <1>3, <2>1, <2>2 DEF PowerFailsInWrite
<1>4. Stored(flash')
  BY <1>2, <1>3 DEF PowerFails
<1>5. StoreInv'
  BY <1>1, <1>4 DEF StoreInv, Restart, Registering, Blank, Torn, Name, Pass
<1>6. recvmbox' = <<>> /\ session' = "closed" /\ conn' = "deleted" /\ TCP_STEP' = "boot"
  BY <1>1 DEF Restart
<1> QED
  BY <1>5, <1>6, QuietExchange, EmptyMailbox

LEMMA StepIInv == IInv /\ [Next]_vars => IInv'
<1> SUFFICES ASSUME IInv, [Next]_vars PROVE IInv'
  OBVIOUS
<1>1. TypeInv'
  BY StepTypeInv DEF IInv
<1>2. CASE UNCHANGED vars
  <2>1. UNCHANGED <<TCP_STEP, client, flash, link, task, server>>
    BY <1>2 DEF vars
  <2> QED
    BY <1>1, <2>1 DEF IInv, StoreInv, ExchangeInv, NoAnswer, Good, RequestFor, client, link,
                      task, server
<1> QED
  BY <1>1, <1>2, StartStep, RecvStep, ParseStep, SendStep, StoreStep, ServerStep,
     PowerStep DEF Next, Client, IInv

\* mqtt_thread connects with what the flash holds (main.c l. 268-270, tcp_client.c
\* l. 284-313), which is the user name and the password of one registration unless
\* power cut the password short.
THEOREM CredentialsMatch == Spec => []MatchedCredentials
<1>1. IInv => MatchedCredentials
  <2> SUFFICES ASSUME IInv, mqtt = "running" PROVE MatchedCredentials
    BY DEF MatchedCredentials
  <2>1. TCP_STEP = "suspended" /\ flash.pass # Blank
    BY DEF IInv, StoreInv
  <2>2. PICK g \in 1..gen : flash.user = Name(g) /\ flash.pass \in {Pass(g), Torn}
    BY <2>1 DEF IInv, StoreInv
  <2>3. regist_buf = flash.user /\ passcode_buf = flash.pass
    BY <2>1 DEF IInv, StoreInv
  <2>4. flash = [user |-> flash.user, pass |-> flash.pass]
    BY DEF IInv, TypeInv, TypeOK
  <2> QED
    BY <2>2, <2>3, <2>4 DEF MatchedCredentials
<1> QED
  BY <1>1, InitIInv, StepIInv, PTL DEF Spec

\* Whatever an interrupted write or erase of the sector leaves (w25qxx.c l. 186-229),
\* a password in the flash has a user name beside it.
THEOREM PassHasName == Spec => []NoPassWithoutName
<1>1. IInv => NoPassWithoutName
  BY Credentials DEF IInv, StoreInv, NoPassWithoutName
<1> QED
  BY <1>1, InitIInv, StepIInv, PTL DEF Spec

\* What Send hands to the server is what add_json made of regist_buf.
LEMMA QueryStep == IInv /\ StoredNameIsQueried /\ [Next]_vars => StoredNameIsQueried'
<1> SUFFICES ASSUME IInv, StoredNameIsQueried, [Next]_vars PROVE StoredNameIsQueried'
  OBVIOUS
<1> DEFINE Known(request) ==
      request.method = "query" =>
        request.code \in {Blank, Torn} \cup {Name(g) : g \in 1..gen}
<1>1. gen \in Nat /\ (gen' = gen \/ gen' = gen + 1)
  BY DEF IInv, TypeInv, TypeOK, Next, Client, Boot, Ready, Connect, ConnectFails, Recv,
     RecvClosed, ParseOther, ParseValue, ParseRefused, ParseTwo, ParseThree, Parsed, Send,
     RegisterFlash, QueryFlash, Suspend, Complete, MqttTask, PowerFails, PowerFailsInWrite,
     Greet, Serve, Served, ServerCloses, Reset, Approve, Forget, server, vars
<1>2. \A g \in 1..gen : g \in 1..gen'
  BY <1>1
<1>3. asked' = asked \/ asked' = NoRequest \/ (Send /\ asked' = sendbuf)
  BY DEF Next, Client, Boot, Ready, Connect, ConnectFails, Recv, RecvClosed, ParseOther,
     ParseValue, ParseRefused, ParseTwo, ParseThree, Parsed, Send, RegisterFlash,
     QueryFlash, Suspend, Complete, MqttTask, PowerFails, PowerFailsInWrite, Greet, Serve,
     ServerCloses, Reset, Approve, Forget, link, vars
<1>4. Known(asked')
  <2>1. Known(asked) /\ Known(NoRequest)
    BY Requests DEF StoredNameIsQueried
  <2>2. ASSUME Send, asked' = sendbuf, asked' # asked PROVE Known(sendbuf)
    <3>1. sendbuf = RequestFor(fin_step) /\ regist_buf = flash.user
      BY <2>2 DEF Send, IInv, ExchangeInv, StoreInv
    <3>2. flash.user \in {Blank, Torn} \cup {Name(g) : g \in 1..gen}
      BY DEF IInv, StoreInv
    <3> QED
      BY <3>1, <3>2, Requests DEF RequestFor
  <2> QED
    BY <1>3, <2>1, <2>2
<1> QED
  BY <1>2, <1>4 DEF StoredNameIsQueried, Blank, Torn, Name

\* The server is never asked about anything but a name it gave this device, or about
\* a blank or torn place (add_json(1,regist_buf), tcp_client.c l. 85-91).
THEOREM NamesAreQueried == Spec => []StoredNameIsQueried
<1>1. Init => StoredNameIsQueried
  BY Requests DEF Init, StoredNameIsQueried
<1> QED
  BY <1>1, InitIInv, StepIInv, QueryStep, PTL DEF Spec
=============================================================================
