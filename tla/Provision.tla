------------------------------ MODULE Provision ----------------------------
(***************************************************************************)
(* How the box gets its MQTT user name and password: tcp_client_thread     *)
(* reads both from the serial flash, and when either is missing registers  *)
(* with the message server, polls it until somebody approves the device,   *)
(* stores what it answers and lets mqtt_task go (regist_msg_ptr).          *)
(*                                                                         *)
(* The server, as the comments of tcp_client.c describe it, greets, serves *)
(* one request of a connection and closes it.  Power may fail at any step, *)
(* inside a flash write too when Tearing is TRUE.                          *)
(***************************************************************************)
EXTENDS Naturals, Sequences

CONSTANTS
  Refusals,      \* answers by which the server turns the device down
  Tearing,       \* power may fail inside W25QXX_Write
  MaxOutages,    \* bound: power failures
  MaxForget,     \* bound: times the server forgets the device
  MaxFailures,   \* bound: netconn_connect that fails
  MaxResets,     \* bound: connections the server resets
  MaxFragments   \* bound: messages of the server that arrive in pieces

ASSUME ConstantsAssumption ==
  /\ Refusals \subseteq {"1", "4", "other"} /\ Tearing \in BOOLEAN
  /\ MaxOutages \in Nat /\ MaxForget \in Nat /\ MaxFailures \in Nat
  /\ MaxResets \in Nat /\ MaxFragments \in Nat

VARIABLES
  TCP_STEP,    \* "boot", "ready", the steps of the switch, "suspended"
  fin_step,    \* "REG" (NEXT_STEP_REG) or "QUE" (NEXT_STEP_QUE)
  counter,     \* u8_t
  sendbuf,     \* tcp_client_sendbuf
  recvbuf,     \* tcp_client_recvbuf
  get_passidbuf,
  regist_buf, passcode_buf,
  flash,       \* the two places of the serial flash: user and pass
  conn,        \* tcp_clientconn: "deleted", "up", "reset"
  recvmbox,    \* what arrived and was not read
  regist_sem,  \* regist_msg_ptr
  mqtt,        \* mqtt_task: "waiting" or "running"
  session,     \* the server's side: "closed", "greet", "open", "served"
  asked,       \* the request the server has not answered
  account,     \* the device at the server: "none", "pending", "approved"
  gen,         \* registrations so far
  used         \* how much of each bound is used

client == <<fin_step, counter, sendbuf, recvbuf, get_passidbuf, regist_buf, passcode_buf>>
link   == <<conn, recvmbox, session, asked>>
server == <<account, gen>>
task   == <<regist_sem, mqtt>>
vars   == <<TCP_STEP, client, flash, link, task, server, used>>

\* 40 bytes of flash or of a buffer: all equal, partly programmed, or a credential
\* of one registration.  check_flash tells the first from the others.
Cred == [kind : {"blank", "torn", "name", "pass"}, gen : 0..(MaxForget + 1)]
Blank   == [kind |-> "blank", gen |-> 0]
Torn    == [kind |-> "torn", gen |-> 0]
Name(g) == [kind |-> "name", gen |-> g]
Pass(g) == [kind |-> "pass", gen |-> g]

\* What the server sends: its greeting, a piece of a message, its FIN, and the
\* answers by their "code"; "0" comes with a "value".
Kinds == {"none", "hi", "piece", "FIN", "0", "1", "2", "3", "4", "other"}
Message == [kind : Kinds, value : Cred]
Plain(kind) == [kind |-> kind, value |-> Blank]

\* add_json(NULL,NULL) and add_json(1,regist_buf)
Request == [method : {"none", "register", "query"}, code : Cred]
NoRequest   == [method |-> "none", code |-> Blank]
Register    == [method |-> "register", code |-> Blank]
Query(name) == [method |-> "query", code |-> name]

Bounds == {"outages", "forget", "failures", "resets", "fragments"}
Limit == [b \in Bounds |->
            CASE b = "outages" -> MaxOutages [] b = "forget" -> MaxForget
              [] b = "failures" -> MaxFailures [] b = "resets" -> MaxResets
              [] b = "fragments" -> MaxFragments]
Use(b) == used[b] < Limit[b] /\ used' = [used EXCEPT ![b] = @ + 1]

ClientSteps == {"connect", "recv", "parse", "send", "register_flash", "query_flash",
                "suspend", "complete"}

TypeOK ==
  /\ TCP_STEP \in ClientSteps \cup {"boot", "ready", "suspended"}
  /\ fin_step \in {"REG", "QUE"} /\ counter \in 0..255
  /\ sendbuf \in Request /\ recvbuf \in Message /\ get_passidbuf \in Cred
  /\ regist_buf \in Cred /\ passcode_buf \in Cred
  /\ flash \in [user : Cred, pass : Cred]
  /\ conn \in {"deleted", "up", "reset"} /\ recvmbox \in Seq(Message)
  /\ regist_sem \in Nat /\ mqtt \in {"waiting", "running"}
  /\ session \in {"closed", "greet", "open", "served"} /\ asked \in Request
  /\ account \in {"none", "pending", "approved"} /\ gen \in 0..(MaxForget + 1)
  /\ used \in [Bounds -> Nat]
-----------------------------------------------------------------------------
(* tcp_client_thread.                                                      *)

Goto(step) == TCP_STEP' = step
RequestFor(fin) == IF fin = "REG" THEN Register ELSE Query(regist_buf)

\* netconn_close and netconn_delete
Delete == conn' = "deleted" /\ recvmbox' = <<>> /\ session' = "closed"

\* Both credentials are read; with either blank the device registers.
Boot ==
  /\ TCP_STEP = "boot"
  /\ regist_buf' = flash.user /\ passcode_buf' = flash.pass
  /\ fin_step' = "REG" /\ counter' = 3 /\ sendbuf' = Register
  /\ Goto(IF flash.user = Blank \/ flash.pass = Blank THEN "connect" ELSE "ready")
  /\ UNCHANGED <<recvbuf, get_passidbuf, flash, link, task, server, used>>

\* 2.5 s later.
Ready ==
  /\ TCP_STEP = "ready"
  /\ regist_sem' = regist_sem + 1 /\ Goto("suspended")
  /\ UNCHANGED <<client, flash, link, mqtt, server, used>>

Connect ==
  /\ TCP_STEP = "connect"
  /\ conn' = "up" /\ recvmbox' = <<>> /\ session' = "greet" /\ asked' = NoRequest
  /\ counter' = 3 /\ sendbuf' = RequestFor(fin_step)
  /\ Goto("recv")
  /\ UNCHANGED <<fin_step, recvbuf, get_passidbuf, regist_buf, passcode_buf,
                 flash, task, server, used>>

\* netconn_connect fails: the connection is deleted, and unless the counter just
\* reached 0 the case falls through to RECV_STEP, where netconn_recv fails on the
\* deleted connection and TCP_STEP becomes RECV_STEP.
ConnectFails ==
  /\ TCP_STEP = "connect" /\ Use("failures")
  /\ conn' = "deleted"
  /\ counter' = (counter + 255) % 256
  /\ Goto(IF counter' # 0 THEN "recv" ELSE "connect")
  /\ UNCHANGED <<fin_step, sendbuf, recvbuf, get_passidbuf, regist_buf, passcode_buf,
                 recvmbox, session, asked, flash, task, server>>

\* netconn_recv: a message.  A timeout, a deleted and a reset connection leave
\* TCP_STEP at RECV_STEP, and everything else as it is.
Recv ==
  /\ TCP_STEP = "recv" /\ conn = "up" /\ recvmbox # <<>> /\ Head(recvmbox).kind # "FIN"
  /\ recvbuf' = Head(recvmbox) /\ recvmbox' = Tail(recvmbox)
  /\ Goto("parse")
  /\ UNCHANGED <<fin_step, counter, sendbuf, get_passidbuf, regist_buf, passcode_buf,
                 conn, session, asked, flash, task, server, used>>

\* ERR_CLSD: connect again.
RecvClosed ==
  /\ TCP_STEP = "recv" /\ conn = "up" /\ recvmbox # <<>> /\ Head(recvmbox).kind = "FIN"
  /\ Delete /\ counter' = 3 /\ Goto("connect")
  /\ UNCHANGED <<fin_step, sendbuf, recvbuf, get_passidbuf, regist_buf, passcode_buf,
                 asked, flash, task, server, used>>

Parsed == UNCHANGED <<counter, recvbuf, regist_buf, passcode_buf, flash, link, task,
                      server, used>>

\* The greeting, and whatever is not JSON or has no "code".
ParseOther ==
  /\ TCP_STEP = "parse" /\ recvbuf.kind \in {"hi", "piece"}
  /\ Goto("send")
  /\ Parsed /\ UNCHANGED <<fin_step, sendbuf, get_passidbuf>>

\* Mutant: a value is a user name whatever was asked.
ParseValueForgets ==
  /\ TCP_STEP = "parse" /\ recvbuf.kind = "0"
  /\ get_passidbuf' = recvbuf.value
  /\ Goto("register_flash")
  /\ Parsed /\ UNCHANGED <<fin_step, sendbuf>>

\* Mutant: the two places are swapped.
ParseValueSwapped ==
  /\ TCP_STEP = "parse" /\ recvbuf.kind = "0"
  /\ get_passidbuf' = recvbuf.value
  /\ Goto(IF fin_step = "REG" THEN "query_flash" ELSE "register_flash")
  /\ Parsed /\ UNCHANGED <<fin_step, sendbuf>>

\* code 0: the value is a user name or a password, whichever was asked for.
ParseValue ==
  /\ TCP_STEP = "parse" /\ recvbuf.kind = "0"
  /\ get_passidbuf' = recvbuf.value
  /\ Goto(IF fin_step = "QUE" THEN "query_flash" ELSE "register_flash")
  /\ Parsed /\ UNCHANGED <<fin_step, sendbuf>>

\* codes 1 and 4
ParseRefused ==
  /\ TCP_STEP = "parse" /\ recvbuf.kind \in {"1", "4"}
  /\ Goto("suspend")
  /\ Parsed /\ UNCHANGED <<fin_step, sendbuf, get_passidbuf>>

\* Mutant: the next request stays what it was.
ParseTwoKeeps ==
  /\ TCP_STEP = "parse" /\ recvbuf.kind = "2"
  /\ Goto("recv")
  /\ Parsed /\ UNCHANGED <<fin_step, sendbuf, get_passidbuf>>

\* code 2: registered already, so query; or not registered, so register.
ParseTwo ==
  /\ TCP_STEP = "parse" /\ recvbuf.kind = "2"
  /\ fin_step' = IF fin_step = "REG" THEN "QUE" ELSE "REG"
  /\ sendbuf' = RequestFor(fin_step')
  /\ Goto("recv")
  /\ Parsed /\ UNCHANGED get_passidbuf

\* code 3: under review.
ParseThree ==
  /\ TCP_STEP = "parse" /\ recvbuf.kind = "3"
  /\ fin_step' = "QUE" /\ Goto("recv")
  /\ Parsed /\ UNCHANGED <<sendbuf, get_passidbuf>>

\* netconn_write: to a server that has closed, the request is lost, and may be
\* answered with a reset.
Send ==
  /\ TCP_STEP = "send"
  /\ asked' = IF session = "open" /\ conn = "up" /\ asked = NoRequest THEN sendbuf ELSE asked
  /\ \/ UNCHANGED <<conn, used>>
     \/ session = "closed" /\ conn = "up" /\ Use("resets") /\ conn' = "reset"
  /\ Goto("recv")
  /\ UNCHANGED <<client, recvmbox, session, flash, task, server>>

\* W25QXX_Write and W25QXX_Read of the user name.
RegisterFlash ==
  /\ TCP_STEP = "register_flash"
  /\ flash' = [flash EXCEPT !.user = get_passidbuf]
  /\ regist_buf' = get_passidbuf
  /\ sendbuf' = Query(get_passidbuf) /\ fin_step' = "QUE"
  /\ Goto("recv")
  /\ UNCHANGED <<counter, recvbuf, get_passidbuf, passcode_buf, link, task, server, used>>

\* Mutant: passcode_buf is not read back.
QueryFlashKeepsPass ==
  /\ TCP_STEP = "query_flash"
  /\ flash' = [flash EXCEPT !.pass = get_passidbuf]
  /\ fin_step' = "REG" /\ Goto("complete")
  /\ UNCHANGED <<counter, sendbuf, recvbuf, get_passidbuf, regist_buf, passcode_buf, link,
                 task, server, used>>

QueryFlash ==
  /\ TCP_STEP = "query_flash"
  /\ flash' = [flash EXCEPT !.pass = get_passidbuf]
  /\ passcode_buf' = get_passidbuf
  /\ fin_step' = "REG" /\ Goto("complete")
  /\ UNCHANGED <<counter, sendbuf, recvbuf, get_passidbuf, regist_buf, link, task, server, used>>

Suspend ==
  /\ TCP_STEP = "suspend"
  /\ Delete /\ Goto("suspended")
  /\ UNCHANGED <<client, asked, flash, task, server, used>>

Complete ==
  /\ TCP_STEP = "complete"
  /\ regist_sem' = regist_sem + 1
  /\ Delete /\ Goto("suspended")
  /\ UNCHANGED <<client, asked, flash, mqtt, server, used>>

Client ==
  \/ Boot \/ Ready \/ Connect \/ Recv \/ RecvClosed
  \/ ParseOther \/ ParseValue \/ ParseRefused \/ ParseTwo \/ ParseThree
  \/ Send \/ RegisterFlash \/ QueryFlash \/ Suspend \/ Complete

\* Mutant: mqtt_task goes on when OSSemPend returns without the semaphore.
MqttTaskImpatient ==
  /\ mqtt = "waiting"
  /\ regist_sem' = regist_sem - 1 /\ mqtt' = "running"
  /\ UNCHANGED <<TCP_STEP, client, flash, link, server, used>>

\* mqtt_task: OSSemPend(regist_msg_ptr), then mqtt_thread with both buffers.
MqttTask ==
  /\ regist_sem > 0 /\ mqtt = "waiting"
  /\ regist_sem' = regist_sem - 1 /\ mqtt' = "running"
  /\ UNCHANGED <<TCP_STEP, client, flash, link, server, used>>
-----------------------------------------------------------------------------
(* The power supply.                                                       *)

Restart ==
  /\ TCP_STEP' = "boot" /\ conn' = "deleted" /\ recvmbox' = <<>> /\ session' = "closed"
  /\ fin_step' = "REG" /\ counter' = 3 /\ sendbuf' = NoRequest
  /\ recvbuf' = Plain("none") /\ get_passidbuf' = Blank
  /\ regist_buf' = Blank /\ passcode_buf' = Blank
  /\ regist_sem' = 0 /\ mqtt' = "waiting"

PowerFails ==
  /\ Use("outages") /\ Restart
  /\ UNCHANGED <<flash, asked, server>>

\* What a write of one place may leave.  A place that is not blank takes an erase
\* of the sector, which holds both, and a copy of it back.
Remains(place) ==
  IF flash[place] = Blank
    THEN {[flash EXCEPT ![place] = Torn]}
    ELSE {[user |-> Blank, pass |-> Blank], [user |-> Torn, pass |-> Blank]}

PowerFailsInWrite ==
  /\ Tearing /\ TCP_STEP \in {"register_flash", "query_flash"}
  /\ Use("outages") /\ Restart
  /\ flash' \in Remains(IF TCP_STEP = "register_flash" THEN "user" ELSE "pass")
  /\ UNCHANGED <<asked, server>>
-----------------------------------------------------------------------------
(* The message server.                                                     *)

Deliver(msg) ==
  \/ /\ recvmbox' = IF session # "closed" THEN Append(recvmbox, msg) ELSE recvmbox
     /\ UNCHANGED used
  \/ /\ session # "closed" /\ Use("fragments")
     /\ recvmbox' = recvmbox \o <<Plain("piece"), Plain("piece")>>

Greet ==
  /\ session = "greet"
  /\ session' = "open" /\ Deliver(Plain("hi"))
  /\ UNCHANGED <<TCP_STEP, client, flash, conn, asked, task, server>>

\* The answer to the request, and what it does to the account.
Served ==
  \/ /\ asked.method = "register" /\ account = "none"
     /\ account' = "pending" /\ gen' = gen + 1
     /\ Deliver([kind |-> "0", value |-> Name(gen')])
  \/ /\ asked.method = "register" /\ account # "none"
     /\ Deliver(Plain("2")) /\ UNCHANGED server
  \/ /\ asked.method = "query" /\ account # "none" /\ asked.code = Name(gen)
     /\ Deliver(IF account = "pending" THEN Plain("3")
                ELSE [kind |-> "0", value |-> Pass(gen)])
     /\ UNCHANGED server
  \/ /\ asked.method = "query" /\ (account = "none" \/ asked.code # Name(gen))
     /\ Deliver(Plain("2")) /\ UNCHANGED server
  \/ \E code \in Refusals : Deliver(Plain(code)) /\ UNCHANGED server

\* The request may still be served after the device lost its power.
Serve ==
  /\ asked # NoRequest
  /\ Served
  /\ asked' = NoRequest
  /\ session' = IF session = "open" THEN "served" ELSE session
  /\ UNCHANGED <<TCP_STEP, client, flash, conn, task>>

\* The server closes after one answer.
ServerCloses ==
  /\ session = "served"
  /\ session' = "closed" /\ recvmbox' = Append(recvmbox, Plain("FIN"))
  /\ UNCHANGED <<TCP_STEP, client, flash, conn, asked, task, server, used>>

\* A connection is reset: what was not read of it is never read; a client that
\* waits in netconn_recv is woken as if the server had closed.
Reset ==
  /\ conn = "up" /\ Use("resets")
  /\ session' = "closed"
  /\ \/ conn' = "reset" /\ UNCHANGED recvmbox
     \/ /\ TCP_STEP = "recv" /\ recvmbox = <<>>
        /\ recvmbox' = <<Plain("FIN")>> /\ UNCHANGED conn
  /\ UNCHANGED <<TCP_STEP, client, flash, asked, task, server>>

Approve ==
  /\ account = "pending" /\ account' = "approved"
  /\ UNCHANGED <<TCP_STEP, client, flash, link, task, gen, used>>

Forget ==
  /\ account # "none" /\ Use("forget")
  /\ account' = "none"
  /\ UNCHANGED <<TCP_STEP, client, flash, link, task, gen>>
-----------------------------------------------------------------------------
Init ==
  /\ TCP_STEP = "boot" /\ fin_step = "REG" /\ counter = 3
  /\ sendbuf = NoRequest /\ recvbuf = Plain("none") /\ get_passidbuf = Blank
  /\ regist_buf = Blank /\ passcode_buf = Blank
  /\ flash = [user |-> Blank, pass |-> Blank]
  /\ conn = "deleted" /\ recvmbox = <<>> /\ session = "closed" /\ asked = NoRequest
  /\ regist_sem = 0 /\ mqtt = "waiting"
  /\ account = "none" /\ gen = 0
  /\ used = [b \in Bounds |-> 0]

Next ==
  \/ Client \/ ConnectFails \/ MqttTask
  \/ PowerFails \/ PowerFailsInWrite
  \/ Greet \/ Serve \/ ServerCloses \/ Reset \/ Approve \/ Forget

Spec == Init /\ [][Next]_vars

\* The tasks are scheduled, and the server answers and sooner or later approves.
FairSpec ==
  /\ Spec
  /\ WF_vars(Client) /\ WF_vars(MqttTask)
  /\ WF_vars(Greet) /\ WF_vars(Serve) /\ WF_vars(ServerCloses) /\ WF_vars(Approve)
-----------------------------------------------------------------------------
(* Properties.                                                             *)

\* mqtt_thread runs with what the flash will give it after the next restart, and,
\* unless power cut one of them short, with a user name and a password of one
\* registration.
MatchedCredentials ==
  mqtt = "running" =>
    /\ flash = [user |-> regist_buf, pass |-> passcode_buf]
    /\ Torn \notin {regist_buf, passcode_buf} =>
         \E g \in 1..gen : regist_buf = Name(g) /\ passcode_buf = Pass(g)

\* The server is asked about a user name it once gave this device, or about a place
\* that is blank or torn: never about a password.
StoredNameIsQueried ==
  asked.method = "query" => asked.code \in {Blank, Torn} \cup {Name(g) : g \in 1..gen}

\* A password is never in the flash without a user name, whatever an interrupted
\* write or an interrupted erase of the sector leaves.
NoPassWithoutName == flash.pass # Blank => flash.user # Blank

\* A device with its user name gets its password, or the server turns it down,
\* through power failures and pieces of messages.
StoredIsProvisioned ==
  flash.user # Blank ~> mqtt = "running" \/ TCP_STEP = "suspended"

\* "connect three times, suspend if it does not work" (tcp_client.c l. 153).
ConnectsOrSuspends ==
  TCP_STEP = "connect" ~> conn = "up" \/ TCP_STEP = "suspended"

\* "already registered, and the user name is in the flash" (l. 249).
RegisteredIsStored ==
  TCP_STEP = "parse" /\ recvbuf.kind = "2" /\ fin_step = "REG" => flash.user # Blank

\* "the server disconnects after one command: wait for it in RECV_STEP and connect
\* again" (l. 257).
Reconnects ==
  conn = "up" /\ TCP_STEP = "recv" /\ session = "served" ~> TCP_STEP \in {"connect", "suspended"}
=============================================================================
