# The box firmware, specified and verified

`src/stm32f4_ucosii_lwip_mqtt-master` is the firmware of a box on an STM32F4
that runs uC/OS-II and lwIP: it registers itself with a message server, keeps
an MQTT session with a platform, takes lines from a base board over a serial
line, and reports. This directory holds TLA+ modules of its own core logic,
TLC runs over small instances, and proofs for every instance that TLAPS
checks. Paths below are relative to the firmware's root; line numbers are those
of the file.

To check a run: `tlc -config <cfg> <module>` (the table of runs names both). To
check a proof: `tlapm <module>Proofs.tla` (the proofs about `PacketRead` and `GpsReceiver`
are in `FramingProofs.tla`).

## 1. The system

### Contexts of execution

| context | priority | code | what it does |
|---|---|---|---|
| interrupts | above all | `SYSTEM/usart2/usart2.c`, `SYSTEM/exit/exit.c`, `SYSTEM/commit/commit.c`, `HARDWARE/TIMER/timer.c` | serial bytes, door, GPS bytes, fan pulses |
| tcpip | 5 | lwIP | all TCP work |
| DHCP | 7 | `LWIP/lwip_app/lwip_comm/lwip_comm.c` 183-235 | address, fallback to static |
| fan_task | 8 | `USER/main.c` 392-429 | fan control, `fan_warn` |
| start_task | 10 | `USER/main.c` 210-257 | creates mailboxes and tasks, deletes itself |
| mqtt_task | 11 | `USER/main.c` 260-275, `mqtt/app/mqtt_app.c` | waits for credentials, then the MQTT session |
| tcp_client_thread | 12 | `LWIP/lwip_app/tcp_client/tcp_client.c` | registration and credentials |
| dhcpselct_task | 13 | `USER/main.c` 346-369 | starts the tasks when there is an address |
| dht11_task | 14 | `USER/main.c` 277-344 | turns a serial line into a report |

Before `OSStart`, `main()` runs alone: it initializes, waits for a GPS position,
shakes hands with the base board (l. 173-188) and starts lwIP.

### Components, their state and operations

| component | state | operations | what makes it correct |
|---|---|---|---|
| MQTT session (`mqtt_app.c`, `transport.c`) | `msgtypes`, `connect_flag`, `buf`, `msgid`, `qos`, `t`, `ti`, the socket, two tick counts | one pass of the loop: keepalive test, report, `switch(msgtypes)`, `MQTTPacket_read` | CONNECT first and once per connection; nothing before it is accepted; the packet in `buf` is the one the case expects; a dead connection is found and replaced; QoS 2 is completed |
| line receiver (`usart2.c`) | `USART3_RX_BUF`, `USART3_RX_STA` | one call per byte | stays in the buffer; closed while a line is being used; opens again |
| status task (`dht11_task`) | `_payload_out`, `mode`, two mailboxes | wait, copy or format, re-enable, clear, post | the event that is sent is the one received |
| provisioning client (`tcp_client.c`) | `TCP_STEP`, `fin_step`, `counter`, request and answer, `regist_buf`, `passcode_buf`, two places of the flash, a connection | one step of the `switch` | MQTT starts only with matching credentials; a registered device ends up provisioned, through power failures |
| memory pools (`malloc.c`) | `memmap`, `memrdy` | `mymem_init`, `mymalloc`, `myfree`, `myrealloc` | chunks disjoint, table exact, search complete |
| packet reader (`MQTTPacket.c`, `transport.c`) | the stream, the byte of header, the length so far | header, a digit of the length, rest, each with a timeout | each packet once and in order; back in step after a broken one |
| start-up and gating (`main.c`) | which tasks exist, are suspended, are past their gate | create, arrive, suspend, resume | no resume before its suspend; nobody starts without an address |
| network start (`lwip_comm.c`, lwIP's `dhcp.c`) | DHCP state and tries, address, interface flag, `dhcpstatus` | start, timeout, offer, ack, refusal, poll, fallback, stop | a reported lease stays; an address or the web server; no leak over a retry |
| receive path (lwIP's `api_msg.c`, `api_lib.c`, `sockets.c`, the port's `sys_arch.c`) | `recvmbox`, the window, `last_err`, the segment being read | segment, FIN, reset, recv, close | every byte once and in order; the window exact; a close frees all |
| timeouts (lwIP's `timers.c`, `sys_arch.c`) | the list of differences, the wait under way | insert, wait, message, expiry | no timer lost or disturbed by another; all fire |
| GPS receiver (`commit.c`, `main.c`) | `USART2_RX_BUF`, `point1`, `Save_Data` | byte, parse, wait for a position | what is parsed is one sentence; the wait ends |
| fan and door (`timer.c`, `exit.c`, `fan_task`) | capture state, `fan_warn`, `door_flag` | edge, overflow, poll | a stopped fan is reported |
| Ethernet driver (`lan8720.c`) | DMA rings | receive, transmit | frames in order, no descriptor lost |

How they interact: the serial interrupt posts `box_msg_ptr`, `dht11_task`
posts `BOX_TIMING_PTR`, `mqtt_thread` publishes what it finds there (both
mailboxes carry a pointer to a static buffer, so a message is what the buffer
holds when it is read); `mqtt_thread` writes `mode`, which `dht11_task` reads;
interrupts raise `door_flag`, `fan_task` raises `fan_warn`, and `mqtt_thread`
clears both; `tcp_client_thread` writes the credentials to the flash and posts
`regist_msg_ptr`, `mqtt_task` waits for it and reads the flash; all allocate
from the pools; all talk to lwIP through its mailbox. `lwip_dhcp_task` calls lwIP
directly and reports in `lwipdev.dhcpstatus`, which `dhcpselct_task` polls before it
resumes the tasks that wait at their gates. `dht11_task` switches the GPS
interrupt on and waits for what it leaves in `Save_Data`.

What is hard: one variable (`msgtypes`) that is both the packet received and
the packet to send, one buffer for both directions, pointers into buffers that
an interrupt fills, power that fails between two writes of the flash, a peer
that closes after every answer, retries, and pools and connection tables that
run out. `PROJECT.json` lists each of these hazards at its line.

Not modelled, with reasons, at the end.

## 2. The modules

Every module has one action per handler, branch or step of the code, with the
names of the code; a comment says what the less obvious ones stand for.
Operators whose comment begins with "Mutant" are the same action with a
plausible bug in it: each property is known to fail with one of them. Nothing
else uses them.

### `MqttSession` (with `MqttSessionMC`)

`mqtt_thread` is a loop; `pc` says where it is: `top` (l. 139-162), `door`,
`doorClear`, `fan`, `fanClear`, `init`, `mbox` (the report, l. 164-241),
`switch` (l. 247-519), `read` (l. 520-531), and `open`/`reopen` for
`transport_open`. Each case of the switch is an action (`HandleConnect`, ...,
`HandlePingreq`). A TCP connection is two sequences of packets: `uplink` (at
most `SndBuf`, a full one blocks `write`) and `downlink`. `link` is `up`,
`half` (the peer is gone and the box does not know), `down`, or `none`. The
broker answers in order, accepts or refuses, pushes commands once there is a
subscription. A payload is the set of keywords the code searches it for.
`netconns` counts the connections lwIP has allocated, those that were leaked
too. `qos` is a local the code does not initialize: any value of `GarbageQos`.
Time is two booleans, set by the environment: 60 s since the last ping, 10 s
since the last report.

A packet arrives whole; what the reader makes of one that does not is
`PacketRead`.

### `PacketRead` against `PacketStream` (with `PacketReadMC`)

`MQTTPacket_read` takes a header byte, a length in digits of seven bits and the
rest, each with a `recv` of its own that gives up after a second. The stream is
the bytes the broker wrote (`stream`) with two places in it: how many have
`arrived`, and how many were `read`. A `recv` stops at the end of a pushed segment
(`pushes`). The multiplier of `MQTTPacket_decode` is `Weight`. The code ignores what
`MQTTPacket_decode` returns (l. 303), so a length that breaks off is used as far
as it came; each outcome is a disjunct. `Base` stands for 128. `PacketStream`
says what a reader may expect: packets in their order, each once, until one in
pieces or too long puts it out of step. The bytes carry the packet they belong
to, for the refinement mapping only.

### `Uplink`

A byte is the pair of its line and its position, so that a copy of bytes of two
lines differs from a copy of one. `Isr*` are the branches of the interrupt,
which may run between any two steps of `dht11_task`; `mqtt_thread` preempts
`dht11_task`, so `Publish` and `Command` interleave too. Reading a shared
variable and acting on it are separate steps wherever the code separates them
(the three tests of `mode`, `mode = 0`, the copies). `boot` covers what matters
of start-up: the handshake, the time in which no mailbox exists, operation.
`BoardBusy` says whether the board sends lines before it hears from the box.

### `Provision`

One action per step of `tcp_client_thread`'s switch; `ConnectFails` is the one
that falls through into the next case. A credential is `Name(g)` or `Pass(g)`
of registration `g`; a place of the flash is blank, torn, or holds one.
`Tearing` lets power fail inside `W25QXX_Write`, which for a place that is not
blank erases the sector both are in. The server is as the comments of
`tcp_client.c` describe it: it greets, answers one request, closes; it may
forget a device, refuse it, reset a connection, and its messages may arrive in
pieces, and serve a request after the device that sent it has lost its power.
A reset wakes a client that waits in `netconn_recv` as a close does
(`api_lib.c` 395-399), and is an error of its own to one that does not wait yet.

### `Dhcp` and `Boot`

`Dhcp` is lwIP's client (`state`, `tries`, whether a request is out) and
`lwip_dhcp_task` (`pc` is the line it is at), which starts it, polls every 250 ms,
falls back and stops it. `tcpip_thread` has the higher priority: any event
of the client (`Timeout`, an offer, an acknowledgement, a refusal, a conflict)
may come between two lines of the task. Time is not measured, with one exception:
a request waits two seconds for its answer, so that the task polls at least once
before the client repeats it (`unseen`). When the conflict check ends is
free. Renewing and rebinding are not reached, because the task stops the client within
250 ms of the lease.

`Boot` EXTENDS it with the tasks of `main.c`: they are created by `start_task`
(its delay at l. 221 is inside a critical section and does not switch), arrive at
`OSTaskSuspend(OS_PRIO_SELF)`, and are resumed by `dhcpselct_task`. `Prio` is
explicit: a task takes a step only when no task of a lower number is ready
(`Runs`).

### `Netconn` against `ByteStream`

One connection from `recv_tcp` to `lwip_recvfrom`: the queue `recvmbox` of the
port, the window, the segment that is being read and how much of it has been. A
handler of `tcpip_thread` is one step, the reading task one step per call into
the port or the stack. `sys_mbox_valid` is the port's: it takes a full queue
for a deleted one (`sys_arch.c` 164). `ByteStream` is what a reader may
expect of a stream; the mapping is `Stream`, the property `DeliversStream`.

### `Timers` against `AlarmClock` (with `TimersMC`)

The list of timeouts stores differences; `sys_timeout` says into which lists it
may turn one, `Due` adds the differences up. `tcpip_thread` waits in
`sys_arch_mbox_fetch` in ticks and reports milliseconds, with the code's
rounding (`Ticks`, `Reported`): a wait that ends in the tick it began in is reported
as a wrapped counter. `AlarmClock` has a time left for each alarm; `Left` maps the
list to it.

### `GpsReceiver`

`USART2_IRQHandler`, one action per byte, and the wait for a position of
`main()` and `dht11_task` with the steps of `parseGpsBuffer` (`wait` says which); the specification is
`GpsSpec`. A byte is a part of a sentence
('$', the two type fields, time, status, end of line); the buffer has one
cell more than `USART2_REC_LEN`, because the bound on `point1` is applied after the
store (l. 97, 112). The interrupt is switched off between the waits, in the middle of a
sentence as well. `now` marks the parts of the sentence that is being sent; only
the history `saved` reads it.

### `MemPool` against `Allocator`

The table of one pool and, as histories, what callers hold and whether the last
request got NULL (`refused`). `LoopReturns` is
the loop of `mymem_malloc` as a recursive function (`Cmemb`); `Highest` says
what it is for, and `SearchIsComplete` compares the two. `Allocator` has no table: a
request gets a place apart from everything held, and is refused only if there is
none (`Room`); `myrealloc` moves a chunk to such a place while the old one is still held.
`IsAllocator` says that the pool implements it; the mapping is the identity on the
histories, and what has to be shown is that the table tells the pool what it needs
to know of them. The pool takes no
lock; the module comment says why its callers never run inside one another.
A call of `myfree` with NULL or with an address outside the pool changes
nothing (`malloc.c` 134, 143) and has no action.

## 3. The runs

| run | configuration of module | what it shows |
|---|---|---|
| session | `MqttSession.cfg` of `MqttSessionMC` | `TypeOK`, `ConnectFirstAndOnce`, `TrafficOnlyWhenAccepted`, `ConnackStillBuffered` with reports, a refusal or a break, and commands, reset included |
| session_reconnects | `MqttReconnect.cfg` of `MqttSessionMC` | `Reconnects`: without commands the box always comes back, reporting an alarm or not |
| packet_read | `PacketRead.cfg` of `PacketReadMC` | `TypeOK`, `DeliversPackets` (the refinement), `Resynchronises` |
| uplink | `Uplink.cfg` of `Uplink` | `TypeOK`, `CompleteIsHandled`, `BoxClosesReceiver`, `EventCopied`, `ReceptionResumes` |
| gps | `GpsReceiver.cfg` of `GpsReceiver` | `SavedIsWhole`, `WaitEnds` |
| provision | `Provision.cfg` of `Provision` | `TypeOK`, `MatchedCredentials`, `StoredNameIsQueried`, `NoPassWithoutName`, with interrupted writes |
| provision_live | `ProvisionLive.cfg` of `Provision` | `StoredIsProvisioned` |
| boot | `Boot.cfg` of `Boot` | `TypeOK`, `LeasedIsUsable`, `PassedHasAddress`, `EveryoneStarts`, `Decides` |
| netconn | `Netconn.cfg` of `Netconn` | `TypeOK`, `AckedIsKept`, `WindowIsExact`, `RoomyIsFreed`, `DeliversStream` (the refinement), `AllIsRead` |
| timers | `Timers.cfg` of `TimersMC` | `TypeOK`, `TimersAreListed`, `IsAlarmClock` (the refinement), `AllFire` |
| mempool | `MemPool.cfg` of `MemPool` | `TypeOK`, `NoOverlap`, `TableAgrees`, `SearchIsComplete`, `IsAllocator` (the refinement) |

A run in which the code does something else than its own comments say; TLC's
counterexample is the argument, `PROJECT.json` has the line and the quotation:

| run | property | what happens |
|---|---|---|
| provision_retry (`ProvisionRetry.cfg`) | `ConnectsOrSuspends` | one failed connect falls through and never tries again |

Further counterexamples of the same kind, kept as configurations and not among the
runs; the command at the top of this page reproduces each:

| configuration | property | what happens |
|---|---|---|
| `MqttWedge.cfg` of `MqttSessionMC` | `Reconnects` | a command without a keyword leaves `msgtypes` at PUBLISH (`mqtt_app.c` 302-358); no ping any more, and a dead connection stays |
| `MqttDeaf.cfg` of `MqttSessionMC` | `SubscribeNotDisplaced` | a packet read in the pass of the CONNACK displaces SUBSCRIBE (`mqtt_app.c` 524) |
| `MqttBufferReuse.cfg` of `MqttSessionMC` | `PublishStillBuffered` | the report overwrites a command that was read and not handled (`mqtt_app.c` 172) |
| `MqttSocketLeak.cfg` of `MqttSessionMC` | `Reconnects` | `transport_open` does not close the socket of a failed connect (`transport.c` 256) |
| `MqttPubrecLost.cfg` of `MqttSessionMC` | `PubrecNotForgotten` | a packet read after PUBREC displaces PUBREL (`mqtt_app.c` 524, 471) |
| `MqttPubrelId.cfg` of `MqttSessionMC` | `PubrelNamesPubrec` | a command's identifier ends up in PUBREL (`mqtt_app.c` 299, 476) |
| `PacketReadPieces.cfg` of `PacketReadMC` | `OnlySent` | a packet in two segments is returned as one nobody sent (`MQTTPacket.c` 303) |
| `UplinkDeaf.cfg` of `Uplink` | `ReceptionResumes` | a line before the mailboxes exist closes the receiver for good (`main.c` 188-225) |
| `UplinkWipe.cfg` of `Uplink` | `CountedBytesAreValid` | the buffer is cleared after it was re-opened (`main.c` 297, 320) |
| `GpsGlued.cfg` of `GpsReceiver` | `OnlyFrames` | the interrupt goes off in one sentence and on in another: head and tail are saved as one (`commit.c` 99) |
| `ProvisionLostName.cfg` of `Provision` | `RegisteredIsStored` | power fails between registration and the write of the name (`tcp_client.c` 249-286) |
| `ProvisionReset.cfg` of `Provision` | `Reconnects` | a reset is not a close: the client polls a dead connection (`tcp_client.c` 199) |
| `ProvisionTorn.cfg` of `Provision` | `StoredIsProvisioned` | a half-written name is queried for ever (`tcp_client.c` 136) |
| `BootDown.cfg` of `Boot` | `FallbackIsUp` | a refusal sets the interface down (`dhcp.c` 203); when the servers then stay silent, the static address is put on it as it is |
| `BootRace.cfg` of `Boot` | `StaticIsKept` | the client is stopped after the static address is written: a lease or a refusal in between overwrites it (`lwip_comm.c` 222-234) |
| `BootClash.cfg` of `Boot` | `Exclusive` | `tcpip_thread` runs inside the `dhcp_start` or `dhcp_stop` of another task (`lwip_comm.c` 179, 186) |
| `NetconnDrain.cfg` of `Netconn` | `ClosedIsFreed` | a close with a full queue takes it for deleted and frees nothing (`sys_arch.c` 164) |
| `TimersEarly.cfg` of `TimersMC` | `NotEarly` | a message within the tick in which the wait began fires the next timer at once (`sys_arch.c` 138) |

### Bounds, and why they are enough

- Session: `MaxFaults` bounds refusals, breaks and failed connects together.
  One fault makes one reconnection; with two (session_reconnects), a fault hits
  a connection that is itself the result of one, and every connection starts
  from the same reset state. `SndBuf` 2 lets `write` block with packets of two
  kinds queued; `RcvBuf` 2 or 4 lets an answer and an unexpected packet wait
  together. `SubTries` is 2 in place of 10: the count only has to reach its
  limit. `NumNetconn` is 2 or 3 in place of 4: enough for `MaxFaults` leaks, and 1
  in the configuration that shows the leak. `MaxPush` 1 is one command at any
  moment of the session. One alarm, in session_reconnects, is enough: the fan's
  branch is the door's with another flag, and `MqttBufferReuse.cfg` has the
  door's. `Backlog` bounds the packets under way when a period of 60 s or
  10 s runs out: with a value that no queue exceeds (`MqttSession.cfg`) it says
  nothing; with 1 it says that a period is long against a round trip. In the
  run session periods run out even while a connection is set up (`SlowConnect`).
- Uplink: three lines are the one handled, the one that arrives meanwhile and
  one after it; two bytes and CR LF are the shortest line with a head and a
  rest; `RecLen` 4 makes a line whose CR was lost wrap. One lost byte can be any
  byte: the CR, the LF or the event's.
- Provision: three outages reach each of the two writes and one more step;
  the server forgets twice, so that credentials of three registrations are
  told apart; one failed connect, one reset and one message in pieces each
  end, or duplicate, one exchange.
- PacketRead: bytes are 0..3 (`Base` 2), so that a length of two digits occurs and the
  rest of a packet looks like headers. A packet without a rest, one with two
  digits and one that does not fit are every case of the reader; three packets are
  the one before, the broken one and the one after it. One packet in pieces may be any, cut anywhere.
- GpsReceiver: six parts fill both buffers with an RMC sentence, so that one part more is the overflow;
  one lost part can be any, '$' and the end of line among them. The proofs have no such bounds.
- Boot: `LWIP_MAX_DHCP_TRIES` is the value of the code; refusals and
  conflicts are unbounded.
- Netconn: queues of 2, 3 and 6 slots: one the window overfills, one that it fills,
  and one that is `Roomy`. Five segments of two bytes are more than a window of six;
  a `recv` of up to three bytes ends inside a segment and at its border.
- Timers: two periodic timers and the TCP timer, due together and apart, with a
  list that has room for one more; two messages may wait.
- MemPool: seven blocks take chunks of 1 to 4 blocks, with and without a
  remainder, fragment, and are exhausted. `Word` is the 65536 of a `u16`.

### Fairness

- `MqttSession`: weak fairness of `mqtt_thread` (all higher tasks block: tcpip
  and DHCP on their queues, `fan_task` on its delay), of the 60 s clock, of the
  broker's acceptance and answers, and of TCP's noticing a dead peer when the box
  sends. No fairness of the faults, of the reports or of commands.
- `Uplink`: weak fairness of `dht11_task` (every higher task blocks again and
  again), of a GPS position, of the handshake's end and of start-up.
- `PacketRead`: weak fairness of the reader, which every pass of `mqtt_thread` calls, and
  of the delivery of segments. `Resynchronises` assumes that the broker stops sending.
- `GpsReceiver`: weak fairness of the receiver's bytes and of the wait, which no task
  of a lower number blocks for ever, and strong fairness of a sentence with a fix;
  `WaitEnds` assumes that from some time on no sentence is without one.
- `Boot`: weak fairness of the scheduler (some ready task runs), of the end of
  `OSStatInit`, of the client's timeouts and of `lwip_dhcp_task`. None of any server.
  `CHECK_DEADLOCK FALSE`: the tasks' later work is not in the module. `Decides` assumes that
  refusals end.
- `Netconn`: weak fairness of segments (TCP sends again) and of the reading task, none of
  FIN, reset or close. `CHECK_DEADLOCK FALSE`: a connection ends.
- `Timers`: weak fairness of `tcpip_thread`, the task of the highest priority, and strong
  fairness of the tick: messages may come for ever, but not all in one tick.
- `Provision`: weak fairness of the client, of `mqtt_task`, and of a server that
  greets, answers, closes and finally approves. There is none of outages,
  resets or refusals. `CHECK_DEADLOCK FALSE` in its runs: the client suspends
  itself for good when it is done (l. 331, 338, 351).

## 4. What is proved

| module | theorem | property | inductive invariant |
|---|---|---|---|
| `MqttSessionProofs` | `TypeCorrect`, `ConnectOrder`, `TrafficGated`, `ConnackIntact` | `TypeOK`, `ConnectFirstAndOnce`, `TrafficOnlyWhenAccepted`, `ConnackStillBuffered` | `TypeInv`, `UplinkInv`, `DownlinkInv`, `DeviceInv` |
| `UplinkProofs` | `TypeCorrect`, `ReceiverClosed`, `EventIntact`, `LinesAreHandled` | `TypeOK`, `BoxClosesReceiver`, `EventCopied`, `CompleteIsHandled` | `IInv`, and `WaitInv` for a board that waits |
| `ProvisionProofs` | `TypeCorrect`, `CredentialsMatch`, `PassHasName`, `NamesAreQueried` | `TypeOK`, `MatchedCredentials`, `NoPassWithoutName`, `StoredNameIsQueried` | `TypeInv`, `StoreInv`, `ExchangeInv` |
| `MemPoolProofs` | `TypeCorrect`, `ChunksDisjoint`, `TableIsExact`, `SearchComplete`, `OthersUntouched`, `PoolIsAllocator` | `TypeOK`, `NoOverlap`, `TableAgrees`, `SearchIsComplete`, `KeptIsUntouched`, `IsAllocator` | `IInv` with `Agree` |
| `NetconnProofs` | `TypeCorrect`, `WindowNeverLeaks`, `NothingAckedIsLost`, `RoomyQueueIsFreed`, `ImplementsByteStream` | `TypeOK`, `WindowIsExact`, `AckedIsKept`, `RoomyIsFreed`, `DeliversStream` | `BaseInv`, `StreamInv` |
| `TimersProofs` | `TypeCorrect`, `NoTimerIsLost`, `ListIsAlarmClock` | `TypeOK`, `TimersAreListed`, `IsAlarmClock` | `IInv` with `ListInv` |
| `BootProofs` | `TypeCorrect`, `LeaseIsKept`, `NobodyStartsEarly` | `TypeOK`, `LeasedIsUsable`, `PassedHasAddress` | `IInv` with `TriesInv`, `LeaseInv`, `GateInv` |
| `FramingProofs`, of `PacketRead` | `PacketTypes`, `ReadsWhatWasSent` | `TypeOK`, `DeliversPackets` | `IInv` with `StreamInv`, `CutInv`, `LengthInv`, `ReaderInv` |
| `FramingProofs`, of `GpsReceiver` | `GpsTypes`, `FramesAreWhole` | `GpsTypeOK`, `SavedIsWhole` | `FrameInv` with `RxInv` |

All are for every value of the constants that the named assumption
(`ConstantsAssumption`, in `Dhcp` `DhcpAssumption`, in `GpsReceiver` `GpsAssumption`) of the module allows: any number of faults, lines,
outages, blocks, with and without interrupted writes. One theorem assumes more:
`LinesAreHandled` assumes `~BoardBusy`; `UplinkDeaf.cfg` is what happens without
it.

Why the invariants are what they are:

- *Session.* That CONNECT is first is a fact of the uplink, but what keeps it
  true is spread over four variables. A CONNECT goes out when `msgtypes` is
  CONNECT, and that must imply that the broker is new and the uplink empty, or
  that it refused; `connect_flag` must imply that the broker has accepted; a
  CONNACK on its way or in `buf` must be the broker's last word, and its
  acceptance must be true. `UplinkInv`, `DownlinkInv` and `DeviceInv` say this
  for the three places where the truth can be, and each step moves it from one
  place to the next.
- *Uplink.* That the copy equals the posted line rests on the receiver staying
  closed from the post to the copy (`BoxClosesReceiver`), and on what the only
  other writer, `memset`, can have done to a line that waits in the mailbox:
  blanked it, and then it is no event.
- *Provision.* The two credentials match because a password answers a query,
  a query names `regist_buf`, and a registration cannot change while its
  password is under way without making the query stale. `ExchangeInv` follows
  the request and its answer through server, mailbox and buffers; `StoreInv`
  relates the buffers to the flash, and says what keeps an interrupted write
  harmless to it: a user name is written only while there is no password, and a
  password only beside its user name.
- *MemPool.* `NoOverlap` says nothing of the table, which is all that an
  allocation looks at and a release erases by. `Agree` ties them together,
  block for block; one lemma says that marking a free run preserves it, another
  that erasing what the first entry says does, and `Myrealloc` is the two in a row.
  The refinement needs one more lemma (`RoomIsFit`): by `Agree`, a run of zeroes in the table
  is a place between the chunks held, and the other way round, so that a search that finds
  nothing is right to refuse.
- *Netconn.* The bytes of the window, of the queue, of the segment being read and of
  the call under way add up to the whole window; that needs to know at which `pc` which
  of them is empty (`Places`) and what may be in the queue (`Queue`). The refinement needs
  that what is in the queue is numbered on from what is being read (`Ordered`,
  `Kept`), with no gap if the queue is `Roomy`: then the sum bounds the
  queue's length, and the queue is never full, so never taken for a deleted one.
- *Timers.* `sys_timeout` without a free entry drops the timer, so that no timer is lost
  only because there always is one: `ListInv` says how long the list is, and that it holds
  each handler once; one lemma says what an insertion does to both. The refinement is about
  the times: `Due(l)[k]` is the sum of the differences up to entry `k`, and `DueShift` says that
  two lists whose differences agree on a stretch agree there up to a constant. An insertion
  divides one difference in two and leaves all stretches before and after it; a removal
  from the head makes the rest a stretch of its own.
- *Boot.* The tries stay within the limit because the task polls between two requests
  (`TriesInv`). A lease stays because a client that has one is BOUND, where it
  accepts no refusal and has nothing to repeat, or is stopped (`LeaseInv`). `GateInv` relates the tasks at
  their gates to what `dhcpselct_task` has read.
- *Packets.* What is read is what was sent because a reader in step knows, at each byte,
  where in which packet it stands. `StreamInv` places every byte (those of one packet stand
  one behind the other, and the next packet's first byte follows the last), `CutInv` says that
  a `recv` that gets less than it asked for stands inside a packet that is in `cut`, and
  `InStep`, the part of `ReaderInv` for a reader that is not lost, says that after `d` digits
  `rem_len` is the remainder of the length by `Weight[d]`. That the last digit
  completes the length, and that the digits say how many they are, is arithmetic about
  `Encoded` and `Decoded` for every base (`NextDigit`, `DecodedFits`, `DigitIs`). A reader that is
  lost has no such invariant, and needs none but its type: `PacketStream` promises nothing of it
  but that it is not ahead of the stream.
- *GPS.* That a saved sentence is whole needs to know what is in the buffer before it is
  complete: `RxInv` says that as long as nothing was missed it is the sentence as far
  as it was sent, and `point1` its length.

### Only model-checked

Liveness (`Reconnects`, `ReceptionResumes`, `StoredIsProvisioned`, `Resynchronises`,
`WaitEnds`, `EveryoneStarts`, `Decides`, `AllIsRead`, `AllFire`): the proof
system has no rules for fairness and ENABLED. Every other property of a passing run is proved;
`GpsTypeOK` and `KeptIsUntouched` are proved and are not among a run's properties.

The library's induction theorems take an operator as a parameter, which the installed
provers cannot instantiate. Where a proof needs induction over numbers it is written out as
a search for the least counterexample: `LeastNumber` gives every non-empty set of numbers
its least element (from `WFMin` of the library, which has no such parameter), `Reaches` is
induction about a set. That is how the recursive functions `Cmemb`, `Due` and `Weight` are
shown to be what their equations say (`CmembIs`, `DueIs`, `WeightIs`), and what they compute
follows by the same search.

## 5. Plan

Written so far, in this order: `MqttSession`, `Uplink`, `Provision`, `MemPool`,
`Netconn` (`ByteStream`), `Timers` (`AlarmClock`), `Dhcp` and `Boot`, `PacketRead`
(`PacketStream`), `GpsReceiver`; all with proofs. What is left, the most
important first:

1. `PoolUsers`: `MemPool` with the session's and the client's allocations: the
   125 bytes lost per command, the texts lost per request; and `lwip_comm_init` called
   again after a failure.
2. `FanMonitor`: the capture of the fan's pulses (`timer.c`) and `fan_task`, whose
   `temp` keeps the last pulse for ever (`main.c` 408-417).
3. The Ethernet driver's descriptor rings.
4. Abstract specifications of the rest: a link that delivers each line at most once and
   unmixed (`Uplink` implements it under `~BoardBusy`), a client that holds a matched
   pair (`Provision`).
5. `MqttSession` over `PacketStream` in place of whole packets.

The list of runs is kept short: a new module's runs took the place of
counterexamples, which stay as configurations.

## 6. Not modelled

- uC/OS-II, cJSON, HMAC, the file system, picture, font and debug libraries, ST's
  peripheral library: vendored. What the modules need of the kernel is modelled from
  its use. These libraries, their tables of characters and a second lwIP that is not built are
  nearly all of the repository's lines; the firmware's own logic is a few
  thousand.
- lwIP's segments, ARP, IP, UDP and Ethernet, and what the MQTT library writes into
  and reads from a packet's fields: vendored; of both, the parts on which the box's
  behaviour hangs are modelled (`Netconn`, `Timers`, `Dhcp`, `PacketRead`).
- `sys_mbox_post`, which polls a full queue without giving way (`sys_arch.c` 93):
  `Netconn` has `sys_mbox_trypost`, the one the receive path uses.
- `lwip_comm_init` after a failure, and the memory it leaves allocated.
- The web server: the vendor's demo, started only when DHCP fails.
- Sensor, I2C, flash and serial drivers below the calls above: register access
  without protocol state.
- Contents of messages and reports other than what a branch of the code tests.
- Stack overflow: `mqtt_task` has 1024 bytes of stack (`main.c` 57) for
  locals that need more (`mqtt_app.c` 72). The modules take memory to be sound.
