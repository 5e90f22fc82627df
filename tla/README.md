# TLA+ specifications of the TSUN Gen3 proxy

The proxy sits between TSUN inverters, the TSUN cloud and an MQTT broker.  It
is one Python process with one asyncio event loop (`app/src/server.py`); what
makes it hard is not parallel threads but what other tasks, timers and peers do
while a task waits in an `await`, and what is left half done when one step of
several raises.

## 1. Inventory

| Part | State | Operations | Talks to |
|---|---|---|---|
| **Modbus queue** `modbus.py` | `que`, `req_pend`, `last_*`, `rsp_handler`, `retry_cnt`, `tim` | `build_msg`, `recv_req`, `recv_resp`, `__timeout_cb`, `close` | called by polling timer, MQTT, cloud messages, inverter responses; sends through the protocol |
| **Connections** `async_stream.py`, `inverter_base.py`, `server.py` | `remote`, `local`, sockets, `close_cb`, FIFOs, counters | `server_loop`, `client_loop`, `disc`, `close`, `create_remote`, `__exit__`, `handle_shutdown` | one task per connection, sharing `StreamPtr` objects |
| **Solarman V5 receive path** `solarman_v5.py` | `rx_fifo`, `header_valid`, `data_len`, `state` | `read` and the helpers it calls | fed by `__async_read`, calls message handlers |
| **AT+/DCU commands** `solarman_v5.py`, `inverter_g3p.py` | `forward_at_cmd_resp`, `forward_dcu_cmd_resp`, `fwd_fifo` | `send_at_cmd`, `send_dcu_cmd`, `msg_command_req`, `msg_command_rsp` | two connections share the flags of one inverter |
| **MQTT publishing** `proxy.py`, `inverter_base.py`, `mqtt.py`, `infos.py` | `stat`, `new_stat_data`, `new_data`, `ha_restarts` | `inc_counter`, `async_publ_mqtt`, `_async_publ_mqtt_proxy_stat`, `_cb_mqtt_is_up`, `_ha_status` | every inverter task and the MQTT task publish the same counters |
| **Polling and sensor list detection** `solarman_v5.py`, `messages.py`, `my_timer.py` | `sensor_list_detection`, `mb_regs`, `mb_slow_regs`, `mb_timer` | `send_start_cmd`, `mb_timout_cb`, `__modbus_command_rsp` | drives the Modbus queue, which MQTT and the cloud use as well |
| **GEN3 Talent protocol** `gen3/talent.py` | receive state, `state`, `ts_offset` of two streams, `await_conn_resp_cnt` | `read`, the handlers, `_update_header`, `_init_new_client_conn` | answers the inverter, forwards to the cloud |
| **Solarman emulator** `solarman_emu.py` | two timers, `hb_timeout` | heartbeat, data, answers of the cloud | stands in for a logger towards the cloud |
| **Modbus TCP client mode** `modbus_tcp.py` | one task per inverter, `_registry`, `shutdown_started` | `modbus_loop`, `ModbusConn`, `handle_shutdown` | connects to inverters itself |
| **Scheduler** `scheduler.py`, `infos.py` | `ClrAtMidnight.db`, the data base of each connection | `atmidnight`, `add`, `elm`, `update_db`, publishing | publishes with an await per entry, against all inverter tasks |
| Infos data base, configuration, web pages, registries | tables, merged configuration | lookups, conversions, rendering | used by all of the above |

What makes each part correct, and what is hard about it:

* **Modbus queue** – at most one request outstanding with exactly one timer; no
  request lost, overtaken or stuck; an answer goes to the request it was asked
  for.  Hard: late and repeated answers against retransmission, and an
  exception between two halves of `recv_resp`.
* **Connections** – no cloud connection leaks, no task survives its inverter,
  an ending client does not take its successor down, counters return to zero.
  Hard: both tasks, the error path of the forwarder and the shutdown disconnect
  each other across awaits.
* **Receive path** – only intact messages are handled, once, in order, and a
  broken one costs nothing else.  Hard: arbitrary cuts of the stream,
  resynchronisation, and a handler that raises.
* **Commands** – the access list holds, a response goes where its command came
  from.  Hard: responses name no sender, and cloud commands can be delayed.
* **MQTT publishing** – a changed counter is published some time, a restart of
  Home Assistant is noted only after the entities were registered again.  Hard:
  flags tested before and cleared after an await.
* **Polling and detection** – the list that is taken is the inverter's, the
  detection ends, polls do not pile up.  Hard: the answer of any request that
  happens to be in the queue counts as the answer to the probe.
* **GEN3 protocol** – every message is passed to the cloud once, in order and with
  the right time, and lost only while a connection ends; each message that asks
  for an answer gets one, and the inverter never sees the answer to the proxy's
  own greeting.  Hard: two streams share a clock offset, a connection comes and
  goes between handling and writing, and ends in two steps; handlers raise after
  their answer was built.
* **Emulator** – the connection to the cloud is not given up for one lost answer.
  Hard: two timers, of which one restarts both and the other neither.
* **Client mode** – after a shutdown no session is started again, none is missed.
  Hard: the shutdown iterates, with awaits, over a registry that grows, and of an
  inverter that forwards it closes the cloud connection before it tells the session.
* **Scheduler** – a daily counter falls at midnight, and not during the day.
  Hard: the reset awaits between entries, and connections keep old values.

`PROJECT.json` lists the hazards at their lines, with the properties that cover
them or the reason none does yet.

## 2. Modules

| Module | Models | Runs |
|---|---|---|
| `ModbusService` | what the Modbus queue promises: a bounded FIFO server | (abstract specification) |
| `Modbus` | class `Modbus` with its users, the inverter and the timer | `modbus`, `modbus_stray`, `modbus_stall` |
| `ModbusProofs`, `ModbusOrderProofs` | proofs about `Modbus`; the second has those about the order of requests and the refinement of `ModbusService` | |
| `ProxyConn` | one inverter connection, its successive cloud connections, shutdown | `proxy_conn`, `proxy_conn_count` |
| `ProxyConnProofs` | proofs about `ProxyConn` | |
| `SolarmanRx` | `__async_read`, `SolarmanBase.read` and the handlers of indications | `solarman_rx`, `solarman_rx_poison` |
| `SolarmanRxProofs` | proofs about `SolarmanRx` | |
| `CmdRouting` | AT+ and DCU commands and their responses | `cmd_routing` |
| `CmdRoutingProofs` | proofs about `CmdRouting` | |
| `MqttPublish` | counters, values and registrations on their way to the broker | `mqtt_publish`, `mqtt_publish_lost` |
| `MqttPublishProofs` | proofs about `MqttPublish` | |
| `SensorDetect` | polling in client mode and the detection of the sensor list | `client_mode` |
| `ModbusTcp` | the tasks of client mode, and the shutdown over all of them | `client_mode` |
| `SolarmanEmu` | the emulated logger with its timers | `client_mode` |
| `ClientModeProofs` | proofs about `SensorDetect`, `ModbusTcp`, `SolarmanEmu` | |
| `Talent` | the GEN3 protocol of one inverter and its cloud connections | `server_mode` |
| `DailyReset` | daily counters, their data bases and the reset at midnight | `server_mode` |
| `ServerModeProofs` | proofs about `Talent`, `DailyReset` | |

`MC*.tla` and `MC*.cfg` give the constants small values.  An operator with the
comment "Mutant" is a plausible bug of the definition behind it; no
specification uses it.  `PROJECT.json` names the mutant that violates each
property, and the source lines of each definition.

**The unit of a step.**  A method that never awaits is one action
(`Modbus`, `SolarmanRx`, `CmdRouting`, the handlers of `Talent`); a task that
awaits has a program counter that names the await, and an action is what it does
after that await returned (`ProxyConn`, `MqttPublish`, `ModbusTcp`, `DailyReset`).
Some awaits suspend only under back pressure
(`drain`) or when a socket really has to be closed; the models always let other
tasks in there, which the loop may do as well.

**Modbus.**  `que`, `req_pend`, `last`, `rsp_handler`, `retry_cnt` and `tim` are
the fields of the class (`last` bundles the `last_*` fields).  `armed` counts the
timeout callbacks the loop still has to run: more than `tim` knows about if a
handle is overwritten without a cancel.  `wire` holds answers under way, `sent`,
`accepted`, `hist` and `calls` are history variables no guard reads (only the
bound on `accepted`).  `BuildMsg` and `RecvReq` are the two ways into the queue;
`RecvResp` is `recv_resp` with its error check, its normal end and an exception
of the register decoding; `Timeout` is `__timeout_cb`; `Close` is `close`.  The
class stays closed: its owner drops it.

**ProxyConn.**  `spc`, `cpc[c]`, `hpc` are the awaits of server task, client
tasks and shutdown.  `rstream` and `rifc` are `remote.stream` and `remote.ifc`
as the number of the connection; `sopen`, `copen[c]` say that a writer is not
closing; `crem[c]`, `ccb[c]` are `AsyncStreamClient.remote` and `close_cb`.

**SolarmanRx.**  A frame is a header cell and body cells; TCP delivers any
number of cells at a time.  `rd..arr` is `rx_fifo`.  One iteration of the loop in
`read()` is one action, and while `busy` nothing else happens.  A payload byte
that looks like a start byte behind a frame without a stop byte, and a broken
message with a matching checksum, are left out.  Each indication has an action of
its own: what it does to `state`, `fwd_fifo` (`fwd`) and `tx_fifo` (`tx`);
`rcv_idx` is `Sequence.rcv_idx`, which the answer repeats.

**CmdRouting.**  `flag` is the pair of routing flags, `fwd` the FIFO of the
cloud connection, `line` the commands the logger still has to answer.  It
answers in order, or not at all.

**MqttPublish.**  `outq` holds counters whose publish is being awaited; the
connection may be lost with any of them delivered or not.  `pc[t]` is the await of
each task; "failed" is an await that ended with an exception.

**SensorDetect.**  `idx`, `running` are the fields of `SensorListDetection`;
`regs`, `slow` count the blocks of `mb_regs`, `mb_slow_regs`.  The Modbus queue
appears as `que`, `head`, `rsp_timer`, `retry_cnt`, whose details are in `Modbus`.
Time passes in ticks, because it is the relation of the polling interval to the
Modbus timeout that keeps the probes apart.  `foreign` requests are those of
MQTT and the cloud.

**ModbusTcp.**  `pc[c]` is the await of the task of inverter `c`, `registry` the
list `InverterBase._registry`, a session its position there.  `pos` is how far
the iteration of the shutdown got.  `link[c]` is the cloud connection of an inverter
configured with `forward`.  `InverterBase.disc` closes it first: `sd` is "remote"
while that is awaited and "half" behind it, and only then the session is flagged and
its own writer closed.  A session that ends in that await sees no flag and
reconnects, and one whose await raises is neither flagged nor closed; both are
recorded in `missed`.

**SolarmanEmu.**  `hb_timer` and `data_timer` are the two timers in ticks, `idle`
the time since something was received, which ends the connection at
`MAX_START_TIME`.

**Talent.**  `rx`, `fwd` are the messages in `rx_fifo` and `fwd_fifo`; `ts_offset`
belongs to the inverter's stream, `rts_offset` to the stream of the cloud.
`shift` is what was added to the timestamp of a message.  `acks` are the answers
put into the inverter's `tx_fifo`, `asked` the messages that are owed one;
`contacts` are the contact messages the cloud has to answer: its greeting, and any
that is forwarded.  Messages arrive whole.  A connection to the cloud ends in two
steps: `CloudLost` is `disc()`, which closes the writer (`closing`), `CloseCb` the
call of `close_cb`, which clears `remote.stream` after `wait_closed()` and a publish.
In between `_async_forward` still takes the whole of `fwd_fifo` and writes it to the
closed writer (`WriteLost`), as it does when `drain()` raises (`DrainRaises`: the
inverter's task awaits `disc()` of the connection in "drop").  `sent` records what was
written, over which connection, and if it was lost.  The loop of `_update_header` has
as many rounds as the buffer is longer than its first message, so their number is any
up to `MaxRounds` for a buffer of several messages.

**DailyReset.**  `conn[i]` is the await of a connection, `db[i]` its value of one
daily counter and the day it is of, `clr` the dictionary of `ClrAtMidnight`, `mid`
the entry the reset awaits, `broker[i]` what Home Assistant shows, with the day the
value is of.  Idealised: the inverter sets its counter to zero in the moment of
midnight, and it has one connection at a time.

**Modules that share a run.**  `SensorDetect`, `ModbusTcp` and `SolarmanEmu` share
no variable, nor do `Talent` and `DailyReset`.  `MCClientMode` and `MCServerMode`
therefore let a behaviour be one of them (`part`), while the others rest in their
initial state: interleaving them would multiply states and show nothing.

## 3. What is checked

| Run | Bounds | Shows |
|---|---|---|
| `modbus` | 3 frames (two reads that differ in the register only, one write), 3 requests, queue of 2, 1 retransmission, 2 answers under way | the type invariant and eight properties below |
| `proxy_conn` | 2 cloud connections | leaks, ends and counters below |
| `solarman_rx` | 3 frames of 13 kinds: a good one of each type, one for each way to be broken | receive path below |
| `cmd_routing` | 4 commands, 3 AT+ commands with lists that disagree | commands below |
| `mqtt_publish` | 2 inverters, 2 counter changes, 1 restart, 1 lost connection | publishing below |
| `client_mode` | detection: 3 lists, a queue of 8, 2 foreign requests, 2 errors; tasks: 2 inverters, of which one forwards, 4 sessions; emulator: 2 device messages | client mode below |
| `server_mode` | GEN3: 3 messages of 9 kinds, 2 cloud connections, 1 Modbus request at a time, 2 rounds of `_update_header`; counters up to 2 of 2 inverters, 2 connections, 2 midnights | server mode below |
| `modbus_stray`, `modbus_stall`, `proxy_conn_count`, `solarman_rx_poison`, `mqtt_publish_lost` | as above or smaller | a statement of the repository that the code does not keep (section 5) |

* `modbus`: **StallNeedsRaise** – a request waits while none is outstanding only
  after an undecodable response; **OneTimer** – one armed callback per
  outstanding request, none after `close`; **NoneLost** – finished, outstanding
  and waiting requests are the accepted ones in order; **HandlerOnce** – the
  callback of a cloud request is called once, for its answer only;
  **TriesExact** – given up after exactly `max_retries + 1` transmissions;
  **StrayNeedsRetry** – an answer is taken for another request only after a
  retransmission or an exception; **EveryRequestEnds** – each request ends;
  **ServiceSpec** – the class implements `ModbusService` under the refinement
  mapping `Jobs`, `Outcome`, `closed`.
* `proxy_conn`: **OpenIsRemote** – an open cloud connection is the one `remote`
  holds; **EndsOnlyItself** – an ending client removes itself or nothing;
  **BalancedUnlessBroken** – the counters go back to zero; **AllTasksEnd** – with
  the inverter connection all client tasks end; **ShutdownEnds** – after a
  complete shutdown the inverter connection ends.
* `solarman_rx`: **OnlyIntact** – only intact messages are handled;
  **InOrderOnce** – in order, once, and each is forwarded and answered once, with
  its own index; **LossNeedsFraming** – a good frame is lost only behind one that was framed
  wrong, up to the next frame that meets an empty buffer; **KeepsReading** – no frame stops the connection.
* `cmd_routing`: **OnceInOrder** – a command reaches the inverter once, those of one
  connection in order; **AclHeld** – and only if the lists allow it;
  **StrayNeedsOverlap** – a response goes to the wrong side only if that side
  had a command accepted meanwhile.
* `mqtt_publish`: **OutstandingUnlessCounted** – what the broker does not know is
  marked, unless a counter changed during a publish; **NotedMeansRegistered**,
  **RestartNoted** – every restart of Home Assistant is noted, after
  registering, whatever connections are lost.
* `client_mode`: **WrongNeedsDisturbance** – a wrong sensor list is taken only
  after a foreign request or an error response disturbed the detection;
  **MCDetectionEnds** – it ends; **OverflowNeedsLongList** – the queue runs full
  only with a list of several blocks; **CaughtIsLast** – a session the shutdown
  finds running is the last of its task, unless its own `disc()` raised, or it ended
  (or that await raised) while the end of its cloud connection was awaited;
  **AllReached** – a shutdown that ends
  without an exception has told every running session;
  **DeadNeedsTwoUnanswered** – the emulator's connection is given up only after
  two messages without an answer.
* `server_mode`: **ForwardedOnce** – what was handled is written to the cloud in
  order and once, or waits in the buffer; only a write over a connection that ends
  is lost, and nothing behind it is delivered over that connection;
  **AnsweredOnce** – exactly the handled messages that ask for an answer have one, in
  order, and one has another only if its handler raised; nothing else, neither an
  unknown message nor the cloud's answer to the greeting, brings the inverter one;
  **ShiftedUnlessBatched** –
  timestamps carry the offset once, unless several messages were written at once;
  **FallNeedsStale** – what Home Assistant shows of a daily counter falls by the reset,
  or from a value of an earlier day that the reset has not reached or failed to
  reset, or that a connection open during it sent again: such a connection may
  republish yesterday's 5 in the morning, and a reconnect then shows today's 2;
  a value of the current day never falls;
  **StaleNeedsOldConnection** – yesterday's value stays only if the reset failed,
  or if a connection sent it that was open while the reset ran.

"Unless" and "needs" in a name mark the ways in which the stronger statement is
known to fail, so that every other way is excluded.

**Bounds.**  Three requests are the fewest that can be finished, outstanding
and waiting at a time, and they fill the queue behind an outstanding one; two
answers under way are an answer and its repetition.  Two cloud connections are
an old client and its successor.  Three frames are a broken one between two
others.  In `client_mode` a tick is 2 s for the detection (Modbus timeout 4
ticks, polling interval 15) and 20 s for the emulator (heartbeats 3 or 6, data 15,
dead 20), so that all relations between the times are those of the code; the
slow blocks come every third poll instead of every thirtieth, and a queue of 8 is
filled by a few polls of a list with three blocks and two slow ones.  Two foreign
requests are one whose answer is late and one behind it.  Four sessions are two of
each inverter: before and after a lost connection.  In `server_mode` three messages
are a pair in one buffer and one more, two cloud connections one that is lost and
its successor; two rounds are the fewest the loop makes for a pair; with counters up
to two a fall is one to zero or to a smaller value of a new day; two midnights show
what a failed reset does to the next.  One inverter that forwards and one that does
not show both orders of the shutdown.  `MaxReq`, `WireCap`, `MaxConn`, `MaxFrames`, `MaxCmd`, `MaxStat`,
`MaxRestarts`, `MaxLosses`, `MaxForeign`, `MaxErrors`, `MaxSessions`, `MaxFwd`,
`MaxMsgs`, `MaxConns`, `MaxRead`, `MaxMb`, `MaxRounds`, `MaxVal`, `MaxDays` and `MaxDailyConns`
bound the models only; the code has no such limit.
`QueCap` and `MaxRetries` are limits of the code (100 and 1); the proofs hold for
every value.  Deadlock is not checked: with its bounds used up, or with the
connection closed, each of these systems may really stop.

**Fairness.**  `Modbus`: weak fairness of the timeout, as the event loop runs a
callback whose time has come.  Nothing is assumed of the inverter.  `ProxyConn`:
every await but a read returns, and a read returns once its socket is closed; a
peer need not send or close.  `SolarmanRx`: a call of `read()` goes on and what
was sent arrives.  `MqttPublish`: awaits return, the broker comes back and
inverters keep sending (a logger has a heartbeat of two minutes).
`SensorDetect`: weak fairness of time and the two timers, as the loop runs a
callback whose time has come; strong fairness of the answer to a read of the
inverter's own list, as an inverter that is asked for it again and again answers
at last.  The other modules are checked for safety only and need none.

## 4. What is proved

Every safety invariant and every action property of the runs is a theorem for all
values of the constants, and so is the refinement of `ModbusService`.  The proofs use the assumptions the modules
name (types of the constants, no more) and these, which relate constants to each
other:

* `EmuIntervalsAssumption` – the data interval, and two heartbeats, fit into the
  time after which a connection is dead: `solarman_emu.py` and `messages.py` have
  300, 2 * 120 and 400 s;
* `ProbeFits` (for `WrongListCorrect`) – all transmissions of a probe fit into the
  polling interval: 2 * 8 s in 30 s (`solarman_v5.py:278`, `:286`, `modbus.py:216`);
* `PollsFit` (for `PaceInvariant`) – `ProbeFits`, and for a list that is polled with
  one block, its slow blocks fit into what the polls between two of their reads
  leave: 16 s for each, against 30 times the remaining 14 s (`solarman_v5.py:564`);
* the bounds `MaxForeign` and `MaxErrors` (for `OverflowCorrect` only) – requests of
  others and errors, with the slow blocks of a list of one block counted twice, are
  at least two fewer than the queue's places, 100 in the code (`modbus.py:209`).
  `OverflowCause` states the same without a bound, with their numbers in the
  conclusion;
* `MaxRetries # 0` (for `StrayCorrect`) – `max_retries` is 1 (`modbus.py:216`).
  The statement is false without: an answer that comes after a request was
  given up is a stray one too, and with no retransmission nothing else marks it.

| Module | Theorem | Statement |
|---|---|---|
| `ModbusProofs` | `BusInvariant` | `Spec => []Bus` |
| | `TypeCorrect`, `TimerCorrect` | `[]TypeOK`, `[]OneTimer` |
| | `NeverStalls`, `TriesCorrect` | `[]StallNeedsRaise`, `[]TriesExact` |
| `ModbusOrderProofs` | `OrderCorrect`, `HandlerCorrect` | `[]NoneLost`, `[]HandlerOnce` |
| | `StrayCorrect` | `[]StrayNeedsRetry` |
| | `ServiceImplemented` | `Spec => ServiceSpec` |
| `ProxyConnProofs` | `ConnInvariant` | `Spec => [](Links /\ Counts)` |
| | `ConnTypeCorrect`, `NoLeak` | `[]TypeOK`, `[]OpenIsRemote` |
| | `CountersBalanced`, `LateEndHarmless` | `[]BalancedUnlessBroken`, `EndsOnlyItself` |
| `SolarmanRxProofs` | `ReadInvariant` | `Spec => []ReadInv` |
| | `ReadTypeCorrect`, `IntactCorrect` | `[]TypeOK`, `[]OnlyIntact` |
| | `OnceCorrect`, `LossCorrect` | `[]InOrderOnce`, `[]LossNeedsFraming` |
| `CmdRoutingProofs` | `RoutedInvariant` | `Spec => []Routed` |
| | `OnceInOrderCorrect`, `AclCorrect` | `[]OnceInOrder`, `[]AclHeld` |
| | `StrayRouteCorrect` | `[]StrayNeedsOverlap` |
| `MqttPublishProofs` | `PublishInvariant` | `Spec => [](QueueInv /\ HaInv)` |
| | `PublishTypeCorrect` | `[]TypeOK` |
| | `OutstandingCorrect`, `NotedCorrect` | `[]OutstandingUnlessCounted`, `[]NotedMeansRegistered` |
| `ClientModeProofs` | `TimersInvariant`, `DeadIsSilent` | `EmuSpec => []Timers`, `[]DeadNeedsTwoUnanswered` |
| | `LoopInvariant`, `LoopTypeCorrect` | `LoopSpec => []LoopInv`, `[]LoopTypeOK` |
| | `CaughtCorrect`, `ReachedCorrect` | `[]CaughtIsLast`, `AllReached` |
| | `DetectTypeCorrect`, `DetectInvariant` | `Spec => []TypeOK`, `[]DetectInv` |
| | `WrongListCorrect` | `[]WrongNeedsDisturbance` |
| | `PaceInvariant`, `OverflowCause` | `Spec => []PaceInv`, `[](OverflowNeedsLongList \/ Crowded)` |
| | `OverflowCorrect` | `[]OverflowNeedsLongList` |
| | `ClientTypeCorrect` | `MCSpec => []MCTypeOK` |
| `ServerModeProofs` | `TalentInvariant`, `TalentTypeCorrect` | `Spec => []TalentInv`, `[]TypeOK` |
| | `ForwardCorrect`, `AnswerCorrect` | `[]ForwardedOnce`, `[]AnsweredOnce` |
| | `ShiftCorrect` | `[]ShiftedUnlessBatched` |
| | `DailyInvariant`, `DailyTypeCorrect` | `DailySpec => []DailyInv`, `[]DailyTypeOK` |
| | `StaleCorrect`, `FallCorrect` | `[]StaleNeedsOldConnection`, `FallNeedsStale` |
| | `ServerTypeCorrect` | `MCSpec => []MCTypeOK` |

None of the properties is inductive alone.  What each module adds, and why:

**Modbus.**  `Bus` is the conjunction of `TypeOK`, `OneTimer`, `StallNeedsRaise`,
`TriesExact` with `PendIsItem` (what is outstanding was taken from the queue): a
timeout is harmless because an armed callback means an outstanding request, whose
`retry_cnt` is one less than its transmissions; that a request put into an empty
queue is enough to start it needs that nothing waits while none is outstanding,
which in turn needs that an undecodable response is never forgotten by the history
(`HistGrows`).  There is one lemma for each operation (`EnqueueBus`, `RespOkBus`,
`RespRaisesBus`, `TimeoutBus`, `CloseBus`), which `NextBus` combines.

`ModbusOrderProofs` looks at what a step does to waiting, outstanding and finished
requests only; lemma `Shape` reduces `Next` to six kinds of step.  `Numbered` says of
each place of history, object and queue which number stands there, which is
`NoneLost` place by place; `OwnsHandler` ties the stored handler to the outstanding
request; `WireKnown` says that an answer under way is that of the outstanding
request, or of an older one that was sent twice or raised – hence
`StrayNeedsRetry`.  The refinement maps each kind of step to a step of
`ModbusService`, or to none for a refused answer and a retransmission.

**ProxyConn.**  `Links` holds the types, `OpenIsRemote`, and `ConnectsOnce`:
`create_remote` is only awaited while `remote` is empty, and a connection not yet
made has no task.  `Counts` says of each counter which awaits lie between its
increment and its decrement (`Serving`, `Counted`), so that the number of cloud
connections is a cardinality.

**SolarmanRx.**  `Framed` describes the stream without its history: each cell belongs
to a frame, a frame's cells follow each other, later cells are of later frames.
`Stored` – a parsed header is still in front of the buffer; `Logged` – what was
handled has left the buffer, or raised and is in front of it.  From these, a message
that is complete and whose length is right ends where its frame does
(`EndsInStep`), and whatever `read` does to the buffer has one of four shapes.
`FreshStarts` and `Blamed` carry the guilt of `LossNeedsFraming` from the frame that was
framed wrong to the one that is lost.

**CmdRouting.**  A command moves from `fwd_fifo` to the logger and to the answers.
`Ranks` says that each of the three sequences is in order and ahead of the one it is
fed from; `Known` that their entries are accepted commands, the waiting ones of the
cloud; `Legal` that these passed their list; `FlagLatest` that a flag belongs to the
latest command of its kind, so that a stray response needs an overlap.

**MqttPublish.**  `QueueInv`: who awaits a publish of the counters has a message on its
way (`Waiting`), and the message that leaves last carries the counters unless they
changed meanwhile (`LastCurrent`).  `HaInv`: who is registering began after the last
restart, or was marked by it (`Registering`).

**Client mode.**  The emulator's `DeadNeedsTwoUnanswered` looks at the last moment of
a silence and says nothing of how it came to that, so `Timers` adds `AtRest` (a
connection has its data timer running; without one there is no silence) and
`SentInTime`: while fewer than two messages are unanswered, a timer is running that
expires before the silence is long enough.  `LoopInv` ties each session to its inverter
and makes it the last one of it (`Fresh`), keeps of a session the shutdown came to
that it is on its way out, or still runs and waits to be told behind the end of its
cloud connection (`Held`), and of those it passed that all were told (`Passed`);
`Inverter_Cnt` is proved to be the number of running sessions.  `DetectInv`: while
nothing disturbs the detection only the probe is in the queue, and it ends before the
polling timer expires (`Probing`, from `ProbeFits`); `Taken` is the result.
`PaceInv` needs no sum over the queue: `Work` takes the longest time for each
request that waits, and the rest of the time for the outstanding one.  While one
block is polled it is at most what the extra requests need (`Extra`: of others,
after errors, and the first round of polls), and what is left of the last poll and
of the last slow blocks (`Late`), which the time since then uses up.  A tick takes
one from both sides, a poll adds one request to both; a queue that runs full then
means that the extra requests alone nearly fill it (`Crowded`).

**Server mode.**  `Pending`, `Buffered`, `Ordered`, `Answered` number the messages: what
waits, what was handled, written or waits for the cloud, and what was answered, with
the one exception of a message whose handler raised; `Delivered` says that a lost
write is over a connection that is closing or gone, so that nothing is delivered
behind it; `Shifted` ties the offsets of both streams
to the clock the inverter was given.  `DailyInv` relates the values of inverter,
connection and Home Assistant (`Grown`), says who is in `ClrAtMidnight` when
(`Cleared`), and what the reset has done up to its entry (`Zeroed`).

Two properties, and one history, were first written with `SelectSeq`, whose
definition is recursive; they now speak of the set of positions (`Done` and `Lists`
in `SolarmanRx`, `contacts` in `Talent`, `ForeignSent` in `SensorDetect`).

Only model-checked are

* the liveness properties `EveryRequestEnds`, `AllTasksEnd`, `ShutdownEnds`,
  `KeepsReading`, `RestartNoted`, `MCDetectionEnds`: they need fairness and
  `ENABLED`, which are out of the reach of the proof system;
* what a recursive definition computes for every input; no module uses
  `RECURSIVE`.

## 5. Where code and its documentation differ

1. `modbus_stray`: the late answer of a retransmitted request is taken for the
   request that follows, as the response names no register and the check is
   "something is outstanding, same address, function and length".  A
   round of polls with sensor list `1097` reads `0x1100` and `0x1000` with the
   same length, and MQTT may ask for any register at any time.
2. `modbus_stall`: text that is no UTF-8 in a text register raises out of
   `recv_resp` between "stop timer" and "send next pdu"; requests that wait then
   are stuck, as a new one starts a transmission only if it is alone.
3. `proxy_conn_count`: an exception of `wait_closed()` in `disc()` skips the
   corrections of the connection counters.
4. `solarman_rx_poison`: a handler that raises leaves its message, and those
   behind it, in the receive buffer, to be handled again with the next data.
5. `mqtt_publish_lost`: a counter that changes while the counters are published
   is unmarked when the publish ends.

## 6. Not modelled, and the plan

* **Configuration** (`cnf/`): read once, before any task exists, by one function
  after the other; validation is the library `schema`.  The one change at run time,
  the forwarding that `create_remote` switches off, is in `Talent` (`enabled`).
* **Web server** (`web/`): renders tables and log files; nothing reads back
  what it does.
* **Tables and conversions**: the register maps of `infos.py`, `infos_g3.py` and
  `infos_g3p.py` are data; formatting and units, derived values, the texts of
  topics and entities, and the contents of responses are left out.
* **Register scan** (`_send_modbus_scan`): a debugging aid that is switched on by
  hand; the wrap of its counters is listed as a hazard.
* Of `inverter_base.py` the check of `healthy()`, and an exception between the two
  halves of `create_remote` (the constructors that run there only assign); of
  `async_stream.py` the filter for the ping of the network test; of `mqtt.py`
  the mapping of topics to commands, and an exception that is no `MqttError`.
* In `Talent` the cuts of the stream by TCP (a reader of that form is in
  `SolarmanRx`), and messages of the cloud other than answers to contact messages,
  the time and Modbus requests: its OTA and unknown messages are forwarded to the
  inverter (`talent.py:530-538`); in `SolarmanRx` the renewal of sequence numbers when a message is
  forwarded.

What could follow: the iteration of `each_inverter` over an old and a new
connection of one inverter; sequence numbers that a late answer of the cloud
sets back; values at the end of a register window.

Proofs next: an abstract specification of the connections (one cloud
connection at a time, which ends with its inverter) and of the receive path (a
sequence of intact messages), and that `ProxyConn` and `SolarmanRx` implement them.
