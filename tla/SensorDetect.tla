----------------------------- MODULE SensorDetect -----------------------------
(***************************************************************************)
(* The polling of an inverter in client mode, and how it finds out which   *)
(* sensor list the inverter has (app/src/gen3plus/solarman_v5.py): the     *)
(* lists are tested one after the other by reading registers of theirs;    *)
(* the first response without an error ends the detection, and the list    *)
(* tested last is taken.                                                   *)
(*                                                                         *)
(* The Modbus queue appears as far as polling can see it: requests waiting *)
(* in order, one outstanding, answered or given up after MaxRetries + 1    *)
(* transmissions (module Modbus has the details).  Commands from MQTT or   *)
(* the cloud share it: they are the `foreign' requests.  Time passes in    *)
(* ticks, for the relation of the polling interval to the Modbus timeout   *)
(* is what keeps the probes apart.                                         *)
(***************************************************************************)
EXTENDS Naturals, Sequences, FiniteSets

CONSTANTS
    scan_reg,     \* the sensor lists in the order they are tested
    RealList,     \* the list of the inverter
    Blocks,       \* Blocks[l]: register blocks of mb_regs, for list l
    SlowBlocks,   \* SlowBlocks[l]: those of mb_slow_regs
    SlowEvery,    \* the slow ones are polled each SlowEvery-th time (30)
    mb_timeout,   \* polling interval, in ticks (30 s)
    MbTimeout,    \* Modbus response timeout, in ticks (8 s)
    MaxRetries,   \* Modbus.max_retries
    QueCap,       \* asyncio.Queue(100)
    MaxForeign,   \* model bound: foreign requests
    MaxErrors     \* model bound: responses with an error

Lists == {scan_reg[i] : i \in 1..Len(scan_reg)}

\* Requests of others; no request.
Foreign == "foreign"
Idle == "none"

ASSUME ListsAssumption ==
    /\ scan_reg \in Seq(Lists) /\ RealList \in Lists
    /\ {Foreign, Idle} \cap Lists = {}
    /\ Blocks \in [Lists -> Nat \ {0}] /\ SlowBlocks \in [Lists -> Nat]
ASSUME TimesAssumption ==
    /\ {mb_timeout, MbTimeout, QueCap} \subseteq Nat \ {0}
    /\ SlowEvery \in Nat \ {0, 1}
    /\ {MaxRetries, MaxForeign, MaxErrors} \subseteq Nat

VARIABLES
    idx,          \* of the list under test
    running,      \* detection_running
    regs,         \* mb_regs: how many blocks a poll reads
    slow,         \* mb_slow_regs
    exp_cnt,      \* expirations of the polling timer, modulo SlowEvery
    mb_timer,     \* ticks till the polling timer expires
    que,          \* waiting requests
    head,         \* the outstanding one
    rsp_timer,    \* ticks till its response timer expires
    retry_cnt,
    foreign,      \* history: foreign requests accepted
    errors,       \* history: responses with an error
    overflow,     \* history: QueueFull was raised
    disturbed     \* history: see Disturbed

vars == <<idx, running, regs, slow, exp_cnt, mb_timer, que, head, rsp_timer,
          retry_cnt, foreign, errors, overflow, disturbed>>
busVars == <<que, head, rsp_timer, retry_cnt, overflow>>
pollVars == <<idx, running, regs, slow, exp_cnt, mb_timer>>

sensor_list == scan_reg[idx]

----------------------------------------------------------------------------
(* The Modbus queue                                                        *)

\* The next request of `q' is sent, if no other is outstanding (`h').
Start(q, h) ==
    IF h = Idle /\ q # <<>>
    THEN /\ head' = Head(q) /\ que' = Tail(q)
         /\ rsp_timer' = MbTimeout /\ retry_cnt' = 0
    ELSE /\ head' = h /\ que' = q
         /\ rsp_timer' = IF h = Idle THEN 0 ELSE rsp_timer
         /\ UNCHANGED retry_cnt

\* n reads for list l are put into queue `q' and the first is sent at once.
\* QueueFull ends the calling function.
Enqueue(n, l, q, h) ==
    LET room == QueCap - Len(q) + (IF h = Idle THEN 1 ELSE 0)
        k == IF n <= room THEN n ELSE room
    IN  /\ Start(q \o [i \in 1..k |-> l], h)
        /\ overflow' = (overflow \/ n > room)

----------------------------------------------------------------------------
(* Polling                                                                 *)

\* Mutant: the last list is never tested.
NextIdxSkipsLast(i) == (i % (Len(scan_reg) - 1)) + 1

\* SensorListDetection.next
NextIdx(i) == (i % Len(scan_reg)) + 1

\* mb_timout_cb(cnt) with `q' and `h' as the queue.
Poll(cnt, q, h) ==
    /\ mb_timer' = mb_timeout
    /\ \/ /\ running
          /\ idx' = NextIdx(idx) /\ regs' = 1
          /\ Enqueue(1, scan_reg[idx'], q, h)
       \/ /\ ~running
          /\ UNCHANGED <<idx, regs>>
          /\ Enqueue(IF cnt = 1 THEN regs + slow ELSE regs,
                     sensor_list, q, h)
    /\ UNCHANGED <<running, slow>>

\* send_start_cmd, for an inverter without a list in the configuration.
Init ==
    /\ idx = 1 /\ running = TRUE /\ regs = 1 /\ slow = 0
    /\ exp_cnt = 0 /\ mb_timer = mb_timeout
    /\ que = <<>> /\ head = sensor_list
    /\ rsp_timer = MbTimeout /\ retry_cnt = 0
    /\ foreign = 0 /\ errors = 0 /\ overflow = FALSE /\ disturbed = FALSE

\* The polling timer expires.
PollExpires ==
    /\ mb_timer = 0
    /\ exp_cnt' = (exp_cnt + 1) % SlowEvery
    /\ Poll(exp_cnt, que, head)
    /\ UNCHANGED <<foreign, errors, disturbed>>

\* A command from MQTT (_modbus_cmd, send_modbus_cmd) or from the cloud.
ForeignCmd ==
    /\ foreign < MaxForeign
    /\ Enqueue(1, Foreign, que, head)
    /\ overflow' = overflow
    /\ foreign' = foreign + 1
    /\ disturbed' = (disturbed \/ running)
    /\ UNCHANGED <<pollVars, errors>>

----------------------------------------------------------------------------
(* Responses: __modbus_command_rsp                                         *)

\* The inverter answers reads of its own list and foreign requests; and the
\* late answer to a foreign request may have the length that is expected.
ForeignSent ==
    LET q == Append(que, head)
    IN  foreign > Cardinality({n \in 1..Len(q) : q[n] = Foreign})
Answerable == head \in {RealList, Foreign} \/ (head # Idle /\ ForeignSent)

\* While the detection is running: found(), _set_serial_no for the recorded
\* list, and all of its registers are polled at once.
Found ==
    /\ running' = FALSE
    /\ regs' = Blocks[sensor_list] /\ slow' = SlowBlocks[sensor_list]
    /\ mb_timer' = mb_timeout
    /\ Enqueue(regs' + slow', sensor_list, que, Idle)
    /\ UNCHANGED <<idx, exp_cnt>>

\* A response without an error.
ResponseOk ==
    /\ Answerable
    /\ \/ running /\ Found
       \/ ~running /\ Start(que, Idle) /\ UNCHANGED <<pollVars, overflow>>
    /\ UNCHANGED <<foreign, errors, disturbed>>

\* A response with an error, or one nobody waits for.  After the last
\* retransmission it ends the test of this list.
ResponseErr ==
    /\ errors < MaxErrors
    /\ errors' = errors + 1
    /\ \/ /\ running /\ retry_cnt >= MaxRetries
          /\ Poll(0, que, head)
          /\ disturbed' = (disturbed \/ head # Idle)
          /\ UNCHANGED exp_cnt
       \/ /\ ~(running /\ retry_cnt >= MaxRetries)
          /\ UNCHANGED <<pollVars, busVars, disturbed>>
    /\ UNCHANGED foreign

\* Mutants: one transmission too much, two too much.
MayRetryOnceMore == retry_cnt <= MaxRetries
MayRetryLonger == retry_cnt < MaxRetries + 2

MayRetry == retry_cnt < MaxRetries

\* The response timer expires: once more, or the next request.
RspTimeout ==
    /\ head # Idle /\ rsp_timer = 0
    /\ \/ /\ MayRetry
          /\ retry_cnt' = retry_cnt + 1 /\ rsp_timer' = MbTimeout
          /\ UNCHANGED <<que, head>>
       \/ ~MayRetry /\ Start(que, Idle)
    /\ UNCHANGED <<pollVars, foreign, errors, overflow, disturbed>>

Tick ==
    /\ mb_timer > 0 /\ (head # Idle => rsp_timer > 0)
    /\ mb_timer' = mb_timer - 1
    /\ rsp_timer' = IF head = Idle THEN 0 ELSE rsp_timer - 1
    /\ UNCHANGED <<idx, running, regs, slow, exp_cnt, que, head, retry_cnt,
                   foreign, errors, overflow, disturbed>>

Next ==
    \/ PollExpires \/ ForeignCmd \/ ResponseOk \/ ResponseErr \/ RspTimeout
    \/ Tick

Spec == Init /\ [][Next]_vars

\* Time passes, timers are served, and an inverter that is asked for its own
\* list again and again answers at last.
Fairness ==
    /\ WF_vars(PollExpires \/ RspTimeout \/ Tick)
    /\ SF_vars(head = RealList /\ ResponseOk)

----------------------------------------------------------------------------
(* Properties                                                              *)

Requests == Lists \cup {Foreign}

TypeOK ==
    /\ idx \in 1..Len(scan_reg) /\ running \in BOOLEAN
    /\ regs \in Nat /\ slow \in Nat /\ exp_cnt \in 0..(SlowEvery - 1)
    /\ mb_timer \in 0..mb_timeout
    /\ que \in Seq(Requests) /\ Len(que) <= QueCap
    /\ head \in Requests \cup {Idle}
    /\ rsp_timer \in 0..MbTimeout /\ retry_cnt \in 0..MaxRetries
    /\ foreign \in 0..MaxForeign /\ errors \in 0..MaxErrors
    /\ overflow \in BOOLEAN /\ disturbed \in BOOLEAN

(* A wrong list is taken only after a disturbance: a foreign request while  *)
(* the detection was running (its answer counts as the answer to the probe, *)
(* solarman_v5.py:908), or a response with an error that moved on to the    *)
(* next list while the read of the last one was still outstanding           *)
(* (solarman_v5.py:929).  Otherwise the transmissions of a probe end before *)
(* the polling timer takes the next list.                                   *)
WrongNeedsDisturbance == ~running /\ sensor_list # RealList => disturbed

(* Polls do not pile up: the queue runs full ("put_nowait", modbus.py:261)  *)
(* only with a list of several blocks, whose reads an inverter that does    *)
(* not answer keeps longer than the polling interval.                       *)
OverflowNeedsLongList == overflow => ~running /\ Blocks[sensor_list] > 1

(* The detection ends, whatever fails on the way.                           *)
DetectionEnds == <>~running
==============================================================================
