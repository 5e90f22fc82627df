----------------------------- MODULE SolarmanEmu -----------------------------
(***************************************************************************)
(* The emulated data logger (app/src/gen3plus/solarman_emu.py): in client  *)
(* mode the proxy itself talks to the TSUN cloud, with the data it reads   *)
(* over Modbus.  A Modbus response that finds no connection to the cloud   *)
(* puts a device message into the forward buffer, which makes the proxy    *)
(* connect; two timers then send data and heartbeats, and whatever the     *)
(* cloud answers restarts the one for the heartbeat.                       *)
(*                                                                         *)
(* Time passes in ticks, for the property is about the relation of the two *)
(* timers to the timeout that ends a connection as dead.                   *)
(***************************************************************************)
EXTENDS Naturals

CONSTANTS
    HbTimeouts,     \* the intervals the cloud asks for ("always 60 or 120")
    hb_default,     \* the interval before its first answer (60 s)
    data_up_inv,    \* DATA_UP_INTERVAL: between two data messages (300 s)
    MAX_START_TIME, \* nothing received for so long: dead (400 s)
    MaxFwd          \* model bound: device messages in the forward buffer

ASSUME EmuTimesAssumption ==
    /\ HbTimeouts \subseteq Nat \ {0} /\ HbTimeouts # {}
    /\ hb_default \in HbTimeouts
    /\ {data_up_inv, MAX_START_TIME} \subseteq Nat \ {0}
\* Two heartbeats, and the data interval, fit into the time of a dead one.
ASSUME EmuIntervalsAssumption ==
    /\ data_up_inv < MAX_START_TIME
    /\ \A hb \in HbTimeouts : 2 * hb < MAX_START_TIME
ASSUME MaxFwdAssumption == MaxFwd \in Nat

VARIABLES
    up,             \* there is a connection, and a SolarmanEmu
    emu_fwd,        \* device messages in the forward buffer
    hb_timeout,
    hb_timer,       \* ticks till it expires, Off: it is not running
    data_timer,
    idle,           \* ticks since something was received
    unanswered      \* history: messages sent since the last answer, up to 2

emuVars == <<up, emu_fwd, hb_timeout, hb_timer, data_timer, idle, unanswered>>
emuTimers == <<hb_timeout, hb_timer, data_timer>>

Off == MAX_START_TIME + data_up_inv
Up2(n) == IF n > 2 THEN 2 ELSE n

EmuInit ==
    /\ up = FALSE /\ emu_fwd = 0 /\ hb_timeout = hb_default
    /\ hb_timer = Off /\ data_timer = Off /\ idle = 0 /\ unanswered = 0

----------------------------------------------------------------------------
(* The connection of the inverter                                          *)

\* A Modbus response while there is no connection to the cloud.
EstablishEmu ==
    /\ ~up /\ emu_fwd < MaxFwd
    /\ emu_fwd' = emu_fwd + 1
    /\ UNCHANGED <<up, emuTimers, idle, unanswered>>

\* The forward buffer is not empty: create_remote builds a new emulator,
\* _init_new_client_conn starts its data timer, and the buffer is written.
\* If the connection is refused, nothing changes: the buffer keeps its
\* messages, and the next response adds one.
EmuConnect ==
    /\ ~up /\ emu_fwd > 0
    /\ up' = TRUE /\ emu_fwd' = 0
    /\ hb_timeout' = hb_default /\ hb_timer' = Off
    /\ data_timer' = data_up_inv
    /\ idle' = 0 /\ unanswered' = Up2(emu_fwd)

\* close() stops both timers.
EmuClose ==
    /\ up /\ up' = FALSE
    /\ hb_timer' = Off /\ data_timer' = Off
    /\ idle' = 0 /\ unanswered' = 0
    /\ UNCHANGED <<emu_fwd, hb_timeout>>

----------------------------------------------------------------------------
(* Messages of the cloud                                                   *)

\* Mutant: the answer does not restart the heartbeat.
MsgResponseQuiet ==
    /\ up
    /\ \E hb \in HbTimeouts : hb_timeout' = hb
    /\ idle' = 0 /\ unanswered' = 0
    /\ UNCHANGED <<up, emu_fwd, hb_timer, data_timer>>

\* msg_response: to a device, data or heartbeat message.
MsgResponse ==
    /\ up
    /\ \E hb \in HbTimeouts : hb_timeout' = hb /\ hb_timer' = hb
    /\ idle' = 0 /\ unanswered' = 0
    /\ UNCHANGED <<up, emu_fwd, data_timer>>

\* Any other message is counted only (msg_unknown), but it is not silence.
MsgUnknown ==
    /\ up
    /\ idle' = 0
    /\ UNCHANGED <<up, emu_fwd, emuTimers, unanswered>>

----------------------------------------------------------------------------
(* Timers                                                                  *)

\* The timer of heartbeats is not started again before there is an answer.
SendHeartbeat ==
    /\ hb_timer = 0 /\ hb_timer' = Off
    /\ unanswered' = Up2(unanswered + 1)
    /\ UNCHANGED <<up, emu_fwd, hb_timeout, data_timer, idle>>

\* A data message is sent, and both timers start anew.
SendData ==
    /\ data_timer = 0
    /\ hb_timer' = hb_timeout /\ data_timer' = data_up_inv
    /\ unanswered' = Up2(unanswered + 1)
    /\ UNCHANGED <<up, emu_fwd, hb_timeout, idle>>

\* The read of AsyncStream.loop times out: disc().
EmuDead == idle = MAX_START_TIME /\ EmuClose

Less(t) == IF t = Off THEN Off ELSE t - 1

EmuTick ==
    /\ up /\ hb_timer > 0 /\ data_timer > 0 /\ idle < MAX_START_TIME
    /\ hb_timer' = Less(hb_timer) /\ data_timer' = Less(data_timer)
    /\ idle' = idle + 1
    /\ UNCHANGED <<up, emu_fwd, hb_timeout, unanswered>>

EmuNext ==
    \/ EstablishEmu \/ EmuConnect \/ EmuClose
    \/ MsgResponse \/ MsgUnknown
    \/ SendHeartbeat \/ SendData \/ EmuDead \/ EmuTick

EmuSpec == EmuInit /\ [][EmuNext]_emuVars

----------------------------------------------------------------------------
(* Properties                                                              *)

EmuTypeOK ==
    /\ up \in BOOLEAN /\ emu_fwd \in 0..MaxFwd
    /\ hb_timeout \in HbTimeouts
    /\ hb_timer \in 0..hb_timeout \cup {Off}
    /\ data_timer \in 0..data_up_inv \cup {Off}
    /\ idle \in 0..MAX_START_TIME /\ unanswered \in 0..2

(* A connection to the cloud is given up as dead (async_stream.py:181) only *)
(* after the cloud left two messages in a row without an answer: neither    *)
(* one lost answer nor an interval of the heartbeats of its choice ends it, *)
(* although a heartbeat without an answer is not repeated                   *)
(* (solarman_emu.py:92).                                                    *)
DeadNeedsTwoUnanswered == idle = MAX_START_TIME => unanswered >= 2
==============================================================================
