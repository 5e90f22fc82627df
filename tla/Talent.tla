-------------------------------- MODULE Talent --------------------------------
(***************************************************************************)
(* The GEN3 protocol (class Talent, app/src/gen3/talent.py) of an inverter *)
(* and of its connections to the TSUN cloud, one after the other: what of  *)
(* the received messages is forwarded, with which timestamps, and how the  *)
(* inverter is answered.                                                   *)
(*                                                                         *)
(* The inverter gets its time from the proxy; the cloud's answer to the    *)
(* same request tells the offset between the two clocks, which is added to *)
(* the timestamps of what is forwarded: to those of heartbeats when they   *)
(* are handled, to those of data when the forward buffer is written.       *)
(* `shift' is what has been added to a timestamp.                          *)
(*                                                                         *)
(* The proxy answers the inverter itself, and greets the cloud itself when *)
(* it connects.  What the cloud answers to that greeting must not reach    *)
(* the inverter, which has an answer to its own contact message already.   *)
(*                                                                         *)
(* A connection to the cloud ends in two steps: its writer is closed, and  *)
(* its stream is taken away by close_cb once wait_closed() and the         *)
(* publishing of the counters have returned (never, if they raise).  What  *)
(* the inverter's task forwards in between is taken from fwd_fifo, written *)
(* to the closed writer and lost.                                          *)
(*                                                                         *)
(* Messages arrive whole (SolarmanRx has a reader of the same form for the *)
(* cuts TCP makes); one that is dispatched is handled in one step.         *)
(***************************************************************************)
EXTENDS Naturals, Sequences, FiniteSets

CONSTANTS
    Offsets,      \* of the cloud's clock: what it may answer
    MaxMsgs,      \* model bound: messages of the inverter
    MaxConns,     \* model bound: connections to the cloud
    MaxRead,      \* model bound: messages received at once
    MaxMb,        \* model bound: Modbus requests at a time
    MaxRounds     \* model bound: rounds of the loop of _update_header

ASSUME OffsetsAssumption == Offsets \subseteq Nat \ {0}
ASSUME BoundsAssumption == 
    {MaxMsgs, MaxConns, MaxRead, MaxMb, MaxRounds} \subseteq Nat

Data == {"collector_data", "inverter_data"}
\* other: OTA, an unknown message or control byte; junk: no Talent header;
\* unknown: the serial number is not configured
Kinds == Data \cup {"contact_info", "get_time", "heartbeat", "modbus",
                    "other", "junk", "unknown"}
\* What the proxy has an answer to.
Asks == Data \cup {"contact_info", "get_time", "heartbeat"}

VARIABLES
    rx,           \* messages in rx_fifo of the inverter's connection
    nmsg,         \* history: messages received
    pc,           \* its task: "read", "busy" in read(), "forward", "greeted",
                  \* "drop": it awaits disc() of the connection to the cloud
    state,        \* State.init, received, up or pend
    mb,           \* who asked the Modbus requests: the outstanding one first
    fwd,          \* fwd_fifo
    remote,       \* number of the connection to the cloud, 0: none
    closing,      \* its writer is closed
    nconn,        \* history: connections made
    enabled,      \* Config tsun.enabled: messages are forwarded
    await_conn_resp_cnt, \* of the remote stream: greetings not answered yet
    contacts,     \* contact messages the cloud has not answered yet
    acks,         \* history: answers to the inverter; id 0: of the cloud
    asked,        \* history: messages handled that the proxy answers
    ts_offset,    \* of the inverter's stream
    rts_offset,   \* of the remote stream
    synced,       \* history: this connection has answered a get_time
    clock,        \* history: offset of the last answer of the cloud
    handled,      \* history: messages handled that are to be forwarded
    sent,         \* history: messages forwarded, over which connection, and
                  \* if it was closed or its drain() raised
    wrote         \* history: what was written since the last read

rxVars == <<rx, nmsg, pc, state, acks, asked>>
timeVars == <<ts_offset, rts_offset, synced, clock>>
fwdVars == <<fwd, handled, sent, wrote>>
greetVars == <<await_conn_resp_cnt, contacts>>
cloudVars == <<remote, closing, nconn, enabled, greetVars>>
vars == <<rxVars, mb, timeVars, fwdVars, cloudVars>>

NothingWritten == [msgs |-> <<>>, synced |-> FALSE, clock |-> 0]

Init ==
    /\ rx = <<>> /\ nmsg = 0 /\ pc = "read" /\ state = "init"
    /\ mb = <<>>
    /\ fwd = <<>> /\ handled = <<>> /\ sent = <<>>
    /\ wrote = NothingWritten
    /\ remote = 0 /\ closing = FALSE /\ nconn = 0 /\ enabled = TRUE
    /\ await_conn_resp_cnt = 0 /\ contacts = 0 /\ acks = <<>> /\ asked = {}
    /\ ts_offset = 0 /\ rts_offset = 0 /\ synced = FALSE /\ clock = 0

----------------------------------------------------------------------------
(* read() of the inverter's stream                                         *)

\* __async_read
Receive ==
    /\ pc = "read"
    /\ \E n \in 1..MaxRead : \E typs \in [1..n -> Kinds] :
          /\ nmsg + n <= MaxMsgs /\ nmsg' = nmsg + n
          /\ rx' = rx \o [i \in 1..n |-> [id |-> nmsg + i, typ |-> typs[i]]]
    /\ pc' = "busy" /\ wrote' = NothingWritten
    /\ UNCHANGED <<state, acks, asked, mb, timeVars, fwd, handled, sent,
                   cloudVars>>

\* forward(): the message, as it is in the receive buffer.
Forward(m, shift) ==
    /\ \/ /\ enabled
          /\ fwd' = Append(fwd, [id |-> m.id, typ |-> m.typ, shift |-> shift,
                                 clock |-> clock])
          /\ handled' = Append(handled, m.id)
       \/ ~enabled /\ UNCHANGED <<fwd, handled>>
    /\ UNCHANGED <<sent, wrote>>

\* __parse_header: the message at the head of the buffer.
Msg == Head(rx)

\* The loop of read() has a whole message and hands it to its handler.
Dispatch(typs) == pc = "busy" /\ rx # <<>> /\ Msg.typ \in typs
\* __flush_recv_msg: the message is handled.
Flush ==
    /\ rx' = Tail(rx)
    /\ asked' = asked \cup (IF Msg.typ \in Asks THEN {Msg.id} ELSE {})
    /\ UNCHANGED <<nmsg, pc>>
\* __build_header .. __finish_send_msg: an answer to the message.
Answer(raised) == acks' = Append(acks, [id |-> Msg.id, raised |-> raised])

Received == IF state = "init" THEN "received" ELSE state

Swallow ==
    /\ state' = Received /\ Flush
    /\ UNCHANGED <<mb, timeVars, fwdVars, cloudVars>>

\* __set_serial_no does not know the inverter: the message is dropped.
UnknownSerial == Dispatch({"unknown"}) /\ Swallow /\ UNCHANGED acks

\* Mutant: it is answered, and forwarded as well.
ContactInfoForwarded ==
    /\ Dispatch({"contact_info"}) /\ Answer(FALSE)
    /\ state' = Received /\ Forward(Msg, 0) /\ Flush
    /\ UNCHANGED <<mb, timeVars, cloudVars>>

\* msg_contact_info: answered by the proxy.  It is not forwarded, for each
\* connection to the cloud starts with one that the proxy builds.
ContactInfo == Dispatch({"contact_info"}) /\ Answer(FALSE) /\ Swallow

\* msg_heartbeat: its timestamp is changed in the buffer.
Heartbeat ==
    /\ Dispatch({"heartbeat"}) /\ Answer(FALSE)
    /\ state' = "up" /\ Forward(Msg, ts_offset)
    /\ Flush /\ UNCHANGED <<mb, timeVars, cloudVars>>

ForwardPlain(newState) ==
    /\ state' = newState /\ Forward(Msg, 0)
    /\ Flush /\ UNCHANGED <<mb, timeVars, cloudVars>>

\* msg_get_time: answered with the time of the proxy, Modbus is blocked.
GetTime ==
    /\ Dispatch({"get_time"}) /\ Answer(FALSE)
    /\ ForwardPlain(IF state = "up" THEN "pend" ELSE Received)

\* msg_collector_data
CollectorData ==
    Dispatch({"collector_data"}) /\ Answer(FALSE) /\ ForwardPlain(Received)

\* msg_inverter_data: Modbus is allowed, also after a replay that is older
\* than a day and not stored.
InverterData ==
    Dispatch({"inverter_data"}) /\ Answer(FALSE) /\ ForwardPlain("up")

\* msg_ota_update, msg_unknown, unknown control bytes: counted.
Other == Dispatch({"other"}) /\ ForwardPlain(Received) /\ UNCHANGED acks

\* __msg_modbus: the response is forwarded if the cloud has asked.  One that
\* recv_resp refuses leaves the request outstanding.
ModbusRsp ==
    /\ Dispatch({"modbus"})
    /\ state' = Received
    /\ \/ UNCHANGED <<mb, fwdVars>>
       \/ mb # <<>> /\ Head(mb) = 0 /\ mb' = Tail(mb) /\ UNCHANGED fwdVars
       \/ mb # <<>> /\ Head(mb) # 0 /\ mb' = Tail(mb) /\ Forward(Msg, 0)
    /\ Flush /\ UNCHANGED <<acks, timeVars, cloudVars>>

\* __parse_header: the length of the id is wrong, the buffer is erased.
Junk ==
    /\ Dispatch({"junk"})
    /\ rx' = <<>>
    /\ UNCHANGED <<nmsg, pc, state, acks, asked, mb, timeVars, fwdVars,
                   cloudVars>>

\* The handler raises: the message stays in the buffer, and AsyncStream.loop
\* goes back to its read without writing or forwarding.  Data are answered
\* before they are processed.
Raise ==
    /\ pc = "busy" /\ rx # <<>> /\ Msg.typ # "junk"
    /\ state' = Received /\ pc' = "read"
    /\ IF Msg.typ \in Data THEN Answer(TRUE) ELSE UNCHANGED acks
    /\ UNCHANGED <<rx, nmsg, asked, mb, timeVars, fwdVars, cloudVars>>

ReadEnds ==
    /\ pc = "busy" /\ rx = <<>>
    /\ pc' = IF fwd = <<>> THEN "read" ELSE "forward"
    /\ UNCHANGED <<rx, nmsg, state, acks, asked, mb, timeVars, fwdVars,
                   cloudVars>>

----------------------------------------------------------------------------
(* Forwarding: AsyncStreamServer._async_forward                            *)

\* create_remote: the new stream has no offset.
NewOffset == 0

\* _init_new_client_conn of the new stream: the answer to its greeting is
\* awaited.
Greet == await_conn_resp_cnt' = 1 /\ contacts' = 1

\* The connection is made; its greeting is built and written.  If the host
\* has a private address, nothing is forwarded any more, but for what is in
\* the buffer.
Connect ==
    /\ pc = "forward" /\ remote = 0 /\ nconn < MaxConns
    /\ enabled' \in {enabled, FALSE}
    /\ nconn' = nconn + 1 /\ remote' = nconn + 1 /\ closing' = FALSE
    /\ rts_offset' = NewOffset /\ synced' = FALSE
    /\ pc' = "greeted"
    /\ Greet
    /\ UNCHANGED <<rx, nmsg, state, acks, asked, mb, ts_offset, clock,
                   fwdVars>>

\* No connection, or it has been lost again: all is kept for the next time.
NotConnected ==
    /\ pc \in {"forward", "greeted"} /\ remote = 0
    /\ pc' = "read"
    /\ UNCHANGED <<rx, nmsg, state, acks, asked, mb, timeVars, fwdVars,
                   cloudVars>>

\* Mutant: every message in the buffer is given the offset, of any kind.
UpdateHeaderAll(ms, rounds) ==
    [i \in 1..Len(ms) |-> [ms[i] EXCEPT !.shift = @ + rts_offset]]

\* _update_header: the loop over the messages reads and changes the first one
\* in each round.
UpdateHeader(ms, rounds) ==
    IF ms[1].typ \in Data
    THEN [ms EXCEPT ![1].shift = @ + rounds * rts_offset]
    ELSE ms

\* Its rounds: the length of the buffer by that of the first message, rounded
\* up.
Rounds(ms) == IF Len(ms) = 1 THEN {1} ELSE 2..MaxRounds

\* The contact messages among those that are written.
Contacts(ms) ==
    Cardinality({n \in 1..Len(ms) : ms[n].typ = "contact_info"})

\* The buffer with its new header is written to the connection.
WriteAll(lost) ==
    /\ pc \in {"forward", "greeted"} /\ remote # 0
    /\ \E rounds \in Rounds(fwd) :
          wrote' = [msgs |-> UpdateHeader(fwd, rounds), synced |-> synced,
                    clock |-> clock]
    /\ sent' = sent \o [i \in 1..Len(fwd) |-> [id |-> fwd[i].id,
                                              conn |-> remote, lost |-> lost]]
    /\ UNCHANGED <<rx, nmsg, state, acks, asked, mb, handled, nconn,
                   enabled>>

\* Mutant: the buffer is written, and kept.
WriteKeeps ==
    /\ ~closing /\ WriteAll(FALSE) /\ pc' = "read"
    /\ UNCHANGED <<fwd, remote, closing, timeVars, greetVars>>

\* All of fwd_fifo is written, and drain() returns.
Write ==
    /\ ~closing /\ WriteAll(FALSE) /\ fwd' = <<>> /\ pc' = "read"
    /\ contacts' = contacts + Contacts(fwd)
    /\ UNCHANGED <<remote, closing, timeVars, await_conn_resp_cnt>>

\* __del_remote
DelRemote ==
    /\ remote' = 0 /\ closing' = FALSE
    /\ await_conn_resp_cnt' = 0 /\ contacts' = 0
    /\ rts_offset' = 0 /\ synced' = FALSE /\ UNCHANGED <<ts_offset, clock>>

\* __async_forward: drain() of the connection has raised.  It is closed, which
\* is awaited, and taken away; at once if it was closed already.
DrainRaises ==
    \/ closing /\ pc' = "read" /\ DelRemote
    \/ /\ ~closing /\ closing' = TRUE /\ pc' = "drop"
       /\ UNCHANGED <<remote, timeVars, greetVars>>

\* All of fwd_fifo is written to a closed writer, or drain() raises.
WriteLost ==
    /\ WriteAll(TRUE) /\ fwd' = <<>>
    /\ \/ /\ closing /\ pc' = "read"
          /\ UNCHANGED <<remote, closing, timeVars, greetVars>>
       \/ DrainRaises

\* The drain() of the greeting raises: the buffer is kept.
GreetFails ==
    /\ pc = "greeted" /\ remote # 0 /\ DrainRaises
    /\ UNCHANGED <<rx, nmsg, state, acks, asked, mb, fwdVars, nconn,
                   enabled>>

\* disc() has returned, after close_cb of the client's task or before it.  (If
\* it raises, the inverter's connection ends as well.)
GiveUp ==
    /\ pc = "drop" /\ pc' = "read" /\ DelRemote
    /\ UNCHANGED <<rx, nmsg, state, acks, asked, mb, fwdVars, nconn,
                   enabled>>

----------------------------------------------------------------------------
(* The connection to the cloud, and timers                                 *)

\* The client's task is in its loop, and disc() has not taken its pointer to
\* the inverter's stream away.
ClientLoop == remote # 0 /\ ~closing

\* msg_get_time of the remote stream, which sets the offset of both.
TimeRsp ==
    /\ ClientLoop
    /\ \E o \in Offsets :
          rts_offset' = o /\ ts_offset' = o /\ clock' = o
    /\ synced' = TRUE
    /\ UNCHANGED <<rxVars, mb, fwdVars, cloudVars>>

\* msg_contact_info of the remote stream: the answer to a contact message.  If
\* none is awaited it is forwarded to the inverter.
ContactRsp ==
    /\ ClientLoop /\ contacts > 0 /\ contacts' = contacts - 1
    /\ IF await_conn_resp_cnt > 0
       THEN await_conn_resp_cnt' = await_conn_resp_cnt - 1 /\ UNCHANGED acks
       ELSE /\ acks' = Append(acks, [id |-> 0, raised |-> FALSE])
            /\ UNCHANGED await_conn_resp_cnt
    /\ UNCHANGED <<rx, nmsg, pc, state, asked, mb, timeVars, fwdVars,
                   remote, closing, nconn, enabled>>

\* The connection is lost: the client's loop ends with disc(), which closes the
\* writer.
CloudLost ==
    /\ remote # 0 /\ ~closing /\ closing' = TRUE
    /\ UNCHANGED <<rxVars, mb, timeVars, fwdVars, remote, nconn, enabled,
                   greetVars>>

\* client_loop ends with close_cb.
CloseCb ==
    /\ remote # 0 /\ closing /\ DelRemote
    /\ UNCHANGED <<rxVars, mb, fwdVars, nconn, enabled>>

Ask(who) ==
    /\ Len(mb) < MaxMb /\ mb' = Append(mb, who)
    /\ UNCHANGED <<rxVars, timeVars, fwdVars, cloudVars>>

\* The cloud sends a Modbus request: recv_req with msg_forward of the
\* inverter's stream as the handler.
ModbusReq == ClientLoop /\ Ask(remote)

\* The polling timer expires: mb_timout_cb.
Poll == state = "up" /\ Ask(0)

\* No answer: the next request is sent.
MbTimeout ==
    /\ mb # <<>> /\ mb' = Tail(mb)
    /\ UNCHANGED <<rxVars, timeVars, fwdVars, cloudVars>>

Next ==
    \/ Receive \/ UnknownSerial \/ ContactInfo \/ GetTime \/ Heartbeat
    \/ CollectorData \/ InverterData \/ Other \/ ModbusRsp
    \/ Junk \/ Raise \/ ReadEnds
    \/ Connect \/ NotConnected \/ Write \/ WriteLost \/ GreetFails \/ GiveUp
    \/ TimeRsp \/ ContactRsp \/ CloudLost \/ CloseCb \/ ModbusReq
    \/ Poll \/ MbTimeout

Spec == Init /\ [][Next]_vars

----------------------------------------------------------------------------
(* Properties                                                              *)

Ids == 1..MaxMsgs
Forwarded == [id : Ids, typ : Kinds, shift : Nat, clock : Nat]

TypeOK ==
    /\ rx \in Seq([id : Ids, typ : Kinds]) /\ nmsg \in 0..MaxMsgs
    /\ pc \in {"read", "busy", "forward", "greeted", "drop"}
    /\ state \in {"init", "received", "up", "pend"}
    /\ mb \in Seq(0..MaxConns)
    /\ fwd \in Seq(Forwarded) /\ remote \in 0..nconn /\ nconn \in 0..MaxConns
    /\ enabled \in BOOLEAN /\ closing \in BOOLEAN
    /\ {ts_offset, rts_offset, clock} \subseteq Offsets \cup {0}
    /\ synced \in BOOLEAN /\ contacts \in Nat /\ await_conn_resp_cnt \in 0..1
    /\ acks \in Seq([id : Ids \cup {0}, raised : BOOLEAN]) /\ asked \subseteq Ids
    /\ handled \in Seq(Ids)
    /\ sent \in Seq([id : Ids, conn : 1..MaxConns, lost : BOOLEAN])
    /\ wrote.msgs \in Seq(Forwarded)

(* A data message that is written alone, on a connection that has answered  *)
(* a get_time, carries the offset of the last answer, once; and a heartbeat *)
(* that of the last answer before it was handled, however it is written.    *)
(* Of several messages in one buffer "_update_header" (talent.py:243)       *)
(* changes the first one over and over.                                     *)
ShiftedUnlessBatched ==
    LET ms == wrote.msgs IN
    \A i \in 1..Len(ms) :
        /\ ms[i].typ = "heartbeat" => ms[i].shift = ms[i].clock
        /\ ms[i].typ \in Data /\ Len(ms) = 1 /\ wrote.synced =>
              ms[i].shift = wrote.clock

(* Each message that was handled was written to the cloud once, in that     *)
(* order, or waits in the buffer, whatever connections were refused or lost *)
(* and whichever handlers raised (the message is dispatched again,          *)
(* talent.py:141).  Only one that is written while the connection ends is   *)
(* lost, for the buffer is emptied before drain() (async_stream.py:366) and *)
(* remote.stream is set until close_cb; behind it nothing more arrives over *)
(* that connection, so what the cloud gets of one has no gap.               *)
ForwardedOnce ==
    /\ [i \in 1..Len(sent) |-> sent[i].id]
          \o [i \in 1..Len(fwd) |-> fwd[i].id] = handled
    /\ \A i, j \in 1..Len(handled) : i < j => handled[i] < handled[j]
    /\ \A i, j \in 1..Len(sent) :
          i < j /\ sent[i].conn = sent[j].conn /\ sent[i].lost => sent[j].lost

(* Each message of the inverter that asks for an answer and was handled has *)
(* one, in the order of its messages and once each, but data whose handler  *)
(* raised after the answer was built: they are answered again.  Nothing     *)
(* else is answered, and the cloud's answer to the greeting of the proxy    *)
(* ("don't forward this contact info here, we will build one",              *)
(* talent.py:339) is never passed on to the inverter.                       *)
AnsweredOnce ==
    /\ \A m \in Ids \cup {0} :
          m \in asked <=> [id |-> m, raised |-> FALSE] \in
                              {acks[i] : i \in 1..Len(acks)}
    /\ \A i \in 1..(Len(acks) - 1) :
          \/ acks[i].id < acks[i + 1].id
          \/ acks[i].id = acks[i + 1].id /\ acks[i].raised
==============================================================================
