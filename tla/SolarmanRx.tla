------------------------------ MODULE SolarmanRx ------------------------------
(***************************************************************************)
(* The receive path of a Solarman V5 connection: AsyncStream.__async_read  *)
(* (app/src/async_stream.py) appends what TCP delivers to rx_fifo and calls *)
(* SolarmanBase.read (app/src/gen3plus/solarman_v5.py), which cuts the byte *)
(* stream into messages, checks them and dispatches them.  The handlers of *)
(* data, heartbeats and the synchronisation forward the message to the     *)
(* cloud and answer it; those of commands are in CmdRouting and Modbus.    *)
(*                                                                         *)
(* A frame is a header cell (11 bytes), followed by its body cells, the    *)
(* last of which ends with checksum and stop byte.  TCP cuts the stream    *)
(* anywhere.  read() never awaits: one iteration of its loop is an action, *)
(* and nothing else happens until `busy' is false again.  The forwarding is *)
(* switched on (no_forwarding, solarman.enabled).                          *)
(***************************************************************************)
EXTENDS Naturals, Sequences

CONSTANTS
    Kinds,        \* the frames the peer sends, see KindsAssumption
    MaxFrames     \* model bound: frames sent in a behaviour

\* Indications, which the proxy answers, and what it only takes note of.
Indications == {"dev_ind", "data_ind", "sync_start", "sync_end", "hbeat_ind"}
Controls == Indications \cup {"response", "unknown"}

\* control: the message type; start, stop, crc: that byte is right; len: body
\* cells the header announces; body: the cells that follow; known: the serial
\* number is configured
ASSUME KindsAssumption ==
    Kinds \subseteq [control : Controls, start : BOOLEAN, stop : BOOLEAN,
                     crc : BOOLEAN, len : Nat \ {0}, body : Nat \ {0},
                     known : BOOLEAN]
ASSUME MaxFramesAssumption == MaxFrames \in Nat

VARIABLES
    frames,       \* history: the frames the peer has sent
    stream,       \* the cells of these frames
    arr,          \* cells that have arrived
    rd,           \* cells taken out of rx_fifo: it holds rd+1 .. arr
    header_valid,
    data_len,     \* in cells
    rcv_idx,      \* Sequence.rcv_idx: the frame of the header parsed last
    busy,         \* read() is running
    state,        \* State.init, received or up
    fwd,          \* history: frames put into fwd_fifo
    tx,           \* history: answers put into tx_fifo
    log,          \* history: what became of each complete message
    fresh         \* history: frames that met an empty buffer when they began

vars == <<frames, stream, arr, rd, header_valid, data_len, rcv_idx, busy,
          state, fwd, tx, log, fresh>>

Init ==
    /\ frames = <<>> /\ stream = <<>> /\ arr = 0 /\ rd = 0
    /\ header_valid = FALSE /\ data_len = 0 /\ rcv_idx = 0 /\ busy = FALSE
    /\ state = "init" /\ fwd = <<>> /\ tx = <<>> /\ log = <<>> /\ fresh = {}

----------------------------------------------------------------------------
\* The peer sends a frame, maybe a broken one.
Send(k) ==
    /\ Len(frames) < MaxFrames
    /\ frames' = Append(frames, k)
    /\ stream' = stream \o [p \in 1..(k.body + 1) |->
                              [id |-> Len(frames) + 1, pos |-> p - 1]]
    /\ UNCHANGED <<arr, rd, header_valid, data_len, rcv_idx, busy, state, fwd,
                   tx, log, fresh>>

\* __async_read: some more of the stream arrives and read() is called.
Receive ==
    /\ ~busy
    /\ arr' \in (arr + 1)..Len(stream)
    /\ busy' = TRUE
    /\ fresh' = IF rd = arr /\ stream[arr + 1].pos = 0
                 THEN fresh \cup {stream[arr + 1].id} ELSE fresh
    /\ UNCHANGED <<frames, stream, rd, header_valid, data_len, rcv_idx, state,
                   fwd, tx, log>>

----------------------------------------------------------------------------
(* The buffer as read() sees it                                            *)

rx_len == arr - rd
Cell(n) == stream[rd + n]
Frame(c) == frames[c.id]

\* The cell begins with 0xA5; it ends with 0x15.
IsStart(c) == c.pos = 0 /\ Frame(c).start
IsStop(c) == c.pos = Frame(c).body /\ Frame(c).stop

\* __parse_header: a header is there, parsed now or in an earlier call.
Header == header_valid \/ (rx_len > 0 /\ IsStart(Cell(1)))
WrongStart == ~header_valid /\ rx_len > 0 /\ ~IsStart(Cell(1))
DataLen == IF header_valid THEN data_len ELSE Frame(Cell(1)).len
Size == 1 + DataLen

\* The index of the header is stored with it, whatever its start byte is.
RcvIdx == IF header_valid THEN rcv_idx ELSE Cell(1).id

\* Mutant: the last cell, with checksum and stop byte, is not waited for.
CompleteShort == Header /\ rx_len + 1 >= Size

Complete == Header /\ rx_len >= Size

Finished(out) == log' = Append(log, [id |-> Cell(1).id, out |-> out])

\* __flush_recv_msg: the message leaves the buffer, the loop goes on.
Flush ==
    /\ rd' = rd + Size
    /\ header_valid' = FALSE /\ data_len' = DataLen /\ rcv_idx' = RcvIdx
    /\ UNCHANGED busy

\* The buffer is erased.
Clear ==
    /\ rd' = arr
    /\ header_valid' = FALSE /\ rcv_idx' = RcvIdx

----------------------------------------------------------------------------
(* One iteration of the loop in read()                                     *)

\* Drop everything that was received, and return.
BadStart ==
    /\ busy /\ WrongStart
    /\ Clear /\ busy' = FALSE
    /\ data_len' = Frame(Cell(1)).len      \* whatever stands there
    /\ UNCHANGED <<frames, stream, arr, state, fwd, tx, log, fresh>>

\* The header or the message is incomplete: return and wait for more.
Incomplete ==
    /\ busy /\ ~Complete /\ ~WrongStart
    /\ busy' = FALSE
    /\ header_valid' = Header
    /\ data_len' = IF Header THEN DataLen ELSE data_len
    /\ rcv_idx' = IF Header THEN RcvIdx ELSE rcv_idx
    /\ UNCHANGED <<frames, stream, arr, rd, state, fwd, tx, log, fresh>>

\* __trailer_is_ok: no stop byte at the announced end.  If the next message
\* does not begin there either, everything is dropped.
BadStop ==
    /\ busy /\ Complete /\ ~IsStop(Cell(Size))
    /\ Finished("stop")
    /\ \/ /\ rx_len > Size /\ ~IsStart(Cell(Size + 1))
          /\ Clear /\ data_len' = DataLen /\ UNCHANGED busy
       \/ /\ rx_len > Size => IsStart(Cell(Size + 1))
          /\ Flush
    /\ UNCHANGED <<frames, stream, arr, state, fwd, tx, fresh>>

\* Mutant: a message between start and stop byte is taken as it is.
SumOkUnchecked == TRUE

\* The sum over the message is right.  Over other cells than those of one
\* frame it is taken to be wrong.
SumOk == Frame(Cell(1)).crc /\ DataLen = Frame(Cell(1)).body

\* Mutants: a wrong checksum erases the buffer; the message stays in it.
BadSumClears ==
    /\ busy /\ Complete /\ IsStop(Cell(Size)) /\ ~SumOk
    /\ Finished("sum")
    /\ Clear /\ data_len' = DataLen /\ UNCHANGED busy
    /\ UNCHANGED <<frames, stream, arr, state, fwd, tx, fresh>>

BadSumUnflushed ==
    /\ busy /\ Complete /\ IsStop(Cell(Size)) /\ ~SumOk
    /\ UNCHANGED vars

\* Start and stop byte are right: discard only this message.
BadSum ==
    /\ busy /\ Complete /\ IsStop(Cell(Size)) /\ ~SumOk
    /\ Finished("sum")
    /\ Flush
    /\ UNCHANGED <<frames, stream, arr, state, fwd, tx, fresh>>

Intact == busy /\ Complete /\ IsStop(Cell(Size)) /\ SumOk
Received == state' = IF state = "init" THEN "received" ELSE state

\* _set_serial_no does not know the inverter: the message is dropped.
Unknown ==
    /\ Intact /\ ~Frame(Cell(1)).known
    /\ Received /\ Finished("unknown")
    /\ Flush
    /\ UNCHANGED <<frames, stream, arr, fwd, tx, fresh>>

----------------------------------------------------------------------------
(* The handlers.  They read the message and process its data first, which  *)
(* may raise, then forward and answer it.                                  *)

Dispatch(control) ==
    /\ Intact /\ Frame(Cell(1)).known /\ Frame(Cell(1)).control = control
    /\ Finished("done") /\ Flush
    /\ UNCHANGED <<frames, stream, arr, fresh>>

ForwardMsg == fwd' = Append(fwd, [id |-> Cell(1).id])

\* _build_header .. _finish_send_msg: an answer has the index stored last.
BuildHeader == [id |-> Cell(1).id, rcv_idx |-> RcvIdx]
SendAckRsp == tx' = Append(tx, BuildHeader)

\* 0x4110: sets the sensor list, and raises if the data base has none.
MsgDevInd == Dispatch("dev_ind") /\ Received /\ ForwardMsg /\ SendAckRsp

\* 0x4210: from now on the inverter is polled and gets commands.
MsgDataInd ==
    Dispatch("data_ind") /\ state' = "up" /\ ForwardMsg /\ SendAckRsp

\* 0x4310
MsgSyncStart == Dispatch("sync_start") /\ Received /\ ForwardMsg /\ SendAckRsp

\* 0x4710
MsgHbeatInd ==
    Dispatch("hbeat_ind") /\ state' = "up" /\ ForwardMsg /\ SendAckRsp

\* 0x4810
MsgSyncEnd == Dispatch("sync_end") /\ Received /\ ForwardMsg /\ SendAckRsp

\* 0x1x10: an answer of the cloud, which goes no further.
MsgResponse == Dispatch("response") /\ Received /\ UNCHANGED <<fwd, tx>>

\* Any other control word: it is counted, and not answered.
MsgUnknown == Dispatch("unknown") /\ Received /\ ForwardMsg /\ UNCHANGED tx

RaiseLeaves ==
    /\ Finished("raised")
    /\ busy' = FALSE /\ header_valid' = TRUE
    /\ data_len' = DataLen /\ rcv_idx' = RcvIdx
    /\ UNCHANGED <<frames, stream, arr, rd, fresh>>

\* Mutant: the data are processed after the message was forwarded.
RaiseForwarded ==
    /\ Intact /\ Frame(Cell(1)).known
    /\ Received /\ ForwardMsg /\ UNCHANGED tx
    /\ RaiseLeaves

\* The handler raises, or the callback for the log level does before the
\* trailer is checked.  The exception leaves read() with the message still in
\* the buffer and header_valid set; AsyncStream.loop counts it and goes on.
Raise ==
    /\ busy /\ Complete
    /\ \/ UNCHANGED state
       \/ Intact /\ Frame(Cell(1)).known /\ Received
    /\ UNCHANGED <<fwd, tx>>
    /\ RaiseLeaves

Handle ==
    \/ MsgDevInd \/ MsgDataInd \/ MsgSyncStart \/ MsgHbeatInd \/ MsgSyncEnd
    \/ MsgResponse \/ MsgUnknown

Iterate ==
    \/ BadStart \/ Incomplete \/ BadStop \/ BadSum
    \/ Unknown \/ Handle

Next == (\E k \in Kinds : Send(k)) \/ Receive \/ Iterate \/ Raise

Spec == Init /\ [][Next]_vars

\* read() runs to its end, by itself or by an exception, and what the peer has
\* sent arrives.
FairSpec == Spec /\ WF_vars(Iterate) /\ WF_vars(Receive)

----------------------------------------------------------------------------
(* Properties                                                              *)

Outs == {"stop", "sum", "unknown", "done", "raised"}

TypeOK ==
    /\ frames \in Seq(Kinds)
    /\ stream \in Seq([id : Nat, pos : Nat])
    /\ arr \in 0..Len(stream) /\ rd \in 0..arr
    /\ header_valid \in BOOLEAN /\ data_len \in Nat /\ busy \in BOOLEAN
    /\ state \in {"init", "received", "up"} /\ fresh \subseteq Nat
    /\ rcv_idx \in 0..Len(frames)
    /\ fwd \in Seq([id : Nat]) /\ tx \in Seq([id : Nat, rcv_idx : Nat])
    /\ log \in Seq([id : Nat, out : Outs])

WellFramed(k) == k.start /\ k.stop /\ k.len = k.body

(* However TCP cuts the stream and whatever was dropped before, a handler   *)
(* sees only intact frames of configured inverters.                         *)
OnlyIntact ==
    \A n \in 1..Len(log) :
        LET k == frames[log[n].id] IN
        log[n].out = "done" => WellFramed(k) /\ k.crc /\ k.known

\* The frames of some control words that were handled to the end.
Done(controls) ==
    {log[n].id : n \in {m \in 1..Len(log) :
                          /\ log[m].out = "done"
                          /\ frames[log[m].id].control \in controls}}

\* A history with exactly these frames, in their order and once each.
Lists(h, ids) ==
    /\ {h[n].id : n \in 1..Len(h)} = ids
    /\ \A n, m \in 1..Len(h) : n < m => h[n].id < h[m].id

(* Messages are handled in their order and none is handled twice, but one   *)
(* whose handler raised: it is the next one to be handled again.  Even so   *)
(* it is forwarded and answered once, and the answer carries the index of   *)
(* the message it answers, although read() stores the index of a header     *)
(* before it knows that it is one (solarman_v5.py:199).                     *)
InOrderOnce ==
    /\ \A n \in 1..(Len(log) - 1) :
          \/ log[n].id < log[n + 1].id
          \/ log[n].id = log[n + 1].id /\ log[n].out = "raised"
    /\ Lists(fwd, Done(Controls \ {"response"}))
    /\ Lists(tx, Done(Indications))
    /\ \A n \in 1..Len(tx) : tx[n].rcv_idx = tx[n].id

(* "process all received messages in the _recv_buffer" (solarman_v5.py:89): *)
(* when read() has returned no complete message is left.                    *)
AllProcessed == ~busy => ~Complete

EndOf(i) == CHOOSE n \in 1..Len(stream) : stream[n] = [id |-> i,
                                                       pos |-> frames[i].body]
Good(k) == WellFramed(k) /\ k.crc /\ k.known

(* A wrong checksum, an unknown inverter or an exception costs no message   *)
(* but its own ("discard only this message", solarman_v5.py:234): a good    *)
(* frame that is gone was handled, unless an earlier one was framed wrong   *)
(* and no frame since then has met an empty buffer.                         *)
LossNeedsFraming ==
    \A i \in 1..Len(frames) :
        Good(frames[i]) /\ EndOf(i) <= rd =>
            \/ \E n \in 1..Len(log) : log[n] = [id |-> i, out |-> "done"]
            \/ \E j \in 1..(i - 1) :
                 ~WellFramed(frames[j]) /\ fresh \cap (j + 1)..i = {}

(* No broken frame stops the connection: read() always returns, and all     *)
(* that arrives is taken out of the buffer or is waiting for its end, or    *)
(* the handler of the first message raises.                                 *)
KeepsReading ==
    []<>(\/ arr = Len(stream) /\ ~busy /\ ~Complete
         \/ log # <<>> /\ log[Len(log)].out = "raised")
==============================================================================
