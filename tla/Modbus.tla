-------------------------------- MODULE Modbus --------------------------------
(***************************************************************************)
(* Class Modbus of app/src/modbus.py: the queue of Modbus RTU requests to  *)
(* one inverter, the one request that may be outstanding (`req_pend'), its *)
(* response timer, the retransmission, the checks on a response and the    *)
(* callback that hands a response back to whoever asked.                   *)
(*                                                                         *)
(* All of it runs on one asyncio event loop and never awaits, so a method  *)
(* call, or one iteration to the end of the recv_resp generator, is one    *)
(* action.  What interleaves are the callers: polling timer, MQTT          *)
(* commands, requests of the TSUN cloud, response timer, inverter, close.  *)
(***************************************************************************)
EXTENDS Naturals, Sequences

CONSTANTS
    Frames,       \* requests the clients use: [addr, fcode, reg, len]
    QueCap,       \* asyncio.Queue(100)
    MaxRetries,   \* self.max_retries
    InvAddr,      \* Modbus.INV_ADDR, the address whose data is decoded
    WireCap,      \* model bound: answers under way at a time
    MaxReq        \* model bound: requests accepted in a behaviour

ReadCodes == {3, 4}

ASSUME FramesAssumption ==
    Frames \subseteq [addr : Nat, fcode : 1..127, reg : Nat, len : Nat]
ASSUME BoundsAssumption ==
    /\ QueCap \in Nat \ {0} /\ MaxRetries \in Nat
    /\ InvAddr \in Nat /\ WireCap \in Nat /\ MaxReq \in Nat

\* A queue entry {'req', 'rsp_hdl', ..}; `id' is the number of the request.
Items == [id : Nat \ {0}, req : Frames, hdl : BOOLEAN]

\* last_* before the first transmission: addr, fcode, reg and len are 0
NoItem ==
    [id |-> 0, hdl |-> FALSE,
     req |-> [addr |-> 0, fcode |-> 0, reg |-> 0, len |-> 0]]

VARIABLES
    que,          \* the waiting requests
    req_pend,     \* a request is outstanding
    last,         \* last_req, last_addr, last_fcode, last_reg, last_len
    rsp_handler,  \* number of the request that owns the handler, 0: None
    retry_cnt,
    sent,         \* history: transmissions of the outstanding request
    tim,          \* the handle in self.tim: "none", "armed" or "fired"
    armed,        \* timeout callbacks the event loop still has to run
    closed,       \* close() was called
    wire,         \* answers of the inverter that are under way
    accepted,     \* history: number of requests put into the queue
    hist,         \* history: how each finished request ended
    calls         \* history: the calls of a response handler

busVars == <<que, req_pend, last, rsp_handler, retry_cnt, sent, tim, armed>>
ghostVars == <<accepted, hist, calls>>
vars == <<busVars, closed, wire, ghostVars>>

Init ==
    /\ que = <<>> /\ req_pend = FALSE /\ last = NoItem /\ rsp_handler = 0
    /\ retry_cnt = 0 /\ sent = 0 /\ tim = "none" /\ armed = 0
    /\ closed = FALSE /\ wire = <<>>
    /\ accepted = 0 /\ hist = <<>> /\ calls = <<>>

----------------------------------------------------------------------------
(* The timer.  The operators take the number of armed callbacks before and *)
(* return it after, so that a method may stop and start it in one step.    *)

\* Mutant: __stop_timer forgets to cancel the callback.
CancelTimerMutant == armed

\* __stop_timer: cancel() takes a callback away only if it has not run yet.
CancelTimer == IF tim = "armed" THEN armed - 1 ELSE armed

(* The send handler writes the frame to the connection.  The inverter may  *)
(* answer it, sooner or later; or the handler drops it (state not UP), the *)
(* inverter ignores it or the answer is lost.                              *)
Transmit(item, w) ==
    IF Len(w) < WireCap THEN {w, Append(w, item)} ELSE {w}

----------------------------------------------------------------------------
\* Mutants: the retry counter, or the old handler, survives the next send.
StartNextKeepsRetries(q, n, w, t) ==
    IF q = <<>>
    THEN /\ que' = q /\ req_pend' = FALSE /\ armed' = n /\ wire' = w
         /\ tim' = t
         /\ UNCHANGED <<last, rsp_handler, retry_cnt, sent>>
    ELSE /\ que' = Tail(q) /\ last' = Head(q)
         /\ rsp_handler' = IF Head(q).hdl THEN Head(q).id ELSE 0
         /\ sent' = 1 /\ UNCHANGED retry_cnt
         /\ req_pend' = TRUE /\ tim' = "armed" /\ armed' = n + 1
         /\ wire' \in Transmit(Head(q), w)

StartNextKeepsHandler(q, n, w, t) ==
    IF q = <<>>
    THEN /\ que' = q /\ req_pend' = FALSE /\ armed' = n /\ wire' = w
         /\ tim' = t
         /\ UNCHANGED <<last, rsp_handler, retry_cnt, sent>>
    ELSE /\ que' = Tail(q) /\ last' = Head(q)
         /\ rsp_handler' = IF Head(q).hdl THEN Head(q).id ELSE rsp_handler
         /\ retry_cnt' = 0 /\ sent' = 1
         /\ req_pend' = TRUE /\ tim' = "armed" /\ armed' = n + 1
         /\ wire' \in Transmit(Head(q), w)

(* __send_next_from_que with `q' as the queue, `n' callbacks armed, `w' on *)
(* the wire and `t' in self.tim, once no request is outstanding any more.  *)
StartNext(q, n, w, t) ==
    IF q = <<>>
    THEN /\ que' = q /\ req_pend' = FALSE /\ armed' = n /\ wire' = w
         /\ tim' = t
         /\ UNCHANGED <<last, rsp_handler, retry_cnt, sent>>
    ELSE /\ que' = Tail(q)
         /\ last' = Head(q)
         /\ rsp_handler' = IF Head(q).hdl THEN Head(q).id ELSE 0
         /\ retry_cnt' = 0 /\ sent' = 1
         /\ req_pend' = TRUE /\ tim' = "armed" /\ armed' = n + 1
         /\ wire' \in Transmit(Head(q), w)

\* Mutants: a new request is sent although one is outstanding; a request that
\* finds the queue empty is only stored.
EnqueueNoPendCheck(item) ==
    /\ Len(que) < QueCap /\ accepted' = item.id
    /\ IF Len(que) = 0
       THEN StartNext(<<item>>, armed, wire, tim)
       ELSE /\ que' = Append(que, item)
            /\ UNCHANGED <<req_pend, last, rsp_handler, retry_cnt, sent,
                           tim, armed, wire>>

EnqueueNotStarted(item) ==
    /\ Len(que) < QueCap /\ accepted' = item.id
    /\ que' = Append(que, item)
    /\ UNCHANGED <<req_pend, last, rsp_handler, retry_cnt, sent,
                   tim, armed, wire>>

\* put_nowait, and __send_next_from_que if the new entry is the only one.
Enqueue(item) ==
    /\ Len(que) < QueCap                   \* else QueueFull, nothing changes
    /\ accepted' = item.id
    /\ IF Len(que) = 0 /\ ~req_pend
       THEN StartNext(<<item>>, armed, wire, tim)
       ELSE /\ que' = Append(que, item)
            /\ UNCHANGED <<req_pend, last, rsp_handler, retry_cnt, sent,
                           tim, armed, wire>>

\* build_msg: a poll of the proxy itself or a command received by MQTT.
BuildMsg(f) ==
    /\ ~closed /\ accepted < MaxReq
    /\ Enqueue([id |-> accepted + 1, req |-> f, hdl |-> FALSE])
    /\ UNCHANGED <<closed, hist, calls>>

\* recv_req: a request of the cloud, which wants the response as well.  One
\* with a wrong checksum is refused and changes nothing.
RecvReq(f) ==
    /\ ~closed /\ accepted < MaxReq
    /\ Enqueue([id |-> accepted + 1, req |-> f, hdl |-> TRUE])
    /\ UNCHANGED <<closed, hist, calls>>

----------------------------------------------------------------------------
(* Responses.  A frame carries address, function code and, for a read, the *)
(* number of registers -- never the register number.  `of' is the request  *)
(* the inverter answered: history, the code cannot see it.                 *)

Response(item, crc, exc) ==
    [addr |-> item.req.addr,
     fcode |-> IF exc THEN item.req.fcode + 128 ELSE item.req.fcode,
     len |-> item.req.len, crc |-> crc, of |-> item.id]

DataAvailable(buf) == last.req.addr = InvAddr /\ buf.fcode \in ReadCodes

\* Mutant: a response is taken although no request is outstanding.
RespErrorNoPendCheck(buf) ==
    IF ~buf.crc THEN 1
    ELSE IF buf.addr # last.req.addr THEN 2
    ELSE IF buf.fcode # last.req.fcode THEN 3
    ELSE IF DataAvailable(buf) /\ buf.len # last.req.len THEN 4
    ELSE 0

\* __resp_error_check: what recv_resp leaves in `err' for its caller to read,
\* 0 if the response is taken.
RespError(buf) ==
    IF ~req_pend THEN 5
    ELSE IF ~buf.crc THEN 1
    ELSE IF buf.addr # last.req.addr THEN 2
    ELSE IF buf.fcode # last.req.fcode THEN 3
    ELSE IF DataAvailable(buf) /\ buf.len # last.req.len THEN 4
    ELSE 0

\* The record kept of a finished request; `by' is the request whose answer
\* was stored under the registers of this one, 0 if there was none.
Ended(out, by) ==
    [id |-> last.id, out |-> out, by |-> by, tries |-> sent,
     hdl |-> last.hdl]

RecvRespError(buf) ==
    /\ RespError(buf) # 0
    /\ wire' = Tail(wire)
    /\ UNCHANGED <<busVars, closed, ghostVars>>

RecvRespOk(buf) ==
    /\ RespError(buf) = 0
    /\ hist' = Append(hist, Ended("answered", buf.of))
    /\ calls' = IF rsp_handler # 0 THEN Append(calls, rsp_handler) ELSE calls
    /\ StartNext(que, CancelTimer, Tail(wire), "none")
    /\ UNCHANGED <<closed, accepted>>

(* Fmt.get_value decodes a text register outside its try block: with bytes *)
(* that are no UTF-8 the exception leaves recv_resp after __stop_timer, and *)
(* the reader keeps the message: it is dispatched again on the next data.  *)
RecvRespRaises(buf) ==
    /\ RespError(buf) = 0 /\ DataAvailable(buf)
    /\ req_pend' = FALSE /\ tim' = "none" /\ armed' = CancelTimer
    /\ hist' = Append(hist, Ended("raised", buf.of))
    /\ UNCHANGED <<wire, que, last, rsp_handler, retry_cnt, sent, closed,
                   accepted, calls>>

\* Any frame on the wire, in its order of arrival; it may be garbled, or be
\* the exception answer of the inverter to the request.
RecvResp ==
    /\ ~closed /\ wire # <<>>
    /\ \E crc, exc \in BOOLEAN :
         LET buf == Response(Head(wire), crc, exc)
         IN  RecvRespError(buf) \/ RecvRespOk(buf) \/ RecvRespRaises(buf)

----------------------------------------------------------------------------
(* __timeout_cb                                                            *)

\* Mutant: one retransmission too many.
RetransmitOffByOne ==
    /\ retry_cnt <= MaxRetries
    /\ retry_cnt' = retry_cnt + 1 /\ sent' = sent + 1
    /\ req_pend' = TRUE /\ tim' = "armed" /\ armed' = (armed - 1) + 1
    /\ wire' \in Transmit(last, wire)
    /\ UNCHANGED <<que, last, rsp_handler, hist>>

Retransmit ==
    /\ retry_cnt < MaxRetries
    /\ retry_cnt' = retry_cnt + 1 /\ sent' = sent + 1
    /\ req_pend' = TRUE /\ tim' = "armed"
    /\ armed' = (armed - 1) + 1            \* this one ran, the next is armed
    /\ wire' \in Transmit(last, wire)
    /\ UNCHANGED <<que, last, rsp_handler, hist>>

\* Mutants: given up without the retransmission; given up without sending
\* what waits.
GiveUpEarly ==
    /\ hist' = Append(hist, Ended("timeout", 0))
    /\ StartNext(que, armed - 1, wire, "fired")

GiveUpIdle ==
    /\ retry_cnt >= MaxRetries
    /\ hist' = Append(hist, Ended("timeout", 0))
    /\ req_pend' = FALSE /\ tim' = "fired" /\ armed' = armed - 1
    /\ UNCHANGED <<que, last, rsp_handler, retry_cnt, sent, wire>>

GiveUp ==
    /\ retry_cnt >= MaxRetries
    /\ hist' = Append(hist, Ended("timeout", 0))
    /\ StartNext(que, armed - 1, wire, "fired")

Timeout ==
    /\ armed > 0
    /\ Retransmit \/ GiveUp
    /\ UNCHANGED <<closed, accepted, calls>>

----------------------------------------------------------------------------
\* close: stop the timer, erase the handlers, empty the queue.
Close ==
    /\ ~closed
    /\ closed' = TRUE
    /\ req_pend' = FALSE /\ tim' = "none" /\ armed' = CancelTimer
    /\ rsp_handler' = 0
    /\ que' = <<>>
    /\ wire' = <<>>                        \* the owner drops the connection
    /\ UNCHANGED <<last, retry_cnt, sent, ghostVars>>

Next ==
    \/ \E f \in Frames : BuildMsg(f)
    \/ \E f \in Frames : RecvReq(f)
    \/ RecvResp
    \/ Timeout
    \/ Close

Spec == Init /\ [][Next]_vars

\* The event loop runs a callback whose time has come.
FairSpec == Spec /\ WF_vars(Timeout)

----------------------------------------------------------------------------
(* Properties                                                              *)

Outs == {"answered", "timeout", "raised"}

TypeOK ==
    /\ que \in Seq(Items) /\ Len(que) <= QueCap
    /\ req_pend \in BOOLEAN /\ closed \in BOOLEAN
    /\ last \in Items \cup {NoItem}
    /\ rsp_handler \in Nat
    /\ retry_cnt \in 0..MaxRetries
    /\ sent \in Nat
    /\ tim \in {"none", "armed", "fired"} /\ armed \in Nat
    /\ wire \in Seq(Items) /\ Len(wire) <= WireCap
    /\ accepted \in Nat
    /\ hist \in Seq([id : Nat, out : Outs, by : Nat, tries : Nat,
                     hdl : BOOLEAN])
    /\ calls \in Seq(Nat \ {0})

Raised == \E i \in 1..Len(hist) : hist[i].out = "raised"

(* build_msg and recv_req start a transmission only if the queue was empty, *)
(* so a request that waits while none is outstanding waits forever.  Only   *)
(* an exception between __stop_timer and __send_next_from_que of recv_resp  *)
(* leaves the queue in that state.                                          *)
StallNeedsRaise == que # <<>> /\ ~req_pend => Raised

(* "stop timer and send next pdu" (modbus.py:319): once the timer has been  *)
(* stopped for a response the next waiting request is outstanding.          *)
NoStall == que # <<>> => req_pend

(* __start_timer does not cancel the handle it overwrites, and close erases *)
(* the send handler a timeout would call: exactly one callback is armed     *)
(* while a request is outstanding, it is the one in `tim', and none is      *)
(* armed otherwise, in particular after close.                              *)
OneTimer ==
    /\ armed = IF req_pend THEN 1 ELSE 0
    /\ req_pend <=> tim = "armed"
    /\ closed => ~req_pend

Ids(s) == [i \in 1..Len(s) |-> s[i].id]

(* No request is lost, served twice or overtaken: the finished, the         *)
(* outstanding and the waiting requests are all the accepted ones, in the   *)
(* order they were accepted.                                                *)
NoneLost ==
    ~closed =>
        Ids(hist) \o (IF req_pend THEN <<last.id>> ELSE <<>>) \o Ids(que)
            = [i \in 1..accepted |-> i]

(* A handler is called for the answered requests that came with one, once   *)
(* each and in order: never for a timeout, for a poll of the proxy or for   *)
(* the request that follows.                                                *)
HandlerOnce ==
    /\ \A i, j \in 1..Len(calls) : i < j => calls[i] < calls[j]
    /\ {calls[i] : i \in 1..Len(calls)} =
         {hist[i].id : i \in {k \in 1..Len(hist) :
                               hist[k].out = "answered" /\ hist[k].hdl}}

(* A request is given up exactly after max_retries + 1 transmissions, and   *)
(* the slot of counter['retries'] an answer is booked on is the number of   *)
(* retransmissions that were really made (a slot past the end is a          *)
(* KeyError).                                                               *)
TriesExact ==
    /\ req_pend => sent = retry_cnt + 1
    /\ \A i \in 1..Len(hist) :
         /\ hist[i].tries \in 1..(MaxRetries + 1)
         /\ hist[i].out = "timeout" => hist[i].tries = MaxRetries + 1

(* The registers of an answer are stored under the request they were read   *)
(* for, as long as no response was dispatched twice.  The wire format names *)
(* no register: what ties an answer to its request is only that it came     *)
(* while the request was outstanding.                                       *)
NoStray == ~Raised => \A i \in 1..Len(hist) :
    hist[i].out = "answered" => hist[i].by = hist[i].id

(* An answer is taken for another request only if something went wrong      *)
(* before: a stray answer goes back to a retransmission, or to a response   *)
(* that was dispatched twice, of the request it belongs to or an older one. *)
StrayNeedsRetry == \A i \in 1..Len(hist) :
    hist[i].out = "answered" /\ hist[i].by # hist[i].id =>
        /\ hist[i].by < hist[i].id
        /\ \E j \in 1..hist[i].by : hist[j].tries > 1 \/ hist[j].out = "raised"

(* Each accepted request ends, unless the bus is closed or stalled.         *)
EveryRequestEnds == \A n \in 1..MaxReq :
    accepted >= n ~> (Len(hist) >= n \/ closed \/ Raised)

(* The class implements the bounded FIFO service: its jobs are the          *)
(* outstanding request and the waiting ones.                                *)
Reqs(s) == [i \in 1..Len(s) |-> s[i].req]
Jobs == IF req_pend THEN <<last.req>> \o Reqs(que) ELSE Reqs(que)
Outcome == [i \in 1..Len(hist) |-> hist[i].out]

Service == INSTANCE ModbusService
               WITH jobs <- Jobs, outcome <- Outcome, down <- closed

ServiceSpec == Service!ASpec
==============================================================================
