----------------------------- MODULE ModbusProofs -----------------------------
(***************************************************************************)
(* Proofs about Modbus for every set of frames and every value of the      *)
(* bounds.  Bus is the inductive invariant: the types, the queue and the   *)
(* timer determine each other, and what is outstanding is a real request.  *)
(***************************************************************************)
EXTENDS Modbus, TLAPS

\* What a timeout sends again is a request that was taken from the queue.
PendIsItem == req_pend => last \in Items

Bus == TypeOK /\ PendIsItem /\ OneTimer /\ StallNeedsRaise /\ TriesExact

HistRec == [id : Nat, out : Outs, by : Nat, tries : Nat, hdl : BOOLEAN]

-----------------------------------------------------------------------------
(* What goes on the wire fits the wire.                                    *)
LEMMA TransmitType ==
    ASSUME NEW item \in Items, NEW w \in Seq(Items), Len(w) <= WireCap,
           NEW v \in Transmit(item, w)
    PROVE  v \in Seq(Items) /\ Len(v) <= WireCap
<1>1. CASE Len(w) < WireCap
  <2>1. v = w \/ v = Append(w, item)
    BY <1>1 DEF Transmit
  <2>2. Append(w, item) \in Seq(Items) /\ Len(Append(w, item)) = Len(w) + 1
    OBVIOUS
  <2>3. WireCap \in Nat /\ Len(w) \in Nat
    BY BoundsAssumption
  <2> QED BY <2>1, <2>2, <2>3, <1>1
<1>2. CASE ~(Len(w) < WireCap)
  BY <1>2 DEF Transmit
<1> QED BY <1>1, <1>2

(* What __send_next_from_que with queue q, n armed callbacks and the timer *)
(* handle t leads to.                                                      *)
Started(q, n, t) ==
    /\ que' \in Seq(Items)
    /\ wire' \in Seq(Items) /\ Len(wire') <= WireCap
    /\ last' \in Items \cup {NoItem}
    /\ rsp_handler' \in Nat /\ retry_cnt' \in 0..MaxRetries
    /\ sent' \in Nat /\ req_pend' \in BOOLEAN
    /\ \/ /\ q = <<>> /\ que' = <<>> /\ req_pend' = FALSE
          /\ armed' = n /\ tim' = t
       \/ /\ q # <<>> /\ que' = Tail(q) /\ Len(que') = Len(q) - 1
          /\ req_pend' = TRUE /\ last' \in Items
          /\ armed' = n + 1 /\ tim' = "armed"
          /\ retry_cnt' = 0 /\ sent' = 1

(* __send_next_from_que leaves a request outstanding, with a fresh timer   *)
(* and retry counter, exactly if one was waiting.                          *)
LEMMA StartNextEffect ==
    ASSUME TypeOK,
           NEW q \in Seq(Items), NEW n \in Nat, NEW w \in Seq(Items),
           Len(w) <= WireCap, NEW t, StartNext(q, n, w, t)
    PROVE  Started(q, n, t)
<1>1. CASE q = <<>>
  BY <1>1 DEF StartNext, TypeOK, Started
<1>2. CASE q # <<>>
  <2>1. Head(q) \in Items /\ Tail(q) \in Seq(Items) /\ Len(Tail(q)) = Len(q) - 1
    BY <1>2
  <2>2. wire' \in Transmit(Head(q), w)
    BY <1>2 DEF StartNext
  <2>3. wire' \in Seq(Items) /\ Len(wire') <= WireCap
    BY <2>1, <2>2, TransmitType
  <2>4. /\ que' = Tail(q) /\ last' = Head(q) /\ req_pend' = TRUE
        /\ armed' = n + 1 /\ tim' = "armed" /\ retry_cnt' = 0 /\ sent' = 1
        /\ rsp_handler' = IF Head(q).hdl THEN Head(q).id ELSE 0
    BY <1>2 DEF StartNext
  <2>5. rsp_handler' \in Nat
    BY <2>1, <2>4 DEF Items
  <2>6. retry_cnt' \in 0..MaxRetries
    BY <2>4, BoundsAssumption
  <2> QED BY <1>2, <2>1, <2>3, <2>4, <2>5, <2>6 DEF Started
<1> QED BY <1>1, <1>2

-----------------------------------------------------------------------------
(* A new Modbus object, with an empty queue and no timer, satisfies Bus.   *)
THEOREM InitBus == Init => Bus
<1> SUFFICES ASSUME Init PROVE Bus
  OBVIOUS
<1>1. TypeOK
  <2>1. /\ <<>> \in Seq(Items) /\ <<>> \in Seq(HistRec) /\ Len(<<>>) = 0
        /\ <<>> \in Seq(Nat \ {0})
    OBVIOUS
  <2>2. 0 \in 0..MaxRetries /\ 0 <= QueCap /\ 0 <= WireCap
    BY BoundsAssumption
  <2> QED BY <2>1, <2>2 DEF Init, TypeOK, HistRec
<1>2. PendIsItem /\ OneTimer /\ StallNeedsRaise /\ TriesExact
  BY DEF Init, PendIsItem, OneTimer, StallNeedsRaise, TriesExact
<1> QED BY <1>1, <1>2 DEF Bus

(* The facts of Bus about the state after a step that leaves the history   *)
(* alone or appends one record to it.                                      *)
LEMMA HistGrows ==
    ASSUME TypeOK, TriesExact, NEW e \in HistRec, hist' = Append(hist, e),
           e.tries \in 1..(MaxRetries + 1),
           e.out = "timeout" => e.tries = MaxRetries + 1
    PROVE  /\ hist' \in Seq(HistRec)
           /\ \A i \in 1..Len(hist') :
                /\ hist'[i].tries \in 1..(MaxRetries + 1)
                /\ hist'[i].out = "timeout" => hist'[i].tries = MaxRetries + 1
           /\ Raised => Raised'
           /\ e.out = "raised" => Raised'
<1>1. hist \in Seq(HistRec)
  BY DEF TypeOK, HistRec
<1>2. /\ hist' \in Seq(HistRec) /\ Len(hist') = Len(hist) + 1
      /\ \A i \in 1..Len(hist) : hist'[i] = hist[i]
      /\ hist'[Len(hist) + 1] = e
  BY <1>1
<1>3. Len(hist) \in Nat
  BY <1>1
<1>4. ASSUME NEW i \in 1..Len(hist')
      PROVE  /\ hist'[i].tries \in 1..(MaxRetries + 1)
             /\ hist'[i].out = "timeout" => hist'[i].tries = MaxRetries + 1
  <2>1. CASE i \in 1..Len(hist)
    BY <2>1, <1>2 DEF TriesExact
  <2>2. CASE i = Len(hist) + 1
    BY <2>2, <1>2
  <2> QED BY <2>1, <2>2, <1>2, <1>3
<1>5. Raised => Raised'
  BY <1>2, <1>3 DEF Raised
<1>6. e.out = "raised" => Raised'
  BY <1>2, <1>3 DEF Raised
<1> QED BY <1>2, <1>4, <1>5, <1>6

(* What is noted of the outstanding request when it ends: it was sent once *)
(* more than it was retransmitted, and never too often.                    *)
LEMMA EndedType ==
    ASSUME TypeOK, PendIsItem, TriesExact, req_pend,
           NEW out \in Outs, NEW by \in Nat
    PROVE  /\ Ended(out, by) \in HistRec
           /\ Ended(out, by).tries = retry_cnt + 1
           /\ Ended(out, by).tries \in 1..(MaxRetries + 1)
           /\ Ended(out, by).out = out
  BY BoundsAssumption DEF TypeOK, PendIsItem, TriesExact, Items, HistRec, Ended

-----------------------------------------------------------------------------
(* One lemma per action: Bus holds after it.                               *)

(* build_msg and recv_req: the queue was empty and the request is sent, or *)
(* it waits behind others or behind an outstanding one.                    *)
LEMMA EnqueueBus ==
    ASSUME Bus, ~closed, NEW f \in Frames, NEW h \in BOOLEAN,
           Enqueue([id |-> accepted + 1, req |-> f, hdl |-> h]),
           UNCHANGED <<closed, hist, calls>>
    PROVE  Bus'
<1> DEFINE item == [id |-> accepted + 1, req |-> f, hdl |-> h]
<1>1. item \in Items /\ accepted' \in Nat
  BY DEF Bus, TypeOK, Items, Enqueue
<1>2. CASE Len(que) = 0 /\ ~req_pend
  <2>1. StartNext(<<item>>, armed, wire, tim)
    BY <1>2 DEF Enqueue
  <2>2. <<item>> \in Seq(Items) /\ <<item>> # <<>> /\ Len(<<item>>) = 1
    BY <1>1
  <2>3. /\ que' \in Seq(Items) /\ Len(que') = 0 /\ wire' \in Seq(Items)
        /\ Len(wire') <= WireCap /\ last' \in Items /\ rsp_handler' \in Nat
        /\ retry_cnt' = 0 /\ sent' = 1 /\ req_pend' = TRUE
        /\ armed' = armed + 1 /\ tim' = "armed"
    <3>1. armed \in Nat /\ wire \in Seq(Items) /\ Len(wire) <= WireCap
      BY DEF Bus, TypeOK
    <3>2. TypeOK
      BY DEF Bus
    <3> HIDE DEF item
    <3>3. Started(<<item>>, armed, tim)
      BY <2>1, <2>2, <3>1, <3>2, StartNextEffect
    <3> QED BY <2>2, <3>3 DEF Started
  <2>4. armed = 0
    BY <1>2 DEF Bus, OneTimer
  <2>5. que' = <<>>
    BY <2>3
  <2>6. TypeOK'
    BY <1>1, <2>3, <2>4, BoundsAssumption DEF Bus, TypeOK
  <2> QED BY <2>3, <2>4, <2>5, <2>6
         DEF Bus, PendIsItem, OneTimer, StallNeedsRaise, TriesExact, Raised
<1>3. CASE ~(Len(que) = 0 /\ ~req_pend)
  <2>1. /\ que' = Append(que, item) /\ Len(que) < QueCap
        /\ UNCHANGED <<req_pend, last, rsp_handler, retry_cnt, sent, tim,
                       armed, wire>>
    BY <1>3 DEF Enqueue
  <2>2. /\ que' \in Seq(Items) /\ Len(que') = Len(que) + 1
        /\ Len(que) \in Nat
    BY <1>1, <2>1 DEF Bus, TypeOK
  <2>3. TypeOK'
    BY <1>1, <2>1, <2>2, BoundsAssumption DEF Bus, TypeOK
  <2>4. que # <<>> \/ req_pend
    BY <1>3 DEF Bus, TypeOK
  <2> QED BY <2>1, <2>3, <2>4
         DEF Bus, PendIsItem, OneTimer, StallNeedsRaise, TriesExact, Raised
<1> QED BY <1>2, <1>3

(* A refused response changes nothing.                                     *)
LEMMA RespErrorBus ==
    ASSUME Bus, wire # <<>>, NEW buf, RecvRespError(buf)
    PROVE  Bus'
<1>1. wire' = Tail(wire) /\ UNCHANGED <<busVars, closed, ghostVars>>
  BY DEF RecvRespError
<1>2. wire' \in Seq(Items) /\ Len(wire') = Len(wire) - 1 /\ Len(wire) \in Nat
  BY <1>1 DEF Bus, TypeOK
<1>3. TypeOK'
  BY <1>1, <1>2, BoundsAssumption
     DEF Bus, TypeOK, busVars, ghostVars
<1> QED BY <1>1, <1>3 DEF Bus, PendIsItem, OneTimer, StallNeedsRaise,
                          TriesExact, Raised, busVars, ghostVars

(* A response is taken: the timer is stopped and the next request sent.    *)
LEMMA RespOkBus ==
    ASSUME Bus, ~closed, wire # <<>>, NEW buf, buf.of \in Nat, RecvRespOk(buf)
    PROVE  Bus'
<1>1. req_pend
  BY DEF RecvRespOk, RespError
<1>2. armed = 1 /\ tim = "armed" /\ CancelTimer = 0
  BY <1>1 DEF Bus, OneTimer, CancelTimer
<1>3. /\ Tail(wire) \in Seq(Items) /\ Len(Tail(wire)) = Len(wire) - 1
      /\ Len(Tail(wire)) <= WireCap /\ que \in Seq(Items)
  BY BoundsAssumption DEF Bus, TypeOK
<1>4. StartNext(que, 0, Tail(wire), "none")
  BY <1>2 DEF RecvRespOk
<1> DEFINE e == Ended("answered", buf.of)
<1>5. hist' = Append(hist, e) /\ UNCHANGED <<closed, accepted>>
  BY DEF RecvRespOk
<1>6. e \in HistRec /\ e.tries \in 1..(MaxRetries + 1) /\ e.out = "answered"
  BY <1>1, EndedType DEF Bus, Outs
<1> HIDE DEF e
<1>7. /\ hist' \in Seq(HistRec)
      /\ \A i \in 1..Len(hist') :
           /\ hist'[i].tries \in 1..(MaxRetries + 1)
           /\ hist'[i].out = "timeout" => hist'[i].tries = MaxRetries + 1
      /\ Raised => Raised'
  BY <1>5, <1>6, HistGrows DEF Bus
<1>8. calls' \in Seq(Nat \ {0})
  <2>1. CASE rsp_handler # 0
    BY <2>1 DEF RecvRespOk, Bus, TypeOK
  <2>2. CASE rsp_handler = 0
    BY <2>2 DEF RecvRespOk, Bus, TypeOK
  <2> QED BY <2>1, <2>2
<1>9. /\ que' \in Seq(Items) /\ Len(que') <= QueCap
      /\ wire' \in Seq(Items) /\ Len(wire') <= WireCap
      /\ last' \in Items \cup {NoItem}
      /\ rsp_handler' \in Nat /\ retry_cnt' \in 0..MaxRetries
      /\ sent' \in Nat /\ req_pend' \in BOOLEAN
      /\ \/ que' = <<>> /\ req_pend' = FALSE /\ armed' = 0 /\ tim' = "none"
         \/ /\ req_pend' = TRUE /\ last' \in Items /\ armed' = 1 /\ tim' = "armed"
            /\ retry_cnt' = 0 /\ sent' = 1
  <2>1. Len(que) \in Nat /\ Len(que) <= QueCap /\ QueCap \in Nat
    BY BoundsAssumption DEF Bus, TypeOK
  <2>2. Len(<<>>) = 0
    OBVIOUS
  <2> HIDE DEF TypeOK
  <2>3. TypeOK
    BY DEF Bus
  <2>4. Started(que, 0, "none")
    BY <1>3, <1>4, <2>3, StartNextEffect
  <2> QED BY <2>1, <2>2, <2>4 DEF Started
<1>10. TypeOK'
  BY <1>5, <1>7, <1>8, <1>9 DEF Bus, TypeOK, HistRec
<1>11. OneTimer' /\ PendIsItem' /\ StallNeedsRaise'
  BY <1>5, <1>9 DEF OneTimer, PendIsItem, StallNeedsRaise
<1>12. TriesExact'
  BY <1>7, <1>9 DEF TriesExact
<1> QED BY <1>10, <1>11, <1>12 DEF Bus

(* The exception while the registers are stored: the only step after which *)
(* requests may wait although none is outstanding.                         *)
LEMMA RespRaisesBus ==
    ASSUME Bus, ~closed, NEW buf, buf.of \in Nat, RecvRespRaises(buf)
    PROVE  Bus'
<1>1. req_pend
  BY DEF RecvRespRaises, RespError
<1>2. CancelTimer = 0
  BY <1>1 DEF Bus, OneTimer, CancelTimer
<1>3. /\ req_pend' = FALSE /\ tim' = "none" /\ armed' = 0
      /\ UNCHANGED <<wire, que, last, rsp_handler, retry_cnt, sent, closed,
                     accepted, calls>>
  BY <1>2 DEF RecvRespRaises
<1> DEFINE e == Ended("raised", buf.of)
<1>4. hist' = Append(hist, e)
  BY DEF RecvRespRaises
<1>5. e \in HistRec /\ e.tries \in 1..(MaxRetries + 1) /\ e.out = "raised"
  BY <1>1, EndedType DEF Bus, Outs
<1> HIDE DEF e
<1>6. /\ hist' \in Seq(HistRec) /\ Raised'
      /\ \A i \in 1..Len(hist') :
           /\ hist'[i].tries \in 1..(MaxRetries + 1)
           /\ hist'[i].out = "timeout" => hist'[i].tries = MaxRetries + 1
  BY <1>4, <1>5, HistGrows DEF Bus
<1>7. TypeOK'
  BY <1>3, <1>6 DEF Bus, TypeOK, HistRec
<1> QED BY <1>3, <1>6, <1>7 DEF Bus, PendIsItem, OneTimer, StallNeedsRaise,
                                TriesExact

(* __timeout_cb: a retransmission, or the next request is sent.            *)
LEMMA TimeoutBus ==
    ASSUME Bus, Timeout
    PROVE  Bus'
<1>1. req_pend = TRUE /\ armed = 1 /\ tim = "armed" /\ ~closed
  BY DEF Timeout, Bus, OneTimer, TypeOK
<1>2. UNCHANGED <<closed, accepted, calls>>
  BY DEF Timeout
<1>3. CASE Retransmit
  <2>1. /\ retry_cnt < MaxRetries /\ retry_cnt' = retry_cnt + 1
        /\ sent' = sent + 1 /\ req_pend' = TRUE /\ tim' = "armed"
        /\ armed' = 1 /\ UNCHANGED <<que, last, rsp_handler, hist>>
        /\ wire' \in Transmit(last, wire)
    BY <1>1, <1>3 DEF Retransmit
  <2>2. wire' \in Seq(Items) /\ Len(wire') <= WireCap
    BY <1>1, <2>1, TransmitType DEF Bus, PendIsItem, TypeOK
  <2>3. retry_cnt' \in 0..MaxRetries /\ sent' \in Nat
    BY <2>1, BoundsAssumption DEF Bus, TypeOK
  <2>4. TypeOK'
    BY <1>2, <2>1, <2>2, <2>3 DEF Bus, TypeOK
  <2>5. sent' = retry_cnt' + 1
    BY <1>1, <2>1 DEF Bus, TriesExact
  <2> QED BY <1>1, <1>2, <2>1, <2>4, <2>5
         DEF Bus, PendIsItem, OneTimer, StallNeedsRaise, TriesExact
<1>4. CASE GiveUp
  <2> DEFINE e == Ended("timeout", 0)
  <2>1. hist' = Append(hist, e) /\ retry_cnt >= MaxRetries
    BY <1>4 DEF GiveUp
  <2>2. /\ e \in HistRec /\ e.tries \in 1..(MaxRetries + 1)
        /\ e.tries = retry_cnt + 1 /\ e.out = "timeout"
    BY <1>1, EndedType DEF Bus, Outs
  <2>3. e.tries = MaxRetries + 1
    BY <2>1, <2>2, BoundsAssumption DEF Bus, TypeOK
  <2> HIDE DEF e
  <2>4. /\ hist' \in Seq(HistRec)
        /\ Raised => Raised'
        /\ \A i \in 1..Len(hist') :
             /\ hist'[i].tries \in 1..(MaxRetries + 1)
             /\ hist'[i].out = "timeout" => hist'[i].tries = MaxRetries + 1
    BY <2>1, <2>2, <2>3, HistGrows DEF Bus
  <2>5. StartNext(que, 0, wire, "fired")
    BY <1>1, <1>4 DEF GiveUp
  <2>6. /\ que \in Seq(Items) /\ wire \in Seq(Items) /\ Len(wire) <= WireCap
        /\ TypeOK
    BY DEF Bus, TypeOK
  <2>7. Started(que, 0, "fired")
    BY <2>5, <2>6, StartNextEffect
  <2>8. Len(que) \in Nat /\ Len(que) <= QueCap /\ QueCap \in Nat /\ Len(<<>>) = 0
    BY BoundsAssumption DEF Bus, TypeOK
  <2>9. TypeOK'
    BY <1>2, <2>4, <2>7, <2>8 DEF Bus, TypeOK, HistRec, Started
  <2>10. OneTimer' /\ PendIsItem' /\ StallNeedsRaise'
    <3>1. \/ que' = <<>> /\ req_pend' = FALSE /\ armed' = 0 /\ tim' = "fired"
          \/ /\ req_pend' = TRUE /\ last' \in Items
             /\ armed' = 1 /\ tim' = "armed"
      BY <2>7 DEF Started
    <3> QED BY <1>1, <1>2, <3>1 DEF OneTimer, PendIsItem, StallNeedsRaise
  <2>11. TriesExact'
    <3>1. req_pend' = FALSE \/ (req_pend' = TRUE /\ retry_cnt' = 0 /\ sent' = 1)
      BY <2>7 DEF Started
    <3> QED BY <2>4, <3>1 DEF TriesExact
  <2> QED BY <2>9, <2>10, <2>11 DEF Bus
<1> QED BY <1>3, <1>4 DEF Timeout

(* close: the callback is cancelled, the queue is empty.                   *)
LEMMA CloseBus ==
    ASSUME Bus, Close
    PROVE  Bus'
<1>1. CancelTimer = 0
  <2>1. CASE req_pend
    BY <2>1 DEF Bus, OneTimer, CancelTimer
  <2>2. CASE ~req_pend
    BY <2>2 DEF Bus, OneTimer, CancelTimer
  <2> QED BY <2>1, <2>2
<1>2. /\ closed' = TRUE /\ req_pend' = FALSE /\ tim' = "none" /\ armed' = 0
      /\ rsp_handler' = 0 /\ que' = <<>> /\ wire' = <<>>
      /\ UNCHANGED <<last, retry_cnt, sent, accepted, hist, calls>>
  BY <1>1 DEF Close, ghostVars
<1>3. <<>> \in Seq(Items) /\ Len(<<>>) = 0 /\ QueCap \in Nat /\ WireCap \in Nat
  BY BoundsAssumption
<1>4. TypeOK'
  <2>1. TypeOK
    BY DEF Bus
  <2>2. 0 <= QueCap /\ 0 <= WireCap
    BY <1>3
  <2> QED BY <1>2, <1>3, <2>1, <2>2 DEF TypeOK
<1> QED BY <1>2, <1>4 DEF Bus, PendIsItem, OneTimer, StallNeedsRaise, TriesExact

-----------------------------------------------------------------------------
(* Bus is inductive: every step of the class or its environment keeps it.  *)
THEOREM NextBus == Bus /\ [Next]_vars => Bus'
<1> SUFFICES ASSUME Bus, [Next]_vars PROVE Bus'
  OBVIOUS
<1>1. ASSUME NEW f \in Frames, BuildMsg(f) PROVE Bus'
  BY <1>1, EnqueueBus DEF BuildMsg
<1>2. ASSUME NEW f \in Frames, RecvReq(f) PROVE Bus'
  BY <1>2, EnqueueBus DEF RecvReq
<1>3. CASE RecvResp
  <2>1. ~closed /\ wire # <<>>
    BY <1>3 DEF RecvResp
  <2>2. PICK crc, exc \in BOOLEAN :
          LET buf == Response(Head(wire), crc, exc)
          IN  RecvRespError(buf) \/ RecvRespOk(buf) \/ RecvRespRaises(buf)
    BY <1>3 DEF RecvResp
  <2> DEFINE buf == Response(Head(wire), crc, exc)
  <2>3. buf.of \in Nat
    <3>1. Head(wire) \in Items
      BY <2>1 DEF Bus, TypeOK
    <3> QED BY <3>1 DEF Response, Items
  <2> HIDE DEF buf
  <2>4. CASE RecvRespError(buf)
    BY <2>1, <2>4, RespErrorBus
  <2>5. CASE RecvRespOk(buf)
    BY <2>1, <2>3, <2>5, RespOkBus
  <2>6. CASE RecvRespRaises(buf)
    BY <2>1, <2>3, <2>6, RespRaisesBus
  <2> QED BY <2>2, <2>4, <2>5, <2>6 DEF buf
<1>4. CASE Timeout
  BY <1>4, TimeoutBus
<1>5. CASE Close
  BY <1>5, CloseBus
<1>6. CASE UNCHANGED vars
  BY <1>6 DEF Bus, PendIsItem, TypeOK, OneTimer, StallNeedsRaise, TriesExact,
              Raised, vars, busVars, ghostVars
<1> QED BY <1>1, <1>2, <1>3, <1>4, <1>5, <1>6 DEF Next

(* Bus holds in every state of every Modbus object.                        *)
THEOREM BusInvariant == Spec => []Bus
<1>1. Init => Bus
  BY InitBus
<1>2. Bus /\ [Next]_vars => Bus'
  BY NextBus
<1> QED BY <1>1, <1>2, PTL DEF Spec

(* Every variable of the Modbus object keeps its type; in particular the   *)
(* queue never exceeds its size and retry_cnt never leaves the slots of    *)
(* counter['retries'].                                                     *)
THEOREM TypeCorrect == Spec => []TypeOK
<1>1. Bus => TypeOK
  BY DEF Bus
<1> QED BY <1>1, BusInvariant, PTL

(* Exactly one timeout callback is armed while a request is outstanding,   *)
(* it is the one __stop_timer can cancel, and none is left after close().  *)
THEOREM TimerCorrect == Spec => []OneTimer
<1>1. Bus => OneTimer
  BY DEF Bus
<1> QED BY <1>1, BusInvariant, PTL

(* No request waits while none is outstanding, unless a response raised.   *)
THEOREM NeverStalls == Spec => []StallNeedsRaise
<1>1. Bus => StallNeedsRaise
  BY DEF Bus
<1> QED BY <1>1, BusInvariant, PTL

(* Every request is transmitted at most max_retries + 1 times, and exactly *)
(* that often if it is given up.                                           *)
THEOREM TriesCorrect == Spec => []TriesExact
<1>1. Bus => TriesExact
  BY DEF Bus
<1> QED BY <1>1, BusInvariant, PTL
==============================================================================
