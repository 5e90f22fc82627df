--------------------------- MODULE ModbusOrderProofs ---------------------------
(***************************************************************************)
(* Proofs about Modbus that need the order of the requests: none is lost   *)
(* or overtaken, a handler is called once and for its own request, where a *)
(* stray answer comes from, and that Modbus implements ModbusService.      *)
(*                                                                         *)
(* All of them look at a step from the same side: what it does to the      *)
(* waiting, the outstanding and the finished requests.  Shape reduces Next *)
(* to these six kinds of step once; each proof then has one case per kind. *)
(***************************************************************************)
EXTENDS ModbusProofs, SequenceTheorems

-----------------------------------------------------------------------------
(* The kinds of step.                                                      *)

\* item becomes the outstanding request, w is on the wire before it is sent
Sends(item, w) ==
    /\ req_pend' = TRUE /\ last' = item /\ sent' = 1
    /\ rsp_handler' = IF item.hdl THEN item.id ELSE 0
    /\ wire' \in Transmit(item, w)

Item(f, h) == [id |-> accepted + 1, req |-> f, hdl |-> h]

\* A request is accepted and sent at once, or waits.
AcceptSends(item) ==
    /\ ~closed /\ ~req_pend /\ que = <<>> /\ que' = <<>>
    /\ accepted' = accepted + 1 /\ Sends(item, wire)
    /\ UNCHANGED <<closed, hist, calls>>

AcceptWaits(item) ==
    /\ ~closed /\ Len(que) < QueCap /\ que' = Append(que, item)
    /\ accepted' = accepted + 1
    /\ UNCHANGED <<req_pend, last, rsp_handler, sent, wire, closed, hist, calls>>

\* An answer that is refused.
Refuses ==
    /\ ~closed /\ wire # <<>> /\ wire' = Tail(wire)
    /\ UNCHANGED <<que, req_pend, last, rsp_handler, sent, closed, accepted,
                   hist, calls>>

\* The outstanding request ends and, unless the end is an exception, the
\* next one is sent; w is on the wire in between.
Follows(w) ==
    \/ /\ que = <<>> /\ que' = <<>> /\ req_pend' = FALSE /\ wire' = w
       /\ UNCHANGED <<last, rsp_handler, sent>>
    \/ /\ que # <<>> /\ que' = Tail(que) /\ Sends(Head(que), w)

Answered ==
    /\ ~closed /\ req_pend /\ wire # <<>>
    /\ hist' = Append(hist, Ended("answered", Head(wire).id))
    /\ calls' = IF rsp_handler # 0 THEN Append(calls, rsp_handler) ELSE calls
    /\ Follows(Tail(wire))
    /\ UNCHANGED <<closed, accepted>>

TimedOut ==
    /\ ~closed /\ req_pend /\ sent = MaxRetries + 1
    /\ hist' = Append(hist, Ended("timeout", 0))
    /\ Follows(wire)
    /\ UNCHANGED <<closed, accepted, calls>>

RaisedOut ==
    /\ ~closed /\ req_pend /\ wire # <<>> /\ req_pend' = FALSE
    /\ hist' = Append(hist, Ended("raised", Head(wire).id))
    /\ UNCHANGED <<que, last, rsp_handler, sent, wire, closed, accepted, calls>>

Resends ==
    /\ ~closed /\ req_pend /\ req_pend' = TRUE
    /\ sent' = sent + 1 /\ wire' \in Transmit(last, wire)
    /\ UNCHANGED <<que, last, rsp_handler, closed, accepted, hist, calls>>

Closes ==
    /\ closed' = TRUE /\ req_pend' = FALSE /\ que' = <<>> /\ wire' = <<>>
    /\ UNCHANGED <<accepted, hist, calls>>

Stays ==
    UNCHANGED <<que, req_pend, last, rsp_handler, sent, wire, closed, accepted,
                hist, calls>>

(* StartNext with the queue of the object is what follows a finished       *)
(* request.                                                                *)
LEMMA StartNextFollows ==
    ASSUME NEW n, NEW w, NEW t, StartNext(que, n, w, t)
    PROVE  Follows(w)
<1>1. CASE que = <<>>
  BY <1>1 DEF StartNext, Follows
<1>2. CASE que # <<>>
  BY <1>2 DEF StartNext, Follows, Sends
<1> QED BY <1>1, <1>2

LEMMA EnqueueShape ==
    ASSUME Bus, ~closed, NEW f \in Frames, NEW h \in BOOLEAN,
           Enqueue(Item(f, h)), UNCHANGED <<closed, hist, calls>>
    PROVE  AcceptSends(Item(f, h)) \/ AcceptWaits(Item(f, h))
<1> DEFINE item == Item(f, h)
<1>1. Len(que) < QueCap /\ accepted' = accepted + 1
  BY DEF Enqueue, Item
<1>2. CASE Len(que) = 0 /\ ~req_pend
  <2>1. StartNext(<<item>>, armed, wire, tim)
    BY <1>2 DEF Enqueue
  <2>2. <<item>> # <<>> /\ Head(<<item>>) = item /\ Tail(<<item>>) = <<>>
    OBVIOUS
  <2>3. que = <<>>
    BY <1>2 DEF Bus, TypeOK
  <2> HIDE DEF item
  <2>4. que' = <<>> /\ Sends(item, wire)
    BY <2>1, <2>2 DEF StartNext, Sends
  <2> QED BY <1>1, <1>2, <2>3, <2>4 DEF AcceptSends, item
<1>3. CASE ~(Len(que) = 0 /\ ~req_pend)
  BY <1>1, <1>3 DEF Enqueue, AcceptWaits
<1> QED BY <1>2, <1>3

(* Every step of the object is of one of these kinds.                      *)
LEMMA Shape ==
    ASSUME Bus, [Next]_vars
    PROVE  \/ \E f \in Frames, h \in BOOLEAN :
                AcceptSends(Item(f, h)) \/ AcceptWaits(Item(f, h))
           \/ Refuses \/ Answered \/ TimedOut \/ RaisedOut \/ Resends
           \/ Closes \/ Stays
<1>1. ASSUME NEW f \in Frames, BuildMsg(f)
      PROVE  \E h \in BOOLEAN :
                AcceptSends(Item(f, h)) \/ AcceptWaits(Item(f, h))
  BY <1>1, EnqueueShape DEF BuildMsg, Item
<1>2. ASSUME NEW f \in Frames, RecvReq(f)
      PROVE  \E h \in BOOLEAN :
                AcceptSends(Item(f, h)) \/ AcceptWaits(Item(f, h))
  BY <1>2, EnqueueShape DEF RecvReq, Item
<1>3. CASE RecvResp
  <2>1. ~closed /\ wire # <<>>
    BY <1>3 DEF RecvResp
  <2>2. PICK crc, exc \in BOOLEAN :
          LET buf == Response(Head(wire), crc, exc)
          IN  RecvRespError(buf) \/ RecvRespOk(buf) \/ RecvRespRaises(buf)
    BY <1>3 DEF RecvResp
  <2> DEFINE buf == Response(Head(wire), crc, exc)
  <2>3. buf.of = Head(wire).id
    BY DEF Response
  <2>4. RespError(buf) = 0 => req_pend
    BY DEF RespError
  <2> HIDE DEF buf
  <2>5. CASE RecvRespError(buf)
    BY <2>1, <2>5 DEF RecvRespError, Refuses, busVars, ghostVars
  <2>6. CASE RecvRespOk(buf)
    <3>1. Follows(Tail(wire))
      BY <2>6, StartNextFollows DEF RecvRespOk
    <3> QED BY <2>1, <2>3, <2>4, <2>6, <3>1 DEF RecvRespOk, Answered
  <2>7. CASE RecvRespRaises(buf)
    BY <2>1, <2>3, <2>4, <2>7 DEF RecvRespRaises, RaisedOut
  <2> QED BY <2>2, <2>5, <2>6, <2>7 DEF buf
<1>4. CASE Timeout
  <2>1. req_pend /\ ~closed /\ UNCHANGED <<closed, accepted, calls>>
    BY <1>4 DEF Timeout, Bus, OneTimer, TypeOK
  <2>2. CASE Retransmit
    BY <2>1, <2>2 DEF Retransmit, Resends
  <2>3. CASE GiveUp
    <3>1. Follows(wire)
      BY <2>3, StartNextFollows DEF GiveUp
    <3>2. sent = MaxRetries + 1
      BY <2>1, <2>3, BoundsAssumption DEF GiveUp, Bus, TypeOK, TriesExact
    <3> QED BY <2>1, <2>3, <3>1, <3>2 DEF GiveUp, TimedOut
  <2> QED BY <1>4, <2>2, <2>3 DEF Timeout
<1>5. CASE Close
  BY <1>5 DEF Close, Closes, ghostVars
<1>6. CASE UNCHANGED vars
  BY <1>6 DEF vars, busVars, ghostVars, Stays
<1> QED BY <1>1, <1>2, <1>3, <1>4, <1>5, <1>6 DEF Next

-----------------------------------------------------------------------------
(* The order of the requests.                                              *)

Busy == IF req_pend THEN 1 ELSE 0

\* The numbers of the finished, the outstanding and the waiting requests.
\* close() forgets the last two, so they are claimed until then.
Numbered ==
    /\ \A i \in 1..Len(hist) : hist[i].id = i
    /\ ~closed =>
         /\ req_pend => last.id = Len(hist) + 1
         /\ \A i \in 1..Len(que) : que[i].id = Len(hist) + Busy + i
         /\ accepted = Len(hist) + Busy + Len(que)

(* A finished request had the next number, and what waits moves up.        *)
LEMMA NumberedEnds ==
    ASSUME TypeOK, Numbered, ~closed, req_pend, NEW out, NEW by,
           hist' = Append(hist, Ended(out, by)), UNCHANGED <<closed, accepted>>,
           \/ que' = que /\ req_pend' = FALSE
           \/ \E w : Follows(w)
    PROVE  Numbered'
<1> DEFINE n == Len(hist)
<1>1. /\ hist \in Seq(HistRec) /\ que \in Seq(Items)
      /\ n \in Nat /\ Len(que) \in Nat
  BY DEF TypeOK, HistRec
<1>2. /\ Len(hist') = n + 1 /\ \A i \in 1..n : hist'[i] = hist[i]
      /\ hist'[n + 1].id = n + 1
  BY <1>1 DEF Ended, Numbered
<1>3. \A i \in 1..Len(hist') : hist'[i].id = i
  BY <1>1, <1>2 DEF Numbered
<1>4. /\ \A i \in 1..Len(que) : que[i].id = n + 1 + i
      /\ accepted' = n + 1 + Len(que)
  BY <1>1 DEF Numbered, Busy
<1>5. CASE req_pend' = FALSE /\ que' = que
  BY <1>1, <1>2, <1>3, <1>4, <1>5 DEF Numbered, Busy
<1>6. CASE que = <<>> /\ que' = <<>> /\ req_pend' = FALSE
  BY <1>1, <1>2, <1>3, <1>4, <1>6 DEF Numbered, Busy
<1>7. CASE que # <<>> /\ que' = Tail(que) /\ req_pend' = TRUE /\ last' = Head(que)
  <2>1. /\ Len(que') = Len(que) - 1 /\ Head(que) = que[1] /\ 1 \in 1..Len(que)
        /\ \A i \in 1..Len(que') : que'[i] = que[i + 1] /\ i + 1 \in 1..Len(que)
    BY <1>1, <1>7
  <2>2. last'.id = n + 2
    BY <1>1, <1>4, <1>7, <2>1
  <2>3. \A i \in 1..Len(que') : que'[i].id = n + 2 + i
    <3> TAKE i \in 1..Len(que')
    <3>1. que'[i] = que[i + 1] /\ i + 1 \in 1..Len(que) /\ i \in Nat
      BY <1>1, <2>1
    <3>2. que[i + 1].id = n + 1 + (i + 1)
      BY <1>4, <3>1
    <3> QED BY <1>1, <3>1, <3>2
  <2>4. accepted' = n + 2 + Len(que')
    BY <1>1, <1>4, <2>1
  <2> QED BY <1>1, <1>2, <1>3, <1>7, <2>2, <2>3, <2>4 DEF Numbered, Busy
<1>8. ASSUME NEW w, Follows(w) PROVE Numbered'
  BY <1>6, <1>7, <1>8 DEF Follows, Sends
<1> QED BY <1>5, <1>8

LEMMA NumberedStep ==
    ASSUME Bus, Numbered, [Next]_vars
    PROVE  Numbered'
<1>1. ASSUME NEW f \in Frames, NEW h \in BOOLEAN, AcceptSends(Item(f, h))
      PROVE  Numbered'
  BY <1>1 DEF Bus, TypeOK, AcceptSends, Sends, Item, Numbered, Busy
<1>2. ASSUME NEW f \in Frames, NEW h \in BOOLEAN, AcceptWaits(Item(f, h))
      PROVE  Numbered'
  <2>1. que \in Seq(Items) /\ Len(que) \in Nat /\ Len(hist) \in Nat
    BY DEF Bus, TypeOK
  <2>2. /\ Len(que') = Len(que) + 1 /\ que'[Len(que) + 1] = Item(f, h)
        /\ \A i \in 1..Len(que) : que'[i] = que[i]
    BY <1>2, <2>1 DEF AcceptWaits
  <2>3. Item(f, h).id = Len(hist) + Busy + Len(que) + 1 /\ accepted' = Item(f, h).id
    BY <1>2, <2>1 DEF AcceptWaits, Item, Numbered, Busy
  <2>4. Busy' = Busy /\ Busy \in Nat /\ ~closed
    BY <1>2 DEF AcceptWaits, Busy
  <2>5. \A i \in 1..Len(que') : que'[i].id = Len(hist) + Busy + i
    <3> TAKE i \in 1..Len(que')
    <3>1. CASE i \in 1..Len(que)
      BY <2>2, <2>4, <3>1 DEF Numbered
    <3>2. CASE i = Len(que) + 1
      BY <2>1, <2>2, <2>3, <2>4, <3>2
    <3> QED BY <2>1, <2>2, <3>1, <3>2
  <2>6. accepted' = Len(hist) + Busy + Len(que')
    BY <2>1, <2>2, <2>3, <2>4
  <2> QED BY <1>2, <2>4, <2>5, <2>6 DEF AcceptWaits, Numbered
<1>3. CASE Refuses \/ Stays
  <2>1. Busy' = Busy
    BY <1>3 DEF Refuses, Stays, Busy
  <2> QED BY <1>3, <2>1 DEF Refuses, Stays, Numbered
<1>4. CASE Answered
  BY <1>4, NumberedEnds DEF Answered, Bus
<1>5. CASE TimedOut
  BY <1>5, NumberedEnds DEF TimedOut, Bus
<1>6. CASE RaisedOut
  BY <1>6, NumberedEnds DEF RaisedOut, Bus
<1>7. CASE Resends
  BY <1>7 DEF Resends, Numbered, Busy
<1>8. CASE Closes
  BY <1>8 DEF Closes, Numbered
<1> QED BY <1>1, <1>2, <1>3, <1>4, <1>5, <1>6, <1>7, <1>8, Shape

(* The numbers say what NoneLost says of the sequences.                    *)
LEMMA NumberedNoneLost ==
    ASSUME TypeOK, Numbered
    PROVE  NoneLost
<1> SUFFICES ASSUME ~closed
             PROVE  Ids(hist) \o (IF req_pend THEN <<last.id>> ELSE <<>>) \o Ids(que)
                        = [i \in 1..accepted |-> i]
  BY DEF NoneLost
<1> DEFINE a == Ids(hist)
           b == IF req_pend THEN <<last.id>> ELSE <<>>
           c == Ids(que)
           all == [i \in 1..accepted |-> i]
<1>1. Len(hist) \in Nat /\ Len(que) \in Nat /\ accepted \in Nat
  BY DEF TypeOK
<1>2. a = [i \in 1..Len(hist) |-> hist[i].id] /\ c = [i \in 1..Len(que) |-> que[i].id]
  BY DEF Ids
<1>3. \A i \in 1..Len(hist) : hist[i].id \in Nat
  BY <1>1 DEF Numbered
<1>4. \A i \in 1..Len(que) : que[i].id \in Nat
  BY <1>1 DEF Numbered, Busy
<1>5. a \in Seq(Nat) /\ Len(a) = Len(hist) /\ \A i \in 1..Len(hist) : a[i] = i
  BY <1>1, <1>2, <1>3 DEF Numbered
<1>6. c \in Seq(Nat) /\ Len(c) = Len(que)
  BY <1>1, <1>2, <1>4
<1>7. b \in Seq(Nat) /\ Len(b) = Busy /\ (req_pend => b[1] = Len(hist) + 1)
  BY <1>1 DEF Numbered, Busy
<1>8. all \in Seq(Nat) /\ Len(all) = accepted /\ \A i \in 1..accepted : all[i] = i
  BY <1>1
<1>9. \A i \in 1..Len(que) : c[i] = Len(hist) + Busy + i
  BY <1>2, <1>6 DEF Numbered
<1>10. accepted = Len(a) + Len(b) + Len(c) /\ Busy \in {0, 1}
  BY <1>5, <1>6, <1>7 DEF Numbered, Busy
<1>11. Busy = 1 => req_pend
  BY DEF Busy
<1> HIDE DEF a, b, c, all
<1> DEFINE ab == a \o b
<1>12. /\ ab \in Seq(Nat) /\ Len(ab) = Len(a) + Len(b)
       /\ \A i \in 1..Len(ab) : ab[i] = i
  <2>1. /\ a \o b \in Seq(Nat) /\ Len(a \o b) = Len(a) + Len(b)
        /\ \A i \in 1..Len(a) + Len(b) :
             (a \o b)[i] = IF i <= Len(a) THEN a[i] ELSE b[i - Len(a)]
    BY <1>5, <1>7, ConcatProperties
  <2>2. Len(a) \in Nat /\ Len(b) \in {0, 1} /\ (Len(b) = 1 => b[1] = Len(a) + 1)
    BY <1>1, <1>5, <1>7, <1>10, <1>11
  <2>3. ASSUME NEW i \in 1..Len(a) + Len(b) PROVE (a \o b)[i] = i
    <3>1. CASE i <= Len(a)
      <4>1. i \in 1..Len(hist)
        BY <1>5, <2>2, <3>1
      <4> QED BY <1>5, <2>1, <3>1, <4>1
    <3>2. CASE ~(i <= Len(a))
      <4>1. Len(b) = 1 /\ i = Len(a) + 1 /\ i - Len(a) = 1
        <5>1. \A m \in Nat, l \in {0, 1} : \A j \in 1..m + l :
                 ~(j <= m) => l = 1 /\ j = m + 1 /\ j - m = 1
          OBVIOUS
        <5> QED BY <2>2, <3>2, <5>1
      <4>2. (a \o b)[i] = b[1]
        BY <2>1, <3>2, <4>1
      <4> QED BY <2>2, <4>1, <4>2
    <3> QED BY <3>1, <3>2
  <2> QED BY <2>1, <2>3
<1> HIDE DEF ab
<1>13. /\ ab \o c \in Seq(Nat) /\ Len(ab \o c) = accepted
       /\ \A i \in 1..accepted : (ab \o c)[i] = i
  <2>1. /\ ab \o c \in Seq(Nat) /\ Len(ab \o c) = Len(ab) + Len(c)
        /\ \A i \in 1..Len(ab) + Len(c) :
             (ab \o c)[i] = IF i <= Len(ab) THEN ab[i] ELSE c[i - Len(ab)]
    BY <1>6, <1>12, ConcatProperties
  <2>2. Len(ab) = Len(hist) + Busy /\ Len(ab) \in Nat
    BY <1>5, <1>7, <1>12
  <2>3. ASSUME NEW i \in 1..accepted PROVE (ab \o c)[i] = i
    <3>1. i \in 1..Len(ab) + Len(c) /\ Len(c) \in Nat
      BY <1>1, <1>6, <1>10, <1>12, <2>2
    <3>2. CASE i <= Len(ab)
      BY <1>12, <2>1, <2>2, <3>1, <3>2
    <3>3. CASE ~(i <= Len(ab))
      <4>1. i - Len(ab) \in 1..Len(que)
        BY <1>6, <2>2, <3>1, <3>3
      <4>2. (ab \o c)[i] = c[i - Len(ab)]
        BY <2>1, <3>1, <3>3
      <4>3. c[i - Len(ab)] = Len(ab) + (i - Len(ab))
        BY <1>9, <2>2, <4>1
      <4> QED BY <2>2, <3>1, <4>2, <4>3
    <3> QED BY <3>2, <3>3
  <2> QED BY <1>10, <1>12, <2>1, <2>3
<1>14. ab \o c = all
  BY <1>8, <1>13, SeqEqual
<1> QED BY <1>14 DEF ab, a, b, c, all

(* No request is lost, served twice or overtaken by a later one, whatever  *)
(* the inverter, the timer and the callers do, until close().              *)
THEOREM OrderCorrect == Spec => []NoneLost
<1>1. Init => Bus /\ Numbered
  <2>1. Init => Numbered
    BY DEF Init, Numbered, Busy
  <2> QED BY <2>1, InitBus
<1>2. Bus /\ Numbered /\ [Next]_vars => Bus' /\ Numbered'
  BY NextBus, NumberedStep
<1>3. Bus /\ Numbered => NoneLost
  BY NumberedNoneLost DEF Bus
<1> QED BY <1>1, <1>2, <1>3, PTL DEF Spec

-----------------------------------------------------------------------------
(* The response handlers.                                                  *)

\* The handler belongs to the outstanding request, or there is none.
OwnsHandler == req_pend => rsp_handler = IF last.hdl THEN last.id ELSE 0

Called == {calls[i] : i \in 1..Len(calls)}
Owed == {hist[i].id : i \in {k \in 1..Len(hist) :
                              hist[k].out = "answered" /\ hist[k].hdl}}

LEMMA OwnsHandlerStep ==
    ASSUME Bus, OwnsHandler, [Next]_vars
    PROVE  OwnsHandler'
<1>1. ASSUME NEW f \in Frames, NEW h \in BOOLEAN,
             AcceptSends(Item(f, h)) \/ AcceptWaits(Item(f, h))
      PROVE  OwnsHandler'
  BY <1>1 DEF AcceptSends, AcceptWaits, Sends, OwnsHandler
<1>2. CASE Answered \/ TimedOut
  BY <1>2 DEF Answered, TimedOut, Follows, Sends, OwnsHandler
<1>3. CASE Refuses \/ RaisedOut \/ Resends \/ Closes \/ Stays
  BY <1>3 DEF Refuses, RaisedOut, Resends, Closes, Stays, OwnsHandler
<1> QED BY <1>1, <1>2, <1>3, Shape

(* A finished request is owed a call exactly if it was answered and came   *)
(* with a handler.                                                         *)
LEMMA OwedGrows ==
    ASSUME TypeOK, NEW out, NEW by, hist' = Append(hist, Ended(out, by))
    PROVE  Owed' = IF out = "answered" /\ last.hdl THEN Owed \cup {last.id}
                                                   ELSE Owed
<1> DEFINE n == Len(hist)
           e == Ended(out, by)
<1>1. n \in Nat /\ Len(hist') = n + 1 /\ hist'[n + 1] = e
      /\ \A i \in 1..n : hist'[i] = hist[i]
  BY DEF TypeOK
<1>2. e.out = out /\ e.hdl = last.hdl /\ e.id = last.id
  BY DEF Ended
<1> HIDE DEF e
<1>3. Owed \subseteq Owed'
  BY <1>1 DEF Owed
<1>4. ASSUME NEW x \in Owed', x \notin Owed
      PROVE  x = last.id /\ out = "answered" /\ last.hdl
  <2>1. PICK i \in 1..(n + 1) :
          hist'[i].id = x /\ hist'[i].out = "answered" /\ hist'[i].hdl
    BY <1>1 DEF Owed
  <2>2. i = n + 1
    BY <1>1, <1>4, <2>1 DEF Owed
  <2> QED BY <1>1, <1>2, <2>1, <2>2
<1>5. out = "answered" /\ last.hdl => last.id \in Owed'
  <2>1. n + 1 \in 1..Len(hist')
    BY <1>1
  <2> QED BY <1>1, <1>2, <2>1 DEF Owed
<1> QED BY <1>3, <1>4, <1>5

LEMMA HandlerStep ==
    ASSUME Bus, Numbered, OwnsHandler, HandlerOnce, [Next]_vars
    PROVE  HandlerOnce'
<1> DEFINE Increasing == \A i, j \in 1..Len(calls) : i < j => calls[i] < calls[j]
<1>1. HandlerOnce <=> Increasing /\ Called = Owed
  BY DEF HandlerOnce, Called, Owed
<1>2. HandlerOnce' <=> Increasing' /\ (Called = Owed)'
  BY DEF HandlerOnce, Called, Owed
<1>3. CASE UNCHANGED <<hist, calls>>
  <2>1. Called' = Called
    BY <1>3 DEF Called
  <2>2. Owed' = Owed
    BY <1>3 DEF Owed
  <2>3. Increasing'
    BY <1>1, <1>3
  <2> QED BY <1>1, <1>2, <2>1, <2>2, <2>3
<1>4. CASE Answered
  <2> DEFINE m == Len(calls)
  <2>1. /\ last.id = Len(hist) + 1 /\ Len(hist) \in Nat
        /\ last.id \in Nat /\ last.id # 0 /\ last.hdl \in BOOLEAN
    BY <1>4 DEF Answered, Numbered, Bus, TypeOK, PendIsItem, Items
  <2>2. Owed' = IF last.hdl THEN Owed \cup {last.id} ELSE Owed
    BY <1>4, OwedGrows DEF Answered, Bus
  <2>3. CASE last.hdl
    <3>1. calls' = Append(calls, last.id)
      BY <1>4, <2>1, <2>3 DEF Answered, OwnsHandler
    <3>2. /\ m \in Nat /\ Len(calls') = m + 1 /\ calls'[m + 1] = last.id
          /\ \A i \in 1..m : calls'[i] = calls[i]
      BY <3>1 DEF Bus, TypeOK
    <3>3. ASSUME NEW i \in 1..m PROVE calls[i] < last.id
      <4>1. calls[i] \in Owed
        BY <1>1 DEF Called
      <4>2. PICK k \in 1..Len(hist) : hist[k].id = calls[i]
        BY <4>1 DEF Owed
      <4> QED BY <2>1, <4>2 DEF Numbered
    <3>4. Increasing'
      <4> TAKE i, j \in 1..Len(calls')
      <4> HAVE i < j
      <4>1. i \in 1..m
        BY <3>2
      <4>2. CASE j \in 1..m
        BY <1>1, <3>2, <4>1, <4>2
      <4>3. CASE j = m + 1
        BY <3>2, <3>3, <4>1, <4>3
      <4> QED BY <3>2, <4>2, <4>3
    <3>5. Called' = Called \cup {last.id}
      <4>1. Called' \subseteq Called \cup {last.id}
        BY <3>2 DEF Called
      <4>2. m + 1 \in 1..Len(calls')
        BY <3>2
      <4>3. last.id \in Called' /\ Called \subseteq Called'
        BY <3>2, <4>2 DEF Called
      <4> QED BY <4>1, <4>3
    <3> QED BY <1>1, <1>2, <2>2, <2>3, <3>4, <3>5
  <2>4. CASE ~last.hdl
    <3>1. calls' = calls
      BY <1>4, <2>4 DEF Answered, OwnsHandler
    <3> QED BY <1>1, <1>2, <2>2, <2>4, <3>1 DEF Called
  <2> QED BY <2>3, <2>4
<1>5. ASSUME TimedOut \/ RaisedOut PROVE HandlerOnce'
  <2>1. Owed' = Owed
    BY <1>5, OwedGrows DEF TimedOut, RaisedOut, Bus
  <2>2. calls' = calls
    BY <1>5 DEF TimedOut, RaisedOut
  <2> QED BY <1>1, <1>2, <2>1, <2>2 DEF Called
<1>6. ASSUME NEW f \in Frames, NEW h \in BOOLEAN,
             AcceptSends(Item(f, h)) \/ AcceptWaits(Item(f, h))
      PROVE  UNCHANGED <<hist, calls>>
  BY <1>6 DEF AcceptSends, AcceptWaits
<1>7. ASSUME Refuses \/ Resends \/ Closes \/ Stays
      PROVE  UNCHANGED <<hist, calls>>
  BY <1>7 DEF Refuses, Resends, Closes, Stays
<1> QED BY <1>3, <1>4, <1>5, <1>6, <1>7, Shape

(* A response handler is called for the answered requests that came with   *)
(* one, each once and in order: never for a timeout or another request.    *)
THEOREM HandlerCorrect == Spec => []HandlerOnce
<1>1. Init => Bus /\ Numbered /\ OwnsHandler /\ HandlerOnce
  <2>1. Init => Numbered /\ OwnsHandler
    BY DEF Init, Numbered, Busy, OwnsHandler
  <2>2. Init => HandlerOnce
    <3> SUFFICES ASSUME Init PROVE HandlerOnce
      OBVIOUS
    <3>1. hist = <<>> /\ calls = <<>> /\ 1..Len(<<>>) = {}
      BY DEF Init
    <3> QED BY <3>1 DEF HandlerOnce
  <2> QED BY <2>1, <2>2, InitBus
<1>2. Bus /\ Numbered /\ OwnsHandler /\ HandlerOnce /\ [Next]_vars
        => Bus' /\ Numbered' /\ OwnsHandler' /\ HandlerOnce'
  BY NextBus, NumberedStep, OwnsHandlerStep, HandlerStep
<1> QED BY <1>1, <1>2, PTL DEF Spec

-----------------------------------------------------------------------------
(* The answers on the wire.                                                *)

\* One of the first n requests of the history h was sent twice, or its response raised.
Dirty(h, n) == \E j \in 1..n : h[j].tries > 1 \/ h[j].out = "raised"

\* Only what was sent is answered; an answer that is late is one of a
\* request sent twice, or comes behind one; and a request that was sent
\* once has at most one answer under way.
WireKnown ==
    /\ \A k \in 1..Len(wire) : wire[k].id <= Len(hist) + Busy
    /\ \A k \in 1..Len(wire) : wire[k].id <= Len(hist) => Dirty(hist, wire[k].id)
    /\ req_pend /\ sent = 1 =>
         \A k, l \in 1..Len(wire) :
            wire[k].id = last.id /\ wire[l].id = last.id => k = l

(* Transmitting puts at most one answer behind those on the wire.          *)
LEMMA TransmitPlaces ==
    ASSUME NEW item \in Items, NEW w \in Seq(Items), NEW v \in Transmit(item, w)
    PROVE  \A k \in 1..Len(v) :
             \/ k \in 1..Len(w) /\ v[k] = w[k]
             \/ k = Len(w) + 1 /\ v[k] = item
<1>1. v = w \/ v = Append(w, item)
  BY DEF Transmit
<1>2. CASE v = w
  BY <1>2
<1>3. CASE v = Append(w, item)
  BY <1>3
<1> QED BY <1>1, <1>2, <1>3

(* What is dirty stays dirty.                                              *)
LEMMA DirtyStays ==
    ASSUME TypeOK, NEW e, hist' = Append(hist, e), NEW n \in 0..Len(hist), Dirty(hist, n)
    PROVE  Dirty(hist', n)
<1>1. PICK j \in 1..n : hist[j].tries > 1 \/ hist[j].out = "raised"
  BY DEF Dirty
<1>2. j \in 1..Len(hist) /\ hist'[j] = hist[j]
  BY DEF TypeOK
<1> QED BY <1>1, <1>2 DEF Dirty

(* The next request is sent behind the answers w, all of them older.       *)
LEMMA FollowsWire ==
    ASSUME Bus, Numbered, ~closed, req_pend, NEW e, hist' = Append(hist, e),
           NEW w \in Seq(Items), Follows(w),
           \A k \in 1..Len(w) : w[k].id <= Len(hist) + 1 /\ Dirty(hist', w[k].id)
    PROVE  WireKnown'
<1> DEFINE n == Len(hist)
<1>1. n \in Nat /\ Len(hist') = n + 1 /\ que \in Seq(Items)
  BY DEF Bus, TypeOK
<1>2. \A k \in 1..Len(w) : w[k].id \in Nat
  <2>1. \A k \in 1..Len(w) : w[k] \in Items
    BY ElementOfSeq
  <2> QED BY <2>1 DEF Items
<1>3. CASE req_pend' = FALSE /\ wire' = w
  <2>1. Busy' = 0 /\ n + 1 + 0 = n + 1
    BY <1>1, <1>3 DEF Busy
  <2>2. \A k \in 1..Len(wire') : wire'[k].id <= n + 1
    BY <1>3
  <2>3. \A k \in 1..Len(wire') : Dirty(hist', wire'[k].id)
    BY <1>3
  <2> QED BY <1>1, <1>3, <2>1, <2>2, <2>3 DEF WireKnown
<1>4. CASE que # <<>> /\ Sends(Head(que), w)
  <2> DEFINE item == Head(que)
  <2>1. item \in Items /\ item = que[1] /\ 1 \in 1..Len(que)
    BY <1>1, <1>4
  <2>2. item.id = n + 2
    BY <1>1, <2>1 DEF Numbered, Busy
  <2>3. req_pend' = TRUE /\ last' = item /\ wire' \in Transmit(item, w)
    BY <1>4 DEF Sends
  <2> HIDE DEF item
  <2>4. \A k \in 1..Len(wire') :
          \/ k \in 1..Len(w) /\ wire'[k] = w[k]
          \/ k = Len(w) + 1 /\ wire'[k] = item
    BY <2>1, <2>3, TransmitPlaces
  <2>5. \A k \in 1..Len(wire') :
          /\ wire'[k].id <= n + 2
          /\ wire'[k].id <= n + 1 => Dirty(hist', wire'[k].id)
    <3> TAKE k \in 1..Len(wire')
    <3>1. CASE k \in 1..Len(w) /\ wire'[k] = w[k]
      BY <1>1, <1>2, <3>1
    <3>2. CASE wire'[k] = item
      BY <1>1, <2>2, <3>2
    <3> QED BY <2>4, <3>1, <3>2
  <2>6. ASSUME NEW k \in 1..Len(wire'), wire'[k].id = n + 2
        PROVE  k = Len(w) + 1
    <3>1. k \notin 1..Len(w) \/ wire'[k] # w[k]
      <4> SUFFICES ASSUME k \in 1..Len(w), wire'[k] = w[k] PROVE FALSE
        OBVIOUS
      <4>1. w[k].id \in Nat /\ w[k].id <= n + 1
        BY <1>2
      <4> QED BY <1>1, <2>6, <4>1
    <3> QED BY <2>4, <3>1
  <2>7. Busy' = 1
    BY <2>3 DEF Busy
  <2>8. n + 1 + 1 = n + 2
    BY <1>1
  <2> QED BY <1>1, <2>2, <2>3, <2>5, <2>6, <2>7, <2>8 DEF WireKnown
<1> QED BY <1>3, <1>4 DEF Follows

(* What is noted of the outstanding request makes its number dirty if it   *)
(* was sent twice or raised.                                               *)
LEMMA EndedDirty ==
    ASSUME Bus, Numbered, ~closed, req_pend, NEW out \in Outs, NEW by \in Nat,
           hist' = Append(hist, Ended(out, by)), sent > 1 \/ out = "raised"
    PROVE  Dirty(hist', Len(hist) + 1)
<1>1. Len(hist) \in Nat /\ hist'[Len(hist) + 1] = Ended(out, by)
  BY DEF Bus, TypeOK
<1>2. Len(hist) + 1 \in 1..(Len(hist) + 1)
  BY <1>1
<1> QED BY <1>1, <1>2 DEF Dirty, Ended

(* The answers that stay on the wire when the outstanding request ends are *)
(* dirty, if the head was taken or that request was sent twice or raised.  *)
LEMMA RestDirty ==
    ASSUME Bus, Numbered, WireKnown, ~closed, req_pend,
           NEW out \in Outs, NEW by \in Nat, hist' = Append(hist, Ended(out, by)),
           NEW w \in Seq(Items), NEW d \in {0, 1},
           \A k \in 1..Len(w) : k + d \in 1..Len(wire) /\ w[k] = wire[k + d],
           sent > 1 \/ out = "raised" \/ (d = 1 /\ wire # <<>>)
    PROVE  \A k \in 1..Len(w) : w[k].id <= Len(hist) + 1 /\ Dirty(hist', w[k].id)
<1> DEFINE n == Len(hist)
<1>1. n \in Nat /\ wire \in Seq(Items) /\ hist \in Seq(HistRec) /\ TypeOK
  BY DEF Bus, TypeOK, HistRec
<1>2. \A k \in 1..Len(wire) : wire[k].id \in Nat /\ wire[k].id <= n + 1
  <2>1. \A k \in 1..Len(wire) : wire[k] \in Items
    BY <1>1, ElementOfSeq
  <2>2. Busy = 1
    BY DEF Busy
  <2> QED BY <2>1, <2>2 DEF Items, WireKnown
<1>3. sent \in Nat /\ sent >= 1 /\ last.id = n + 1
  BY BoundsAssumption DEF Bus, TypeOK, TriesExact, Numbered
<1>4. ASSUME NEW k \in 1..Len(wire), wire[k].id <= n
      PROVE  Dirty(hist', wire[k].id)
  <2>1. wire[k].id \in 0..Len(hist) /\ Dirty(hist, wire[k].id)
    BY <1>1, <1>2, <1>4 DEF WireKnown
  <2> QED BY <1>1, <2>1, DirtyStays
<1>5. ASSUME NEW k \in 1..Len(w), w[k].id = n + 1
      PROVE  Dirty(hist', n + 1)
  <2>1. CASE sent > 1 \/ out = "raised"
    BY <2>1, EndedDirty
  <2>2. CASE sent = 1 /\ d = 1 /\ wire # <<>>
    <3>1. k + 1 \in 1..Len(wire) /\ wire[k + 1].id = last.id /\ k + 1 # 1
      BY <1>3, <1>5, <2>2
    <3>2. 1 \in 1..Len(wire)
      BY <1>1, <2>2
    <3>3. wire[1].id # last.id
      BY <2>2, <3>1, <3>2 DEF WireKnown
    <3>4. wire[1].id <= n
      BY <1>1, <1>2, <1>3, <3>2, <3>3
    <3>5. Dirty(hist', wire[1].id) /\ wire[1].id \in Nat
      BY <1>2, <1>4, <3>2, <3>4
    <3>6. 1..wire[1].id \subseteq 1..(n + 1)
      BY <1>1, <3>4, <3>5
    <3> QED BY <3>5, <3>6 DEF Dirty
  <2> QED BY <1>3, <2>1, <2>2
<1>6. ASSUME NEW k \in 1..Len(w)
      PROVE  w[k].id <= Len(hist) + 1 /\ Dirty(hist', w[k].id)
  <2>1. k + d \in 1..Len(wire) /\ w[k] = wire[k + d]
    OBVIOUS
  <2>2. w[k].id <= n \/ w[k].id = n + 1
    BY <1>1, <1>2, <2>1
  <2>3. CASE w[k].id <= n
    <3>1. Dirty(hist', wire[k + d].id)
      BY <1>4, <2>1, <2>3
    <3> QED BY <1>1, <1>2, <2>1, <2>3, <3>1
  <2>4. CASE w[k].id = n + 1
    BY <1>1, <1>5, <2>4
  <2> QED BY <2>2, <2>3, <2>4
<1> QED BY <1>6

LEMMA WireStep ==
    ASSUME MaxRetries # 0, Bus, Numbered, WireKnown, [Next]_vars
    PROVE  WireKnown'
<1> DEFINE n == Len(hist)
<1>1. n \in Nat /\ wire \in Seq(Items) /\ sent \in Nat
  BY DEF Bus, TypeOK
<1>2. \A k \in 1..Len(wire) : wire[k] \in Items /\ wire[k].id \in Nat
  <2>1. \A k \in 1..Len(wire) : wire[k] \in Items
    BY <1>1, ElementOfSeq
  <2> QED BY <2>1 DEF Items
<1>3. ASSUME NEW f \in Frames, NEW h \in BOOLEAN, AcceptSends(Item(f, h))
      PROVE  WireKnown'
  <2> DEFINE item == Item(f, h)
  <2>1. item \in Items /\ item.id = n + 1
    BY <1>1, <1>3 DEF Item, Items, Bus, TypeOK, AcceptSends, Numbered, Busy
  <2>2. Busy = 0 /\ Busy' = 1 /\ hist' = hist /\ last' = item
        /\ wire' \in Transmit(item, wire)
    BY <1>3 DEF AcceptSends, Sends, Busy
  <2> HIDE DEF item
  <2>3. \A k \in 1..Len(wire') :
          \/ k \in 1..Len(wire) /\ wire'[k] = wire[k]
          \/ k = Len(wire) + 1 /\ wire'[k] = item
    BY <1>1, <2>1, <2>2, TransmitPlaces
  <2>4. \A k \in 1..Len(wire) : wire[k].id <= n /\ Dirty(hist, wire[k].id)
    BY <1>1, <2>2 DEF WireKnown
  <2>5. \A k \in 1..Len(wire') :
          /\ wire'[k].id <= n + 1
          /\ wire'[k].id <= n => Dirty(hist, wire'[k].id)
          /\ wire'[k].id = n + 1 => k = Len(wire) + 1
    <3> TAKE k \in 1..Len(wire')
    <3>1. CASE k \in 1..Len(wire) /\ wire'[k] = wire[k]
      BY <1>1, <1>2, <2>4, <3>1
    <3>2. CASE k = Len(wire) + 1 /\ wire'[k] = item
      BY <1>1, <2>1, <3>2
    <3> QED BY <2>3, <3>1, <3>2
  <2> QED BY <2>1, <2>2, <2>5 DEF WireKnown
<1>4. ASSUME NEW f \in Frames, NEW h \in BOOLEAN, AcceptWaits(Item(f, h))
      PROVE  WireKnown'
  <2>1. Busy' = Busy
    BY <1>4 DEF AcceptWaits, Busy
  <2> QED BY <1>4, <2>1 DEF AcceptWaits, WireKnown
<1>5. CASE Refuses
  <2>1. Busy' = Busy
    BY <1>5 DEF Refuses, Busy
  <2>2. \A k \in 1..Len(wire') : k + 1 \in 1..Len(wire) /\ wire'[k] = wire[k + 1]
    BY <1>1, <1>5 DEF Refuses
  <2>3. \A k, l \in 1..Len(wire') : k + 1 = l + 1 => k = l
    OBVIOUS
  <2> QED BY <1>5, <2>1, <2>2, <2>3 DEF Refuses, WireKnown
<1>6. CASE Answered
  <2>1. /\ ~closed /\ req_pend /\ wire # <<>> /\ Follows(Tail(wire))
        /\ hist' = Append(hist, Ended("answered", Head(wire).id))
    BY <1>6 DEF Answered
  <2>2. /\ Tail(wire) \in Seq(Items) /\ Head(wire).id \in Nat
        /\ \A k \in 1..Len(Tail(wire)) :
             k + 1 \in 1..Len(wire) /\ Tail(wire)[k] = wire[k + 1]
    <3>1. Head(wire) = wire[1] /\ 1 \in 1..Len(wire)
      BY <1>1, <2>1
    <3> QED BY <1>1, <1>2, <2>1, <3>1
  <2>3. \A k \in 1..Len(Tail(wire)) :
          Tail(wire)[k].id <= n + 1 /\ Dirty(hist', Tail(wire)[k].id)
    BY <2>1, <2>2, RestDirty DEF Outs
  <2> QED BY <2>1, <2>2, <2>3, FollowsWire
<1>7. CASE TimedOut
  <2>1. /\ ~closed /\ req_pend /\ Follows(wire) /\ sent > 1
        /\ hist' = Append(hist, Ended("timeout", 0))
    BY <1>7, BoundsAssumption DEF TimedOut
  <2>2. \A k \in 1..Len(wire) : k + 0 \in 1..Len(wire) /\ wire[k] = wire[k + 0]
    OBVIOUS
  <2>3. \A k \in 1..Len(wire) : wire[k].id <= n + 1 /\ Dirty(hist', wire[k].id)
    BY <1>1, <2>1, <2>2, RestDirty DEF Outs
  <2> QED BY <1>1, <2>1, <2>3, FollowsWire
<1>8. CASE RaisedOut
  <2>1. /\ ~closed /\ req_pend /\ req_pend' = FALSE /\ wire # <<>> /\ wire' = wire
        /\ hist' = Append(hist, Ended("raised", Head(wire).id))
    BY <1>8 DEF RaisedOut
  <2>2. /\ \A k \in 1..Len(wire) : k + 0 \in 1..Len(wire) /\ wire[k] = wire[k + 0]
        /\ Head(wire).id \in Nat
    BY <1>1, <1>2, <2>1
  <2>3. \A k \in 1..Len(wire) : wire[k].id <= n + 1 /\ Dirty(hist', wire[k].id)
    BY <1>1, <2>1, <2>2, RestDirty DEF Outs
  <2>4. Len(hist') = n + 1 /\ Busy' = 0 /\ n + 1 + 0 = n + 1
    BY <1>1, <2>1 DEF Bus, TypeOK, Busy
  <2> QED BY <2>1, <2>3, <2>4 DEF WireKnown
<1>9. CASE Resends
  <2>1. /\ ~closed /\ req_pend /\ Busy = 1 /\ Busy' = 1 /\ hist' = hist
        /\ last' = last /\ wire' \in Transmit(last, wire) /\ sent' = sent + 1
    BY <1>9 DEF Resends, Busy
  <2>2. last \in Items /\ last.id = n + 1
    BY <2>1 DEF Bus, PendIsItem, Numbered
  <2>3. \A k \in 1..Len(wire') :
          \/ k \in 1..Len(wire) /\ wire'[k] = wire[k]
          \/ k = Len(wire) + 1 /\ wire'[k] = last
    BY <1>1, <2>1, <2>2, TransmitPlaces
  <2>4. \A k \in 1..Len(wire') :
          /\ wire'[k].id <= n + 1
          /\ wire'[k].id <= n => Dirty(hist, wire'[k].id)
    BY <1>1, <2>1, <2>2, <2>3 DEF WireKnown
  <2>5. sent' # 1
    BY <1>1, <2>1, BoundsAssumption DEF Bus, TypeOK, TriesExact
  <2> QED BY <2>1, <2>4, <2>5 DEF WireKnown
<1>10. CASE Closes
  BY <1>10 DEF Closes, WireKnown
<1>11. CASE Stays
  <2>1. Busy' = Busy
    BY <1>11 DEF Stays, Busy
  <2> QED BY <1>11, <2>1 DEF Stays, WireKnown
<1> QED BY <1>3, <1>4, <1>5, <1>6, <1>7, <1>8, <1>9, <1>10, <1>11, Shape

LEMMA StrayStep ==
    ASSUME Bus, Numbered, WireKnown, StrayNeedsRetry, [Next]_vars
    PROVE  StrayNeedsRetry'
<1> DEFINE n == Len(hist)
           Told(h, i) == h[i].out = "answered" /\ h[i].by # h[i].id =>
                            h[i].by < h[i].id /\ Dirty(h, h[i].by)
<1>1. /\ StrayNeedsRetry <=> \A i \in 1..Len(hist) : Told(hist, i)
      /\ StrayNeedsRetry' <=> \A i \in 1..Len(hist') : Told(hist', i)
  BY DEF StrayNeedsRetry, Dirty
<1>2. n \in Nat /\ hist \in Seq(HistRec) /\ wire \in Seq(Items) /\ TypeOK
  BY DEF Bus, TypeOK, HistRec
<1>3. ASSUME NEW e, hist' = Append(hist, e), Told(hist', n + 1)
      PROVE  StrayNeedsRetry'
  <2>1. ASSUME NEW i \in 1..n PROVE Told(hist', i)
    <3>1. hist'[i] = hist[i] /\ hist[i].id = i /\ hist[i].by \in Nat
      <4>1. hist'[i] = hist[i] /\ hist[i] \in HistRec
        BY <1>2, <1>3
      <4> QED BY <4>1 DEF HistRec, Numbered
    <3>2. CASE hist[i].out = "answered" /\ hist[i].by # i
      <4>1. hist[i].by < i /\ Dirty(hist, hist[i].by)
        BY <1>1, <3>1, <3>2
      <4>2. hist[i].by \in 0..n
        BY <1>2, <3>1, <4>1
      <4>3. Dirty(hist', hist[i].by)
        BY <1>2, <1>3, <4>1, <4>2, DirtyStays
      <4> QED BY <3>1, <4>1, <4>3
    <3> QED BY <3>1, <3>2
  <2>2. \A i \in 1..Len(hist') : i \in 1..n \/ i = n + 1
    BY <1>2, <1>3
  <2> HIDE DEF Told
  <2> QED BY <1>1, <1>3, <2>1, <2>2
<1>4. CASE Answered
  <2>1. /\ hist' = Append(hist, Ended("answered", Head(wire).id)) /\ ~closed
        /\ last.id = n + 1 /\ wire # <<>> /\ Busy = 1
    BY <1>4 DEF Answered, Numbered, Busy
  <2>2. hist'[n + 1] = Ended("answered", Head(wire).id)
    BY <1>2, <2>1
  <2>3. hist'[n + 1].by = Head(wire).id /\ hist'[n + 1].id = n + 1
    BY <2>1, <2>2 DEF Ended
  <2>4. Head(wire) = wire[1] /\ 1 \in 1..Len(wire) /\ wire[1] \in Items
    BY <1>2, <2>1
  <2>5. wire[1].id \in Nat /\ wire[1].id <= n + 1
    BY <2>1, <2>4 DEF WireKnown, Items
  <2>6. CASE wire[1].id # n + 1
    <3>1. wire[1].id \in 0..n /\ Dirty(hist, wire[1].id)
      BY <1>2, <2>4, <2>5, <2>6 DEF WireKnown
    <3>2. Dirty(hist', wire[1].id)
      BY <1>2, <2>1, <3>1, DirtyStays
    <3>3. hist'[n + 1].by < hist'[n + 1].id /\ Dirty(hist', hist'[n + 1].by)
      BY <1>2, <2>3, <2>4, <3>1, <3>2
    <3>4. Told(hist', n + 1)
      BY <3>3
    <3> HIDE DEF Told
    <3> QED BY <1>3, <2>1, <3>4
  <2>7. CASE wire[1].id = n + 1
    <3>1. Told(hist', n + 1)
      BY <2>3, <2>4, <2>7
    <3> HIDE DEF Told
    <3> QED BY <1>3, <2>1, <3>1
  <2> QED BY <2>6, <2>7
<1>5. ASSUME NEW out, NEW by, hist' = Append(hist, Ended(out, by)), out # "answered"
      PROVE  StrayNeedsRetry'
  <2>1. hist'[n + 1].out = out
    BY <1>2, <1>5 DEF Ended
  <2>2. Told(hist', n + 1)
    BY <1>5, <2>1
  <2> HIDE DEF Told
  <2> QED BY <1>3, <1>5, <2>2
<1>6. ASSUME hist' = hist PROVE StrayNeedsRetry'
  BY <1>6 DEF StrayNeedsRetry
<1>7. CASE TimedOut \/ RaisedOut
  BY <1>5, <1>7 DEF TimedOut, RaisedOut
<1>8. ASSUME NEW f \in Frames, NEW h \in BOOLEAN,
             AcceptSends(Item(f, h)) \/ AcceptWaits(Item(f, h))
      PROVE  hist' = hist
  BY <1>8 DEF AcceptSends, AcceptWaits
<1>9. ASSUME Refuses \/ Resends \/ Closes \/ Stays
      PROVE  hist' = hist
  BY <1>9 DEF Refuses, Resends, Closes, Stays
<1> QED BY <1>4, <1>6, <1>7, <1>8, <1>9, Shape

(* An answer is stored under another request only behind a retransmission  *)
(* or an exception.  With no retransmission at all (max_retries is 1 in    *)
(* the code) a late answer alone would do, so the hypothesis is needed.    *)
THEOREM StrayCorrect ==
    ASSUME MaxRetries # 0
    PROVE  Spec => []StrayNeedsRetry
<1>1. Init => Bus /\ Numbered /\ WireKnown /\ StrayNeedsRetry
  <2>1. Init => Numbered
    BY DEF Init, Numbered, Busy
  <2>2. Init => WireKnown /\ StrayNeedsRetry
    <3> SUFFICES ASSUME Init PROVE WireKnown /\ StrayNeedsRetry
      OBVIOUS
    <3>1. hist = <<>> /\ wire = <<>> /\ 1..Len(<<>>) = {}
      BY DEF Init
    <3> QED BY <3>1 DEF WireKnown, StrayNeedsRetry
  <2> QED BY <2>1, <2>2, InitBus
<1>2. Bus /\ Numbered /\ WireKnown /\ StrayNeedsRetry /\ [Next]_vars
        => Bus' /\ Numbered' /\ WireKnown' /\ StrayNeedsRetry'
  BY NextBus, NumberedStep, WireStep, StrayStep
<1> QED BY <1>1, <1>2, PTL DEF Spec

-----------------------------------------------------------------------------
(* Modbus implements the bounded FIFO service.                             *)

LEMMA ReqsType ==
    ASSUME NEW q \in Seq(Items)
    PROVE  /\ Reqs(q) \in Seq(Frames) /\ Len(Reqs(q)) = Len(q)
           /\ \A i \in 1..Len(q) : Reqs(q)[i] = q[i].req
<1>1. Len(q) \in Nat /\ \A i \in 1..Len(q) : q[i].req \in Frames
  <2>1. \A i \in 1..Len(q) : q[i] \in Items
    BY ElementOfSeq
  <2> QED BY <2>1 DEF Items
<1> QED BY <1>1 DEF Reqs

\* The requests of a queue with one more entry, or with its head apart.
LEMMA ReqsAppend ==
    ASSUME NEW q \in Seq(Items), NEW item \in Items
    PROVE  Reqs(Append(q, item)) = Append(Reqs(q), item.req)
<1> DEFINE a == Append(q, item)
<1>1. /\ a \in Seq(Items) /\ Len(a) = Len(q) + 1 /\ Len(q) \in Nat
      /\ a[Len(q) + 1] = item /\ \A i \in 1..Len(q) : a[i] = q[i]
  OBVIOUS
<1>2. item.req \in Frames
  BY DEF Items
<1> HIDE DEF a
<1>3. /\ Reqs(a) \in Seq(Frames) /\ Len(Reqs(a)) = Len(q) + 1
      /\ \A i \in 1..(Len(q) + 1) : Reqs(a)[i] = a[i].req
  BY <1>1, ReqsType
<1>4. /\ Reqs(q) \in Seq(Frames) /\ Len(Reqs(q)) = Len(q)
      /\ \A i \in 1..Len(q) : Reqs(q)[i] = q[i].req
  BY ReqsType
<1> DEFINE b == Append(Reqs(q), item.req)
<1>5. /\ b \in Seq(Frames) /\ Len(b) = Len(q) + 1 /\ b[Len(q) + 1] = item.req
      /\ \A i \in 1..Len(q) : b[i] = q[i].req
  BY <1>1, <1>2, <1>4
<1> HIDE DEF b
<1>6. \A i \in 1..(Len(q) + 1) : Reqs(a)[i] = b[i]
  BY <1>1, <1>3, <1>5
<1>7. Reqs(a) = b
  BY <1>3, <1>5, <1>6, SeqEqual
<1> QED BY <1>7 DEF a, b

LEMMA ReqsHeadTail ==
    ASSUME NEW q \in Seq(Items), q # <<>>
    PROVE  Reqs(q) = <<Head(q).req>> \o Reqs(Tail(q))
<1> DEFINE t == Tail(q)
           r == Head(q).req
<1>1. /\ t \in Seq(Items) /\ Len(t) = Len(q) - 1 /\ Len(q) \in Nat /\ Len(q) >= 1
      /\ Head(q) = q[1] /\ 1 \in 1..Len(q)
      /\ \A i \in 1..Len(t) : t[i] = q[i + 1]
  OBVIOUS
<1>2. r \in Frames /\ r = q[1].req
  <2>1. q[1] \in Items
    BY <1>1
  <2> QED BY <1>1, <2>1 DEF Items
<1> HIDE DEF t, r
<1>3. /\ Reqs(q) \in Seq(Frames) /\ Len(Reqs(q)) = Len(q)
      /\ \A i \in 1..Len(q) : Reqs(q)[i] = q[i].req
  BY ReqsType
<1>4. /\ Reqs(t) \in Seq(Frames) /\ Len(Reqs(t)) = Len(q) - 1
      /\ \A i \in 1..(Len(q) - 1) : Reqs(t)[i] = t[i].req
  BY <1>1, ReqsType
<1> DEFINE b == <<r>> \o Reqs(t)
<1>5. <<r>> \in Seq(Frames) /\ Len(<<r>>) = 1 /\ <<r>>[1] = r
  BY <1>2
<1>6. /\ b \in Seq(Frames) /\ Len(b) = 1 + (Len(q) - 1)
      /\ \A i \in 1..(1 + (Len(q) - 1)) :
            b[i] = IF i <= 1 THEN <<r>>[i] ELSE Reqs(t)[i - 1]
  BY <1>4, <1>5, ConcatProperties
<1> HIDE DEF b
<1>7. ASSUME NEW i \in 1..Len(q) PROVE Reqs(q)[i] = b[i]
  <2>1. i \in 1..(1 + (Len(q) - 1))
    BY <1>1
  <2>2. CASE i = 1
    BY <1>2, <1>3, <1>5, <1>6, <2>1, <2>2
  <2>3. CASE i # 1
    <3>1. i - 1 \in 1..(Len(q) - 1) /\ (i - 1) + 1 = i
      BY <1>1, <2>3
    <3>2. Reqs(t)[i - 1] = q[i].req
      BY <1>1, <1>4, <3>1
    <3> QED BY <1>3, <1>6, <2>1, <2>3, <3>2
  <2> QED BY <2>2, <2>3
<1>8. Reqs(q) = b
  BY <1>1, <1>3, <1>6, <1>7, SeqEqual
<1> QED BY <1>8 DEF b, t, r

\* No request waits: no job.
LEMMA ReqsEmpty == Reqs(<<>>) = <<>>
<1>1. <<>> \in Seq(Items) /\ Len(<<>>) = 0
  OBVIOUS
<1>2. Reqs(<<>>) \in Seq(Frames) /\ Len(Reqs(<<>>)) = 0
  BY <1>1, ReqsType
<1> QED BY <1>2

LEMMA OutcomeGrows ==
    ASSUME TypeOK, NEW out \in Outs, NEW by, hist' = Append(hist, Ended(out, by))
    PROVE  Outcome' = Append(Outcome, out)
<1> DEFINE n == Len(hist)
<1>1. /\ n \in Nat /\ Len(hist') = n + 1 /\ hist'[n + 1] = Ended(out, by)
      /\ \A i \in 1..n : hist'[i] = hist[i] /\ hist[i] \in HistRec
  <2>1. hist \in Seq(HistRec)
    BY DEF TypeOK, HistRec
  <2>2. \A i \in 1..n : hist[i] \in HistRec
    BY <2>1, ElementOfSeq
  <2> QED BY <2>1, <2>2
<1>2. hist'[n + 1].out = out
  BY <1>1 DEF Ended
<1>3. \A i \in 1..n : hist[i].out \in Outs
  BY <1>1 DEF HistRec
<1>4. /\ Outcome \in Seq(Outs) /\ Len(Outcome) = n
      /\ \A i \in 1..n : Outcome[i] = hist[i].out
  BY <1>1, <1>3 DEF Outcome
<1>5. \A i \in 1..(n + 1) : hist'[i].out \in Outs
  BY <1>1, <1>2, <1>3
<1>6. /\ Outcome' \in Seq(Outs) /\ Len(Outcome') = n + 1
      /\ \A i \in 1..(n + 1) : Outcome'[i] = hist'[i].out
  BY <1>1, <1>5 DEF Outcome
<1> DEFINE b == Append(Outcome, out)
<1>7. /\ b \in Seq(Outs) /\ Len(b) = n + 1 /\ b[n + 1] = out
      /\ \A i \in 1..n : b[i] = hist[i].out
  BY <1>1, <1>4
<1> HIDE DEF b
<1>8. \A i \in 1..(n + 1) : Outcome'[i] = b[i]
  BY <1>1, <1>2, <1>6, <1>7
<1>9. Outcome' = b
  BY <1>6, <1>7, <1>8, SeqEqual
<1> QED BY <1>9 DEF b

(* Init maps to the idle service.                                          *)
LEMMA ServiceInit == Init => Service!AInit
<1> SUFFICES ASSUME Init PROVE Service!AInit
  OBVIOUS
<1>1. que = <<>> /\ req_pend = FALSE /\ hist = <<>> /\ closed = FALSE
  BY DEF Init
<1>2. Jobs = <<>>
  BY <1>1, ReqsEmpty DEF Jobs
<1>3. Outcome = <<>>
  BY <1>1 DEF Outcome
<1> QED BY <1>1, <1>2, <1>3 DEF Service!AInit

(* A new request is the last job of the service.                           *)
LEMMA ServiceAccept ==
    ASSUME Bus, ~closed, NEW item \in Items, UNCHANGED <<closed, hist>>,
           \/ /\ ~req_pend /\ que = <<>> /\ que' = <<>>
              /\ req_pend' = TRUE /\ last' = item
           \/ /\ Len(que) < QueCap /\ que' = Append(que, item)
              /\ UNCHANGED <<req_pend, last>>
    PROVE  Service!ANext
<1>1. que \in Seq(Items) /\ Len(que) \in Nat /\ Len(que) <= QueCap /\ QueCap \in Nat
  BY BoundsAssumption DEF Bus, TypeOK
<1>2. Reqs(que) \in Seq(Frames) /\ Len(Reqs(que)) = Len(que)
  BY <1>1, ReqsType
<1>3. item.req \in Frames
  BY DEF Items
<1>4. Len(Jobs) <= QueCap /\ Jobs' = Append(Jobs, item.req)
  <2>1. CASE /\ ~req_pend /\ que = <<>> /\ que' = <<>>
             /\ req_pend' = TRUE /\ last' = item
    <3>1. Jobs = <<>> /\ Jobs' = <<item.req>> \o <<>>
      BY <2>1, ReqsEmpty DEF Jobs
    <3> QED BY <1>1, <1>3, <3>1
  <2>2. CASE /\ Len(que) < QueCap /\ que' = Append(que, item)
             /\ UNCHANGED <<req_pend, last>>
    <3>1. Reqs(que') = Append(Reqs(que), item.req)
      BY <1>1, <2>2, ReqsAppend
    <3>2. CASE req_pend
      <4>1. last.req \in Frames
        BY <3>2 DEF Bus, PendIsItem, Items
      <4>2. Jobs = <<last.req>> \o Reqs(que)
        BY <3>2 DEF Jobs
      <4>3. Jobs' = <<last.req>> \o Append(Reqs(que), item.req)
        BY <2>2, <3>1, <3>2 DEF Jobs
      <4>4. Len(Jobs) = Len(que) + 1
        BY <1>1, <1>2, <4>1, <4>2
      <4>5. <<last.req>> \in Seq(Frames)
        BY <4>1
      <4>6. /\ Append(Reqs(que), item.req) = Reqs(que) \o <<item.req>>
            /\ Append(Jobs, item.req) = Jobs \o <<item.req>>
            /\ <<item.req>> \in Seq(Frames)
        <5>1. Jobs \in Seq(Frames)
          BY <1>2, <4>2, <4>5, ConcatProperties
        <5> QED BY <1>2, <1>3, <5>1, AppendIsConcat
      <4>7. Jobs' = Append(Jobs, item.req)
        BY <1>2, <4>2, <4>3, <4>5, <4>6, ConcatAssociative
      <4> QED BY <1>1, <2>2, <4>4, <4>7
    <3>3. CASE ~req_pend
      BY <1>1, <1>2, <2>2, <3>1, <3>3 DEF Jobs
    <3> QED BY <3>2, <3>3
  <2> QED BY <2>1, <2>2
<1>5. Outcome' = Outcome
  BY DEF Outcome
<1> QED BY <1>3, <1>4, <1>5 DEF Service!ANext, Service!Accept

(* The end of the outstanding request takes the first job off.             *)
LEMMA ServiceFinish ==
    ASSUME Bus, req_pend, NEW out \in Outs, NEW by,
           hist' = Append(hist, Ended(out, by)), closed' = closed,
           \/ que' = que /\ req_pend' = FALSE
           \/ \E w : Follows(w)
    PROVE  Service!ANext
<1>1. que \in Seq(Items) /\ last.req \in Frames
  BY DEF Bus, TypeOK, PendIsItem, Items
<1>2. Reqs(que) \in Seq(Frames)
  BY <1>1, ReqsType
<1>3. Jobs = <<last.req>> \o Reqs(que)
  BY DEF Jobs
<1>4. Jobs # <<>> /\ Tail(Jobs) = Reqs(que)
  <2> DEFINE r == Reqs(que)
             x == <<last.req>>
  <2>1. r \in Seq(Frames) /\ x \in Seq(Frames) /\ Len(x) = 1 /\ Jobs = x \o r
    BY <1>1, <1>2, <1>3
  <2> HIDE DEF r, x
  <2>2. /\ Jobs \in Seq(Frames) /\ Len(Jobs) = 1 + Len(r) /\ Len(r) \in Nat
        /\ \A i \in 1..(1 + Len(r)) : Jobs[i] = IF i <= 1 THEN x[i] ELSE r[i - 1]
    <3>1. /\ x \o r \in Seq(Frames) /\ Len(x \o r) = Len(x) + Len(r)
          /\ \A i \in 1..Len(x) + Len(r) :
               (x \o r)[i] = IF i <= Len(x) THEN x[i] ELSE r[i - Len(x)]
      BY <2>1, ConcatProperties
    <3>2. Len(r) \in Nat
      BY <2>1
    <3> QED BY <2>1, <3>1, <3>2
  <2>3. Jobs # <<>>
    BY <2>2
  <2>4. /\ Tail(Jobs) \in Seq(Frames) /\ Len(Tail(Jobs)) = Len(r)
        /\ \A i \in 1..Len(r) : Tail(Jobs)[i] = Jobs[i + 1]
    BY <2>2, <2>3
  <2>5. \A i \in 1..Len(r) : Tail(Jobs)[i] = r[i]
    <3> TAKE i \in 1..Len(r)
    <3>1. i + 1 \in 1..(1 + Len(r)) /\ ~(i + 1 <= 1) /\ (i + 1) - 1 = i
      BY <2>2
    <3> QED BY <2>2, <2>4, <3>1
  <2>6. Tail(Jobs) = r
    BY <2>1, <2>4, <2>5, SeqEqual
  <2> QED BY <2>3, <2>6 DEF r
<1>5. Jobs' = Reqs(que)
  <2>1. CASE que' = que /\ req_pend' = FALSE
    BY <2>1 DEF Jobs
  <2>2. ASSUME NEW w, Follows(w) PROVE Jobs' = Reqs(que)
    <3>1. CASE que = <<>> /\ que' = <<>> /\ req_pend' = FALSE
      BY <3>1 DEF Jobs
    <3>2. CASE /\ que # <<>> /\ que' = Tail(que)
               /\ req_pend' = TRUE /\ last' = Head(que)
      <4>1. Jobs' = <<Head(que).req>> \o Reqs(Tail(que))
        BY <3>2 DEF Jobs
      <4> QED BY <1>1, <3>2, <4>1, ReqsHeadTail
    <3> QED BY <2>2, <3>1, <3>2 DEF Follows, Sends
  <2> QED BY <2>1, <2>2
<1>6. Outcome' = Append(Outcome, out)
  BY OutcomeGrows DEF Bus
<1> QED BY <1>4, <1>5, <1>6 DEF Service!ANext, Service!Finish, Outs

(* What does not touch the requests is a stuttering step of the service.   *)
LEMMA ServiceStutter ==
    ASSUME UNCHANGED <<que, req_pend, last, hist, closed>>
    PROVE  UNCHANGED Service!abstractVars
BY DEF Service!abstractVars, Jobs, Reqs, Outcome

LEMMA ServiceStep ==
    ASSUME Bus, [Next]_vars
    PROVE  [Service!ANext]_Service!abstractVars
<1>1. ASSUME NEW f \in Frames, NEW h \in BOOLEAN,
             AcceptSends(Item(f, h)) \/ AcceptWaits(Item(f, h))
      PROVE  Service!ANext
  <2>1. Item(f, h) \in Items
    BY DEF Item, Items, Bus, TypeOK
  <2> QED BY <1>1, <2>1, ServiceAccept DEF AcceptSends, AcceptWaits, Sends
<1>2. CASE Answered
  BY <1>2, ServiceFinish DEF Answered, Outs
<1>3. CASE TimedOut
  BY <1>3, ServiceFinish DEF TimedOut, Outs
<1>4. CASE RaisedOut
  BY <1>4, ServiceFinish DEF RaisedOut, Outs
<1>5. CASE Refuses \/ Resends \/ Stays
  <2>1. UNCHANGED <<que, req_pend, last, hist, closed>>
    BY <1>5 DEF Refuses, Resends, Stays
  <2> QED BY <2>1, ServiceStutter
<1>6. CASE Closes
  <2>1. Jobs' = <<>> /\ Outcome' = Outcome /\ closed' = TRUE
    BY <1>6, ReqsEmpty DEF Closes, Jobs, Outcome
  <2> QED BY <2>1 DEF Service!ANext, Service!Shut
<1> QED BY <1>1, <1>2, <1>3, <1>4, <1>5, <1>6, Shape

(* Class Modbus implements the bounded first-in first-out service: each    *)
(* step accepts a request behind all others, ends the oldest one, shuts    *)
(* the service down, or is not seen by the callers.                        *)
THEOREM ServiceImplemented == Spec => ServiceSpec
<1>1. Init => Bus /\ Service!AInit
  BY InitBus, ServiceInit
<1>2. Bus /\ [Next]_vars => Bus' /\ [Service!ANext]_Service!abstractVars
  BY NextBus, ServiceStep
<1> QED BY <1>1, <1>2, PTL DEF Spec, ServiceSpec, Service!ASpec
==============================================================================
