--------------------------- MODULE ServerModeProofs ---------------------------
(***************************************************************************)
(* Proofs about the server mode for every value of the constants: the      *)
(* messages of a GEN3 inverter, which are answered and forwarded in their  *)
(* order and with the right offset (Talent), and the daily counters and    *)
(* their reset at midnight (DailyReset).                                   *)
(***************************************************************************)
EXTENDS MCServerMode, SequenceTheorems, FiniteSetTheorems, TLAPS

-----------------------------------------------------------------------------
(* Talent: the invariant.                                                  *)

\* The messages that have left the receive buffer.
Gone == nmsg - Len(rx)

\* When the forwarding begins there is something to forward; a contact
\* message is never among it.
Pending ==
    /\ pc \in {"forward", "greeted"} => fwd # <<>>
    /\ \A n \in 1..Len(fwd) : fwd[n].typ # "contact_info"

\* The receive buffer holds the last messages.
Buffered ==
    /\ Len(rx) <= nmsg
    /\ \A n \in 1..Len(rx) : rx[n].id = Gone + n

\* The order of ForwardedOnce, message by message; what is handled has left
\* the buffer.
Ordered ==
    /\ Len(handled) = Len(sent) + Len(fwd)
    /\ \A n \in 1..Len(sent) : handled[n] = sent[n].id
    /\ \A n \in 1..Len(fwd) : handled[Len(sent) + n] = fwd[n].id
    /\ \A n, m \in 1..Len(handled) : n < m => handled[n] < handled[m]
    /\ \A n \in 1..Len(handled) : handled[n] <= Gone

\* Nothing is lost over the connection whose writer is open, and so what is
\* lost of another is the last of it.
Delivered ==
    /\ \A n \in 1..Len(sent) : sent[n].conn <= nconn
    /\ \A n \in 1..Len(sent) :
          remote # 0 /\ ~closing /\ sent[n].conn = remote => ~sent[n].lost
    /\ \A n, m \in 1..Len(sent) :
          n < m /\ sent[n].conn = sent[m].conn /\ sent[n].lost => sent[m].lost

\* The cloud owes the answers that the remote stream awaits, and no more.
\* What is answered has left the buffer, or its handler has raised.
Answered ==
    /\ contacts <= await_conn_resp_cnt
    /\ \A n \in 1..Len(acks) :
          acks[n].id <= Gone \/ (acks[n].raised /\ acks[n].id = Gone + 1)
    /\ AnsweredOnce

\* The stream of the inverter has the offset that was answered last; the
\* remote stream has it once its own connection has answered.
Shifted ==
    /\ ts_offset = clock /\ (synced => rts_offset = clock)
    /\ \A n \in 1..Len(fwd) :
          fwd[n].shift = IF fwd[n].typ = "heartbeat" THEN fwd[n].clock ELSE 0
    /\ ShiftedUnlessBatched

TalentInv ==
    /\ TypeOK /\ Pending /\ Buffered /\ Ordered /\ Delivered /\ Answered
    /\ Shifted

States == {"init", "received", "up", "pend"}
SentRecord == [id : Ids, conn : 1..MaxConns, lost : BOOLEAN]

-----------------------------------------------------------------------------
(* A message that is handled leaves the buffer, whatever handles it.       *)

Stored == [id |-> Msg.id, typ |-> Msg.typ,
           shift |-> IF Msg.typ = "heartbeat" THEN ts_offset ELSE 0,
           clock |-> clock]

Takes ==
    /\ pc = "busy" /\ rx # <<>> /\ rx' = Tail(rx) /\ UNCHANGED <<nmsg, pc>>
    /\ \/ /\ acks' = Append(acks, [id |-> Msg.id, raised |-> FALSE])
          /\ asked' = asked \cup {Msg.id}
       \/ UNCHANGED <<acks, asked>>
    /\ \/ UNCHANGED <<fwd, handled>>
       \/ /\ Msg.typ # "contact_info"
          /\ fwd' = Append(fwd, Stored) /\ handled' = Append(handled, Msg.id)
    /\ UNCHANGED <<sent, wrote, timeVars, cloudVars>>
    /\ state' \in States /\ mb' \in Seq(0..MaxConns)

Handles ==
    \/ UnknownSerial \/ ContactInfo \/ GetTime \/ Heartbeat \/ CollectorData
    \/ InverterData \/ Other \/ ModbusRsp

LEMMA TakesShape ==
    ASSUME TypeOK, Handles
    PROVE  Takes
<1>1. state \in States /\ mb \in Seq(0..MaxConns)
  BY DEF TypeOK, States
<1>2. Received \in States /\ "up" \in States /\ "pend" \in States
  BY <1>1 DEF Received, States
<1>3. Flush => /\ rx' = Tail(rx) /\ UNCHANGED <<nmsg, pc>>
               /\ Msg.typ \in Asks => asked' = asked \cup {Msg.id}
               /\ Msg.typ \notin Asks => asked' = asked
  BY DEF Flush
<1>4. CASE UnknownSerial
  <2>1. Msg.typ \notin Asks
    BY <1>4 DEF UnknownSerial, Dispatch, Asks, Data
  <2> QED BY <1>1, <1>2, <1>3, <1>4, <2>1 DEF UnknownSerial, Dispatch, Swallow,
          Takes, fwdVars
<1>5. CASE ContactInfo
  <2>1. Msg.typ \in Asks
    BY <1>5 DEF ContactInfo, Dispatch, Asks
  <2> QED BY <1>1, <1>2, <1>3, <1>5, <2>1 DEF ContactInfo, Dispatch, Swallow,
          Answer, Takes, fwdVars
<1>6. CASE Heartbeat
  <2>1. Msg.typ = "heartbeat" /\ Msg.typ \in Asks
    BY <1>6 DEF Heartbeat, Dispatch, Asks
  <2> QED BY <1>1, <1>2, <1>3, <1>6, <2>1 DEF Heartbeat, Dispatch, Forward,
          Answer, Takes, Stored
<1>7. ASSUME NEW st \in States, NEW typs, "contact_info" \notin typs,
             "heartbeat" \notin typs, Dispatch(typs), ForwardPlain(st),
             IF Msg.typ \in Asks THEN Answer(FALSE) ELSE UNCHANGED acks
      PROVE  Takes
  BY <1>1, <1>3, <1>7 DEF Dispatch, ForwardPlain, Forward, Answer, Takes, Stored
<1>8. CASE GetTime
  <2>1. (IF state = "up" THEN "pend" ELSE Received) \in States
    BY <1>2
  <2>2. Msg.typ \in Asks
    BY <1>8 DEF GetTime, Dispatch, Asks
  <2> QED BY <1>7, <1>8, <2>1, <2>2 DEF GetTime
<1>9. CASE CollectorData
  <2>1. Msg.typ \in Asks
    BY <1>9 DEF CollectorData, Dispatch, Asks, Data
  <2> QED BY <1>2, <1>7, <1>9, <2>1 DEF CollectorData
<1>10. CASE InverterData
  <2>1. Msg.typ \in Asks
    BY <1>10 DEF InverterData, Dispatch, Asks, Data
  <2> QED BY <1>2, <1>7, <1>10, <2>1 DEF InverterData
<1>11. CASE Other
  <2>1. Msg.typ \notin Asks
    BY <1>11 DEF Other, Dispatch, Asks, Data
  <2> QED BY <1>2, <1>7, <1>11, <2>1 DEF Other
<1>12. CASE ModbusRsp
  <2>1. mb' \in Seq(0..MaxConns)
    BY <1>1, <1>12, HeadTailProperties DEF ModbusRsp
  <2>2. Msg.typ = "modbus" /\ Msg.typ \notin Asks
    BY <1>12 DEF ModbusRsp, Dispatch, Asks, Data
  <2>3. /\ \/ UNCHANGED <<fwd, handled>>
           \/ fwd' = Append(fwd, Stored) /\ handled' = Append(handled, Msg.id)
        /\ UNCHANGED <<sent, wrote>>
    BY <1>12, <2>2 DEF ModbusRsp, Forward, fwdVars, Stored
  <2> QED BY <1>2, <1>3, <1>12, <2>1, <2>2, <2>3 DEF ModbusRsp, Dispatch, Takes
<1> QED BY <1>4, <1>5, <1>6, <1>8, <1>9, <1>10, <1>11, <1>12 DEF Handles

\* The message at the head of the buffer.
LEMMA HeadFacts ==
    ASSUME TypeOK, Buffered, rx # <<>>
    PROVE  /\ Len(rx) \in Nat \ {0} /\ nmsg \in Nat /\ Gone \in Nat
           /\ Msg = rx[1] /\ Msg.id = Gone + 1 /\ Msg.id \in Ids
           /\ Msg.typ \in Kinds /\ Tail(rx) \in Seq([id : Ids, typ : Kinds])
           /\ Len(Tail(rx)) = Len(rx) - 1
           /\ \A n \in 1..Len(Tail(rx)) : Tail(rx)[n] = rx[n + 1]
<1>1. rx \in Seq([id : Ids, typ : Kinds]) /\ nmsg \in Nat /\ Len(rx) \in Nat \ {0}
  BY EmptySeq DEF TypeOK
<1>2. /\ Tail(rx) \in Seq([id : Ids, typ : Kinds]) /\ Len(Tail(rx)) = Len(rx) - 1
      /\ \A n \in 1..Len(Tail(rx)) : Tail(rx)[n] = rx[n + 1]
      /\ Head(rx) \in [id : Ids, typ : Kinds]
  BY <1>1, HeadTailProperties
<1>3. Gone \in Nat
  BY <1>1 DEF Gone, Buffered
<1>4. Msg = rx[1] /\ Msg.id = Gone + 1
  BY <1>1 DEF Msg, Buffered
<1> QED BY <1>1, <1>2, <1>3, <1>4 DEF Msg

LEMMA GoneFacts ==
    ASSUME TypeOK, Buffered
    PROVE  nmsg \in Nat /\ Len(rx) \in Nat /\ Gone \in Nat /\ Gone <= nmsg
BY DEF TypeOK, Buffered, Gone

\* What arrives is appended, with the next numbers.
LEMMA Arrives ==
    ASSUME TypeOK, Receive
    PROVE  /\ nmsg' \in 0..MaxMsgs /\ rx' \in Seq([id : Ids, typ : Kinds])
           /\ nmsg' - nmsg \in Nat /\ Len(rx') = Len(rx) + (nmsg' - nmsg)
           /\ \A n \in 1..Len(rx) : rx'[n] = rx[n]
           /\ \A n \in (Len(rx) + 1)..Len(rx') : rx'[n].id = nmsg + (n - Len(rx))
<1>10. PICK k \in 1..MaxRead : \E typs \in [1..k -> Kinds] :
        /\ nmsg + k <= MaxMsgs /\ nmsg' = nmsg + k
        /\ rx' = rx \o [i \in 1..k |-> [id |-> nmsg + i, typ |-> typs[i]]]
  BY DEF Receive
<1>1. PICK typs \in [1..k -> Kinds] :
        /\ nmsg + k <= MaxMsgs /\ nmsg' = nmsg + k
        /\ rx' = rx \o [i \in 1..k |-> [id |-> nmsg + i, typ |-> typs[i]]]
  BY <1>10
<1> DEFINE T == [id : Ids, typ : Kinds]
           t == [i \in 1..k |-> [id |-> nmsg + i, typ |-> typs[i]]]
<1>2. /\ rx \in Seq(T) /\ nmsg \in Nat /\ Len(rx) \in Nat /\ k \in Nat
      /\ MaxMsgs \in Nat
  BY SMTT(30), BoundsAssumption DEF TypeOK
<1>3. t \in Seq(T) /\ Len(t) = k
  <2>1. \A i \in 1..k : [id |-> nmsg + i, typ |-> typs[i]] \in T
    BY <1>1, <1>2 DEF Ids
  <2>2. t \in [1..k -> T] /\ k \in Nat
    BY <1>2, <2>1
  <2> HIDE DEF t, T
  <2> QED BY <2>2
<1>4. \A i \in 1..k : t[i].id = nmsg + i
  OBVIOUS
<1>5. rx' = rx \o t
  BY <1>1
<1> HIDE DEF t, T
<1>6. /\ rx' \in Seq(T) /\ Len(rx') = Len(rx) + Len(t)
      /\ \A n \in 1..(Len(rx) + Len(t)) :
            rx'[n] = IF n <= Len(rx) THEN rx[n] ELSE t[n - Len(rx)]
  BY <1>2, <1>3, <1>5, ConcatProperties
<1>7. \A n \in 1..Len(rx) : rx'[n] = rx[n]
  BY <1>2, <1>3, <1>6
<1>8. ASSUME NEW n \in (Len(rx) + 1)..Len(rx')
      PROVE  rx'[n].id = nmsg + (n - Len(rx))
  <2>1. n \in 1..(Len(rx) + Len(t)) /\ ~(n <= Len(rx)) /\ n - Len(rx) \in 1..k
    BY <1>2, <1>3, <1>6
  <2>2. rx'[n] = t[n - Len(rx)]
    BY <1>6, <2>1
  <2> QED BY <1>4, <2>1, <2>2
<1>9. nmsg' \in 0..MaxMsgs /\ nmsg' - nmsg = k
  BY <1>1, <1>2
<1> QED BY <1>2, <1>3, <1>6, <1>7, <1>8, <1>9 DEF T

-----------------------------------------------------------------------------
(* Talent: the parts of the invariant, step by step.                       *)

\* The buffer is left alone, and so are the histories of it.
Rests == UNCHANGED <<rx, nmsg, fwd, handled, sent, wrote, asked>>

Quiet ==
    \/ ReadEnds \/ Connect \/ NotConnected \/ TimeRsp \/ ContactRsp
    \/ CloudLost \/ CloseCb \/ GreetFails \/ GiveUp \/ ModbusReq \/ Poll
    \/ MbTimeout

Writes == Write \/ WriteLost

LEMMA QuietRests ==
    ASSUME Quiet
    PROVE  Rests
  BY DEF Quiet, ReadEnds, Connect, NotConnected, TimeRsp, ContactRsp, CloudLost,
     CloseCb, GreetFails, GiveUp, ModbusReq, Poll, MbTimeout, Ask, Rests, rxVars,
     fwdVars

\* What is written: lost or not, and what becomes of the connection.
LEMMA WritesShape ==
    ASSUME TypeOK, Writes
    PROVE  /\ pc \in {"forward", "greeted"} /\ remote # 0 /\ pc' \in {"read", "drop"}
           /\ fwd' = <<>>
           /\ UNCHANGED <<rx, nmsg, state, acks, asked, mb, handled, nconn, enabled>>
           /\ \/ /\ WriteAll(FALSE) /\ ~closing /\ contacts' = contacts + Contacts(fwd)
                 /\ UNCHANGED <<remote, closing, timeVars, await_conn_resp_cnt>>
              \/ /\ WriteAll(TRUE) /\ closing' = TRUE
                 /\ UNCHANGED <<remote, timeVars, greetVars>>
              \/ WriteAll(TRUE) /\ DelRemote
<1>1. CASE Write
  BY <1>1 DEF Write, WriteAll
<1>2. CASE WriteLost
  <2>1. closing \in BOOLEAN
    BY DEF TypeOK
  <2>2. /\ WriteAll(TRUE) /\ fwd' = <<>> /\ pc' \in {"read", "drop"}
        /\ \/ closing' = TRUE /\ UNCHANGED <<remote, timeVars, greetVars>>
           \/ DelRemote
    BY <1>2, <2>1 DEF WriteLost, DrainRaises
  <2> QED BY <2>2 DEF WriteAll
<1> QED BY <1>1, <1>2 DEF Writes

LEMMA NextSplit ==
    ASSUME TypeOK, Next
    PROVE  Takes \/ Receive \/ Junk \/ Raise \/ Writes \/ Quiet
<1>1. Handles \/ Receive \/ Junk \/ Raise \/ Writes \/ Quiet
  BY DEF Next, Handles, Quiet, Writes
<1> QED BY <1>1, TakesShape

LEMMA BufferedKept ==
    ASSUME TypeOK, Buffered, Next
    PROVE  Buffered' /\ Gone' \in Nat /\ Gone <= Gone'
<1>1. nmsg \in Nat /\ Len(rx) \in Nat /\ Gone \in Nat /\ Gone <= nmsg /\ Gone = nmsg - Len(rx)
  BY GoneFacts DEF Gone
<1>2. CASE Takes
  <2>1. rx' = Tail(rx) /\ rx # <<>> /\ nmsg' = nmsg
    BY <1>2 DEF Takes
  <2>2. /\ Len(rx') = Len(rx) - 1 /\ Len(rx) >= 1
        /\ \A n \in 1..Len(rx') : rx'[n] = rx[n + 1]
    BY <2>1, HeadFacts
  <2>3. Gone' = Gone + 1
    BY <1>1, <2>1, <2>2 DEF Gone
  <2>4. ASSUME NEW n \in 1..Len(rx') PROVE rx'[n].id = Gone' + n
    <3>1. n + 1 \in 1..Len(rx) /\ n \in Nat
      BY <1>1, <2>2
    <3>2. rx'[n].id = Gone + (n + 1)
      BY <2>2, <3>1 DEF Buffered
    <3> QED BY <1>1, <2>3, <3>1, <3>2
  <2>5. Len(rx') <= nmsg'
    BY <1>1, <2>1, <2>2 DEF Buffered
  <2> QED BY <1>1, <2>3, <2>4, <2>5 DEF Buffered
<1>3. CASE Receive
  <2>1. /\ nmsg' - nmsg \in Nat /\ Len(rx') = Len(rx) + (nmsg' - nmsg)
        /\ nmsg' \in Nat
        /\ \A n \in 1..Len(rx) : rx'[n] = rx[n]
        /\ \A n \in (Len(rx) + 1)..Len(rx') : rx'[n].id = nmsg + (n - Len(rx))
    BY <1>3, Arrives
  <2>2. Gone' = Gone /\ Len(rx') <= nmsg'
    BY <1>1, <2>1 DEF Gone, Buffered
  <2>3. ASSUME NEW n \in 1..Len(rx') PROVE rx'[n].id = Gone' + n
    <3>1. CASE n \in 1..Len(rx)
      BY <2>1, <2>2, <3>1 DEF Buffered
    <3>2. CASE n \notin 1..Len(rx)
      <4>1. n \in (Len(rx) + 1)..Len(rx') /\ n \in Nat
        BY <1>1, <2>1, <3>2
      <4>2. rx'[n].id = nmsg + (n - Len(rx))
        BY <2>1, <4>1
      <4> QED BY <1>1, <2>2, <4>1, <4>2
    <3> QED BY <3>1, <3>2
  <2> QED BY <1>1, <2>2, <2>3 DEF Buffered
<1>4. CASE Junk
  <2>1. rx' = <<>> /\ Len(rx') = 0 /\ nmsg' = nmsg
    BY <1>4 DEF Junk
  <2> QED BY <1>1, <2>1 DEF Buffered, Gone
<1>5. CASE UNCHANGED <<rx, nmsg>>
  BY <1>1, <1>5 DEF Buffered, Gone
<1>6. Raise \/ Writes \/ Quiet => UNCHANGED <<rx, nmsg>>
  BY QuietRests, WritesShape DEF Rests, Raise
<1> QED BY <1>2, <1>3, <1>4, <1>5, <1>6, NextSplit

LEMMA TypeFacts ==
    ASSUME TypeOK
    PROVE  /\ ts_offset \in Nat /\ rts_offset \in Nat /\ clock \in Nat
           /\ \A n \in 1..Len(fwd) : fwd[n] \in Forwarded
           /\ \A n \in 1..Len(handled) : handled[n] \in Nat
           /\ \A n \in 1..Len(acks) : acks[n].id \in Nat
           /\ fwd \in Seq(Forwarded) /\ Len(fwd) \in Nat
           /\ acks \in Seq([id : Ids \cup {0}, raised : BOOLEAN])
           /\ Len(acks) \in Nat
<1>1. \A o \in Offsets \cup {0} : o \in Nat
  BY OffsetsAssumption
<1>2. /\ ts_offset \in Offsets \cup {0} /\ rts_offset \in Offsets \cup {0}
      /\ clock \in Offsets \cup {0}
  BY DEF TypeOK
<1>3. /\ fwd \in Seq(Forwarded) /\ handled \in Seq(Ids)
      /\ acks \in Seq([id : Ids \cup {0}, raised : BOOLEAN])
  BY DEF TypeOK
<1>4. \A n \in 1..Len(acks) : acks[n] \in [id : Ids \cup {0}, raised : BOOLEAN]
  BY <1>3, ElementOfSeq
<1>5. \A n \in 1..Len(acks) : acks[n].id \in Nat
  BY <1>4 DEF Ids
<1>6. \A n \in 1..Len(fwd) : fwd[n] \in Forwarded
  BY <1>3, ElementOfSeq
<1>7. \A n \in 1..Len(handled) : handled[n] \in Ids
  BY <1>3, ElementOfSeq
<1>8. \A i \in Ids : i \in Nat
  BY DEF Ids
<1>9. ts_offset \in Nat /\ rts_offset \in Nat /\ clock \in Nat
  BY <1>1, <1>2
<1>10. \A n \in 1..Len(handled) : handled[n] \in Nat
  BY <1>7, <1>8
<1>11. Len(fwd) \in Nat /\ Len(acks) \in Nat
  BY <1>3, LenProperties
<1> QED BY <1>3, <1>5, <1>6, <1>9, <1>10, <1>11

\* What a message adds to the forward buffer.
LEMMA StoredFacts ==
    ASSUME TypeOK, Buffered, rx # <<>>
    PROVE  /\ Stored \in Forwarded /\ Stored.id = Gone + 1 /\ Stored.typ = Msg.typ
           /\ Msg.id \in Ids
<1>1. /\ Msg.id \in Ids /\ Msg.typ \in Kinds /\ Msg.id = Gone + 1
  BY HeadFacts
<1>2. ts_offset \in Nat /\ clock \in Nat
  BY TypeFacts
<1> QED BY <1>1, <1>2 DEF Stored, Forwarded

LEMMA StoreGrows ==
    ASSUME TypeOK, Buffered, rx # <<>>, fwd' = Append(fwd, Stored),
           handled' = Append(handled, Msg.id)
    PROVE  /\ fwd' \in Seq(Forwarded) /\ Len(fwd') = Len(fwd) + 1 /\ fwd' # <<>>
           /\ fwd'[Len(fwd) + 1] = Stored
           /\ \A n \in 1..Len(fwd) : fwd'[n] = fwd[n]
           /\ handled' \in Seq(Ids) /\ Len(handled') = Len(handled) + 1
           /\ handled'[Len(handled) + 1] = Msg.id
           /\ \A n \in 1..Len(handled) : handled'[n] = handled[n]
           /\ Len(fwd) \in Nat /\ Len(handled) \in Nat /\ Len(sent) \in Nat
<1>1. fwd \in Seq(Forwarded) /\ handled \in Seq(Ids) /\ sent \in Seq(SentRecord)
  BY DEF TypeOK, SentRecord
<1>2. /\ fwd' \in Seq(Forwarded) /\ Len(fwd') = Len(fwd) + 1 /\ fwd' # <<>>
      /\ fwd'[Len(fwd) + 1] = Stored
      /\ \A n \in 1..Len(fwd) : fwd'[n] = fwd[n]
  BY <1>1, StoredFacts, AppendProperties
<1>3. /\ handled' \in Seq(Ids) /\ Len(handled') = Len(handled) + 1
      /\ handled'[Len(handled) + 1] = Msg.id
      /\ \A n \in 1..Len(handled) : handled'[n] = handled[n]
  BY <1>1, StoredFacts, AppendProperties
<1> QED BY <1>1, <1>2, <1>3

\* All of the forward buffer is appended to what was sent.
LEMMA WriteGrows ==
    ASSUME TypeOK, NEW lost \in BOOLEAN, WriteAll(lost)
    PROVE  /\ sent' \in Seq(SentRecord) /\ Len(sent') = Len(sent) + Len(fwd)
           /\ \A n \in 1..Len(sent) : sent'[n] = sent[n]
           /\ \A n \in (Len(sent) + 1)..Len(sent') :
                 /\ sent'[n].id = fwd[n - Len(sent)].id
                 /\ sent'[n].conn = remote /\ sent'[n].lost = lost
           /\ Len(sent) \in Nat /\ Len(fwd) \in Nat
<1> DEFINE t == [i \in 1..Len(fwd) |-> [id |-> fwd[i].id, conn |-> remote, lost |-> lost]]
<1>1. /\ sent \in Seq(SentRecord) /\ fwd \in Seq(Forwarded)
      /\ Len(sent) \in Nat /\ Len(fwd) \in Nat
  BY DEF TypeOK, SentRecord
<1>2. t \in Seq(SentRecord) /\ Len(t) = Len(fwd)
  <2>1. \A i \in 1..Len(fwd) : fwd[i].id \in Ids
    BY TypeFacts DEF Forwarded
  <2>2. remote \in 1..MaxConns
    BY BoundsAssumption DEF TypeOK, WriteAll
  <2>3. \A i \in 1..Len(fwd) : [id |-> fwd[i].id, conn |-> remote, lost |-> lost] \in SentRecord
    BY <2>1, <2>2 DEF SentRecord
  <2>4. t \in [1..Len(fwd) -> SentRecord] /\ Len(fwd) \in Nat
    BY <1>1, <2>3
  <2> HIDE DEF t
  <2> QED BY <2>4
<1>3. \A i \in 1..Len(fwd) :
          t[i].id = fwd[i].id /\ t[i].conn = remote /\ t[i].lost = lost
  OBVIOUS
<1>4. sent' = sent \o t
  BY DEF WriteAll
<1> HIDE DEF t
<1>5. /\ sent' \in Seq(SentRecord) /\ Len(sent') = Len(sent) + Len(t)
      /\ \A n \in 1..(Len(sent) + Len(t)) :
            sent'[n] = IF n <= Len(sent) THEN sent[n] ELSE t[n - Len(sent)]
  <2> DEFINE v == sent \o t
  <2>1. /\ v \in Seq(SentRecord) /\ Len(v) = Len(sent) + Len(t)
        /\ \A n \in 1..(Len(sent) + Len(t)) :
              v[n] = IF n <= Len(sent) THEN sent[n] ELSE t[n - Len(sent)]
    BY <1>1, <1>2, ConcatProperties
  <2>2. sent' = v
    BY <1>4
  <2> HIDE DEF v
  <2> QED BY <2>1, <2>2
<1>6. ASSUME NEW n \in 1..Len(sent) PROVE sent'[n] = sent[n]
  <2>1. n \in 1..(Len(sent) + Len(t)) /\ n <= Len(sent)
    BY <1>1, <1>2
  <2> QED BY <1>5, <2>1
<1>7. ASSUME NEW n \in (Len(sent) + 1)..Len(sent')
      PROVE  /\ sent'[n].id = fwd[n - Len(sent)].id
             /\ sent'[n].conn = remote /\ sent'[n].lost = lost
  <2>1. /\ n \in 1..(Len(sent) + Len(t)) /\ ~(n <= Len(sent))
        /\ n - Len(sent) \in 1..Len(fwd)
    BY <1>1, <1>2, <1>5
  <2>2. sent'[n] = t[n - Len(sent)]
    BY <1>5, <2>1
  <2> QED BY <1>3, <2>1, <2>2
<1> QED BY <1>1, <1>2, <1>5, <1>6, <1>7

LEMMA OrderedKept ==
    ASSUME TypeOK, Buffered, Ordered, Next
    PROVE  Ordered'
<1>1. /\ Gone \in Nat /\ Gone' \in Nat /\ Gone <= Gone'
      /\ Len(handled) \in Nat /\ Len(sent) \in Nat /\ Len(fwd) \in Nat
  BY BufferedKept, GoneFacts DEF TypeOK
<1>2. \A n \in 1..Len(handled) : handled[n] \in Nat /\ handled[n] <= Gone /\ handled[n] <= Gone'
  <2>1. ASSUME NEW n \in 1..Len(handled) PROVE handled[n] \in Nat
    BY TypeFacts
  <2>2. ASSUME NEW n \in 1..Len(handled) PROVE handled[n] <= Gone
    BY DEF Ordered
  <2> QED BY <1>1, <2>1, <2>2
<1>3. CASE UNCHANGED <<fwd, handled, sent>>
  BY <1>2, <1>3 DEF Ordered
<1>4. CASE Takes /\ ~UNCHANGED <<fwd, handled>>
  <2>1. /\ rx # <<>> /\ fwd' = Append(fwd, Stored) /\ handled' = Append(handled, Msg.id)
        /\ sent' = sent /\ nmsg' = nmsg /\ rx' = Tail(rx)
    BY <1>4 DEF Takes
  <2>2. /\ Len(fwd') = Len(fwd) + 1 /\ fwd'[Len(fwd) + 1].id = Gone + 1
        /\ \A n \in 1..Len(fwd) : fwd'[n] = fwd[n]
        /\ Len(handled') = Len(handled) + 1 /\ handled'[Len(handled) + 1] = Gone + 1
        /\ \A n \in 1..Len(handled) : handled'[n] = handled[n]
    BY <2>1, StoreGrows, StoredFacts, HeadFacts
  <2>3. Gone' = Gone + 1
    BY <1>1, <2>1, HeadFacts DEF Gone
  <2>4. Len(handled) = Len(sent) + Len(fwd)
    BY DEF Ordered
  <2>5. \A n \in 1..Len(sent) : handled'[n] = sent[n].id
    <3>1. 1..Len(sent) \subseteq 1..Len(handled)
      BY <1>1, <2>4
    <3> QED BY <2>2, <3>1 DEF Ordered
  <2>6. ASSUME NEW n \in 1..Len(fwd') PROVE handled'[Len(sent) + n] = fwd'[n].id
    <3>1. CASE n \in 1..Len(fwd)
      <4>1. Len(sent) + n \in 1..Len(handled)
        BY <1>1, <2>4, <3>1
      <4> QED BY <2>2, <3>1, <4>1 DEF Ordered
    <3>2. CASE n = Len(fwd) + 1
      <4>1. Len(sent) + n = Len(handled) + 1
        BY <1>1, <2>4, <3>2
      <4> QED BY <2>2, <3>2, <4>1
    <3> QED BY <1>1, <2>2, <3>1, <3>2
  <2>7. ASSUME NEW n \in 1..Len(handled'), NEW m \in 1..Len(handled'), n < m
        PROVE  handled'[n] < handled'[m]
    <3>1. n \in 1..Len(handled)
      BY <1>1, <2>2, <2>7
    <3>2. CASE m \in 1..Len(handled)
      BY <2>2, <2>7, <3>1, <3>2 DEF Ordered
    <3>3. CASE m = Len(handled) + 1
      <4>1. handled'[n] = handled[n] /\ handled'[m] = Gone + 1
        BY <2>2, <3>1, <3>3
      <4> QED BY <1>1, <1>2, <3>1, <4>1
    <3> QED BY <1>1, <2>2, <3>2, <3>3
  <2>8. ASSUME NEW n \in 1..Len(handled') PROVE handled'[n] <= Gone'
    <3>1. CASE n \in 1..Len(handled)
      BY <1>2, <2>2, <3>1
    <3>2. CASE n = Len(handled) + 1
      BY <1>1, <2>2, <2>3, <3>2
    <3> QED BY <1>1, <2>2, <3>1, <3>2
  <2>9. Len(handled') = Len(sent') + Len(fwd')
    BY <1>1, <2>1, <2>2, <2>4
  <2> QED BY <2>1, <2>5, <2>6, <2>7, <2>8, <2>9 DEF Ordered
<1>5. CASE Writes
  <2>1. /\ Len(sent') = Len(sent) + Len(fwd)
        /\ \A n \in 1..Len(sent) : sent'[n] = sent[n]
        /\ \A n \in (Len(sent) + 1)..Len(sent') :
              sent'[n].id = fwd[n - Len(sent)].id
    <3>1. PICK lost \in BOOLEAN : WriteAll(lost)
      BY <1>5, WritesShape
    <3> QED BY <3>1, WriteGrows
  <2>2. fwd' = <<>> /\ Len(fwd') = 0 /\ handled' = handled
    BY <1>5, WritesShape
  <2>3. ASSUME NEW n \in 1..Len(sent') PROVE handled[n] = sent'[n].id
    <3>1. CASE n \in 1..Len(sent)
      BY <2>1, <3>1 DEF Ordered
    <3>2. CASE n \notin 1..Len(sent)
      <4> DEFINE k == n - Len(sent)
      <4>1. /\ n \in (Len(sent) + 1)..Len(sent') /\ k \in 1..Len(fwd)
            /\ Len(sent) + k = n
        BY <1>1, <2>1, <3>2
      <4>2. sent'[n].id = fwd[k].id
        BY <2>1, <4>1
      <4> HIDE DEF k
      <4>3. handled[Len(sent) + k] = fwd[k].id
        BY <4>1 DEF Ordered
      <4> QED BY <4>1, <4>2, <4>3
    <3> QED BY <3>1, <3>2
  <2>4. Len(handled') = Len(sent') + Len(fwd')
    BY <1>1, <2>1, <2>2 DEF Ordered
  <2>5. \A n, m \in 1..Len(handled') : n < m => handled'[n] < handled'[m]
    BY <2>2 DEF Ordered
  <2> QED BY <1>2, <2>2, <2>3, <2>4, <2>5 DEF Ordered
<1>6. Receive \/ Junk \/ Raise => UNCHANGED <<fwd, handled, sent>>
  BY DEF Receive, Junk, Raise, fwdVars
<1>7. Takes => sent' = sent
  BY DEF Takes
<1>8. Quiet => UNCHANGED <<fwd, handled, sent>>
  BY QuietRests DEF Rests
<1> QED BY <1>3, <1>4, <1>5, <1>6, <1>7, <1>8, NextSplit

LEMMA DeliveredKept ==
    ASSUME TypeOK, Delivered, Next
    PROVE  Delivered'
<1>1. /\ nconn \in Nat /\ nconn' \in Nat /\ nconn <= nconn' /\ remote \in 0..nconn
      /\ \A n \in 1..Len(sent) : sent[n] \in SentRecord
  <2>1. nconn \in Nat /\ remote \in 0..nconn /\ sent \in Seq(SentRecord)
    BY BoundsAssumption DEF TypeOK, SentRecord
  <2>2. nconn' = nconn \/ nconn' = nconn + 1
    <3>1. Writes \/ Takes \/ Receive \/ Junk \/ Raise => nconn' = nconn
      BY WritesShape DEF Takes, Receive, Junk, Raise, cloudVars
    <3>2. Quiet => nconn' = nconn \/ nconn' = nconn + 1
      BY DEF Quiet, ReadEnds, Connect, NotConnected, TimeRsp, ContactRsp, CloudLost,
         CloseCb, GreetFails, GiveUp, ModbusReq, Poll, MbTimeout, Ask, cloudVars
    <3> QED BY <3>1, <3>2, NextSplit
  <2> QED BY <2>1, <2>2, ElementOfSeq
<1>2. CASE /\ UNCHANGED sent
           /\ \/ remote' = remote /\ (closing => closing')
              \/ remote' = 0
              \/ remote' = nconn + 1
  <2>1. ASSUME NEW n \in 1..Len(sent)
        PROVE  sent[n].conn <= nconn' /\ sent[n].conn # nconn + 1
    <3>1. sent[n].conn \in Nat /\ sent[n].conn <= nconn
      BY <1>1 DEF Delivered, SentRecord
    <3> QED BY <1>1, <3>1
  <2>2. ASSUME NEW n \in 1..Len(sent), remote' # 0, ~closing', sent[n].conn = remote'
        PROVE  ~sent[n].lost
    BY <1>2, <2>1, <2>2 DEF Delivered
  <2> QED BY <1>2, <2>1, <2>2 DEF Delivered
<1>3. CASE Writes
  <2>1. ASSUME NEW lost \in BOOLEAN, WriteAll(lost), nconn' = nconn, remote # 0,
               \/ remote' = remote /\ (lost => closing') /\ (lost \/ ~closing)
               \/ remote' = 0 /\ lost
        PROVE  Delivered'
    <3> DEFINE new == (Len(sent) + 1)..Len(sent')
    <3>1. /\ Len(sent) \in Nat /\ Len(sent') \in Nat
          /\ \A n \in 1..Len(sent) : sent'[n] = sent[n]
          /\ \A n \in new : sent'[n].conn = remote /\ sent'[n].lost = lost
      BY <2>1, WriteGrows
    <3>2. \A n \in 1..Len(sent') : n \in 1..Len(sent) \/ n \in new
      BY <3>1
    <3>3. \A n \in 1..Len(sent'), m \in 1..Len(sent) : n < m => n \in 1..Len(sent)
      BY <3>1
    <3> HIDE DEF new
    <3>4. ASSUME NEW n \in 1..Len(sent')
          PROVE  sent'[n].conn <= nconn'
      BY <1>1, <2>1, <3>1, <3>2 DEF Delivered
    <3>5. ASSUME NEW n \in 1..Len(sent'), remote' # 0, ~closing', sent'[n].conn = remote'
          PROVE  ~sent'[n].lost
      <4>1. remote' = remote /\ ~lost /\ ~closing
        BY <2>1, <3>5
      <4> QED BY <3>1, <3>2, <3>5, <4>1 DEF Delivered
    <3>6. ASSUME NEW n \in 1..Len(sent'), NEW m \in 1..Len(sent'), n < m,
                 sent'[n].conn = sent'[m].conn, sent'[n].lost
          PROVE  sent'[m].lost
      <4>1. CASE m \in 1..Len(sent)
        <5>1. n \in 1..Len(sent)
          BY <3>3, <3>6, <4>1
        <5> QED BY <3>1, <3>6, <4>1, <5>1 DEF Delivered
      <4>2. CASE m \in new
        <5>1. CASE lost
          BY <3>1, <4>2, <5>1
        <5>2. CASE ~lost
          <6>1. ~closing /\ sent'[n].conn = remote
            BY <2>1, <3>1, <3>6, <4>2, <5>2
          <6>2. n \in new \/ (n \in 1..Len(sent) /\ sent'[n] = sent[n])
            BY <3>1, <3>2
          <6>3. ~sent'[n].lost
            BY <2>1, <3>1, <5>2, <6>1, <6>2 DEF Delivered
          <6> QED BY <3>6, <6>3
        <5> QED BY <5>1, <5>2
      <4> QED BY <3>2, <4>1, <4>2
    <3> QED BY <3>4, <3>5, <3>6 DEF Delivered
  <2>2. remote # 0 /\ nconn' = nconn
    BY <1>3, WritesShape
  <2>3. CASE WriteAll(FALSE) /\ ~closing /\ remote' = remote
    BY <2>1, <2>2, <2>3
  <2>4. CASE WriteAll(TRUE) /\ closing' = TRUE /\ remote' = remote
    BY <2>1, <2>2, <2>4
  <2>5. CASE WriteAll(TRUE) /\ remote' = 0
    BY <2>1, <2>2, <2>5
  <2> QED BY <1>3, <2>3, <2>4, <2>5, WritesShape DEF DelRemote
<1>4. Takes \/ Receive \/ Junk \/ Raise => UNCHANGED <<sent, remote, closing>>
  BY DEF Takes, Receive, Junk, Raise, fwdVars, cloudVars
<1>5. CASE Quiet
  <2>1. sent' = sent
    BY <1>5, QuietRests DEF Rests
  <2>2. CASE \/ ReadEnds \/ NotConnected \/ TimeRsp \/ ContactRsp \/ CloudLost
             \/ ModbusReq \/ Poll \/ MbTimeout
    BY <1>2, <2>1, <2>2 DEF ReadEnds, NotConnected, TimeRsp, ContactRsp, CloudLost,
       ModbusReq, Poll, MbTimeout, Ask, cloudVars
  <2>3. CASE CloseCb \/ GreetFails \/ GiveUp
    BY <1>2, <2>1, <2>3 DEF CloseCb, GreetFails, GiveUp, DrainRaises, DelRemote
  <2>4. CASE Connect
    BY <1>2, <2>1, <2>4 DEF Connect
  <2> QED BY <1>5, <2>2, <2>3, <2>4 DEF Quiet
<1> QED BY <1>2, <1>3, <1>4, <1>5, NextSplit

\* One more answer to the inverter.
LEMMA AckGrows ==
    ASSUME TypeOK, Buffered, rx # <<>>, NEW raised \in BOOLEAN,
           acks' = Append(acks, [id |-> Msg.id, raised |-> raised])
    PROVE  /\ acks' \in Seq([id : Ids \cup {0}, raised : BOOLEAN])
           /\ Len(acks') = Len(acks) + 1 /\ Len(acks) \in Nat
           /\ \A n \in 1..Len(acks) : acks'[n] = acks[n]
           /\ acks'[Len(acks) + 1].id = Gone + 1
           /\ acks'[Len(acks) + 1].raised = raised
<1>1. Msg.id \in Ids /\ Msg.id = Gone + 1
  BY HeadFacts
<1>2. [id |-> Msg.id, raised |-> raised] \in [id : Ids \cup {0}, raised : BOOLEAN]
  BY <1>1
<1>3. acks \in Seq([id : Ids \cup {0}, raised : BOOLEAN]) /\ Len(acks) \in Nat
  BY TypeFacts
<1>4. /\ acks' \in Seq([id : Ids \cup {0}, raised : BOOLEAN])
      /\ Len(acks') = Len(acks) + 1
      /\ \A n \in 1..Len(acks) : acks'[n] = acks[n]
      /\ acks'[Len(acks) + 1] = [id |-> Msg.id, raised |-> raised]
  BY <1>2, <1>3, AppendProperties
<1> QED BY <1>1, <1>3, <1>4

\* The two conjuncts of Answered about the answers.
AckPlaces ==
    \A n \in 1..Len(acks) :
        acks[n].id <= Gone \/ (acks[n].raised /\ acks[n].id = Gone + 1)

LEMMA AckKept ==
    ASSUME TypeOK, Buffered, AckPlaces, AnsweredOnce, rx # <<>>,
           NEW raised \in BOOLEAN, Gone' \in Nat,
           acks' = Append(acks, [id |-> Msg.id, raised |-> raised]),
           Gone' = IF raised THEN Gone ELSE Gone + 1,
           asked' = IF raised THEN asked ELSE asked \cup {Msg.id}
    PROVE  AckPlaces' /\ AnsweredOnce'
<1>1. /\ Len(acks') = Len(acks) + 1 /\ Len(acks) \in Nat /\ Gone \in Nat
      /\ \A n \in 1..Len(acks) : acks'[n] = acks[n] /\ acks[n].id \in Nat
      /\ acks'[Len(acks) + 1].id = Gone + 1
      /\ acks'[Len(acks) + 1].raised = raised
  BY AckGrows, TypeFacts, GoneFacts
<1>2. \A n \in 1..Len(acks') : n \in 1..Len(acks) \/ n = Len(acks) + 1
  BY <1>1
<1>3. \A n \in 1..Len(acks) :
          acks[n].id <= Gone \/ (acks[n].raised /\ acks[n].id = Gone + 1)
  BY DEF AckPlaces
<1>4. ASSUME NEW n \in 1..Len(acks')
      PROVE  acks'[n].id <= Gone' \/ (acks'[n].raised /\ acks'[n].id = Gone' + 1)
  <2>1. CASE n \in 1..Len(acks)
    <3>1. acks'[n] = acks[n] /\ acks[n].id \in Nat
      BY <1>1, <2>1
    <3>2. CASE raised
      BY <1>3, <2>1, <3>1, <3>2
    <3>3. CASE ~raised
      <4>1. acks[n].id <= Gone + 1
        BY <1>1, <1>3, <2>1, <3>1
      <4> QED BY <3>1, <3>3, <4>1
    <3> QED BY <3>2, <3>3
  <2>2. CASE n = Len(acks) + 1
    BY <1>1, <2>2
  <2> QED BY <1>2, <2>1, <2>2
<1>5. ASSUME NEW m \in Ids \cup {0}
      PROVE  m \in asked' <=> [id |-> m, raised |-> FALSE] \in
                                  {acks'[n] : n \in 1..Len(acks')}
  <2> DEFINE a == [id |-> m, raised |-> FALSE]
             A == {acks[n] : n \in 1..Len(acks)}
             A2 == {acks'[n] : n \in 1..Len(acks')}
             e == [id |-> Msg.id, raised |-> raised]
  <2>1. m \in asked <=> a \in A
    BY DEF AnsweredOnce
  <2>2. A2 = A \cup {e}
    <3>1. acks'[Len(acks) + 1] = e /\ Len(acks) + 1 \in 1..Len(acks')
      BY <1>1, TypeFacts, AppendProperties
    <3>2. \A n \in 1..Len(acks) : n \in 1..Len(acks') /\ acks'[n] = acks[n]
      BY <1>1
    <3> HIDE DEF e
    <3> QED BY <1>2, <3>1, <3>2
  <2>3. CASE raised
    <3>1. a # e
      BY <2>3
    <3>2. a \in A2 <=> a \in A
      BY <2>2, <3>1
    <3> QED BY <2>1, <2>3, <3>2
  <2>4. CASE ~raised
    <3>1. a = e <=> m = Msg.id
      BY <2>4
    <3>2. a \in A2 <=> (a \in A \/ m = Msg.id)
      BY <2>2, <3>1
    <3> QED BY <2>1, <2>4, <3>2
  <2> QED BY <2>3, <2>4
<1>6. ASSUME NEW n \in 1..(Len(acks') - 1)
      PROVE  \/ acks'[n].id < acks'[n + 1].id
             \/ acks'[n].id = acks'[n + 1].id /\ acks'[n].raised
  <2>1. n \in 1..Len(acks) /\ acks'[n] = acks[n] /\ acks[n].id \in Nat
    BY <1>1
  <2>2. CASE n = Len(acks)
    <3>1. acks'[n + 1].id = Gone + 1
      BY <1>1, <2>2
    <3>2. acks[n].id <= Gone \/ (acks[n].raised /\ acks[n].id = Gone + 1)
      BY <1>3, <2>1
    <3>3. acks[n].id <= Gone => acks[n].id < Gone + 1
      BY <1>1, <2>1
    <3> QED BY <2>1, <3>1, <3>2, <3>3
  <2>3. CASE n # Len(acks)
    <3>1. n \in 1..(Len(acks) - 1) /\ n + 1 \in 1..Len(acks)
      BY <1>1, <2>1, <2>3
    <3>2. acks'[n + 1] = acks[n + 1]
      BY <1>1, <3>1
    <3> QED BY <2>1, <3>1, <3>2 DEF AnsweredOnce
  <2> QED BY <2>2, <2>3
<1> QED BY <1>4, <1>5, <1>6 DEF AckPlaces, AnsweredOnce

\* A contact message is never forwarded: none waits for its answer.
LEMMA NoContacts ==
    ASSUME TypeOK, Pending
    PROVE  Contacts(fwd) = 0
<1>1. {n \in 1..Len(fwd) : fwd[n].typ = "contact_info"} = {}
  BY DEF Pending
<1> QED BY <1>1, FS_EmptySet DEF Contacts

LEMMA AnsweredKept ==
    ASSUME TypeOK, Pending, Buffered, Answered, Next
    PROVE  Answered'
<1>1. /\ Gone \in Nat /\ Gone' \in Nat /\ Gone <= Gone'
      /\ contacts \in Nat /\ await_conn_resp_cnt \in 0..1
      /\ contacts <= await_conn_resp_cnt
  BY BufferedKept, GoneFacts DEF TypeOK, Answered
<1>2. AckPlaces /\ AnsweredOnce
  BY DEF Answered, AckPlaces
<1>3. contacts' <= await_conn_resp_cnt'
  <2>1. CASE UNCHANGED greetVars
    BY <1>1, <2>1 DEF greetVars
  <2>2. CASE Writes
    <3>1. Contacts(fwd) = 0 /\ contacts + 0 = contacts
      BY <1>1, NoContacts
    <3>2. CASE contacts' = contacts + Contacts(fwd) /\ UNCHANGED await_conn_resp_cnt
      BY <1>1, <3>1, <3>2
    <3>3. CASE DelRemote
      BY <3>3 DEF DelRemote
    <3> QED BY <2>1, <2>2, <3>2, <3>3, WritesShape
  <2>3. CASE ContactRsp
    BY <1>1, <2>3 DEF ContactRsp
  <2>4. CASE Connect
    BY <2>4 DEF Connect, Greet
  <2>5. CASE CloseCb \/ GreetFails \/ GiveUp
    BY <2>1, <2>5 DEF CloseCb, GreetFails, GiveUp, DrainRaises, DelRemote
  <2>6. CASE \/ ReadEnds \/ NotConnected \/ TimeRsp \/ CloudLost \/ ModbusReq
             \/ Poll \/ MbTimeout
    BY <2>1, <2>6 DEF ReadEnds, NotConnected, TimeRsp, CloudLost, ModbusReq, Poll,
       MbTimeout, Ask, cloudVars
  <2>7. CASE Takes \/ Receive \/ Junk \/ Raise
    BY <2>1, <2>7 DEF Takes, Receive, Junk, Raise, cloudVars
  <2> QED BY <2>2, <2>3, <2>4, <2>5, <2>6, <2>7, NextSplit DEF Quiet
<1>4. CASE UNCHANGED <<acks, asked>> /\ (Gone' = Gone \/ Gone' >= Gone + 1)
  <2>1. ASSUME NEW n \in 1..Len(acks)
        PROVE  acks[n].id <= Gone' \/ (acks[n].raised /\ acks[n].id = Gone' + 1)
    <3>1. acks[n].id \in Nat
      BY TypeFacts
    <3>2. acks[n].id <= Gone \/ (acks[n].raised /\ acks[n].id = Gone + 1)
      BY <1>2 DEF AckPlaces
    <3>3. CASE Gone' = Gone
      BY <3>2, <3>3
    <3>4. CASE Gone' >= Gone + 1
      <4>1. acks[n].id <= Gone'
        BY <1>1, <3>1, <3>2, <3>4
      <4> QED BY <4>1
    <3> QED BY <1>4, <3>3, <3>4
  <2> QED BY <1>2, <1>3, <1>4, <2>1 DEF Answered, AnsweredOnce
<1>5. Gone' = Gone \/ Gone' >= Gone + 1
  BY <1>1
<1>6. CASE Takes /\ ~UNCHANGED <<acks, asked>>
  <2>1. /\ rx # <<>> /\ rx' = Tail(rx) /\ nmsg' = nmsg
        /\ acks' = Append(acks, [id |-> Msg.id, raised |-> FALSE])
        /\ asked' = asked \cup {Msg.id}
    BY <1>6 DEF Takes
  <2>2. Gone' = Gone + 1
    BY <1>1, <2>1, HeadFacts DEF Gone
  <2> QED BY <1>1, <1>2, <1>3, <2>1, <2>2, AckKept DEF Answered, AckPlaces
<1>7. CASE Raise /\ ~UNCHANGED <<acks, asked>>
  <2>1. /\ rx # <<>> /\ UNCHANGED <<rx, nmsg, asked>>
        /\ acks' = Append(acks, [id |-> Msg.id, raised |-> TRUE])
    BY <1>7 DEF Raise, Answer
  <2>2. Gone' = Gone
    BY <2>1 DEF Gone
  <2> QED BY <1>1, <1>2, <1>3, <2>1, <2>2, AckKept DEF Answered, AckPlaces
<1>8. Quiet => UNCHANGED <<acks, asked>>
  <2>1. CASE ContactRsp
    <3>1. contacts > 0 => await_conn_resp_cnt > 0
      BY <1>1
    <3> QED BY <2>1, <3>1 DEF ContactRsp
  <2> QED BY <2>1 DEF Quiet, ReadEnds, Connect, NotConnected, TimeRsp, CloudLost,
          CloseCb, GreetFails, GiveUp, ModbusReq, Poll, MbTimeout, Ask, rxVars
<1>9. Receive \/ Junk \/ Writes => UNCHANGED <<acks, asked>>
  BY WritesShape DEF Receive, Junk
<1> QED BY <1>4, <1>5, <1>6, <1>7, <1>8, <1>9, NextSplit

\* What _update_header makes of the forward buffer.
LEMMA UpdateFacts ==
    ASSUME TypeOK, Pending, Shifted, Writes
    PROVE  /\ wrote'.msgs \in Seq(Forwarded)
           /\ ShiftedUnlessBatched'
<1>7. PICK rounds \in Rounds(fwd) :
        wrote' = [msgs |-> UpdateHeader(fwd, rounds), synced |-> synced, clock |-> clock]
  <2>1. PICK lost \in BOOLEAN : WriteAll(lost)
    BY WritesShape
  <2> QED BY <2>1 DEF WriteAll
<1>8. rounds \in Nat /\ (Len(fwd) = 1 => rounds = 1)
  BY <1>7, BoundsAssumption DEF Rounds
<1> DEFINE e == fwd[1]
           s == e.shift + rounds * rts_offset
           ms == UpdateHeader(fwd, rounds)
<1>1. /\ fwd \in Seq(Forwarded) /\ fwd # <<>> /\ Len(fwd) \in Nat \ {0}
      /\ rts_offset \in Nat
  <2>1. pc \in {"forward", "greeted"}
    BY WritesShape
  <2> QED BY <2>1, TypeFacts, EmptySeq DEF Pending
<1>2. /\ 1 \in 1..Len(fwd) /\ e \in Forwarded
  BY <1>1, TypeFacts
<1>3. s \in Nat /\ (Len(fwd) = 1 => s = e.shift + rts_offset)
  <2> DEFINE added == rounds * rts_offset
  <2>1. added \in Nat /\ (Len(fwd) = 1 => added = rts_offset)
    <3>1. \A a, b \in Nat : a * b \in Nat /\ 1 * b = b
      OBVIOUS
    <3> QED BY <1>1, <1>8, <3>1
  <2>2. e.shift \in Nat
    BY <1>2 DEF Forwarded
  <2>3. s = e.shift + added
    OBVIOUS
  <2> HIDE DEF s, added, e
  <2> QED BY <2>1, <2>2, <2>3
<1>4. wrote' = [msgs |-> ms, synced |-> synced, clock |-> clock]
  BY <1>7
<1>5. CASE e.typ \in Data
  <2>1. ms = [fwd EXCEPT ![1].shift = s]
    BY <1>5 DEF UpdateHeader
  <2> DEFINE f == [e EXCEPT !.shift = s]
  <2>2. ms = [fwd EXCEPT ![1] = f]
    BY <2>1
  <2>3. /\ f \in Forwarded /\ f.shift = s /\ f.typ = e.typ
    <3> HIDE DEF e, s
    <3> QED BY <1>2, <1>3 DEF Forwarded
  <2> HIDE DEF f, ms, s
  <2>4. /\ ms \in Seq(Forwarded) /\ Len(ms) = Len(fwd)
        /\ \A n \in 1..Len(fwd) : ms[n] = IF n = 1 THEN f ELSE fwd[n]
    BY <1>1, <1>2, <2>2, <2>3, ExceptSeq
  <2>5. ASSUME NEW n \in 1..Len(ms), ms[n].typ = "heartbeat"
        PROVE  ms[n].shift = ms[n].clock
    <3>1. n # 1
      BY <1>5, <2>3, <2>4, <2>5 DEF Data
    <3>2. n \in 1..Len(fwd) /\ ms[n] = fwd[n]
      BY <2>4, <3>1
    <3> QED BY <2>5, <3>2 DEF Shifted
  <2>6. ASSUME NEW n \in 1..Len(ms), Len(ms) = 1, synced
        PROVE  ms[n].shift = clock
    <3>1. n = 1 /\ ms[n] = f /\ Len(fwd) = 1
      BY <1>1, <2>4, <2>6
    <3>2. e.shift = 0 /\ rts_offset = clock
      BY <1>2, <1>5, <2>6 DEF Shifted, Data
    <3> QED BY <1>1, <1>3, <2>3, <3>1, <3>2
  <2>7. wrote'.msgs = ms /\ wrote'.synced = synced /\ wrote'.clock = clock
    BY <1>4
  <2> QED BY <2>4, <2>5, <2>6, <2>7 DEF ShiftedUnlessBatched
<1>6. CASE e.typ \notin Data
  <2>1. ms = fwd
    BY <1>6 DEF UpdateHeader
  <2>2. \A n \in 1..Len(fwd) : fwd[n].typ = "heartbeat" => fwd[n].shift = fwd[n].clock
    BY DEF Shifted
  <2>3. \A n \in 1..Len(fwd) : Len(fwd) = 1 => fwd[n].typ \notin Data
    <3>1. \A n \in 1..Len(fwd) : Len(fwd) = 1 => n = 1
      OBVIOUS
    <3> QED BY <1>6, <3>1
  <2>4. wrote'.msgs = fwd
    BY <1>4, <2>1
  <2> QED BY <1>1, <2>2, <2>3, <2>4 DEF ShiftedUnlessBatched
<1> QED BY <1>5, <1>6

LEMMA ShiftedKept ==
    ASSUME TypeOK, Pending, Buffered, Shifted, Next
    PROVE  Shifted'
<1>1. ts_offset' = clock' /\ (synced' => rts_offset' = clock')
  <2>1. CASE UNCHANGED timeVars
    BY <2>1 DEF Shifted, timeVars
  <2>2. CASE TimeRsp
    BY <2>2 DEF TimeRsp
  <2>3. CASE Connect
    BY <2>3 DEF Connect, Shifted
  <2>4. CASE \/ Takes \/ Receive \/ Junk \/ Raise \/ ReadEnds \/ NotConnected
             \/ ContactRsp \/ CloudLost \/ ModbusReq \/ Poll \/ MbTimeout
    BY <2>1, <2>4 DEF Takes, Receive, Junk, Raise, ReadEnds, NotConnected,
       ContactRsp, CloudLost, ModbusReq, Poll, MbTimeout, Ask
  <2>5. CASE DelRemote
    BY <2>5 DEF DelRemote, Shifted
  <2>6. CASE Writes \/ CloseCb \/ GreetFails \/ GiveUp
    BY <2>1, <2>5, <2>6, WritesShape DEF CloseCb, GreetFails, GiveUp, DrainRaises
  <2> QED BY <2>2, <2>3, <2>4, <2>6, NextSplit DEF Quiet
<1>2. ASSUME NEW n \in 1..Len(fwd')
      PROVE  fwd'[n].shift = IF fwd'[n].typ = "heartbeat" THEN fwd'[n].clock ELSE 0
  <2>1. CASE UNCHANGED fwd
    BY <1>2, <2>1 DEF Shifted
  <2>2. CASE Takes /\ ~UNCHANGED fwd
    <3>1. rx # <<>> /\ fwd' = Append(fwd, Stored) /\ handled' = Append(handled, Msg.id)
      BY <2>2 DEF Takes
    <3>2. /\ Len(fwd') = Len(fwd) + 1 /\ fwd'[Len(fwd) + 1] = Stored
          /\ \A m \in 1..Len(fwd) : fwd'[m] = fwd[m]
          /\ Len(fwd) \in Nat
      BY <3>1, StoreGrows
    <3>3. CASE n \in 1..Len(fwd)
      BY <3>2, <3>3 DEF Shifted
    <3>4. CASE n = Len(fwd) + 1
      BY <3>2, <3>4 DEF Shifted, Stored
    <3> QED BY <1>2, <3>2, <3>3, <3>4
  <2>3. CASE Writes
    <3>1. Len(fwd') = 0 /\ 1..0 = {}
      BY <2>3, WritesShape
    <3> QED BY <1>2, <3>1
  <2>4. Receive \/ Junk \/ Raise \/ Quiet => UNCHANGED fwd
    BY QuietRests DEF Receive, Junk, Raise, fwdVars, Rests
  <2> QED BY <2>1, <2>2, <2>3, <2>4, NextSplit
<1>3. ShiftedUnlessBatched'
  <2>1. CASE Writes
    BY <2>1, UpdateFacts
  <2>2. CASE UNCHANGED wrote
    BY <2>2 DEF ShiftedUnlessBatched, Shifted
  <2>3. CASE Receive
    <3>1. wrote' = NothingWritten
      BY <2>3 DEF Receive
    <3>2. wrote'.msgs = <<>> /\ Len(wrote'.msgs) = 0 /\ 1..0 = {}
      BY <3>1 DEF NothingWritten
    <3> QED BY <3>2 DEF ShiftedUnlessBatched
  <2>4. Takes \/ Junk \/ Raise \/ Quiet => UNCHANGED wrote
    BY QuietRests DEF Takes, Junk, Raise, fwdVars, Rests
  <2> QED BY <2>1, <2>2, <2>3, <2>4, NextSplit
<1> QED BY <1>1, <1>2, <1>3 DEF Shifted

LEMMA PendingKept ==
    ASSUME TypeOK, Pending, Buffered, Next
    PROVE  Pending'
<1>1. CASE Takes
  <2>1. CASE UNCHANGED <<fwd, pc>>
    BY <2>1 DEF Pending
  <2>2. CASE ~UNCHANGED fwd
    <3>1. /\ rx # <<>> /\ fwd' = Append(fwd, Stored)
          /\ handled' = Append(handled, Msg.id) /\ Msg.typ # "contact_info"
      BY <1>1, <2>2 DEF Takes
    <3>2. /\ Len(fwd') = Len(fwd) + 1 /\ fwd'[Len(fwd) + 1] = Stored
          /\ \A n \in 1..Len(fwd) : fwd'[n] = fwd[n]
          /\ Len(fwd) \in Nat /\ fwd' # <<>> /\ Stored.typ = Msg.typ
      BY <3>1, StoreGrows, StoredFacts
    <3>3. ASSUME NEW n \in 1..Len(fwd') PROVE fwd'[n].typ # "contact_info"
      <4>1. n \in 1..Len(fwd) \/ n = Len(fwd) + 1
        BY <3>2
      <4> QED BY <3>1, <3>2, <4>1 DEF Pending
    <3> QED BY <3>2, <3>3 DEF Pending
  <2> QED BY <1>1, <2>1, <2>2 DEF Takes
<1>2. CASE Writes
  <2>1. Len(fwd') = 0 /\ 1..0 = {} /\ pc' \in {"read", "drop"}
    BY <1>2, WritesShape
  <2> QED BY <2>1 DEF Pending
<1>3. CASE UNCHANGED fwd /\ (pc' = pc \/ pc' \notin {"forward", "greeted"})
  BY <1>3 DEF Pending
<1>4. CASE Receive \/ Junk \/ Raise \/ NotConnected
  BY <1>3, <1>4 DEF Receive, Junk, Raise, NotConnected, fwdVars
<1>5. CASE \/ TimeRsp \/ ContactRsp \/ CloudLost \/ CloseCb \/ GreetFails \/ GiveUp
           \/ ModbusReq \/ Poll \/ MbTimeout
  BY <1>3, <1>5 DEF TimeRsp, ContactRsp, CloudLost, CloseCb, GreetFails, GiveUp,
     DrainRaises, ModbusReq, Poll, MbTimeout, Ask, rxVars, fwdVars
<1>6. CASE ReadEnds
  BY <1>6 DEF ReadEnds, fwdVars, Pending
<1>7. CASE Connect
  BY <1>7 DEF Connect, fwdVars, Pending
<1> QED BY <1>1, <1>2, <1>4, <1>5, <1>6, <1>7, NextSplit DEF Quiet

\* The parts of TypeOK by the variables they are about.
RxTypes ==
    /\ rx \in Seq([id : Ids, typ : Kinds]) /\ nmsg \in 0..MaxMsgs
    /\ pc \in {"read", "busy", "forward", "greeted", "drop"} /\ state \in States

AckTypes ==
    acks \in Seq([id : Ids \cup {0}, raised : BOOLEAN]) /\ asked \subseteq Ids

FwdTypes ==
    /\ fwd \in Seq(Forwarded) /\ handled \in Seq(Ids) /\ sent \in Seq(SentRecord)
    /\ wrote.msgs \in Seq(Forwarded)

CloudTypes ==
    /\ mb \in Seq(0..MaxConns) /\ closing \in BOOLEAN
    /\ remote \in 0..nconn /\ nconn \in 0..MaxConns /\ enabled \in BOOLEAN
    /\ {ts_offset, rts_offset, clock} \subseteq Offsets \cup {0}
    /\ synced \in BOOLEAN /\ contacts \in Nat /\ await_conn_resp_cnt \in 0..1

LEMMA TypeParts == TypeOK <=> RxTypes /\ AckTypes /\ FwdTypes /\ CloudTypes
  BY DEF TypeOK, RxTypes, AckTypes, FwdTypes, CloudTypes, States, SentRecord

LEMMA TypeKept ==
    ASSUME TypeOK, Pending, Buffered, Shifted, Answered, Next
    PROVE  TypeOK'
<1>1. RxTypes /\ AckTypes /\ FwdTypes /\ CloudTypes
  BY TypeParts
<1>2. Received \in States
  BY <1>1 DEF RxTypes, Received, States
<1>3. RxTypes'
  <2>1. CASE Takes
    <3>1. rx' \in Seq([id : Ids, typ : Kinds])
      BY <2>1, HeadFacts DEF Takes
    <3> QED BY <1>1, <2>1, <3>1 DEF Takes, RxTypes
  <2>2. CASE Receive
    BY <1>1, <2>2, Arrives DEF Receive, RxTypes
  <2>3. CASE Junk \/ Raise
    <3>1. rx' \in Seq([id : Ids, typ : Kinds])
      BY <1>1, <2>3, EmptySeq DEF RxTypes, Junk, Raise
    <3> QED BY <1>1, <1>2, <2>3, <3>1 DEF RxTypes, Junk, Raise
  <2>4. CASE Writes
    BY <1>1, <2>4, WritesShape DEF RxTypes
  <2>5. CASE ReadEnds \/ Connect \/ NotConnected \/ ContactRsp \/ GreetFails \/ GiveUp
    BY <1>1, <2>5 DEF RxTypes, ReadEnds, Connect, NotConnected, ContactRsp,
       GreetFails, GiveUp, DrainRaises
  <2>6. CASE TimeRsp \/ CloudLost \/ CloseCb \/ ModbusReq \/ Poll \/ MbTimeout
    BY <1>1, <2>6 DEF RxTypes, TimeRsp, CloudLost, CloseCb, ModbusReq, Poll,
       MbTimeout, Ask, rxVars
  <2> QED BY <2>1, <2>2, <2>3, <2>4, <2>5, <2>6, NextSplit DEF Quiet
<1>4. AckTypes'
  <2>1. CASE UNCHANGED <<acks, asked>>
    BY <1>1, <2>1 DEF AckTypes
  <2>2. ASSUME NEW raised \in BOOLEAN, rx # <<>>,
               acks' = Append(acks, [id |-> Msg.id, raised |-> raised]),
               asked' \in {asked, asked \cup {Msg.id}}
        PROVE  AckTypes'
    BY <1>1, <2>2, AckGrows, HeadFacts DEF AckTypes
  <2>3. CASE Takes
    BY <2>1, <2>2, <2>3 DEF Takes
  <2>4. CASE Raise
    BY <2>1, <2>2, <2>4 DEF Raise, Answer
  <2>5. CASE ContactRsp
    <3>1. [id |-> 0, raised |-> FALSE] \in [id : Ids \cup {0}, raised : BOOLEAN]
      OBVIOUS
    <3>2. acks' \in {acks, Append(acks, [id |-> 0, raised |-> FALSE])} /\ asked' = asked
      BY <2>5 DEF ContactRsp
    <3>3. Append(acks, [id |-> 0, raised |-> FALSE])
            \in Seq([id : Ids \cup {0}, raised : BOOLEAN])
      BY <1>1, <3>1, AppendProperties DEF AckTypes
    <3> QED BY <1>1, <3>2, <3>3 DEF AckTypes
  <2>6. Receive \/ Junk \/ Writes => UNCHANGED <<acks, asked>>
    BY WritesShape DEF Receive, Junk
  <2>7. Quiet => UNCHANGED <<acks, asked>> \/ ContactRsp
    BY DEF Quiet, ReadEnds, Connect, NotConnected, TimeRsp, CloudLost, CloseCb,
       GreetFails, GiveUp, ModbusReq, Poll, MbTimeout, Ask, rxVars
  <2> QED BY <2>1, <2>3, <2>4, <2>5, <2>6, <2>7, NextSplit
<1>5. FwdTypes'
  <2>1. CASE UNCHANGED <<fwd, handled, sent, wrote>>
    BY <1>1, <2>1 DEF FwdTypes
  <2>2. CASE Takes
    <3>1. CASE UNCHANGED <<fwd, handled>>
      BY <2>1, <2>2, <3>1 DEF Takes
    <3>2. CASE ~UNCHANGED <<fwd, handled>>
      <4>1. /\ rx # <<>> /\ fwd' = Append(fwd, Stored) /\ handled' = Append(handled, Msg.id)
            /\ UNCHANGED <<sent, wrote>>
        BY <2>2, <3>2 DEF Takes
      <4> QED BY <1>1, <4>1, StoreGrows DEF FwdTypes
    <3> QED BY <3>1, <3>2
  <2>3. CASE Writes
    <3>1. fwd' \in Seq(Forwarded) /\ handled' = handled
      BY <2>3, WritesShape, EmptySeq
    <3>2. PICK lost \in BOOLEAN : WriteAll(lost)
      BY <2>3, WritesShape
    <3>3. sent' \in Seq(SentRecord)
      BY <3>2, WriteGrows
    <3> QED BY <1>1, <2>3, <3>1, <3>3, UpdateFacts DEF FwdTypes
  <2>4. CASE Receive
    <3>1. UNCHANGED <<fwd, handled, sent>> /\ wrote' = NothingWritten
      BY <2>4 DEF Receive
    <3>2. wrote'.msgs \in Seq(Forwarded)
      BY <3>1, EmptySeq DEF NothingWritten
    <3> QED BY <1>1, <3>1, <3>2 DEF FwdTypes
  <2>5. Junk \/ Raise \/ Quiet => UNCHANGED <<fwd, handled, sent, wrote>>
    BY QuietRests DEF Junk, Raise, fwdVars, Rests
  <2> QED BY <2>1, <2>2, <2>3, <2>4, <2>5, NextSplit
<1>6. CloudTypes'
  <2>1. CASE UNCHANGED <<mb, timeVars, cloudVars>>
    BY <1>1, <2>1 DEF CloudTypes, timeVars, cloudVars, greetVars
  <2>2. CASE Takes
    BY <1>1, <2>2 DEF CloudTypes, Takes, timeVars, cloudVars, greetVars
  <2>3. CASE Receive \/ Junk \/ Raise \/ ReadEnds \/ NotConnected
    BY <2>1, <2>3 DEF Receive, Junk, Raise, ReadEnds, NotConnected
  <2>4. ASSUME UNCHANGED <<mb, nconn, enabled>>, closing' \in BOOLEAN,
               UNCHANGED <<remote, timeVars, await_conn_resp_cnt>>, contacts' \in Nat
        PROVE  CloudTypes'
    BY <1>1, <2>4 DEF CloudTypes, timeVars
  <2>5. ASSUME UNCHANGED <<mb, nconn, enabled>>, DelRemote PROVE CloudTypes'
    <3>1. remote' \in 0..nconn' /\ nconn' \in 0..MaxConns
      BY <1>1, <2>5, BoundsAssumption DEF DelRemote, CloudTypes
    <3>2. /\ {ts_offset', rts_offset', clock'} \subseteq Offsets \cup {0}
          /\ contacts' \in Nat /\ await_conn_resp_cnt' \in 0..1
      BY <1>1, <2>5 DEF DelRemote, CloudTypes
    <3>3. closing' = FALSE /\ synced' = FALSE
      BY <2>5 DEF DelRemote
    <3>4. closing' \in BOOLEAN /\ synced' \in BOOLEAN
      BY <3>3, Zenon
    <3> QED BY <1>1, <2>5, <3>1, <3>2, <3>4 DEF CloudTypes
  <2>6. CASE Writes
    <3>1. contacts \in Nat /\ contacts + 0 = contacts /\ Contacts(fwd) = 0
      BY <1>1, NoContacts DEF CloudTypes
    <3>2. closing \in BOOLEAN /\ TRUE \in BOOLEAN
      BY <1>1 DEF CloudTypes
    <3> QED BY <2>4, <2>5, <2>6, <3>1, <3>2, WritesShape DEF greetVars
  <2>7. CASE Connect
    <3>1. nconn' \in 0..MaxConns /\ remote' \in 0..nconn'
      BY <1>1, <2>7, BoundsAssumption DEF Connect, CloudTypes
    <3>2. enabled' \in BOOLEAN
      BY <1>1, <2>7 DEF Connect, CloudTypes
    <3>3. /\ ts_offset' = ts_offset /\ rts_offset' = 0 /\ clock' = clock
          /\ synced' = FALSE /\ closing' = FALSE
          /\ contacts' = 1 /\ await_conn_resp_cnt' = 1 /\ mb' = mb
      BY <2>7 DEF Connect, Greet, NewOffset
    <3>5. contacts' \in Nat /\ await_conn_resp_cnt' \in 0..1
      BY <3>3
    <3>6. synced' \in BOOLEAN /\ closing' \in BOOLEAN
      BY <3>3, Zenon
    <3>4. {ts_offset', rts_offset', clock'} \subseteq Offsets \cup {0}
      BY <1>1, <3>3 DEF CloudTypes
    <3> QED BY <1>1, <3>1, <3>2, <3>3, <3>4, <3>5, <3>6 DEF CloudTypes
  <2>8. CASE TimeRsp
    BY <1>1, <2>8 DEF CloudTypes, TimeRsp, cloudVars, greetVars
  <2>9. CASE ContactRsp
    <3>1. contacts' \in Nat /\ await_conn_resp_cnt' \in 0..1
      BY <1>1, <2>9 DEF ContactRsp, CloudTypes
    <3> QED BY <1>1, <2>9, <3>1 DEF CloudTypes, ContactRsp, timeVars
  <2>10. CASE CloudLost
    <3>1. contacts \in Nat /\ TRUE \in BOOLEAN
      BY <1>1 DEF CloudTypes
    <3> QED BY <2>4, <2>10, <3>1 DEF CloudLost, greetVars
  <2>11. CASE CloseCb \/ GreetFails \/ GiveUp
    <3>1. contacts \in Nat /\ TRUE \in BOOLEAN
      BY <1>1 DEF CloudTypes
    <3> QED BY <2>4, <2>5, <2>11, <3>1 DEF CloseCb, GreetFails, GiveUp, DrainRaises, greetVars
  <2>12. ASSUME NEW who \in 0..MaxConns, Ask(who) PROVE CloudTypes'
    <3>1. mb' \in Seq(0..MaxConns)
      BY <1>1, <2>12, AppendProperties DEF Ask, CloudTypes
    <3> QED BY <1>1, <2>12, <3>1 DEF CloudTypes, Ask, timeVars, cloudVars, greetVars
  <2>13. remote \in 0..MaxConns /\ 0 \in 0..MaxConns
    BY <1>1, BoundsAssumption DEF CloudTypes
  <2>14. CASE MbTimeout
    <3>1. mb' \in Seq(0..MaxConns)
      BY <1>1, <2>14, HeadTailProperties DEF MbTimeout, CloudTypes
    <3> QED BY <1>1, <2>14, <3>1 DEF CloudTypes, MbTimeout, timeVars, cloudVars, greetVars
  <2> QED BY <2>2, <2>3, <2>6, <2>7, <2>8, <2>9, <2>10, <2>11, <2>12, <2>13, <2>14,
             NextSplit DEF Quiet, ModbusReq, Poll
<1>7. (RxTypes /\ AckTypes /\ FwdTypes /\ CloudTypes)' <=> TypeOK'
  BY DEF TypeOK, RxTypes, AckTypes, FwdTypes, CloudTypes, States, SentRecord
<1> QED BY <1>3, <1>4, <1>5, <1>6, <1>7

-----------------------------------------------------------------------------
(* Talent: the theorems.                                                   *)

LEMMA TalentInit == Init => TalentInv
<1> SUFFICES ASSUME Init PROVE TalentInv
  OBVIOUS
<1>1. /\ rx = <<>> /\ nmsg = 0 /\ pc = "read" /\ fwd = <<>> /\ handled = <<>>
      /\ sent = <<>> /\ acks = <<>> /\ wrote.msgs = <<>> /\ mb = <<>> /\ asked = {}
  BY DEF Init, NothingWritten
<1>2. /\ Len(rx) = 0 /\ Len(fwd) = 0 /\ Len(handled) = 0 /\ Len(sent) = 0
      /\ Len(acks) = 0 /\ Len(wrote.msgs) = 0 /\ 1..0 = {} /\ 1..(0 - 1) = {}
  BY <1>1
<1>3. TypeOK
  <2>1. RxTypes
    BY <1>1, EmptySeq, BoundsAssumption DEF Init, RxTypes, States
  <2>2. AckTypes
    BY <1>1, EmptySeq DEF AckTypes
  <2>3. FwdTypes
    BY <1>1, EmptySeq DEF FwdTypes
  <2>4. mb \in Seq(0..MaxConns)
    BY <1>1, EmptySeq
  <2>5. CloudTypes
    <3>1. {ts_offset, rts_offset, clock} \subseteq Offsets \cup {0}
      BY DEF Init
    <3>2. nconn \in 0..MaxConns /\ remote \in 0..nconn
      BY BoundsAssumption DEF Init
    <3>4. /\ enabled = TRUE /\ synced = FALSE /\ closing = FALSE
          /\ contacts = 0 /\ await_conn_resp_cnt = 0
      BY DEF Init
    <3>3. contacts \in Nat /\ await_conn_resp_cnt \in 0..1
      BY <3>4
    <3>5. enabled \in BOOLEAN /\ synced \in BOOLEAN /\ closing \in BOOLEAN
      BY <3>4, Zenon
    <3> QED BY <2>4, <3>1, <3>2, <3>3, <3>5 DEF CloudTypes
  <2> QED BY <2>1, <2>2, <2>3, <2>5, TypeParts
<1>4. Pending /\ Buffered
  BY <1>1, <1>2 DEF Pending, Buffered, Gone
<1>5. Ordered /\ Delivered
  BY <1>2 DEF Ordered, Delivered
<1>6. Answered
  BY <1>1, <1>2 DEF Init, Answered, AnsweredOnce
<1>7. Shifted
  BY <1>2 DEF Init, Shifted, ShiftedUnlessBatched
<1> QED BY <1>3, <1>4, <1>5, <1>6, <1>7 DEF TalentInv

LEMMA TalentStep == TalentInv /\ [Next]_vars => TalentInv'
<1> SUFFICES ASSUME TalentInv, [Next]_vars PROVE TalentInv'
  OBVIOUS
<1>1. TypeOK /\ Pending /\ Buffered /\ Ordered /\ Delivered /\ Answered /\ Shifted
  BY DEF TalentInv
<1>2. CASE Next
  BY <1>1, <1>2, TypeKept, PendingKept, BufferedKept, OrderedKept, DeliveredKept,
     AnsweredKept, ShiftedKept DEF TalentInv
<1>3. CASE UNCHANGED vars
  <2>1. /\ UNCHANGED <<rx, nmsg, pc, state, acks, asked, mb, fwd, handled, sent, wrote>>
        /\ UNCHANGED <<ts_offset, rts_offset, synced, clock, remote, closing, nconn,
                       enabled, await_conn_resp_cnt, contacts>>
    BY <1>3 DEF vars, rxVars, timeVars, fwdVars, cloudVars, greetVars
  <2>2. TypeOK' /\ Pending' /\ Buffered'
    BY <1>1, <2>1 DEF TypeOK, Pending, Buffered, Gone
  <2>3. Ordered' /\ Delivered' /\ Answered'
    BY <1>1, <2>1 DEF Ordered, Delivered, Answered, Gone, AnsweredOnce
  <2>4. Shifted'
    BY <1>1, <2>1 DEF Shifted, ShiftedUnlessBatched
  <2> QED BY <2>2, <2>3, <2>4 DEF TalentInv
<1> QED BY <1>2, <1>3

(* The whole of the inductive invariant of the GEN3 protocol: what waits in *)
(* the receive buffer, what has left it and where it went, the greetings    *)
(* the cloud has not answered, and the offsets (class Talent).              *)
THEOREM TalentInvariant == Spec => []TalentInv
  BY TalentInit, TalentStep, PTL DEF Spec

(* The buffers, the counters and the offsets of a GEN3 connection keep      *)
(* their types.                                                             *)
THEOREM TalentTypeCorrect == Spec => []TypeOK
<1>1. TalentInv => TypeOK
  BY DEF TalentInv
<1> QED BY TalentInvariant, <1>1, PTL

(* The timestamps: a heartbeat carries the offset that was valid when it    *)
(* was handled, and data that are written alone on a connection that has    *)
(* answered a get_time the offset of the last answer, once.                 *)
THEOREM ShiftCorrect == Spec => []ShiftedUnlessBatched
<1>1. TalentInv => ShiftedUnlessBatched
  BY DEF TalentInv, Shifted
<1> QED BY TalentInvariant, <1>1, PTL

(* What was handled is written to the cloud in that order and once each, or *)
(* waits in the buffer; it is lost only as the last of what is written to a *)
(* connection, while that one ends (AsyncStreamServer._async_forward).      *)
THEOREM ForwardCorrect == Spec => []ForwardedOnce
<1>1. TalentInv => ForwardedOnce
  <2> SUFFICES ASSUME TalentInv PROVE ForwardedOnce
    OBVIOUS
  <2>1. TypeOK /\ Ordered /\ Delivered
    BY DEF TalentInv
  <2> DEFINE v == [i \in 1..Len(sent) |-> sent[i].id]
             t == [i \in 1..Len(fwd) |-> fwd[i].id]
             w == v \o t
  <2>2. /\ sent \in Seq(SentRecord) /\ handled \in Seq(Ids) /\ Len(fwd) \in Nat
        /\ Len(sent) \in Nat
    BY <2>1 DEF TypeOK, SentRecord
  <2>9. v \in Seq(Ids) /\ Len(v) = Len(sent)
    <3>1. \A i \in 1..Len(sent) : sent[i].id \in Ids
      <4>1. \A i \in 1..Len(sent) : sent[i] \in SentRecord
        BY <2>2, ElementOfSeq
      <4> QED BY <4>1 DEF SentRecord
    <3>2. v \in [1..Len(sent) -> Ids] /\ Len(sent) \in Nat
      BY <2>2, <3>1
    <3> HIDE DEF v
    <3> QED BY <3>2
  <2>10. \A i \in 1..Len(sent) : v[i] = sent[i].id
    OBVIOUS
  <2>3. t \in Seq(Ids) /\ Len(t) = Len(fwd)
    <3>1. \A i \in 1..Len(fwd) : fwd[i].id \in Ids
      BY <2>1, TypeFacts DEF Forwarded
    <3>2. t \in [1..Len(fwd) -> Ids] /\ Len(fwd) \in Nat
      BY <2>2, <3>1
    <3> HIDE DEF t
    <3> QED BY <3>2
  <2>4. \A i \in 1..Len(fwd) : t[i] = fwd[i].id
    OBVIOUS
  <2> HIDE DEF v, t
  <2>5. /\ w \in Seq(Ids) /\ Len(w) = Len(sent) + Len(t)
        /\ \A n \in 1..(Len(sent) + Len(t)) :
              w[n] = IF n <= Len(sent) THEN v[n] ELSE t[n - Len(sent)]
    <3>1. /\ w \in Seq(Ids) /\ Len(w) = Len(v) + Len(t)
          /\ \A n \in 1..(Len(v) + Len(t)) :
                w[n] = IF n <= Len(v) THEN v[n] ELSE t[n - Len(v)]
      BY <2>3, <2>9, ConcatProperties
    <3> HIDE DEF w
    <3> QED BY <2>9, <3>1
  <2> HIDE DEF w
  <2>6. Len(w) = Len(handled)
    BY <2>1, <2>3, <2>5 DEF Ordered
  <2>7. ASSUME NEW n \in 1..Len(w) PROVE w[n] = handled[n]
    <3>1. CASE n <= Len(sent)
      <4>1. n \in 1..Len(sent) /\ w[n] = v[n]
        BY <2>2, <2>3, <2>5, <3>1
      <4> QED BY <2>1, <2>10, <4>1 DEF Ordered
    <3>2. CASE ~(n <= Len(sent))
      <4> DEFINE k == n - Len(sent)
      <4>1. n \in 1..(Len(sent) + Len(fwd)) /\ Len(t) = Len(fwd)
        BY <2>2, <2>3, <2>5
      <4>2. k \in 1..Len(fwd) /\ Len(sent) + k = n
        BY <2>2, <3>2, <4>1
      <4>3. w[n] = t[k]
        BY <2>5, <3>2, <4>1
      <4> HIDE DEF k
      <4>4. handled[Len(sent) + k] = fwd[k].id
        BY <2>1, <4>2 DEF Ordered
      <4> QED BY <2>4, <4>2, <4>3, <4>4
    <3> QED BY <3>1, <3>2
  <2>8. w = handled
    BY <2>2, <2>5, <2>6, <2>7, SeqEqual
  <2> QED BY <2>1, <2>8 DEF ForwardedOnce, Ordered, Delivered, w, v, t
<1> QED BY TalentInvariant, <1>1, PTL

(* The messages that ask for an answer and were handled have one each, in   *)
(* their order, nothing else has one, and a message is answered twice only  *)
(* where its handler raised behind the answer (class Talent).               *)
THEOREM AnswerCorrect == Spec => []AnsweredOnce
<1>1. TalentInv => AnsweredOnce
  BY DEF TalentInv, Answered
<1> QED BY TalentInvariant, <1>1, PTL

-----------------------------------------------------------------------------
(* DailyReset: the invariant.                                              *)

Shown == [val : 0..MaxVal, day : 0..MaxDays, over : BOOLEAN]

DailyTypes == DailyTypeOK /\ broker \in [Inverters -> Shown]

\* A value of today is at most what the inverter has; what a connection knows
\* of a day is at least what Home Assistant has of it, and it knows nothing
\* older than that.
Grown(i) ==
    /\ broker[i].day = day => broker[i].val <= real[i]
    /\ db[i].val # Absent =>
          /\ db[i].val > 0 /\ db[i].day <= day
          /\ db[i].day = day => db[i].val <= real[i]
          /\ db[i].day = broker[i].day => db[i].val >= broker[i].val
          /\ broker[i].val > 0 => db[i].day >= broker[i].day

\* A connection that was not open while atmidnight ran has its counter in
\* ClrAtMidnight before it sends a value, and its values are of today.
Cleared(i) ==
    /\ mid # 0 /\ conn[i] # "off" => i \in over
    /\ conn[i] \in {"idle", "val"} => i \in Topics \/ i \in over
    /\ conn[i] # "off" /\ db[i].val # Absent /\ i \notin over =>
          db[i].day = day
    /\ broker[i].val > 0 => i \in Topics \/ broker[i].over
    /\ mid = 0 /\ broker[i].val > 0 /\ broker[i].day < day =>
          broker[i].over \/ i \in failed

\* The entries up to the one atmidnight is at.
Zeroed ==
    \A n \in 1..mid : broker[clr[n]].val = 0 \/ broker[clr[n]].over

DailyInv ==
    /\ DailyTypes
    /\ \A i \in Inverters : Grown(i)
    /\ \A i \in Inverters : Cleared(i)
    /\ Zeroed

LEMMA DailyFacts ==
    ASSUME DailyTypes
    PROVE  /\ day \in Nat /\ Len(clr) \in Nat /\ mid \in 0..Len(clr)
           /\ MaxVal \in Nat /\ MaxDays \in Nat
           /\ clr \in Seq(Inverters) /\ Topics \subseteq Inverters
           /\ \A n \in 1..Len(clr) : clr[n] \in Inverters /\ clr[n] \in Topics
           /\ \A i \in Inverters :
                 /\ real[i] \in 0..MaxVal /\ db[i] \in Value(Absent)
                 /\ db[i].val \in Int /\ db[i].day \in Nat
                 /\ broker[i] \in Shown /\ broker[i].val \in Nat
                 /\ broker[i].day \in Nat /\ broker[i].day <= day
<1>1. /\ MaxVal \in Nat /\ MaxDays \in Nat /\ day \in 0..MaxDays
      /\ clr \in Seq(Inverters) /\ mid \in 0..Len(clr)
  BY DailyBoundsAssumption DEF DailyTypes, DailyTypeOK
<1>2. \A n \in 1..Len(clr) : clr[n] \in Inverters
  BY <1>1, ElementOfSeq
<1>3. Topics \subseteq Inverters /\ \A n \in 1..Len(clr) : clr[n] \in Topics
  BY <1>2 DEF Topics
<1>4. ASSUME NEW i \in Inverters
      PROVE  /\ real[i] \in 0..MaxVal /\ db[i] \in Value(Absent)
             /\ broker[i] \in Shown /\ broker[i].day \in 0..day
  BY <1>4 DEF DailyTypes, DailyTypeOK
<1>5. \A d \in Value(Absent) : d.val \in Int /\ d.day \in Nat
  BY <1>1 DEF Value, Absent
<1>6. \A b \in Shown : b.val \in Nat /\ b.day \in Nat
  BY <1>1 DEF Shown
<1> QED BY <1>1, <1>2, <1>3, <1>4, <1>5, <1>6

-----------------------------------------------------------------------------
(* DailyReset: what the steps do.                                          *)

\* A message leaves the data base alone or stores the inverter's counter.
LEMMA MessageShape ==
    ASSUME DailyTypes, NEW i \in Inverters, Grown(i), Message(i)
    PROVE  /\ conn[i] \in {"new", "idle"}
           /\ UNCHANGED <<day, real, clr, mid, size, failed, broker, over, conns>>
           /\ \/ db' = db
              \/ /\ real[i] > 0 /\ (db[i].val # Absent => db[i].val < real[i])
                 /\ db' = [db EXCEPT ![i] = [val |-> real[i], day |-> day]]
           /\ \/ conn' = [conn EXCEPT ![i] = "reg"]
              \/ conn' = [conn EXCEPT ![i] = "regval"]
              \/ /\ conn[i] = "idle"
                 /\ \/ conn' = [conn EXCEPT ![i] = "val"]
                    \/ conn' = [conn EXCEPT ![i] = "idle"]
<1>1. /\ real[i] \in Nat /\ db[i].val \in Int /\ (db[i].val # Absent => db[i].val > 0)
  BY DailyFacts DEF Grown
<1>2. /\ conn[i] \in {"new", "idle"}
      /\ UNCHANGED <<day, real, clr, mid, size, failed, broker, over, conns>>
  BY DEF Message, midVars
<1>3. PICK v \in {0, real[i]} : \E register, other \in BOOLEAN :
          LET send == Updates(db[i], v) \/ other
              reg == register \/ conn[i] = "new"
          IN  /\ db' = Parse(i, v)
              /\ Goto(i, IF send THEN IF reg THEN "regval" ELSE "val"
                          ELSE IF reg THEN "reg" ELSE "idle")
  BY DEF Message
<1>4. PICK register \in BOOLEAN, other \in BOOLEAN :
        /\ db' = Parse(i, v)
        /\ Goto(i, IF Updates(db[i], v) \/ other
                   THEN IF register \/ conn[i] = "new" THEN "regval" ELSE "val"
                   ELSE IF register \/ conn[i] = "new" THEN "reg" ELSE "idle")
  BY <1>3
<1>5. \/ db' = db
      \/ /\ real[i] > 0 /\ (db[i].val # Absent => db[i].val < real[i])
         /\ db' = [db EXCEPT ![i] = [val |-> real[i], day |-> day]]
  <2>1. CASE Updates(db[i], v)
    <3>1. v = real[i] /\ v > 0 /\ (db[i].val # Absent => db[i].val < v)
      BY <1>1, <2>1 DEF Updates
    <3> QED BY <1>4, <2>1, <3>1 DEF Parse
  <2>2. CASE ~Updates(db[i], v)
    BY <1>4, <2>2 DEF Parse
  <2> QED BY <2>1, <2>2
<1>6. \/ conn' = [conn EXCEPT ![i] = "reg"]
      \/ conn' = [conn EXCEPT ![i] = "regval"]
      \/ /\ conn[i] = "idle"
         /\ \/ conn' = [conn EXCEPT ![i] = "val"]
            \/ conn' = [conn EXCEPT ![i] = "idle"]
  BY <1>2, <1>4 DEF Goto
<1> QED BY <1>2, <1>5, <1>6

\* ClrAtMidnight.add keeps the entries that are there.
LEMMA AddFacts ==
    ASSUME DailyTypes, NEW i \in Inverters, clr' = Add(i)
    PROVE  /\ clr' \in Seq(Inverters) /\ Len(clr') \in Nat /\ Len(clr) <= Len(clr')
           /\ \A n, k \in 1..Len(clr') : clr'[n] = clr'[k] => n = k
           /\ \A n \in 1..Len(clr) : clr'[n] = clr[n]
           /\ Topics \subseteq Topics' /\ i \in Topics'
<1>1. /\ clr \in Seq(Inverters) /\ Len(clr) \in Nat
      /\ \A n, k \in 1..Len(clr) : clr[n] = clr[k] => n = k
  BY DEF DailyTypes, DailyTypeOK
<1>2. CASE i \in Topics
  BY <1>1, <1>2 DEF Add, Topics
<1>3. CASE i \notin Topics
  <2>1. clr' = Append(clr, i)
    BY <1>3 DEF Add
  <2>2. /\ clr' \in Seq(Inverters) /\ Len(clr') = Len(clr) + 1
        /\ \A n \in 1..Len(clr) : clr'[n] = clr[n]
        /\ clr'[Len(clr) + 1] = i
    BY <1>1, <2>1, AppendProperties
  <2>3. \A n \in 1..Len(clr') : n \in 1..Len(clr) \/ n = Len(clr) + 1
    BY <1>1, <2>2
  <2>4. \A n \in 1..Len(clr) : n \in 1..Len(clr') /\ clr[n] # i
    BY <1>1, <1>3, <2>2 DEF Topics
  <2>5. \A n, k \in 1..Len(clr') : clr'[n] = clr'[k] => n = k
    BY <1>1, <2>2, <2>3, <2>4
  <2>6. Len(clr) + 1 \in 1..Len(clr')
    BY <1>1, <2>2
  <2> QED BY <1>1, <2>2, <2>4, <2>5, <2>6 DEF Topics
<1> QED BY <1>2, <1>3

\* One round of the loop in atmidnight: the entry n is set to zero; or the
\* loop is left with the entries from n on; or all entries are done.
Zeroes(n) ==
    /\ n \in 1..Len(clr) /\ mid' = n /\ size' \in 0..Len(clr)
    /\ broker' = [broker EXCEPT ![clr[n]] = [val |-> 0, day |-> day', over |-> FALSE]]
    /\ UNCHANGED <<clr, failed>>

Breaks(n) ==
    /\ failed' = {clr[k] : k \in n..Len(clr)} /\ mid' = 0 /\ size' = 0
    /\ UNCHANGED <<clr, broker>>

Ends ==
    /\ clr' = <<>> /\ failed' = {} /\ mid' = 0 /\ size' = 0 /\ UNCHANGED broker

LEMMA MidnightShape ==
    ASSUME DailyTypes, Midnight
    PROVE  /\ mid = 0 /\ day' = day + 1 /\ day' \in 0..MaxDays
           /\ real' = [i \in Inverters |-> 0] /\ over' = over \cup Connected
           /\ UNCHANGED <<conn, db, conns>>
           /\ Zeroes(1) \/ Breaks(1) \/ (Len(clr) = 0 /\ Ends)
<1>1. /\ mid = 0 /\ day < MaxDays /\ day' = day + 1
      /\ real' = [i \in Inverters |-> 0] /\ over' = over \cup Connected
      /\ UNCHANGED <<conn, db, conns>> /\ Step(1, Len(clr), day')
  BY DEF Midnight
<1>2. Len(clr) \in Nat /\ day \in Nat /\ MaxDays \in Nat
  BY DailyFacts
<1>3. CASE 1 <= Len(clr)
  BY <1>1, <1>2, <1>3 DEF Step, Zeroes, Breaks
<1>4. CASE ~(1 <= Len(clr))
  BY <1>1, <1>2, <1>4 DEF Step, Ends
<1> QED BY <1>1, <1>2, <1>3, <1>4

LEMMA ContinueShape ==
    ASSUME DailyTypes, Continue
    PROVE  /\ mid # 0 /\ mid \in Nat /\ UNCHANGED <<day, real, conn, db, over, conns>>
           /\ Zeroes(mid + 1) \/ Breaks(mid + 1) \/ (mid = Len(clr) /\ Ends)
<1>1. /\ mid # 0 /\ UNCHANGED <<day, real, conn, db, over, conns>>
      /\ IF Len(clr) = size THEN Step(mid + 1, size, day) ELSE Breaks(mid + 1)
  BY DEF Continue, Breaks
<1>2. Len(clr) \in Nat /\ mid \in 0..Len(clr)
  BY DailyFacts
<1>3. CASE Len(clr) = size /\ mid + 1 <= Len(clr)
  BY <1>1, <1>2, <1>3 DEF Step, Zeroes, Breaks
<1>4. CASE Len(clr) = size /\ ~(mid + 1 <= Len(clr))
  BY <1>1, <1>2, <1>4 DEF Step, Ends
<1> QED BY <1>1, <1>2, <1>3, <1>4

\* What a connection sends is not less than what was sent that day.
LEMMA PublishShape ==
    ASSUME DailyTypes, NEW i \in Inverters, Publish(i)
    PROVE  /\ conn[i] = "val" /\ conn' = [conn EXCEPT ![i] = "idle"]
           /\ UNCHANGED <<day, real, db, clr, mid, size, failed, over, conns>>
           /\ \/ broker' = broker
              \/ /\ db[i].val # Absent
                 /\ broker' = [broker EXCEPT ![i] =
                        [val |-> db[i].val, day |-> db[i].day, over |-> i \in over]]
  BY DEF Publish, Goto, midVars

-----------------------------------------------------------------------------
(* DailyReset: the parts of the invariant.                                 *)

LEMMA Functions ==
    ASSUME DailyTypes
    PROVE  /\ real \in [Inverters -> 0..MaxVal]
           /\ conn \in [Inverters -> {"off", "new", "idle", "reg", "regval", "val"}]
           /\ db \in [Inverters -> Value(Absent)]
           /\ broker \in [Inverters -> Shown]
  BY DEF DailyTypes, DailyTypeOK

\* The entry that is set to zero.
LEMMA ZeroFacts ==
    ASSUME DailyTypes, NEW n, Zeroes(n)
    PROVE  /\ clr[n] \in Inverters
           /\ \A j \in Inverters :
                 \/ broker'[j] = broker[j] /\ j # clr[n]
                 \/ j = clr[n] /\ broker'[j] = [val |-> 0, day |-> day', over |-> FALSE]
<1>1. clr[n] \in Inverters
  BY DailyFacts DEF Zeroes
<1> QED BY <1>1, Functions DEF Zeroes

LEMMA GrownKept ==
    ASSUME DailyTypes, \A k \in Inverters : Grown(k), DailyNext,
           NEW j \in Inverters
    PROVE  Grown(j)'
<1>1. /\ Grown(j) /\ day \in Nat /\ real[j] \in Nat /\ db[j].val \in Int
      /\ db[j].day \in Nat /\ broker[j].val \in Nat /\ broker[j].day \in Nat
      /\ broker[j].day <= day
  BY DailyFacts
<1>2. ASSUME NEW i \in Inverters, Produce(i) PROVE Grown(j)'
  <2>1. /\ real' = [real EXCEPT ![i] = @ + 1] /\ UNCHANGED <<day, db, broker>>
    BY <1>2 DEF Produce
  <2>2. real'[j] = real[j] \/ real'[j] = real[j] + 1
    BY <2>1, Functions
  <2> QED BY <1>1, <2>1, <2>2 DEF Grown
<1>3. ASSUME NEW i \in Inverters, Open(i) \/ Disconnect(i) PROVE Grown(j)'
  <2>1. /\ db' = [db EXCEPT ![i] = NoValue] /\ UNCHANGED <<day, real, broker>>
    BY <1>3 DEF Open, Disconnect
  <2>2. db'[j] = db[j] \/ db'[j] = NoValue
    BY <2>1, Functions
  <2> QED BY <1>1, <2>1, <2>2 DEF Grown, NoValue
<1>4. ASSUME NEW i \in Inverters, Register(i) PROVE Grown(j)'
  <2>1. UNCHANGED <<day, real, db, broker>>
    BY <1>4 DEF Register
  <2> QED BY <1>1, <2>1 DEF Grown
<1>5. ASSUME NEW i \in Inverters, Message(i) PROVE Grown(j)'
  <2>1. /\ UNCHANGED <<day, real, broker>>
        /\ \/ db' = db
           \/ /\ real[i] > 0 /\ (db[i].val # Absent => db[i].val < real[i])
              /\ db' = [db EXCEPT ![i] = [val |-> real[i], day |-> day]]
    BY <1>5, MessageShape
  <2>2. CASE db'[j] = db[j]
    BY <1>1, <2>1, <2>2 DEF Grown
  <2>3. CASE db'[j] # db[j]
    <3>1. j = i /\ real[i] > 0 /\ db'[j] = [val |-> real[j], day |-> day]
      BY <2>1, <2>3, Functions
    <3>2. db'[j].val = real[j] /\ db'[j].day = day
      BY <3>1
    <3> QED BY <1>1, <2>1, <3>1, <3>2 DEF Grown
  <2> QED BY <2>2, <2>3
<1>6. ASSUME NEW i \in Inverters, Publish(i) PROVE Grown(j)'
  <2>1. /\ UNCHANGED <<day, real, db>>
        /\ \/ broker' = broker
           \/ /\ db[i].val # Absent
              /\ broker' = [broker EXCEPT ![i] =
                     [val |-> db[i].val, day |-> db[i].day, over |-> i \in over]]
    BY <1>6, PublishShape
  <2>2. CASE broker'[j] = broker[j]
    BY <1>1, <2>1, <2>2 DEF Grown
  <2>3. CASE broker'[j] # broker[j]
    <3>1. /\ j = i /\ db[j].val # Absent
          /\ broker'[j] = [val |-> db[j].val, day |-> db[j].day, over |-> i \in over]
      BY <2>1, <2>3, Functions
    <3>2. broker'[j].val = db[j].val /\ broker'[j].day = db[j].day
      BY <3>1
    <3> QED BY <1>1, <2>1, <3>1, <3>2 DEF Grown
  <2> QED BY <2>2, <2>3
<1>7. ASSUME NEW n, Zeroes(n), UNCHANGED db,
             \/ UNCHANGED <<day, real>>
             \/ day' = day + 1 /\ real'[j] = 0
      PROVE  Grown(j)'
  <2>1. real'[j] \in Nat /\ day' \in Nat /\ day' >= day
    BY <1>1, <1>7
  <2>2. CASE broker'[j] = broker[j]
    BY <1>1, <1>7, <2>2 DEF Grown
  <2>3. CASE broker'[j] = [val |-> 0, day |-> day', over |-> FALSE]
    <3>1. broker'[j].val = 0 /\ broker'[j].day = day'
      BY <2>3
    <3> QED BY <1>1, <1>7, <2>1, <3>1 DEF Grown
  <2> QED BY <1>7, <2>2, <2>3, ZeroFacts
<1>8. ASSUME UNCHANGED <<broker, db>>,
             \/ UNCHANGED <<day, real>>
             \/ day' = day + 1 /\ real'[j] = 0
      PROVE  Grown(j)'
  BY <1>1, <1>8 DEF Grown
<1>9. CASE Midnight
  <2>1. real'[j] = 0
    BY <1>9, MidnightShape
  <2> QED BY <1>7, <1>8, <1>9, <2>1, MidnightShape DEF Breaks, Ends
<1>10. CASE Continue
  BY <1>7, <1>8, <1>10, ContinueShape DEF Breaks, Ends
<1> QED BY <1>2, <1>3, <1>4, <1>5, <1>6, <1>9, <1>10 DEF DailyNext

LEMMA ZeroedKept ==
    ASSUME DailyTypes, Zeroed, \A k \in Inverters : Cleared(k), DailyNext
    PROVE  Zeroed'
<1>1. Len(clr) \in Nat /\ mid \in 0..Len(clr)
  BY DailyFacts
<1>2. CASE UNCHANGED <<mid, clr, broker>>
  BY <1>2 DEF Zeroed
<1>3. ASSUME NEW i \in Inverters, Produce(i) \/ Open(i) \/ Disconnect(i)
      PROVE  Zeroed'
  BY <1>2, <1>3 DEF Produce, Open, Disconnect, midVars
<1>4. ASSUME NEW i \in Inverters, Message(i) PROVE Zeroed'
  BY <1>2, <1>4 DEF Message, midVars
<1>5. ASSUME NEW i \in Inverters, Register(i) PROVE Zeroed'
  <2>1. clr' = Add(i) /\ UNCHANGED <<mid, broker>>
    BY <1>5 DEF Register
  <2>2. \A n \in 1..mid : clr'[n] = clr[n]
    BY <1>1, <2>1, AddFacts
  <2> QED BY <2>1, <2>2 DEF Zeroed
<1>6. ASSUME NEW i \in Inverters, Publish(i) PROVE Zeroed'
  <2>1. /\ conn[i] = "val" /\ UNCHANGED <<mid, clr, over>>
        /\ \/ broker' = broker
           \/ broker' = [broker EXCEPT ![i] =
                 [val |-> db[i].val, day |-> db[i].day, over |-> i \in over]]
    BY <1>6, PublishShape
  <2>2. ASSUME NEW n \in 1..mid
        PROVE  broker'[clr[n]].val = 0 \/ broker'[clr[n]].over
    <3>1. n \in 1..Len(clr) /\ mid # 0
      BY <1>1
    <3>2. clr[n] \in Inverters /\ i \in over
      BY <2>1, <3>1, DailyFacts DEF Cleared
    <3>3. broker'[clr[n]] = broker[clr[n]] \/ broker'[clr[n]].over
      <4>1. CASE broker' = broker
        BY <4>1
      <4>2. CASE broker' = [broker EXCEPT ![i] =
                 [val |-> db[i].val, day |-> db[i].day, over |-> i \in over]]
        BY <3>2, <4>2, Functions
      <4> QED BY <2>1, <4>1, <4>2
    <3> QED BY <3>3 DEF Zeroed
  <2> QED BY <2>1, <2>2 DEF Zeroed
<1>7. ASSUME NEW n \in Nat, Zeroes(n), n = mid + 1 PROVE Zeroed'
  <2>1. mid' = n /\ UNCHANGED clr /\ n \in 1..Len(clr)
    BY <1>7 DEF Zeroes
  <2>2. ASSUME NEW k \in 1..n
        PROVE  broker'[clr[k]].val = 0 \/ broker'[clr[k]].over
    <3>1. k \in 1..Len(clr) /\ clr[k] \in Inverters
      BY <1>1, <2>1, DailyFacts
    <3>2. \/ broker'[clr[k]] = broker[clr[k]] /\ clr[k] # clr[n]
          \/ broker'[clr[k]] = [val |-> 0, day |-> day', over |-> FALSE]
      BY <1>7, <3>1, ZeroFacts
    <3>3. CASE broker'[clr[k]] = [val |-> 0, day |-> day', over |-> FALSE]
      BY <3>3
    <3>4. CASE broker'[clr[k]] = broker[clr[k]] /\ clr[k] # clr[n]
      <4>1. k # n
        BY <3>4
      <4>2. k \in 1..mid
        BY <1>1, <1>7, <4>1
      <4> QED BY <3>4, <4>2 DEF Zeroed
    <3> QED BY <3>2, <3>3, <3>4
  <2> QED BY <2>1, <2>2 DEF Zeroed
<1>8. CASE mid' = 0
  BY <1>8 DEF Zeroed
<1>9. CASE Midnight
  BY <1>7, <1>8, <1>9, MidnightShape DEF Breaks, Ends
<1>10. CASE Continue
  <2>1. mid + 1 \in Nat
    BY <1>1
  <2> QED BY <1>7, <1>8, <1>10, <2>1, ContinueShape DEF Breaks, Ends
<1> QED BY <1>3, <1>4, <1>5, <1>6, <1>9, <1>10 DEF DailyNext

\* The end of atmidnight: what an entry that was not reset shows was sent by a
\* connection that was open all the time.
LEMMA AllZeroed ==
    ASSUME DailyTypes, Zeroed, \A k \in Inverters : Cleared(k), mid = Len(clr)
    PROVE  \A i \in Inverters : broker[i].val > 0 => broker[i].over
<1> SUFFICES ASSUME NEW i \in Inverters, broker[i].val > 0 PROVE broker[i].over
  OBVIOUS
<1>1. CASE i \in Topics
  <2>1. PICK n \in 1..Len(clr) : clr[n] = i
    BY <1>1 DEF Topics
  <2>2. broker[i].val = 0 \/ broker[i].over
    BY <2>1 DEF Zeroed
  <2> QED BY <2>2, DailyFacts
<1>2. CASE i \notin Topics
  BY <1>2 DEF Cleared
<1> QED BY <1>1, <1>2

LEMMA ClearedKept ==
    ASSUME DailyTypes, Zeroed, \A k \in Inverters : Grown(k),
           \A k \in Inverters : Cleared(k), DailyNext, NEW j \in Inverters
    PROVE  Cleared(j)'
<1>1. /\ Cleared(j) /\ Grown(j) /\ day \in Nat /\ Len(clr) \in Nat
      /\ mid \in 0..Len(clr) /\ broker[j].val \in Nat /\ broker[j].day \in Nat
      /\ broker[j].day <= day /\ db[j].day \in Nat
  BY DailyFacts
<1>2. ASSUME NEW i \in Inverters, Produce(i) PROVE Cleared(j)'
  <2>1. UNCHANGED <<day, conn, db, clr, mid, size, failed, broker, over>>
    BY <1>2 DEF Produce, midVars
  <2> QED BY <1>1, <2>1 DEF Cleared, Topics
<1>3. ASSUME NEW i \in Inverters, Open(i) PROVE Cleared(j)'
  <2>1. /\ conn' = [conn EXCEPT ![i] = "new"] /\ db' = [db EXCEPT ![i] = NoValue]
        /\ over' = IF mid = 0 THEN over \ {i} ELSE over \cup {i}
        /\ UNCHANGED <<day, clr, mid, size, failed, broker>>
    BY <1>3 DEF Open, Goto, midVars
  <2>2. CASE j = i
    <3>1. conn'[j] = "new" /\ db'[j].val = Absent
      BY <2>1, <2>2, Functions DEF NoValue
    <3>2. mid' # 0 => j \in over'
      BY <2>1, <2>2
    <3> QED BY <1>1, <2>1, <3>1, <3>2 DEF Cleared, Topics
  <2>3. CASE j # i
    <3>1. conn'[j] = conn[j] /\ db'[j] = db[j] /\ (j \in over' <=> j \in over)
      BY <2>1, <2>3, Functions
    <3> QED BY <1>1, <2>1, <3>1 DEF Cleared, Topics
  <2> QED BY <2>2, <2>3
<1>4. ASSUME NEW i \in Inverters, Disconnect(i) PROVE Cleared(j)'
  <2>1. /\ conn' = [conn EXCEPT ![i] = "off"] /\ db' = [db EXCEPT ![i] = NoValue]
        /\ UNCHANGED <<day, clr, mid, size, failed, broker, over>>
    BY <1>4 DEF Disconnect, Goto, midVars
  <2>2. (conn'[j] = conn[j] /\ db'[j] = db[j]) \/ conn'[j] = "off"
    BY <2>1, Functions
  <2> QED BY <1>1, <2>1, <2>2 DEF Cleared, Topics
<1>5. ASSUME NEW i \in Inverters, Message(i) PROVE Cleared(j)'
  <2>1. /\ conn[i] \in {"new", "idle"}
        /\ UNCHANGED <<day, clr, mid, size, failed, broker, over>>
        /\ \/ db' = db
           \/ db' = [db EXCEPT ![i] = [val |-> real[i], day |-> day]]
        /\ \/ conn' = [conn EXCEPT ![i] = "reg"]
           \/ conn' = [conn EXCEPT ![i] = "regval"]
           \/ /\ conn[i] = "idle"
              /\ \/ conn' = [conn EXCEPT ![i] = "val"]
                 \/ conn' = [conn EXCEPT ![i] = "idle"]
    BY <1>5, MessageShape
  <2>2. /\ conn'[j] # "off" => conn[j] # "off"
        /\ conn'[j] \in {"idle", "val"} => conn[j] \in {"idle", "val"}
    BY <2>1, Functions
  <2>3. db'[j] = db[j] \/ db'[j].day = day
    <3>1. CASE db' = db
      BY <3>1
    <3>2. CASE db' = [db EXCEPT ![i] = [val |-> real[i], day |-> day]]
      <4>1. db'[j] = db[j] \/ db'[j] = [val |-> real[i], day |-> day]
        BY <3>2, Functions
      <4> QED BY <4>1
    <3> QED BY <2>1, <3>1, <3>2
  <2> QED BY <1>1, <2>1, <2>2, <2>3 DEF Cleared, Topics
<1>6. ASSUME NEW i \in Inverters, Register(i) PROVE Cleared(j)'
  <2>1. /\ conn[i] \in {"reg", "regval"} /\ clr' = Add(i)
        /\ \/ conn' = [conn EXCEPT ![i] = "val"]
           \/ conn' = [conn EXCEPT ![i] = "idle"]
        /\ UNCHANGED <<day, db, mid, failed, broker, over>>
    BY <1>6 DEF Register, Goto
  <2>2. Topics \subseteq Topics' /\ i \in Topics'
    BY <2>1, AddFacts
  <2>3. CASE j = i
    <3>1. conn[j] # "off" /\ j \in Topics'
      BY <2>1, <2>2, <2>3
    <3> QED BY <1>1, <2>1, <2>2, <3>1 DEF Cleared
  <2>4. CASE j # i
    <3>1. conn'[j] = conn[j]
      BY <2>1, <2>4, Functions
    <3> QED BY <1>1, <2>1, <2>2, <3>1 DEF Cleared
  <2> QED BY <2>3, <2>4
<1>7. ASSUME NEW i \in Inverters, Publish(i) PROVE Cleared(j)'
  <2>1. /\ conn[i] = "val" /\ conn' = [conn EXCEPT ![i] = "idle"]
        /\ UNCHANGED <<day, db, clr, mid, failed, over>>
        /\ \/ broker' = broker
           \/ /\ db[i].val # Absent
              /\ broker' = [broker EXCEPT ![i] =
                     [val |-> db[i].val, day |-> db[i].day, over |-> i \in over]]
    BY <1>7, PublishShape
  <2>2. /\ conn'[j] # "off" <=> conn[j] # "off"
        /\ conn'[j] \in {"idle", "val"} => conn[j] \in {"idle", "val"}
    BY <2>1, Functions
  <2>3. CASE broker'[j] = broker[j]
    BY <1>1, <2>1, <2>2, <2>3 DEF Cleared, Topics
  <2>4. CASE broker'[j] # broker[j]
    <3>1. /\ j = i /\ db[j].val # Absent
          /\ broker'[j] = [val |-> db[j].val, day |-> db[j].day, over |-> j \in over]
      BY <2>1, <2>4, Functions
    <3>2. /\ broker'[j].day = db[j].day /\ (j \in over => broker'[j].over)
          /\ conn[j] = "val"
      <4>1. conn[j] = "val"
        BY <2>1, <3>1, Zenon
      <4>2. CASE j \in over
        <5>1. (j \in over) = TRUE
          BY <4>2
        <5>2. broker'[j] = [val |-> db[j].val, day |-> db[j].day, over |-> TRUE]
          BY <3>1, <5>1, Zenon
        <5> QED BY <4>1, <5>2
      <4>3. CASE j \notin over
        <5>1. (j \in over) = FALSE
          BY <4>3
        <5>2. broker'[j] = [val |-> db[j].val, day |-> db[j].day, over |-> FALSE]
          BY <3>1, <5>1, Zenon
        <5> QED BY <4>1, <4>3, <5>2
      <4> QED BY <4>2, <4>3
    <3>3. j \in Topics \/ broker'[j].over
      BY <1>1, <3>2 DEF Cleared
    <3>4. j \in over \/ db[j].day = day
      BY <1>1, <3>1, <3>2 DEF Cleared
    <3> QED BY <1>1, <2>1, <2>2, <3>2, <3>3, <3>4 DEF Cleared, Topics
  <2> QED BY <2>3, <2>4
<1>8. ASSUME NEW n, Zeroes(n), UNCHANGED <<conn, db>>,
             \/ mid = 0 /\ over' = over \cup Connected /\ day' = day + 1
             \/ mid # 0 /\ UNCHANGED <<day, over>>
      PROVE  Cleared(j)'
  <2>1. mid' # 0 /\ UNCHANGED clr
    BY <1>8 DEF Zeroes
  <2>2. conn[j] # "off" => j \in over'
    BY <1>1, <1>8 DEF Cleared, Connected
  <2>3. j \in over => j \in over'
    BY <1>8
  <2>4. broker'[j].val > 0 => broker'[j] = broker[j]
    <3>1. CASE broker'[j] = [val |-> 0, day |-> day', over |-> FALSE]
      <4>1. broker'[j].val = 0
        BY <3>1
      <4> QED BY <4>1
    <3> QED BY <1>8, <3>1, ZeroFacts
  <2>5. j \in over' \/ conn[j] = "off"
    BY <2>2
  <2> QED BY <1>1, <1>8, <2>1, <2>2, <2>4 DEF Cleared, Topics
<1>9. ASSUME NEW n, Breaks(n), UNCHANGED <<conn, db>>, n = mid + 1,
             \/ mid = 0 /\ over' = over \cup Connected /\ day' = day + 1
             \/ mid # 0 /\ UNCHANGED <<day, over>>
      PROVE  Cleared(j)'
  <2>1. /\ mid' = 0 /\ UNCHANGED <<clr, broker>>
        /\ failed' = {clr[k] : k \in n..Len(clr)}
    BY <1>9 DEF Breaks
  <2>2. conn[j] # "off" => j \in over'
    BY <1>1, <1>9 DEF Cleared, Connected
  <2>3. broker[j].val > 0 => broker[j].over \/ j \in failed'
    <3> SUFFICES ASSUME broker[j].val > 0, ~broker[j].over PROVE j \in failed'
      OBVIOUS
    <3>1. PICK k \in 1..Len(clr) : clr[k] = j
      BY <1>1 DEF Cleared, Topics
    <3>2. k \notin 1..mid
      BY <1>1, <3>1 DEF Zeroed
    <3>3. k \in n..Len(clr)
      BY <1>1, <1>9, <3>1, <3>2
    <3> QED BY <2>1, <3>1, <3>3
  <2> QED BY <1>1, <1>9, <2>1, <2>2, <2>3 DEF Cleared, Topics
<1>10. ASSUME Ends, UNCHANGED <<conn, db>>, mid = Len(clr),
              \/ mid = 0 /\ over' = over \cup Connected /\ day' = day + 1
              \/ mid # 0 /\ UNCHANGED <<day, over>>
       PROVE  Cleared(j)'
  <2>1. mid' = 0 /\ UNCHANGED broker
    BY <1>10 DEF Ends
  <2>2. conn[j] # "off" => j \in over'
    BY <1>1, <1>10 DEF Cleared, Connected
  <2>3. broker[j].val > 0 => broker[j].over
    BY <1>10, AllZeroed
  <2> QED BY <1>1, <1>10, <2>1, <2>2, <2>3 DEF Cleared
<1>11. CASE Midnight
  BY <1>1, <1>8, <1>9, <1>10, <1>11, MidnightShape
<1>12. CASE Continue
  BY <1>1, <1>8, <1>9, <1>10, <1>12, ContinueShape
<1> QED BY <1>2, <1>3, <1>4, <1>5, <1>6, <1>7, <1>11, <1>12 DEF DailyNext

\* Without the variables of ClrAtMidnight and the broker.
ConnTypes ==
    /\ real \in [Inverters -> 0..MaxVal]
    /\ conn \in [Inverters -> {"off", "new", "idle", "reg", "regval", "val"}]
    /\ db \in [Inverters -> Value(Absent)]
    /\ conns \in 0..MaxDailyConns

ClrTypes ==
    /\ clr \in Seq(Inverters)
    /\ \A n, k \in 1..Len(clr) : clr[n] = clr[k] => n = k
    /\ mid \in 0..Len(clr) /\ size \in 0..Len(clr)
    /\ failed \subseteq Inverters

ShownTypes ==
    /\ day \in 0..MaxDays /\ over \subseteq Inverters
    /\ broker \in [Inverters -> Shown]
    /\ \A i \in Inverters : broker[i].day <= day

LEMMA DailyParts == DailyTypes <=> ConnTypes /\ ClrTypes /\ ShownTypes
<1>1. ASSUME DailyTypes PROVE ConnTypes /\ ClrTypes /\ ShownTypes
  <2>1. ConnTypes /\ ClrTypes
    BY <1>1 DEF DailyTypes, DailyTypeOK, ConnTypes, ClrTypes
  <2>2. ShownTypes
    BY <1>1, DailyFacts DEF DailyTypes, DailyTypeOK, ShownTypes
  <2> QED BY <2>1, <2>2
<1>2. ASSUME ConnTypes, ClrTypes, ShownTypes PROVE DailyTypes
  <2>1. ASSUME NEW i \in Inverters
        PROVE  /\ broker[i].val \in 0..MaxVal /\ broker[i].day \in 0..day
               /\ broker[i].over \in BOOLEAN
    <3>1. broker[i] \in Shown /\ broker[i].day <= day /\ day \in Nat
      BY <1>2, DailyBoundsAssumption DEF ShownTypes
    <3> QED BY <3>1, DailyBoundsAssumption DEF Shown
  <2> QED BY <1>2, <2>1 DEF ConnTypes, ClrTypes, ShownTypes, DailyTypes, DailyTypeOK
<1> QED BY <1>1, <1>2

LEMMA DailyTypeKept ==
    ASSUME DailyTypes, \A k \in Inverters : Grown(k), DailyNext
    PROVE  DailyTypes'
<1>1. /\ ConnTypes /\ ClrTypes /\ ShownTypes
      /\ MaxVal \in Nat /\ MaxDays \in Nat /\ MaxDailyConns \in Nat
      /\ day \in Nat /\ Len(clr) \in Nat
  BY DailyParts, DailyFacts, DailyBoundsAssumption
<1>2. ConnTypes'
  <2>1. CASE UNCHANGED <<real, conn, db, conns>>
    BY <1>1, <2>1 DEF ConnTypes
  <2>2. ASSUME NEW i \in Inverters, Produce(i) PROVE ConnTypes'
    <3>1. real[i] + 1 \in 0..MaxVal
      BY <1>1, <2>2, DailyFacts DEF Produce
    <3>2. real' = [real EXCEPT ![i] = real[i] + 1] /\ UNCHANGED <<conn, db, conns>>
      BY <2>2 DEF Produce
    <3> QED BY <1>1, <3>1, <3>2 DEF ConnTypes
  <2>3. ASSUME NEW i \in Inverters, Open(i) PROVE ConnTypes'
    <3>1. /\ conn' = [conn EXCEPT ![i] = "new"] /\ db' = [db EXCEPT ![i] = NoValue]
          /\ real' = real /\ conns' \in 0..MaxDailyConns
      BY <1>1, <2>3 DEF Open, Goto, ConnTypes
    <3>2. NoValue \in Value(Absent)
      BY <1>1 DEF NoValue, Value, Absent
    <3> QED BY <1>1, <3>1, <3>2 DEF ConnTypes
  <2>4. ASSUME NEW i \in Inverters, Message(i) PROVE ConnTypes'
    <3>1. [val |-> real[i], day |-> day] \in Value(Absent)
      BY <1>1, DailyFacts DEF Value, Absent, ShownTypes
    <3>2. db' \in [Inverters -> Value(Absent)]
      BY <1>1, <2>4, <3>1, MessageShape DEF ConnTypes
    <3>3. conn' \in [Inverters -> {"off", "new", "idle", "reg", "regval", "val"}]
      BY <1>1, <2>4, MessageShape DEF ConnTypes
    <3>4. UNCHANGED <<real, conns>>
      BY <2>4, MessageShape
    <3> QED BY <1>1, <3>2, <3>3, <3>4 DEF ConnTypes
  <2>8. ASSUME NEW i \in Inverters, Disconnect(i) PROVE ConnTypes'
    <3>1. /\ conn' = [conn EXCEPT ![i] = "off"] /\ db' = [db EXCEPT ![i] = NoValue]
          /\ UNCHANGED <<real, conns>>
      BY <2>8 DEF Disconnect, Goto
    <3>2. NoValue \in Value(Absent)
      BY <1>1 DEF NoValue, Value, Absent
    <3> QED BY <1>1, <3>1, <3>2 DEF ConnTypes
  <2>5. ASSUME NEW i \in Inverters, Register(i) \/ Publish(i)
        PROVE  ConnTypes'
    <3>1. UNCHANGED <<real, db, conns>>
      BY <2>5 DEF Register, Publish
    <3>2. \E to \in {"val", "idle"} : conn' = [conn EXCEPT ![i] = to]
      BY <2>5 DEF Register, Publish, Goto
    <3> QED BY <1>1, <3>1, <3>2 DEF ConnTypes
  <2>6. CASE Midnight
    <3>1. real' = [i \in Inverters |-> 0] /\ UNCHANGED <<conn, db, conns>>
      BY <2>6, MidnightShape
    <3> QED BY <1>1, <3>1 DEF ConnTypes
  <2>7. CASE Continue
    BY <2>1, <2>7, ContinueShape
  <2> QED BY <2>2, <2>3, <2>4, <2>5, <2>6, <2>7, <2>8 DEF DailyNext
<1>3. ClrTypes'
  <2>1. CASE UNCHANGED midVars
    BY <1>1, <2>1 DEF ClrTypes, midVars
  <2>2. ASSUME NEW i \in Inverters,
               Produce(i) \/ Open(i) \/ Disconnect(i) \/ Message(i) \/ Publish(i)
        PROVE  ClrTypes'
    BY <2>1, <2>2 DEF Produce, Open, Disconnect, Message, Publish
  <2>3. ASSUME NEW i \in Inverters, Register(i) PROVE ClrTypes'
    <3>1. clr' = Add(i) /\ UNCHANGED <<mid, size, failed>>
      BY <2>3 DEF Register
    <3>2. mid' \in 0..Len(clr') /\ size' \in 0..Len(clr')
      BY <1>1, <3>1, AddFacts DEF ClrTypes
    <3> QED BY <1>1, <3>1, <3>2, AddFacts DEF ClrTypes
  <2>4. ASSUME NEW n, Zeroes(n) PROVE ClrTypes'
    BY <1>1, <2>4 DEF Zeroes, ClrTypes
  <2>5. ASSUME NEW n \in Nat \ {0}, Breaks(n) PROVE ClrTypes'
    <3>1. failed' \subseteq Inverters
      <4>1. \A k \in n..Len(clr) : clr[k] \in Inverters
        BY <1>1, DailyFacts
      <4> QED BY <2>5, <4>1 DEF Breaks
    <3> QED BY <1>1, <2>5, <3>1 DEF Breaks, ClrTypes
  <2>6. CASE Ends
    <3>1. clr' \in Seq(Inverters) /\ Len(clr') = 0 /\ 1..0 = {}
      BY <2>6, EmptySeq DEF Ends
    <3> QED BY <2>6, <3>1 DEF Ends, ClrTypes
  <2>7. CASE Midnight
    BY <2>4, <2>5, <2>6, <2>7, MidnightShape
  <2>8. CASE Continue
    <3>1. mid + 1 \in Nat \ {0}
      BY <2>8, ContinueShape
    <3> QED BY <2>4, <2>5, <2>6, <2>8, <3>1, ContinueShape
  <2> QED BY <2>2, <2>3, <2>7, <2>8 DEF DailyNext
<1>4. ShownTypes'
  <2>1. CASE UNCHANGED <<day, over, broker>>
    BY <1>1, <2>1 DEF ShownTypes
  <2>2. ASSUME NEW i \in Inverters, Produce(i) \/ Disconnect(i) \/ Message(i) \/ Register(i)
        PROVE  ShownTypes'
    BY <2>1, <2>2 DEF Produce, Disconnect, Message, Register
  <2>3. ASSUME NEW i \in Inverters, Open(i) PROVE ShownTypes'
    BY <1>1, <2>3 DEF Open, ShownTypes
  <2>4. ASSUME NEW i \in Inverters, Publish(i) PROVE ShownTypes'
    <3>1. CASE broker' = broker
      BY <2>1, <2>4, <3>1, PublishShape
    <3>2. CASE broker' # broker
      <4> DEFINE e == [val |-> db[i].val, day |-> db[i].day, over |-> i \in over]
      <4>1. /\ db[i].val # Absent /\ broker' = [broker EXCEPT ![i] = e]
            /\ UNCHANGED <<day, over>>
        BY <2>4, <3>2, PublishShape
      <4>2. /\ db[i] \in Value(Absent) /\ db[i].val > 0 /\ db[i].day <= day
            /\ db[i].val \in Int
        BY <4>1, DailyFacts DEF Grown
      <4>3. db[i].val \in 0..MaxVal /\ db[i].day \in 0..MaxDays
        BY <1>1, <4>2 DEF Value, Absent
      <4>4. (i \in over) \in BOOLEAN
        OBVIOUS
      <4>5. e \in Shown /\ e.day <= day
        BY <4>2, <4>3, <4>4 DEF Shown
      <4> HIDE DEF e
      <4> QED BY <1>1, <4>1, <4>5 DEF ShownTypes
    <3> QED BY <3>1, <3>2
  <2>5. ASSUME NEW n, Zeroes(n), day' \in 0..MaxDays, day' >= day,
               over' \subseteq Inverters
        PROVE  ShownTypes'
    <3>1. /\ [val |-> 0, day |-> day', over |-> FALSE] \in Shown
          /\ day' <= day' /\ day' \in Nat
      BY <1>1, <2>5 DEF Shown
    <3>2. broker' \in [Inverters -> Shown]
      BY <1>1, <2>5, <3>1 DEF Zeroes, ShownTypes
    <3>3. ASSUME NEW i \in Inverters PROVE broker'[i].day <= day'
      <4>1. CASE broker'[i] = broker[i]
        BY <1>1, <2>5, <3>1, <4>1, DailyFacts
      <4>2. CASE broker'[i] = [val |-> 0, day |-> day', over |-> FALSE]
        <5>1. broker'[i].day = day'
          BY <4>2
        <5> QED BY <3>1, <5>1
      <4> QED BY <2>5, <4>1, <4>2, ZeroFacts
    <3> QED BY <2>5, <3>2, <3>3 DEF ShownTypes
  <2>6. ASSUME UNCHANGED broker, day' \in 0..MaxDays, day' >= day,
               over' \subseteq Inverters
        PROVE  ShownTypes'
    <3>1. \A i \in Inverters : broker[i].day <= day'
      BY <1>1, <2>6, DailyFacts
    <3> QED BY <1>1, <2>6, <3>1 DEF ShownTypes
  <2>7. CASE Midnight
    <3>1. day' \in 0..MaxDays /\ day' >= day /\ over' \subseteq Inverters
      BY <1>1, <2>7, MidnightShape DEF ShownTypes, Connected
    <3> QED BY <2>5, <2>6, <2>7, <3>1, MidnightShape DEF Breaks, Ends
  <2>8. CASE Continue
    <3>1. day' \in 0..MaxDays /\ day' >= day /\ over' \subseteq Inverters
      BY <1>1, <2>8, ContinueShape DEF ShownTypes
    <3> QED BY <2>5, <2>6, <2>8, <3>1, ContinueShape DEF Breaks, Ends
  <2> QED BY <2>2, <2>3, <2>4, <2>7, <2>8 DEF DailyNext
<1>5. (ConnTypes /\ ClrTypes /\ ShownTypes)' => DailyTypes'
  <2>1. ASSUME ConnTypes', ClrTypes', ShownTypes' PROVE DailyTypes'
    <3>1. ASSUME NEW i \in Inverters
          PROVE  /\ broker'[i].val \in 0..MaxVal /\ broker'[i].day \in 0..day'
                 /\ broker'[i].over \in BOOLEAN
      <4>1. broker'[i] \in Shown /\ broker'[i].day <= day' /\ day' \in Nat
        BY <1>1, <2>1 DEF ShownTypes
      <4> QED BY <1>1, <4>1 DEF Shown
    <3> QED BY <2>1, <3>1 DEF ConnTypes, ClrTypes, ShownTypes, DailyTypes, DailyTypeOK
  <2> QED BY <2>1
<1> QED BY <1>2, <1>3, <1>4, <1>5

-----------------------------------------------------------------------------
(* DailyReset: the theorems.                                               *)

LEMMA DailyStart == DailyInit => DailyInv
<1> SUFFICES ASSUME DailyInit PROVE DailyInv
  OBVIOUS
<1>1. MaxVal \in Nat /\ MaxDays \in Nat /\ MaxDailyConns \in Nat
  BY DailyBoundsAssumption
<1>2. DailyTypes
  <2>1. ConnTypes
    <3>1. NoValue \in Value(Absent)
      BY <1>1 DEF NoValue, Value, Absent
    <3> QED BY <1>1, <3>1 DEF DailyInit, ConnTypes
  <2>2. ClrTypes
    <3>1. clr = Config /\ mid = 0 /\ size = 0 /\ failed = {}
      BY DEF DailyInit
    <3>2. Config \in Seq(Inverters) /\ Len(Config) \in Nat
      BY ConfigAssumption DEF Inverters
    <3> QED BY <3>1, <3>2, ConfigAssumption DEF ClrTypes
  <2>3. ShownTypes
    <3>1. [val |-> 0, day |-> 0, over |-> FALSE] \in Shown
      BY <1>1 DEF Shown
    <3> QED BY <1>1, <3>1 DEF DailyInit, ShownTypes
  <2> QED BY <2>1, <2>2, <2>3, DailyParts
<1>3. ASSUME NEW i \in Inverters PROVE Grown(i) /\ Cleared(i)
  BY <1>3 DEF DailyInit, Grown, Cleared, NoValue
<1>4. Zeroed
  BY DEF DailyInit, Zeroed
<1> QED BY <1>2, <1>3, <1>4 DEF DailyInv

LEMMA DailyStep == DailyInv /\ [DailyNext]_dailyVars => DailyInv'
<1> SUFFICES ASSUME DailyInv, [DailyNext]_dailyVars PROVE DailyInv'
  OBVIOUS
<1>1. /\ DailyTypes /\ Zeroed /\ \A i \in Inverters : Grown(i)
      /\ \A i \in Inverters : Cleared(i)
  BY DEF DailyInv
<1>2. CASE DailyNext
  <2>1. DailyTypes' /\ Zeroed'
    BY <1>1, <1>2, DailyTypeKept, ZeroedKept
  <2>2. \A i \in Inverters : Grown(i)'
    BY <1>1, <1>2, GrownKept
  <2>3. \A i \in Inverters : Cleared(i)'
    BY <1>1, <1>2, ClearedKept
  <2> QED BY <2>1, <2>2, <2>3 DEF DailyInv
<1>3. CASE UNCHANGED dailyVars
  <2>1. UNCHANGED <<day, real, conn, db, clr, mid, size, broker, over, failed, conns>>
    BY <1>3 DEF dailyVars
  <2>2. DailyTypes' /\ Zeroed'
    BY <1>1, <2>1 DEF DailyTypes, DailyTypeOK, Zeroed
  <2>3. \A i \in Inverters : Grown(i)' /\ Cleared(i)'
    BY <1>1, <2>1 DEF Grown, Cleared, Topics
  <2> QED BY <2>2, <2>3 DEF DailyInv
<1> QED BY <1>2, <1>3

(* The whole of the inductive invariant of the daily counters: what a       *)
(* connection knows against what Home Assistant has, and which entries of   *)
(* ClrAtMidnight stand for them (Infos, Schedule.atmidnight).               *)
THEOREM DailyInvariant == DailySpec => []DailyInv
  BY DailyStart, DailyStep, PTL DEF DailySpec

(* The entries of ClrAtMidnight are distinct inverters, the loop of         *)
(* atmidnight is at one of them, and no value is of a day to come.          *)
THEOREM DailyTypeCorrect == DailySpec => []DailyTypeOK
<1>1. DailyInv => DailyTypeOK
  BY DEF DailyInv, DailyTypes
<1> QED BY DailyInvariant, <1>1, PTL

(* A value of an earlier day stays with Home Assistant only if the reset of *)
(* its topic failed, or if a connection sent it that was open while         *)
(* atmidnight ran.                                                          *)
THEOREM StaleCorrect == DailySpec => []StaleNeedsOldConnection
<1>1. DailyInv => StaleNeedsOldConnection
  BY DEF DailyInv, Cleared, StaleNeedsOldConnection
<1> QED BY DailyInvariant, <1>1, PTL

(* What Home Assistant shows of a daily counter falls by the reset at       *)
(* midnight, else only from a value of an earlier day that is still there,  *)
(* because the reset has not come to it, failed, or ran with its connection *)
(* open; a value of the current day is not followed by a smaller one.       *)
THEOREM FallCorrect == DailySpec => FallNeedsStale
<1> DEFINE Old(i) == /\ broker[i].day < day
                     /\ \/ broker[i].over \/ i \in failed
                        \/ mid # 0 /\ \E n \in (mid + 1)..Len(clr) : clr[n] = i
           Falls(i) == broker'[i].val < broker[i].val
           Zero(i) == mid' # mid /\ broker'[i].val = 0
<1>1. ASSUME DailyInv, DailyNext, NEW i \in Inverters, Falls(i)
      PROVE  Zero(i) \/ Old(i)
  <2>1. DailyTypes /\ (\A k \in Inverters : Grown(k)) /\ Cleared(i) /\ Zeroed
    BY <1>1 DEF DailyInv
  <2>2. /\ broker[i].val \in Nat /\ db[i].val \in Int /\ mid \in 0..Len(clr)
        /\ Len(clr) \in Nat /\ db[i].day \in Nat /\ broker[i].day \in Nat /\ day \in Nat
    BY <2>1, DailyFacts
  <2>3. broker'[i] # broker[i]
    BY <1>1, <2>2
  <2>4. ASSUME NEW k \in Inverters, Publish(k) PROVE Old(i)
    <3>1. /\ k = i /\ db[i].val # Absent
          /\ broker'[i] = [val |-> db[i].val, day |-> db[i].day, over |-> k \in over]
      BY <2>1, <2>3, <2>4, PublishShape, Functions
    <3>2. broker'[i].val = db[i].val /\ broker'[i].day = db[i].day
      BY <3>1
    <3>3. broker[i].val > 0 /\ db[i].day >= broker[i].day /\ db[i].day <= day
      BY <1>1, <2>1, <2>2, <3>1, <3>2 DEF Grown
    <3>4. db[i].day # broker[i].day
      BY <1>1, <2>1, <2>2, <3>1, <3>2 DEF Grown
    <3>5. broker[i].day < day
      BY <2>2, <3>3, <3>4
    <3>6. ASSUME ~broker[i].over, i \notin failed
          PROVE  mid # 0 /\ \E n \in (mid + 1)..Len(clr) : clr[n] = i
      <4>1. mid # 0 /\ i \in Topics
        BY <2>1, <3>3, <3>5, <3>6 DEF Cleared
      <4>2. PICK n \in 1..Len(clr) : clr[n] = i
        BY <4>1 DEF Topics
      <4>3. n \notin 1..mid
        BY <2>1, <2>2, <3>3, <3>6, <4>2 DEF Zeroed
      <4>4. n \in (mid + 1)..Len(clr)
        BY <2>2, <4>2, <4>3
      <4> QED BY <4>1, <4>2, <4>4
    <3> QED BY <3>5, <3>6
  <2>5. ASSUME NEW k \in Inverters,
               Produce(k) \/ Open(k) \/ Disconnect(k) \/ Message(k) \/ Register(k)
        PROVE  FALSE
    BY <2>3, <2>5 DEF Produce, Open, Disconnect, Message, Register
  <2>6. ASSUME NEW n \in Nat, Zeroes(n), n = mid + 1 PROVE Zero(i)
    <3>1. mid' = n /\ mid' # mid
      BY <2>2, <2>6 DEF Zeroes
    <3>2. broker'[i] = [val |-> 0, day |-> day', over |-> FALSE]
      BY <2>1, <2>3, <2>6, ZeroFacts
    <3>3. broker'[i].val = 0
      BY <3>2
    <3> QED BY <3>1, <3>3
  <2>7. CASE Midnight
    <3>1. Zeroes(1) /\ 1 = mid + 1
      BY <2>1, <2>3, <2>7, MidnightShape DEF Breaks, Ends
    <3> HIDE DEF Zero
    <3> QED BY <2>6, <3>1
  <2>8. CASE Continue
    <3>1. Zeroes(mid + 1) /\ mid + 1 \in Nat
      BY <2>1, <2>2, <2>3, <2>8, ContinueShape DEF Breaks, Ends
    <3> HIDE DEF Zero
    <3> QED BY <2>6, <3>1
  <2> HIDE DEF Old, Zero
  <2> QED BY <1>1, <2>4, <2>5, <2>7, <2>8 DEF DailyNext
<1>2. ASSUME DailyInv, UNCHANGED dailyVars, NEW i \in Inverters PROVE ~Falls(i)
  <2>1. broker' = broker /\ broker[i].val \in Nat
    BY <1>2, DailyFacts DEF dailyVars, DailyInv
  <2> QED BY <2>1
<1>3. DailyInv /\ [DailyNext]_dailyVars =>
        [\A i \in Inverters : Falls(i) => Zero(i) \/ Old(i)]_dailyVars
  <2> HIDE DEF Falls, Zero, Old
  <2> QED BY <1>1, <1>2
<1>4. DailyInv /\ [DailyNext]_dailyVars =>
        [\A i \in Inverters :
           broker'[i].val < broker[i].val =>
              \/ mid' # mid /\ broker'[i].val = 0
              \/ /\ broker[i].day < day
                 /\ \/ broker[i].over \/ i \in failed
                    \/ mid # 0 /\ \E n \in (mid + 1)..Len(clr) : clr[n] = i
        ]_dailyVars
  BY <1>3
<1> QED BY DailyInvariant, <1>4, PTL DEF DailySpec, FallNeedsStale

-----------------------------------------------------------------------------
(* The run of both: the types of the one that takes steps and of the one    *)
(* that rests (the buffers of class Talent, the entries of ClrAtMidnight).  *)
THEOREM ServerTypeCorrect == MCSpec => []MCTypeOK
<1> DEFINE Both == TalentInv /\ DailyInv
<1>1. MCInit => Both
  BY TalentInit, DailyStart DEF MCInit
<1>2. Both /\ [MCNext]_<<part, vars, dailyVars>> => Both'
  <2> SUFFICES ASSUME Both, [MCNext]_<<part, vars, dailyVars>> PROVE Both'
    OBVIOUS
  <2>1. [Next]_vars /\ [DailyNext]_dailyVars
    BY DEF MCNext
  <2> QED BY <2>1, TalentStep, DailyStep
<1>3. Both => MCTypeOK
  BY DEF MCTypeOK, TalentInv, DailyInv, DailyTypes
<1> QED BY <1>1, <1>2, <1>3, PTL DEF MCSpec
==============================================================================
