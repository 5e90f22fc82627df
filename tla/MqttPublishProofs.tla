-------------------------- MODULE MqttPublishProofs --------------------------
(***************************************************************************)
(* Proofs about MqttPublish for any number of inverters and any bounds.    *)
(* For the queue of messages a step is one of six shapes (QueueShape); the *)
(* entities are registered by steps that leave the queue's part alone.     *)
(***************************************************************************)
EXTENDS MqttPublish, SequenceTheorems, TLAPS

Pcs == {"idle", "proxy", "inverter", "data", "stat", "failed"}
Msg(max) == [by : Tasks, val : 0..max]

QueueTypes ==
    /\ stat \in 0..MaxStat /\ broker \in 0..stat
    /\ outq \in Seq(Msg(stat))
    /\ new \in BOOLEAN /\ counted \in BOOLEAN /\ conn \in BOOLEAN
    /\ pc \in [Tasks -> Pcs]

\* Who awaits the publishing of the counters has a message on its way.
Waiting ==
    \A t \in Tasks : pc[t] = "stat" => \E n \in 1..Len(outq) : outq[n].by = t

\* The message that leaves last carries the counters, unless they changed.
LastCurrent == outq # <<>> /\ ~counted => outq[Len(outq)].val = stat

QueueInv ==
    QueueTypes /\ Waiting /\ LastCurrent /\ OutstandingUnlessCounted

HaTypes ==
    /\ losses \in 0..MaxLosses /\ ha_restarts \in 0..MaxRestarts
    /\ new_data \in [Invs -> BOOLEAN]
    /\ seen \in [Invs -> -1..MaxRestarts]
    /\ begun \in [Invs -> -1..MaxRestarts]
    /\ regd \in [Invs -> -1..MaxRestarts]
    /\ restarted \subseteq Invs

\* Nobody has seen a restart that is still to come, and who is registering
\* began after the last one or was caught by it.
Registering ==
    \A i \in Invs :
        /\ seen[i] <= ha_restarts
        /\ pc[i] = "inverter" => begun[i] = ha_restarts \/ i \in restarted

HaInv == HaTypes /\ Registering /\ NotedMeansRegistered

-----------------------------------------------------------------------------
(* The six shapes of a step.                                               *)

Counts == Count

Queues(t) ==
    /\ t \in Tasks
    /\ outq' = Append(outq, [by |-> t, val |-> stat]) /\ counted' = FALSE
    /\ pc' = [pc EXCEPT ![t] = "stat"]
    /\ new' \in BOOLEAN /\ UNCHANGED <<stat, broker, conn>>

Leaves(t) == t \in Tasks /\ StatPublished(t)

Loses == Disconnect

Moves(t, p) ==
    /\ t \in Tasks /\ p \in Pcs \ {"stat"}
    /\ t = Mqtt => p = "proxy"
    /\ pc' = [pc EXCEPT ![t] = p]
    /\ UNCHANGED statVars /\ (UNCHANGED conn \/ (t = Mqtt /\ conn' = TRUE))

Rests == UNCHANGED <<statVars, conn, pc>>

LEMMA PublStatShape ==
    ASSUME QueueTypes, NEW i \in Invs, PublStat(i), UNCHANGED conn
    PROVE  Queues(i) \/ Moves(i, "idle")
<1>1. i \in Tasks /\ i # Mqtt /\ "idle" \in Pcs \ {"stat"}
  BY TasksAssumption DEF Tasks, Pcs
<1>2. CASE new /\ Publish(i) /\ UNCHANGED <<stat, new, broker>>
  <2>1. new' \in BOOLEAN
    BY <1>2 DEF QueueTypes
  <2> QED BY <1>1, <1>2, <2>1 DEF Publish, Queues, At
<1>3. CASE ~new /\ At(i, "idle") /\ UNCHANGED statVars
  <2>1. i = Mqtt => "idle" = "proxy"
    BY <1>1
  <2>2. pc' = [pc EXCEPT ![i] = "idle"]
    BY <1>3 DEF At
  <2>3. UNCHANGED conn
    OBVIOUS
  <2>4. UNCHANGED statVars
    BY <1>3
  <2>5. Moves(i, "idle")
    BY <1>1, <2>1, <2>2, <2>3, <2>4 DEF Moves, statVars
  <2> QED BY <2>5
<1> QED BY <1>2, <1>3 DEF PublStat

LEMMA QueueShape ==
    ASSUME QueueTypes, [Next]_vars
    PROVE  \/ Counts \/ Loses \/ Rests
           \/ \E t \in Tasks : Queues(t) \/ Leaves(t) \/ \E p \in Pcs : Moves(t, p)
<1> DEFINE Shaped ==
      \/ Counts \/ Loses \/ Rests
      \/ \E t \in Tasks : Queues(t) \/ Leaves(t) \/ \E p \in Pcs : Moves(t, p)
<1> SUFFICES Shaped
  OBVIOUS
<1>1. ASSUME NEW t \in Tasks, NEW p \in Pcs \ {"stat"}, t = Mqtt => p = "proxy",
             At(t, p), UNCHANGED statVars, UNCHANGED conn \/ (t = Mqtt /\ conn' = TRUE)
      PROVE  Shaped
  BY <1>1 DEF Moves, At
<1>2. Mqtt \in Tasks /\ {"idle", "proxy", "inverter", "data"} \subseteq Pcs \ {"stat"}
  BY DEF Tasks, Pcs
<1>3. CASE Count \/ Disconnect \/ UNCHANGED vars
  BY <1>3 DEF Counts, Loses, Rests, vars, linkVars
<1>4. CASE HaOnline
  BY <1>1, <1>2, <1>4 DEF HaOnline, linkVars
<1>5. CASE Connect
  BY <1>1, <1>2, <1>5 DEF Connect
<1>6. CASE MqttRegistered
  <2>1. UNCHANGED <<stat, broker, conn>> /\ new' = TRUE /\ Publish(Mqtt)
    BY <1>6 DEF MqttRegistered, linkVars
  <2>2. Queues(Mqtt)
    BY <1>2, <2>1 DEF Publish, Queues, At
  <2> QED BY <1>2, <2>2
<1>7. CASE StatPublished(Mqtt)
  BY <1>2, <1>7 DEF Leaves
<1>8. ASSUME NEW i \in Invs, PublStart(i) \/ TaskStep(i)
      PROVE  Shaped
  <2>1. i \in Tasks /\ i # Mqtt
    BY TasksAssumption DEF Tasks
  <2>0. ASSUME NEW p \in Pcs \ {"stat"}, At(i, p), UNCHANGED statVars, UNCHANGED conn
        PROVE  Shaped
    <3>1. i = Mqtt => p = "proxy"
      BY <2>1
    <3>2. Moves(i, p)
      BY <2>0, <2>1, <3>1 DEF Moves, At, statVars
    <3> QED BY <2>1, <3>2
  <2>2. ASSUME PublStat(i), UNCHANGED conn PROVE Shaped
    BY <2>1, <2>2, PublStatShape, <1>2
  <2>3. ASSUME PublValues(i), UNCHANGED conn PROVE Shaped
    <3>1. CASE At(i, "data") /\ UNCHANGED statVars
      BY <1>2, <2>0, <2>3, <3>1
    <3> QED BY <2>2, <2>3, <3>1 DEF PublValues
  <2>4. CASE PublStart(i)
    <3>1. UNCHANGED conn
      BY <2>4 DEF PublStart, linkVars
    <3>2. CASE UNCHANGED <<statVars, pc>>
      BY <3>1, <3>2 DEF Rests
    <3>3. CASE At(i, "proxy") /\ UNCHANGED statVars
      BY <1>2, <2>0, <3>1, <3>3
    <3>4. CASE PublValues(i)
      BY <2>3, <3>1, <3>4
    <3> QED BY <2>4, <3>2, <3>3, <3>4 DEF PublStart
  <2>5. CASE ProxyRegistered(i)
    BY <1>2, <2>0, <2>5 DEF ProxyRegistered, linkVars
  <2>6. CASE InverterRegistered(i)
    BY <2>3, <2>6 DEF InverterRegistered, linkVars
  <2>7. CASE DataPublished(i)
    BY <2>2, <2>7 DEF DataPublished, linkVars
  <2>8. CASE StatPublished(i)
    BY <2>1, <2>8 DEF Leaves
  <2>9. CASE PublFails(i)
    BY <1>2, <2>0, <2>9 DEF PublFails, linkVars
  <2> QED BY <1>8, <2>4, <2>5, <2>6, <2>7, <2>8, <2>9 DEF TaskStep
<1> QED BY <1>3, <1>4, <1>5, <1>6, <1>7, <1>8 DEF Next, MqttStep

-----------------------------------------------------------------------------
(* The queue's invariant.                                                  *)

LEMMA CountKeeps ==
    ASSUME QueueInv, Counts
    PROVE  QueueInv'
<1> USE DEF QueueInv, QueueTypes
<1>1. /\ stat < MaxStat /\ stat' = stat + 1 /\ new' = TRUE
      /\ counted' = (counted \/ outq # <<>>)
      /\ UNCHANGED <<outq, broker, conn, pc>>
  BY DEF Counts, Count, linkVars
<1>2. stat' \in 0..MaxStat /\ 0..stat \subseteq 0..(stat')
  BY <1>1, BoundsAssumption
<1>3. outq' \in Seq(Msg(stat'))
  <2>1. Msg(stat) \subseteq Msg(stat')
    BY <1>2 DEF Msg
  <2> QED BY <1>1, <2>1
<1>4. QueueTypes'
  BY <1>1, <1>2, <1>3
<1>5. Waiting'
  BY <1>1 DEF Waiting
<1>6. LastCurrent' /\ OutstandingUnlessCounted'
  BY <1>1 DEF LastCurrent, OutstandingUnlessCounted, Outstanding, Quiet
<1> QED BY <1>4, <1>5, <1>6

LEMMA QueuesKeeps ==
    ASSUME QueueInv, NEW t \in Tasks, Queues(t)
    PROVE  QueueInv'
<1> USE DEF QueueInv, QueueTypes
<1> DEFINE m == [by |-> t, val |-> stat]
<1>1. m \in Msg(stat)
  BY BoundsAssumption DEF Msg
<1>2. /\ outq' = Append(outq, m) /\ counted' = FALSE
      /\ pc' = [pc EXCEPT ![t] = "stat"] /\ new' \in BOOLEAN
      /\ UNCHANGED <<stat, broker, conn>>
  BY DEF Queues
<1>3. /\ outq' \in Seq(Msg(stat)) /\ Len(outq') = Len(outq) + 1 /\ Len(outq) \in Nat
      /\ \A n \in 1..Len(outq) : outq'[n] = outq[n]
      /\ outq'[Len(outq) + 1] = m
  BY <1>1, <1>2
<1> HIDE DEF m
<1>4. QueueTypes'
  BY <1>2, <1>3 DEF Pcs
<1>5. Waiting'
  <2> SUFFICES ASSUME NEW u \in Tasks, pc'[u] = "stat"
               PROVE  \E n \in 1..Len(outq') : outq'[n].by = u
    BY DEF Waiting
  <2>1. CASE u = t
    BY <1>3, <2>1 DEF m
  <2>2. CASE u # t
    <3>1. PICK n \in 1..Len(outq) : outq[n].by = u
      BY <1>2, <2>2 DEF Waiting
    <3> QED BY <1>3, <3>1
  <2> QED BY <2>1, <2>2
<1>6. LastCurrent'
  BY <1>2, <1>3 DEF LastCurrent, m
<1>7. OutstandingUnlessCounted'
  <2>1. outq' # <<>>
    BY <1>3
  <2> QED BY <2>1 DEF OutstandingUnlessCounted, Outstanding, Quiet
<1> QED BY <1>4, <1>5, <1>6, <1>7

LEMMA LeavesKeeps ==
    ASSUME QueueInv, NEW t \in Tasks, Leaves(t)
    PROVE  QueueInv'
<1> USE DEF QueueInv, QueueTypes
<1>1. /\ pc[t] = "stat" /\ Head(outq).by = t
      /\ outq' = Tail(outq) /\ broker' = Head(outq).val
      /\ new' = FALSE /\ pc' = [pc EXCEPT ![t] = "idle"]
      /\ UNCHANGED <<stat, counted, conn>>
  BY DEF Leaves, StatPublished, linkVars, At
<1>2. outq # <<>> /\ Len(outq) \in Nat \ {0}
  BY <1>1 DEF Waiting
<1>3. /\ Head(outq) = outq[1] /\ outq[1] \in Msg(stat)
      /\ outq' \in Seq(Msg(stat)) /\ Len(outq') = Len(outq) - 1
      /\ \A n \in 1..Len(outq') : outq'[n] = outq[n + 1]
  BY <1>1, <1>2
<1>4. QueueTypes'
  BY <1>1, <1>3 DEF Msg, Pcs
<1>5. Waiting'
  <2> SUFFICES ASSUME NEW u \in Tasks, pc'[u] = "stat"
               PROVE  \E n \in 1..Len(outq') : outq'[n].by = u
    BY DEF Waiting
  <2>1. u # t /\ pc[u] = "stat"
    BY <1>1
  <2>2. PICK n \in 1..Len(outq) : outq[n].by = u
    BY <2>1 DEF Waiting
  <2>3. n # 1
    BY <1>1, <1>3, <2>1, <2>2
  <2>4. n - 1 \in 1..Len(outq') /\ outq'[n - 1] = outq[n]
    BY <1>2, <1>3, <2>3
  <2> QED BY <2>2, <2>4
<1>6. LastCurrent'
  BY <1>1, <1>2, <1>3 DEF LastCurrent
<1>7. OutstandingUnlessCounted'
  <2> SUFFICES ASSUME outq' = <<>>, ~counted'
               PROVE  broker' = stat'
    BY DEF OutstandingUnlessCounted, Outstanding, Quiet
  <2>1. Len(outq) = 1
    BY <1>2, <1>3
  <2>2. outq[1].val = stat
    BY <1>1, <1>2, <2>1 DEF LastCurrent
  <2> QED BY <1>1, <1>3, <2>2
<1> QED BY <1>4, <1>5, <1>6, <1>7

LEMMA LosesKeeps ==
    ASSUME QueueInv, Loses
    PROVE  QueueInv'
<1> USE DEF QueueInv, QueueTypes
<1>1. /\ conn' = FALSE /\ outq' = <<>> /\ UNCHANGED <<stat, new, counted>>
      /\ broker' \in {broker} \cup {outq[n].val : n \in 1..Len(outq)}
      /\ pc' = [t \in Tasks |-> IF t = Mqtt \/ pc[t] = "idle" THEN "idle" ELSE "failed"]
  BY DEF Loses, Disconnect
<1>2. broker' \in 0..stat
  <2>1. \A n \in 1..Len(outq) : outq[n] \in Msg(stat)
    BY ElementOfSeq
  <2> QED BY <1>1, <2>1 DEF Msg
<1>3. outq' \in Seq(Msg(stat'))
  <2>1. <<>> \in Seq(Msg(stat'))
    OBVIOUS
  <2> QED BY <1>1, <2>1
<1>4. pc' \in [Tasks -> Pcs] /\ \A t \in Tasks : pc'[t] # "stat"
  BY <1>1 DEF Pcs
<1>5. Waiting' /\ LastCurrent' /\ OutstandingUnlessCounted'
  BY <1>1, <1>4 DEF Waiting, LastCurrent, OutstandingUnlessCounted, Outstanding, Quiet
<1> QED BY <1>1, <1>2, <1>3, <1>4, <1>5

LEMMA MovesKeeps ==
    ASSUME QueueInv, NEW t \in Tasks, NEW p \in Pcs, Moves(t, p)
    PROVE  QueueInv'
<1> USE DEF QueueInv, QueueTypes
<1>1. /\ p # "stat" /\ (t = Mqtt => p = "proxy") /\ pc' = [pc EXCEPT ![t] = p]
      /\ UNCHANGED <<stat, new, outq, broker, counted>>
      /\ UNCHANGED conn \/ (t = Mqtt /\ conn' = TRUE)
  BY DEF Moves, statVars
<1>2. QueueTypes'
  BY <1>1
<1>3. Waiting' /\ LastCurrent'
  BY <1>1 DEF Waiting, LastCurrent
<1>4. OutstandingUnlessCounted'
  <2>1. Mqtt \in Tasks
    BY DEF Tasks
  <2>2. CASE t = Mqtt
    <3>1. pc'[Mqtt] # "idle"
      BY <1>1, <2>1, <2>2
    <3> QED BY <3>1 DEF OutstandingUnlessCounted, Outstanding, Quiet
  <2>3. CASE t # Mqtt
    BY <1>1, <2>1, <2>3 DEF OutstandingUnlessCounted, Outstanding, Quiet
  <2> QED BY <2>2, <2>3
<1> QED BY <1>2, <1>3, <1>4

LEMMA RestsKeeps == ASSUME QueueInv, Rests PROVE QueueInv'
  BY DEF Rests, statVars, QueueInv, QueueTypes, Waiting, LastCurrent,
         OutstandingUnlessCounted, Outstanding, Quiet

LEMMA QueueKept == QueueInv /\ [Next]_vars => QueueInv'
<1> SUFFICES ASSUME QueueInv, [Next]_vars PROVE QueueInv'
  OBVIOUS
<1>1. \/ Counts \/ Loses \/ Rests
      \/ \E t \in Tasks : Queues(t) \/ Leaves(t) \/ \E p \in Pcs : Moves(t, p)
  BY QueueShape DEF QueueInv
<1> QED BY <1>1, CountKeeps, QueuesKeeps, LeavesKeeps, LosesKeeps, MovesKeeps, RestsKeeps

LEMMA QueueInit == Init => QueueInv
<1> SUFFICES ASSUME Init PROVE QueueInv
  OBVIOUS
<1>1. <<>> \in Seq(Msg(0)) /\ 0 \in 0..MaxStat /\ 0 \in 0..0
  BY BoundsAssumption
<1>2. QueueTypes
  BY <1>1 DEF Init, QueueTypes, Pcs
<1>3. Waiting
  BY DEF Init, Waiting
<1>4. LastCurrent /\ OutstandingUnlessCounted
  BY DEF Init, LastCurrent, OutstandingUnlessCounted, Outstanding
<1> QED BY <1>2, <1>3, <1>4 DEF QueueInv

-----------------------------------------------------------------------------
(* The registration of the entities.                                       *)

\* No step but ProxyRegistered makes an inverter task wait for its entities.
LEMMA PublValuesLeaves ==
    ASSUME QueueTypes, NEW i \in Invs, PublValues(i) \/ PublStat(i)
    PROVE  pc'[i] # "inverter" /\ \A j \in Invs \ {i} : pc'[j] = pc[j]
<1>1. \E p \in Pcs \ {"inverter"} : pc' = [pc EXCEPT ![i] = p]
  BY DEF PublValues, PublStat, Publish, At, Pcs
<1>2. Invs \subseteq Tasks
  BY DEF Tasks
<1> QED BY <1>1, <1>2 DEF QueueTypes

\* A step that only ends registrations.
LEMMA HaRests ==
    ASSUME HaInv, UNCHANGED haVars, losses' \in 0..MaxLosses,
           new_data' \in [Invs -> BOOLEAN],
           \A j \in Invs : pc'[j] = "inverter" => pc[j] = "inverter"
    PROVE  HaInv'
<1>1. UNCHANGED <<ha_restarts, seen, begun, regd, restarted>>
  BY DEF haVars
<1>2. HaTypes'
  BY <1>1 DEF HaInv, HaTypes
<1>3. Registering' /\ NotedMeansRegistered'
  BY <1>1 DEF HaInv, Registering, NotedMeansRegistered
<1> QED BY <1>2, <1>3 DEF HaInv

LEMMA HaMqttStep ==
    ASSUME QueueTypes, HaInv,
           Count \/ HaOnline \/ Disconnect \/ MqttStep \/ UNCHANGED vars
    PROVE  HaInv'
<1>1. Mqtt \notin Invs /\ Invs \subseteq Tasks /\ losses \in 0..MaxLosses
      /\ new_data \in [Invs -> BOOLEAN] /\ pc \in [Tasks -> Pcs]
  BY TasksAssumption DEF Tasks, HaInv, HaTypes, QueueTypes
<1>2. CASE Count \/ Connect \/ MqttRegistered \/ StatPublished(Mqtt) \/ UNCHANGED vars
  <2>1. UNCHANGED haVars /\ UNCHANGED <<losses, new_data>>
    BY <1>2 DEF Count, Connect, MqttRegistered, StatPublished, vars, linkVars
  <2>2. \A j \in Invs : pc'[j] = pc[j]
    BY <1>1, <1>2 DEF Count, Connect, MqttRegistered, StatPublished, Publish, At, vars
  <2> QED BY <1>1, <2>1, <2>2, HaRests
<1>3. CASE Disconnect
  <2>1. UNCHANGED haVars /\ UNCHANGED new_data
    BY <1>3 DEF Disconnect
  <2>2. losses' \in 0..MaxLosses
    BY <1>1, <1>3, BoundsAssumption DEF Disconnect
  <2>3. \A j \in Invs : pc'[j] # "inverter"
    BY <1>1, <1>3 DEF Disconnect
  <2> QED BY <1>1, <2>1, <2>2, <2>3, HaRests
<1>4. CASE HaOnline
  <2>1. /\ ha_restarts < MaxRestarts /\ ha_restarts' = ha_restarts + 1
        /\ restarted' = {i \in Invs : pc[i] = "inverter"}
        /\ UNCHANGED <<losses, seen, begun, regd, new_data>>
    BY <1>4 DEF HaOnline, linkVars
  <2>2. \A j \in Invs : pc'[j] = pc[j]
    BY <1>1, <1>4 DEF HaOnline, At
  <2>3. HaTypes'
    BY <2>1, BoundsAssumption DEF HaInv, HaTypes
  <2>4. \A j \in Invs : seen'[j] < ha_restarts'
    BY <2>1 DEF HaInv, HaTypes, Registering
  <2>5. Registering'
    <3> SUFFICES ASSUME NEW j \in Invs
                 PROVE  /\ seen'[j] <= ha_restarts'
                        /\ pc'[j] = "inverter" => begun'[j] = ha_restarts' \/ j \in restarted'
      BY DEF Registering
    <3>1. seen'[j] \in Int /\ ha_restarts' \in Int
      BY <2>3 DEF HaTypes
    <3> QED BY <2>1, <2>2, <2>4, <3>1
  <2>6. NotedMeansRegistered'
    <3> SUFFICES ASSUME NEW j \in Invs PROVE seen'[j] # ha_restarts'
      BY DEF NotedMeansRegistered
    <3>1. seen'[j] \in Int /\ ha_restarts' \in Int
      BY <2>3 DEF HaTypes
    <3> QED BY <2>4, <3>1
  <2> QED BY <2>3, <2>5, <2>6 DEF HaInv
<1> QED BY <1>2, <1>3, <1>4 DEF MqttStep

LEMMA HaInverterStep ==
    ASSUME QueueTypes, HaInv, NEW i \in Invs, PublStart(i) \/ TaskStep(i)
    PROVE  HaInv'
<1>1. /\ i \in Tasks /\ Invs \subseteq Tasks /\ losses \in 0..MaxLosses
      /\ new_data \in [Invs -> BOOLEAN] /\ pc \in [Tasks -> Pcs]
  BY DEF Tasks, HaInv, HaTypes, QueueTypes
<1>2. CASE PublStart(i)
  <2>1. UNCHANGED haVars /\ UNCHANGED losses
    BY <1>2 DEF PublStart, linkVars
  <2>2. new_data' \in [Invs -> BOOLEAN]
    BY <1>1, <1>2 DEF PublStart
  <2>3. CASE PublValues(i)
    BY <1>1, <2>1, <2>2, <2>3, PublValuesLeaves, HaRests
  <2>4. CASE At(i, "proxy") \/ UNCHANGED pc
    <3>1. \A j \in Invs : pc'[j] = "inverter" => pc[j] = "inverter"
      BY <1>1, <2>4 DEF At
    <3> QED BY <1>1, <2>1, <2>2, <3>1, HaRests
  <2> QED BY <1>2, <2>3, <2>4 DEF PublStart
<1>3. CASE DataPublished(i)
  <2>1. UNCHANGED haVars /\ UNCHANGED losses /\ PublStat(i)
    BY <1>3 DEF DataPublished, linkVars
  <2>2. new_data' \in [Invs -> BOOLEAN]
    BY <1>1, <1>3 DEF DataPublished
  <2> QED BY <1>1, <2>1, <2>2, PublValuesLeaves, HaRests
<1>4. CASE StatPublished(i) \/ PublFails(i)
  <2>1. UNCHANGED haVars /\ UNCHANGED <<losses, new_data>> /\ At(i, "idle")
    BY <1>4 DEF StatPublished, PublFails, linkVars
  <2>2. \A j \in Invs : pc'[j] = "inverter" => pc[j] = "inverter"
    BY <1>1, <2>1 DEF At
  <2> QED BY <1>1, <2>1, <2>2, HaRests
<1>5. CASE ProxyRegistered(i)
  <2>1. /\ pc' = [pc EXCEPT ![i] = "inverter"]
        /\ begun' = [begun EXCEPT ![i] = ha_restarts]
        /\ UNCHANGED <<losses, ha_restarts, seen, regd, restarted, new_data>>
    BY <1>5 DEF ProxyRegistered, At, linkVars
  <2>2. HaTypes'
    BY <2>1, BoundsAssumption DEF HaInv, HaTypes
  <2>3. Registering' /\ NotedMeansRegistered'
    BY <1>1, <2>1 DEF HaInv, HaTypes, Registering, NotedMeansRegistered
  <2> QED BY <2>2, <2>3 DEF HaInv
<1>6. CASE InverterRegistered(i)
  <2>1. /\ pc[i] = "inverter" /\ PublValues(i)
        /\ seen' = [seen EXCEPT ![i] = ha_restarts]
        /\ regd' = [regd EXCEPT ![i] = begun[i]]
        /\ UNCHANGED <<losses, ha_restarts, begun, restarted, new_data>>
    BY <1>6 DEF InverterRegistered, linkVars
  <2>2. pc'[i] # "inverter" /\ \A j \in Invs \ {i} : pc'[j] = pc[j]
    BY <2>1, PublValuesLeaves
  <2>3. HaTypes'
    BY <2>1, BoundsAssumption DEF HaInv, HaTypes
  <2>4. Registering'
    BY <2>1, <2>2 DEF HaInv, HaTypes, Registering
  <2>5. NotedMeansRegistered'
    BY <2>1 DEF HaInv, HaTypes, Registering, NotedMeansRegistered
  <2> QED BY <2>3, <2>4, <2>5 DEF HaInv
<1> QED BY <1>2, <1>3, <1>4, <1>5, <1>6 DEF TaskStep

LEMMA HaInit == Init => HaInv
<1> SUFFICES ASSUME Init PROVE HaInv
  OBVIOUS
<1>1. 0 \in 0..MaxLosses /\ 0 \in 0..MaxRestarts /\ -1 \in -1..MaxRestarts
  BY BoundsAssumption
<1>2. HaTypes
  BY <1>1 DEF Init, HaTypes
<1>3. Registering /\ NotedMeansRegistered
  BY DEF Init, Registering, NotedMeansRegistered, Tasks
<1> QED BY <1>2, <1>3 DEF HaInv

-----------------------------------------------------------------------------
(* Both invariants hold in every state of every behaviour.                 *)
THEOREM PublishInvariant == Spec => [](QueueInv /\ HaInv)
<1>1. Init => QueueInv /\ HaInv
  BY QueueInit, HaInit
<1>2. QueueInv /\ HaInv /\ [Next]_vars => (QueueInv /\ HaInv)'
  <2>1. QueueInv /\ HaInv /\ [Next]_vars => HaInv'
    BY HaMqttStep, HaInverterStep DEF Next, QueueInv
  <2> QED BY <2>1, QueueKept
<1> QED BY <1>1, <1>2, PTL DEF Spec

(* Type correctness.                                                       *)
THEOREM PublishTypeCorrect == Spec => []TypeOK
<1>1. QueueInv /\ HaInv => TypeOK
  BY DEF QueueInv, QueueTypes, HaInv, HaTypes, TypeOK, Msg, Pcs
<1> QED BY <1>1, PublishInvariant, PTL

(* When nothing is under way and the counters are not marked as new, the    *)
(* broker has them, whatever connections were lost and whoever publishes:   *)
(* only a change that fell into their publishing can be missing.            *)
THEOREM OutstandingCorrect == Spec => []OutstandingUnlessCounted
<1>1. QueueInv => OutstandingUnlessCounted
  BY DEF QueueInv
<1> QED BY <1>1, PublishInvariant, PTL

(* An inverter that takes the restart of Home Assistant for noted has       *)
(* registered its entities since, or Home Assistant restarted meanwhile.    *)
THEOREM NotedCorrect == Spec => []NotedMeansRegistered
<1>1. HaInv => NotedMeansRegistered
  BY DEF HaInv
<1> QED BY <1>1, PublishInvariant, PTL
==============================================================================
