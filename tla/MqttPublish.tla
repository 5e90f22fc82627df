----------------------------- MODULE MqttPublish -----------------------------
(***************************************************************************)
(* Publishing to the MQTT broker: Proxy (app/src/proxy.py), the method     *)
(* async_publ_mqtt of InverterBase (app/src/inverter_base.py) and the MQTT *)
(* task (app/src/mqtt.py).  The counters of the proxy and the flag          *)
(* new_stat_data['proxy'] are shared: every inverter task publishes them   *)
(* after it has handled data, the MQTT task after (re)connecting and when  *)
(* Home Assistant comes back online, and everybody counts.                 *)
(*                                                                         *)
(* One asyncio event loop; every publish is an await that returns when the *)
(* message has left, in the order of the calls, or raises when the         *)
(* connection is lost.  `pc' names the await a task is waiting in.         *)
(***************************************************************************)
EXTENDS Integers, Sequences

CONSTANTS
    Invs,         \* inverter connections
    Mqtt,         \* the MQTT task
    MaxStat,      \* model bound: changes of the counters
    MaxRestarts,  \* model bound: restarts of Home Assistant
    MaxLosses     \* model bound: lost connections to the broker

ASSUME TasksAssumption == Mqtt \notin Invs
ASSUME BoundsAssumption ==
    MaxStat \in Nat /\ MaxRestarts \in Nat /\ MaxLosses \in Nat

Tasks == Invs \cup {Mqtt}

VARIABLES
    stat,         \* Infos.stat['proxy'], as a version number
    new,          \* Infos.new_stat_data['proxy']
    outq,         \* messages with the counters that have not left yet
    broker,       \* the counters the broker has
    conn,         \* the broker is connected
    losses,       \* bound for the connection losses
    ha_restarts,  \* Mqtt.ha_restarts
    pc,           \* await of each task, or "idle"
    new_data,     \* stream.new_data['inverter'] of each inverter
    seen,         \* InverterBase.__ha_restarts
    begun,        \* history: ha_restarts when the registration began
    regd,         \* history: the ha_restarts the entities were registered for
    counted,      \* history: a change fell into the publishing of the last one
    restarted     \* history: inverters registering when HA restarted

statVars == <<stat, new, outq, broker, counted>>
linkVars == <<conn, losses>>
haVars == <<ha_restarts, seen, begun, regd, restarted>>
vars == <<statVars, linkVars, haVars, pc, new_data>>

Init ==
    /\ stat = 0 /\ new = FALSE /\ outq = <<>> /\ broker = 0 /\ counted = FALSE
    /\ conn = FALSE /\ losses = 0 /\ ha_restarts = 0
    /\ pc = [t \in Tasks |-> "idle"]
    /\ new_data = [i \in Invs |-> FALSE]
    /\ seen = [i \in Invs |-> -1] /\ begun = [i \in Invs |-> -1]
    /\ regd = [i \in Invs |-> -1] /\ restarted = {}

At(t, p) == pc' = [pc EXCEPT ![t] = p]

----------------------------------------------------------------------------
(* The counters                                                            *)

\* inc_counter and dec_counter of Infos and Message
Count ==
    /\ stat < MaxStat
    /\ stat' = stat + 1 /\ new' = TRUE
    /\ counted' = (counted \/ outq # <<>>)
    /\ UNCHANGED <<outq, broker, linkVars, haVars, pc, new_data>>

Publish(t) ==
    /\ At(t, "stat")
    /\ outq' = Append(outq, [by |-> t, val |-> stat])
    /\ counted' = FALSE

\* _async_publ_mqtt_proxy_stat up to its await
PublStat(t) ==
    \/ new /\ Publish(t) /\ UNCHANGED <<stat, new, broker>>
    \/ ~new /\ At(t, "idle") /\ UNCHANGED statVars

\* ... and after it: the flag is cleared.
StatPublished(t) ==
    /\ pc[t] = "stat" /\ Head(outq).by = t
    /\ outq' = Tail(outq) /\ broker' = Head(outq).val
    /\ new' = FALSE /\ At(t, "idle")
    /\ UNCHANGED <<stat, counted, linkVars, haVars, new_data>>

----------------------------------------------------------------------------
(* An inverter task: async_publ_mqtt                                       *)

\* Mutant: entities are registered for new data of the inverter only.
NeedsRegDataOnly(i) == new_data'[i]

NeedsReg(i) == new_data'[i] \/ ha_restarts # seen[i]

\* The values of the inverter, if there are new ones, then the counters.
PublValues(i) ==
    \/ At(i, "data") /\ UNCHANGED statVars
    \/ ~new_data'[i] /\ PublStat(i)

\* Data of the inverter has been handled; inverter values may have changed.
\* Without a connection the first publish raises.
PublStart(i) ==
    /\ pc[i] = "idle"
    /\ \E upd \in BOOLEAN : new_data' = [new_data EXCEPT ![i] = @ \/ upd]
    /\ \/ ~conn /\ UNCHANGED <<statVars, pc>>
       \/ conn /\ NeedsReg(i) /\ At(i, "proxy") /\ UNCHANGED statVars
       \/ conn /\ ~NeedsReg(i) /\ PublValues(i)
    /\ UNCHANGED <<linkVars, haVars>>

\* Mutant: the restart is noted before the entities are registered.
ProxyRegisteredNoted(i) ==
    /\ pc[i] = "proxy" /\ At(i, "inverter")
    /\ begun' = [begun EXCEPT ![i] = ha_restarts]
    /\ seen' = [seen EXCEPT ![i] = ha_restarts]
    /\ UNCHANGED <<statVars, linkVars, ha_restarts, regd, restarted, new_data>>

\* The entities of the proxy are registered, those of the inverter follow.
ProxyRegistered(i) ==
    /\ pc[i] = "proxy" /\ At(i, "inverter")
    /\ begun' = [begun EXCEPT ![i] = ha_restarts]
    /\ UNCHANGED <<statVars, linkVars, ha_restarts, seen, regd, restarted,
                   new_data>>

InverterRegistered(i) ==
    /\ pc[i] = "inverter"
    /\ seen' = [seen EXCEPT ![i] = ha_restarts]
    /\ regd' = [regd EXCEPT ![i] = begun[i]]
    /\ UNCHANGED new_data /\ PublValues(i)
    /\ UNCHANGED <<linkVars, ha_restarts, begun, restarted>>

DataPublished(i) ==
    /\ pc[i] = "data"
    /\ new_data' = [new_data EXCEPT ![i] = FALSE]
    /\ PublStat(i)
    /\ UNCHANGED <<linkVars, haVars>>

\* The exception ends async_publ_mqtt: the rest is left for the next time.
PublFails(i) ==
    /\ pc[i] = "failed" /\ At(i, "idle")
    /\ UNCHANGED <<statVars, linkVars, haVars, new_data>>

----------------------------------------------------------------------------
(* The MQTT task                                                           *)

\* Mutant: each connection initialises the counters again.
ConnectResets ==
    /\ ~conn /\ conn' = TRUE /\ At(Mqtt, "proxy") /\ stat' = 0
    /\ UNCHANGED <<new, outq, broker, counted, losses, haVars, new_data>>

\* The connection is (re)established: _cb_mqtt_is_up begins.
Connect ==
    /\ ~conn /\ conn' = TRUE /\ At(Mqtt, "proxy")
    /\ UNCHANGED <<statVars, losses, haVars, new_data>>

\* _ha_status: Home Assistant is online again.
HaOnline ==
    /\ conn /\ pc[Mqtt] = "idle" /\ ha_restarts < MaxRestarts
    /\ ha_restarts' = ha_restarts + 1 /\ At(Mqtt, "proxy")
    /\ restarted' = {i \in Invs : pc[i] = "inverter"}
    /\ UNCHANGED <<statVars, linkVars, seen, begun, regd, new_data>>

\* Mutant: the counters are sent only if they are marked as new.
MqttRegisteredUnforced ==
    /\ pc[Mqtt] = "proxy" /\ PublStat(Mqtt)
    /\ UNCHANGED <<linkVars, haVars, new_data>>

\* _register_proxy_stat_home_assistant and the sleep are done: force sending.
MqttRegistered ==
    /\ pc[Mqtt] = "proxy" /\ Publish(Mqtt) /\ new' = TRUE
    /\ UNCHANGED <<stat, broker, linkVars, haVars, new_data>>

\* The connection is lost.  What has not left yet may have got through, the
\* awaits end with an exception; the MQTT task tries to connect again.
Disconnect ==
    /\ conn /\ losses < MaxLosses
    /\ conn' = FALSE /\ losses' = losses + 1
    /\ broker' \in {broker} \cup {outq[n].val : n \in 1..Len(outq)}
    /\ outq' = <<>>
    /\ pc' = [t \in Tasks |-> IF t = Mqtt \/ pc[t] = "idle" THEN "idle"
                              ELSE "failed"]
    /\ UNCHANGED <<stat, new, counted, haVars, new_data>>

TaskStep(i) ==
    \/ ProxyRegistered(i) \/ InverterRegistered(i) \/ DataPublished(i)
    \/ StatPublished(i) \/ PublFails(i)
MqttStep == Connect \/ MqttRegistered \/ StatPublished(Mqtt)

Next ==
    \/ Count \/ HaOnline \/ Disconnect \/ MqttStep
    \/ \E i \in Invs : PublStart(i) \/ TaskStep(i)

Spec == Init /\ [][Next]_vars

\* Awaits return, the broker comes back, and the inverters keep sending (a
\* data logger sends a heartbeat every two minutes).
FairSpec ==
    /\ Spec /\ WF_vars(MqttStep)
    /\ \A i \in Invs : WF_vars(TaskStep(i)) /\ WF_vars(PublStart(i))

----------------------------------------------------------------------------
(* Properties                                                              *)

TypeOK ==
    /\ stat \in 0..MaxStat /\ broker \in 0..stat /\ new \in BOOLEAN
    /\ outq \in Seq([by : Tasks, val : 0..stat]) /\ counted \in BOOLEAN
    /\ conn \in BOOLEAN /\ losses \in 0..MaxLosses
    /\ ha_restarts \in 0..MaxRestarts
    /\ pc \in [Tasks -> {"idle", "proxy", "inverter", "data", "stat", "failed"}]
    /\ new_data \in [Invs -> BOOLEAN]
    /\ seen \in [Invs -> -1..MaxRestarts]
    /\ begun \in [Invs -> -1..MaxRestarts]
    /\ regd \in [Invs -> -1..MaxRestarts]
    /\ restarted \subseteq Invs

(* "Publish all outstanding MQTT topics" (async_stream.py:303): counters    *)
(* that the broker does not have are marked as outstanding, when none are   *)
(* under way and the callback for a new connection is done.                 *)
Quiet == conn /\ pc[Mqtt] = "idle" /\ outq = <<>>
Outstanding == Quiet /\ ~new => broker = stat

(* They are, unless somebody counted while they were being published: lost  *)
(* connections, restarts and several publishers alone lose nothing.         *)
OutstandingUnlessCounted == Outstanding \/ counted

(* An inverter that takes the restart of Home Assistant for noted has       *)
(* registered its entities since, unless Home Assistant restarted while it  *)
(* was registering them.                                                    *)
NotedMeansRegistered ==
    \A i \in Invs :
        seen[i] = ha_restarts => regd[i] = ha_restarts \/ i \in restarted

(* After the last restart, and whatever connections are lost, every         *)
(* inverter notes it for good ("or when the home assistant has changed the  *)
(* status back to online", inverter_base.py:163).                           *)
RestartNoted == \A i \in Invs : <>[](seen[i] = ha_restarts)
==============================================================================
