------------------------------ MODULE DailyReset ------------------------------
(***************************************************************************)
(* The daily counters of the inverters and their reset at midnight.  Each  *)
(* connection keeps the values it received in a data base of its own       *)
(* (class Infos, app/src/infos.py) and publishes groups of them, after the *)
(* registration at Home Assistant, which also enters the counters into     *)
(* ClrAtMidnight.  At midnight Schedule.atmidnight (app/src/scheduler.py)  *)
(* publishes a zero for each entry, with an await after every one.         *)
(*                                                                         *)
(* Of an inverter one group with one daily counter is modelled.  Idealised:*)
(* the inverter sets its counter to zero in the moment of midnight, and it *)
(* has one connection at a time.                                           *)
(***************************************************************************)
EXTENDS Integers, Sequences

CONSTANTS
    Config,       \* the configured inverters, in their order
    MaxVal,       \* model bound: value of a daily counter
    MaxDays,      \* model bound: midnights
    MaxDailyConns      \* model bound: connections made in a behaviour

Inverters == {Config[n] : n \in 1..Len(Config)}

ASSUME ConfigAssumption ==
    /\ Config \in Seq(Inverters)
    /\ \A n, k \in 1..Len(Config) : Config[n] = Config[k] => n = k
ASSUME DailyBoundsAssumption == {MaxVal, MaxDays, MaxDailyConns} \subseteq Nat

VARIABLES
    day,
    real,         \* the counter in the inverter
    conn,         \* of a connection: "off", "new", "idle"; "reg", "regval":
                  \* it registers; "val", "regval": the group is to be sent
    db,           \* its value of the counter, and the day it is of
    clr,          \* ClrAtMidnight.db: topics in the order they were added
    mid,          \* the entry atmidnight is at, 0: not running
    size,         \* entries there were when it started
    broker,       \* the value Home Assistant has; `over': see over
    over,         \* history: connections open while atmidnight ran
    failed,       \* history: topics the last atmidnight did not reset
    conns         \* history: number of connections

dailyVars ==
    <<day, real, conn, db, clr, mid, size, broker, over, failed, conns>>
midVars == <<clr, mid, size, failed>>

Absent == -1
NoValue == [val |-> Absent, day |-> 0]
Topics == {clr[n] : n \in 1..Len(clr)}
Connected == {i \in Inverters : conn[i] # "off"}

\* Proxy.class_init has registered the counters of all inverters.
DailyInit ==
    /\ day = 0 /\ real = [i \in Inverters |-> 0]
    /\ conn = [i \in Inverters |-> "off"]
    /\ db = [i \in Inverters |-> NoValue]
    /\ clr = Config /\ mid = 0 /\ size = 0 /\ failed = {}
    /\ broker = [i \in Inverters |-> [val |-> 0, day |-> 0, over |-> FALSE]]
    /\ over = {} /\ conns = 0

Goto(i, to) == conn' = [conn EXCEPT ![i] = to]

----------------------------------------------------------------------------
(* A connection                                                            *)

\* The sun shines.
Produce(i) ==
    /\ real[i] < MaxVal
    /\ real' = [real EXCEPT ![i] = @ + 1]
    /\ UNCHANGED <<day, conn, db, midVars, broker, over, conns>>

Open(i) ==
    /\ conn[i] = "off" /\ conns < MaxDailyConns
    /\ conns' = conns + 1
    /\ Goto(i, "new")
    /\ db' = [db EXCEPT ![i] = NoValue]
    /\ over' = IF mid = 0 THEN over \ {i} ELSE over \cup {i}
    /\ UNCHANGED <<day, real, midVars, broker>>

\* At any await; the data base is gone with the stream.
Disconnect(i) ==
    /\ conn[i] # "off" /\ Goto(i, "off")
    /\ db' = [db EXCEPT ![i] = NoValue]
    /\ UNCHANGED <<day, real, midVars, broker, over, conns>>

\* Mutant: a first value is stored whatever it is.
UpdatesAny(old, v) == old.val = Absent \/ old.val < v

\* update_db for a counter with must_incr.
Updates(old, v) == IF old.val = Absent THEN v > 0 ELSE old.val < v

\* InfosG3P.parse stores a counter that was updated.
Parse(i, v) ==
    IF Updates(db[i], v) THEN [db EXCEPT ![i] = [val |-> v, day |-> day]]
    ELSE db

\* A message is parsed: the counter of the inverter, or the zero it sends for
\* a while after its start.  The first one makes the connection register, and
\* so does a later one that changes the `inverter' group.  The group is marked
\* to be sent if the counter, or another value of the group, was updated.
Message(i) ==
    /\ conn[i] \in {"new", "idle"}
    /\ \E v \in {0, real[i]}, register, other \in BOOLEAN :
          LET send == Updates(db[i], v) \/ other
              reg == register \/ conn[i] = "new"
          IN  /\ db' = Parse(i, v)
              /\ Goto(i, IF send THEN IF reg THEN "regval" ELSE "val"
                          ELSE IF reg THEN "reg" ELSE "idle")
    /\ UNCHANGED <<day, real, midVars, broker, over, conns>>

\* Mutants: a counter is never added; one that is there is added once more.
AddNothing(i) == clr
AddTwice(i) == Append(clr, i)

\* ClrAtMidnight.add
Add(i) == IF i \in Topics THEN clr ELSE Append(clr, i)

\* async_publ_mqtt: all entities are registered, then reg_clr_at_midnight.
Register(i) ==
    /\ conn[i] \in {"reg", "regval"}
    /\ clr' = Add(i)
    /\ Goto(i, IF conn[i] = "regval" THEN "val" ELSE "idle")
    /\ UNCHANGED <<day, real, db, mid, size, failed, broker, over, conns>>

\* __async_publ_mqtt_packet
Publish(i) ==
    /\ conn[i] = "val" /\ Goto(i, "idle")
    /\ broker' = IF db[i].val = Absent THEN broker
                  ELSE [broker EXCEPT ![i] =
                          [val |-> db[i].val, day |-> db[i].day,
                           over |-> i \in over]]
    /\ UNCHANGED <<day, real, db, midVars, over, conns>>

----------------------------------------------------------------------------
(* Schedule.atmidnight                                                     *)

\* elm() yields entry n and its zero is published; or there is none, and the
\* dictionary is replaced by an empty one; or publish raises (no broker).
Step(n, sz, today) ==
    \/ /\ n <= Len(clr)
       /\ broker' = [broker EXCEPT ![clr[n]] =
                       [val |-> 0, day |-> today, over |-> FALSE]]
       /\ mid' = n /\ size' = sz /\ UNCHANGED <<clr, failed>>
    \/ /\ n <= Len(clr)
       /\ failed' = {clr[k] : k \in n..Len(clr)}
       /\ mid' = 0 /\ size' = 0 /\ UNCHANGED <<clr, broker>>
    \/ /\ n > Len(clr)
       /\ clr' = <<>> /\ failed' = {}
       /\ mid' = 0 /\ size' = 0 /\ UNCHANGED broker

Midnight ==
    /\ mid = 0 /\ day < MaxDays
    /\ day' = day + 1 /\ real' = [i \in Inverters |-> 0]
    /\ Step(1, Len(clr), day')
    /\ over' = over \cup Connected
    /\ UNCHANGED <<conn, db, conns>>

\* The next round of the loop; it raises RuntimeError if an entry was added.
Continue ==
    /\ mid # 0
    /\ IF Len(clr) = size
       THEN Step(mid + 1, size, day)
       ELSE /\ failed' = {clr[k] : k \in (mid + 1)..Len(clr)}
            /\ mid' = 0 /\ size' = 0 /\ UNCHANGED <<clr, broker>>
    /\ UNCHANGED <<day, real, conn, db, over, conns>>

DailyNext ==
    \/ \E i \in Inverters :
          \/ Produce(i) \/ Open(i) \/ Disconnect(i) \/ Message(i)
          \/ Register(i) \/ Publish(i)
    \/ Midnight \/ Continue

DailySpec == DailyInit /\ [][DailyNext]_dailyVars

----------------------------------------------------------------------------
(* Properties                                                              *)

Value(lo) == [val : lo..MaxVal, day : 0..MaxDays]

DailyTypeOK ==
    /\ day \in 0..MaxDays /\ real \in [Inverters -> 0..MaxVal]
    /\ conn \in [Inverters -> {"off", "new", "idle", "reg", "regval", "val"}]
    /\ db \in [Inverters -> Value(Absent)]
    /\ clr \in Seq(Inverters)
    /\ \A n, k \in 1..Len(clr) : clr[n] = clr[k] => n = k
    /\ mid \in 0..Len(clr) /\ size \in 0..Len(clr)
    /\ \A i \in Inverters :
          /\ broker[i].val \in 0..MaxVal /\ broker[i].day \in 0..day
          /\ broker[i].over \in BOOLEAN
    /\ over \subseteq Inverters /\ failed \subseteq Inverters
    /\ conns \in 0..MaxDailyConns

(* What Home Assistant shows of a daily counter falls by the reset at       *)
(* midnight, else only from a value of an earlier day: one that the reset   *)
(* has not come to yet or failed to reset, or that a connection sent again  *)
(* which was open while atmidnight ran.  A value of the current day is not  *)
(* followed by a smaller one ("must_incr", infos.py:1095), whatever the     *)
(* inverter sends and however often it reconnects, one connection after the *)
(* other.                                                                   *)
FallNeedsStale ==
    [][\A i \in Inverters :
         broker'[i].val < broker[i].val =>
            \/ mid' # mid /\ broker'[i].val = 0
            \/ /\ broker[i].day < day
               /\ \/ broker[i].over \/ i \in failed
                  \/ mid # 0 /\ \E n \in (mid + 1)..Len(clr) : clr[n] = i
      ]_dailyVars

(* A value of an earlier day stays with Home Assistant only if the reset    *)
(* failed, or if a connection sent it that was open while atmidnight ran:   *)
(* such a connection keeps the old value in its data base and is not        *)
(* registered for the next midnight (infos.py:318, scheduler.py:25).        *)
StaleNeedsOldConnection ==
    \A i \in Inverters :
        mid = 0 /\ broker[i].val > 0 /\ broker[i].day < day =>
            broker[i].over \/ i \in failed
==============================================================================
