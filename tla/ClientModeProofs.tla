-------------------------- MODULE ClientModeProofs --------------------------
(***************************************************************************)
(* Proofs about client mode, for all constants: the emulated logger        *)
(* (SolarmanEmu), the tasks and the shutdown (ModbusTcp), the detection of *)
(* the sensor list (SensorDetect).                                         *)
(***************************************************************************)
EXTENDS MCClientMode, SequenceTheorems, FiniteSetTheorems,
        WellFoundedInduction, TLAPS

-----------------------------------------------------------------------------
(* SolarmanEmu: a connection that answers is never given up as dead.  The  *)
(* invariant says how far the timers and the silence of the cloud can be   *)
(* apart: a timer that has been running since the last answer expires      *)
(* before the silence is long enough.                                      *)

\* Without a connection there is no silence to count; a connection always has
\* its data timer running.
AtRest == IF up THEN data_timer # Off ELSE idle = 0

\* The next data message, and the next heartbeat, come this early.
DataDue == idle + data_timer <= data_up_inv
HbDue(bound) == hb_timer # Off /\ idle + hb_timer <= bound

\* Of what is still to be sent, something is sent in time.
SentInTime ==
    up => /\ unanswered = 0 => DataDue /\ HbDue(hb_timeout)
          /\ unanswered = 1 => DataDue \/ HbDue(2 * hb_timeout)

Timers == EmuTypeOK /\ AtRest /\ SentInTime

-----------------------------------------------------------------------------
(* The numbers the steps below reckon with.                                *)
LEMMA Intervals ==
    /\ hb_default \in HbTimeouts
    /\ data_up_inv \in Nat /\ data_up_inv > 0
    /\ MAX_START_TIME \in Nat /\ data_up_inv < MAX_START_TIME
    /\ Off \in Nat /\ Off > data_up_inv /\ Off > MAX_START_TIME
    /\ \A hb \in HbTimeouts : hb \in Nat /\ hb > 0 /\ 2 * hb < MAX_START_TIME
    /\ MaxFwd \in Nat
  BY EmuTimesAssumption, EmuIntervalsAssumption, MaxFwdAssumption DEF Off

(* At first there is no connection.                                        *)
LEMMA InitTimers == EmuInit => Timers
<1> SUFFICES ASSUME EmuInit PROVE Timers
  OBVIOUS
<1>1. up = FALSE /\ AtRest
  BY DEF EmuInit, AtRest
<1>2. SentInTime
  BY <1>1 DEF SentInTime
<1>3. EmuTypeOK
  <2>1. up \in BOOLEAN
    BY <1>1
  <2>2. emu_fwd = 0 /\ idle = 0 /\ unanswered = 0 /\ hb_timeout = hb_default
    BY DEF EmuInit
  <2>3. hb_timer = Off /\ data_timer = Off
    BY DEF EmuInit
  <2> QED BY <2>1, <2>2, <2>3, Intervals DEF EmuTypeOK
<1> QED BY <1>1, <1>2, <1>3 DEF Timers

(* Messages of the inverter and of the cloud, and the end of a connection. *)
LEMMA MessageTimers ==
    ASSUME Timers,
           \/ EstablishEmu \/ EmuConnect \/ EmuClose \/ EmuDead
           \/ MsgResponse \/ MsgUnknown
    PROVE  Timers'
<1> USE Intervals DEF Timers, EmuTypeOK
<1>1. CASE EstablishEmu
  BY <1>1 DEF EstablishEmu, emuTimers, AtRest, SentInTime, DataDue, HbDue, Off
<1>2. CASE EmuConnect
  <2>1. unanswered' \in 1..2
    BY <1>2 DEF EmuConnect, Up2
  <2>2. EmuTypeOK' /\ AtRest'
    BY <1>2, <2>1 DEF EmuConnect, AtRest, Off
  <2>3. DataDue'
    BY <1>2 DEF EmuConnect, DataDue
  <2>4. SentInTime'
    BY <2>1, <2>3 DEF SentInTime
  <2> QED BY <2>2, <2>4
<1>3. CASE EmuClose \/ EmuDead
  <2>1. up' = FALSE /\ AtRest'
    BY <1>3 DEF EmuDead, EmuClose, AtRest
  <2>2. SentInTime'
    BY <2>1 DEF SentInTime
  <2>3. EmuTypeOK'
    <3>1. up' \in BOOLEAN
      BY <2>1
    <3>2. /\ emu_fwd' = emu_fwd /\ hb_timeout' = hb_timeout
          /\ hb_timer' = Off /\ data_timer' = Off
          /\ idle' = 0 /\ unanswered' = 0
      BY <1>3 DEF EmuDead, EmuClose
    <3>3. Off' = Off
      BY DEF Off
    <3> QED BY <3>1, <3>2, <3>3
  <2> QED BY <2>1, <2>2, <2>3
<1>4. CASE MsgResponse
  BY <1>4 DEF MsgResponse, AtRest, SentInTime, DataDue, HbDue, Off
<1>5. CASE MsgUnknown
  BY <1>5 DEF MsgUnknown, emuTimers, AtRest, SentInTime, DataDue, HbDue, Off
<1> QED BY <1>1, <1>2, <1>3, <1>4, <1>5

(* A timer expires, or time passes.                                        *)
LEMMA TimerTimers ==
    ASSUME Timers, SendHeartbeat \/ SendData \/ EmuTick
    PROVE  Timers'
<1> USE Intervals DEF Timers, EmuTypeOK
<1>1. CASE SendHeartbeat
  <2>1. unanswered' \in 1..2 /\ (unanswered' = 1 => unanswered = 0)
    BY <1>1 DEF SendHeartbeat, Up2
  <2>2. EmuTypeOK' /\ AtRest'
    BY <1>1, <2>1 DEF SendHeartbeat, AtRest, Off
  <2>3. SentInTime'
    BY <1>1, <2>1 DEF SendHeartbeat, SentInTime, DataDue
  <2> QED BY <2>2, <2>3
<1>2. CASE SendData
  <2>1. unanswered' \in 1..2 /\ (unanswered' = 1 => unanswered = 0)
    BY <1>2 DEF SendData, Up2
  <2>2. EmuTypeOK' /\ AtRest'
    BY <1>2, <2>1 DEF SendData, AtRest, Off
  <2>3. up /\ unanswered = 0 => idle <= hb_timeout
    BY DEF SentInTime, HbDue
  <2>4. SentInTime'
    BY <1>2, <2>1, <2>3 DEF SendData, SentInTime, HbDue, Off
  <2> QED BY <2>2, <2>4
<1>3. CASE EmuTick
  <2>1. EmuTypeOK' /\ AtRest'
    BY <1>3 DEF EmuTick, Less, AtRest, Off
  <2>2. data_timer' = data_timer - 1
    BY <1>3 DEF EmuTick, Less, AtRest
  <2>3. HbDue(hb_timeout) => HbDue(hb_timeout)'
    BY <1>3 DEF EmuTick, Less, HbDue, Off
  <2>4. HbDue(2 * hb_timeout) => HbDue(2 * hb_timeout)'
    BY <1>3 DEF EmuTick, Less, HbDue, Off
  <2>5. DataDue => DataDue'
    BY <1>3, <2>2 DEF EmuTick, DataDue, Off
  <2>6. SentInTime'
    BY <1>3, <2>3, <2>4, <2>5 DEF EmuTick, SentInTime
  <2> QED BY <2>1, <2>6
<1> QED BY <1>1, <1>2, <1>3

LEMMA TimersStep == Timers /\ [EmuNext]_emuVars => Timers'
<1> SUFFICES ASSUME Timers, [EmuNext]_emuVars
             PROVE  Timers'
  OBVIOUS
<1>1. CASE EmuNext
  BY <1>1, MessageTimers, TimerTimers DEF EmuNext
<1>2. CASE UNCHANGED emuVars
  BY <1>2 DEF emuVars, Timers, EmuTypeOK, AtRest, SentInTime, DataDue, HbDue, Off
<1> QED BY <1>1, <1>2

(* Every timer of a connection is close enough to the last answer.         *)
THEOREM TimersInvariant == EmuSpec => []Timers
<1> QED BY InitTimers, TimersStep, PTL DEF EmuSpec

(* A connection is given up as dead only after two messages in a row were  *)
(* left without an answer, for all intervals the cloud may ask for.        *)
THEOREM DeadIsSilent == EmuSpec => []DeadNeedsTwoUnanswered
<1>1. Timers => DeadNeedsTwoUnanswered
  <2> SUFFICES ASSUME Timers, idle = MAX_START_TIME
               PROVE  unanswered >= 2
    BY DEF DeadNeedsTwoUnanswered
  <2> USE Intervals DEF Timers, EmuTypeOK
  <2>1. up /\ data_timer \in Nat
    BY DEF AtRest, Off
  <2>2. ~DataDue
    BY <2>1 DEF DataDue
  <2>3. ~HbDue(2 * hb_timeout)
    BY DEF HbDue, Off
  <2> QED BY <2>1, <2>2, <2>3 DEF SentInTime
<1> QED BY <1>1, TimersInvariant, PTL

-----------------------------------------------------------------------------
(* ModbusTcp: the sessions and their tasks.                                *)

\* A session has its inverter, and is the last one of it.
Fresh(c) ==
    /\ session[c] = 0 <=> pc[c] \in {"connect", "sleep", "done"}
    /\ session[c] # 0 =>
         /\ registry[session[c]] = c
         /\ \A r \in Sessions : registry[r] = c => r <= session[c]

\* A session that was told to go: its task is on its way out, or will be.
Going(s) ==
    /\ s \in flagged
    /\ \/ pc[registry[s]] = "done"
       \/ /\ session[registry[s]] = s
          /\ pc[registry[s]] = "exit" => registry[s] \in ending

\* A caught session is the last one; it was told, or still runs and will be.
Held(s) ==
    /\ \A r \in Sessions : registry[r] = registry[s] => r <= s
    /\ Going(s) \/ (Untold(s) /\ Running(s))

\* The shutdown left none out.
Passed == \A s \in 1..pos : Alive(s) => s \in flagged

Caught == caught \ (broke \cup missed)

RunningSessions == {s \in Sessions : Running(s)}

LoopTypes ==
    /\ pc \in [Clients -> {"connect", "enter", "loop", "disc", "exit",
                           "sleep", "done"}]
    /\ registry \in Seq(Clients) /\ session \in [Clients -> 0..Len(registry)]
    /\ link \in [Clients -> {"none", "up", "closing"}]
    /\ closed \subseteq Sessions /\ flagged \subseteq Sessions
    /\ ending \subseteq Clients
    /\ sd \in {"idle", "run", "remote", "half", "wait", "done", "raised"}
    /\ pos \in 0..Len(registry)
    /\ sd \in {"remote", "half"} => pos < Len(registry)
    /\ caught \subseteq Sessions /\ broke \subseteq Sessions
    /\ missed \subseteq Sessions

LoopInv ==
    /\ LoopTypes
    /\ Inverter_Cnt = Cardinality(RunningSessions)
    /\ \A c \in Clients : Fresh(c)
    /\ \A s \in Caught : Held(s)
    /\ Passed

LEMMA LoopParts == LoopInv => LoopTypeOK /\ CaughtIsLast
  BY DEF LoopInv, LoopTypes, LoopTypeOK, RunningSessions, Held, Caught, CaughtIsLast

LEMMA LoopStart == LoopInit => LoopInv
<1> SUFFICES ASSUME LoopInit PROVE LoopInv
  OBVIOUS
<1>1. registry = <<>> /\ Len(registry) = 0 /\ Sessions = {}
  BY DEF LoopInit, Sessions
<1>2. registry \in Seq(Clients)
  BY <1>1, EmptySeq
<1>3. LoopTypes
  BY <1>1, <1>2 DEF LoopInit, LoopTypes
<1>4. Inverter_Cnt = Cardinality(RunningSessions)
  <2>1. RunningSessions = {}
    BY <1>1 DEF RunningSessions
  <2> QED BY <2>1, FS_EmptySet DEF LoopInit
<1>5. \A c \in Clients : Fresh(c)
  BY DEF LoopInit, Fresh
<1>6. Caught = {} /\ pos = 0
  BY DEF LoopInit, Caught
<1>7. Passed
  BY <1>6 DEF Passed
<1> QED BY <1>3, <1>4, <1>5, <1>6, <1>7 DEF LoopInv

LEMMA RunningFinite ==
    ASSUME LoopInv
    PROVE  /\ IsFiniteSet(RunningSessions) /\ Inverter_Cnt \in Nat
           /\ Inverter_Cnt = Cardinality(RunningSessions)
<1>1. Len(registry) \in Nat
  BY LenProperties DEF LoopInv, LoopTypes
<1>2. IsFiniteSet(Sessions)
  BY <1>1, FS_Interval DEF Sessions
<1>3. IsFiniteSet(RunningSessions)
  BY <1>2, FS_Subset DEF RunningSessions
<1> QED BY <1>3, FS_CardinalityType DEF LoopInv

(* Steps that neither make nor end a session.                              *)
LEMMA QuietStep ==
    ASSUME LoopInv, NEW c \in Clients,
           ConnectFails(c) \/ Enter(c) \/ Lost(c) \/ Wake(c)
    PROVE  LoopInv'
<1> USE DEF LoopTypes, Sessions
<1>1. /\ LoopTypes /\ Inverter_Cnt = Cardinality(RunningSessions)
      /\ \A d \in Clients : Fresh(d)
      /\ \A s \in Caught : Held(s)
      /\ Passed
  BY DEF LoopInv
<1>2. /\ UNCHANGED <<session, registry, link, flagged, ending, Inverter_Cnt,
                     sd, pos, caught, broke, missed>>
      /\ closed' \subseteq Sessions
      /\ \E from, to \in {"connect", "enter", "loop", "disc", "sleep"} :
           /\ pc[c] = from /\ pc' = [pc EXCEPT ![c] = to]
           /\ from \in {"connect", "sleep"} <=> to \in {"connect", "sleep"}
  <2>1. CASE ConnectFails(c) \/ Enter(c) \/ Wake(c)
    BY <1>1, <2>1 DEF ConnectFails, Enter, Wake, Goto, sdVars
  <2>2. CASE Lost(c)
    <3>1. pc[c] = "loop" /\ session[c] # 0
      BY <1>1, <2>2 DEF Lost, Goto, Fresh
    <3>2. session[c] \in 0..Len(registry) /\ Len(registry) \in Nat
      BY <1>1, LenProperties
    <3>3. closed' \subseteq Sessions
      <4>1. closed' = closed \cup {session[c]}
        BY <2>2 DEF Lost
      <4>2. session[c] \in Sessions
        BY <3>1, <3>2
      <4>3. closed \subseteq Sessions
        BY <1>1
      <4> QED BY <4>1, <4>2, <4>3
    <3>4. pc' = [pc EXCEPT ![c] = "disc"]
      BY <2>2 DEF Lost, Goto
    <3> QED BY <2>2, <3>1, <3>3, <3>4 DEF Lost, sdVars
  <2> QED BY <2>1, <2>2
<1>3. LoopTypes'
  BY <1>1, <1>2
<1>4. ASSUME NEW d \in Clients PROVE
        /\ pc'[d] = "done" <=> pc[d] = "done"
        /\ pc'[d] = "exit" <=> pc[d] = "exit"
        /\ pc'[d] \in {"connect", "sleep", "done"} <=>
             pc[d] \in {"connect", "sleep", "done"}
        /\ pc'[d] \in {"enter", "loop", "disc"} <=>
             pc[d] \in {"enter", "loop", "disc"}
  BY <1>1, <1>2, <1>4
<1>5. \A s \in Sessions : registry[s] \in Clients
  BY <1>1, ElementOfSeq
<1>6. RunningSessions' = RunningSessions
  BY <1>2, <1>4, <1>5 DEF RunningSessions, Running, Alive
<1>7. \A d \in Clients : Fresh(d)'
  BY <1>1, <1>2, <1>4 DEF Fresh
<1>8. ASSUME NEW s \in Caught' PROVE Held(s)'
  <2>1. s \in Caught /\ registry[s] \in Clients /\ s \in Sessions
    BY <1>1, <1>2, <1>5, <1>8 DEF Caught
  <2>2. Going(s)' \/ (Untold(s) /\ Running(s))'
    BY <1>1, <1>2, <1>4, <2>1 DEF Held, Going, Untold, Running, Alive
  <2> QED BY <1>1, <1>2, <2>1, <2>2 DEF Held
<1>9. Passed'
  BY <1>1, <1>2 DEF Passed, Alive
<1> QED BY <1>1, <1>2, <1>3, <1>6, <1>7, <1>8, <1>9 DEF LoopInv

(* The connection to the cloud is no concern of the session.               *)
LEMMA LinkStep ==
    ASSUME LoopInv, NEW c \in Clients, LinkUp(c) \/ LinkEnds(c)
    PROVE  LoopInv'
<1>1. /\ UNCHANGED <<pc, session, registry, closed, flagged, ending,
                     Inverter_Cnt, sd, pos, caught, broke, missed>>
      /\ \E to \in {"none", "up", "closing"} : link' = [link EXCEPT ![c] = to]
  BY DEF LinkUp, LinkEnds, taskVars, sdVars
<1>2. LoopTypes'
  <2>1. link' \in [Clients -> {"none", "up", "closing"}]
    BY <1>1 DEF LoopInv, LoopTypes
  <2> QED BY <1>1, <2>1 DEF LoopInv, LoopTypes, Sessions
<1>3. RunningSessions' = RunningSessions
  BY <1>1 DEF RunningSessions, Running, Alive, Sessions
<1>4. /\ \A d \in Clients : Fresh(d)'
      /\ \A s \in Caught' : Held(s)'
      /\ Passed'
  BY <1>1 DEF LoopInv, Fresh, Held, Going, Untold, Running, Caught, Passed, Alive,
              Sessions
<1> QED BY <1>1, <1>2, <1>3, <1>4 DEF LoopInv

(* A new session.                                                          *)
LEMMA ConnectedStep ==
    ASSUME LoopInv, NEW c \in Clients, Connected(c)
    PROVE  LoopInv'
<1>1. /\ LoopTypes /\ Inverter_Cnt = Cardinality(RunningSessions)
      /\ \A d \in Clients : Fresh(d)
      /\ \A s \in Caught : Held(s)
      /\ Passed
  BY DEF LoopInv
<1>0. PICK n \in Nat : n = Len(registry)
  BY <1>1, LenProperties DEF LoopTypes
<1>2. n \in Nat /\ \A s \in 1..n : registry[s] \in Clients
  BY <1>0, <1>1, ElementOfSeq DEF LoopTypes
<1>3. /\ registry' \in Seq(Clients) /\ Len(registry') = n + 1
      /\ \A s \in 1..n : registry'[s] = registry[s]
      /\ registry'[n + 1] = c
  BY <1>0, <1>1, AppendProperties DEF Connected, LoopTypes
<1> DEFINE new == n + 1
<1>4. new \in Nat /\ new > n /\ new # 0 /\ new \notin Sessions
  BY <1>0 DEF Sessions
<1>5. Sessions = 1..n /\ Sessions' = 1..new /\ Sessions' = Sessions \cup {new}
  BY <1>0, <1>2, <1>3 DEF Sessions
<1>6. /\ pc[c] = "connect" /\ pc' = [pc EXCEPT ![c] = "enter"]
      /\ session' = [session EXCEPT ![c] = new]
      /\ Inverter_Cnt' = Inverter_Cnt + 1
      /\ UNCHANGED <<link, closed, flagged, ending, sd, pos, caught, broke,
                     missed>>
  BY <1>0 DEF Connected, Goto, sdVars
<1>7. session[c] = 0 /\ registry'[new] = c /\ Len(registry') = new
  BY <1>1, <1>3, <1>6 DEF Fresh
<1> HIDE DEF new
<1>8. /\ pc'[c] = "enter" /\ session'[c] = new
      /\ \A d \in Clients \ {c} : pc'[d] = pc[d] /\ session'[d] = session[d]
  BY <1>1, <1>6 DEF LoopTypes
<1>9. LoopTypes'
  <2>1. pc' \in [Clients -> {"connect", "enter", "loop", "disc", "exit",
                             "sleep", "done"}]
    BY <1>1, <1>6 DEF LoopTypes
  <2>2. session' \in [Clients -> 0..new]
    <3>1. session \in [Clients -> 0..n]
      BY <1>0, <1>1 DEF LoopTypes
    <3> QED BY <1>2, <1>4, <1>6, <3>1
  <2>3. pos \in 0..new /\ (sd \in {"remote", "half"} => pos < new)
    <3>1. pos \in 0..n /\ (sd \in {"remote", "half"} => pos < n)
      BY <1>0, <1>1 DEF LoopTypes
    <3> QED BY <1>2, <1>4, <3>1
  <2> QED BY <1>1, <1>3, <1>5, <1>6, <1>7, <2>1, <2>2, <2>3 DEF LoopTypes
<1>10. ASSUME NEW s \in Sessions
       PROVE  /\ registry'[s] = registry[s] /\ s # new /\ s # 0
              /\ registry[s] \in Clients
              /\ Alive(s)' <=> Alive(s)
              /\ Alive(s) => registry[s] # c
              /\ Running(s)' <=> Running(s)
  <2>1. registry'[s] = registry[s] /\ registry[s] \in Clients /\ s # new /\ s # 0
    BY <1>2, <1>3, <1>4, <1>5, <1>10
  <2>2. CASE registry[s] = c
    BY <1>7, <1>8, <2>1, <2>2 DEF Alive, Running
  <2>3. CASE registry[s] # c
    BY <1>8, <2>1, <2>3 DEF Alive, Running
  <2> QED BY <2>1, <2>2, <2>3
<1>11. Inverter_Cnt' = Cardinality(RunningSessions')
  <2>1. Running(new)'
    BY <1>7, <1>8 DEF Running, Alive
  <2>2. RunningSessions' = RunningSessions \cup {new}
    BY <1>5, <1>10, <2>1 DEF RunningSessions
  <2>3. new \notin RunningSessions
    BY <1>4 DEF RunningSessions
  <2> QED BY <1>6, <2>2, <2>3, RunningFinite, FS_AddElement
<1>12. ASSUME NEW d \in Clients PROVE Fresh(d)'
  <2>1. Fresh(d)
    BY <1>1, <1>12
  <2>2. CASE d = c
    <3>1. \A r \in Sessions' : r <= new
      BY <1>4, <1>5
    <3> QED BY <1>4, <1>7, <1>8, <2>2, <3>1 DEF Fresh
  <2>3. CASE d # c
    <3>1. session[d] \in 0..n
      BY <1>0, <1>1, <1>12 DEF LoopTypes
    <3>2. session[d] # 0 => session[d] \in Sessions
      BY <1>2, <1>5, <3>1
    <3>3. pc'[d] = pc[d] /\ session'[d] = session[d]
      BY <1>8, <1>12, <2>3
    <3>4. session'[d] # 0 => registry'[session'[d]] = d
      BY <1>10, <2>1, <3>2, <3>3 DEF Fresh
    <3>5. ASSUME session'[d] # 0, NEW r \in Sessions', registry'[r] = d
          PROVE  r <= session'[d]
      <4>1. r \in Sessions
        BY <1>5, <1>7, <2>3, <3>5
      <4> QED BY <1>10, <2>1, <3>3, <3>5, <4>1 DEF Fresh
    <3> QED BY <2>1, <3>3, <3>4, <3>5 DEF Fresh
  <2> QED BY <2>2, <2>3
<1>13. ASSUME NEW s \in Caught' PROVE Held(s)'
  <2>1. s \in Sessions /\ Held(s)
    BY <1>1, <1>6, <1>13 DEF LoopTypes, Caught
  <2>2. registry[s] # c
    BY <1>6, <1>7, <1>10, <2>1 DEF Held, Going, Running
  <2>3. /\ registry'[s] = registry[s] /\ pc'[registry[s]] = pc[registry[s]]
        /\ session'[registry[s]] = session[registry[s]]
    BY <1>8, <1>10, <2>1, <2>2
  <2>4. ASSUME NEW r \in Sessions', registry'[r] = registry'[s] PROVE r <= s
    <3>1. r \in Sessions
      BY <1>5, <1>7, <2>2, <2>3, <2>4
    <3> QED BY <1>10, <2>1, <2>3, <2>4, <3>1 DEF Held
  <2>5. Going(s) => Going(s)'
    BY <1>6, <2>3 DEF Going
  <2>6. Untold(s) => Untold(s)'
    BY <1>6 DEF Untold
  <2> QED BY <1>10, <2>1, <2>4, <2>5, <2>6 DEF Held
<1>14. Passed'
  <2> SUFFICES ASSUME NEW s \in 1..pos', Alive(s)' PROVE s \in flagged'
    BY DEF Passed
  <2>1. pos' = pos /\ pos \in 0..n
    BY <1>0, <1>1, <1>6 DEF LoopTypes
  <2>2. s \in 1..pos /\ s \in Sessions
    BY <1>2, <1>5, <2>1
  <2> QED BY <1>1, <1>6, <1>10, <2>2 DEF Passed
<1> QED BY <1>9, <1>11, <1>12, <1>13, <1>14 DEF LoopInv

(* A session ends: normally, or because its disc() raised.                 *)
LEMMA LeaveStep ==
    ASSUME LoopInv, NEW c \in Clients, LoopEnds(c) \/ DiscRaises(c)
    PROVE  LoopInv'
<1>1. /\ LoopTypes /\ Inverter_Cnt = Cardinality(RunningSessions)
      /\ \A d \in Clients : Fresh(d)
      /\ \A s \in Caught : Held(s)
      /\ Passed
  BY DEF LoopInv
<1>2. /\ pc[c] \in {"loop", "disc"} /\ pc' = [pc EXCEPT ![c] = "exit"]
      /\ UNCHANGED <<session, registry, link, closed, flagged, sd, pos, caught>>
      /\ Inverter_Cnt' = Inverter_Cnt - 1
      /\ \/ /\ broke' = broke
            /\ ending' = IF session[c] \in flagged
                         THEN ending \cup {c} ELSE ending
            /\ missed' = IF Untold(session[c]) THEN missed \cup {session[c]}
                         ELSE missed
         \/ /\ broke' = broke \cup {session[c]} /\ ending' = ending
            /\ missed' = missed
  BY DEF LoopEnds, DiscRaises, Leave, Goto, sdVars
<1>3. PICK s0 \in Sessions : session[c] = s0 /\ registry[s0] = c
  <2>1. session[c] \in 0..Len(registry) /\ Len(registry) \in Nat
    BY <1>1, LenProperties DEF LoopTypes
  <2>2. session[c] # 0 /\ registry[session[c]] = c
    BY <1>1, <1>2 DEF Fresh
  <2> QED BY <2>1, <2>2 DEF Sessions
<1>4. /\ pc'[c] = "exit"
      /\ \A d \in Clients \ {c} : pc'[d] = pc[d]
  BY <1>1, <1>2 DEF LoopTypes
<1>5. Sessions' = Sessions /\ \A s \in Sessions : registry[s] \in Clients
  BY <1>1, <1>2, ElementOfSeq DEF LoopTypes, Sessions
<1>6. LoopTypes'
  <2>1. ending' \subseteq Clients
    BY <1>1, <1>2 DEF LoopTypes
  <2>2. broke' \subseteq Sessions /\ missed' \subseteq Sessions
    BY <1>1, <1>2, <1>3 DEF LoopTypes
  <2> QED BY <1>1, <1>2, <1>5, <2>1, <2>2 DEF LoopTypes
<1>7. Inverter_Cnt' = Cardinality(RunningSessions')
  <2>1. s0 \in RunningSessions
    BY <1>2, <1>3 DEF RunningSessions, Running, Alive
  <2>2. ASSUME NEW s \in Sessions
        PROVE  Running(s)' <=> Running(s) /\ s # s0
    <3>1. registry[s] \in Clients /\ registry' = registry /\ session' = session
      BY <1>2, <1>5, <2>2
    <3>2. CASE registry[s] = c
      BY <1>2, <1>3, <1>4, <3>1, <3>2 DEF Running, Alive
    <3>3. CASE registry[s] # c
      BY <1>3, <1>4, <3>1, <3>3 DEF Running, Alive
    <3> QED BY <3>2, <3>3
  <2>3. RunningSessions' = RunningSessions \ {s0}
    BY <1>5, <2>2 DEF RunningSessions
  <2> QED BY <1>2, <2>1, <2>3, RunningFinite, FS_RemoveElement
<1>8. \A d \in Clients : Fresh(d)'
  BY <1>1, <1>2, <1>4, <1>5 DEF Fresh
<1>9. ASSUME NEW s \in Caught' PROVE Held(s)'
  <2>1. s \in Sessions /\ Held(s) /\ registry[s] \in Clients
    BY <1>1, <1>2, <1>5, <1>9 DEF LoopTypes, Caught
  <2>2. CASE registry[s] # c
    <3>1. Going(s) => Going(s)'
      BY <1>2, <1>4, <2>1, <2>2 DEF Going
    <3>2. Untold(s) /\ Running(s) => (Untold(s) /\ Running(s))'
      BY <1>2, <1>4, <2>1, <2>2 DEF Untold, Running, Alive
    <3> QED BY <1>2, <1>5, <2>1, <3>1, <3>2 DEF Held
  <2>3. CASE registry[s] = c
    <3>1. s = s0
      BY <1>2, <1>3, <2>1, <2>3 DEF Held, Going, Running, Alive
    <3>2. s \notin broke' /\ s \notin missed'
      BY <1>9 DEF Caught
    <3>3. ~Untold(s)
      BY <1>2, <1>3, <3>1, <3>2
    <3>4. Going(s) /\ ending' = ending \cup {c}
      BY <1>2, <1>3, <2>1, <3>1, <3>2, <3>3 DEF Held, Going
    <3>5. Going(s)'
      BY <1>2, <1>3, <2>3, <3>1, <3>4 DEF Going
    <3> QED BY <1>2, <1>5, <2>1, <3>5 DEF Held
  <2> QED BY <2>2, <2>3
<1>10. Passed'
  BY <1>1, <1>2 DEF Passed, Alive
<1> QED BY <1>6, <1>7, <1>8, <1>9, <1>10 DEF LoopInv

(* The inverter of a session is gone.                                      *)
LEMMA ExitStep ==
    ASSUME LoopInv, NEW c \in Clients, Exit(c)
    PROVE  LoopInv'
<1>1. /\ LoopTypes /\ Inverter_Cnt = Cardinality(RunningSessions)
      /\ \A d \in Clients : Fresh(d)
      /\ \A s \in Caught : Held(s)
      /\ Passed
  BY DEF LoopInv
<1>2. /\ pc[c] = "exit" /\ session' = [session EXCEPT ![c] = 0]
      /\ pc' = [pc EXCEPT ![c] = IF c \in ending THEN "done" ELSE "sleep"]
      /\ closed' = closed \cup {session[c]}
      /\ link' = [link EXCEPT ![c] = "none"]
      /\ UNCHANGED <<registry, flagged, ending, Inverter_Cnt, sd, pos, caught,
                     broke, missed>>
  BY DEF Exit, Goto, sdVars
<1>3. PICK s0 \in Sessions : session[c] = s0 /\ registry[s0] = c
  <2>1. session[c] \in 0..Len(registry) /\ Len(registry) \in Nat
    BY <1>1, LenProperties DEF LoopTypes
  <2>2. session[c] # 0 /\ registry[session[c]] = c
    BY <1>1, <1>2 DEF Fresh
  <2> QED BY <2>1, <2>2 DEF Sessions
<1>4. /\ pc'[c] \in {"done", "sleep"} /\ session'[c] = 0
      /\ c \in ending => pc'[c] = "done"
      /\ \A d \in Clients \ {c} : pc'[d] = pc[d] /\ session'[d] = session[d]
  BY <1>1, <1>2 DEF LoopTypes
<1>5. /\ Sessions' = Sessions
      /\ \A s \in Sessions : registry[s] \in Clients /\ s # 0
  BY <1>1, <1>2, ElementOfSeq DEF LoopTypes, Sessions
<1>6. LoopTypes'
  <2>1. closed' \subseteq Sessions
    BY <1>1, <1>2, <1>3 DEF LoopTypes
  <2>2. session' \in [Clients -> 0..Len(registry)]
    <3>1. 0 \in 0..Len(registry)
      BY <1>1, LenProperties DEF LoopTypes
    <3> QED BY <1>1, <1>2, <3>1 DEF LoopTypes
  <2>3. pc' \in [Clients -> {"connect", "enter", "loop", "disc", "exit",
                             "sleep", "done"}]
    BY <1>1, <1>2 DEF LoopTypes
  <2>4. link' \in [Clients -> {"none", "up", "closing"}]
    BY <1>1, <1>2 DEF LoopTypes
  <2> QED BY <1>1, <1>2, <1>5, <2>1, <2>2, <2>3, <2>4 DEF LoopTypes
<1>7. ASSUME NEW s \in Sessions
      PROVE  (Running(s)' <=> Running(s)) /\ (Alive(s)' => Alive(s))
  <2>1. registry[s] \in Clients /\ registry' = registry /\ s # 0
    BY <1>2, <1>5, <1>7
  <2>2. CASE registry[s] = c
    BY <1>2, <1>4, <2>1, <2>2 DEF Running, Alive
  <2>3. CASE registry[s] # c
    BY <1>4, <2>1, <2>3 DEF Running, Alive
  <2> QED BY <2>2, <2>3
<1>8. RunningSessions' = RunningSessions
  BY <1>5, <1>7 DEF RunningSessions
<1>9. \A d \in Clients : Fresh(d)'
  BY <1>1, <1>2, <1>4, <1>5 DEF Fresh
<1>10. ASSUME NEW s \in Caught' PROVE Held(s)'
  <2>1. s \in Sessions /\ Held(s) /\ registry[s] \in Clients
    BY <1>1, <1>2, <1>5, <1>10 DEF LoopTypes, Caught
  <2>2. Untold(s) /\ Running(s) => (Untold(s) /\ Running(s))'
    BY <1>2, <1>7, <2>1 DEF Untold
  <2>3. Going(s) => Going(s)'
    <3>1. CASE registry[s] # c
      BY <1>2, <1>4, <2>1, <3>1 DEF Going
    <3>2. CASE registry[s] = c
      BY <1>2, <1>4, <2>1, <3>2 DEF Going
    <3> QED BY <3>1, <3>2
  <2> QED BY <1>2, <1>5, <2>1, <2>2, <2>3 DEF Held
<1>11. Passed'
  <2> SUFFICES ASSUME NEW s \in 1..pos', Alive(s)' PROVE s \in flagged'
    BY DEF Passed
  <2>1. pos \in 0..Len(registry) /\ Len(registry) \in Nat /\ pos' = pos
    BY <1>1, <1>2, LenProperties DEF LoopTypes
  <2>2. s \in Sessions /\ s \in 1..pos
    BY <2>1 DEF Sessions
  <2> QED BY <1>1, <1>2, <1>7, <2>2 DEF Passed
<1> QED BY <1>1, <1>2, <1>6, <1>8, <1>9, <1>10, <1>11 DEF LoopInv

(* A set of numbers has a least one.                                       *)
LEMMA LeastNumber ==
    ASSUME NEW W, W \subseteq Nat, W # {}
    PROVE  \E least \in W : \A s \in W : least <= s
<1> DEFINE Below == OpToRel(<, Nat)
<1>1. IsWellFoundedOn(Below, Nat)
  BY NatLessThanWellFounded
<1>2. \A x, y \in Nat : x < y => <<x, y>> \in Below
  BY DEF OpToRel
<1> HIDE DEF Below
<1>3. PICK least \in W : \A s \in W : <<s, least>> \notin Below
  BY <1>1, WFMin
<1>4. ASSUME NEW s \in W PROVE least <= s
  <2>1. least \in Nat /\ s \in Nat
    BY <1>3, <1>4
  <2>2. ~(s < least)
    BY <1>2, <1>3, <1>4, <2>1
  <2> QED BY <2>1, <2>2
<1> QED BY <1>3, <1>4

(* The first session the shutdown has to wait for, if there is one.        *)
LEMMA NextPosIs ==
    ASSUME LoopInv
    PROVE  \/ NextPos = 0 /\ \A s \in Sessions : ~Waits(s)
           \/ NextPos \in Sessions /\ Waits(NextPos)
<1>1. CASE \A s \in Sessions : ~Waits(s)
  BY <1>1 DEF NextPos, Sessions
<1>2. CASE \E s \in Sessions : Waits(s)
  <2> DEFINE W == {s \in Sessions : Waits(s)}
  <2>1. W \subseteq Nat /\ W # {}
    BY <1>2 DEF Sessions
  <2> HIDE DEF W
  <2>2. PICK least \in W : \A s \in W : least <= s
    BY <2>1, LeastNumber
  <2>3. least \in Sessions /\ Waits(least)
    BY <2>2 DEF W
  <2>4. ASSUME NEW r \in 1..(least - 1), Waits(r) PROVE FALSE
    <3>1. r \in Sessions /\ least \in Nat /\ r \in Nat
      <4>1. Len(registry) \in Nat
        BY LenProperties DEF LoopInv, LoopTypes
      <4> QED BY <2>3, <2>4, <4>1 DEF Sessions
    <3>2. least <= r
      BY <2>2, <2>4, <3>1 DEF W
    <3> QED BY <2>4, <3>1, <3>2
  <2>5. \E s \in Sessions : Waits(s) /\ \A r \in 1..(s - 1) : ~Waits(r)
    BY <2>3, <2>4
  <2> QED BY <1>2, <2>5 DEF NextPos, Sessions
<1> QED BY <1>1, <1>2

(* What one visit does: the inverters up to `last' are told to go, but the *)
(* next one if the end of its connection to the cloud is awaited.          *)
LEMMA VisitShape ==
    ASSUME LoopInv, Visit
    PROVE  \E last \in pos..Len(registry), new \in SUBSET Sessions :
             /\ pos' = last
             /\ flagged' = flagged \cup {s \in (pos + 1)..last : Alive(s)}
             /\ closed' = closed \cup {s \in (pos + 1)..last : Alive(s)}
             /\ caught' = caught \cup {s \in (pos + 1)..last : Running(s)}
                                \cup {s \in new : Running(s)}
             /\ link' \in [Clients -> {"none", "up", "closing"}]
             /\ \/ new = {} /\ sd' \in {"done", "wait"}
                \/ /\ new = {last + 1} /\ sd' = "remote"
                   /\ last < Len(registry) /\ ~Untold(last + 1)
             /\ sd' = "done" => last = Len(registry)
             /\ sd' = "wait" => last > pos
             /\ UNCHANGED <<pc, session, registry, ending, Inverter_Cnt, broke,
                            missed>>
<1>1. PICK len \in Nat : len = Len(registry) /\ pos \in 0..len
  BY LenProperties DEF LoopInv, LoopTypes
<1>2. /\ NextPos \in 0..len
      /\ NextPos # 0 => NextPos > pos /\ Alive(NextPos)
  BY <1>1, NextPosIs DEF Sessions, Waits
<1>3. /\ caught' = caught \cup {s \in Seen : Running(s)}
      /\ flagged' = flagged \cup Told /\ closed' = closed \cup Told
      /\ sd \in {"run", "half"}
      /\ UNCHANGED <<pc, session, registry, ending, Inverter_Cnt, broke, missed>>
  BY DEF Visit, DiscAll, taskVars
<1>4. link \in [Clients -> {"none", "up", "closing"}]
  BY DEF LoopInv, LoopTypes
<1>5. CASE WaitsForLink
  <2>1. PICK next \in 1..len : next = NextPos /\ next > pos /\ Linked(next)
    BY <1>1, <1>2, <1>5 DEF WaitsForLink
  <2>2. LastPos = next /\ Seen = {s \in (pos + 1)..next : Alive(s)}
        /\ Told = Seen \ {next}
    BY <1>1, <1>5, <2>1 DEF LastPos, Seen, Told
  <2>3. /\ pos' = next - 1 /\ sd' = "remote"
        /\ link' = [link EXCEPT ![registry[next]] = "closing"]
    BY <1>5, <2>1 DEF Visit, DiscAll
  <2>4. PICK last \in pos..len : next = last + 1 /\ last = next - 1 /\ last < len
    <3>1. next - 1 \in pos..len /\ next = (next - 1) + 1 /\ next - 1 < len
      BY <1>1, <2>1
    <3> QED BY <3>1
  <2>5. \A s \in (pos + 1)..next : s # next <=> s \in (pos + 1)..last
    BY <1>1, <2>1, <2>4
  <2>6. \A s \in (pos + 1)..last : s \in (pos + 1)..next
    BY <1>1, <2>1, <2>4
  <2>7. next \in (pos + 1)..next
    BY <1>1, <2>1
  <2>8. Told = {s \in (pos + 1)..last : Alive(s)}
    BY <2>2, <2>5, <2>6
  <2>9. {s \in Seen : Running(s)} = {s \in (pos + 1)..last : Running(s)}
                                      \cup {s \in {next} : Running(s)}
    BY <2>2, <2>5, <2>6, <2>7 DEF Running
  <2>10. ~Untold(next)
    <3>1. sd # "remote" /\ ~(sd = "half" /\ next = pos + 1)
      BY <1>3, <2>1 DEF Linked
    <3> QED BY <3>1 DEF Untold
  <2>11. link' \in [Clients -> {"none", "up", "closing"}]
    BY <1>4, <2>3
  <2>12. pos' = last /\ {last + 1} = {next} /\ next = last + 1
    BY <2>3, <2>4
  <2>13. caught' = caught \cup {s \in (pos + 1)..last : Running(s)}
                         \cup {s \in {next} : Running(s)}
    BY <1>3, <2>9
  <2>14. {next} \in SUBSET Sessions
    BY <1>1 DEF Sessions
  <2> WITNESS last \in pos..Len(registry), {next} \in SUBSET Sessions
  <2>15. ~Untold(last + 1) /\ last < Len(registry)
    BY <1>1, <2>4, <2>10
  <2>16. /\ flagged' = flagged \cup {s \in (pos + 1)..last : Alive(s)}
         /\ closed' = closed \cup {s \in (pos + 1)..last : Alive(s)}
    BY <1>3, <2>8
  <2> QED BY <1>3, <2>3, <2>11, <2>12, <2>13, <2>15, <2>16
<1>6. CASE ~WaitsForLink
  <2>1. PICK last \in pos..len : /\ last = LastPos
                                 /\ NextPos = 0 => last = len
                                 /\ NextPos # 0 => last > pos
    BY <1>1, <1>2 DEF LastPos
  <2>2. /\ Told = {s \in (pos + 1)..last : Alive(s)} /\ Seen = Told
        /\ pos' = last /\ link' = link
        /\ sd' = IF NextPos = 0 THEN "done" ELSE "wait"
    BY <1>6, <2>1 DEF Told, Seen, Visit, DiscAll
  <2>3. {s \in Seen : Running(s)} = {s \in (pos + 1)..last : Running(s)}
    BY <2>2 DEF Running
  <2>4. caught' = caught \cup {s \in (pos + 1)..last : Running(s)}
                        \cup {s \in {} : Running(s)}
    BY <1>3, <2>3
  <2>5. sd' \in {"done", "wait"} /\ (sd' = "done" => last = len)
        /\ (sd' = "wait" => last > pos)
    BY <2>1, <2>2
  <2>6. last \in pos..Len(registry)
    BY <1>1
  <2> WITNESS last \in pos..Len(registry), {} \in SUBSET Sessions
  <2> QED BY <1>1, <1>3, <1>4, <2>2, <2>4, <2>5
<1> QED BY <1>5, <1>6

LEMMA VisitStep ==
    ASSUME LoopInv, Visit
    PROVE  LoopInv'
<1>1. /\ LoopTypes /\ Inverter_Cnt = Cardinality(RunningSessions)
      /\ \A d \in Clients : Fresh(d)
      /\ \A s \in Caught : Held(s)
      /\ Passed
  BY DEF LoopInv
<1>2. PICK last \in pos..Len(registry), new \in SUBSET Sessions :
        /\ pos' = last
        /\ flagged' = flagged \cup {s \in (pos + 1)..last : Alive(s)}
        /\ closed' = closed \cup {s \in (pos + 1)..last : Alive(s)}
        /\ caught' = caught \cup {s \in (pos + 1)..last : Running(s)}
                           \cup {s \in new : Running(s)}
        /\ link' \in [Clients -> {"none", "up", "closing"}]
        /\ \/ new = {} /\ sd' \in {"done", "wait"}
           \/ /\ new = {last + 1} /\ sd' = "remote"
              /\ last < Len(registry) /\ ~Untold(last + 1)
        /\ sd' = "done" => last = Len(registry)
        /\ sd' = "wait" => last > pos
        /\ UNCHANGED <<pc, session, registry, ending, Inverter_Cnt, broke, missed>>
  BY VisitShape
<1>3. Len(registry) \in Nat /\ pos \in 0..Len(registry) /\ last \in Nat
  BY <1>1, <1>2, LenProperties DEF LoopTypes
<1>4. /\ Sessions' = Sessions /\ (pos + 1)..last \subseteq Sessions
      /\ new \subseteq Sessions
      /\ \A s \in Sessions : registry[s] \in Clients
      /\ \A s \in 1..last : s \in 1..pos \/ s \in (pos + 1)..last
  BY <1>1, <1>2, <1>3, ElementOfSeq DEF LoopTypes, Sessions
<1>5. LoopTypes'
  <2>1. pos' \in 0..Len(registry)
    BY <1>2, <1>3
  <2>2. flagged' \subseteq Sessions /\ caught' \subseteq Sessions
        /\ closed' \subseteq Sessions
    BY <1>1, <1>2, <1>4 DEF LoopTypes
  <2>3. /\ sd' \in {"idle", "run", "remote", "half", "wait", "done", "raised"}
        /\ sd' \in {"remote", "half"} => pos' < Len(registry')
    BY <1>2
  <2> QED BY <1>1, <1>2, <1>4, <2>1, <2>2, <2>3 DEF LoopTypes
<1>6. RunningSessions' = RunningSessions
  BY <1>2, <1>4 DEF RunningSessions, Running, Alive
<1>7. \A d \in Clients : Fresh(d)'
  BY <1>1, <1>2, <1>4 DEF Fresh
<1>8. ASSUME NEW s \in Sessions, Running(s)
      PROVE  /\ Running(s)' /\ Alive(s) /\ registry[s] \in Clients
             /\ \A r \in Sessions' : registry'[r] = registry'[s] => r <= s
             /\ s \in flagged' => Going(s)'
  <2>1. registry[s] \in Clients /\ s # 0
    BY <1>4, <1>8 DEF Sessions
  <2>2. session[registry[s]] = s /\ Alive(s)
        /\ pc[registry[s]] \in {"enter", "loop", "disc"}
    BY <1>8 DEF Running, Alive
  <2>3. Running(s)'
    BY <1>2, <2>2 DEF Running, Alive
  <2>4. \A r \in Sessions : registry[r] = registry[s] => r <= s
    BY <1>1, <2>1, <2>2 DEF Fresh
  <2>5. s \in flagged' => Going(s)'
    BY <1>2, <2>2 DEF Going
  <2> QED BY <1>2, <1>4, <2>1, <2>2, <2>3, <2>4, <2>5
<1>9. ASSUME NEW s \in Caught' PROVE Held(s)'
  <2>1. s \in Sessions /\ s \notin broke /\ s \notin missed /\ s \in caught'
    BY <1>2, <1>4, <1>5, <1>9 DEF Caught, LoopTypes
  <2>2. CASE s \in (pos + 1)..last /\ Running(s)
    <3>1. s \in flagged'
      BY <1>2, <1>8, <2>1, <2>2
    <3> QED BY <1>8, <2>1, <2>2, <3>1 DEF Held
  <2>3. CASE s \in new /\ Running(s)
    <3>1. s = last + 1 /\ sd' = "remote" /\ pos' = last
      BY <1>2, <2>3
    <3>2. Untold(s)'
      BY <3>1 DEF Untold
    <3> QED BY <1>8, <2>1, <2>3, <3>2 DEF Held
  <2>4. CASE s \in caught
    <3>1. Held(s)
      BY <1>1, <2>1, <2>4 DEF Caught
    <3>2. CASE Going(s)
      <4>1. Going(s)'
        BY <1>2, <3>2 DEF Going
      <4> QED BY <1>2, <1>4, <3>1, <4>1 DEF Held
    <3>3. CASE Untold(s) /\ Running(s)
      <4>1. s = pos + 1
        BY <3>3 DEF Untold
      <4>2. s \in (pos + 1)..last \/ last = pos
        BY <1>2, <1>3, <4>1
      <4>3. last # pos
        <5> SUFFICES ASSUME last = pos PROVE FALSE
          OBVIOUS
        <5>1. Untold(last + 1)
          BY <3>3, <4>1
        <5>2. sd' = "done" /\ pos = Len(registry)
          BY <1>2, <1>3, <5>1
        <5>3. s <= Len(registry)
          BY <1>3, <2>1 DEF Sessions
        <5> QED BY <1>3, <4>1, <5>2, <5>3
      <4> QED BY <2>2, <3>3, <4>2, <4>3
    <3> QED BY <3>1, <3>2, <3>3 DEF Held
  <2> QED BY <1>2, <2>1, <2>2, <2>3, <2>4
<1>10. Passed'
  <2> SUFFICES ASSUME NEW s \in 1..last, Alive(s) PROVE s \in flagged'
    BY <1>2 DEF Passed, Alive
  <2> QED BY <1>1, <1>2, <1>4 DEF Passed
<1> QED BY <1>1, <1>2, <1>5, <1>6, <1>7, <1>9, <1>10 DEF LoopInv

(* The end of an await of the shutdown.                                    *)
LEMMA VisitedStep ==
    ASSUME LoopInv, Visited
    PROVE  LoopInv'
<1>1. UNCHANGED <<pc, session, registry, link, closed, flagged, ending,
                  Inverter_Cnt, pos, caught, broke>>
  BY DEF Visited, taskVars
<1>2. \/ sd = "wait" /\ sd' \in {"run", "raised"} /\ missed' = missed
      \/ sd = "remote" /\ sd' = "half" /\ missed' = missed
      \/ sd = "remote" /\ sd' = "raised" /\ missed' = missed \cup {pos + 1}
  BY DEF Visited
<1>3. Sessions' = Sessions /\ (sd = "remote" => pos + 1 \in Sessions)
  <2>1. Len(registry) \in Nat /\ pos \in 0..Len(registry)
    BY LenProperties DEF LoopInv, LoopTypes
  <2>2. sd = "remote" => pos < Len(registry)
    BY DEF LoopInv, LoopTypes
  <2> QED BY <1>1, <2>1, <2>2 DEF Sessions
<1>4. LoopTypes'
  <2>1. missed' \subseteq Sessions
    BY <1>2, <1>3 DEF LoopInv, LoopTypes
  <2>2. /\ sd' \in {"idle", "run", "remote", "half", "wait", "done", "raised"}
        /\ sd' \in {"remote", "half"} => pos < Len(registry)
    BY <1>2 DEF LoopInv, LoopTypes
  <2> QED BY <1>1, <1>3, <2>1, <2>2 DEF LoopInv, LoopTypes
<1>5. RunningSessions' = RunningSessions
  BY <1>1 DEF RunningSessions, Running, Alive, Sessions
<1>6. (\A c \in Clients : Fresh(c)') /\ Passed'
  BY <1>1 DEF LoopInv, Fresh, Passed, Alive, Sessions
<1>7. ASSUME NEW s \in Caught' PROVE Held(s)'
  <2>1. s \in Caught /\ s \notin missed'
    BY <1>1, <1>2, <1>7 DEF Caught
  <2>2. Held(s)
    BY <2>1 DEF LoopInv
  <2>3. Untold(s) => Untold(s)'
    BY <1>1, <1>2, <2>1 DEF Untold
  <2>4. Running(s) => Running(s)'
    BY <1>1 DEF Running, Alive
  <2>5. Going(s) => Going(s)'
    BY <1>1 DEF Going
  <2> QED BY <1>1, <1>3, <2>2, <2>3, <2>4, <2>5 DEF Held
<1> QED BY <1>1, <1>4, <1>5, <1>6, <1>7 DEF LoopInv

LEMMA LoopStep == LoopInv /\ [LoopNext]_loopVars => LoopInv'
<1> SUFFICES ASSUME LoopInv, [LoopNext]_loopVars PROVE LoopInv'
  OBVIOUS
<1>1. ASSUME NEW c \in Clients, Task(c) PROVE LoopInv'
  BY <1>1, QuietStep, LinkStep, ConnectedStep, LeaveStep, ExitStep DEF Task
<1>2. CASE Visit
  BY <1>2, VisitStep
<1>3. CASE Visited
  BY <1>3, VisitedStep
<1>4. CASE ShutdownStart \/ UNCHANGED loopVars
  <2>1. /\ UNCHANGED <<pc, session, registry, link, closed, flagged, ending,
                       Inverter_Cnt, pos, caught, broke, missed>>
        /\ sd' = sd \/ (sd = "idle" /\ sd' = "run")
    BY <1>4 DEF ShutdownStart, loopVars, taskVars
  <2>2. LoopTypes'
    BY <2>1 DEF LoopInv, LoopTypes, Sessions
  <2>3. RunningSessions' = RunningSessions
    BY <2>1 DEF RunningSessions, Running, Alive, Sessions
  <2>4. (\A c \in Clients : Fresh(c)') /\ Passed'
    BY <2>1 DEF LoopInv, Fresh, Passed, Alive, Sessions
  <2>5. \A s \in Caught' : Held(s)'
    BY <2>1 DEF LoopInv, Held, Going, Untold, Running, Caught, Alive, Sessions
  <2> QED BY <2>1, <2>2, <2>3, <2>4, <2>5 DEF LoopInv
<1> QED BY <1>1, <1>2, <1>3, <1>4 DEF LoopNext, Shutdown

(* The whole of the inductive invariant: which session is whose, those the  *)
(* shutdown passed were told, and one it came to while it ran was told too, *)
(* or waits for the end of its connection to the cloud (modbus_loop,        *)
(* handle_shutdown, InverterBase.disc).                                     *)
THEOREM LoopInvariant == LoopSpec => []LoopInv
<1> QED BY LoopStart, LoopStep, PTL DEF LoopSpec

(* The types, and that Inverter_Cnt counts the sessions that run, for any   *)
(* number of inverters (counters of modbus_tcp.py, ModbusConn).             *)
THEOREM LoopTypeCorrect == LoopSpec => []LoopTypeOK
<1> QED BY LoopInvariant, LoopParts, PTL

(* An inverter whose session runs when the shutdown comes to it does not    *)
(* connect again (modbus_loop returns), unless its own disc() raised, or it *)
(* ended, or the disc() of its connection to the cloud raised, before it    *)
(* was told (InverterBase.disc), for any number of inverters.               *)
THEOREM CaughtCorrect == LoopSpec => []CaughtIsLast
<1> QED BY LoopInvariant, LoopParts, PTL

(* A shutdown that ends without an exception has reached every session that *)
(* runs (handle_shutdown), for any number of inverters.                     *)
THEOREM ReachedCorrect == LoopSpec => AllReached
<1> DEFINE Reached ==
      sd' = "done" /\ sd # "done" =>
        \A s \in Sessions : Running(s) => s \in flagged'
<1>1. ASSUME LoopInv, LoopNext, sd' = "done", sd # "done",
             NEW s \in Sessions, Running(s)
      PROVE  s \in flagged'
  <2>1. Visit
    BY <1>1 DEF LoopNext, Task, Shutdown, Connected, ConnectFails, Enter, Lost,
                LoopEnds, DiscRaises, Exit, Wake, LinkUp, LinkEnds, sdVars,
                ShutdownStart, Visited
  <2>2. flagged' = flagged \cup {r \in (pos + 1)..Len(registry) : Alive(r)}
    BY <1>1, <2>1, VisitShape
  <2>3. s \in 1..pos \/ s \in (pos + 1)..Len(registry)
    <3>1. Len(registry) \in Nat /\ pos \in Nat
      BY <1>1, LenProperties DEF LoopInv, LoopTypes
    <3> QED BY <1>1, <3>1 DEF Sessions
  <2> QED BY <1>1, <2>2, <2>3 DEF LoopInv, Passed, Running
<1>2. LoopInv /\ [LoopNext]_loopVars => [Reached]_loopVars
  BY <1>1
<1> QED BY <1>2, LoopInvariant, PTL DEF LoopSpec, AllReached

-----------------------------------------------------------------------------
(* SensorDetect: the types, and why the transmissions of a probe end       *)
(* before the next list is tested.                                         *)

\* Ticks till the outstanding request is given up.
Remaining == rsp_timer + (MaxRetries - retry_cnt) * MbTimeout

\* While nothing disturbs the detection only the probe is in the queue, and it
\* is answered or given up before the polling timer expires.
Probing ==
    running /\ ~disturbed =>
        /\ foreign = 0 /\ que = <<>> /\ head \in {Idle, sensor_list}
        /\ head # Idle => Remaining < mb_timer

Taken == ~running /\ ~disturbed => sensor_list = RealList

DetectInv == TypeOK /\ Probing /\ Taken

\* All transmissions of a request fit into the polling interval: 2 * 8 s in
\* 30 s (solarman_v5.py:278 and :286, modbus.py:216).
ProbeFits == MbTimeout + MaxRetries * MbTimeout < mb_timeout

LEMMA DetectConstants ==
    /\ scan_reg \in Seq(Lists) /\ Len(scan_reg) \in Nat /\ Len(scan_reg) > 0
    /\ \A i \in 1..Len(scan_reg) : scan_reg[i] \in Lists
    /\ RealList \in Lists /\ Foreign \notin Lists /\ Idle \notin Lists
    /\ Foreign # Idle
    /\ mb_timeout \in Nat /\ mb_timeout > 0 /\ MbTimeout \in Nat
    /\ MbTimeout > 0 /\ QueCap \in Nat /\ QueCap > 0
    /\ SlowEvery \in Nat /\ SlowEvery > 0
    /\ MaxRetries \in Nat /\ MaxForeign \in Nat /\ MaxErrors \in Nat
    /\ \A l \in Lists : Blocks[l] \in Nat /\ SlowBlocks[l] \in Nat
<1>1. scan_reg \in Seq(Lists) /\ Len(scan_reg) \in Nat
  BY ListsAssumption, LenProperties
<1>2. Len(scan_reg) > 0
  <2>1. RealList \in Lists
    BY ListsAssumption
  <2> QED BY <1>1, <2>1 DEF Lists
<1>3. \A i \in 1..Len(scan_reg) : scan_reg[i] \in Lists
  BY DEF Lists
<1>4. RealList \in Lists /\ Foreign \notin Lists /\ Idle \notin Lists
      /\ \A l \in Lists : Blocks[l] \in Nat /\ SlowBlocks[l] \in Nat
  BY ListsAssumption
<1>5. Foreign # Idle
  BY DEF Foreign, Idle
<1>6. /\ mb_timeout \in Nat /\ mb_timeout > 0 /\ MbTimeout \in Nat
      /\ MbTimeout > 0 /\ QueCap \in Nat /\ QueCap > 0
      /\ SlowEvery \in Nat /\ SlowEvery > 0
      /\ MaxRetries \in Nat /\ MaxForeign \in Nat /\ MaxErrors \in Nat
  BY TimesAssumption
<1> QED BY <1>1, <1>2, <1>3, <1>4, <1>5, <1>6

\* The types of the queue.
BusTypes ==
    /\ que \in Seq(Requests) /\ Len(que) <= QueCap
    /\ head \in Requests \cup {Idle}
    /\ rsp_timer \in 0..MbTimeout /\ retry_cnt \in 0..MaxRetries

LEMMA StartTypes ==
    ASSUME BusTypes, NEW q \in Seq(Requests), NEW h \in Requests \cup {Idle},
           Len(q) <= QueCap + (IF h = Idle THEN 1 ELSE 0), Start(q, h)
    PROVE  BusTypes'
<1>1. Len(q) \in Nat
  BY LenProperties
<1>2. CASE h = Idle /\ q # <<>>
  <2>1. /\ Head(q) \in Requests /\ Tail(q) \in Seq(Requests)
        /\ Len(Tail(q)) = Len(q) - 1
    BY <1>2, HeadTailProperties
  <2>2. /\ head' = Head(q) /\ que' = Tail(q)
        /\ rsp_timer' = MbTimeout /\ retry_cnt' = 0
    BY <1>2 DEF Start
  <2> QED BY <1>1, <1>2, <2>1, <2>2, DetectConstants DEF BusTypes
<1>3. CASE ~(h = Idle /\ q # <<>>)
  <2>1. /\ head' = h /\ que' = q /\ retry_cnt' = retry_cnt
        /\ rsp_timer' = IF h = Idle THEN 0 ELSE rsp_timer
    BY <1>3 DEF Start
  <2>2. Len(q) <= QueCap
    <3>1. CASE h # Idle
      BY <1>1, <3>1, DetectConstants
    <3>2. CASE h = Idle
      <4>1. Len(q) = 0
        BY <1>3, <3>2
      <4> QED BY <4>1, DetectConstants
    <3> QED BY <3>1, <3>2
  <2>3. rsp_timer' \in 0..MbTimeout
    BY <2>1, DetectConstants DEF BusTypes
  <2> QED BY <2>1, <2>2, <2>3 DEF BusTypes
<1> QED BY <1>2, <1>3

LEMMA EnqueueTypes ==
    ASSUME BusTypes, NEW n \in Nat, NEW l \in Requests, Enqueue(n, l, que, head)
           \/ Enqueue(n, l, que, Idle)
    PROVE  BusTypes' /\ (overflow \in BOOLEAN => overflow' \in BOOLEAN)
<1>1. PICK h \in {head, Idle} : Enqueue(n, l, que, h)
  OBVIOUS
<1>2. /\ Len(que) \in Nat /\ Len(que) <= QueCap /\ que \in Seq(Requests)
      /\ h \in Requests \cup {Idle}
  BY <1>1, LenProperties DEF BusTypes
<1>3. PICK room : room = QueCap - Len(que) + (IF h = Idle THEN 1 ELSE 0)
  OBVIOUS
<1>4. room \in Nat
  BY <1>2, <1>3, DetectConstants
<1>5. PICK k : k = IF n <= room THEN n ELSE room
  OBVIOUS
<1>6. k \in Nat /\ k <= room
  BY <1>4, <1>5
<1>7. PICK more : more = [i \in 1..k |-> l]
  OBVIOUS
<1>8. more \in Seq(Requests) /\ Len(more) = k
  BY <1>6, <1>7
<1>9. que \o more \in Seq(Requests) /\ Len(que \o more) = Len(que) + k
  BY <1>2, <1>8, ConcatProperties
<1>10. Start(que \o more, h) /\ overflow' = (overflow \/ n > room)
  BY <1>1, <1>3, <1>5, <1>7 DEF Enqueue
<1>11. Len(que \o more) <= QueCap + (IF h = Idle THEN 1 ELSE 0)
  BY <1>2, <1>3, <1>6, <1>9, DetectConstants
<1>12. BusTypes'
  BY <1>2, <1>9, <1>10, <1>11, StartTypes
<1>13. overflow' \in BOOLEAN
  BY <1>10
<1> QED BY <1>12, <1>13

LEMMA NextIdxType ==
    ASSUME NEW i \in 1..Len(scan_reg)
    PROVE  NextIdx(i) \in 1..Len(scan_reg)
<1>1. \A a, b \in Nat : b > 0 => a % b \in 0..(b - 1)
  OBVIOUS
<1>2. i % Len(scan_reg) \in 0..(Len(scan_reg) - 1)
  BY <1>1, DetectConstants
<1>3. \A a, b \in Nat : a \in 0..(b - 1) => a + 1 \in 1..b
  OBVIOUS
<1> QED BY <1>2, <1>3, DetectConstants DEF NextIdx

\* The types of the polling.
PollTypes ==
    /\ idx \in 1..Len(scan_reg) /\ running \in BOOLEAN
    /\ regs \in Nat /\ slow \in Nat /\ mb_timer \in 0..mb_timeout

LEMMA PollStep ==
    ASSUME TypeOK, NEW cnt, Poll(cnt, que, head)
    PROVE  PollTypes' /\ BusTypes' /\ overflow' \in BOOLEAN
<1>1. /\ idx \in 1..Len(scan_reg) /\ running \in BOOLEAN /\ regs \in Nat
      /\ slow \in Nat /\ BusTypes /\ overflow \in BOOLEAN
  BY DEF TypeOK, BusTypes
<1>2. /\ mb_timer' = mb_timeout /\ running' = running /\ slow' = slow
      /\ mb_timeout \in 0..mb_timeout
  BY DetectConstants DEF Poll
<1>3. CASE running
  <2>1. /\ idx' = NextIdx(idx) /\ regs' = 1
        /\ Enqueue(1, scan_reg[idx'], que, head)
    BY <1>3 DEF Poll
  <2>2. idx' \in 1..Len(scan_reg)
    BY <1>1, <2>1, NextIdxType
  <2>3. scan_reg[idx'] \in Requests
    BY <2>2, DetectConstants DEF Requests
  <2>4. BusTypes' /\ overflow' \in BOOLEAN
    BY <1>1, <2>1, <2>3, EnqueueTypes
  <2> QED BY <1>1, <1>2, <2>1, <2>2, <2>4 DEF PollTypes
<1>4. CASE ~running
  <2>1. PICK n : /\ n = IF cnt = 1 THEN regs + slow ELSE regs
                 /\ idx' = idx /\ regs' = regs
                 /\ Enqueue(n, sensor_list, que, head)
    BY <1>4 DEF Poll
  <2>2. n \in Nat
    BY <1>1, <2>1
  <2>3. sensor_list \in Requests
    BY <1>1, DetectConstants DEF Requests, sensor_list
  <2>4. BusTypes' /\ overflow' \in BOOLEAN
    BY <1>1, <2>1, <2>2, <2>3, EnqueueTypes
  <2> QED BY <1>1, <1>2, <2>1, <2>4 DEF PollTypes
<1> QED BY <1>1, <1>3, <1>4

LEMMA DetectTypeStep == TypeOK /\ [Next]_vars => TypeOK'
<1> SUFFICES ASSUME TypeOK, [Next]_vars PROVE TypeOK'
  OBVIOUS
<1>1. /\ PollTypes /\ BusTypes /\ exp_cnt \in 0..(SlowEvery - 1)
      /\ foreign \in 0..MaxForeign /\ errors \in 0..MaxErrors
      /\ overflow \in BOOLEAN /\ disturbed \in BOOLEAN
  BY DEF TypeOK, PollTypes, BusTypes
<1>2. SUFFICES /\ PollTypes' /\ BusTypes' /\ exp_cnt' \in 0..(SlowEvery - 1)
               /\ foreign' \in 0..MaxForeign /\ errors' \in 0..MaxErrors
               /\ overflow' \in BOOLEAN /\ disturbed' \in BOOLEAN
  BY DEF TypeOK, PollTypes, BusTypes
<1>3. CASE PollExpires
  <2>1. \A a, b \in Nat : b > 0 => a % b \in 0..(b - 1)
    OBVIOUS
  <2>2. exp_cnt + 1 \in Nat
    BY <1>1
  <2>3. exp_cnt' \in 0..(SlowEvery - 1)
    BY <1>3, <2>1, <2>2, DetectConstants DEF PollExpires
  <2> QED BY <1>1, <1>3, <2>3, PollStep DEF PollExpires
<1>4. CASE ForeignCmd
  <2>1. Foreign \in Requests /\ 1 \in Nat
    BY DEF Requests
  <2>2. BusTypes'
    BY <1>1, <1>4, <2>1, EnqueueTypes DEF ForeignCmd
  <2>3. foreign' \in 0..MaxForeign
    BY <1>1, <1>4, DetectConstants DEF ForeignCmd
  <2>4. disturbed' \in BOOLEAN
    BY <1>4 DEF ForeignCmd
  <2>5. UNCHANGED <<pollVars, errors, overflow>>
    BY <1>4 DEF ForeignCmd
  <2> QED BY <1>1, <2>2, <2>3, <2>4, <2>5 DEF PollTypes, pollVars
<1>5. CASE ResponseOk
  <2>1. UNCHANGED <<foreign, errors, disturbed>>
    BY <1>5 DEF ResponseOk
  <2>2. CASE running /\ Found
    <3>1. /\ running' = FALSE /\ mb_timer' = mb_timeout
          /\ regs' = Blocks[sensor_list] /\ slow' = SlowBlocks[sensor_list]
          /\ Enqueue(regs' + slow', sensor_list, que, Idle)
          /\ UNCHANGED <<idx, exp_cnt>>
      BY <2>2 DEF Found
    <3>2. sensor_list \in Lists
      BY <1>1, DetectConstants DEF PollTypes, sensor_list
    <3>3. regs' \in Nat /\ slow' \in Nat
      BY <3>1, <3>2, DetectConstants
    <3>4. regs' + slow' \in Nat /\ sensor_list \in Requests
      <4>1. \A a, b \in Nat : a + b \in Nat
        OBVIOUS
      <4>2. sensor_list \in Requests
        BY <3>2 DEF Requests
      <4> QED BY <3>3, <4>1, <4>2
    <3>5. BusTypes' /\ overflow' \in BOOLEAN
      BY <1>1, <3>1, <3>4, EnqueueTypes
    <3>6. mb_timer' \in 0..mb_timeout
      BY <3>1, DetectConstants
    <3>7. running' \in BOOLEAN
      BY <3>1
    <3> QED BY <1>1, <2>1, <3>1, <3>3, <3>5, <3>6, <3>7 DEF PollTypes
  <2>3. CASE Start(que, Idle) /\ UNCHANGED <<pollVars, overflow>>
    <3>1. Len(que) <= QueCap + 1 /\ que \in Seq(Requests)
      BY <1>1, LenProperties, DetectConstants DEF BusTypes
    <3>2. BusTypes'
      BY <1>1, <2>3, <3>1, StartTypes
    <3> QED BY <1>1, <2>1, <2>3, <3>2 DEF PollTypes, pollVars
  <2> QED BY <1>5, <2>2, <2>3 DEF ResponseOk
<1>6. CASE ResponseErr
  <2>1. errors' \in 0..MaxErrors /\ foreign' = foreign
    BY <1>1, <1>6, DetectConstants DEF ResponseErr
  <2>2. CASE /\ Poll(0, que, head) /\ UNCHANGED exp_cnt
             /\ disturbed' = (disturbed \/ head # Idle)
    <3>1. disturbed' \in BOOLEAN
      BY <2>2
    <3> QED BY <1>1, <2>1, <2>2, <3>1, PollStep
  <2>3. CASE UNCHANGED <<pollVars, busVars, disturbed>>
    BY <1>1, <2>1, <2>3 DEF PollTypes, BusTypes, pollVars, busVars
  <2> QED BY <1>6, <2>2, <2>3 DEF ResponseErr
<1>7. CASE RspTimeout
  <2>1. UNCHANGED <<pollVars, foreign, errors, overflow, disturbed>>
    BY <1>7 DEF RspTimeout
  <2>2. BusTypes'
    <3>1. CASE /\ MayRetry /\ retry_cnt' = retry_cnt + 1
               /\ rsp_timer' = MbTimeout /\ UNCHANGED <<que, head>>
      BY <1>1, <3>1, DetectConstants DEF BusTypes, MayRetry
    <3>2. CASE Start(que, Idle)
      <4>1. Len(que) <= QueCap + 1 /\ que \in Seq(Requests)
        BY <1>1, LenProperties, DetectConstants DEF BusTypes
      <4> QED BY <1>1, <3>2, <4>1, StartTypes
    <3> QED BY <1>7, <3>1, <3>2 DEF RspTimeout
  <2> QED BY <1>1, <2>1, <2>2 DEF PollTypes, pollVars
<1>8. CASE Tick
  <2>1. /\ UNCHANGED <<idx, running, regs, slow, exp_cnt, que, head, retry_cnt,
                       foreign, errors, overflow, disturbed>>
        /\ mb_timer > 0 /\ mb_timer' = mb_timer - 1
        /\ head # Idle => rsp_timer > 0
        /\ rsp_timer' = IF head = Idle THEN 0 ELSE rsp_timer - 1
    BY <1>8 DEF Tick
  <2>2. rsp_timer' \in 0..MbTimeout /\ mb_timer' \in 0..mb_timeout
    BY <1>1, <2>1, DetectConstants DEF BusTypes, PollTypes
  <2> QED BY <1>1, <2>1, <2>2 DEF PollTypes, BusTypes
<1>9. CASE UNCHANGED vars
  BY <1>1, <1>9 DEF vars, PollTypes, BusTypes
<1> QED BY <1>3, <1>4, <1>5, <1>6, <1>7, <1>8, <1>9 DEF Next

(* A single request for an empty queue is sent at once.                    *)
LEMMA SentAtOnce ==
    ASSUME BusTypes, que = <<>>, NEW l \in Requests, Enqueue(1, l, que, Idle)
    PROVE  que' = <<>> /\ head' = l /\ rsp_timer' = MbTimeout /\ retry_cnt' = 0
<1>1. Len(que) = 0
  OBVIOUS
<1>2. PICK one : one = [i \in 1..1 |-> l]
  OBVIOUS
<1>3. one \in Seq(Requests) /\ Len(one) = 1 /\ one[1] = l
  BY <1>2
<1>4. PICK k : k = IF 1 <= QueCap - Len(que) + 1 THEN 1
                   ELSE QueCap - Len(que) + 1
  OBVIOUS
<1>5. k = 1
  BY <1>1, <1>4, DetectConstants
<1>6. Start(que \o one, Idle)
  BY <1>2, <1>4, <1>5 DEF Enqueue
<1>7. que \o one = one
  BY <1>3, ConcatEmptySeq
<1>8. one # <<>> /\ Head(one) = l /\ Tail(one) = <<>>
  <2>1. /\ one # <<>> /\ Head(one) = l /\ Len(Tail(one)) = 0
        /\ Tail(one) \in Seq(Requests)
    BY <1>3, HeadTailProperties
  <2> QED BY <2>1, EmptySeq
<1> QED BY <1>6, <1>7, <1>8 DEF Start

LEMMA ProbingStep ==
    ASSUME ProbeFits, DetectInv, [Next]_vars
    PROVE  Probing' /\ Taken'
<1>1. /\ BusTypes /\ idx \in 1..Len(scan_reg) /\ running \in BOOLEAN
      /\ mb_timer \in Nat /\ disturbed \in BOOLEAN /\ foreign \in Nat
      /\ rsp_timer \in Nat /\ retry_cnt \in Nat /\ retry_cnt <= MaxRetries
  BY DetectConstants DEF DetectInv, TypeOK, BusTypes
<1>2. sensor_list \in Lists
  BY <1>1, DetectConstants DEF sensor_list
<1>3. Remaining \in Nat
  <2>1. \A a, b, r, m \in Nat : a <= m => r + (m - a) * b \in Nat
    OBVIOUS
  <2> QED BY <1>1, <2>1, DetectConstants DEF Remaining
<1>4. ASSUME disturbed' = FALSE PROVE disturbed = FALSE
  BY <1>1, <1>4 DEF PollExpires, ForeignCmd, ResponseOk, ResponseErr, RspTimeout,
                    Tick, Next, vars
<1> SUFFICES ASSUME disturbed' = FALSE, disturbed = FALSE
             PROVE  Probing' /\ Taken'
  <2>1. disturbed' \in BOOLEAN
    BY DetectTypeStep DEF DetectInv, TypeOK
  <2> QED BY <1>1, <1>4, <2>1 DEF Probing, Taken
<1>5. running =>
        /\ foreign = 0 /\ que = <<>> /\ head \in {Idle, sensor_list}
        /\ head # Idle => Remaining < mb_timer
  BY DEF DetectInv, Probing
<1>6. running = FALSE => sensor_list = RealList
  BY DEF DetectInv, Taken
<1>7. ASSUME NEW cnt, Poll(cnt, que, head), running => head = Idle,
             foreign' = foreign
      PROVE  Probing' /\ Taken'
  <2>1. CASE running
    <3>1. /\ running' = running /\ mb_timer' = mb_timeout
          /\ idx' = NextIdx(idx) /\ Enqueue(1, scan_reg[idx'], que, Idle)
      BY <1>7, <2>1 DEF Poll
    <3>2. idx' \in 1..Len(scan_reg)
      BY <1>1, <3>1, NextIdxType
    <3>3. sensor_list' = scan_reg[idx'] /\ scan_reg[idx'] \in Requests
      BY <3>2, DetectConstants DEF Requests, sensor_list
    <3>4. /\ que' = <<>> /\ head' = sensor_list'
          /\ rsp_timer' = MbTimeout /\ retry_cnt' = 0
      BY <1>1, <1>5, <2>1, <3>1, <3>3, SentAtOnce
    <3>5. Remaining' = MbTimeout + MaxRetries * MbTimeout
      BY <3>4, DetectConstants DEF Remaining
    <3> QED BY <1>5, <1>7, <2>1, <3>1, <3>4, <3>5 DEF ProbeFits, Probing, Taken
  <2>2. CASE running = FALSE
    BY <1>6, <1>7, <2>2 DEF Poll, Probing, Taken, sensor_list
  <2> QED BY <1>1, <2>1, <2>2
<1>8. CASE PollExpires
  <2>1. mb_timer = 0 /\ Poll(exp_cnt, que, head) /\ foreign' = foreign
    BY <1>8 DEF PollExpires
  <2>2. running => head = Idle
    BY <1>3, <1>5, <2>1
  <2> QED BY <1>7, <2>1, <2>2
<1>9. CASE ForeignCmd
  <2>1. running = FALSE /\ UNCHANGED <<idx, running>>
    BY <1>1, <1>9 DEF ForeignCmd, pollVars
  <2> QED BY <1>6, <2>1 DEF Probing, Taken, sensor_list
<1>10. CASE ResponseOk
  <2>1. CASE running /\ Found
    <3>1. running' = FALSE /\ idx' = idx
      BY <2>1 DEF Found
    <3>2. ~ForeignSent
      <4> DEFINE q == Append(que, head)
      <4>2. q \in Seq(Requests \cup {Idle}) /\ Len(q) \in Nat
        <5>1. que \in Seq(Requests \cup {Idle})
          BY <1>1, <1>5, <2>1, EmptySeq
        <5> QED BY <1>1, <5>1, AppendProperties, LenProperties
                DEF BusTypes
      <4> DEFINE sent == {n \in 1..Len(q) : q[n] = Foreign}
      <4>3. Cardinality(sent) \in Nat
        <5> HIDE DEF q
        <5>1. IsFiniteSet(1..Len(q))
          BY <4>2, FS_Interval
        <5>2. IsFiniteSet(sent)
          BY <5>1, FS_Subset
        <5> QED BY <5>2, FS_CardinalityType
      <4>4. foreign = 0
        BY <1>5, <2>1
      <4>5. ForeignSent <=> foreign > Cardinality(sent)
        BY DEF ForeignSent
      <4> HIDE DEF sent
      <4> QED BY <4>3, <4>4, <4>5
    <3>3. head = RealList
      BY <1>2, <1>5, <1>10, <2>1, <3>2, DetectConstants
         DEF ResponseOk, Answerable
    <3>4. sensor_list = RealList
      BY <1>5, <2>1, <3>3, DetectConstants
    <3> QED BY <3>1, <3>4 DEF Probing, Taken, sensor_list
  <2>2. CASE running = FALSE /\ UNCHANGED pollVars
    BY <1>6, <2>2 DEF Probing, Taken, sensor_list, pollVars
  <2> QED BY <1>1, <1>10, <2>1, <2>2 DEF ResponseOk
<1>11. CASE ResponseErr
  <2>1. CASE Poll(0, que, head) /\ disturbed' = (disturbed \/ head # Idle)
    <3>1. head = Idle
      BY <2>1
    <3> QED BY <1>7, <1>11, <2>1, <3>1 DEF ResponseErr
  <2>2. CASE UNCHANGED <<pollVars, busVars, disturbed>>
    <3>1. foreign' = foreign
      BY <1>11 DEF ResponseErr
    <3> QED BY <1>5, <1>6, <2>2, <3>1
            DEF Probing, Taken, Remaining, sensor_list, pollVars, busVars
  <2> QED BY <1>11, <2>1, <2>2 DEF ResponseErr
<1>12. CASE RspTimeout
  <2>1. /\ UNCHANGED <<pollVars, foreign, errors, overflow, disturbed>>
        /\ head # Idle /\ rsp_timer = 0
    BY <1>12 DEF RspTimeout
  <2>2. CASE running
    <3>1. CASE /\ MayRetry /\ retry_cnt' = retry_cnt + 1
               /\ rsp_timer' = MbTimeout /\ UNCHANGED <<que, head>>
      <4>1. \A a, b, m \in Nat : a < m => b + (m - (a + 1)) * b = (m - a) * b
        OBVIOUS
      <4>2. retry_cnt < MaxRetries
        BY <3>1 DEF MayRetry
      <4>3. Remaining' = Remaining
        BY <1>1, <2>1, <3>1, <4>1, <4>2, DetectConstants DEF Remaining
      <4> QED BY <1>5, <2>1, <2>2, <3>1, <4>3
              DEF Probing, Taken, sensor_list, pollVars
    <3>2. CASE Start(que, Idle)
      <4>1. que' = <<>> /\ head' = Idle
        BY <1>5, <2>2, <3>2 DEF Start
      <4> QED BY <1>5, <2>1, <2>2, <4>1 DEF Probing, Taken, sensor_list, pollVars
    <3> QED BY <1>12, <3>1, <3>2 DEF RspTimeout
  <2>3. CASE running = FALSE
    BY <1>6, <2>1, <2>3 DEF Probing, Taken, sensor_list, pollVars
  <2> QED BY <1>1, <2>2, <2>3
<1>13. CASE Tick
  <2>1. /\ UNCHANGED <<idx, running, que, head, retry_cnt, foreign>>
        /\ mb_timer > 0 /\ mb_timer' = mb_timer - 1
        /\ head # Idle => rsp_timer > 0 /\ rsp_timer' = rsp_timer - 1
    BY <1>13 DEF Tick
  <2>2. head # Idle => Remaining' = Remaining - 1
    <3>1. \A a, b, r, m \in Nat :
            r > 0 /\ a <= m => (r - 1) + (m - a) * b = (r + (m - a) * b) - 1
      OBVIOUS
    <3> QED BY <1>1, <2>1, <3>1, DetectConstants DEF Remaining
  <2>3. head # Idle /\ running => Remaining' < mb_timer'
    BY <1>1, <1>3, <1>5, <2>1, <2>2
  <2> QED BY <1>5, <1>6, <2>1, <2>3 DEF Probing, Taken, sensor_list
<1>14. CASE UNCHANGED vars
  BY <1>5, <1>6, <1>14 DEF vars, Probing, Taken, Remaining, sensor_list
<1> QED BY <1>8, <1>9, <1>10, <1>11, <1>12, <1>13, <1>14 DEF Next

LEMMA DetectStart == Init => TypeOK /\ Taken /\ (ProbeFits => Probing)
<1> SUFFICES ASSUME Init PROVE TypeOK /\ Taken /\ (ProbeFits => Probing)
  OBVIOUS
<1>1. 1 \in 1..Len(scan_reg) /\ sensor_list \in Lists
  BY DetectConstants DEF Init, sensor_list
<1>2. que = <<>> /\ que \in Seq(Requests) /\ Len(que) = 0
  BY EmptySeq DEF Init
<1>3. /\ idx = 1 /\ regs = 1 /\ slow = 0 /\ exp_cnt = 0
      /\ mb_timer = mb_timeout /\ head = sensor_list
      /\ rsp_timer = MbTimeout /\ retry_cnt = 0 /\ foreign = 0 /\ errors = 0
  BY DEF Init
<1>4. running \in BOOLEAN /\ overflow \in BOOLEAN /\ disturbed \in BOOLEAN
  <2>1. running = TRUE /\ overflow = FALSE /\ disturbed = FALSE
    BY DEF Init
  <2> QED BY <2>1, Zenon
<1>5. TypeOK
  <2>1. 0 \in 0..(SlowEvery - 1) /\ mb_timeout \in 0..mb_timeout
        /\ MbTimeout \in 0..MbTimeout
    BY DetectConstants
  <2> QED BY <1>1, <1>2, <1>3, <1>4, <2>1, DetectConstants DEF TypeOK, Requests
<1>6. running = TRUE
  BY DEF Init
<1>7. Taken
  BY <1>6 DEF Taken
<1>8. Remaining = MbTimeout + MaxRetries * MbTimeout
  BY <1>3, DetectConstants DEF Remaining
<1> QED BY <1>2, <1>3, <1>5, <1>7, <1>8 DEF Probing, ProbeFits

(* The types, and that the queue stays within its capacity (the bound of    *)
(* asyncio.Queue, modbus.py:261), for all lists and intervals.              *)
THEOREM DetectTypeCorrect == Spec => []TypeOK
<1>1. Init => TypeOK
  BY DetectStart
<1> QED BY <1>1, DetectTypeStep, PTL DEF Spec

(* While nothing disturbs the detection the queue holds the probe alone,    *)
(* which is over before the polling timer expires (mb_timout_cb).           *)
THEOREM DetectInvariant ==
    ASSUME ProbeFits
    PROVE  Spec => []DetectInv
<1>1. Init => DetectInv
  BY DetectStart DEF DetectInv
<1>2. DetectInv /\ [Next]_vars => DetectInv'
  BY DetectTypeStep, ProbingStep DEF DetectInv
<1> QED BY <1>1, <1>2, PTL DEF Spec

(* Without a disturbance the right list is taken, whatever lists there are, *)
(* if the transmissions of a probe fit into the polling interval            *)
(* (mb_timout_cb, __modbus_command_rsp).                                    *)
THEOREM WrongListCorrect ==
    ASSUME ProbeFits
    PROVE  Spec => []WrongNeedsDisturbance
<1>1. DetectInv => WrongNeedsDisturbance
  BY DEF DetectInv, Taken, WrongNeedsDisturbance
<1> QED BY <1>1, DetectInvariant, PTL

-----------------------------------------------------------------------------
(* SensorDetect: why polls do not pile up.  What the queue still has to do *)
(* is bounded by the time since the last polls: a poll of one block, and   *)
(* those of the slow blocks, are worked off before they come again; what   *)
(* others ask for, and errors, are counted once and for all.               *)

\* The longest time a request is outstanding, and what a polling interval
\* has left beside one.
Longest == MbTimeout + MaxRetries * MbTimeout
Spare == mb_timeout - Longest

Work == Len(que) * Longest + (IF head = Idle THEN 0 ELSE Remaining)

\* max(0, a - b)
Excess(a, b) == IF a > b THEN a - b ELSE 0

\* Polls since the slow blocks were read, and what is left of those reads
\* after as many intervals.
Polls == IF exp_cnt > 1 THEN exp_cnt - 2 ELSE exp_cnt + SlowEvery - 2
Late == Excess(slow * Longest, Polls * Spare)

\* Requests that are not polls in their time: foreign ones, polls after an
\* error, and the first poll of all registers.
Extra == foreign + errors + (IF running THEN 0 ELSE slow + 1)

\* The polls read one block.
Short == running \/ Blocks[sensor_list] = 1

\* So many extra requests are needed to fill the queue.
Crowded == foreign + errors + 2 * slow + 2 > QueCap

Polling ==
    /\ head = Idle => que = <<>>
    /\ regs = IF running THEN 1 ELSE Blocks[sensor_list]
    /\ slow = IF running THEN 0 ELSE SlowBlocks[sensor_list]

Paced ==
    Short =>
        /\ Work <= Extra * Longest + Excess(Longest + Late, mb_timeout - mb_timer)
        /\ overflow => Crowded

PaceInv == TypeOK /\ Polling /\ Paced

\* The slow blocks that are polled with a single other one fit into what the
\* polls between them leave: 16 s each, and 30 times 14 s (solarman_v5.py:278,
\* :286 and :564, modbus.py:216).
PollsFit ==
    /\ ProbeFits
    /\ \A l \in Lists :
          Blocks[l] = 1 => SlowBlocks[l] * Longest <= SlowEvery * Spare

LEMMA ExcessFacts ==
    ASSUME NEW a \in Nat, NEW b \in Nat
    PROVE  Excess(a, b) \in Nat /\ Excess(a, b) <= a /\ Excess(a, 0) = a
  BY DEF Excess

LEMMA ExcessTick ==
    ASSUME NEW w \in Nat, NEW v \in Nat, NEW b \in Nat, NEW a \in Nat, NEW e \in Nat,
           w <= b + Excess(a, e), w = 0 => v = 0, w > 0 => v + 1 = w
    PROVE  v <= b + Excess(a, e + 1)
  BY DEF Excess

LEMMA ExcessNext ==
    ASSUME NEW x \in Nat, NEW a \in Nat, NEW d \in Nat
    PROVE  Excess(Excess(x, a), d) = Excess(x, a + d)
  BY DEF Excess

LEMMA Cancel ==
    ASSUME NEW a \in Nat, NEW b \in Nat, NEW c \in Nat \ {0}, a * c <= b * c
    PROVE  a <= b
<1> SUFFICES ASSUME b + 1 <= a PROVE FALSE
  OBVIOUS
<1>1. PICK d \in Nat : a = b + 1 + d
  <2>1. a - (b + 1) \in Nat /\ a = b + 1 + (a - (b + 1))
    OBVIOUS
  <2> QED BY <2>1
<1>2. a * c = b * c + c + d * c
  BY <1>1
<1>3. d * c \in Nat /\ b * c \in Nat
  OBVIOUS
<1> QED BY <1>2, <1>3

LEMMA Products ==
    ASSUME NEW a \in Nat, NEW b \in Nat, NEW c \in Nat
    PROVE  /\ a * c \in Nat /\ (a + b) * c = a * c + b * c
           /\ 1 * c = c /\ 0 * c = 0 /\ (a <= b => a * c <= b * c)
<1>1. a * c \in Nat /\ (a + b) * c = a * c + b * c /\ 1 * c = c /\ 0 * c = 0
  OBVIOUS
<1>2. ASSUME a <= b PROVE a * c <= b * c
  <2>1. PICK d \in Nat : b = a + d
    <3>1. b - a \in Nat /\ b = a + (b - a)
      BY <1>2
    <3> QED BY <3>1
  <2>2. b * c = a * c + d * c /\ d * c \in Nat /\ a * c \in Nat
    BY <2>1
  <2> QED BY <2>2
<1> QED BY <1>1, <1>2

LEMMA PaceConstants ==
    /\ Longest \in Nat \ {0}
    /\ ProbeFits => Longest <= mb_timeout /\ Spare \in Nat
<1>1. MbTimeout \in Nat \ {0} /\ MaxRetries \in Nat /\ mb_timeout \in Nat
  BY TimesAssumption
<1>2. MaxRetries * MbTimeout \in Nat
  BY <1>1
<1> QED BY <1>1, <1>2 DEF Longest, Spare, ProbeFits

LEMMA PaceTypes ==
    ASSUME TypeOK
    PROVE  /\ Len(que) \in Nat /\ regs \in Nat /\ slow \in Nat /\ foreign \in Nat
           /\ errors \in Nat /\ mb_timer \in 0..mb_timeout
           /\ mb_timeout - mb_timer \in Nat
           /\ running \in BOOLEAN /\ overflow \in BOOLEAN
           /\ idx \in 1..Len(scan_reg) /\ sensor_list \in Lists
           /\ Polls \in Nat /\ Polls <= SlowEvery - 1 /\ exp_cnt \in Nat
           /\ Extra \in Nat /\ Remaining \in Nat /\ Work \in Nat
           /\ BusTypes
<1>1. /\ que \in Seq(Requests) /\ Len(que) \in Nat /\ regs \in Nat /\ slow \in Nat
      /\ mb_timer \in 0..mb_timeout /\ running \in BOOLEAN /\ overflow \in BOOLEAN
      /\ idx \in 1..Len(scan_reg) /\ exp_cnt \in 0..(SlowEvery - 1)
      /\ foreign \in 0..MaxForeign /\ errors \in 0..MaxErrors
      /\ rsp_timer \in 0..MbTimeout /\ retry_cnt \in 0..MaxRetries
  BY LenProperties DEF TypeOK
<1>2. foreign \in Nat /\ errors \in Nat /\ mb_timeout - mb_timer \in Nat
  BY <1>1, DetectConstants
<1>3. sensor_list \in Lists
  BY <1>1, DetectConstants DEF sensor_list
<1>4. Polls \in Nat /\ Polls <= SlowEvery - 1 /\ exp_cnt \in Nat
  <2>1. SlowEvery \in Nat \ {0, 1}
    BY TimesAssumption
  <2> QED BY <1>1, <2>1 DEF Polls
<1>5. Extra \in Nat
  BY <1>1, <1>2 DEF Extra
<1>6. Remaining \in Nat
  <2>1. \A a, b, r, m \in Nat : a <= m => r + (m - a) * b \in Nat
    OBVIOUS
  <2>2. retry_cnt \in Nat /\ retry_cnt <= MaxRetries /\ rsp_timer \in Nat
    BY <1>1, DetectConstants
  <2> QED BY <2>1, <2>2, DetectConstants DEF Remaining
<1>7. Work \in Nat
  <2>1. Len(que) * Longest \in Nat
    BY <1>1, PaceConstants, Products
  <2> QED BY <1>6, <2>1 DEF Work
<1>8. BusTypes
  BY DEF TypeOK, BusTypes
<1> QED BY <1>1, <1>2, <1>3, <1>4, <1>5, <1>6, <1>7, <1>8

(* Sending the next request adds nothing to the work, and whoever ends the *)
(* outstanding one leaves the rest.                                        *)
LEMMA StartWork ==
    ASSUME TypeOK, NEW q \in Seq(Requests), NEW h \in {head, Idle}, Start(q, h)
    PROVE  /\ head' = Idle => que' = <<>>
           /\ Work' = Len(q) * Longest + (IF h = Idle THEN 0 ELSE Remaining)
           /\ Work' \in Nat
<1>1. Len(q) \in Nat /\ Longest \in Nat
  BY LenProperties, PaceConstants
<1>2. CASE h = Idle /\ q # <<>>
  <2>1. /\ Head(q) \in Requests /\ Tail(q) \in Seq(Requests)
        /\ Len(Tail(q)) = Len(q) - 1
    BY <1>2, HeadTailProperties
  <2>2. /\ head' = Head(q) /\ que' = Tail(q)
        /\ rsp_timer' = MbTimeout /\ retry_cnt' = 0
    BY <1>2 DEF Start
  <2>3. Head(q) # Idle
    BY <2>1, DetectConstants DEF Requests
  <2>4. Remaining' = Longest
    BY <2>2, DetectConstants DEF Remaining, Longest
  <2>5. Work' = Len(Tail(q)) * Longest + Longest
    BY <2>2, <2>3, <2>4 DEF Work
  <2>6. PICK m \in Nat : m = Len(Tail(q)) /\ m + 1 = Len(q)
    <3>1. Len(Tail(q)) \in Nat
      BY <2>1, LenProperties
    <3>2. Len(Tail(q)) + 1 = Len(q)
      BY <1>1, <2>1, <3>1
    <3> QED BY <3>1, <3>2
  <2>7. /\ (m + 1) * Longest = m * Longest + 1 * Longest /\ 1 * Longest = Longest
        /\ (m + 1) * Longest \in Nat
    BY <1>1, Products
  <2>8. Work' = Len(q) * Longest /\ Len(q) * Longest \in Nat
    BY <2>5, <2>6, <2>7
  <2> QED BY <1>2, <2>2, <2>3, <2>8
<1>3. CASE h = Idle /\ q = <<>>
  <2>1. head' = Idle /\ que' = <<>> /\ que' = q
    BY <1>3 DEF Start
  <2>2. Len(q) * Longest \in Nat
    BY <1>1, Products
  <2> QED BY <1>3, <2>1, <2>2 DEF Work
<1>4. CASE h # Idle
  <2>1. /\ head' = h /\ h = head /\ que' = q /\ rsp_timer' = rsp_timer
        /\ retry_cnt' = retry_cnt
    BY <1>4 DEF Start
  <2>2. Remaining' = Remaining
    BY <2>1 DEF Remaining
  <2>3. Len(q) * Longest \in Nat /\ Remaining \in Nat
    BY <1>1, Products, PaceTypes
  <2> QED BY <1>4, <2>1, <2>2, <2>3 DEF Work
<1> QED BY <1>2, <1>3, <1>4

(* n requests more are at most n times as much work, and if they do not    *)
(* fit there were as many as the queue holds.                              *)
LEMMA EnqueueWork ==
    ASSUME TypeOK, NEW n \in Nat, NEW l \in Requests, NEW h \in {head, Idle},
           Enqueue(n, l, que, h)
    PROVE  /\ head' = Idle => que' = <<>>
           /\ Work' \in Nat
           /\ Work' <= Len(que) * Longest + (IF h = Idle THEN 0 ELSE Remaining)
                       + n * Longest
           /\ overflow' => overflow \/ Len(que) + n > QueCap
<1>1. /\ Len(que) \in Nat /\ Len(que) <= QueCap /\ que \in Seq(Requests)
      /\ Remaining \in Nat /\ Longest \in Nat
  BY PaceTypes, PaceConstants DEF BusTypes
<1>2. PICK room : room = QueCap - Len(que) + (IF h = Idle THEN 1 ELSE 0)
  OBVIOUS
<1>3. room \in Nat /\ room + Len(que) >= QueCap
  BY <1>1, <1>2, DetectConstants
<1>4. PICK k : k = IF n <= room THEN n ELSE room
  OBVIOUS
<1>5. k \in Nat /\ k <= n
  BY <1>3, <1>4
<1>6. PICK more : more = [i \in 1..k |-> l]
  OBVIOUS
<1>7. more \in Seq(Requests) /\ Len(more) = k
  BY <1>5, <1>6
<1>8. que \o more \in Seq(Requests) /\ Len(que \o more) = Len(que) + k
  BY <1>1, <1>7, ConcatProperties
<1>9. Start(que \o more, h) /\ overflow' = (overflow \/ n > room)
  BY <1>2, <1>4, <1>6 DEF Enqueue
<1>10. /\ head' = Idle => que' = <<>> /\ Work' \in Nat
       /\ Work' = (Len(que) + k) * Longest + (IF h = Idle THEN 0 ELSE Remaining)
  BY <1>8, <1>9, StartWork
<1>11. /\ (Len(que) + k) * Longest = Len(que) * Longest + k * Longest
       /\ k * Longest <= n * Longest
       /\ Len(que) * Longest \in Nat /\ k * Longest \in Nat /\ n * Longest \in Nat
  BY <1>1, <1>5, Products
<1>12. overflow' => overflow \/ Len(que) + n > QueCap
  <2>1. n > room => Len(que) + n > QueCap
    BY <1>1, <1>3, DetectConstants
  <2> QED BY <1>9, <2>1
<1> QED BY <1>1, <1>10, <1>11, <1>12

(* Nothing is lost of the bound when less is left to do.                   *)
LEMMA PaceKept ==
    ASSUME PaceInv, ProbeFits, TypeOK', Work' \in Nat, Work' <= Work, head' = Idle => que' = <<>>,
           foreign <= foreign', errors <= errors',
           UNCHANGED <<pollVars, overflow>>
    PROVE  Polling' /\ Paced'
<1>1. UNCHANGED <<idx, running, regs, slow, exp_cnt, mb_timer, overflow>>
  BY DEF pollVars
<1>2. Polling'
  BY <1>1 DEF PaceInv, Polling, sensor_list
<1>3. Short' = Short /\ Late' = Late
  BY <1>1 DEF Short, sensor_list, Late, Polls
<1>4. Extra \in Nat /\ Extra' \in Nat /\ Extra <= Extra'
  <2>1. foreign \in Nat /\ errors \in Nat /\ slow \in Nat
    BY PaceTypes DEF PaceInv
  <2>2. foreign' \in Nat /\ errors' \in Nat
    BY DetectConstants DEF TypeOK
  <2>3. (IF running' THEN 0 ELSE slow' + 1) = (IF running THEN 0 ELSE slow + 1)
    BY <1>1
  <2>4. PICK m \in Nat : m = IF running THEN 0 ELSE slow + 1
    BY <2>1
  <2>5. Extra = foreign + errors + m /\ Extra' = foreign' + errors' + m
    BY <2>3, <2>4 DEF Extra
  <2>6. \A f, e, g, d, z \in Nat :
           f <= g /\ e <= d => /\ f + e + z \in Nat /\ g + d + z \in Nat
                               /\ f + e + z <= g + d + z
    OBVIOUS
  <2> QED BY <2>1, <2>2, <2>4, <2>5, <2>6
<1>5. SUFFICES ASSUME Short
               PROVE  /\ Work' <= Extra' * Longest
                             + Excess(Longest + Late, mb_timeout - mb_timer)
                      /\ overflow' => Crowded'
  BY <1>1, <1>2, <1>3 DEF Paced
<1>6. /\ Work <= Extra * Longest + Excess(Longest + Late, mb_timeout - mb_timer)
      /\ overflow => Crowded
  BY <1>5 DEF PaceInv, Paced
<1>7. Crowded => Crowded'
  <2>1. foreign \in Nat /\ errors \in Nat /\ slow \in Nat
    BY PaceTypes DEF PaceInv
  <2>2. foreign' \in Nat /\ errors' \in Nat
    BY DetectConstants DEF TypeOK
  <2>3. \A f, e, g, d, z, c \in Nat :
           f <= g /\ e <= d /\ f + e + 2 * z + 2 > c => g + d + 2 * z + 2 > c
    OBVIOUS
  <2>4. QueCap \in Nat /\ slow' = slow
    BY <1>1, DetectConstants
  <2>5. foreign + errors + 2 * slow + 2 > QueCap
            => foreign' + errors' + 2 * slow + 2 > QueCap
    BY <2>1, <2>2, <2>3, <2>4
  <2> QED BY <2>4, <2>5 DEF Crowded
<1>8. Extra * Longest \in Nat /\ Extra' * Longest \in Nat
      /\ Extra * Longest <= Extra' * Longest
  BY <1>4, PaceConstants, Products
<1>9. Late \in Nat /\ Excess(Longest + Late, mb_timeout - mb_timer) \in Nat
  <2>1. slow \in Nat /\ Polls \in Nat /\ mb_timeout - mb_timer \in Nat
    BY PaceTypes DEF PaceInv
  <2>2. Longest \in Nat /\ Spare \in Nat
    BY PaceConstants
  <2>3. slow * Longest \in Nat /\ Polls * Spare \in Nat
    BY <2>1, <2>2, Products
  <2>4. Late \in Nat
    BY <2>3, ExcessFacts DEF Late
  <2>5. Longest + Late \in Nat
    BY <2>2, <2>4
  <2> QED BY <2>1, <2>4, <2>5, ExcessFacts
<1>10. Work \in Nat
  BY PaceTypes DEF PaceInv
<1> QED BY <1>1, <1>6, <1>7, <1>8, <1>9, <1>10

LEMMA PaceFacts ==
    ASSUME PaceInv, PollsFit
    PROVE  /\ Longest \in Nat \ {0} /\ Spare \in Nat /\ Longest + Spare = mb_timeout
           /\ Late \in Nat /\ Late <= slow * Longest /\ slow * Longest \in Nat
           /\ Extra * Longest \in Nat /\ Len(que) * Longest \in Nat
           /\ Len(que) * Longest <= Work /\ Work \in Nat
           /\ Extra <= foreign + errors + slow + 1
           /\ running => slow = 0 /\ Extra = foreign + errors /\ Late = 0
<1>1. TypeOK /\ Polling
  BY DEF PaceInv
<1>2. /\ Len(que) \in Nat /\ slow \in Nat /\ foreign \in Nat /\ errors \in Nat
      /\ Polls \in Nat /\ Extra \in Nat /\ Remaining \in Nat /\ Work \in Nat
  BY <1>1, PaceTypes
<1>3. Longest \in Nat \ {0} /\ Spare \in Nat /\ Longest + Spare = mb_timeout
  BY PaceConstants, DetectConstants DEF PollsFit, Spare
<1>4. /\ slow * Longest \in Nat /\ Polls * Spare \in Nat
      /\ Extra * Longest \in Nat /\ Len(que) * Longest \in Nat
  BY <1>2, <1>3, Products
<1>5. Late \in Nat /\ Late <= slow * Longest
  BY <1>4, ExcessFacts DEF Late
<1>6. Len(que) * Longest <= Work
  BY <1>2, <1>4 DEF Work
<1>7. Extra <= foreign + errors + slow + 1
  BY <1>2 DEF Extra
<1>8. running => slow = 0
  BY <1>1 DEF Polling
<1>9. running => Extra = foreign + errors
  BY <1>2 DEF Extra
<1>10. running => Late = 0
  <2>1. 0 * Longest = 0
    BY <1>3, Products
  <2> QED BY <1>5, <1>8, <2>1
<1> QED BY <1>2, <1>3, <1>4, <1>5, <1>6, <1>7, <1>8, <1>9, <1>10

(* What mb_timout_cb puts into the queue.                                  *)
LEMMA PollWork ==
    ASSUME PaceInv, NEW cnt, Poll(cnt, que, head)
    PROVE  \E n \in Nat :
             /\ n = IF running THEN 1 ELSE IF cnt = 1 THEN regs + slow ELSE regs
             /\ head' = Idle => que' = <<>>
             /\ Work' \in Nat /\ Work' <= Work + n * Longest
             /\ overflow' => overflow \/ Len(que) + n > QueCap
<1>1. TypeOK
  BY DEF PaceInv
<1>2. /\ regs \in Nat /\ slow \in Nat /\ sensor_list \in Lists
      /\ idx \in 1..Len(scan_reg)
  BY <1>1, PaceTypes
<1>3. PICK n \in Nat :
         n = IF running THEN 1 ELSE IF cnt = 1 THEN regs + slow ELSE regs
  BY <1>2
<1>4. PICK l \in Requests : Enqueue(n, l, que, head)
  <2>1. CASE running
    <3>1. Enqueue(1, scan_reg[idx'], que, head) /\ idx' = NextIdx(idx)
      BY <2>1 DEF Poll
    <3>2. scan_reg[idx'] \in Requests
      BY <1>2, <3>1, NextIdxType, DetectConstants DEF Requests
    <3> QED BY <1>3, <2>1, <3>1, <3>2
  <2>2. CASE ~running
    <3>1. sensor_list \in Requests
      BY <1>2 DEF Requests
    <3>2. Enqueue(IF cnt = 1 THEN regs + slow ELSE regs, sensor_list, que, head)
      BY <2>2 DEF Poll
    <3> QED BY <1>3, <2>2, <3>1, <3>2
  <2> QED BY <2>1, <2>2
<1>5. Work = Len(que) * Longest + (IF head = Idle THEN 0 ELSE Remaining)
  BY DEF Work
<1>6. /\ head' = Idle => que' = <<>>
      /\ Work' \in Nat /\ Work' <= Work + n * Longest
      /\ overflow' => overflow \/ Len(que) + n > QueCap
  BY <1>1, <1>4, <1>5, EnqueueWork
<1> QED BY <1>3, <1>6

(* ... and what it leaves of the invariant's other parts.                  *)
LEMMA PollPolling ==
    ASSUME PaceInv, NEW cnt, Poll(cnt, que, head), head' = Idle => que' = <<>>
    PROVE  /\ Polling' /\ slow' = slow /\ mb_timer' = mb_timeout
           /\ running' = running /\ (Short' => Short)
<1>1. /\ mb_timer' = mb_timeout /\ running' = running /\ slow' = slow
      /\ running => regs' = 1
      /\ ~running => idx' = idx /\ regs' = regs
  BY DEF Poll
<1>2. Polling
  BY DEF PaceInv
<1>3. Polling'
  BY <1>1, <1>2 DEF Polling, sensor_list
<1>4. Short' => Short
  BY <1>1 DEF Short, sensor_list
<1> QED BY <1>1, <1>3, <1>4

\* How Polls goes on when the polling timer expires.
LEMMA PollsNext ==
    ASSUME exp_cnt \in 0..(SlowEvery - 1), exp_cnt' = (exp_cnt + 1) % SlowEvery
    PROVE  /\ exp_cnt # 1 => Polls' = Polls + 1
           /\ exp_cnt = 1 => Polls + 1 = SlowEvery /\ Polls' = 0
<1>1. SlowEvery \in Nat /\ SlowEvery > 1
  BY TimesAssumption
<1>2. exp_cnt \in Nat /\ exp_cnt < SlowEvery
  BY <1>1
<1>3. CASE exp_cnt + 1 = SlowEvery
  <2>1. exp_cnt' = 0
    BY <1>1, <1>3
  <2> QED BY <1>1, <1>2, <1>3, <2>1 DEF Polls
<1>4. CASE exp_cnt + 1 < SlowEvery
  <2>1. exp_cnt' = exp_cnt + 1
    BY <1>1, <1>2, <1>4
  <2> QED BY <1>1, <1>2, <1>4, <2>1 DEF Polls
<1> QED BY <1>1, <1>2, <1>3, <1>4

(* The polling timer expires: what the last polls left is worked off.      *)
LEMMA ExpiresPace ==
    ASSUME PaceInv, PollsFit, PollExpires
    PROVE  Polling' /\ Paced'
<1>1. /\ mb_timer = 0 /\ exp_cnt' = (exp_cnt + 1) % SlowEvery
      /\ Poll(exp_cnt, que, head) /\ UNCHANGED <<foreign, errors>>
  BY DEF PollExpires
<1>0. /\ Longest \in Nat \ {0} /\ Spare \in Nat /\ Longest + Spare = mb_timeout
      /\ Late \in Nat /\ Late <= slow * Longest /\ slow * Longest \in Nat
      /\ Extra * Longest \in Nat /\ Len(que) * Longest \in Nat
      /\ Len(que) * Longest <= Work /\ Work \in Nat
  BY PaceFacts
<1>2. /\ Len(que) \in Nat /\ slow \in Nat /\ foreign \in Nat /\ errors \in Nat
      /\ Extra \in Nat /\ Polls \in Nat /\ exp_cnt \in 0..(SlowEvery - 1)
      /\ sensor_list \in Lists /\ running \in BOOLEAN
  BY PaceTypes DEF PaceInv, TypeOK
<1>3. PICK n \in Nat :
         /\ n = IF running THEN 1 ELSE IF exp_cnt = 1 THEN regs + slow ELSE regs
         /\ head' = Idle => que' = <<>>
         /\ Work' \in Nat /\ Work' <= Work + n * Longest
         /\ overflow' => overflow \/ Len(que) + n > QueCap
  BY <1>1, PollWork
<1>4. /\ Polling' /\ slow' = slow /\ mb_timer' = mb_timeout
      /\ running' = running /\ (Short' => Short)
  BY <1>1, <1>3, PollPolling
<1>5. SUFFICES ASSUME Short
               PROVE  /\ Work' <= Extra * Longest + (Longest + Late')
                      /\ Late' \in Nat
                      /\ Len(que) + n > QueCap => Crowded
  <2>1. Extra' = Extra /\ (Crowded' <=> Crowded)
    BY <1>1, <1>4 DEF Extra, Crowded
  <2>2. mb_timeout - mb_timer' = 0
    BY <1>4, DetectConstants
  <2>3. ASSUME Late' \in Nat
        PROVE  Excess(Longest + Late', mb_timeout - mb_timer') = Longest + Late'
    <3>1. Longest + Late' \in Nat
      <4>1. \A a, b \in Nat : a + b \in Nat
        OBVIOUS
      <4> QED BY <2>3, <4>1, PaceConstants
    <3> QED BY <2>2, <3>1, ExcessFacts
  <2>4. Short /\ overflow => Crowded
    BY DEF PaceInv, Paced
  <2> QED BY <1>3, <1>4, <2>1, <2>3, <2>4 DEF Paced
<1>6. n = IF exp_cnt = 1 THEN 1 + slow ELSE 1
  <2>1. CASE running
    BY <1>2, <1>3, <2>1, PaceFacts
  <2>2. CASE ~running
    <3>1. regs = 1
      BY <1>5, <2>2 DEF PaceInv, Polling, Short
    <3> QED BY <1>2, <1>3, <2>2, <3>1
  <2> QED BY <2>1, <2>2
<1>7. Work <= Extra * Longest + Excess(Late, Spare) /\ Excess(Late, Spare) \in Nat
  <2>1. mb_timeout - mb_timer = mb_timeout /\ mb_timeout \in Nat
    BY <1>1, DetectConstants
  <2>2. Excess(Longest + Late, mb_timeout) = Excess(Late, Spare)
    <3>1. PICK a : a = Longest + Late
      OBVIOUS
    <3>2. Excess(a, mb_timeout) = Excess(Late, Spare)
      BY <1>0, <2>1, <3>1 DEF Excess
    <3> QED BY <3>1, <3>2
  <2>3. Excess(Late, Spare) \in Nat
    BY PaceFacts, ExcessFacts
  <2> QED BY <1>5, <2>1, <2>2, <2>3 DEF PaceInv, Paced
<1>8. CASE exp_cnt # 1
  <2>1. Polls' = Polls + 1
    BY <1>1, <1>2, <1>8, PollsNext
  <2>2. Late' = Excess(Late, Spare)
    <3>1. Late' = Excess(slow * Longest, (Polls + 1) * Spare)
      BY <1>4, <2>1 DEF Late
    <3>2. PICK a \in Nat : a = Polls * Spare
      BY <1>0, <1>2, Products
    <3>3. (Polls + 1) * Spare = a + Spare
      BY <1>0, <1>2, <3>2, Products
    <3>4. Excess(Excess(slow * Longest, a), Spare) = Excess(slow * Longest, a + Spare)
      <4>1. PICK y \in Nat : y = slow * Longest
        BY <1>0
      <4>2. Excess(Excess(y, a), Spare) = Excess(y, a + Spare)
        BY <1>0, ExcessNext
      <4> QED BY <4>1, <4>2
    <3> QED BY <3>1, <3>2, <3>3, <3>4 DEF Late
  <2>3. n = 1 /\ 1 * Longest = Longest
    BY <1>6, <1>8, PaceFacts, Products
  <2>4. Late' \in Nat /\ Late' <= slow * Longest
    <3>1. Late' <= Late /\ Late' \in Nat
      BY <2>2, PaceFacts, ExcessFacts
    <3> QED BY <3>1, PaceFacts
  <2>5. Work' <= Extra * Longest + (Longest + Late')
    <3>1. \A v, w, b, l, t \in Nat : v <= w + l /\ w <= b + t => v <= b + (l + t)
      OBVIOUS
    <3>2. Work' <= Work + Longest /\ Work <= Extra * Longest + Late'
      BY <1>3, <1>7, <2>2, <2>3
    <3> QED BY <1>0, <1>3, <2>4, <3>1, <3>2
  <2>6. Len(que) <= Extra + slow
    <3>1. Len(que) * Longest <= Extra * Longest + slow * Longest
      BY <1>7, <2>2, <2>4, PaceFacts
    <3>2. (Extra + slow) * Longest = Extra * Longest + slow * Longest
      BY <1>2, PaceFacts, Products
    <3>3. Extra + slow \in Nat
      BY <1>2
    <3>4. Len(que) * Longest <= (Extra + slow) * Longest
      BY <3>1, <3>2
    <3> QED BY <1>0, <1>2, <3>3, <3>4, Cancel
  <2>7. Len(que) + n > QueCap => Crowded
    BY <1>2, <2>3, <2>6, PaceFacts, DetectConstants DEF Crowded
  <2> QED BY <2>4, <2>5, <2>7
<1>9. CASE exp_cnt = 1
  <2>1. Polls + 1 = SlowEvery /\ Polls' = 0
    BY <1>1, <1>2, <1>9, PollsNext
  <2>2. Late' = slow * Longest
    <3>1. Late' = Excess(slow * Longest, 0 * Spare) /\ 0 * Spare = 0
      BY <1>4, <2>1, PaceFacts, Products DEF Late
    <3> QED BY <3>1, PaceFacts, ExcessFacts
  <2>3. Excess(Late, Spare) = 0
    <3>1. Excess(Late, Spare) = Excess(slow * Longest, SlowEvery * Spare)
      <4>1. PICK a \in Nat : a = Polls * Spare
        BY <1>0, <1>2, Products
      <4>2. SlowEvery * Spare = a + Spare
        BY <1>0, <1>2, <2>1, <4>1, Products
      <4>3. Excess(Excess(slow * Longest, a), Spare)
              = Excess(slow * Longest, a + Spare)
        <5>1. PICK y \in Nat : y = slow * Longest
          BY <1>0
        <5>2. Excess(Excess(y, a), Spare) = Excess(y, a + Spare)
          BY <1>0, ExcessNext
        <5> QED BY <5>1, <5>2
      <4> QED BY <4>1, <4>2, <4>3 DEF Late
    <3>2. slow * Longest <= SlowEvery * Spare
      <4>1. SlowEvery * Spare \in Nat
        BY DetectConstants, PaceFacts, Products
      <4>2. CASE running
        <5>1. slow * Longest = 0
          BY <4>2, PaceFacts, Products
        <5> QED BY <4>1, <5>1
      <4>3. CASE ~running
        <5>1. Blocks[sensor_list] = 1 /\ slow = SlowBlocks[sensor_list]
          BY <1>5, <4>3 DEF PaceInv, Polling, Short
        <5> QED BY <1>2, <5>1 DEF PollsFit
      <4> QED BY <4>2, <4>3
    <3>3. \A a, b \in Nat : a <= b => Excess(a, b) = 0
      BY DEF Excess
    <3>4. SlowEvery * Spare \in Nat
      BY DetectConstants, PaceFacts, Products
    <3> QED BY <3>1, <3>2, <3>3, <3>4, PaceFacts
  <2>4. n = 1 + slow /\ n * Longest = Longest + slow * Longest
    <3>1. (1 + slow) * Longest = 1 * Longest + slow * Longest /\ 1 * Longest = Longest
      BY <1>2, PaceFacts, Products
    <3> QED BY <1>6, <1>9, <3>1
  <2>5. Work <= Extra * Longest
    BY <1>7, <2>3, PaceFacts
  <2>6. Work' <= Extra * Longest + (Longest + Late')
    <3>1. \A v, w, b, l, t \in Nat : v <= w + (l + t) /\ w <= b => v <= b + (l + t)
      OBVIOUS
    <3> QED BY <1>0, <1>3, <2>2, <2>4, <2>5, <3>1
  <2>7. Len(que) <= Extra
    <3>1. Len(que) * Longest <= Extra * Longest
      BY <2>5, PaceFacts
    <3> QED BY <1>2, <3>1, PaceFacts, Cancel
  <2>8. Len(que) + n > QueCap => Crowded
    BY <1>2, <2>4, <2>7, PaceFacts, DetectConstants DEF Crowded
  <2> QED BY <2>2, <2>6, <2>8, PaceFacts
<1> QED BY <1>8, <1>9

(* A foreign request is one more.                                          *)
LEMMA ForeignPace ==
    ASSUME PaceInv, PollsFit, ForeignCmd
    PROVE  Polling' /\ Paced'
<1>1. /\ Enqueue(1, Foreign, que, head) /\ overflow' = overflow
      /\ foreign' = foreign + 1 /\ UNCHANGED <<pollVars, errors>>
  BY DEF ForeignCmd
<1>2. UNCHANGED <<idx, running, regs, slow, exp_cnt, mb_timer>>
  BY <1>1 DEF pollVars
<1>3. /\ Len(que) \in Nat /\ slow \in Nat /\ foreign \in Nat /\ errors \in Nat
      /\ Extra \in Nat /\ mb_timeout - mb_timer \in Nat /\ TypeOK
  BY PaceTypes DEF PaceInv
<1>4. /\ Longest \in Nat \ {0} /\ Late \in Nat /\ Extra * Longest \in Nat
      /\ Work \in Nat
  BY PaceFacts
<1>5. /\ head' = Idle => que' = <<>>
      /\ Work' \in Nat /\ Work' <= Work + Longest
  <2>1. Foreign \in Requests /\ 1 * Longest = Longest
    BY <1>4, Products DEF Requests
  <2>2. Work = Len(que) * Longest + (IF head = Idle THEN 0 ELSE Remaining)
    BY DEF Work
  <2> QED BY <1>1, <1>3, <2>1, <2>2, EnqueueWork
<1>6. Polling'
  BY <1>2, <1>5 DEF PaceInv, Polling, sensor_list
<1>7. SUFFICES ASSUME Short
               PROVE  /\ Work' <= Extra' * Longest
                             + Excess(Longest + Late, mb_timeout - mb_timer)
                      /\ overflow => Crowded'
  <2>1. Short' = Short /\ Late' = Late
    BY <1>2 DEF Short, sensor_list, Late, Polls
  <2> QED BY <1>1, <1>2, <1>6, <2>1 DEF Paced
<1>8. /\ Work <= Extra * Longest + Excess(Longest + Late, mb_timeout - mb_timer)
      /\ overflow => Crowded
  BY <1>7 DEF PaceInv, Paced
<1>9. Extra' * Longest = Extra * Longest + Longest
  <2>1. Extra' = Extra + 1
    BY <1>1, <1>2, <1>3 DEF Extra
  <2>2. (Extra + 1) * Longest = Extra * Longest + 1 * Longest /\ 1 * Longest = Longest
    BY <1>3, <1>4, Products
  <2> QED BY <2>1, <2>2
<1>10. Excess(Longest + Late, mb_timeout - mb_timer) \in Nat
  <2>1. Longest + Late \in Nat
    BY <1>4
  <2> QED BY <1>3, <2>1, ExcessFacts
<1>11. Crowded => Crowded'
  BY <1>1, <1>2, <1>3, DetectConstants DEF Crowded
<1> QED BY <1>4, <1>5, <1>8, <1>9, <1>10, <1>11

(* An error response ends the test of a list: one more poll.               *)
LEMMA ErrorPace ==
    ASSUME PaceInv, PollsFit, running, Poll(0, que, head), errors' = errors + 1,
           UNCHANGED <<exp_cnt, foreign>>
    PROVE  Polling' /\ Paced'
<1>1. /\ Len(que) \in Nat /\ slow \in Nat /\ foreign \in Nat /\ errors \in Nat
      /\ Extra \in Nat /\ mb_timeout - mb_timer \in Nat
  BY PaceTypes DEF PaceInv
<1>2. /\ Longest \in Nat \ {0} /\ Extra * Longest \in Nat
      /\ Len(que) * Longest \in Nat /\ Len(que) * Longest <= Work /\ Work \in Nat
      /\ slow = 0 /\ Extra = foreign + errors /\ Late = 0
  BY PaceFacts
<1>3. /\ head' = Idle => que' = <<>>
      /\ Work' \in Nat /\ Work' <= Work + Longest
      /\ overflow' => overflow \/ Len(que) + 1 > QueCap
  <2>1. 1 * Longest = Longest
    BY <1>2, Products
  <2> QED BY <2>1, PollWork
<1>4. Polling' /\ slow' = slow /\ mb_timer' = mb_timeout /\ running' = running
  BY <1>3, PollPolling
<1>5. Late' = 0
  <2>1. slow' * Longest = 0
    BY <1>2, <1>4, Products
  <2>2. Polls' = Polls /\ Polls \in Nat
    BY PaceTypes DEF PaceInv, Polls
  <2>3. Polls * Spare \in Nat
    BY <2>2, PaceFacts, Products
  <2> QED BY <2>1, <2>2, <2>3 DEF Late, Excess
<1>6. Extra' = Extra + 1
  BY <1>1, <1>2, <1>4 DEF Extra
<1>7. Extra' * Longest = Extra * Longest + Longest
  <2>1. (Extra + 1) * Longest = Extra * Longest + 1 * Longest /\ 1 * Longest = Longest
    BY <1>1, <1>2, Products
  <2> QED BY <1>6, <2>1
<1>8. Work <= Extra * Longest + Longest
  <2>1. Short
    BY DEF Short
  <2>2. Work <= Extra * Longest + Excess(Longest + Late, mb_timeout - mb_timer)
    BY <2>1 DEF PaceInv, Paced
  <2>3. Longest + Late = Longest
    BY <1>2
  <2>4. /\ Excess(Longest, mb_timeout - mb_timer) <= Longest
        /\ Excess(Longest, mb_timeout - mb_timer) \in Nat
    BY <1>1, <1>2, ExcessFacts
  <2> QED BY <1>2, <2>2, <2>3, <2>4
<1>9. Excess(Longest + Late', mb_timeout - mb_timer') = Longest
  <2>1. Longest + Late' = Longest /\ mb_timeout - mb_timer' = 0
    BY <1>2, <1>4, <1>5, DetectConstants
  <2> QED BY <1>2, <2>1, ExcessFacts
<1>10. Work' <= Extra' * Longest + Excess(Longest + Late', mb_timeout - mb_timer')
  BY <1>2, <1>3, <1>7, <1>8, <1>9
<1>11. overflow' => Crowded'
  <2>1. Len(que) <= Extra + 1
    <3>1. (Extra + 1) * Longest = Extra * Longest + Longest
      BY <1>6, <1>7
    <3>2. Len(que) * Longest <= (Extra + 1) * Longest /\ Extra + 1 \in Nat
      BY <1>1, <1>2, <1>8, <3>1
    <3> QED BY <1>1, <1>2, <3>2, Cancel
  <2>2. overflow => foreign + errors + 2 * slow + 2 > QueCap
    BY DEF PaceInv, Paced, Short, Crowded
  <2>3. foreign' + errors' + 2 * slow' + 2 > QueCap \/ ~overflow'
    BY <1>1, <1>2, <1>3, <1>4, <2>1, <2>2, DetectConstants
  <2> QED BY <2>3 DEF Crowded
<1> QED BY <1>4, <1>10, <1>11 DEF Paced

(* found(): all registers of the list are polled at once.                  *)
LEMMA FoundPace ==
    ASSUME PaceInv, PollsFit, running, Found, UNCHANGED <<foreign, errors>>
    PROVE  Polling' /\ Paced'
<1>1. /\ running' = FALSE /\ mb_timer' = mb_timeout
      /\ regs' = Blocks[sensor_list] /\ slow' = SlowBlocks[sensor_list]
      /\ Enqueue(regs' + slow', sensor_list, que, Idle)
      /\ UNCHANGED <<idx, exp_cnt>>
  BY DEF Found
<1>2. /\ Len(que) \in Nat /\ foreign \in Nat /\ errors \in Nat /\ Extra \in Nat
      /\ mb_timeout - mb_timer \in Nat /\ sensor_list \in Lists /\ TypeOK
      /\ Polls \in Nat
  BY PaceTypes DEF PaceInv
<1>3. /\ Longest \in Nat \ {0} /\ Spare \in Nat /\ Extra * Longest \in Nat
      /\ Len(que) * Longest \in Nat /\ Len(que) * Longest <= Work /\ Work \in Nat
      /\ Extra = foreign + errors /\ Late = 0 /\ slow = 0
  BY PaceFacts
<1>4. /\ regs' \in Nat /\ slow' \in Nat /\ regs' + slow' \in Nat
      /\ 1 + slow' \in Nat
  <2>1. regs' \in Nat /\ slow' \in Nat
    BY <1>1, <1>2, DetectConstants
  <2>2. \A a, b \in Nat : a + b \in Nat /\ 1 + b \in Nat
    OBVIOUS
  <2> QED BY <2>1, <2>2
<1>5. /\ head' = Idle => que' = <<>>
      /\ Work' \in Nat
      /\ Work' <= Len(que) * Longest + (regs' + slow') * Longest
      /\ overflow' => overflow \/ Len(que) + (regs' + slow') > QueCap
  <2>1. PICK n \in Nat : n = regs' + slow'
    BY <1>4
  <2>2. sensor_list \in Requests
    BY <1>2 DEF Requests
  <2>3. Enqueue(n, sensor_list, que, Idle)
    BY <1>1, <2>1
  <2>4. /\ head' = Idle => que' = <<>>
        /\ Work' \in Nat
        /\ Work' <= Len(que) * Longest + 0 + n * Longest
        /\ overflow' => overflow \/ Len(que) + n > QueCap
    BY <1>2, <2>2, <2>3, EnqueueWork
  <2>5. Len(que) * Longest + 0 = Len(que) * Longest
    BY <1>3
  <2> QED BY <2>1, <2>4, <2>5
<1>6. Polling'
  BY <1>1, <1>5 DEF Polling, sensor_list
<1>7. SUFFICES ASSUME regs' = 1
               PROVE  /\ Work' <= Extra' * Longest
                             + Excess(Longest + Late', mb_timeout - mb_timer')
                      /\ overflow' => Crowded'
  BY <1>1, <1>6 DEF Paced, Short, sensor_list
<1>8. Work <= Extra * Longest + Longest
  <2>1. Work <= Extra * Longest + Excess(Longest + Late, mb_timeout - mb_timer)
    BY DEF PaceInv, Paced, Short
  <2>2. Longest + Late = Longest
    BY <1>3
  <2>3. /\ Excess(Longest, mb_timeout - mb_timer) <= Longest
        /\ Excess(Longest, mb_timeout - mb_timer) \in Nat
    BY <1>2, <1>3, ExcessFacts
  <2> QED BY <1>3, <2>1, <2>2, <2>3
<1>9. Len(que) <= Extra + 1
  <2>1. (Extra + 1) * Longest = Extra * Longest + 1 * Longest /\ 1 * Longest = Longest
    BY <1>2, <1>3, Products
  <2>2. Len(que) * Longest <= (Extra + 1) * Longest /\ Extra + 1 \in Nat
    BY <1>2, <1>3, <1>8, <2>1
  <2> QED BY <1>2, <1>3, <2>2, Cancel
<1>10. Extra' = Extra + (1 + slow')
  BY <1>1, <1>2, <1>3, <1>4 DEF Extra
<1>11. Work' <= Extra' * Longest + Longest
  <2>1. PICK m \in Nat : m = 1 + slow'
    BY <1>4
  <2>2. (Extra + m) * Longest = Extra * Longest + m * Longest /\ m * Longest \in Nat
    BY <1>2, <1>3, <2>1, Products
  <2>3. Work' <= Len(que) * Longest + m * Longest
    BY <1>5, <1>7, <2>1
  <2>4. Extra' * Longest = Extra * Longest + m * Longest
    BY <1>10, <2>1, <2>2
  <2> QED BY SMTT(30), <1>3, <1>5, <1>8, <2>2, <2>3, <2>4
<1>12. Work' <= Extra' * Longest + Excess(Longest + Late', mb_timeout - mb_timer')
  <2>1. Late' \in Nat
    <3>1. Polls' = Polls
      BY <1>1 DEF Polls
    <3>2. slow' * Longest \in Nat /\ Polls * Spare \in Nat
      BY <1>2, <1>3, <1>4, Products
    <3> QED BY <3>1, <3>2, ExcessFacts DEF Late
  <2>2. mb_timeout - mb_timer' = 0
    BY <1>1, DetectConstants
  <2>3. Longest + Late' \in Nat /\ Longest + Late' >= Longest
    <3>1. \A a, b \in Nat : a + b \in Nat /\ a + b >= a
      OBVIOUS
    <3> QED BY <1>3, <2>1, <3>1
  <2>4. Excess(Longest + Late', mb_timeout - mb_timer') = Longest + Late'
    BY <2>2, <2>3, ExcessFacts
  <2>5. Extra' * Longest \in Nat
    <3>1. Extra' \in Nat
      <4>1. \A a, b \in Nat : a + b \in Nat
        OBVIOUS
      <4> QED BY <1>2, <1>4, <1>10, <4>1
    <3> QED BY <1>3, <3>1, Products
  <2> QED BY <1>3, <1>5, <1>11, <2>3, <2>4, <2>5
<1>13. overflow' => Crowded'
  <2>1. overflow => foreign + errors + 2 > QueCap
    BY <1>2, <1>3, DetectConstants DEF PaceInv, Paced, Short, Crowded
  <2>2. \A m, f, e, z, c \in Nat :
           /\ f + e + 2 > c => f + e + 2 * z + 2 > c
           /\ m <= f + e + 1 /\ m + (1 + z) > c => f + e + 2 * z + 2 > c
    OBVIOUS
  <2>3. QueCap \in Nat /\ Len(que) <= foreign + errors + 1
    BY <1>3, <1>9, DetectConstants
  <2>4. overflow' => \/ foreign + errors + 2 > QueCap
                     \/ Len(que) + (1 + slow') > QueCap
    BY <1>5, <1>7, <2>1
  <2>5. overflow' => foreign + errors + 2 * slow' + 2 > QueCap
    BY <1>2, <1>4, <2>2, <2>3, <2>4
  <2> QED BY <2>5 DEF Crowded
<1> QED BY <1>12, <1>13

(* A tick of the clock is a tick of the work, if there is any.             *)
LEMMA TickPace ==
    ASSUME PaceInv, PollsFit, Tick
    PROVE  Polling' /\ Paced'
<1>1. /\ UNCHANGED <<idx, running, regs, slow, exp_cnt, que, head, retry_cnt,
                     foreign, errors, overflow>>
      /\ mb_timer > 0 /\ mb_timer' = mb_timer - 1
      /\ head # Idle => rsp_timer > 0 /\ rsp_timer' = rsp_timer - 1
  BY DEF Tick
<1>2. /\ Len(que) \in Nat /\ mb_timer \in 0..mb_timeout /\ Remaining \in Nat
      /\ mb_timeout - mb_timer \in Nat
  BY PaceTypes DEF PaceInv
<1>3. /\ Longest \in Nat \ {0} /\ Late \in Nat /\ Extra * Longest \in Nat
      /\ Work \in Nat /\ Len(que) * Longest \in Nat
  BY PaceFacts
<1>4. Polling'
  BY <1>1 DEF PaceInv, Polling, sensor_list
<1>5. Short' = Short /\ Late' = Late /\ Extra' = Extra /\ (Crowded' <=> Crowded)
  BY <1>1 DEF Short, sensor_list, Late, Polls, Extra, Crowded
<1>6. mb_timeout - mb_timer' = (mb_timeout - mb_timer) + 1
  BY <1>1, <1>2, DetectConstants
<1>7. CASE head = Idle
  <2>1. Work = 0 /\ Work' = 0
    <3>1. que = <<>> /\ Len(que) = 0
      BY <1>7 DEF PaceInv, Polling
    <3>2. 0 * Longest = 0
      BY <1>3, Products
    <3> QED BY <1>1, <1>7, <3>1, <3>2 DEF Work
  <2>2. Excess(Longest + Late, mb_timeout - mb_timer') \in Nat
    <3>1. Longest + Late \in Nat /\ mb_timeout - mb_timer' \in Nat
      BY <1>2, <1>3, <1>6
    <3> QED BY <3>1, ExcessFacts
  <2> QED BY <1>1, <1>3, <1>4, <1>5, <2>1, <2>2 DEF PaceInv, Paced
<1>8. CASE head # Idle
  <2>1. Remaining > 0 /\ Remaining' = Remaining - 1
    <3>1. \A a, b, r, m \in Nat : r > 0 /\ a <= m =>
             /\ r + (m - a) * b > 0
             /\ (r - 1) + (m - a) * b = (r + (m - a) * b) - 1
      OBVIOUS
    <3>2. rsp_timer \in Nat /\ retry_cnt \in Nat /\ retry_cnt <= MaxRetries
      BY DetectConstants DEF PaceInv, TypeOK
    <3> QED BY SMTT(30), <1>1, <1>8, <3>1, <3>2, DetectConstants DEF Remaining
  <2>2. Work' = Work - 1 /\ Work > 0
    BY <1>1, <1>2, <1>3, <1>8, <2>1 DEF Work
  <2>3. Longest + Late \in Nat
    BY <1>3
  <2>4. ASSUME Work <= Extra * Longest + Excess(Longest + Late, mb_timeout - mb_timer)
        PROVE  Work' <= Extra * Longest
                          + Excess(Longest + Late, (mb_timeout - mb_timer) + 1)
    <3>1. Work' \in Nat /\ Work' + 1 = Work
      BY <1>3, <2>2
    <3>2. PICK a \in Nat : a = Longest + Late
      BY <2>3
    <3>3. Work <= Extra * Longest + Excess(a, mb_timeout - mb_timer)
      BY <2>4, <3>2
    <3>4. Work' <= Extra * Longest + Excess(a, (mb_timeout - mb_timer) + 1)
      BY <1>2, <1>3, <2>2, <3>1, <3>3 DEF Excess
    <3> QED BY <3>2, <3>4
  <2> QED BY <1>1, <1>4, <1>5, <1>6, <2>4 DEF PaceInv, Paced
<1> QED BY <1>7, <1>8

(* The end of a request, or one more transmission of it.                   *)
LEMMA TimeoutPace ==
    ASSUME PaceInv, PollsFit, RspTimeout, TypeOK'
    PROVE  Polling' /\ Paced'
<1>1. /\ UNCHANGED <<pollVars, foreign, errors, overflow>>
      /\ head # Idle /\ rsp_timer = 0
  BY DEF RspTimeout
<1>2. TypeOK /\ ProbeFits /\ foreign \in Nat /\ errors \in Nat
  BY PaceTypes DEF PaceInv, PollsFit
<1>3. Len(que) * Longest <= Work /\ Len(que) * Longest \in Nat /\ Work \in Nat
  BY PaceFacts
<1>4. CASE /\ MayRetry /\ retry_cnt' = retry_cnt + 1
           /\ rsp_timer' = MbTimeout /\ UNCHANGED <<que, head>>
  <2>1. \A a, b, m \in Nat : a < m => b + (m - (a + 1)) * b = (m - a) * b
    OBVIOUS
  <2>2. retry_cnt \in Nat /\ retry_cnt < MaxRetries
    BY <1>2, <1>4, DetectConstants DEF TypeOK, MayRetry
  <2>3. Remaining' = Remaining
    BY <1>1, <1>4, <2>1, <2>2, DetectConstants DEF Remaining
  <2>4. Work' = Work /\ head' # Idle
    BY <1>1, <1>4, <2>3 DEF Work
  <2> QED BY <1>1, <1>2, <1>3, <2>4, PaceKept
<1>5. CASE Start(que, Idle)
  <2>1. que \in Seq(Requests)
    BY <1>2 DEF TypeOK
  <2>2. /\ head' = Idle => que' = <<>>
        /\ Work' = Len(que) * Longest + 0 /\ Work' \in Nat
    BY <1>2, <1>5, <2>1, StartWork
  <2>3. Work' <= Work
    BY <1>3, <2>2
  <2> QED BY <1>1, <1>2, <2>2, <2>3, PaceKept
<1> QED BY <1>4, <1>5 DEF RspTimeout

LEMMA PaceStep ==
    ASSUME PaceInv, PollsFit, [Next]_vars
    PROVE  PaceInv'
<1>1. TypeOK /\ TypeOK' /\ ProbeFits
  BY DetectTypeStep DEF PaceInv, PollsFit
<1>2. foreign \in Nat /\ errors \in Nat /\ Work \in Nat
  BY <1>1, PaceTypes
<1>3. CASE PollExpires
  BY <1>1, <1>3, ExpiresPace DEF PaceInv
<1>4. CASE ForeignCmd
  BY <1>1, <1>4, ForeignPace DEF PaceInv
<1>5. CASE ResponseOk
  <2>1. UNCHANGED <<foreign, errors>>
    BY <1>5 DEF ResponseOk
  <2>2. CASE running /\ Found
    BY <1>1, <2>1, <2>2, FoundPace DEF PaceInv
  <2>3. CASE Start(que, Idle) /\ UNCHANGED <<pollVars, overflow>>
    <3>1. que \in Seq(Requests)
      BY <1>1 DEF TypeOK
    <3>2. /\ head' = Idle => que' = <<>>
          /\ Work' = Len(que) * Longest + 0 /\ Work' \in Nat
      BY <1>1, <2>3, <3>1, StartWork
    <3>3. Work' <= Work
      BY <3>2, PaceFacts
    <3> QED BY <1>1, <1>2, <2>1, <2>3, <3>2, <3>3, PaceKept DEF PaceInv
  <2> QED BY <1>5, <2>2, <2>3 DEF ResponseOk
<1>6. CASE ResponseErr
  <2>1. errors' = errors + 1 /\ foreign' = foreign
    BY <1>6 DEF ResponseErr
  <2>2. CASE running /\ Poll(0, que, head) /\ UNCHANGED exp_cnt
    BY <1>1, <2>1, <2>2, ErrorPace DEF PaceInv
  <2>3. CASE UNCHANGED <<pollVars, busVars, disturbed>>
    <3>1. UNCHANGED <<pollVars, que, head, rsp_timer, retry_cnt, overflow>>
      BY <2>3 DEF busVars
    <3>2. Work' = Work
      BY <3>1 DEF Work, Remaining
    <3>3. head' = Idle => que' = <<>>
      BY <3>1 DEF PaceInv, Polling
    <3> QED BY <1>1, <1>2, <2>1, <3>1, <3>2, <3>3, PaceKept DEF PaceInv
  <2> QED BY <1>6, <2>2, <2>3 DEF ResponseErr
<1>7. CASE RspTimeout
  BY <1>1, <1>7, TimeoutPace DEF PaceInv
<1>8. CASE Tick
  BY <1>1, <1>8, TickPace DEF PaceInv
<1>9. CASE UNCHANGED vars
  <2>1. UNCHANGED <<pollVars, que, head, rsp_timer, retry_cnt, overflow, foreign,
                    errors>>
    BY <1>9 DEF vars, pollVars
  <2>2. Work' = Work
    BY <2>1 DEF Work, Remaining
  <2>3. head' = Idle => que' = <<>>
    BY <2>1 DEF PaceInv, Polling
  <2> QED BY <1>1, <1>2, <2>1, <2>2, <2>3, PaceKept DEF PaceInv
<1> QED BY <1>3, <1>4, <1>5, <1>6, <1>7, <1>8, <1>9 DEF Next

LEMMA PaceStart ==
    ASSUME Init, PollsFit
    PROVE  PaceInv
<1>1. TypeOK
  BY DetectStart
<1>2. /\ que = <<>> /\ head = sensor_list /\ running = TRUE /\ regs = 1 /\ slow = 0
      /\ rsp_timer = MbTimeout /\ retry_cnt = 0 /\ mb_timer = mb_timeout
      /\ foreign = 0 /\ errors = 0 /\ overflow = FALSE
  BY DEF Init
<1>3. head # Idle
  BY <1>1, <1>2, PaceTypes, DetectConstants
<1>4. Polling
  BY <1>2, <1>3 DEF Polling
<1>5. Longest \in Nat /\ 0 * Longest = 0
  BY PaceConstants, Products
<1>6. Work = Longest
  <2>1. Remaining = Longest
    BY <1>2, DetectConstants DEF Remaining, Longest
  <2>2. Len(que) = 0
    BY <1>2
  <2> QED BY <1>3, <1>5, <2>1, <2>2 DEF Work
<1>7. Extra = 0 /\ Late = 0
  <2>1. Extra = 0
    BY <1>2 DEF Extra
  <2>2. Polls * Spare \in Nat
    BY <1>1, PaceTypes, PaceConstants, Products DEF PollsFit
  <2>3. Late = 0
    BY <1>2, <1>5, <2>2 DEF Late, Excess
  <2> QED BY <2>1, <2>3
<1>8. Excess(Longest + Late, mb_timeout - mb_timer) = Longest
  <2>1. mb_timeout - mb_timer = 0 /\ Longest + Late = Longest
    BY <1>2, <1>5, <1>7, DetectConstants
  <2> QED BY <1>5, <2>1, ExcessFacts
<1>9. Paced
  BY <1>2, <1>5, <1>6, <1>7, <1>8 DEF Paced
<1> QED BY <1>1, <1>4, <1>9 DEF PaceInv

(* The work in the queue keeps pace with the polls: it never exceeds what   *)
(* the last polls and the extra requests asked for (mb_timout_cb,           *)
(* Modbus.__send_next_from_que).                                            *)
THEOREM PaceInvariant ==
    ASSUME PollsFit
    PROVE  Spec => []PaceInv
<1>1. Init => PaceInv
  BY PaceStart
<1>2. PaceInv /\ [Next]_vars => PaceInv'
  BY PaceStep
<1> QED BY <1>1, <1>2, PTL DEF Spec

(* QueueFull (put_nowait, modbus.py:261) ends a poll only with a list of    *)
(* several blocks, or if others asked for, or errors caused, almost as many *)
(* requests as the queue holds.                                             *)
THEOREM OverflowCause ==
    ASSUME PollsFit
    PROVE  Spec => [](OverflowNeedsLongList \/ Crowded)
<1>1. PaceInv => OverflowNeedsLongList \/ Crowded
  <2> SUFFICES ASSUME PaceInv, overflow, ~Crowded
               PROVE  ~running /\ Blocks[sensor_list] > 1
    BY DEF OverflowNeedsLongList
  <2>1. ~Short
    BY DEF PaceInv, Paced
  <2>2. Blocks[sensor_list] \in Nat \ {0}
    BY PaceTypes, ListsAssumption DEF PaceInv
  <2> QED BY <2>1, <2>2 DEF Short
<1> QED BY <1>1, PaceInvariant, PTL

(* ... so with a queue of 100 (modbus.py:209), and some of them at a time   *)
(* from others or after errors, polls of one block never fill it.           *)
THEOREM OverflowCorrect ==
    ASSUME PollsFit,
           MaxForeign + MaxErrors + 2 <= QueCap,
           \A l \in Lists :
              Blocks[l] = 1 => MaxForeign + MaxErrors + 2 * SlowBlocks[l] + 2 <= QueCap
    PROVE  Spec => []OverflowNeedsLongList
<1>1. PaceInv /\ Short => ~Crowded
  <2> SUFFICES ASSUME PaceInv, Short PROVE ~Crowded
    OBVIOUS
  <2>1. /\ foreign \in 0..MaxForeign /\ errors \in 0..MaxErrors
        /\ slow = IF running THEN 0 ELSE SlowBlocks[sensor_list]
    BY DEF PaceInv, TypeOK, Polling
  <2>2. sensor_list \in Lists
    BY PaceTypes DEF PaceInv
  <2>3. slow \in Nat /\ MaxForeign + MaxErrors + 2 * slow + 2 <= QueCap
    <3>1. CASE running
      BY <2>1, <3>1, DetectConstants
    <3>2. CASE ~running
      <4>1. Blocks[sensor_list] = 1
        BY <3>2 DEF Short
      <4>2. slow = SlowBlocks[sensor_list]
        BY <2>1, <3>2
      <4> QED BY <2>2, <4>1, <4>2, DetectConstants
    <3> QED BY <3>1, <3>2
  <2>4. /\ foreign \in Nat /\ errors \in Nat
        /\ foreign <= MaxForeign /\ errors <= MaxErrors
    BY <2>1, DetectConstants
  <2>5. foreign + errors + 2 * slow + 2 <= QueCap
    BY <2>3, <2>4, DetectConstants
  <2>6. foreign + errors + 2 * slow + 2 \in Nat
    BY <2>3, <2>4
  <2> QED BY <2>5, <2>6, DetectConstants DEF Crowded
<1>2. PaceInv => OverflowNeedsLongList
  <2> SUFFICES ASSUME PaceInv, overflow
               PROVE  ~running /\ Blocks[sensor_list] > 1
    BY DEF OverflowNeedsLongList
  <2>1. ~Short
    BY <1>1 DEF PaceInv, Paced
  <2>2. Blocks[sensor_list] \in Nat \ {0}
    BY PaceTypes, ListsAssumption DEF PaceInv
  <2> QED BY <2>1, <2>2 DEF Short
<1> QED BY <1>2, PaceInvariant, PTL

-----------------------------------------------------------------------------
(* The run of the three: the types of whichever takes steps, and of those   *)
(* that rest (the counters of modbus_tcp.py, the timers of solarman_emu.py, *)
(* the queue the polling of solarman_v5.py fills).                          *)
THEOREM ClientTypeCorrect == MCSpec => []MCTypeOK
<1> DEFINE Types == TypeOK /\ LoopInv /\ Timers
<1>1. MCInit => Types
  BY DetectStart, LoopStart, InitTimers DEF MCInit
<1>2. Types /\ [MCNext]_<<part, vars, loopVars, emuVars>> => Types'
  <2> SUFFICES ASSUME Types, [MCNext]_<<part, vars, loopVars, emuVars>>
               PROVE  Types'
    OBVIOUS
  <2>1. /\ [Next]_vars /\ [LoopNext]_loopVars /\ [EmuNext]_emuVars
    BY DEF MCNext
  <2>2. TypeOK'
    BY <2>1, DetectTypeStep
  <2>3. LoopInv'
    BY <2>1, LoopStep
  <2>4. Timers'
    BY <2>1, TimersStep
  <2> QED BY <2>2, <2>3, <2>4
<1>3. Types => MCTypeOK
  BY LoopParts DEF MCTypeOK, Timers
<1> QED BY <1>1, <1>2, <1>3, PTL DEF MCSpec
=============================================================================
