------------------------------- MODULE ModbusTcp -------------------------------
(***************************************************************************)
(* The client mode tasks (app/src/modbus_tcp.py): one task per inverter    *)
(* connects, runs the session and reconnects after a pause.  They meet     *)
(* handle_shutdown (app/src/server.py), which disconnects every inverter   *)
(* of the registry, one after the other, and tells its session not to      *)
(* reconnect.  A step is what a task does between two awaits.              *)
(*                                                                         *)
(* An inverter that is configured with `forward' has a connection to the   *)
(* cloud as well.  The shutdown closes that one first, and waits for it,   *)
(* before it tells the session.                                            *)
(***************************************************************************)
EXTENDS Naturals, Sequences, FiniteSets

CONSTANTS
    Clients,      \* the inverters configured with client_mode
    Forwarding,   \* those with `forward'
    MaxSessions   \* model bound: connections made in a behaviour

ASSUME ClientsAssumption == IsFiniteSet(Clients) /\ Clients # {}
ASSUME ForwardingAssumption == Forwarding \subseteq Clients
ASSUME MaxSessionsAssumption == MaxSessions \in Nat

VARIABLES
    pc,           \* what the task of a client awaits
    session,      \* its session: an index of _registry
    registry,     \* InverterBase._registry: whose session each entry is
    link,         \* its connection to the cloud: "none", "up", "closing"
    closed,       \* sessions whose writer was closed by the proxy
    flagged,      \* sessions with stream.shutdown_started
    ending,       \* clients that return after __aexit__
    Inverter_Cnt, \* and ClientMode_Cnt
    sd,           \* handle_shutdown: "idle", "run", "done", "raised"; it
                  \* awaits the end of a connection: "remote", "wait"; the
                  \* one to the cloud of entry pos + 1 has ended: "half"
    pos,          \* the entry of _registry it is done with
    caught,       \* history: sessions that ran when it came to them
    broke,        \* history: sessions whose own disc() raised
    missed        \* history: sessions that ended while it awaited the end of
                  \* their connection to the cloud, or that await raised

loopVars == <<pc, session, registry, link, closed, flagged, ending,
              Inverter_Cnt, sd, pos, caught, broke, missed>>
taskVars == <<pc, session, registry, ending, Inverter_Cnt, broke>>
sdVars == <<sd, pos, caught>>

LoopInit ==
    /\ pc = [c \in Clients |-> "connect"]
    /\ session = [c \in Clients |-> 0] /\ registry = <<>>
    /\ link = [c \in Clients |-> "none"]
    /\ closed = {} /\ flagged = {} /\ ending = {} /\ Inverter_Cnt = 0
    /\ sd = "idle" /\ pos = 0 /\ caught = {} /\ broke = {} /\ missed = {}

Goto(c, from, to) == pc[c] = from /\ pc' = [pc EXCEPT ![c] = to]

----------------------------------------------------------------------------
(* modbus_loop                                                             *)

\* __aenter__: connected; the new inverter enters the registry, its counters
\* are published.
Connected(c) ==
    /\ Len(registry) < MaxSessions
    /\ Goto(c, "connect", "enter")
    /\ registry' = Append(registry, c)
    /\ session' = [session EXCEPT ![c] = Len(registry) + 1]
    /\ Inverter_Cnt' = Inverter_Cnt + 1
    /\ UNCHANGED <<link, closed, flagged, ending, sdVars, broke, missed>>

\* Refused, timed out, no route.
ConnectFails(c) ==
    /\ Goto(c, "connect", "sleep")
    /\ UNCHANGED <<session, registry, link, closed, flagged, ending,
                   Inverter_Cnt, sdVars, broke, missed>>

\* send_start_cmd, then the loop of the stream.
Enter(c) ==
    /\ Goto(c, "enter", "loop")
    /\ UNCHANGED <<session, registry, link, closed, flagged, ending,
                   Inverter_Cnt, sdVars, broke, missed>>

\* loop() ends with a lost connection or a timeout: disc() closes the writer
\* and waits.
Lost(c) ==
    /\ session[c] \notin closed
    /\ Goto(c, "loop", "disc")
    /\ closed' = closed \cup {session[c]}
    /\ UNCHANGED <<session, registry, link, flagged, ending, Inverter_Cnt,
                   sdVars, broke, missed>>

\* The `with' block is left: shutdown_started is looked at, then __aexit__
\* counts down and publishes.
Leave(c) ==
    /\ ending' = IF session[c] \in flagged THEN ending \cup {c} ELSE ending
    /\ Inverter_Cnt' = Inverter_Cnt - 1

\* The shutdown awaits the end of the session's connection to the cloud, and
\* has not told the session yet.
Untold(s) == sd \in {"remote", "half"} /\ s = pos + 1

\* disc() is over; or the writer is closed already and disc() returns at once.
LoopEnds(c) ==
    /\ \/ Goto(c, "disc", "exit")
       \/ session[c] \in closed /\ Goto(c, "loop", "exit")
    /\ Leave(c)
    /\ missed' = IF Untold(session[c]) THEN missed \cup {session[c]} ELSE missed
    /\ UNCHANGED <<session, registry, link, closed, flagged, sdVars, broke>>

\* wait_closed() raises: out of loop() and of the `with' block.
DiscRaises(c) ==
    /\ Goto(c, "disc", "exit")
    /\ broke' = broke \cup {session[c]}
    /\ Inverter_Cnt' = Inverter_Cnt - 1
    /\ UNCHANGED <<session, registry, link, closed, flagged, ending, sdVars,
                   missed>>

\* The rest of __aexit__: the inverter is gone, and its connection to the
\* cloud with it.  Return, or sleep.
Exit(c) ==
    /\ Goto(c, "exit", IF c \in ending THEN "done" ELSE "sleep")
    /\ closed' = closed \cup {session[c]}
    /\ session' = [session EXCEPT ![c] = 0]
    /\ link' = [link EXCEPT ![c] = "none"]
    /\ UNCHANGED <<registry, flagged, ending, Inverter_Cnt, sdVars, broke,
                   missed>>

Wake(c) ==
    /\ Goto(c, "sleep", "connect")
    /\ UNCHANGED <<session, registry, link, closed, flagged, ending,
                   Inverter_Cnt, sdVars, broke, missed>>

\* A response of the inverter establishes the emulation: create_remote, also
\* after the shutdown.
LinkUp(c) ==
    /\ c \in Forwarding /\ pc[c] = "loop" /\ link[c] = "none"
    /\ link' = [link EXCEPT ![c] = "up"]
    /\ UNCHANGED <<taskVars, closed, flagged, sdVars, missed>>

\* client_loop ends: disc(), or that of a failed forward; then close_cb, which
\* is not reached if wait_closed() raises.
LinkEnds(c) ==
    /\ \/ link[c] = "up" /\ link' = [link EXCEPT ![c] = "closing"]
       \/ link[c] = "closing" /\ link' = [link EXCEPT ![c] = "none"]
    /\ UNCHANGED <<taskVars, closed, flagged, sdVars, missed>>

Task(c) ==
    \/ Connected(c) \/ ConnectFails(c) \/ Enter(c) \/ Lost(c)
    \/ LoopEnds(c) \/ DiscRaises(c) \/ Exit(c) \/ Wake(c)
    \/ LinkUp(c) \/ LinkEnds(c)

----------------------------------------------------------------------------
(* handle_shutdown                                                         *)

\* Entries whose inverter still exists.
Alive(s) == session[registry[s]] = s
Running(s) == Alive(s) /\ pc[registry[s]] \in {"enter", "loop", "disc"}

\* Its connection to the cloud is to be closed first.
Linked(s) == link[registry[s]] = "up" /\ ~(sd = "half" /\ s = pos + 1)

\* The first entry after `pos' whose disc() has to wait, 0: none.
Waits(s) == s > pos /\ Alive(s) /\ (Linked(s) \/ s \notin closed)
NextPos ==
    IF \E s \in 1..Len(registry) : Waits(s)
    THEN CHOOSE s \in 1..Len(registry) :
            Waits(s) /\ \A r \in 1..(s - 1) : ~Waits(r)
    ELSE 0
LastPos == IF NextPos = 0 THEN Len(registry) ELSE NextPos

\* The inverters whose disc(True) is called or goes on now, and those of them
\* whose session is told: all but one with a connection to the cloud.
Seen == {s \in (pos + 1)..LastPos : Alive(s)}
WaitsForLink == NextPos # 0 /\ Linked(NextPos)
Told == IF WaitsForLink THEN Seen \ {NextPos} ELSE Seen

ShutdownStart ==
    /\ sd = "idle" /\ sd' = "run"
    /\ UNCHANGED <<taskVars, link, closed, flagged, pos, caught, missed>>

\* disc(True) of the inverters, up to an await.  The flag of the connection to
\* the cloud has no reader.  New entries of _registry are seen as long as the
\* iteration runs.
DiscAll(told) ==
    /\ sd \in {"run", "half"}
    /\ flagged' = flagged \cup told /\ closed' = closed \cup Told
    /\ caught' = caught \cup {s \in Seen : Running(s)}
    /\ IF WaitsForLink
       THEN /\ link' = [link EXCEPT ![registry[NextPos]] = "closing"]
            /\ pos' = NextPos - 1 /\ sd' = "remote"
       ELSE /\ link' = link
            /\ pos' = LastPos
            /\ sd' = IF NextPos = 0 THEN "done" ELSE "wait"
    /\ UNCHANGED <<taskVars, missed>>

\* Mutants: the session is told after its connection is closed; the loop ends
\* at an entry that is closed already.
VisitFlagsLate == DiscAll(Told \ {NextPos})
VisitStopsAtClosed ==
    IF pos < Len(registry) /\ Alive(pos + 1) /\ ~Waits(pos + 1)
    THEN /\ sd \in {"run", "half"} /\ sd' = "done"
         /\ UNCHANGED <<taskVars, link, closed, flagged, pos, caught, missed>>
    ELSE DiscAll(Told)

Visit == DiscAll(Told)

\* The connection is closed; or wait_closed() raises and ends handle_shutdown.
Visited ==
    /\ \/ sd = "wait" /\ sd' \in {"run", "raised"} /\ UNCHANGED missed
       \/ sd = "remote" /\ sd' = "half" /\ UNCHANGED missed
       \/ sd = "remote" /\ sd' = "raised" /\ missed' = missed \cup {pos + 1}
    /\ UNCHANGED <<taskVars, link, closed, flagged, pos, caught>>

Shutdown == ShutdownStart \/ Visit \/ Visited

LoopNext == (\E c \in Clients : Task(c)) \/ Shutdown

LoopSpec == LoopInit /\ [][LoopNext]_loopVars

----------------------------------------------------------------------------
(* Properties                                                              *)

Sessions == 1..Len(registry)

LoopTypeOK ==
    /\ pc \in [Clients -> {"connect", "enter", "loop", "disc", "exit",
                           "sleep", "done"}]
    /\ registry \in Seq(Clients) /\ session \in [Clients -> 0..Len(registry)]
    /\ link \in [Clients -> {"none", "up", "closing"}]
    /\ closed \subseteq Sessions /\ flagged \subseteq Sessions
    /\ ending \subseteq Clients
    /\ Inverter_Cnt = Cardinality({s \in Sessions : Running(s)})
    /\ sd \in {"idle", "run", "remote", "half", "wait", "done", "raised"}
    /\ pos \in 0..Len(registry)
    /\ {caught, broke, missed} \subseteq SUBSET Sessions

(* A session that runs when the shutdown comes to it (inverter.disc(True))  *)
(* is the last one of its task, which never connects again                  *)
(* (modbus_tcp.py:77), unless disc() of the session itself raised, or the   *)
(* session ended while disc(True) awaited the end of the connection to the  *)
(* cloud, or that await raised: only then it is told (inverter_base.py:83). *)
CaughtIsLast ==
    \A s \in caught \ (broke \cup missed) :
        \A r \in Sessions : registry[r] = registry[s] => r <= s

(* "Disconnect all open TCP connections gracefully" (server.py:442): when   *)
(* the shutdown ends without an exception, every session that runs then     *)
(* knows of it, also one that was connected meanwhile.                      *)
AllReached ==
    [][sd' = "done" /\ sd # "done" =>
         \A s \in Sessions : Running(s) => s \in flagged']_loopVars
==============================================================================
