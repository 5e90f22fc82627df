------------------------------ MODULE ProxyConn ------------------------------
(***************************************************************************)
(* One inverter connection and its connections to the cloud: class          *)
(* InverterBase (app/src/inverter_base.py) with the server and client       *)
(* streams of app/src/async_stream.py, the `with' block of handle_client    *)
(* and the shutdown handler (app/src/server.py).                            *)
(*                                                                          *)
(* Three kinds of tasks share one event loop: the server task that reads    *)
(* from the inverter, a client task for every cloud connection it opens,    *)
(* and the shutdown.  A task runs without interruption from one await to    *)
(* the next, so an action is what a task does after an await returned; the  *)
(* program counters name the await a task is waiting in.                    *)
(***************************************************************************)
EXTENDS Naturals, FiniteSets

CONSTANT MaxConn   \* model bound: cloud connections opened in a behaviour

ASSUME MaxConnAssumption == MaxConn \in Nat

Conns == 1..MaxConn

VARIABLES
    spc,          \* await of the server task
    sopen,        \* the writer to the inverter is not closing
    lopen,        \* self.local.stream and self.local.ifc are set
    fwd,          \* the server's fwd_fifo holds data
    rstream,      \* self.remote.stream: number of the connection, 0: None
    rifc,         \* self.remote.ifc
    nconn,        \* cloud connections opened so far
    cpc,          \* await of each client task
    copen,        \* the writer to the cloud is not closing
    crem,         \* AsyncStreamClient.remote is set
    ccb,          \* AsyncStreamClient.close_cb is set
    inverterCnt,  \* Inverter_Cnt (and ServerMode_Cnt)
    cloudCnt,     \* Cloud_Conn_Cnt (and ProxyMode_Cnt or EmuMode_Cnt)
    hpc,          \* await of the shutdown handler
    broken        \* history: a wait_closed() has raised

server == <<spc, sopen, lopen, fwd, inverterCnt>>
remote == <<rstream, rifc, nconn>>
client == <<cpc, copen, crem, ccb, cloudCnt>>
vars == <<server, remote, client, hpc, broken>>

Init ==
    /\ spc = "start" /\ sopen = TRUE /\ lopen = TRUE /\ fwd = FALSE
    /\ rstream = 0 /\ rifc = 0 /\ nconn = 0
    /\ cpc = [c \in Conns |-> "none"]
    /\ copen = [c \in Conns |-> FALSE]
    /\ crem = [c \in Conns |-> FALSE]
    /\ ccb = [c \in Conns |-> FALSE]
    /\ inverterCnt = 0 /\ cloudCnt = 0
    /\ hpc = "none" /\ broken = FALSE

----------------------------------------------------------------------------
(* Steps several tasks make                                                *)

\* Mutant: the old client keeps its close callback.
DelRemoteKeepsCallback ==
    /\ rstream' = 0 /\ rifc' = 0
    /\ copen' = [c \in Conns |-> copen[c] /\ c # rifc]
    /\ UNCHANGED ccb

\* Mutant: __del_remote forgets to close the stream's socket.
DelRemoteKeepsOpen ==
    /\ rstream' = 0 /\ rifc' = 0
    /\ ccb' = [c \in Conns |-> ccb[c] /\ c # rifc]
    /\ UNCHANGED copen

\* __del_remote, the close callback of a client: close what remote holds.
DelRemote ==
    /\ rstream' = 0 /\ rifc' = 0
    /\ copen' = [c \in Conns |-> copen[c] /\ c # rifc]
    /\ ccb' = [c \in Conns |-> ccb[c] /\ c # rifc]

KeepRemote == UNCHANGED <<rstream, rifc, copen, ccb>>

\* AsyncStreamClient.disc up to wait_closed: it is awaited only if `waits'.
ClientDisc(c, waits) ==
    /\ waits = copen[c]
    /\ crem' = [crem EXCEPT ![c] = FALSE]
    /\ copen' = [copen EXCEPT ![c] = FALSE]

At(c, pc) == cpc' = [cpc EXCEPT ![c] = pc]

----------------------------------------------------------------------------
(* The server task: server_loop, loop, __exit__                            *)

SStart ==
    /\ spc = "start" /\ spc' = "publish"
    /\ inverterCnt' = inverterCnt + 1
    /\ UNCHANGED <<sopen, lopen, fwd, remote, client, hpc, broken>>

SPublished ==
    /\ spc = "publish" /\ spc' = "read"
    /\ UNCHANGED <<sopen, lopen, fwd, inverterCnt, remote, client, hpc, broken>>

\* Messages arrived and were processed, maybe they are to be forwarded.
SRecv ==
    /\ spc = "read" /\ sopen
    /\ spc' = "write" /\ fwd' \in {fwd, TRUE}
    /\ UNCHANGED <<sopen, lopen, inverterCnt, remote, client, hpc, broken>>

\* write(self.fwd_fifo.get()) on the socket of the remote stream
SForward == spc' = "forward" /\ fwd' = FALSE

\* __async_write is done, __async_forward begins.
SWritten ==
    /\ spc = "write"
    /\ \/ ~fwd /\ spc' = "publish" /\ UNCHANGED fwd
       \/ fwd /\ rstream # 0 /\ SForward
       \/ fwd /\ rstream = 0 /\ spc' = "connect" /\ UNCHANGED fwd
    /\ UNCHANGED <<sopen, lopen, inverterCnt, remote, client, hpc, broken>>

\* create_remote: open_connection returned.  The new client task has not run
\* yet; the protocol may greet the cloud first (init_new_client_conn_cb).
SConnected ==
    /\ spc = "connect" /\ nconn < MaxConn
    /\ nconn' = nconn + 1 /\ rstream' = nconn' /\ rifc' = nconn'
    /\ At(nconn', "ready")
    /\ copen' = [copen EXCEPT ![nconn'] = TRUE]
    /\ crem' = [crem EXCEPT ![nconn'] = TRUE]
    /\ ccb' = [ccb EXCEPT ![nconn'] = TRUE]
    /\ (spc' = "greet" /\ UNCHANGED fwd) \/ SForward
    /\ UNCHANGED <<sopen, lopen, inverterCnt, cloudCnt, hpc, broken>>

\* The connection is refused or times out: the data stays in fwd_fifo.
SRefused ==
    /\ spc = "connect" /\ spc' = "publish"
    /\ UNCHANGED <<sopen, lopen, fwd, inverterCnt, remote, client, hpc, broken>>

\* The greeting is sent; meanwhile the client task may have ended.
SGreeted ==
    /\ spc = "greet"
    /\ IF rstream # 0 THEN SForward ELSE spc' = "publish" /\ UNCHANGED fwd
    /\ UNCHANGED <<sopen, lopen, inverterCnt, remote, client, hpc, broken>>

SForwarded ==
    /\ spc = "forward" /\ spc' = "publish"
    /\ UNCHANGED <<sopen, lopen, fwd, inverterCnt, remote, client, hpc, broken>>

\* Greeting or forwarding fails: the server disconnects the cloud and calls
\* its close callback.
SForwardFails ==
    /\ spc \in {"greet", "forward"}
    /\ \/ /\ rstream = 0
          /\ spc' = "publish" /\ UNCHANGED <<crem, rstream, rifc, copen, ccb>>
       \/ /\ rstream # 0 /\ ClientDisc(rifc, TRUE)
          /\ spc' = "rdisc" /\ UNCHANGED <<rstream, rifc, ccb>>
       \/ /\ rstream # 0 /\ ~copen[rifc]
          /\ crem' = [crem EXCEPT ![rifc] = FALSE]
          /\ spc' = "publish"
          /\ IF ccb[rifc] THEN DelRemote ELSE KeepRemote
    /\ UNCHANGED <<sopen, lopen, fwd, inverterCnt, nconn, cpc, cloudCnt, hpc,
                   broken>>

\* ... after the await: the client task may have ended itself, then
\* rmt.ifc.close_cb is an AttributeError and the loop goes on reading.
SRemoteDisced ==
    /\ spc = "rdisc"
    /\ IF rifc = 0
       THEN spc' = "read" /\ KeepRemote
       ELSE spc' = "publish" /\ IF ccb[rifc] THEN DelRemote ELSE KeepRemote
    /\ UNCHANGED <<sopen, lopen, fwd, inverterCnt, nconn, cpc, crem, cloudCnt,
                   hpc, broken>>

\* Mutant: the counter is not corrected.
SStopKeepsCount == spc' = "unpublish" /\ UNCHANGED inverterCnt

\* loop() returns, the counters are corrected.
SStop == spc' = "unpublish" /\ inverterCnt' = inverterCnt - 1

\* The read ends (end of file, timeout, error), or a write or a wait_closed
\* in the forward error path fails: disc(), then the loop is left.
SLeave ==
    /\ spc \in {"read", "write", "rdisc"}
    /\ IF sopen THEN spc' = "disc" /\ UNCHANGED inverterCnt ELSE SStop
    /\ sopen' = FALSE
    /\ broken' = (broken \/ spc = "rdisc")
    /\ UNCHANGED <<lopen, fwd, remote, client, hpc>>

SDisced ==
    /\ spc = "disc" /\ SStop
    /\ UNCHANGED <<sopen, lopen, fwd, remote, client, hpc, broken>>

\* __exit__ of the with block
SExit == spc' = "exited" /\ DelRemote /\ lopen' = FALSE /\ sopen' = FALSE

\* wait_closed raises: loop() and server_loop() are left by the exception.
SDiscRaises ==
    /\ spc = "disc" /\ SExit /\ broken' = TRUE
    /\ UNCHANGED <<fwd, inverterCnt, nconn, cpc, crem, cloudCnt, hpc>>

\* The end of server_loop: disconnect the cloud.
SUnpublished ==
    /\ spc = "unpublish"
    /\ \/ /\ rstream # 0 /\ ClientDisc(rifc, TRUE)
          /\ spc' = "cdisc" /\ UNCHANGED <<rstream, rifc, ccb, lopen, sopen>>
       \/ /\ rstream # 0 /\ ~copen[rifc]
          /\ crem' = [crem EXCEPT ![rifc] = FALSE] /\ SExit
       \/ rstream = 0 /\ SExit /\ UNCHANGED crem
    /\ UNCHANGED <<fwd, inverterCnt, nconn, cpc, cloudCnt, hpc, broken>>

SCloudDisced ==
    /\ spc = "cdisc" /\ SExit
    /\ UNCHANGED <<fwd, inverterCnt, nconn, cpc, crem, cloudCnt, hpc, broken>>

----------------------------------------------------------------------------
(* A client task: client_loop, loop                                        *)

\* Mutant: the connection is not counted.
CStartUncounted(c) ==
    /\ cpc[c] = "ready" /\ At(c, "publish")
    /\ UNCHANGED <<server, remote, copen, crem, ccb, cloudCnt, hpc, broken>>

CStart(c) ==
    /\ cpc[c] = "ready" /\ At(c, "publish")
    /\ cloudCnt' = cloudCnt + 1
    /\ UNCHANGED <<server, remote, copen, crem, ccb, hpc, broken>>

CPublished(c) ==
    /\ cpc[c] = "publish" /\ At(c, "read")
    /\ UNCHANGED <<server, remote, copen, crem, ccb, cloudCnt, hpc, broken>>

CRecv(c) ==
    /\ cpc[c] = "read" /\ copen[c] /\ At(c, "write")
    /\ UNCHANGED <<server, remote, copen, crem, ccb, cloudCnt, hpc, broken>>

\* A message for the inverter is written on its socket.  Without `remote',
\* erased by a disc() during the await, this is an AttributeError: the loop
\* counts it and reads on, as it does if there is nothing to forward.
CWritten(c) ==
    /\ cpc[c] = "write"
    /\ At(c, "read") \/ (crem[c] /\ lopen /\ At(c, "forward"))
    /\ UNCHANGED <<server, remote, copen, crem, ccb, cloudCnt, hpc, broken>>

CForwarded(c) ==
    /\ cpc[c] = "forward" /\ At(c, "read")
    /\ UNCHANGED <<server, remote, copen, crem, ccb, cloudCnt, hpc, broken>>

\* Forwarding fails: the client disconnects the inverter.  Afterwards it asks
\* for rmt.ifc.close_cb, which a server stream does not have: the exception
\* ends in the loop, which reads on.
CForwardFails(c) ==
    /\ cpc[c] = "forward"
    /\ IF crem[c] /\ lopen /\ sopen
       THEN sopen' = FALSE /\ At(c, "ldisc")
       ELSE At(c, "read") /\ UNCHANGED sopen
    /\ UNCHANGED <<spc, lopen, fwd, inverterCnt, remote, copen, crem, ccb,
                   cloudCnt, hpc, broken>>

CLocalDisced(c) ==
    /\ cpc[c] = "ldisc" /\ At(c, "read")
    /\ UNCHANGED <<server, remote, copen, crem, ccb, cloudCnt, hpc, broken>>

CStop(c) == At(c, "unpublish") /\ cloudCnt' = cloudCnt - 1

\* The read ends, or a write or the wait_closed of the error path fails.
CLeave(c) ==
    /\ cpc[c] \in {"read", "write", "ldisc"}
    /\ \/ ClientDisc(c, TRUE) /\ At(c, "disc") /\ UNCHANGED cloudCnt
       \/ ClientDisc(c, FALSE) /\ CStop(c)
    /\ broken' = (broken \/ cpc[c] = "ldisc")
    /\ UNCHANGED <<server, remote, ccb, hpc>>

CDisced(c) ==
    /\ cpc[c] = "disc" /\ CStop(c)
    /\ UNCHANGED <<server, remote, copen, crem, ccb, hpc, broken>>

\* wait_closed raises: the task dies, nothing after it is done.
CDiscRaises(c) ==
    /\ cpc[c] = "disc" /\ At(c, "dead") /\ broken' = TRUE
    /\ UNCHANGED <<server, remote, copen, crem, ccb, cloudCnt, hpc>>

\* The end of client_loop: the close callback, unless close() erased it.
CEnd(c) ==
    /\ cpc[c] = "unpublish" /\ At(c, "done")
    /\ IF ccb[c] THEN DelRemote ELSE KeepRemote
    /\ UNCHANGED <<server, nconn, crem, cloudCnt, hpc, broken>>

----------------------------------------------------------------------------
(* Shutdown: InverterBase.disc(True), remote first                         *)

\* Mutant: the inverter side is not disconnected.
HLocalSkipped == hpc' = "done" /\ UNCHANGED sopen

HLocal ==
    IF lopen /\ sopen
    THEN sopen' = FALSE /\ hpc' = "local"
    ELSE hpc' = "done" /\ UNCHANGED sopen

HStart ==
    /\ hpc = "none"
    /\ \/ /\ rifc # 0 /\ ClientDisc(rifc, TRUE)
          /\ hpc' = "remote" /\ UNCHANGED sopen
       \/ /\ rifc # 0 /\ ~copen[rifc]
          /\ crem' = [crem EXCEPT ![rifc] = FALSE] /\ UNCHANGED copen
          /\ HLocal
       \/ rifc = 0 /\ HLocal /\ UNCHANGED <<crem, copen>>
    /\ UNCHANGED <<spc, lopen, fwd, inverterCnt, remote, cpc, ccb, cloudCnt,
                   broken>>

HRemoteDisced ==
    /\ hpc = "remote" /\ HLocal
    /\ UNCHANGED <<spc, lopen, fwd, inverterCnt, remote, client, broken>>

\* wait_closed raises: the handler is left, the rest stays connected.
HDiscRaises ==
    /\ hpc \in {"remote", "local"} /\ hpc' = "dead" /\ broken' = TRUE
    /\ UNCHANGED <<server, remote, client>>

HLocalDisced ==
    /\ hpc = "local" /\ hpc' = "done"
    /\ UNCHANGED <<server, remote, client, broken>>

----------------------------------------------------------------------------
\* The peer resets a connection; a read or write will fail.
InverterLost ==
    /\ sopen /\ sopen' = FALSE
    /\ UNCHANGED <<spc, lopen, fwd, inverterCnt, remote, client, hpc, broken>>

CloudLost(c) ==
    /\ copen[c] /\ copen' = [copen EXCEPT ![c] = FALSE]
    /\ UNCHANGED <<server, remote, cpc, crem, ccb, cloudCnt, hpc, broken>>

ServerStep ==
    \/ SStart \/ SPublished \/ SWritten \/ SConnected \/ SRefused
    \/ SGreeted \/ SForwarded \/ SForwardFails \/ SRemoteDisced
    \/ SDisced \/ SDiscRaises \/ SUnpublished \/ SCloudDisced

ClientStep(c) ==
    \/ CStart(c) \/ CPublished(c) \/ CWritten(c) \/ CForwarded(c)
    \/ CForwardFails(c) \/ CLocalDisced(c) \/ CDisced(c) \/ CDiscRaises(c)
    \/ CEnd(c)

ShutdownStep == HRemoteDisced \/ HDiscRaises \/ HLocalDisced

Next ==
    \/ ServerStep \/ SRecv \/ SLeave
    \/ \E c \in Conns : ClientStep(c) \/ CRecv(c) \/ CLeave(c) \/ CloudLost(c)
    \/ HStart \/ ShutdownStep
    \/ InverterLost

Spec == Init /\ [][Next]_vars

\* Every await but a read returns, and a read returns once the socket is
\* closed (end of file or error).  Nothing makes a peer send or close.
FairSpec ==
    /\ Spec
    /\ WF_vars(ServerStep) /\ WF_vars(~sopen /\ SLeave)
    /\ \A c \in Conns : WF_vars(ClientStep(c)) /\ WF_vars(~copen[c] /\ CLeave(c))
    /\ WF_vars(ShutdownStep)

----------------------------------------------------------------------------
(* Properties                                                              *)

TypeOK ==
    /\ spc \in {"start", "publish", "read", "write", "connect", "greet",
                "forward", "rdisc", "disc", "unpublish", "cdisc", "exited"}
    /\ cpc \in [Conns -> {"none", "ready", "publish", "read", "write",
                          "forward", "ldisc", "disc", "unpublish", "done",
                          "dead"}]
    /\ hpc \in {"none", "remote", "local", "done", "dead"}
    /\ sopen \in BOOLEAN /\ lopen \in BOOLEAN /\ fwd \in BOOLEAN
    /\ rstream \in 0..MaxConn /\ rifc \in 0..MaxConn /\ nconn \in 0..MaxConn
    /\ copen \in [Conns -> BOOLEAN] /\ crem \in [Conns -> BOOLEAN]
    /\ ccb \in [Conns -> BOOLEAN]
    /\ inverterCnt \in 0..1 /\ cloudCnt \in 0..MaxConn
    /\ broken \in BOOLEAN

(* A connection to the cloud that is open is the one `remote' holds, stream *)
(* and interface together: whatever ends the inverter connection finds it   *)
(* there, so none is leaked and there are never two.                        *)
OpenIsRemote ==
    /\ rstream = rifc
    /\ \A c \in Conns : copen[c] \/ ccb[c] => rifc = c

(* A client task that ends late never tears down the connection that was    *)
(* opened after it: its close callback removes its own connection or none.  *)
EndsOnlyItself ==
    [][\A c \in Conns :
         cpc[c] = "unpublish" /\ cpc'[c] = "done" /\ rifc' # rifc => rifc = c
      ]_vars

Ended == {"none", "done", "dead"}

(* When the inverter connection is gone every task of it ends: none keeps   *)
(* reading from or writing to a socket nobody owns.                         *)
AllTasksEnd == spc = "exited" ~> \A c \in Conns : cpc[c] \in Ended

(* The counters go back to zero when every loop has ended, whatever the     *)
(* order of the ends and errors, as long as no wait_closed() raises.        *)
Idle == spc = "exited" /\ \A c \in Conns : cpc[c] \in Ended
BalancedUnlessBroken == Idle /\ ~broken => inverterCnt = 0 /\ cloudCnt = 0

(* "Active Inverter Connections" and "Active Cloud Connections"             *)
(* (infos.py:628,629) count active connections.                             *)
Balanced == Idle => inverterCnt = 0 /\ cloudCnt = 0

(* A shutdown that ran to its end has ended the inverter connection.        *)
ShutdownEnds == hpc = "done" ~> spc = "exited"
==============================================================================
