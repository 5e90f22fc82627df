--------------------------- MODULE ProxyConnProofs ---------------------------
(***************************************************************************)
(* Proofs about ProxyConn for every number of cloud connections.  Links    *)
(* ties the sockets and the close callbacks to what `remote' holds; Counts *)
(* ties the two counters to the awaits of the tasks.                       *)
(***************************************************************************)
EXTENDS ProxyConn, FiniteSetTheorems, TLAPS

ServerPcs == {"start", "publish", "read", "write", "connect", "greet",
              "forward", "rdisc", "disc", "unpublish", "cdisc", "exited"}
ClientPcs == {"none", "ready", "publish", "read", "write", "forward", "ldisc",
              "disc", "unpublish", "done", "dead"}

\* The types of what the tasks and the sockets are made of.
PartTypes ==
    /\ spc \in ServerPcs /\ cpc \in [Conns -> ClientPcs]
    /\ hpc \in {"none", "remote", "local", "done", "dead"}
    /\ sopen \in BOOLEAN /\ lopen \in BOOLEAN /\ fwd \in BOOLEAN
    /\ rstream \in 0..MaxConn /\ rifc \in 0..MaxConn /\ nconn \in 0..MaxConn
    /\ copen \in [Conns -> BOOLEAN] /\ crem \in [Conns -> BOOLEAN]
    /\ ccb \in [Conns -> BOOLEAN]
    /\ broken \in BOOLEAN

\* create_remote is only awaited while there is no remote, and what it opens
\* is a connection no task has run for.
ConnectsOnce ==
    /\ spc = "connect" => rifc = 0
    /\ \A c \in Conns : c > nconn => cpc[c] = "none"

Links == PartTypes /\ OpenIsRemote /\ ConnectsOnce

\* The awaits between the increment and the decrement of a counter.  A task
\* that is dead has been counted and never is corrected.
Serving == {"publish", "read", "write", "connect", "greet", "forward",
            "rdisc", "disc"}
CloudPcs == {"publish", "read", "write", "forward", "ldisc", "disc", "dead"}
Counted == {c \in Conns : cpc[c] \in CloudPcs}

ServerCount ==
    /\ inverterCnt \in 0..1
    /\ spc \in Serving => inverterCnt = 1
    /\ spc \in {"start", "unpublish", "cdisc"} => inverterCnt = 0
    /\ spc = "exited" /\ ~broken => inverterCnt = 0

CloudCount ==
    /\ cloudCnt = Cardinality(Counted)
    /\ ~broken => \A c \in Conns : cpc[c] # "dead"

Counts == ServerCount /\ CloudCount

-----------------------------------------------------------------------------
(* What the steps several tasks make leave behind.                         *)

\* __del_remote closes all there is.
LEMMA DelRemoteLinks ==
    ASSUME Links, DelRemote
    PROVE  /\ rstream' = 0 /\ rifc' = 0
           /\ copen' = [c \in Conns |-> FALSE] /\ ccb' = [c \in Conns |-> FALSE]
           /\ rstream' \in 0..MaxConn /\ rifc' \in 0..MaxConn
           /\ copen' \in [Conns -> BOOLEAN] /\ ccb' \in [Conns -> BOOLEAN]
           /\ OpenIsRemote'
<1>1. /\ copen' = [c \in Conns |-> copen[c] /\ c # rifc]
      /\ ccb' = [c \in Conns |-> ccb[c] /\ c # rifc]
      /\ rstream' = 0 /\ rifc' = 0 /\ 0 \in 0..MaxConn
  BY MaxConnAssumption DEF DelRemote
<1>2. \A c \in Conns : /\ (copen[c] /\ c # rifc) = FALSE
                       /\ (ccb[c] /\ c # rifc) = FALSE
  BY DEF Links, PartTypes, OpenIsRemote
<1>3. copen' = [c \in Conns |-> FALSE] /\ ccb' = [c \in Conns |-> FALSE]
  BY <1>1, <1>2
<1>4. OpenIsRemote'
  BY <1>1, <1>3 DEF OpenIsRemote
<1> QED BY <1>1, <1>3, <1>4

(* Links is kept by every step of the server task.                         *)
LEMMA ServerLinks ==
    ASSUME Links, ServerStep \/ SRecv \/ SLeave
    PROVE  Links'
<1> USE DEF Links, PartTypes, ServerPcs, ClientPcs, ConnectsOnce
<1> DEFINE Same == UNCHANGED <<rstream, rifc, nconn, cpc, copen, crem, ccb, hpc>>
<1>1. ASSUME Same, spc' \in ServerPcs, spc' = "connect" => rifc = 0,
             sopen' \in BOOLEAN, lopen' \in BOOLEAN, fwd' \in BOOLEAN, broken' \in BOOLEAN
      PROVE  Links'
  BY <1>1 DEF OpenIsRemote
<1>2. CASE SStart \/ SPublished \/ SRecv \/ SRefused \/ SForwarded
  BY <1>1, <1>2 DEF SStart, SPublished, SRecv, SRefused, SForwarded, remote, client
<1>3. CASE SWritten
  BY <1>1, <1>3 DEF SWritten, SForward, remote, client, OpenIsRemote
<1>4. CASE SGreeted
  BY <1>1, <1>4 DEF SGreeted, SForward, remote, client
<1>5. CASE SDisced \/ SLeave
  BY <1>1, <1>5 DEF SDisced, SLeave, SStop, remote, client
<1>6. CASE SConnected
  <2>1. /\ spc = "connect" /\ nconn < MaxConn /\ nconn' = nconn + 1
        /\ rstream' = nconn' /\ rifc' = nconn'
        /\ cpc' = [cpc EXCEPT ![nconn'] = "ready"]
        /\ copen' = [copen EXCEPT ![nconn'] = TRUE]
        /\ crem' = [crem EXCEPT ![nconn'] = TRUE]
        /\ ccb' = [ccb EXCEPT ![nconn'] = TRUE]
        /\ spc' \in {"greet", "forward"} /\ fwd' \in BOOLEAN
        /\ UNCHANGED <<sopen, lopen, hpc, broken>>
    BY <1>6 DEF SConnected, SForward, At
  <2>2. nconn' \in 0..MaxConn /\ nconn' \in Conns
    BY <2>1, MaxConnAssumption DEF Conns
  <2>3. PartTypes'
    BY <2>1, <2>2
  <2>4. \A c \in Conns : ~copen[c] /\ ~ccb[c]
    BY <2>1 DEF OpenIsRemote, Conns
  <2>5. OpenIsRemote'
    BY <2>1, <2>4 DEF OpenIsRemote
  <2>6. \A c \in Conns : c > nconn' => c > nconn /\ c # nconn'
    BY <2>1, <2>2 DEF Conns
  <2> QED BY <2>1, <2>3, <2>5, <2>6
<1>7. CASE SForwardFails
  <2>1. /\ UNCHANGED <<sopen, lopen, fwd, nconn, cpc, hpc, broken>>
        /\ spc' \in {"publish", "rdisc"}
    BY <1>7 DEF SForwardFails
  <2>2. CASE UNCHANGED <<crem, rstream, rifc, copen, ccb>>
    BY <1>1, <2>1, <2>2
  <2>3. CASE rstream # 0 /\ ClientDisc(rifc, TRUE) /\ UNCHANGED <<rstream, rifc, ccb>>
    BY <2>1, <2>3 DEF ClientDisc, OpenIsRemote
  <2>4. CASE /\ crem' = [crem EXCEPT ![rifc] = FALSE]
             /\ IF ccb[rifc] THEN DelRemote ELSE KeepRemote
    <3>1. crem' \in [Conns -> BOOLEAN]
      BY <2>4
    <3>2. CASE DelRemote
      BY <2>1, <3>1, <3>2, DelRemoteLinks
    <3>3. CASE KeepRemote
      BY <2>1, <3>1, <3>3 DEF KeepRemote, OpenIsRemote
    <3> QED BY <2>4, <3>2, <3>3
  <2> QED BY <1>7, <2>2, <2>3, <2>4 DEF SForwardFails
<1>8. CASE SRemoteDisced
  <2>1. /\ UNCHANGED <<sopen, lopen, fwd, nconn, cpc, crem, hpc, broken>>
        /\ spc' \in {"publish", "read"} /\ (DelRemote \/ KeepRemote)
    BY <1>8 DEF SRemoteDisced
  <2>2. CASE DelRemote
    BY <2>1, <2>2, DelRemoteLinks
  <2>3. CASE KeepRemote
    BY <2>1, <2>3 DEF KeepRemote, OpenIsRemote
  <2> QED BY <2>1, <2>2, <2>3
<1>9. CASE SDiscRaises \/ SCloudDisced
  <2>1. /\ UNCHANGED <<fwd, nconn, cpc, crem, hpc>> /\ DelRemote /\ broken' \in BOOLEAN
        /\ spc' = "exited" /\ lopen' = FALSE /\ sopen' = FALSE
    BY <1>9 DEF SDiscRaises, SCloudDisced, SExit
  <2> QED BY <2>1, DelRemoteLinks
<1>10. CASE SUnpublished
  <2>1. /\ UNCHANGED <<fwd, nconn, cpc, hpc, broken>>
        /\ spc' \in {"cdisc", "exited"} /\ lopen' \in BOOLEAN /\ sopen' \in BOOLEAN
    BY <1>10 DEF SUnpublished, SExit
  <2>2. CASE rstream # 0 /\ ClientDisc(rifc, TRUE) /\ UNCHANGED <<rstream, rifc, ccb>>
    BY <2>1, <2>2 DEF ClientDisc, OpenIsRemote
  <2>3. CASE DelRemote /\ crem' \in [Conns -> BOOLEAN]
    BY <2>1, <2>3, DelRemoteLinks
  <2> QED BY <1>10, <2>2, <2>3 DEF SUnpublished, SExit
<1> QED BY <1>2, <1>3, <1>4, <1>5, <1>6, <1>7, <1>8, <1>9, <1>10 DEF ServerStep

(* ... by every step of a client task ...                                  *)
LEMMA ClientLinks ==
    ASSUME Links, NEW c \in Conns, ClientStep(c) \/ CRecv(c) \/ CLeave(c)
    PROVE  Links'
<1> USE DEF Links, PartTypes, ServerPcs, ClientPcs
<1> DEFINE Moves(pcs) == \E pc \in pcs : cpc' = [cpc EXCEPT ![c] = pc]
<1>1. cpc[c] # "none" /\ Moves(ClientPcs) /\ UNCHANGED nconn
        => (ConnectsOnce /\ UNCHANGED <<spc, rifc>> => ConnectsOnce')
  BY DEF ConnectsOnce
<1>2. CASE \/ CStart(c) \/ CPublished(c) \/ CRecv(c) \/ CWritten(c) \/ CForwarded(c)
           \/ CForwardFails(c) \/ CLocalDisced(c) \/ CDisced(c) \/ CDiscRaises(c)
  <2>1. /\ UNCHANGED <<spc, lopen, fwd, rstream, rifc, nconn, copen, crem, ccb, hpc>>
        /\ sopen' \in BOOLEAN /\ broken' \in BOOLEAN /\ cpc[c] # "none"
    BY <1>2 DEF CStart, CPublished, CRecv, CWritten, CForwarded, CForwardFails,
                CLocalDisced, CDisced, CDiscRaises, server, remote
  <2>2. Moves(ClientPcs)
    BY <1>2 DEF CStart, CPublished, CRecv, CWritten, CForwarded, CForwardFails,
                CLocalDisced, CDisced, CDiscRaises, CStop, At
  <2>3. ConnectsOnce'
    BY <1>1, <2>1, <2>2
  <2> QED BY <2>1, <2>2, <2>3 DEF OpenIsRemote
<1>3. CASE CLeave(c)
  <2>1. /\ UNCHANGED <<spc, sopen, lopen, fwd, rstream, rifc, nconn, ccb, hpc>>
        /\ broken' \in BOOLEAN /\ cpc[c] # "none"
        /\ copen' = [copen EXCEPT ![c] = FALSE]
        /\ crem' = [crem EXCEPT ![c] = FALSE]
    BY <1>3 DEF CLeave, ClientDisc, server, remote
  <2>2. Moves(ClientPcs)
    BY <1>3 DEF CLeave, CStop, At
  <2>3. ConnectsOnce'
    BY <1>1, <2>1, <2>2
  <2> QED BY <2>1, <2>2, <2>3 DEF OpenIsRemote
<1>4. CASE CEnd(c)
  <2>1. /\ UNCHANGED <<spc, sopen, lopen, fwd, nconn, crem, hpc, broken>>
        /\ DelRemote \/ KeepRemote
        /\ cpc' = [cpc EXCEPT ![c] = "done"] /\ cpc[c] = "unpublish"
    BY <1>4 DEF CEnd, server, At
  <2>2. \A d \in Conns : d > nconn' => cpc'[d] = "none"
    BY <2>1 DEF ConnectsOnce
  <2>3. CASE DelRemote
    BY <2>1, <2>2, <2>3, DelRemoteLinks DEF ConnectsOnce
  <2>4. CASE KeepRemote
    BY <2>1, <2>2, <2>4 DEF KeepRemote, OpenIsRemote, ConnectsOnce
  <2> QED BY <2>1, <2>3, <2>4
<1> QED BY <1>2, <1>3, <1>4 DEF ClientStep

(* ... and by the shutdown and the peers.                                  *)
LEMMA OtherLinks ==
    ASSUME Links,
           \/ HStart \/ ShutdownStep \/ InverterLost
           \/ \E c \in Conns : CloudLost(c)
    PROVE  Links'
<1> USE DEF Links, PartTypes, ServerPcs, ClientPcs, ConnectsOnce
<1>1. CASE HStart
  <2>1. /\ UNCHANGED <<spc, lopen, fwd, rstream, rifc, nconn, cpc, ccb, broken>>
        /\ sopen' \in BOOLEAN /\ hpc' \in {"remote", "local", "done"}
    BY <1>1 DEF HStart, HLocal, remote
  <2>2. \/ /\ crem' = [crem EXCEPT ![rifc] = FALSE]
           /\ copen' = [copen EXCEPT ![rifc] = FALSE] \/ UNCHANGED copen
        \/ UNCHANGED <<crem, copen>>
    BY <1>1 DEF HStart, ClientDisc
  <2>3. crem' \in [Conns -> BOOLEAN] /\ copen' \in [Conns -> BOOLEAN]
    BY <2>2
  <2>4. \A c \in Conns : copen'[c] => copen[c]
    BY <2>2
  <2>5. OpenIsRemote'
    BY <2>1, <2>4 DEF OpenIsRemote
  <2>6. PartTypes'
    BY <2>1, <2>3
  <2>7. ConnectsOnce'
    BY <2>1
  <2> QED BY <2>5, <2>6, <2>7
<1>2. CASE ShutdownStep \/ InverterLost
  <2>1. /\ UNCHANGED <<spc, lopen, fwd, rstream, rifc, nconn, cpc, copen, crem, ccb>>
        /\ sopen' \in BOOLEAN /\ broken' \in BOOLEAN
        /\ hpc' \in {"none", "remote", "local", "done", "dead"}
    <3>1. CASE HRemoteDisced
      BY <3>1 DEF HRemoteDisced, HLocal, remote, client
    <3>2. CASE HDiscRaises
      BY <3>2 DEF HDiscRaises, server, remote, client
    <3>3. CASE HLocalDisced
      BY <3>3 DEF HLocalDisced, server, remote, client
    <3>4. CASE InverterLost
      BY <3>4 DEF InverterLost, remote, client
    <3> QED BY <1>2, <3>1, <3>2, <3>3, <3>4 DEF ShutdownStep
  <2> QED BY <2>1 DEF OpenIsRemote
<1>3. ASSUME NEW c \in Conns, CloudLost(c)
      PROVE  Links'
  BY <1>3 DEF CloudLost, server, remote, OpenIsRemote
<1> QED BY <1>1, <1>2, <1>3

LEMMA InitLinks == Init => Links
<1> SUFFICES ASSUME Init PROVE Links
  OBVIOUS
<1>1. 0 \in 0..MaxConn
  BY MaxConnAssumption
<1>2. PartTypes
  BY <1>1 DEF Init, PartTypes, ServerPcs, ClientPcs
<1>3. OpenIsRemote
  BY DEF Init, OpenIsRemote
<1>4. ConnectsOnce
  BY DEF Init, ConnectsOnce
<1> QED BY <1>2, <1>3, <1>4 DEF Links

LEMMA NextLinks == Links /\ [Next]_vars => Links'
<1> SUFFICES ASSUME Links, [Next]_vars PROVE Links'
  OBVIOUS
<1>1. CASE ServerStep \/ SRecv \/ SLeave
  BY <1>1, ServerLinks
<1>2. ASSUME NEW c \in Conns, ClientStep(c) \/ CRecv(c) \/ CLeave(c)
      PROVE  Links'
  BY <1>2, ClientLinks
<1>3. CASE \/ HStart \/ ShutdownStep \/ InverterLost
           \/ \E c \in Conns : CloudLost(c)
  BY <1>3, OtherLinks
<1>4. CASE UNCHANGED vars
  BY <1>4 DEF vars, server, remote, client, Links, PartTypes, OpenIsRemote, ConnectsOnce
<1> QED BY <1>1, <1>2, <1>3, <1>4 DEF Next

-----------------------------------------------------------------------------
(* The counters.                                                           *)

\* What a client task does to the set of counted tasks.
LEMMA CountedMoves ==
    ASSUME Links, NEW c \in Conns, NEW pc \in ClientPcs, At(c, pc)
    PROVE  /\ (pc \in CloudPcs <=> cpc[c] \in CloudPcs) => UNCHANGED Cardinality(Counted)
           /\ pc \in CloudPcs /\ cpc[c] \notin CloudPcs
                => Cardinality(Counted') = Cardinality(Counted) + 1
           /\ pc \notin CloudPcs /\ cpc[c] \in CloudPcs
                => Cardinality(Counted') = Cardinality(Counted) - 1
<1>1. cpc \in [Conns -> ClientPcs] /\ cpc' = [cpc EXCEPT ![c] = pc]
  BY DEF Links, PartTypes, At
<1>2. IsFiniteSet(Counted)
  <2>1. IsFiniteSet(Conns)
    BY MaxConnAssumption, FS_Interval DEF Conns
  <2> QED BY <2>1, FS_Subset DEF Counted
<1>3. (pc \in CloudPcs <=> cpc[c] \in CloudPcs) => Counted' = Counted
  BY <1>1 DEF Counted
<1>4. ASSUME pc \in CloudPcs, cpc[c] \notin CloudPcs
      PROVE  Cardinality(Counted') = Cardinality(Counted) + 1
  <2>1. Counted' = Counted \cup {c} /\ c \notin Counted
    BY <1>1, <1>4 DEF Counted
  <2> QED BY <1>2, <2>1, FS_AddElement
<1>5. ASSUME pc \notin CloudPcs, cpc[c] \in CloudPcs
      PROVE  Cardinality(Counted') = Cardinality(Counted) - 1
  <2>1. Counted' = Counted \ {c} /\ c \in Counted
    BY <1>1, <1>5 DEF Counted
  <2> QED BY <1>2, <2>1, FS_RemoveElement
<1> QED BY <1>3, <1>4, <1>5

\* The server task and the shutdown do not touch the tasks of the clients but
\* to create one, which is not counted before it runs.
LEMMA ServerCounts ==
    ASSUME Links, Counts, ServerStep \/ SRecv \/ SLeave
    PROVE  Counts'
<1> USE DEF Links, PartTypes, ServerPcs
<1>1. ServerCount'
  <2> USE DEF Counts, ServerCount, Serving
  <2>1. CASE SStart
    BY <2>1 DEF SStart
  <2>11. CASE SPublished \/ SRecv \/ SRefused \/ SForwarded
    BY <2>11 DEF SPublished, SRecv, SRefused, SForwarded
  <2>2. CASE SWritten \/ SConnected \/ SGreeted
    BY <2>2 DEF SWritten, SConnected, SGreeted, SForward
  <2>3. CASE SForwardFails \/ SRemoteDisced
    BY <2>3 DEF SForwardFails, SRemoteDisced
  <2>4. CASE SDisced \/ SLeave
    BY <2>4 DEF SDisced, SLeave, SStop
  <2>5. CASE SDiscRaises \/ SCloudDisced
    BY <2>5 DEF SDiscRaises, SCloudDisced, SExit
  <2>6. CASE SUnpublished
    BY <2>6 DEF SUnpublished, SExit
  <2> QED BY <2>1, <2>11, <2>2, <2>3, <2>4, <2>5, <2>6 DEF ServerStep
<1>2. cloudCnt' = cloudCnt /\ (broken => broken')
  <2>1. CASE \/ SStart \/ SPublished \/ SRecv \/ SRefused \/ SForwarded \/ SWritten
             \/ SConnected \/ SGreeted \/ SForwardFails \/ SRemoteDisced
    BY <2>1 DEF SStart, SPublished, SRecv, SRefused, SForwarded, SWritten,
                SConnected, SGreeted, SForwardFails, SRemoteDisced, client
  <2>2. CASE SDisced \/ SLeave \/ SDiscRaises \/ SCloudDisced \/ SUnpublished
    BY <2>2 DEF SDisced, SLeave, SDiscRaises, SCloudDisced, SUnpublished, client
  <2> QED BY <2>1, <2>2 DEF ServerStep
<1>3. CASE SConnected
  <2>1. /\ nconn < MaxConn /\ nconn' = nconn + 1 /\ At(nconn', "ready")
    BY <1>3 DEF SConnected
  <2>2. nconn' \in Conns /\ nconn' > nconn
    BY <2>1, MaxConnAssumption DEF Conns
  <2>3. cpc[nconn'] = "none"
    BY <2>2 DEF ConnectsOnce
  <2>4. "ready" \in ClientPcs /\ "ready" \notin CloudPcs /\ "none" \notin CloudPcs
    BY DEF ClientPcs, CloudPcs
  <2>5. UNCHANGED Cardinality(Counted)
    BY <2>1, <2>2, <2>3, <2>4, CountedMoves
  <2>6. ~broken' => \A c \in Conns : cpc'[c] # "dead"
    BY <1>2, <2>1 DEF At, Counts, CloudCount
  <2> QED BY <1>1, <1>2, <2>5, <2>6 DEF Counts, CloudCount
<1>4. CASE ~SConnected
  <2>1. UNCHANGED cpc
    BY <1>4 DEF ServerStep, SStart, SPublished, SRecv, SRefused, SForwarded, SWritten,
                SGreeted, SForwardFails, SRemoteDisced, SDisced, SLeave,
                SDiscRaises, SCloudDisced, SUnpublished, client
  <2> QED BY <1>1, <1>2, <2>1 DEF Counts, CloudCount, Counted
<1> QED BY <1>3, <1>4

\* A client task counts itself when it starts and again when its loop ends.
LEMMA ClientCounts ==
    ASSUME Links, Counts, NEW c \in Conns, ClientStep(c) \/ CRecv(c) \/ CLeave(c)
    PROVE  Counts'
<1> USE DEF ClientPcs, CloudPcs
<1>1. ServerCount'
  <2>1. UNCHANGED <<spc, inverterCnt>> /\ (broken => broken')
    <3>1. CASE \/ CStart(c) \/ CPublished(c) \/ CRecv(c) \/ CWritten(c) \/ CForwarded(c)
               \/ CForwardFails(c) \/ CLocalDisced(c) \/ CEnd(c)
      BY <3>1 DEF CStart, CPublished, CRecv, CWritten, CForwarded, CForwardFails,
                  CLocalDisced, CEnd, server
    <3>2. CASE CLeave(c) \/ CDisced(c) \/ CDiscRaises(c)
      BY <3>2 DEF CLeave, CDisced, CDiscRaises, server, Links, PartTypes
    <3> QED BY <3>1, <3>2 DEF ClientStep
  <2> QED BY <2>1 DEF Counts, ServerCount, Links, PartTypes
<1>2. \/ /\ \E pc \in ClientPcs : At(c, pc) /\ (pc \in CloudPcs <=> cpc[c] \in CloudPcs)
         /\ UNCHANGED cloudCnt
      \/ At(c, "publish") /\ cpc[c] = "ready" /\ cloudCnt' = cloudCnt + 1
      \/ At(c, "unpublish") /\ cpc[c] \in CloudPcs /\ cloudCnt' = cloudCnt - 1
  <2>1. CASE CPublished(c) \/ CRecv(c) \/ CWritten(c) \/ CForwarded(c) \/ CLocalDisced(c)
    BY <2>1 DEF CPublished, CRecv, CWritten, CForwarded, CLocalDisced
  <2>2. CASE CForwardFails(c) \/ CDiscRaises(c) \/ CEnd(c)
    BY <2>2 DEF CForwardFails, CDiscRaises, CEnd
  <2>3. CASE CStart(c) \/ CDisced(c)
    BY <2>3 DEF CStart, CDisced, CStop
  <2>4. CASE CLeave(c)
    BY <2>4 DEF CLeave, CStop
  <2> QED BY <2>1, <2>2, <2>3, <2>4 DEF ClientStep
<1>3. cloudCnt' = Cardinality(Counted')
  <2>1. cloudCnt = Cardinality(Counted)
    BY DEF Counts, CloudCount
  <2>2. CASE /\ \E pc \in ClientPcs : At(c, pc) /\ (pc \in CloudPcs <=> cpc[c] \in CloudPcs)
             /\ UNCHANGED cloudCnt
    <3>1. PICK pc \in ClientPcs : At(c, pc) /\ (pc \in CloudPcs <=> cpc[c] \in CloudPcs)
      BY <2>2
    <3>2. UNCHANGED Cardinality(Counted)
      BY <3>1, CountedMoves
    <3> QED BY <2>1, <2>2, <3>2
  <2>3. CASE At(c, "publish") /\ cpc[c] = "ready" /\ cloudCnt' = cloudCnt + 1
    BY <2>1, <2>3, CountedMoves
  <2>4. CASE At(c, "unpublish") /\ cpc[c] \in CloudPcs /\ cloudCnt' = cloudCnt - 1
    BY <2>1, <2>4, CountedMoves
  <2> QED BY <1>2, <2>2, <2>3, <2>4
<1>4. ~broken' => \A d \in Conns : cpc'[d] # "dead"
  <2>1. CASE CDiscRaises(c)
    BY <2>1 DEF CDiscRaises
  <2>2. CASE ~CDiscRaises(c)
    <3>1. (broken => broken') /\ broken' \in BOOLEAN
      BY DEF ClientStep, CStart, CPublished, CRecv, CWritten, CForwarded,
             CForwardFails, CLocalDisced, CLeave, CDisced, CDiscRaises, CEnd,
             Links, PartTypes
    <3>2. \E pc \in ClientPcs \ {"dead"} : cpc' = [cpc EXCEPT ![c] = pc]
      BY <2>2 DEF ClientStep, CStart, CPublished, CRecv, CWritten, CForwarded,
             CForwardFails, CLocalDisced, CLeave, CDisced, CEnd, CStop, At
    <3> QED BY <3>1, <3>2 DEF Counts, CloudCount, Links, PartTypes
  <2> QED BY <2>1, <2>2
<1> QED BY <1>1, <1>3, <1>4 DEF Counts, CloudCount

LEMMA OtherCounts ==
    ASSUME Links, Counts,
           \/ HStart \/ ShutdownStep \/ InverterLost
           \/ \E c \in Conns : CloudLost(c)
           \/ UNCHANGED vars
    PROVE  Counts'
<1>1. UNCHANGED <<spc, inverterCnt, cpc, cloudCnt>> /\ (broken => broken')
  <2>1. CASE HStart
    BY <2>1 DEF HStart
  <2>4. CASE HDiscRaises
    BY <2>4 DEF HDiscRaises, server, client
  <2>5. CASE HRemoteDisced \/ HLocalDisced
    BY <2>5 DEF HRemoteDisced, HLocalDisced, server, client
  <2>2. CASE InverterLost \/ UNCHANGED vars
    BY <2>2 DEF InverterLost, vars, server, client
  <2>3. ASSUME NEW c \in Conns, CloudLost(c)
        PROVE  UNCHANGED <<spc, inverterCnt, cpc, cloudCnt, broken>>
    BY <2>3 DEF CloudLost, server
  <2> QED BY <2>1, <2>2, <2>3, <2>4, <2>5 DEF ShutdownStep
<1> QED BY <1>1 DEF Counts, ServerCount, CloudCount, Counted, Links, PartTypes

LEMMA InitCounts == Init => Counts
<1> SUFFICES ASSUME Init PROVE Counts
  OBVIOUS
<1>1. Counted = {} /\ Cardinality({}) = 0
  BY FS_EmptySet DEF Init, Counted, CloudPcs
<1>2. ServerCount
  BY DEF Init, ServerCount, Serving
<1>3. CloudCount
  BY <1>1 DEF Init, CloudCount
<1> QED BY <1>2, <1>3 DEF Counts

LEMMA NextCounts == Links /\ Counts /\ [Next]_vars => Counts'
<1> SUFFICES ASSUME Links, Counts, [Next]_vars PROVE Counts'
  OBVIOUS
<1>1. CASE ServerStep \/ SRecv \/ SLeave
  BY <1>1, ServerCounts
<1>2. ASSUME NEW c \in Conns, ClientStep(c) \/ CRecv(c) \/ CLeave(c)
      PROVE  Counts'
  BY <1>2, ClientCounts
<1>3. CASE \/ HStart \/ ShutdownStep \/ InverterLost
           \/ \E c \in Conns : CloudLost(c)
           \/ UNCHANGED vars
  BY <1>3, OtherCounts
<1> QED BY <1>1, <1>2, <1>3 DEF Next

-----------------------------------------------------------------------------
(* Links and Counts hold in every state of every behaviour.                *)
THEOREM ConnInvariant == Spec => [](Links /\ Counts)
<1>1. Init => Links /\ Counts
  BY InitLinks, InitCounts
<1>2. Links /\ Counts /\ [Next]_vars => (Links /\ Counts)'
  BY NextLinks, NextCounts
<1> QED BY <1>1, <1>2, PTL DEF Spec

(* Type correctness; that neither counter leaves its range needs that every *)
(* task counts itself in once and out at most once.                         *)
THEOREM ConnTypeCorrect == Spec => []TypeOK
<1>1. Links /\ Counts => TypeOK
  <2> SUFFICES ASSUME Links, Counts PROVE TypeOK
    OBVIOUS
  <2>1. IsFiniteSet(Conns) /\ Cardinality(Conns) = MaxConn
    BY MaxConnAssumption, FS_Interval DEF Conns
  <2>2. Counted \subseteq Conns
    BY DEF Counted
  <2>3. Cardinality(Counted) <= Cardinality(Conns) /\ Cardinality(Counted) \in Nat
    BY <2>1, <2>2, FS_Subset, FS_CardinalityType
  <2>4. cloudCnt \in 0..MaxConn
    BY <2>1, <2>3, MaxConnAssumption DEF Counts, CloudCount
  <2> QED BY <2>4 DEF TypeOK, Links, PartTypes, ServerPcs, ClientPcs, Counts, ServerCount
<1> QED BY <1>1, ConnInvariant, PTL

(* A connection to the cloud that is open is the one `remote' holds: none   *)
(* is leaked by create_remote, __del_remote and the two loops, whatever the *)
(* order of ends and errors.                                                *)
THEOREM NoLeak == Spec => []OpenIsRemote
<1>1. Links => OpenIsRemote
  BY DEF Links
<1> QED BY <1>1, ConnInvariant, PTL

(* When all tasks have ended and no wait_closed() has raised, both counters *)
(* are back at zero.                                                        *)
THEOREM CountersBalanced == Spec => []BalancedUnlessBroken
<1>1. Links /\ Counts => BalancedUnlessBroken
  <2> SUFFICES ASSUME Links, Counts, Idle, ~broken
               PROVE  inverterCnt = 0 /\ cloudCnt = 0
    BY DEF BalancedUnlessBroken
  <2>1. inverterCnt = 0
    BY DEF Counts, ServerCount, Idle
  <2>2. Counted = {}
    BY DEF Counted, CloudPcs, Counts, CloudCount, Idle, Ended
  <2> QED BY <2>1, <2>2, FS_EmptySet DEF Counts, CloudCount
<1> QED BY <1>1, ConnInvariant, PTL

(* The close callback of a client that ends late removes its own connection *)
(* or none: the callback is there only while `remote' holds that client.    *)
THEOREM LateEndHarmless == Spec => EndsOnlyItself
<1> DEFINE Own(c) ==
      cpc[c] = "unpublish" /\ cpc'[c] = "done" /\ rifc' # rifc => rifc = c
<1>1. ASSUME Links, [Next]_vars, NEW c \in Conns PROVE Own(c)
  <2>1. SUFFICES ASSUME cpc[c] = "unpublish", cpc'[c] = "done", rifc' # rifc
                 PROVE  rifc = c
    OBVIOUS
  <2>2. cpc \in [Conns -> ClientPcs]
    BY <1>1 DEF Links, PartTypes
  <2>3. ASSUME NEW d \in Conns, CEnd(d) PROVE rifc = c
    <3>1. d = c
      BY <2>1, <2>2, <2>3 DEF CEnd, At
    <3>2. ccb[d]
      BY <2>1, <2>3 DEF CEnd, KeepRemote
    <3> QED BY <1>1, <3>1, <3>2 DEF Links, OpenIsRemote
  <2>4. CASE SConnected
    <3>1. cpc' = [cpc EXCEPT ![nconn'] = "ready"]
      BY <2>4 DEF SConnected, At
    <3> QED BY <2>1, <2>2, <3>1
  <2>5. ASSUME ServerStep \/ SRecv \/ SLeave, ~SConnected PROVE FALSE
    <3>1. UNCHANGED cpc
      BY <2>5 DEF ServerStep, SStart, SPublished, SRecv, SRefused, SForwarded,
                  SWritten, SGreeted, SForwardFails, SRemoteDisced, SDisced,
                  SLeave, SDiscRaises, SCloudDisced, SUnpublished, client
    <3> QED BY <2>1, <3>1
  <2>6. ASSUME NEW d \in Conns, ClientStep(d) \/ CRecv(d) \/ CLeave(d) \/ CloudLost(d),
               ~CEnd(d)
        PROVE  FALSE
    BY <2>1, <2>6 DEF ClientStep, CStart, CPublished, CRecv, CWritten, CForwarded,
             CForwardFails, CLocalDisced, CLeave, CDisced, CDiscRaises, CloudLost, remote
  <2>7. CASE HStart \/ ShutdownStep \/ InverterLost \/ UNCHANGED vars
    BY <2>1, <2>7 DEF HStart, ShutdownStep, HRemoteDisced, HDiscRaises, HLocalDisced,
             InverterLost, vars, remote
  <2> QED BY <1>1, <2>3, <2>4, <2>5, <2>6, <2>7 DEF Next
<1>2. Links /\ [Next]_vars => [\A c \in Conns : Own(c)]_vars
  BY <1>1
<1> QED BY <1>2, ConnInvariant, PTL DEF Spec, EndsOnlyItself
==============================================================================
