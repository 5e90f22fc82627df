--------------------------- MODULE CmdRoutingProofs ---------------------------
(***************************************************************************)
(* Proofs about CmdRouting for every set of commands and access lists.     *)
(*                                                                         *)
(* A command moves from fwd_fifo to the line and from there to the         *)
(* answers.  The invariant Routed says of these three sequences that each  *)
(* is in order and that each is ahead of the one it is fed from; that only *)
(* commands of the cloud are in fwd_fifo; and that a flag belongs to the   *)
(* latest command of its kind.                                             *)
(***************************************************************************)
EXTENDS CmdRouting, SequenceTheorems, TLAPS

Commands == [kind : Kinds, from : Conns, cmd : AtCmds \cup {"-"}]
Entries == [id : Nat \ {0}, kind : Kinds]
Answers == [id : Nat \ {0}, to : Conns \cup {"unset"}, seen : Nat]

RouteType ==
    /\ up \in BOOLEAN /\ dcu \in BOOLEAN
    /\ flag \in [Kinds -> Conns \cup {"unset"}]
    /\ fwd \in Seq(Entries) /\ line \in Seq(Entries)
    /\ acc \in Seq(Commands) /\ out \in Seq(Answers)

\* What is under way is an accepted command, of the kind it is taken for;
\* what waits in fwd_fifo came from the cloud.
EntryOf(a, e) == e.id \in 1..Len(a) /\ e.kind = a[e.id].kind
Known ==
    /\ \A i \in 1..Len(line) : EntryOf(acc, line[i])
    /\ \A i \in 1..Len(fwd) : EntryOf(acc, fwd[i]) /\ acc[fwd[i].id].from = "tsun"
    /\ \A i \in 1..Len(out) : out[i].id \in 1..Len(acc) /\ out[i].seen \in 1..Len(acc)

\* Command i may be ahead of command j, given the accepted commands a.
Before(a, i, j) == i # j /\ (a[i].from = a[j].from => i < j)
Chain(a, s) ==
    \A i, j \in 1..Len(s) : i < j => Before(a, s[i].id, s[j].id)
Ahead(a, s, t) ==
    \A i \in 1..Len(s), j \in 1..Len(t) : Before(a, s[i].id, t[j].id)
Ranks(a, o, l, f) ==
    /\ Chain(a, o) /\ Chain(a, l) /\ Chain(a, f)
    /\ Ahead(a, o, l) /\ Ahead(a, o, f) /\ Ahead(a, l, f)

\* Every accepted command passed the access list of its connection.
Legal == \A i \in 1..Len(acc) :
    acc[i].kind = "at" => acc[i].cmd \in Allow[acc[i].from] \ Block[acc[i].from]

\* j is the latest command of its kind k.
Latest(a, j, k) ==
    /\ j \in 1..Len(a) /\ a[j].kind = k
    /\ \A i \in 1..Len(a) : i > j => a[i].kind # k
FlagLatest == \A k \in Kinds :
    (\E i \in 1..Len(acc) : acc[i].kind = k) =>
        \E j \in 1..Len(acc) : Latest(acc, j, k) /\ acc[j].from = flag[k]

Routed ==
    /\ RouteType /\ Known /\ Ranks(acc, out, line, fwd) /\ Legal /\ FlagLatest
    /\ StrayNeedsOverlap

-----------------------------------------------------------------------------
(* Sequences in order: what a new last entry, the loss of the head and the *)
(* concatenation do to Chain and Ahead.                                    *)

LEMMA AppendPlaces ==
    ASSUME NEW S, NEW s \in Seq(S), NEW e \in S
    PROVE  /\ Append(s, e) \in Seq(S)
           /\ \A i \in 1..Len(Append(s, e)) :
                \/ i \in 1..Len(s) /\ Append(s, e)[i] = s[i]
                \/ i = Len(s) + 1 /\ Append(s, e)[i] = e
  OBVIOUS

LEMMA TailPlaces ==
    ASSUME NEW S, NEW s \in Seq(S), s # <<>>
    PROVE  /\ Tail(s) \in Seq(S)
           /\ \A i \in 1..Len(Tail(s)) :
                i + 1 \in 1..Len(s) /\ Tail(s)[i] = s[i + 1]
           /\ 1 \in 1..Len(s) /\ Head(s) = s[1] /\ Head(s) \in S
  OBVIOUS

LEMMA ConcatPlaces ==
    ASSUME NEW S, NEW s \in Seq(S), NEW t \in Seq(S)
    PROVE  /\ s \o t \in Seq(S)
           /\ \A i \in 1..Len(s \o t) :
                \/ i \in 1..Len(s) /\ (s \o t)[i] = s[i]
                \/ /\ i - Len(s) \in 1..Len(t) /\ i > Len(s)
                   /\ (s \o t)[i] = t[i - Len(s)]
<1>1. /\ s \o t \in Seq(S) /\ Len(s \o t) = Len(s) + Len(t)
      /\ \A i \in 1..Len(s) + Len(t) :
           (s \o t)[i] = IF i <= Len(s) THEN s[i] ELSE t[i - Len(s)]
  BY ConcatProperties
<1>2. Len(s) \in Nat /\ Len(t) \in Nat
  OBVIOUS
<1> DEFINE u == s \o t
<1>3. ASSUME NEW i \in 1..Len(u)
      PROVE  \/ i \in 1..Len(s) /\ u[i] = s[i]
             \/ i - Len(s) \in 1..Len(t) /\ i > Len(s) /\ u[i] = t[i - Len(s)]
  <2>1. i \in 1..Len(s) + Len(t)
    BY <1>1
  <2>2. CASE i <= Len(s)
    BY <1>1, <1>2, <2>1, <2>2
  <2>3. CASE ~(i <= Len(s))
    <3>1. i - Len(s) \in 1..Len(t) /\ i > Len(s)
      BY <1>2, <2>1, <2>3
    <3>2. u[i] = t[i - Len(s)]
      BY <1>1, <2>1, <2>3
    <3> QED BY <3>1, <3>2
  <2> QED BY <2>2, <2>3
<1>4. u \in Seq(S)
  BY <1>1
<1> HIDE DEF u
<1>5. /\ u \in Seq(S)
      /\ \A i \in 1..Len(u) :
           \/ i \in 1..Len(s) /\ u[i] = s[i]
           \/ i - Len(s) \in 1..Len(t) /\ i > Len(s) /\ u[i] = t[i - Len(s)]
  BY <1>3, <1>4
<1> QED BY <1>5 DEF u

LEMMA ChainAppend ==
    ASSUME NEW a, NEW S, NEW s \in Seq(S), NEW e \in S, Chain(a, s),
           \A i \in 1..Len(s) : Before(a, s[i].id, e.id)
    PROVE  Chain(a, Append(s, e))
<1> DEFINE u == Append(s, e)
<1>1. \A i \in 1..Len(u) :
        \/ i \in 1..Len(s) /\ u[i] = s[i]
        \/ i = Len(s) + 1 /\ u[i] = e
  BY AppendPlaces
<1>2. Len(s) \in Nat /\ Len(u) \in Nat
  OBVIOUS
<1> HIDE DEF u
<1>3. ASSUME NEW i \in 1..Len(u), NEW j \in 1..Len(u), i < j
      PROVE  Before(a, u[i].id, u[j].id)
  <2>1. i \in 1..Len(s) /\ u[i] = s[i]
    BY <1>1, <1>2, <1>3
  <2>2. CASE j \in 1..Len(s) /\ u[j] = s[j]
    BY <1>3, <2>1, <2>2 DEF Chain
  <2>3. CASE u[j] = e
    BY <2>1, <2>3
  <2> QED BY <1>1, <2>2, <2>3
<1> QED BY <1>3 DEF Chain, u

LEMMA AheadAppend ==
    ASSUME NEW a, NEW S, NEW T, NEW s \in Seq(S), NEW t \in Seq(T), Ahead(a, s, t)
    PROVE  /\ \A e \in T : (\A i \in 1..Len(s) : Before(a, s[i].id, e.id))
                                => Ahead(a, s, Append(t, e))
           /\ \A e \in S : (\A j \in 1..Len(t) : Before(a, e.id, t[j].id))
                                => Ahead(a, Append(s, e), t)
<1>1. ASSUME NEW e \in T, \A i \in 1..Len(s) : Before(a, s[i].id, e.id)
      PROVE  Ahead(a, s, Append(t, e))
  <2> DEFINE u == Append(t, e)
  <2>1. \A i \in 1..Len(u) : u[i] = e \/ (i \in 1..Len(t) /\ u[i] = t[i])
    BY AppendPlaces
  <2> HIDE DEF u
  <2>2. Ahead(a, s, u)
    BY <1>1, <2>1 DEF Ahead
  <2> QED BY <2>2 DEF u
<1>2. ASSUME NEW e \in S, \A j \in 1..Len(t) : Before(a, e.id, t[j].id)
      PROVE  Ahead(a, Append(s, e), t)
  <2> DEFINE u == Append(s, e)
  <2>1. \A i \in 1..Len(u) : u[i] = e \/ (i \in 1..Len(s) /\ u[i] = s[i])
    BY AppendPlaces
  <2> HIDE DEF u
  <2>2. Ahead(a, u, t)
    BY <1>2, <2>1 DEF Ahead
  <2> QED BY <2>2 DEF u
<1> QED BY <1>1, <1>2

LEMMA ChainConcat ==
    ASSUME NEW a, NEW S, NEW s \in Seq(S), NEW t \in Seq(S),
           Chain(a, s), Chain(a, t), Ahead(a, s, t)
    PROVE  Chain(a, s \o t)
<1> DEFINE u == s \o t
<1>1. \A i \in 1..Len(u) :
        \/ i \in 1..Len(s) /\ u[i] = s[i]
        \/ i - Len(s) \in 1..Len(t) /\ i > Len(s) /\ u[i] = t[i - Len(s)]
  BY ConcatPlaces
<1>2. Len(s) \in Nat /\ Len(t) \in Nat
  OBVIOUS
<1> HIDE DEF u
<1>3. ASSUME NEW i \in 1..Len(u), NEW j \in 1..Len(u), i < j
      PROVE  Before(a, u[i].id, u[j].id)
  <2>1. CASE i \in 1..Len(s) /\ j \in 1..Len(s)
    <3>1. u[i] = s[i] /\ u[j] = s[j]
      BY <1>1, <1>2, <2>1
    <3> QED BY <1>3, <2>1, <3>1 DEF Chain
  <2>2. CASE i \in 1..Len(s) /\ j \notin 1..Len(s)
    <3>1. u[i] = s[i] /\ j - Len(s) \in 1..Len(t) /\ u[j] = t[j - Len(s)]
      BY <1>1, <1>2, <2>2
    <3> QED BY <2>2, <3>1 DEF Ahead
  <2>3. CASE i \notin 1..Len(s)
    <3>1. /\ i - Len(s) \in 1..Len(t) /\ u[i] = t[i - Len(s)] /\ i > Len(s)
      BY <1>1, <2>3
    <3>2. j \notin 1..Len(s)
      BY <1>2, <1>3, <3>1
    <3>3. j - Len(s) \in 1..Len(t) /\ u[j] = t[j - Len(s)]
      BY <1>1, <3>2
    <3>4. i - Len(s) < j - Len(s)
      BY <1>2, <1>3
    <3> QED BY <3>1, <3>3, <3>4 DEF Chain
  <2> QED BY <2>1, <2>2, <2>3
<1> QED BY <1>3 DEF Chain, u

LEMMA AheadConcat ==
    ASSUME NEW a, NEW R, NEW S, NEW r \in Seq(R), NEW s \in Seq(S), NEW t \in Seq(S)
    PROVE  /\ Ahead(a, r, s) /\ Ahead(a, r, t) => Ahead(a, r, s \o t)
           /\ Ahead(a, s, r) /\ Ahead(a, t, r) => Ahead(a, s \o t, r)
<1> DEFINE u == s \o t
<1>1. \A i \in 1..Len(u) :
        \/ i \in 1..Len(s) /\ u[i] = s[i]
        \/ i - Len(s) \in 1..Len(t) /\ u[i] = t[i - Len(s)]
  BY ConcatPlaces
<1> HIDE DEF u
<1>2. Ahead(a, r, s) /\ Ahead(a, r, t) => Ahead(a, r, u)
  BY <1>1 DEF Ahead
<1>3. Ahead(a, s, r) /\ Ahead(a, t, r) => Ahead(a, u, r)
  BY <1>1 DEF Ahead
<1> QED BY <1>2, <1>3 DEF u

LEMMA TailInOrder ==
    ASSUME NEW a, NEW S, NEW T, NEW s \in Seq(S), NEW t \in Seq(T), s # <<>>
    PROVE  /\ Chain(a, s) => Chain(a, Tail(s))
           /\ Chain(a, s) =>
                \A j \in 1..Len(Tail(s)) : Before(a, Head(s).id, Tail(s)[j].id)
           /\ Ahead(a, s, t) => /\ Ahead(a, Tail(s), t)
                                /\ \A j \in 1..Len(t) : Before(a, Head(s).id, t[j].id)
           /\ Ahead(a, t, s) => /\ Ahead(a, t, Tail(s))
                                /\ \A i \in 1..Len(t) : Before(a, t[i].id, Head(s).id)
<1> DEFINE u == Tail(s)
           h == Head(s)
<1>1. /\ \A i \in 1..Len(u) : i + 1 \in 1..Len(s) /\ u[i] = s[i + 1]
      /\ 1 \in 1..Len(s) /\ h = s[1]
  BY TailPlaces
<1>2. \A i, j \in 1..Len(u) : i < j => i + 1 < j + 1
  OBVIOUS
<1>3. \A i \in 1..Len(u) : 1 < i + 1
  OBVIOUS
<1> HIDE DEF u, h
<1>4. Chain(a, s) => Chain(a, u)
  BY <1>1, <1>2 DEF Chain
<1>5. Chain(a, s) => \A j \in 1..Len(u) : Before(a, h.id, u[j].id)
  BY <1>1, <1>3 DEF Chain
<1>6. Ahead(a, s, t) => Ahead(a, u, t) /\ \A j \in 1..Len(t) : Before(a, h.id, t[j].id)
  BY <1>1 DEF Ahead
<1>7. Ahead(a, t, s) => Ahead(a, t, u) /\ \A i \in 1..Len(t) : Before(a, t[i].id, h.id)
  BY <1>1 DEF Ahead
<1> QED BY <1>4, <1>5, <1>6, <1>7 DEF u, h

-----------------------------------------------------------------------------
(* The moves of a command, for any accepted commands a.                    *)

\* What waits in fwd_fifo is written, or lost.
LEMMA RanksWrite ==
    ASSUME NEW a, NEW o \in Seq(Answers), NEW l \in Seq(Entries),
           NEW f \in Seq(Entries), Ranks(a, o, l, f)
    PROVE  Ranks(a, o, l, <<>>) /\ Ranks(a, o, l \o f, <<>>)
<1>1. Chain(a, <<>>) /\ \A s : Ahead(a, s, <<>>)
  BY DEF Chain, Ahead
<1>2. Chain(a, l \o f) /\ Ahead(a, o, l \o f)
  BY ChainConcat, AheadConcat DEF Ranks
<1> QED BY <1>1, <1>2 DEF Ranks

\* A command of the cloud is stored behind all others.
LEMMA RanksStore ==
    ASSUME NEW a, NEW o \in Seq(Answers), NEW l \in Seq(Entries),
           NEW f \in Seq(Entries), Ranks(a, o, l, f), NEW e \in Entries,
           \A i \in 1..Len(o) : Before(a, o[i].id, e.id),
           \A i \in 1..Len(l) : Before(a, l[i].id, e.id),
           \A i \in 1..Len(f) : Before(a, f[i].id, e.id)
    PROVE  Ranks(a, o, l, Append(f, e))
<1>1. Chain(a, Append(f, e))
  BY ChainAppend DEF Ranks
<1>2. Ahead(a, o, Append(f, e)) /\ Ahead(a, l, Append(f, e))
  BY AheadAppend DEF Ranks
<1> QED BY <1>1, <1>2 DEF Ranks

\* A command of the MQTT broker is written ahead of what waits.
LEMMA RanksSend ==
    ASSUME NEW a, NEW o \in Seq(Answers), NEW l \in Seq(Entries),
           NEW f \in Seq(Entries), Ranks(a, o, l, f), NEW e \in Entries,
           \A i \in 1..Len(o) : Before(a, o[i].id, e.id),
           \A i \in 1..Len(l) : Before(a, l[i].id, e.id),
           \A i \in 1..Len(f) : Before(a, e.id, f[i].id)
    PROVE  Ranks(a, o, Append(l, e), f)
<1>1. Chain(a, Append(l, e))
  BY ChainAppend DEF Ranks
<1>2. Ahead(a, o, Append(l, e))
  BY AheadAppend DEF Ranks
<1>3. Ahead(a, Append(l, e), f)
  BY AheadAppend DEF Ranks
<1> QED BY <1>1, <1>2, <1>3 DEF Ranks

\* The oldest command on the line is answered, or never is.
LEMMA RanksAnswer ==
    ASSUME NEW a, NEW o \in Seq(Answers), NEW l \in Seq(Entries), l # <<>>,
           NEW f \in Seq(Entries), Ranks(a, o, l, f),
           NEW e \in Answers, e.id = Head(l).id
    PROVE  Ranks(a, o, Tail(l), f) /\ Ranks(a, Append(o, e), Tail(l), f)
<1> DEFINE t == Tail(l)
           h == Head(l)
<1>1. t \in Seq(Entries) /\ h \in Entries
  OBVIOUS
<1>2. /\ Chain(a, t) /\ \A j \in 1..Len(t) : Before(a, h.id, t[j].id)
      /\ Ahead(a, t, f) /\ \A j \in 1..Len(f) : Before(a, h.id, f[j].id)
      /\ Ahead(a, o, t) /\ \A i \in 1..Len(o) : Before(a, o[i].id, h.id)
  BY TailInOrder DEF Ranks
<1> HIDE DEF t, h
<1>3. Ranks(a, o, t, f)
  BY <1>2 DEF Ranks
<1>4. e.id = h.id
  BY DEF h
<1>5. Chain(a, Append(o, e))
  BY <1>2, <1>4, ChainAppend DEF Ranks
<1>6. Ahead(a, Append(o, e), t) /\ Ahead(a, Append(o, e), f)
  BY <1>1, <1>2, <1>4, AheadAppend DEF Ranks
<1> QED BY <1>2, <1>3, <1>5, <1>6 DEF Ranks, t

(* Accepting one more command changes nothing for those before it.         *)
LEMMA AcceptKeeps ==
    ASSUME Routed, NEW c \in Commands
    PROVE  LET a == Append(acc, c) IN
           /\ a \in Seq(Commands) /\ Len(a) = Len(acc) + 1 /\ Len(acc) \in Nat
           /\ a[Len(acc) + 1] = c
           /\ \A i \in 1..Len(acc) : a[i] = acc[i] /\ i \in 1..Len(a)
           /\ Ranks(a, out, line, fwd)
           /\ \A i \in 1..Len(out) : Before(a, out[i].id, Len(acc) + 1)
           /\ \A i \in 1..Len(line) : Before(a, line[i].id, Len(acc) + 1)
           /\ \A i \in 1..Len(fwd) : Before(a, fwd[i].id, Len(acc) + 1)
           /\ c.from = "mqtt" =>
                \A i \in 1..Len(fwd) : Before(a, Len(acc) + 1, fwd[i].id)
<1> DEFINE a == Append(acc, c)
           n == Len(acc)
<1>1. /\ a \in Seq(Commands) /\ Len(a) = n + 1 /\ n \in Nat
      /\ a[n + 1] = c
      /\ \A i \in 1..n : a[i] = acc[i] /\ i \in 1..Len(a)
  BY DEF Routed, RouteType
<1> HIDE DEF a
<1>2. /\ \A i \in 1..Len(out) : out[i].id \in 1..n
      /\ \A i \in 1..Len(line) : line[i].id \in 1..n
      /\ \A i \in 1..Len(fwd) : fwd[i].id \in 1..n /\ acc[fwd[i].id].from = "tsun"
  BY DEF Routed, Known, EntryOf
<1>3. \A i, j \in 1..n : Before(acc, i, j) => Before(a, i, j)
  BY <1>1 DEF Before
<1>4. Ranks(a, out, line, fwd)
  BY <1>2, <1>3 DEF Routed, Ranks, Chain, Ahead
<1>5. \A i \in 1..n : Before(a, i, n + 1)
  BY <1>1 DEF Before
<1>6. /\ \A i \in 1..Len(out) : Before(a, out[i].id, n + 1)
      /\ \A i \in 1..Len(line) : Before(a, line[i].id, n + 1)
      /\ \A i \in 1..Len(fwd) : Before(a, fwd[i].id, n + 1)
  BY <1>2, <1>5
<1>7. ASSUME c.from = "mqtt", NEW i \in 1..Len(fwd)
      PROVE  Before(a, n + 1, fwd[i].id)
  <2>1. a[fwd[i].id].from = "tsun" /\ a[n + 1].from = "mqtt" /\ fwd[i].id # n + 1
    BY <1>1, <1>2, <1>7
  <2> QED BY <2>1 DEF Before
<1> QED BY <1>1, <1>4, <1>6, <1>7 DEF a

-----------------------------------------------------------------------------
(* The steps.                                                              *)

Command(kind, conn, cmd) == [kind |-> kind, from |-> conn, cmd |-> cmd]

(* An accepted command is the latest of its kind, the flag is its; the     *)
(* answers given so far are not concerned.                                 *)
LEMMA AcceptFlags ==
    ASSUME Routed, NEW kind \in Kinds, NEW conn \in Conns,
           NEW cmd \in AtCmds \cup {"-"}, Accept(kind, conn, cmd), out' = out,
           kind = "at" => cmd \in Allow[conn] \ Block[conn]
    PROVE  /\ acc' = Append(acc, Command(kind, conn, cmd))
           /\ Command(kind, conn, cmd) \in Commands
           /\ flag' \in [Kinds -> Conns \cup {"unset"}]
           /\ Legal' /\ FlagLatest' /\ StrayNeedsOverlap'
<1> DEFINE c == Command(kind, conn, cmd)
           n == Len(acc)
<1>1. acc' = Append(acc, c) /\ flag' = [flag EXCEPT ![kind] = conn]
  BY DEF Accept, Command
<1>2. c \in Commands /\ c.kind = kind /\ c.from = conn /\ c.cmd = cmd
  BY DEF Commands, Command
<1> HIDE DEF c
<1>3. /\ Len(acc') = n + 1 /\ n \in Nat /\ acc'[n + 1] = c
      /\ \A i \in 1..n : acc'[i] = acc[i] /\ i \in 1..(n + 1)
      /\ \A i \in 1..(n + 1) : i \in 1..n \/ i = n + 1
  BY <1>1, <1>2, AcceptKeeps
<1>4. flag' \in [Kinds -> Conns \cup {"unset"}]
  BY <1>1 DEF Routed, RouteType
<1>5. Legal'
  BY <1>2, <1>3 DEF Routed, Legal
<1>6. FlagLatest'
  <2> SUFFICES ASSUME NEW k \in Kinds, \E i \in 1..(n + 1) : acc'[i].kind = k
               PROVE  \E j \in 1..(n + 1) : Latest(acc', j, k) /\ acc'[j].from = flag'[k]
    BY <1>3 DEF FlagLatest
  <2>1. CASE k = kind
    <3>1. flag'[k] = conn
      BY <1>1, <2>1 DEF Routed, RouteType
    <3>2. n + 1 \in 1..(n + 1) /\ \A i \in 1..(n + 1) : ~(i > n + 1)
      BY <1>3
    <3> QED BY <1>2, <1>3, <2>1, <3>1, <3>2 DEF Latest
  <2>2. CASE k # kind
    <3>1. flag'[k] = flag[k]
      BY <1>1, <2>2 DEF Routed, RouteType
    <3>2. \E i \in 1..n : acc[i].kind = k
      BY <1>2, <1>3, <2>2
    <3>3. PICK j \in 1..n : Latest(acc, j, k) /\ acc[j].from = flag[k]
      BY <3>2 DEF Routed, FlagLatest
    <3>4. Latest(acc', j, k) /\ acc'[j].from = flag'[k] /\ j \in 1..(n + 1)
      BY <1>2, <1>3, <2>2, <3>1, <3>3 DEF Latest
    <3> QED BY <3>4
  <2> QED BY <2>1, <2>2
<1>7. StrayNeedsOverlap'
  <2> SUFFICES ASSUME NEW i \in 1..Len(out), out[i].to # acc'[out[i].id].from
               PROVE  \E j \in (out[i].id + 1)..out[i].seen :
                        /\ acc'[j].from = out[i].to
                        /\ acc'[j].kind = acc'[out[i].id].kind
    BY DEF StrayNeedsOverlap
  <2>1. out[i].id \in 1..n /\ out[i].seen \in 1..n
    BY DEF Routed, Known
  <2>2. acc'[out[i].id] = acc[out[i].id]
    BY <1>3, <2>1
  <2>3. PICK j \in (out[i].id + 1)..out[i].seen :
          acc[j].from = out[i].to /\ acc[j].kind = acc[out[i].id].kind
    BY <2>2 DEF Routed, StrayNeedsOverlap
  <2>4. j \in 1..n
    BY <1>3, <2>1, <2>3
  <2> QED BY <1>3, <2>2, <2>3, <2>4
<1> QED BY <1>1, <1>2, <1>4, <1>5, <1>6, <1>7 DEF c

(* The entries under way are still what they were.                         *)
LEMMA KnownKeeps ==
    ASSUME Routed, NEW c \in Commands
    PROVE  LET a == Append(acc, c) IN
           /\ \A i \in 1..Len(line) : EntryOf(a, line[i])
           /\ \A i \in 1..Len(fwd) : EntryOf(a, fwd[i]) /\ a[fwd[i].id].from = "tsun"
           /\ \A i \in 1..Len(out) : out[i].id \in 1..Len(a) /\ out[i].seen \in 1..Len(a)
<1> DEFINE a == Append(acc, c)
<1>1. /\ Len(a) = Len(acc) + 1 /\ Len(acc) \in Nat
      /\ \A i \in 1..Len(acc) : a[i] = acc[i] /\ i \in 1..Len(a)
  BY AcceptKeeps
<1> HIDE DEF a
<1>2. \A i \in 1..Len(line) : EntryOf(a, line[i])
  BY <1>1 DEF Routed, Known, EntryOf
<1>3. \A i \in 1..Len(fwd) : EntryOf(a, fwd[i]) /\ a[fwd[i].id].from = "tsun"
  BY <1>1 DEF Routed, Known, EntryOf
<1>4. \A i \in 1..Len(out) : out[i].id \in 1..Len(a) /\ out[i].seen \in 1..Len(a)
  BY <1>1 DEF Routed, Known
<1> QED BY <1>2, <1>3, <1>4 DEF a

\* send_at_cmd and send_dcu_cmd
LEMMA SendRouted ==
    ASSUME Routed, NEW kind \in Kinds, NEW cmd \in AtCmds \cup {"-"},
           Accept(kind, "mqtt", cmd), WriteNow(kind), UNCHANGED <<up, dcu, out>>,
           kind = "at" => cmd \in Allow["mqtt"] \ Block["mqtt"]
    PROVE  Routed'
<1> DEFINE c == Command(kind, "mqtt", cmd)
           n == Len(acc)
           e == [id |-> Id, kind |-> kind]
<1>1. "mqtt" \in Conns
  BY DEF Conns
<1>2. /\ acc' = Append(acc, c) /\ c \in Commands
      /\ flag' \in [Kinds -> Conns \cup {"unset"}]
      /\ Legal' /\ FlagLatest' /\ StrayNeedsOverlap'
  BY <1>1, AcceptFlags
<1>3. c.from = "mqtt" /\ c.kind = kind
  BY DEF Command
<1>4. e.id = n + 1 /\ e.kind = kind
  BY DEF Id
<1>5. fwd' = fwd /\ line' \in {line, Append(line, e)}
  BY DEF WriteNow
<1> HIDE DEF c, e
<1>6. /\ acc' \in Seq(Commands) /\ Len(acc') = n + 1 /\ n \in Nat /\ acc'[n + 1] = c
      /\ Ranks(acc', out, line, fwd)
      /\ \A i \in 1..Len(out) : Before(acc', out[i].id, n + 1)
      /\ \A i \in 1..Len(line) : Before(acc', line[i].id, n + 1)
      /\ \A i \in 1..Len(fwd) : Before(acc', n + 1, fwd[i].id)
  BY <1>2, <1>3, AcceptKeeps
<1>7. /\ \A i \in 1..Len(line) : EntryOf(acc', line[i])
      /\ \A i \in 1..Len(fwd) : EntryOf(acc', fwd[i]) /\ acc'[fwd[i].id].from = "tsun"
      /\ \A i \in 1..Len(out) : out[i].id \in 1..Len(acc') /\ out[i].seen \in 1..Len(acc')
  BY <1>2, KnownKeeps
<1>8. e \in Entries /\ EntryOf(acc', e)
  <2>1. e \in Entries
    BY <1>6 DEF Entries, e, Id
  <2>2. n + 1 \in 1..Len(acc')
    BY <1>6
  <2> QED BY <1>3, <1>4, <1>6, <2>1, <2>2 DEF EntryOf
<1>9. CASE line' = line
  BY <1>2, <1>5, <1>6, <1>7, <1>9 DEF Routed, RouteType, Known
<1>10. CASE line' = Append(line, e)
  <2>1. /\ line \in Seq(Entries) /\ out \in Seq(Answers) /\ fwd \in Seq(Entries)
    BY DEF Routed, RouteType
  <2>2. /\ line' \in Seq(Entries)
        /\ \A i \in 1..Len(line') :
             \/ i \in 1..Len(line) /\ line'[i] = line[i]
             \/ i = Len(line) + 1 /\ line'[i] = e
    BY <1>8, <1>10, <2>1, AppendPlaces
  <2>3. Ranks(acc', out, line', fwd)
    BY <1>4, <1>6, <1>8, <1>10, <2>1, RanksSend
  <2>4. Known'
    BY <1>5, <1>7, <1>8, <2>2 DEF Known
  <2> QED BY <1>2, <1>5, <1>6, <2>2, <2>3, <2>4 DEF Routed, RouteType
<1> QED BY <1>5, <1>9, <1>10

\* __async_forward: fwd_fifo is written or lost, other things being equal
LEMMA WriteRouted ==
    ASSUME NEW a \in Seq(Commands), out \in Seq(Answers), line \in Seq(Entries),
           NEW f \in Seq(Entries), Ranks(a, out, line, f),
           \A i \in 1..Len(line) : EntryOf(a, line[i]),
           \A i \in 1..Len(f) : EntryOf(a, f[i]), Write(f)
    PROVE  /\ fwd' = <<>> /\ fwd' \in Seq(Entries) /\ line' \in Seq(Entries)
           /\ Ranks(a, out, line', fwd')
           /\ \A i \in 1..Len(line') : EntryOf(a, line'[i])
<1>1. fwd' = <<>> /\ fwd' \in Seq(Entries)
  BY DEF Write
<1>2. Ranks(a, out, line, <<>>) /\ Ranks(a, out, line \o f, <<>>)
  BY RanksWrite
<1>3. CASE line' = line
  BY <1>1, <1>2, <1>3
<1>4. CASE line' = line \o f
  <2>1. /\ line' \in Seq(Entries)
        /\ \A i \in 1..Len(line') :
             \/ i \in 1..Len(line) /\ line'[i] = line[i]
             \/ i - Len(line) \in 1..Len(f) /\ line'[i] = f[i - Len(line)]
    BY <1>4, ConcatPlaces
  <2> QED BY <1>1, <1>2, <1>4, <2>1
<1> QED BY <1>3, <1>4 DEF Write

\* msg_command_req: stored behind what waits, and all of it written or not
LEMMA ForwardRouted ==
    ASSUME Routed, NEW kind \in Kinds, NEW cmd \in AtCmds \cup {"-"},
           Accept(kind, "tsun", cmd), Forward(kind), UNCHANGED <<up, dcu, out>>,
           kind = "at" => cmd \in Allow["tsun"] \ Block["tsun"]
    PROVE  Routed'
<1> DEFINE c == Command(kind, "tsun", cmd)
           n == Len(acc)
           e == [id |-> Id, kind |-> kind]
           q == Append(fwd, e)
<1>1. "tsun" \in Conns
  BY DEF Conns
<1>2. /\ acc' = Append(acc, c) /\ c \in Commands
      /\ flag' \in [Kinds -> Conns \cup {"unset"}]
      /\ Legal' /\ FlagLatest' /\ StrayNeedsOverlap'
  BY <1>1, AcceptFlags
<1>3. c.from = "tsun" /\ c.kind = kind
  BY DEF Command
<1>4. e.id = n + 1 /\ e.kind = kind
  BY DEF Id
<1>5. Write(q) \/ (fwd' = q /\ line' = line)
  BY DEF Forward
<1> HIDE DEF c, e
<1>6. /\ acc' \in Seq(Commands) /\ Len(acc') = n + 1 /\ n \in Nat /\ acc'[n + 1] = c
      /\ Ranks(acc', out, line, fwd)
      /\ \A i \in 1..Len(out) : Before(acc', out[i].id, n + 1)
      /\ \A i \in 1..Len(line) : Before(acc', line[i].id, n + 1)
      /\ \A i \in 1..Len(fwd) : Before(acc', fwd[i].id, n + 1)
  BY <1>2, AcceptKeeps
<1>7. /\ \A i \in 1..Len(line) : EntryOf(acc', line[i])
      /\ \A i \in 1..Len(fwd) : EntryOf(acc', fwd[i]) /\ acc'[fwd[i].id].from = "tsun"
      /\ \A i \in 1..Len(out) : out[i].id \in 1..Len(acc') /\ out[i].seen \in 1..Len(acc')
  BY <1>2, KnownKeeps
<1>8. e \in Entries /\ EntryOf(acc', e) /\ acc'[e.id].from = "tsun"
  <2>1. e \in Entries
    BY <1>6 DEF Entries, e, Id
  <2>2. n + 1 \in 1..Len(acc')
    BY <1>6
  <2> QED BY <1>3, <1>4, <1>6, <2>1, <2>2 DEF EntryOf
<1>9. line \in Seq(Entries) /\ out \in Seq(Answers) /\ fwd \in Seq(Entries)
  BY DEF Routed, RouteType
<1>10. /\ q \in Seq(Entries)
       /\ \A i \in 1..Len(q) :
            \/ i \in 1..Len(fwd) /\ q[i] = fwd[i]
            \/ i = Len(fwd) + 1 /\ q[i] = e
  BY <1>8, <1>9, AppendPlaces
<1>11. Ranks(acc', out, line, q)
  BY <1>4, <1>6, <1>8, <1>9, RanksStore
<1> HIDE DEF q
<1>12. \A i \in 1..Len(q) : EntryOf(acc', q[i]) /\ acc'[q[i].id].from = "tsun"
  BY <1>7, <1>8, <1>10
<1>13. CASE Write(q)
  <2>1. /\ fwd' = <<>> /\ fwd' \in Seq(Entries) /\ line' \in Seq(Entries)
        /\ Ranks(acc', out, line', fwd')
        /\ \A i \in 1..Len(line') : EntryOf(acc', line'[i])
    BY <1>6, <1>7, <1>9, <1>10, <1>11, <1>12, <1>13, WriteRouted
  <2>2. Known'
    BY <1>7, <2>1 DEF Known
  <2> QED BY <1>2, <1>6, <2>1, <2>2 DEF Routed, RouteType
<1>14. CASE fwd' = q /\ line' = line
  <2>1. Known'
    BY <1>7, <1>12, <1>14 DEF Known
  <2> QED BY <1>2, <1>6, <1>10, <1>11, <1>14, <2>1 DEF Routed, RouteType
<1> QED BY <1>5, <1>13, <1>14

\* What only concerns accepted and answered commands.
LEMMA SameAccepted ==
    ASSUME Routed, UNCHANGED <<acc, flag, out>>
    PROVE  Legal' /\ FlagLatest' /\ StrayNeedsOverlap'
<1>1. Legal'
  BY DEF Routed, Legal
<1>2. FlagLatest'
  BY DEF Routed, FlagLatest, Latest
<1>3. StrayNeedsOverlap'
  BY DEF Routed, StrayNeedsOverlap
<1> QED BY <1>1, <1>2, <1>3

\* async_forward
LEMMA AsyncForwardRouted ==
    ASSUME Routed, async_forward
    PROVE  Routed'
<1>1. /\ Write(fwd) /\ UNCHANGED <<up, dcu, flag, acc, out>>
      /\ acc \in Seq(Commands) /\ out \in Seq(Answers) /\ line \in Seq(Entries)
      /\ fwd \in Seq(Entries)
  BY DEF async_forward, Routed, RouteType
<1>2. /\ fwd' = <<>> /\ fwd' \in Seq(Entries) /\ line' \in Seq(Entries)
      /\ Ranks(acc, out, line', fwd')
      /\ \A i \in 1..Len(line') : EntryOf(acc, line'[i])
  BY <1>1, WriteRouted DEF Routed, Known
<1>3. RouteType' /\ Known'
  BY <1>1, <1>2 DEF Routed, RouteType, Known
<1>4. Legal' /\ FlagLatest' /\ StrayNeedsOverlap'
  BY <1>1, SameAccepted
<1> QED BY <1>1, <1>2, <1>3, <1>4 DEF Routed

(* msg_command_rsp: the answer goes where the flag points, to the sender   *)
(* of the latest command of this kind; if that is not its own, the other   *)
(* has sent one since.                                                     *)
LEMMA AnswerRouted ==
    ASSUME Routed, msg_command_rsp
    PROVE  Routed'
<1> DEFINE h == Head(line)
           e == [id |-> h.id, to |-> flag[h.kind], seen |-> Len(acc)]
           n == Len(acc)
<1>1. /\ line # <<>> /\ line' = Tail(line) /\ out' = Append(out, e)
      /\ UNCHANGED <<up, dcu, flag, fwd, acc>>
  BY DEF msg_command_rsp
<1>2. /\ out \in Seq(Answers) /\ line \in Seq(Entries) /\ fwd \in Seq(Entries)
      /\ n \in Nat /\ flag \in [Kinds -> Conns \cup {"unset"}]
  BY DEF Routed, RouteType
<1>3. /\ Tail(line) \in Seq(Entries) /\ h \in Entries
      /\ \A i \in 1..Len(Tail(line)) :
           i + 1 \in 1..Len(line) /\ Tail(line)[i] = line[i + 1]
      /\ 1 \in 1..Len(line) /\ h = line[1]
  BY <1>1, <1>2, TailPlaces
<1>4. h.id \in 1..n /\ h.kind = acc[h.id].kind /\ h.kind \in Kinds
  BY <1>3 DEF Routed, Known, EntryOf, Entries
<1>5. e.id = h.id /\ e.to = flag[h.kind] /\ e.seen = n
  OBVIOUS
<1>6. e \in Answers
  BY <1>2, <1>3, <1>4 DEF Answers, Entries
<1> HIDE DEF e, h
<1>7. /\ out' \in Seq(Answers)
      /\ \A i \in 1..Len(out') :
           \/ i \in 1..Len(out) /\ out'[i] = out[i]
           \/ i = Len(out) + 1 /\ out'[i] = e
  BY <1>1, <1>2, <1>6, AppendPlaces
<1>8. Ranks(acc, out', line', fwd)
  BY <1>1, <1>2, <1>5, <1>6, RanksAnswer DEF Routed, h
<1>9. RouteType' /\ Known'
  <2>1. n \in 1..n
    BY <1>2, <1>4
  <2>2. \A i \in 1..Len(out') : out'[i].id \in 1..n /\ out'[i].seen \in 1..n
    BY <1>4, <1>5, <1>7, <2>1 DEF Routed, Known
  <2> QED BY <1>1, <1>3, <1>7, <2>2 DEF Routed, RouteType, Known
<1>10. Legal' /\ FlagLatest'
  BY <1>1 DEF Routed, Legal, FlagLatest, Latest
<1>11. StrayNeedsOverlap'
  <2> SUFFICES ASSUME NEW i \in 1..Len(out'), out'[i].to # acc[out'[i].id].from
               PROVE  \E j \in (out'[i].id + 1)..out'[i].seen :
                        /\ acc[j].from = out'[i].to
                        /\ acc[j].kind = acc[out'[i].id].kind
    BY <1>1 DEF StrayNeedsOverlap
  <2>1. CASE i \in 1..Len(out) /\ out'[i] = out[i]
    BY <2>1 DEF Routed, StrayNeedsOverlap
  <2>2. CASE out'[i] = e
    <3>1. flag[h.kind] # acc[h.id].from
      BY <1>5, <2>2
    <3>2. \E j \in 1..n : acc[j].kind = h.kind
      BY <1>4
    <3>3. PICK j \in 1..n : Latest(acc, j, h.kind) /\ acc[j].from = flag[h.kind]
      BY <1>4, <3>2 DEF Routed, FlagLatest
    <3>4. ~(h.id > j)
      BY <1>4, <3>3 DEF Latest
    <3>5. h.id # j
      BY <3>1, <3>3
    <3>6. j \in (h.id + 1)..n /\ acc[j].kind = acc[h.id].kind
      BY <1>2, <1>4, <3>3, <3>4, <3>5 DEF Latest
    <3> QED BY <1>5, <2>2, <3>3, <3>6
  <2> QED BY <1>7, <2>1, <2>2
<1> QED BY <1>1, <1>8, <1>9, <1>10, <1>11 DEF Routed

LEMMA UnansweredRouted ==
    ASSUME Routed, Unanswered
    PROVE  Routed'
<1> DEFINE h == Head(line)
<1>1. /\ line # <<>> /\ line' = Tail(line)
      /\ UNCHANGED <<up, dcu, flag, fwd, acc, out>>
  BY DEF Unanswered
<1>2. out \in Seq(Answers) /\ line \in Seq(Entries) /\ fwd \in Seq(Entries)
  BY DEF Routed, RouteType
<1>3. /\ Tail(line) \in Seq(Entries)
      /\ \A i \in 1..Len(Tail(line)) :
           i + 1 \in 1..Len(line) /\ Tail(line)[i] = line[i + 1]
      /\ h \in Entries
  BY <1>1, <1>2, TailPlaces
<1>4. \E e \in Answers : e.id = h.id
  <2>1. [id |-> h.id, to |-> "unset", seen |-> 0] \in Answers
    BY <1>3 DEF Answers, Entries
  <2> QED BY <2>1
<1>5. Ranks(acc, out, line', fwd)
  BY <1>1, <1>2, <1>4, RanksAnswer DEF Routed
<1>6. RouteType' /\ Known'
  BY <1>1, <1>3 DEF Routed, RouteType, Known
<1>7. Legal' /\ FlagLatest' /\ StrayNeedsOverlap'
  BY <1>1, SameAccepted
<1> QED BY <1>1, <1>5, <1>6, <1>7 DEF Routed

(* Nothing is under way on a new inverter connection.                      *)
LEMMA InitRouted == Init => Routed
<1> SUFFICES ASSUME Init PROVE Routed
  OBVIOUS
<1>1. /\ fwd = <<>> /\ line = <<>> /\ acc = <<>> /\ out = <<>> /\ 1..Len(<<>>) = {}
      /\ flag = [at |-> "mqtt", dcu |-> "unset"] /\ up = FALSE /\ dcu \in BOOLEAN
  BY DEF Init
<1>2. flag \in [Kinds -> Conns \cup {"unset"}]
  BY <1>1 DEF Kinds, Conns
<1>3. RouteType
  <2>1. <<>> \in Seq(Entries) /\ <<>> \in Seq(Commands) /\ <<>> \in Seq(Answers)
    OBVIOUS
  <2>2. up \in BOOLEAN
    BY <1>1
  <2> QED BY <1>1, <1>2, <2>1, <2>2 DEF RouteType
<1>4. /\ Len(acc) = 0 /\ Len(out) = 0 /\ Len(line) = 0 /\ Len(fwd) = 0
      /\ 1..0 = {}
  BY <1>1
<1>5. Known /\ Legal /\ FlagLatest /\ StrayNeedsOverlap
  BY <1>4 DEF Known, Legal, FlagLatest, StrayNeedsOverlap
<1>6. Ranks(acc, out, line, fwd)
  BY <1>4 DEF Ranks, Chain, Ahead
<1> QED BY <1>3, <1>5, <1>6 DEF Routed

(* Routed is inductive: accepting, forwarding and answering a command, and  *)
(* the end of the cloud connection keep the three sequences in order.       *)
THEOREM NextRouted == Routed /\ [Next]_vars => Routed'
<1> SUFFICES ASSUME Routed, [Next]_vars PROVE Routed'
  OBVIOUS
<1>1. ASSUME NEW cmd \in AtCmds, send_at_cmd(cmd) PROVE Routed'
  BY <1>1, SendRouted DEF send_at_cmd, at_cmd_forbidden, Kinds
<1>2. ASSUME NEW cmd \in AtCmds, msg_command_req_at(cmd) PROVE Routed'
  BY <1>2, ForwardRouted DEF msg_command_req_at, at_cmd_forbidden, Kinds
<1>3. CASE send_dcu_cmd
  BY <1>3, SendRouted DEF send_dcu_cmd, Kinds
<1>4. CASE msg_command_req_dcu
  BY <1>4, ForwardRouted DEF msg_command_req_dcu, Kinds
<1>5. CASE async_forward
  BY <1>5, AsyncForwardRouted
<1>6. CASE msg_command_rsp
  BY <1>6, AnswerRouted
<1>7. CASE Unanswered
  BY <1>7, UnansweredRouted
<1>8. CASE NewStateUp \/ UNCHANGED vars
  <2>1. UNCHANGED <<dcu, flag, fwd, line, acc, out>> /\ up' \in BOOLEAN
    BY <1>8 DEF NewStateUp, vars, Routed, RouteType
  <2>2. Legal' /\ FlagLatest' /\ StrayNeedsOverlap'
    BY <2>1, SameAccepted
  <2>3. Known' /\ RouteType' /\ Ranks(acc', out', line', fwd')
    BY <2>1 DEF Routed, RouteType, Known
  <2> QED BY <2>2, <2>3 DEF Routed
<1> QED BY <1>1, <1>2, <1>3, <1>4, <1>5, <1>6, <1>7, <1>8 DEF Next

(* In every state the commands under way are accepted ones, in order, and a *)
(* flag belongs to the latest command of its kind (msg_command_req).        *)
THEOREM RoutedInvariant == Spec => []Routed
BY InitRouted, NextRouted, PTL DEF Spec

(* An answer goes to the wrong side only if that side has had a command of *)
(* the same kind accepted while the answer was outstanding.                *)
THEOREM StrayRouteCorrect == Spec => []StrayNeedsOverlap
<1>1. Routed => StrayNeedsOverlap
  BY DEF Routed
<1> QED BY <1>1, RoutedInvariant, PTL

-----------------------------------------------------------------------------
(* InFlight puts the three sequences one behind the other.                 *)

LEMMA IdsType ==
    ASSUME NEW S, NEW s \in Seq(S), \A e \in S : e.id \in Nat
    PROVE  LET d == [i \in 1..Len(s) |-> s[i].id] IN
           /\ d \in Seq(Nat) /\ Len(d) = Len(s) /\ Len(s) \in Nat
           /\ \A i \in 1..Len(s) : d[i] = s[i].id
<1>1. \A i \in 1..Len(s) : s[i] \in S
  BY ElementOfSeq
<1> QED BY <1>1

\* Which entry a place of InFlight stands for.
LEMMA InFlightPlaces ==
    ASSUME RouteType
    PROVE  /\ Len(out) \in Nat /\ Len(line) \in Nat /\ Len(fwd) \in Nat
           /\ \A i \in 1..Len(InFlight) :
                \/ i \in 1..Len(out) /\ InFlight[i] = out[i].id
                \/ /\ i > Len(out) /\ i - Len(out) \in 1..Len(line)
                   /\ InFlight[i] = line[i - Len(out)].id
                \/ /\ i > Len(out) + Len(line)
                   /\ i - (Len(out) + Len(line)) \in 1..Len(fwd)
                   /\ InFlight[i] = fwd[i - (Len(out) + Len(line))].id
<1> DEFINE o == [i \in 1..Len(out) |-> out[i].id]
           l == [i \in 1..Len(line) |-> line[i].id]
           f == [i \in 1..Len(fwd) |-> fwd[i].id]
<1>0. /\ \A e \in Answers : e.id \in Nat
      /\ \A e \in Entries : e.id \in Nat
      /\ out \in Seq(Answers) /\ line \in Seq(Entries) /\ fwd \in Seq(Entries)
  BY DEF RouteType, Answers, Entries
<1>1. /\ o \in Seq(Nat) /\ Len(o) = Len(out) /\ Len(out) \in Nat
      /\ \A i \in 1..Len(out) : o[i] = out[i].id
  BY <1>0, IdsType
<1>2. /\ l \in Seq(Nat) /\ Len(l) = Len(line) /\ Len(line) \in Nat
      /\ \A i \in 1..Len(line) : l[i] = line[i].id
  BY <1>0, IdsType
<1>3. /\ f \in Seq(Nat) /\ Len(f) = Len(fwd) /\ Len(fwd) \in Nat
      /\ \A i \in 1..Len(fwd) : f[i] = fwd[i].id
  BY <1>0, IdsType
<1>4. InFlight = (o \o l) \o f
  BY DEF InFlight
<1> HIDE DEF o, l, f
<1> DEFINE u == o \o l
<1>5. /\ u \in Seq(Nat) /\ Len(u) = Len(o) + Len(l)
      /\ \A i \in 1..Len(u) :
           \/ i \in 1..Len(o) /\ u[i] = o[i]
           \/ i - Len(o) \in 1..Len(l) /\ i > Len(o) /\ u[i] = l[i - Len(o)]
  BY <1>1, <1>2, ConcatPlaces, ConcatProperties
<1> HIDE DEF u
<1>6. \A i \in 1..Len(u \o f) :
        \/ i \in 1..Len(u) /\ (u \o f)[i] = u[i]
        \/ i - Len(u) \in 1..Len(f) /\ i > Len(u) /\ (u \o f)[i] = f[i - Len(u)]
  BY <1>3, <1>5, ConcatPlaces
<1>7. InFlight = u \o f
  BY <1>4 DEF u
<1>8. ASSUME NEW i \in 1..Len(InFlight)
      PROVE  \/ i \in 1..Len(out) /\ InFlight[i] = out[i].id
             \/ /\ i > Len(out) /\ i - Len(out) \in 1..Len(line)
                /\ InFlight[i] = line[i - Len(out)].id
             \/ /\ i > Len(out) + Len(line)
                /\ i - (Len(out) + Len(line)) \in 1..Len(fwd)
                /\ InFlight[i] = fwd[i - (Len(out) + Len(line))].id
  <2>1. CASE i \in 1..Len(u) /\ InFlight[i] = u[i]
    <3>1. CASE i \in 1..Len(o) /\ u[i] = o[i]
      BY <1>1, <2>1, <3>1
    <3>2. CASE i - Len(o) \in 1..Len(l) /\ i > Len(o) /\ u[i] = l[i - Len(o)]
      BY <1>1, <1>2, <2>1, <3>2
    <3> QED BY <1>5, <2>1, <3>1, <3>2
  <2>2. CASE /\ i - Len(u) \in 1..Len(f) /\ i > Len(u)
             /\ InFlight[i] = f[i - Len(u)]
    BY <1>1, <1>2, <1>3, <1>5, <2>2
  <2> QED BY <1>6, <1>7, <2>1, <2>2
<1> QED BY <1>1, <1>2, <1>3, <1>8

(* A command reaches the inverter at most once and is answered at most     *)
(* once, and those of one connection keep their order.                     *)
THEOREM OnceInOrderCorrect == Spec => []OnceInOrder
<1>1. Routed => OnceInOrder
  <2> SUFFICES ASSUME Routed, NEW i \in 1..Len(InFlight), NEW j \in 1..Len(InFlight),
                      i < j
               PROVE  Before(acc, InFlight[i], InFlight[j])
    BY DEF OnceInOrder, Before
  <2>1. RouteType /\ Ranks(acc, out, line, fwd)
    BY DEF Routed
  <2> DEFINE a == Len(out)
             b == Len(out) + Len(line)
             InOut(k) == k \in 1..a /\ InFlight[k] = out[k].id
             InLine(k) == /\ k > a /\ k - a \in 1..Len(line)
                          /\ InFlight[k] = line[k - a].id
             InFwd(k) == /\ k > b /\ k - b \in 1..Len(fwd)
                         /\ InFlight[k] = fwd[k - b].id
  <2>2. a \in Nat /\ b \in Nat /\ a <= b
    BY <2>1, InFlightPlaces
  <2>3. /\ InOut(i) \/ InLine(i) \/ InFwd(i)
        /\ InOut(j) \/ InLine(j) \/ InFwd(j)
    BY <2>1, InFlightPlaces
  <2>4. i - a < j - a /\ i - b < j - b /\ i \in Nat /\ j \in Nat
    BY <2>2
  <2>5. CASE InOut(i)
    <3>1. CASE InOut(j)
      BY <2>1, <2>5, <3>1 DEF Ranks, Chain
    <3>2. CASE InLine(j)
      BY <2>1, <2>5, <3>2 DEF Ranks, Ahead
    <3>3. CASE InFwd(j)
      BY <2>1, <2>5, <3>3 DEF Ranks, Ahead
    <3> QED BY <2>3, <3>1, <3>2, <3>3
  <2>6. CASE InLine(i)
    <3>1. CASE InOut(j)
      BY <2>2, <2>4, <2>6, <3>1
    <3>2. CASE InLine(j)
      BY <2>1, <2>4, <2>6, <3>2 DEF Ranks, Chain
    <3>3. CASE InFwd(j)
      BY <2>1, <2>6, <3>3 DEF Ranks, Ahead
    <3> QED BY <2>3, <3>1, <3>2, <3>3
  <2>7. CASE InFwd(i)
    <3>1. CASE InOut(j)
      BY <2>2, <2>4, <2>7, <3>1
    <3>2. CASE InLine(j)
      <4>1. Len(line) \in Nat /\ Len(out) \in Nat
        BY <2>1, InFlightPlaces
      <4> QED BY <2>4, <2>7, <3>2, <4>1
    <3>3. CASE InFwd(j)
      BY <2>1, <2>4, <2>7, <3>3 DEF Ranks, Chain
    <3> QED BY <2>3, <3>1, <3>2, <3>3
  <2> QED BY <2>3, <2>5, <2>6, <2>7
<1> QED BY <1>1, RoutedInvariant, PTL

(* Only commands that the list of their connection allows and does not     *)
(* block are ever on their way to the inverter.                            *)
THEOREM AclCorrect == Spec => []AclHeld
<1>1. Routed => AclHeld
  <2> SUFFICES ASSUME Routed, NEW i \in 1..Len(InFlight)
               PROVE  InFlight[i] \in 1..Len(acc)
    BY DEF AclHeld, Routed, Legal
  <2> QED BY InFlightPlaces DEF Routed, Known, EntryOf
<1> QED BY <1>1, RoutedInvariant, PTL
==============================================================================
