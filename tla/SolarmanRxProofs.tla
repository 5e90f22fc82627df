--------------------------- MODULE SolarmanRxProofs ---------------------------
(***************************************************************************)
(* Proofs about SolarmanRx for every set of frames and every number of     *)
(* them.  Framed says how the byte stream is made up of frames, Stored     *)
(* what read() knows of the header in front of the buffer, Logged where in *)
(* the stream the messages of the history are, Blamed which ill-framed     *)
(* message answers for whatever was dropped or is out of step.             *)
(***************************************************************************)
EXTENDS SolarmanRx, SequenceTheorems, TLAPS

Cells == [id : Nat, pos : Nat]
Places == 1..Len(stream)
Body(p) == frames[stream[p].id].body

\* The stream is one frame after the other, cell after cell.
Framed ==
    /\ \A p \in Places :
          /\ stream[p].id \in 1..Len(frames) /\ stream[p].pos <= Body(p)
          /\ p + (Body(p) - stream[p].pos) <= Len(stream)
    /\ \A p, q \in Places : p < q =>
          \/ stream[p].id < stream[q].id
          \/ stream[p].id = stream[q].id /\ stream[p].pos < stream[q].pos
    /\ \A p, q \in Places : p <= q /\ q <= p + (Body(p) - stream[p].pos) =>
          stream[q] = [id |-> stream[p].id, pos |-> stream[p].pos + (q - p)]
    /\ \A i \in 1..Len(frames) :
          \E p \in Places : stream[p] = [id |-> i, pos |-> 0]

\* A header that was parsed is still there, and parsed right.
Stored ==
    header_valid =>
        /\ rd < arr /\ IsStart(Cell(1))
        /\ data_len = Frame(Cell(1)).len /\ rcv_idx = Cell(1).id

\* What is in the history has left the buffer, or its handler has raised and
\* it is the message in front.
Logged ==
    \A n \in 1..Len(log) :
        \/ \E p \in 1..rd : stream[p].id = log[n].id
        \/ log[n].out = "raised" /\ header_valid /\ log[n].id = Cell(1).id

\* A frame that met an empty buffer began where read() was.
FreshStarts ==
    /\ fresh \subseteq 1..Len(frames)
    /\ \A p \in Places :
          stream[p].pos = 0 /\ stream[p].id \in fresh => p <= rd + 1

\* A frame up to c was framed wrong, and none since met an empty buffer.
Excused(c) ==
    \E j \in 1..c : ~WellFramed(frames[j]) /\ fresh \cap (j + 1)..c = {}

\* read() is at the beginning of a frame, or it is excused for being out of
\* step; and so it is for every good frame that was not handled.
Blamed ==
    /\ rd < Len(stream) /\ Cell(1).pos # 0 => Excused(Cell(1).id)
    /\ \A p \in 1..rd :
          stream[p].pos = Body(p) /\ Good(frames[stream[p].id]) =>
              \/ \E n \in 1..Len(log) :
                    log[n] = [id |-> stream[p].id, out |-> "done"]
              \/ Excused(stream[p].id)

Base == TypeOK /\ Framed /\ Stored

LEMMA KindFacts ==
    ASSUME NEW k \in Kinds
    PROVE  /\ k.body \in Nat \ {0} /\ k.len \in Nat \ {0}
           /\ k.start \in BOOLEAN /\ k.stop \in BOOLEAN /\ k.crc \in BOOLEAN
           /\ k.known \in BOOLEAN /\ k.control \in Controls
  BY KindsAssumption

-----------------------------------------------------------------------------
(* The stream.                                                             *)

LEMMA PlaceFacts ==
    ASSUME TypeOK, Framed
    PROVE  /\ Len(stream) \in Nat /\ Len(frames) \in Nat
           /\ arr \in Nat /\ rd \in Nat /\ rd <= arr /\ arr <= Len(stream)
           /\ \A i \in 1..Len(frames) : frames[i] \in Kinds
           /\ \A p \in Places :
                 /\ stream[p] \in Cells /\ stream[p].id \in Nat
                 /\ stream[p].pos \in Nat /\ stream[p].id \in 1..Len(frames)
                 /\ Body(p) \in Nat \ {0}
<1>1. /\ Len(stream) \in Nat /\ Len(frames) \in Nat
      /\ arr \in Nat /\ rd \in Nat /\ rd <= arr /\ arr <= Len(stream)
  BY DEF TypeOK
<1>2. \A i \in 1..Len(frames) : frames[i] \in Kinds
  BY ElementOfSeq DEF TypeOK
<1>3. \A p \in Places : stream[p] \in Cells
  BY ElementOfSeq DEF TypeOK, Places, Cells
<1>4. \A p \in Places : stream[p].id \in 1..Len(frames)
  BY DEF Framed
<1>5. \A p \in Places : Body(p) \in Nat \ {0}
  BY <1>2, <1>4, KindFacts DEF Body
<1> QED BY <1>1, <1>2, <1>3, <1>4, <1>5 DEF Cells

\* What the peer's next frame adds.
LEMMA SendGrows ==
    ASSUME TypeOK, Framed, NEW k \in Kinds, Send(k)
    PROVE  /\ frames' \in Seq(Kinds) /\ Len(frames') = Len(frames) + 1
           /\ \A i \in 1..Len(frames) : frames'[i] = frames[i]
           /\ frames'[Len(frames) + 1] = k
           /\ stream' \in Seq(Cells) /\ Len(stream') = Len(stream) + (k.body + 1)
           /\ \A p \in Places : stream'[p] = stream[p]
           /\ \A p \in (Len(stream) + 1)..Len(stream') :
                 stream'[p] = [id |-> Len(frames) + 1, pos |-> p - Len(stream) - 1]
<1> DEFINE t == [p \in 1..(k.body + 1) |-> [id |-> Len(frames) + 1, pos |-> p - 1]]
<1>1. frames \in Seq(Kinds) /\ Len(frames) \in Nat /\ stream \in Seq(Cells)
      /\ Len(stream) \in Nat /\ k.body \in Nat
  BY KindFacts DEF TypeOK, Cells
<1>2. /\ frames' \in Seq(Kinds) /\ Len(frames') = Len(frames) + 1
      /\ \A i \in 1..Len(frames) : frames'[i] = frames[i]
      /\ frames'[Len(frames) + 1] = k
  <2>1. frames' = Append(frames, k)
    BY DEF Send
  <2> QED BY <1>1, <2>1, AppendProperties
<1>3. t \in Seq(Cells) /\ Len(t) = k.body + 1
  <2>1. \A p \in 1..(k.body + 1) : [id |-> Len(frames) + 1, pos |-> p - 1] \in Cells
    BY <1>1 DEF Cells
  <2>2. t \in [1..(k.body + 1) -> Cells] /\ k.body + 1 \in Nat
    BY <1>1, <2>1
  <2> HIDE DEF t
  <2> QED BY <2>2
<1>4. \A p \in 1..(k.body + 1) : t[p] = [id |-> Len(frames) + 1, pos |-> p - 1]
  OBVIOUS
<1>5. stream' = stream \o t
  BY DEF Send
<1> HIDE DEF t
<1>6. /\ stream' \in Seq(Cells) /\ Len(stream') = Len(stream) + Len(t)
      /\ \A p \in 1..(Len(stream) + Len(t)) :
            stream'[p] = IF p <= Len(stream) THEN stream[p] ELSE t[p - Len(stream)]
  BY <1>1, <1>3, <1>5, ConcatProperties
<1>7. ASSUME NEW p \in Places PROVE stream'[p] = stream[p]
  <2>1. p \in 1..(Len(stream) + Len(t)) /\ p <= Len(stream)
    BY <1>1, <1>3 DEF Places
  <2> QED BY <1>6, <2>1
<1>8. \A p \in (Len(stream) + 1)..Len(stream') :
          stream'[p] = [id |-> Len(frames) + 1, pos |-> p - Len(stream) - 1]
  <2> SUFFICES ASSUME NEW p \in (Len(stream) + 1)..Len(stream')
               PROVE  stream'[p] = [id |-> Len(frames) + 1, pos |-> p - Len(stream) - 1]
    OBVIOUS
  <2>1. p - Len(stream) \in 1..(k.body + 1) /\ p \in 1..(Len(stream) + Len(t)) /\ ~(p <= Len(stream))
    BY <1>1, <1>3, <1>6
  <2>2. stream'[p] = t[p - Len(stream)]
    BY <1>6, <2>1
  <2> QED BY <1>4, <2>1, <2>2
<1> QED BY <1>2, <1>3, <1>6, <1>7, <1>8

LEMMA SendFramed ==
    ASSUME TypeOK, Framed, NEW k \in Kinds, Send(k)
    PROVE  Framed'
<1> DEFINE L == Len(stream)
           N == Len(frames)
           M == Len(stream')
           NewBody(p) == frames'[stream'[p].id].body
<1>1. /\ Len(frames') = N + 1 /\ \A i \in 1..N : frames'[i] = frames[i]
      /\ frames'[N + 1] = k /\ M = L + (k.body + 1)
      /\ \A p \in 1..L : stream'[p] = stream[p]
      /\ \A p \in (L + 1)..M : stream'[p] = [id |-> N + 1, pos |-> p - L - 1]
  <2>1. Places = 1..L
    BY DEF Places
  <2> QED BY SendGrows, <2>1
<1>2. L \in Nat /\ N \in Nat /\ k.body \in Nat /\ M \in Nat
  BY <1>1, KindFacts DEF TypeOK
<1> HIDE DEF L, N, M
<1>3. \A p \in 1..L : /\ stream[p].id \in 1..N /\ stream[p].pos \in Nat
                      /\ stream[p].id \in Nat /\ Body(p) \in Nat
  BY PlaceFacts DEF Places, L, N
<1>4. \A p \in 1..L : stream'[p] = stream[p] /\ NewBody(p) = Body(p)
  BY <1>1, <1>3 DEF Body
<1>5. \A p \in (L + 1)..M : /\ stream'[p].id = N + 1 /\ stream'[p].pos = p - L - 1
                            /\ NewBody(p) = k.body
  <2> SUFFICES ASSUME NEW p \in (L + 1)..M
               PROVE  /\ stream'[p].id = N + 1 /\ stream'[p].pos = p - L - 1
                      /\ NewBody(p) = k.body
    OBVIOUS
  <2>1. stream'[p] = [id |-> N + 1, pos |-> p - L - 1]
    BY <1>1
  <2>2. stream'[p].id = N + 1 /\ stream'[p].pos = p - L - 1
    BY <2>1
  <2> QED BY <1>1, <2>2
<1>6. Places' = 1..M /\ Places = 1..L
  BY DEF Places, L, M
<1> HIDE DEF NewBody
<1>12. \A p \in 1..M : p \in 1..L \/ p \in (L + 1)..M
  BY <1>2
<1>7. \A p \in 1..M : /\ stream'[p].id \in 1..(N + 1) /\ stream'[p].pos <= NewBody(p)
                      /\ p + (NewBody(p) - stream'[p].pos) <= M
  <2> SUFFICES ASSUME NEW p \in 1..M
               PROVE  /\ stream'[p].id \in 1..(N + 1) /\ stream'[p].pos <= NewBody(p)
                      /\ p + (NewBody(p) - stream'[p].pos) <= M
    OBVIOUS
  <2>1. CASE p \in 1..L
    <3>1. stream[p].pos <= Body(p) /\ p + (Body(p) - stream[p].pos) <= L
      BY <1>6, <2>1 DEF Framed, L
    <3>2. /\ stream'[p] = stream[p] /\ NewBody(p) = Body(p) /\ p \in Nat
          /\ stream[p].id \in 1..N /\ stream[p].pos \in Nat /\ Body(p) \in Nat
      BY <1>2, <1>3, <1>4, <2>1
    <3>3. M = L + (k.body + 1)
      BY <1>1
    <3>4. stream[p].id \in 1..(N + 1)
      BY <1>2, <3>2
    <3> QED BY <1>2, <3>1, <3>2, <3>3, <3>4
  <2>2. CASE p \in (L + 1)..M
    <3>1. stream'[p].id = N + 1 /\ stream'[p].pos = p - L - 1 /\ NewBody(p) = k.body
      BY <1>5, <2>2
    <3>2. M = L + (k.body + 1)
      BY <1>1
    <3>3. N + 1 \in 1..(N + 1) /\ p - L - 1 <= k.body /\ p + (k.body - (p - L - 1)) <= M
      BY <1>2, <2>2, <3>2
    <3> QED BY <3>1, <3>3
  <2> QED BY <1>12, <2>1, <2>2
<1>8. \A p, q \in 1..M : p < q =>
          \/ stream'[p].id < stream'[q].id
          \/ stream'[p].id = stream'[q].id /\ stream'[p].pos < stream'[q].pos
  <2> SUFFICES ASSUME NEW p \in 1..M, NEW q \in 1..M, p < q
               PROVE  \/ stream'[p].id < stream'[q].id
                      \/ stream'[p].id = stream'[q].id /\ stream'[p].pos < stream'[q].pos
    OBVIOUS
  <2>1. CASE p \in 1..L /\ q \in 1..L
    BY <1>4, <1>6, <2>1 DEF Framed
  <2>2. CASE p \in 1..L /\ q \in (L + 1)..M
    BY <1>2, <1>3, <1>4, <1>5, <2>2
  <2>3. CASE p \in (L + 1)..M
    <3>1. q \in (L + 1)..M
      BY <1>2, <2>3
    <3> QED BY <1>2, <1>5, <2>3, <3>1
  <2> QED BY <1>12, <2>1, <2>2, <2>3
<1>9. \A p, q \in 1..M : p <= q /\ q <= p + (NewBody(p) - stream'[p].pos) =>
          stream'[q] = [id |-> stream'[p].id, pos |-> stream'[p].pos + (q - p)]
  <2> SUFFICES ASSUME NEW p \in 1..M, NEW q \in 1..M, p <= q,
                      q <= p + (NewBody(p) - stream'[p].pos)
               PROVE  stream'[q] = [id |-> stream'[p].id, pos |-> stream'[p].pos + (q - p)]
    OBVIOUS
  <2>1. CASE p \in 1..L
    <3>1. p + (Body(p) - stream[p].pos) <= L
      BY <1>6, <2>1 DEF Framed, L
    <3>2. q \in 1..L /\ q <= p + (Body(p) - stream[p].pos)
      BY <1>2, <1>3, <1>4, <2>1, <3>1
    <3>3. stream[q] = [id |-> stream[p].id, pos |-> stream[p].pos + (q - p)]
      BY <1>6, <2>1, <3>2 DEF Framed
    <3> QED BY <1>4, <2>1, <3>2, <3>3
  <2>2. CASE p \in (L + 1)..M
    <3>1. q \in (L + 1)..M
      BY <1>2, <2>2
    <3>2. stream'[q] = [id |-> N + 1, pos |-> q - L - 1]
      BY <1>1, <3>1
    <3>3. stream'[p].id = N + 1 /\ stream'[p].pos + (q - p) = q - L - 1
      BY <1>2, <1>5, <2>2
    <3> QED BY <3>2, <3>3
  <2> QED BY <1>12, <2>1, <2>2
<1>10. \A i \in 1..(N + 1) : \E p \in 1..M : stream'[p] = [id |-> i, pos |-> 0]
  <2> SUFFICES ASSUME NEW i \in 1..(N + 1)
               PROVE  \E p \in 1..M : stream'[p] = [id |-> i, pos |-> 0]
    OBVIOUS
  <2>1. CASE i \in 1..N
    <3>1. PICK p \in 1..L : stream[p] = [id |-> i, pos |-> 0]
      BY <1>6, <2>1 DEF Framed, N
    <3> QED BY <1>1, <1>2, <3>1
  <2>2. CASE i = N + 1
    <3>1. L + 1 \in (L + 1)..M /\ L + 1 \in 1..M /\ (L + 1) - L - 1 = 0
      BY <1>1, <1>2
    <3> QED BY <1>1, <2>2, <3>1
  <2> QED BY <1>2, <2>1, <2>2
<1>11. Len(frames') = N + 1 /\ Len(stream') = M
  BY <1>1 DEF M
<1> QED BY <1>6, <1>7, <1>8, <1>9, <1>10, <1>11 DEF Framed, Body, NewBody

-----------------------------------------------------------------------------
(* The message in front of the buffer.                                     *)

LEMMA HeaderFacts ==
    ASSUME Base, Header
    PROVE  /\ rd + 1 \in Places /\ rd < arr /\ Cell(1) = stream[rd + 1]
           /\ Cell(1).pos = 0 /\ Cell(1).id \in 1..Len(frames)
           /\ Frame(Cell(1)) \in Kinds /\ Frame(Cell(1)).start
           /\ DataLen = Frame(Cell(1)).len /\ RcvIdx = Cell(1).id
           /\ DataLen \in Nat \ {0} /\ Size = DataLen + 1
<1>1. /\ Len(stream) \in Nat /\ arr \in Nat /\ rd \in Nat /\ rd <= arr
      /\ arr <= Len(stream)
  BY PlaceFacts DEF Base
<1>2. rd < arr /\ IsStart(Cell(1))
  BY <1>1 DEF Base, Stored, Header, rx_len
<1>3. rd + 1 \in Places /\ Cell(1) = stream[rd + 1]
  BY <1>1, <1>2 DEF Places, Cell
<1>4. Cell(1).id \in 1..Len(frames)
  BY <1>3, PlaceFacts DEF Base
<1>5. Frame(Cell(1)) \in Kinds
  BY <1>4, PlaceFacts DEF Base, Frame
<1>6. Cell(1).pos = 0 /\ Frame(Cell(1)).start
  BY <1>2 DEF IsStart
<1>7. DataLen = Frame(Cell(1)).len /\ RcvIdx = Cell(1).id
  BY DEF Base, Stored, DataLen, RcvIdx
<1>8. DataLen \in Nat \ {0}
  BY <1>5, <1>7, KindFacts
<1>9. Size = DataLen + 1
  BY <1>8 DEF Size
<1> QED BY <1>2, <1>3, <1>4, <1>5, <1>6, <1>7, <1>8, <1>9

\* If the announced length is right the message ends where its frame does.
LEMMA EndsInStep ==
    ASSUME Base, Complete, DataLen = Frame(Cell(1)).body
    PROVE  /\ rd + Size \in Places /\ rd + Size <= arr /\ Cell(Size) = stream[rd + Size]
           /\ Cell(Size) = [id |-> Cell(1).id, pos |-> Frame(Cell(1)).body]
<1>1. /\ Len(stream) \in Nat /\ arr \in Nat /\ rd \in Nat /\ rd <= arr
      /\ arr <= Len(stream)
  BY PlaceFacts DEF Base
<1>2. Header /\ arr - rd >= Size
  BY DEF Complete, rx_len
<1>3. /\ rd + 1 \in Places /\ Cell(1) = stream[rd + 1] /\ Cell(1).pos = 0
      /\ DataLen \in Nat \ {0} /\ Size = DataLen + 1
  BY <1>2, HeaderFacts
<1>4. rd + Size \in Places /\ rd + Size <= arr /\ Cell(Size) = stream[rd + Size]
  <2>1. \A r, a, z, l \in Nat :
           a - r >= z + 1 /\ a <= l => r + (z + 1) \in 1..l /\ r + (z + 1) <= a
    OBVIOUS
  <2>2. rd + Size \in 1..Len(stream) /\ rd + Size <= arr
    BY <1>1, <1>2, <1>3, <2>1
  <2> QED BY <2>2 DEF Places, Cell
<1> DEFINE p == rd + 1
           q == rd + Size
<1>5. /\ p \in Places /\ q \in Places /\ p \in Nat /\ q \in Nat /\ q - p = DataLen
      /\ Cell(1) = stream[p] /\ Cell(Size) = stream[q] /\ stream[p].pos = 0
  <2>1. p \in Places /\ q \in Places /\ Cell(1) = stream[p] /\ Cell(Size) = stream[q]
    BY <1>3, <1>4
  <2>2. stream[p].pos = 0
    BY <1>3
  <2>3. p \in Nat /\ q \in Nat /\ q - p = DataLen
    <3>1. DataLen \in Nat /\ Size \in Nat /\ rd \in Nat /\ Size = DataLen + 1
      BY <1>1, <1>3
    <3>2. \A r, z, d \in Nat : z = d + 1 => (r + z) - (r + 1) = d
      OBVIOUS
    <3> QED BY <3>1, <3>2
  <2> QED BY <2>1, <2>2, <2>3
<1> HIDE DEF p, q
<1>6. Body(p) = DataLen
  BY <1>5 DEF Body, Frame
<1>7. p <= q /\ q <= p + (Body(p) - stream[p].pos)
  BY <1>3, <1>5, <1>6
<1>8. stream[q] = [id |-> stream[p].id, pos |-> stream[p].pos + (q - p)]
  BY <1>5, <1>7 DEF Base, Framed
<1>9. stream[p].pos + (q - p) = Frame(Cell(1)).body
  BY <1>3, <1>5
<1>10. Cell(Size) = [id |-> Cell(1).id, pos |-> Frame(Cell(1)).body]
  BY <1>5, <1>8, <1>9
<1> QED BY <1>4, <1>10

LEMMA IntactFacts ==
    ASSUME Base, Intact
    PROVE  /\ WellFramed(Frame(Cell(1))) /\ Frame(Cell(1)).crc
           /\ DataLen = Frame(Cell(1)).body /\ Header
<1>1. /\ Complete /\ Header /\ IsStop(Cell(Size)) /\ Frame(Cell(1)).crc
      /\ DataLen = Frame(Cell(1)).body
  BY DEF Intact, SumOk, Complete
<1>2. Cell(Size).id = Cell(1).id
  BY <1>1, EndsInStep
<1>3. Frame(Cell(1)).stop
  BY <1>1, <1>2 DEF IsStop, Frame
<1> QED BY <1>1, <1>3, HeaderFacts DEF WellFramed

LEMMA Misframed ==
    ASSUME Base, Complete, ~IsStop(Cell(Size))
    PROVE  ~WellFramed(Frame(Cell(1)))
<1> SUFFICES ASSUME WellFramed(Frame(Cell(1))) PROVE FALSE
  OBVIOUS
<1>1. Header
  BY DEF Complete
<1>2. DataLen = Frame(Cell(1)).body /\ Frame(Cell(1)).stop
  BY <1>1, HeaderFacts DEF WellFramed
<1>3. Cell(Size) = [id |-> Cell(1).id, pos |-> Frame(Cell(1)).body]
  BY <1>2, EndsInStep
<1>4. IsStop(Cell(Size))
  BY <1>2, <1>3 DEF IsStop, Frame
<1> QED BY <1>4

-----------------------------------------------------------------------------
(* What an iteration of read() does, in four shapes.                       *)

Entry(out) == [id |-> Cell(1).id, out |-> out]

Waits == UNCHANGED <<rd, log, fwd, tx>> /\ (header_valid => header_valid')

Fails ==
    /\ Header /\ header_valid' = TRUE /\ log' = Append(log, Entry("raised"))
    /\ UNCHANGED <<rd, fwd, tx>>

Drops ==
    /\ rd + 1 \in Places /\ rd' \in (rd + 1)..arr /\ header_valid' = FALSE
    /\ Cell(1).pos # 0 \/ ~WellFramed(Frame(Cell(1)))
    /\ \/ UNCHANGED log
       \/ Header /\ \E out \in {"stop", "sum"} : log' = Append(log, Entry(out))
    /\ UNCHANGED <<fwd, tx>>

Takes(out) ==
    /\ Header /\ Complete /\ DataLen = Frame(Cell(1)).body
    /\ rd' = rd + Size /\ header_valid' = FALSE
    /\ log' = Append(log, Entry(out))
    /\ \/ /\ out \in {"sum", "unknown"} /\ ~Good(Frame(Cell(1)))
          /\ UNCHANGED <<fwd, tx>>
       \/ /\ out = "done" /\ Good(Frame(Cell(1)))
          /\ fwd' = IF Frame(Cell(1)).control = "response" THEN fwd
                    ELSE Append(fwd, [id |-> Cell(1).id])
          /\ tx' = IF Frame(Cell(1)).control \in Indications
                   THEN Append(tx, [id |-> Cell(1).id, rcv_idx |-> Cell(1).id])
                   ELSE tx

Shaped ==
    /\ Waits \/ Fails \/ Drops \/ \E out \in Outs : Takes(out)
    /\ UNCHANGED <<frames, stream, arr, fresh>> /\ Stored'
    /\ header_valid' \in BOOLEAN /\ data_len' \in Nat /\ busy' \in BOOLEAN
    /\ rcv_idx' \in 0..Len(frames) /\ state' \in {"init", "received", "up"}

LEMMA ShapeBadStart ==
    ASSUME Base, BadStart
    PROVE  Shaped
<1>1. /\ Len(stream) \in Nat /\ arr \in Nat /\ rd \in Nat /\ rd <= arr
      /\ arr <= Len(stream)
  BY PlaceFacts DEF Base
<1>2. /\ ~header_valid /\ arr - rd > 0 /\ ~IsStart(Cell(1)) /\ rd' = arr
      /\ header_valid' = FALSE /\ rcv_idx' = RcvIdx /\ busy' = FALSE
      /\ data_len' = Frame(Cell(1)).len
      /\ UNCHANGED <<frames, stream, arr, state, fwd, tx, log, fresh>>
  BY DEF BadStart, WrongStart, Clear, rx_len
<1>3. rd + 1 \in Places /\ Cell(1) = stream[rd + 1] /\ rd' \in (rd + 1)..arr
  BY <1>1, <1>2 DEF Places, Cell
<1>4. Cell(1).id \in 1..Len(frames) /\ Frame(Cell(1)) \in Kinds
  BY <1>3, PlaceFacts DEF Base, Frame
<1>5. Cell(1).pos # 0 \/ ~WellFramed(Frame(Cell(1)))
  BY <1>2 DEF IsStart, WellFramed
<1>6. data_len' \in Nat /\ rcv_idx' \in 0..Len(frames) /\ state' \in {"init", "received", "up"}
  BY <1>2, <1>4, KindFacts DEF RcvIdx, Base, TypeOK
<1> QED BY <1>2, <1>3, <1>5, <1>6 DEF Shaped, Drops, Stored

LEMMA ShapeIncomplete ==
    ASSUME Base, Incomplete
    PROVE  Shaped
<1>1. /\ busy' = FALSE /\ header_valid' = Header
      /\ data_len' = IF Header THEN DataLen ELSE data_len
      /\ rcv_idx' = IF Header THEN RcvIdx ELSE rcv_idx
      /\ UNCHANGED <<frames, stream, arr, rd, state, fwd, tx, log, fresh>>
  BY DEF Incomplete
<1>6. header_valid => header_valid'
  BY <1>1 DEF Header
<1>2. header_valid \in BOOLEAN /\ data_len \in Nat /\ rcv_idx \in 0..Len(frames)
      /\ state \in {"init", "received", "up"} /\ Len(frames) \in Nat
  BY DEF Base, TypeOK
<1>3. header_valid' \in BOOLEAN
  BY <1>1, <1>2 DEF Header, IsStart
<1>4. CASE Header
  <2>1. data_len' = Frame(Cell(1)).len /\ rcv_idx' = Cell(1).id /\ data_len' \in Nat
        /\ rcv_idx' \in 0..Len(frames) /\ rd < arr /\ IsStart(Cell(1))
    BY <1>1, <1>2, <1>4, HeaderFacts DEF IsStart
  <2>2. Stored'
    BY <1>1, <2>1 DEF Stored, IsStart, Cell, Frame
  <2> QED BY <1>1, <1>2, <1>3, <1>6, <2>1, <2>2 DEF Shaped, Waits
<1>5. CASE ~Header
  <2>1. ~header_valid'
    BY <1>1, <1>5
  <2> QED BY <1>1, <1>2, <1>3, <1>5, <1>6, <2>1 DEF Shaped, Waits, Stored
<1> QED BY <1>4, <1>5

\* Flush and Clear forget the header.
LEMMA Forgets ==
    ASSUME Base, Complete, (Clear /\ data_len' = DataLen) \/ Flush
    PROVE  /\ header_valid' = FALSE /\ Stored' /\ data_len' \in Nat
           /\ rcv_idx' \in 0..Len(frames) /\ rd' \in (rd + 1)..arr
           /\ rd + 1 \in Places
<1>1. /\ Len(stream) \in Nat /\ arr \in Nat /\ rd \in Nat /\ rd <= arr
      /\ arr <= Len(stream)
  BY PlaceFacts DEF Base
<1>2. Header /\ arr - rd >= Size
  BY DEF Complete, rx_len
<1>3. /\ rd + 1 \in Places /\ rd < arr /\ RcvIdx = Cell(1).id
      /\ Cell(1).id \in 1..Len(frames) /\ DataLen \in Nat \ {0} /\ Size = DataLen + 1
  BY <1>2, HeaderFacts
<1>4. /\ header_valid' = FALSE /\ data_len' = DataLen /\ rcv_idx' = RcvIdx
      /\ rd' = rd + Size \/ rd' = arr
  BY DEF Clear, Flush
<1>5. Stored'
  BY <1>4 DEF Stored
<1> QED BY <1>1, <1>2, <1>3, <1>4, <1>5

LEMMA ShapeBadStop ==
    ASSUME Base, BadStop
    PROVE  Shaped
<1>1. /\ Complete /\ ~IsStop(Cell(Size)) /\ log' = Append(log, Entry("stop"))
      /\ (Clear /\ data_len' = DataLen) \/ Flush
      /\ UNCHANGED <<frames, stream, arr, state, fwd, tx, fresh, busy>>
  BY DEF BadStop, Finished, Entry, Flush
<1>2. Header /\ ~WellFramed(Frame(Cell(1)))
  BY <1>1, Misframed DEF Complete
<1>3. Drops
  BY <1>1, <1>2, Forgets DEF Drops
<1>4. busy \in BOOLEAN /\ state \in {"init", "received", "up"}
  BY DEF Base, TypeOK
<1> QED BY <1>1, <1>3, <1>4, Forgets DEF Shaped

LEMMA ShapeBadSum ==
    ASSUME Base, BadSum
    PROVE  Shaped
<1>1. /\ Complete /\ ~SumOk /\ log' = Append(log, Entry("sum")) /\ Flush
      /\ UNCHANGED <<frames, stream, arr, state, fwd, tx, fresh, busy>>
  BY DEF BadSum, Finished, Entry, Flush
<1>2. Header
  BY <1>1 DEF Complete
<1>3. Drops \/ Takes("sum")
  <2>1. CASE DataLen = Frame(Cell(1)).body
    <3>1. ~Good(Frame(Cell(1)))
      BY <1>1, <2>1 DEF SumOk, Good
    <3> QED BY <1>1, <1>2, <2>1, <3>1, Forgets DEF Takes, Flush
  <2>2. CASE DataLen # Frame(Cell(1)).body
    <3>1. ~WellFramed(Frame(Cell(1)))
      BY <1>2, <2>2, HeaderFacts DEF WellFramed
    <3> QED BY <1>1, <1>2, <3>1, Forgets DEF Drops
  <2> QED BY <2>1, <2>2
<1>4. busy \in BOOLEAN /\ state \in {"init", "received", "up"}
  BY DEF Base, TypeOK
<1> QED BY <1>1, <1>3, <1>4, Forgets DEF Shaped, Outs

LEMMA ShapeUnknown ==
    ASSUME Base, Unknown
    PROVE  Shaped
<1>1. /\ Intact /\ Complete /\ ~Frame(Cell(1)).known /\ Flush
      /\ log' = Append(log, Entry("unknown"))
      /\ state' = IF state = "init" THEN "received" ELSE state
      /\ UNCHANGED <<frames, stream, arr, fwd, tx, fresh, busy>>
  BY DEF Unknown, Intact, Received, Finished, Entry, Flush
<1>2. Header /\ DataLen = Frame(Cell(1)).body
  BY <1>1, IntactFacts
<1>3. Takes("unknown")
  BY <1>1, <1>2 DEF Takes, Good, Flush
<1>4. busy \in BOOLEAN /\ state' \in {"init", "received", "up"}
  BY <1>1 DEF Base, TypeOK
<1> QED BY <1>1, <1>3, <1>4, Forgets DEF Shaped, Outs

LEMMA ShapeHandle ==
    ASSUME Base, Handle
    PROVE  Shaped
<1>1. PICK control \in Controls :
        /\ Dispatch(control)
        /\ fwd' = IF control = "response" THEN fwd
                  ELSE Append(fwd, [id |-> Cell(1).id])
        /\ tx' = IF control \in Indications
                 THEN Append(tx, [id |-> Cell(1).id, rcv_idx |-> RcvIdx]) ELSE tx
        /\ state' \in {state, "received", "up"}
  BY DEF Handle, MsgDevInd, MsgDataInd, MsgSyncStart, MsgHbeatInd, MsgSyncEnd,
         MsgResponse, MsgUnknown, ForwardMsg, SendAckRsp, BuildHeader, Received,
         Controls, Indications
<1>2. /\ Intact /\ Complete /\ Frame(Cell(1)).known
      /\ Frame(Cell(1)).control = control
      /\ log' = Append(log, Entry("done")) /\ Flush
      /\ UNCHANGED <<frames, stream, arr, fresh, busy>>
  BY <1>1 DEF Dispatch, Intact, Finished, Entry, Flush
<1>3. /\ Header /\ DataLen = Frame(Cell(1)).body /\ Good(Frame(Cell(1)))
      /\ RcvIdx = Cell(1).id
  BY <1>2, IntactFacts, HeaderFacts DEF Good
<1>4. Takes("done")
  BY <1>1, <1>2, <1>3 DEF Takes, Flush
<1>5. busy \in BOOLEAN /\ state' \in {"init", "received", "up"}
  BY <1>1 DEF Base, TypeOK
<1> QED BY <1>2, <1>4, <1>5, Forgets DEF Shaped, Outs

LEMMA ShapeRaise ==
    ASSUME Base, Raise
    PROVE  Shaped
<1>1. /\ Header /\ header_valid' = TRUE /\ log' = Append(log, Entry("raised"))
      /\ busy' = FALSE /\ data_len' = DataLen /\ rcv_idx' = RcvIdx
      /\ UNCHANGED <<frames, stream, arr, rd, fresh, fwd, tx>>
      /\ state' \in {state, "received"}
  BY DEF Raise, RaiseLeaves, Complete, Finished, Entry, Received
<1>2. /\ data_len' = Frame(Cell(1)).len /\ rcv_idx' = Cell(1).id /\ data_len' \in Nat
      /\ rcv_idx' \in 1..Len(frames) /\ rd < arr /\ IsStart(Cell(1))
  BY <1>1, HeaderFacts DEF IsStart
<1>3. Stored'
  BY <1>1, <1>2 DEF Stored, IsStart, Cell, Frame
<1>4. state' \in {"init", "received", "up"} /\ rcv_idx' \in 0..Len(frames)
  <2>1. state \in {"init", "received", "up"}
    BY DEF Base, TypeOK
  <2>2. rcv_idx' \in 0..Len(frames)
    BY <1>2
  <2> QED BY <1>1, <2>1, <2>2
<1>5. Fails
  <2>1. Header /\ header_valid' = TRUE /\ UNCHANGED <<rd, fwd, tx>>
    BY <1>1
  <2>2. log' = Append(log, Entry("raised"))
    BY <1>1
  <2> QED BY <2>1, <2>2 DEF Fails
<1>6. UNCHANGED <<frames, stream, arr, fresh>>
  BY <1>1
<1>7. header_valid' \in BOOLEAN
  BY <1>1
<1>8. busy' \in BOOLEAN
  BY <1>1
<1>9. data_len' \in Nat
  BY <1>2
<1> QED BY <1>3, <1>4, <1>5, <1>6, <1>7, <1>8, <1>9 DEF Shaped

LEMMA ReadShape ==
    ASSUME Base, Iterate \/ Raise
    PROVE  Shaped
  BY ShapeBadStart, ShapeIncomplete, ShapeBadStop, ShapeBadSum, ShapeUnknown,
     ShapeHandle, ShapeRaise DEF Iterate

\* How far read() gets and what it writes into the history.
LEMMA ReadLog ==
    ASSUME Base, Shaped
    PROVE  /\ rd' \in rd..arr
           /\ \/ UNCHANGED log /\ (rd' = rd /\ header_valid => header_valid')
              \/ \E out \in Outs :
                    /\ Header /\ log' = Append(log, Entry(out))
                    /\ rd' > rd \/ (out = "raised" /\ header_valid' /\ rd' = rd)
<1>1. arr \in Nat /\ rd \in Nat /\ rd <= arr
  BY PlaceFacts DEF Base
<1>2. CASE Waits
  BY <1>1, <1>2 DEF Waits
<1>3. CASE Fails
  BY <1>1, <1>3 DEF Fails, Outs
<1>4. CASE Drops
  <2>1. rd' \in rd..arr /\ rd' > rd
    BY <1>1, <1>4 DEF Drops
  <2> QED BY <1>1, <1>4, <2>1 DEF Drops, Outs
<1>5. ASSUME NEW out \in Outs, Takes(out)
      PROVE  /\ rd' \in rd..arr /\ rd' > rd
             /\ Header /\ log' = Append(log, Entry(out))
  <2>1. Header /\ Complete /\ DataLen = Frame(Cell(1)).body /\ rd' = rd + Size
        /\ log' = Append(log, Entry(out))
    BY <1>5 DEF Takes
  <2>2. Size \in Nat /\ Size > 0
    BY <2>1, HeaderFacts
  <2>3. rd + Size <= arr
    BY <2>1, EndsInStep
  <2> QED BY <1>1, <2>1, <2>2, <2>3
<1> QED BY <1>2, <1>3, <1>4, <1>5 DEF Shaped

-----------------------------------------------------------------------------
(* Base is kept.                                                           *)

LEMMA SendBase ==
    ASSUME Base, NEW k \in Kinds, Send(k)
    PROVE  Base'
<1>1. UNCHANGED <<arr, rd, header_valid, data_len, rcv_idx, busy, state, fwd,
                  tx, log, fresh>>
  BY DEF Send
<1>2. /\ frames' \in Seq(Kinds) /\ Len(frames') = Len(frames) + 1
      /\ \A i \in 1..Len(frames) : frames'[i] = frames[i]
      /\ stream' \in Seq(Cells) /\ Len(stream') = Len(stream) + (k.body + 1)
      /\ \A p \in Places : stream'[p] = stream[p]
  BY SendGrows DEF Base
<1>3. /\ Len(stream) \in Nat /\ Len(frames) \in Nat /\ k.body \in Nat /\ arr \in Nat
      /\ rd \in Nat /\ rd <= arr /\ arr <= Len(stream)
  BY PlaceFacts, KindFacts DEF Base
<1>4. TypeOK'
  <2>1. arr' \in 0..Len(stream') /\ rd' \in 0..arr' /\ rcv_idx' \in 0..Len(frames')
    BY <1>1, <1>2, <1>3 DEF Base, TypeOK
  <2> QED BY <1>1, <1>2, <2>1 DEF Base, TypeOK, Cells
<1>5. Framed'
  BY SendFramed DEF Base
<1>6. Stored'
  <2> SUFFICES ASSUME header_valid
               PROVE  /\ rd' < arr' /\ IsStart(Cell(1))'
                      /\ data_len' = Frame(Cell(1))'.len /\ rcv_idx' = Cell(1)'.id
    BY <1>1 DEF Stored
  <2>1. /\ rd < arr /\ IsStart(Cell(1)) /\ data_len = Frame(Cell(1)).len
        /\ rcv_idx = Cell(1).id /\ Header
    BY DEF Base, Stored, Header
  <2>2. rd + 1 \in Places /\ Cell(1).id \in 1..Len(frames)
    BY <2>1, HeaderFacts
  <2>3. Cell(1)' = Cell(1) /\ Frame(Cell(1))' = Frame(Cell(1))
    BY <1>1, <1>2, <2>2 DEF Cell, Frame
  <2> QED BY <1>1, <2>1, <2>3 DEF IsStart
<1> QED BY <1>4, <1>5, <1>6 DEF Base

LEMMA ReceiveBase ==
    ASSUME Base, Receive
    PROVE  Base'
<1>1. /\ arr' \in (arr + 1)..Len(stream) /\ busy' = TRUE
      /\ fresh' \in {fresh, fresh \cup {stream[arr + 1].id}}
      /\ UNCHANGED <<frames, stream, rd, header_valid, data_len, rcv_idx, state,
                     fwd, tx, log>>
  BY DEF Receive
<1>2. /\ Len(stream) \in Nat /\ arr \in Nat /\ rd \in Nat /\ rd <= arr
      /\ arr <= Len(stream)
  BY PlaceFacts DEF Base
<1>3. arr + 1 \in Places /\ arr' \in 0..Len(stream) /\ rd \in 0..arr' /\ arr < arr'
  BY <1>1, <1>2 DEF Places
<1>4. fresh' \subseteq Nat
  <2>1. stream[arr + 1].id \in Nat
    BY <1>3, PlaceFacts DEF Base
  <2>2. fresh \subseteq Nat
    BY DEF Base, TypeOK
  <2> QED BY <1>1, <2>1, <2>2
<1>5. TypeOK'
  BY <1>1, <1>3, <1>4 DEF Base, TypeOK
<1>6. Framed'
  BY <1>1 DEF Base, Framed, Places, Body
<1>7. Stored'
  <2>1. rd < arr => rd' < arr'
    BY <1>1, <1>2, <1>3
  <2> QED BY <1>1, <2>1 DEF Base, Stored, IsStart, Cell, Frame
<1> QED BY <1>5, <1>6, <1>7 DEF Base

LEMMA ReadBase ==
    ASSUME Base, Shaped
    PROVE  Base'
<1>1. arr \in Nat /\ rd \in Nat /\ rd <= arr
  BY PlaceFacts DEF Base
<1>2. rd' \in 0..arr
  BY <1>1, ReadLog
<1>3. Header => Cell(1).id \in Nat
  BY HeaderFacts
<1>4. log' \in Seq([id : Nat, out : Outs])
  <2>1. CASE UNCHANGED log
    BY <2>1 DEF Base, TypeOK
  <2>2. ASSUME NEW out \in Outs, Header, log' = Append(log, Entry(out))
        PROVE  log' \in Seq([id : Nat, out : Outs])
    <3>1. Entry(out) \in [id : Nat, out : Outs]
      BY <1>3, <2>2 DEF Entry
    <3> QED BY <2>2, <3>1, AppendProperties DEF Base, TypeOK
  <2> QED BY <2>1, <2>2, ReadLog
<1>5. fwd' \in Seq([id : Nat]) /\ tx' \in Seq([id : Nat, rcv_idx : Nat])
  <2>1. fwd \in Seq([id : Nat]) /\ tx \in Seq([id : Nat, rcv_idx : Nat])
    BY DEF Base, TypeOK
  <2>2. CASE UNCHANGED <<fwd, tx>>
    BY <2>1, <2>2
  <2>3. ASSUME NEW out \in Outs, Takes(out), ~UNCHANGED <<fwd, tx>>
        PROVE  fwd' \in Seq([id : Nat]) /\ tx' \in Seq([id : Nat, rcv_idx : Nat])
    <3>1. /\ fwd' \in {fwd, Append(fwd, [id |-> Cell(1).id])}
          /\ tx' \in {tx, Append(tx, [id |-> Cell(1).id, rcv_idx |-> Cell(1).id])}
      BY <2>3 DEF Takes
    <3>2. /\ [id |-> Cell(1).id] \in [id : Nat]
          /\ [id |-> Cell(1).id, rcv_idx |-> Cell(1).id] \in [id : Nat, rcv_idx : Nat]
      BY <1>3, <2>3 DEF Takes
    <3>3. /\ Append(fwd, [id |-> Cell(1).id]) \in Seq([id : Nat])
          /\ Append(tx, [id |-> Cell(1).id, rcv_idx |-> Cell(1).id])
               \in Seq([id : Nat, rcv_idx : Nat])
      BY <2>1, <3>2, AppendProperties
    <3> QED BY <2>1, <3>1, <3>3
  <2> QED BY <2>2, <2>3 DEF Shaped, Waits, Fails, Drops
<1>6. TypeOK'
  BY <1>2, <1>4, <1>5 DEF Shaped, Base, TypeOK
<1>7. Framed'
  BY DEF Shaped, Base, Framed, Places, Body
<1> QED BY <1>6, <1>7 DEF Base, Shaped

-----------------------------------------------------------------------------
(* The history.                                                            *)

\* The identities of the history are those of frames.
LEMMA LoggedIds ==
    ASSUME Base, Logged
    PROVE  \A n \in 1..Len(log) : log[n].id \in 1..Len(frames)
<1> SUFFICES ASSUME NEW n \in 1..Len(log) PROVE log[n].id \in 1..Len(frames)
  OBVIOUS
<1>1. \A p \in 1..rd : p \in Places
  BY PlaceFacts DEF Base, Places
<1>2. CASE \E p \in 1..rd : stream[p].id = log[n].id
  BY <1>1, <1>2, PlaceFacts DEF Base
<1>3. CASE header_valid /\ log[n].id = Cell(1).id
  BY <1>3, HeaderFacts DEF Header
<1> QED BY <1>2, <1>3 DEF Logged

\* What has left the buffer comes before the message in front.
LEMMA FrontIsNext ==
    ASSUME Base, Header, NEW p \in 1..rd
    PROVE  p \in Places /\ stream[p].id < Cell(1).id
<1>1. Len(stream) \in Nat /\ rd \in Nat /\ arr \in Nat /\ rd <= arr /\ arr <= Len(stream)
  BY PlaceFacts DEF Base
<1>2. p \in Places /\ rd + 1 \in Places /\ Cell(1) = stream[rd + 1] /\ Cell(1).pos = 0
  BY <1>1, HeaderFacts DEF Places
<1> DEFINE q == rd + 1
<1>3. p < q /\ q \in Places /\ stream[q].pos = 0 /\ Cell(1) = stream[q]
  BY <1>1, <1>2
<1> HIDE DEF q
<1>4. \/ stream[p].id < stream[q].id
      \/ stream[p].id = stream[q].id /\ stream[p].pos < stream[q].pos
  BY <1>2, <1>3 DEF Base, Framed
<1>5. stream[p].pos \in Nat
  BY <1>2, PlaceFacts DEF Base
<1> QED BY <1>2, <1>3, <1>4, <1>5

LEMMA ReadLogged ==
    ASSUME Base, Logged, Shaped
    PROVE  Logged'
<1>1. arr \in Nat /\ rd \in Nat /\ rd' \in rd..arr /\ UNCHANGED <<frames, stream>>
  BY PlaceFacts, ReadLog DEF Base, Shaped
<1>2. log \in Seq([id : Nat, out : Outs]) /\ Len(log) \in Nat
  BY DEF Base, TypeOK
<1>3. rd' = rd => Cell(1)' = Cell(1)
  BY <1>1 DEF Cell
<1>4. rd' > rd => \E p \in 1..rd' : stream'[p].id = Cell(1).id
  <2>1. rd' > rd => rd + 1 \in 1..rd'
    BY <1>1
  <2> QED BY <1>1, <2>1 DEF Cell
<1>5. ASSUME NEW n \in 1..Len(log), log'[n] = log[n],
             rd' > rd \/ (header_valid => header_valid')
      PROVE  \/ \E p \in 1..rd' : stream'[p].id = log'[n].id
             \/ log'[n].out = "raised" /\ header_valid' /\ log'[n].id = Cell(1)'.id
  <2>1. CASE \E p \in 1..rd : stream[p].id = log[n].id
    BY <1>1, <1>5, <2>1
  <2>2. CASE log[n].out = "raised" /\ header_valid /\ log[n].id = Cell(1).id
    BY <1>1, <1>3, <1>4, <1>5, <2>2
  <2> QED BY <2>1, <2>2 DEF Logged
<1>6. CASE UNCHANGED log /\ (rd' = rd /\ header_valid => header_valid')
  <2>1. rd' > rd \/ (header_valid => header_valid')
    BY <1>1, <1>6
  <2> QED BY <1>5, <1>6, <2>1 DEF Logged
<1>7. ASSUME NEW out \in Outs, Header, log' = Append(log, Entry(out)),
             rd' > rd \/ (out = "raised" /\ header_valid' /\ rd' = rd)
      PROVE  Logged'
  <2>1. Entry(out) \in [id : Nat, out : Outs]
    BY <1>7, HeaderFacts DEF Entry
  <2>2. /\ Len(log') = Len(log) + 1 /\ log'[Len(log) + 1] = Entry(out)
        /\ \A n \in 1..Len(log) : log'[n] = log[n]
    BY <1>2, <1>7, <2>1, AppendProperties
  <2>3. \/ \E p \in 1..rd' : stream'[p].id = Entry(out).id
        \/ Entry(out).out = "raised" /\ header_valid' /\ Entry(out).id = Cell(1)'.id
    BY <1>3, <1>4, <1>7 DEF Entry
  <2>4. rd' > rd \/ (header_valid => header_valid')
    BY <1>7
  <2>5. ASSUME NEW n \in 1..Len(log')
        PROVE  \/ \E p \in 1..rd' : stream'[p].id = log'[n].id
               \/ log'[n].out = "raised" /\ header_valid' /\ log'[n].id = Cell(1)'.id
    <3>1. CASE n \in 1..Len(log)
      BY <1>5, <2>2, <2>4, <3>1
    <3>2. CASE n = Len(log) + 1
      BY <2>2, <2>3, <3>2
    <3> QED BY <1>2, <2>2, <3>1, <3>2
  <2> QED BY <2>5 DEF Logged
<1> QED BY <1>6, <1>7, ReadLog

LEMMA ArriveLogged ==
    ASSUME Base, Logged, (\E k \in Kinds : Send(k)) \/ Receive
    PROVE  Logged'
<1>1. UNCHANGED <<rd, header_valid, log>>
  BY DEF Send, Receive
<1>2. \A p \in Places : stream'[p] = stream[p]
  BY SendGrows DEF Receive, Base
<1>3. \A p \in 1..rd : p \in Places
  BY PlaceFacts DEF Base, Places
<1>4. header_valid => Cell(1)' = Cell(1)
  BY <1>1, <1>2, HeaderFacts DEF Header, Cell
<1> SUFFICES ASSUME NEW n \in 1..Len(log)
             PROVE  \/ \E p \in 1..rd : stream'[p].id = log[n].id
                    \/ log[n].out = "raised" /\ header_valid /\ log[n].id = Cell(1)'.id
  BY <1>1 DEF Logged
<1> QED BY <1>2, <1>3, <1>4 DEF Logged

\* One more entry.
LEMMA LogGrows ==
    ASSUME Base, Header, NEW out \in Outs, log' = Append(log, Entry(out))
    PROVE  /\ Len(log) \in Nat /\ Len(log') = Len(log) + 1
           /\ log'[Len(log) + 1] = Entry(out)
           /\ \A n \in 1..Len(log) : log'[n] = log[n]
           /\ 1..Len(log') = 1..Len(log) \cup {Len(log) + 1}
<1>1. log \in Seq([id : Nat, out : Outs]) /\ Len(log) \in Nat
  BY DEF Base, TypeOK
<1>2. Entry(out) \in [id : Nat, out : Outs]
  BY HeaderFacts DEF Entry
<1>3. /\ Len(log') = Len(log) + 1 /\ log'[Len(log) + 1] = Entry(out)
      /\ \A n \in 1..Len(log) : log'[n] = log[n]
  BY <1>1, <1>2, AppendProperties
<1> QED BY <1>1, <1>3

\* A handler that runs to its end has the frame of a good message before it.
LEMMA ReadIntact ==
    ASSUME Base, Shaped, OnlyIntact
    PROVE  OnlyIntact'
<1>1. UNCHANGED frames
  BY DEF Shaped
<1>2. CASE UNCHANGED log
  BY <1>1, <1>2 DEF OnlyIntact
<1>3. ASSUME NEW out \in Outs, Header, log' = Append(log, Entry(out)),
             out = "done" => Good(Frame(Cell(1)))
      PROVE  OnlyIntact'
  <2> SUFFICES ASSUME NEW n \in 1..Len(log'), log'[n].out = "done"
               PROVE  Good(frames[log'[n].id])
    BY <1>1 DEF OnlyIntact, Good
  <2>1. CASE n \in 1..Len(log)
    BY <1>3, <2>1, LogGrows DEF OnlyIntact, Good
  <2>2. CASE n = Len(log) + 1
    <3>1. log'[n] = Entry(out)
      BY <1>3, <2>2, LogGrows
    <3> QED BY <1>3, <3>1 DEF Entry, Frame
  <2> QED BY <1>3, <2>1, <2>2, LogGrows
<1>4. CASE Waits \/ Fails \/ Drops
  BY <1>2, <1>3, <1>4 DEF Waits, Fails, Drops, Outs
<1>5. ASSUME NEW out \in Outs, Takes(out) PROVE OnlyIntact'
  BY <1>3, <1>5 DEF Takes
<1> QED BY <1>4, <1>5 DEF Shaped

LEMMA ArriveIntact ==
    ASSUME Base, Logged, OnlyIntact, (\E k \in Kinds : Send(k)) \/ Receive
    PROVE  OnlyIntact'
<1>1. UNCHANGED log /\ \A i \in 1..Len(frames) : frames'[i] = frames[i]
  BY SendGrows DEF Send, Receive, Base
<1> QED BY <1>1, LoggedIds DEF OnlyIntact

\* The first conjunct of InOrderOnce.
InOrder ==
    \A n \in 1..(Len(log) - 1) :
          \/ log[n].id < log[n + 1].id
          \/ log[n].id = log[n + 1].id /\ log[n].out = "raised"

LEMMA ReadInOrder ==
    ASSUME Base, Logged, Shaped, InOrder
    PROVE  InOrder'
<1>1. CASE UNCHANGED log
  BY <1>1 DEF InOrder
<1>2. ASSUME NEW out \in Outs, Header, log' = Append(log, Entry(out))
      PROVE  InOrder'
  <2>1. /\ Len(log) \in Nat /\ Len(log') = Len(log) + 1
        /\ log'[Len(log) + 1] = Entry(out)
        /\ \A n \in 1..Len(log) : log'[n] = log[n]
    BY <1>2, LogGrows
  <2> SUFFICES ASSUME NEW n \in 1..Len(log)
               PROVE  \/ log'[n].id < log'[n + 1].id
                      \/ log'[n].id = log'[n + 1].id /\ log'[n].out = "raised"
    BY <2>1 DEF InOrder
  <2>2. CASE n = Len(log)
    <3>1. log'[n] = log[n] /\ log'[n + 1] = Entry(out) /\ Entry(out).id = Cell(1).id
      BY <2>1, <2>2 DEF Entry
    <3>2. log[n].id < Cell(1).id \/ (log[n].id = Cell(1).id /\ log[n].out = "raised")
      BY <1>2, FrontIsNext DEF Logged
    <3> QED BY <3>1, <3>2
  <2>3. CASE n # Len(log)
    <3>1. n \in 1..(Len(log) - 1) /\ n + 1 \in 1..Len(log)
      BY <2>1, <2>3
    <3> QED BY <2>1, <3>1 DEF InOrder
  <2> QED BY <2>2, <2>3
<1> QED BY <1>1, <1>2, ReadLog

\* A history to which a later frame is added.
LEMMA ListsAppend ==
    ASSUME NEW S, NEW h \in Seq(S), NEW e \in S, NEW ids, Lists(h, ids),
           \A i \in ids : i < e.id
    PROVE  Lists(Append(h, e), ids \cup {e.id})
<1> DEFINE g == Append(h, e)
<1>1. /\ Len(h) \in Nat /\ Len(g) = Len(h) + 1 /\ g[Len(h) + 1] = e
      /\ \A n \in 1..Len(h) : g[n] = h[n]
  BY AppendProperties
<1> HIDE DEF g
<1>2. {g[n].id : n \in 1..Len(g)} = ids \cup {e.id}
  <2>1. {h[n].id : n \in 1..Len(h)} = ids
    BY DEF Lists
  <2>2. 1..Len(g) = 1..Len(h) \cup {Len(h) + 1}
    BY <1>1
  <2>3. \A x : x \in {g[n].id : n \in 1..Len(g)} <=> x \in ids \cup {e.id}
    BY <1>1, <2>1, <2>2
  <2> QED BY <2>3
<1>3. \A n, m \in 1..Len(g) : n < m => g[n].id < g[m].id
  <2> SUFFICES ASSUME NEW n \in 1..Len(g), NEW m \in 1..Len(g), n < m
               PROVE  g[n].id < g[m].id
    OBVIOUS
  <2>1. n \in 1..Len(h) /\ g[n] = h[n]
    BY <1>1
  <2>2. CASE m \in 1..Len(h)
    BY <1>1, <2>1, <2>2 DEF Lists
  <2>3. CASE m = Len(h) + 1
    <3>1. h[n].id \in ids
      BY <2>1 DEF Lists
    <3> QED BY <1>1, <2>1, <2>3, <3>1
  <2> QED BY <1>1, <2>2, <2>3
<1> QED BY <1>2, <1>3 DEF Lists, g

\* The frames handled before a message in front come before it.
LEMMA DoneBefore ==
    ASSUME Base, Logged, Header, NEW controls
    PROVE  \A i \in Done(controls) : i < Cell(1).id
<1> SUFFICES ASSUME NEW n \in 1..Len(log), log[n].out = "done"
             PROVE  log[n].id < Cell(1).id
  BY DEF Done
<1> QED BY FrontIsNext DEF Logged

LEMMA DoneGrows ==
    ASSUME Base, Header, NEW out \in Outs, log' = Append(log, Entry(out)),
           UNCHANGED frames, NEW controls
    PROVE  Done(controls)' =
             IF out = "done" /\ Frame(Cell(1)).control \in controls
             THEN Done(controls) \cup {Cell(1).id} ELSE Done(controls)
<1>1. /\ Len(log) \in Nat /\ log'[Len(log) + 1] = Entry(out)
      /\ \A n \in 1..Len(log) : log'[n] = log[n]
      /\ 1..Len(log') = 1..Len(log) \cup {Len(log) + 1}
  BY LogGrows
<1> DEFINE Counts(n) == /\ log[n].out = "done"
                        /\ frames[log[n].id].control \in controls
           NewCounts(n) == /\ log'[n].out = "done"
                           /\ frames[log'[n].id].control \in controls
<1>2. \A n \in 1..Len(log) : NewCounts(n) <=> Counts(n)
  BY <1>1
<1>3. NewCounts(Len(log) + 1) <=> out = "done" /\ Frame(Cell(1)).control \in controls
  BY <1>1 DEF Entry, Frame
<1>4. log'[Len(log) + 1].id = Cell(1).id
  BY <1>1 DEF Entry
<1>5. Done(controls)' = {log'[n].id : n \in {m \in 1..Len(log') : NewCounts(m)}}
  BY DEF Done
<1>6. Done(controls) = {log[n].id : n \in {m \in 1..Len(log) : Counts(m)}}
  BY DEF Done
<1> HIDE DEF Counts, NewCounts
<1>7. CASE NewCounts(Len(log) + 1)
  <2>1. {m \in 1..Len(log') : NewCounts(m)}
          = {m \in 1..Len(log) : Counts(m)} \cup {Len(log) + 1}
    BY <1>1, <1>2, <1>7
  <2> QED BY <1>1, <1>3, <1>4, <1>5, <1>6, <1>7, <2>1
<1>8. CASE ~NewCounts(Len(log) + 1)
  <2>1. {m \in 1..Len(log') : NewCounts(m)} = {m \in 1..Len(log) : Counts(m)}
    BY <1>1, <1>2, <1>8
  <2> QED BY <1>1, <1>3, <1>5, <1>6, <1>8, <2>1
<1> QED BY <1>7, <1>8

LEMMA ReadOnce ==
    ASSUME Base, Logged, Shaped, InOrderOnce
    PROVE  InOrderOnce'
<1> DEFINE F == Controls \ {"response"}
           A == Indications
           fe == [id |-> Cell(1).id]
           te == [id |-> Cell(1).id, rcv_idx |-> Cell(1).id]
<1>1. InOrder'
  BY ReadInOrder DEF InOrderOnce, InOrder
<1>2. /\ Lists(fwd, Done(F)) /\ Lists(tx, Done(A))
      /\ \A n \in 1..Len(tx) : tx[n].rcv_idx = tx[n].id
  BY DEF InOrderOnce
<1>3. fwd \in Seq([id : Nat]) /\ tx \in Seq([id : Nat, rcv_idx : Nat]) /\ UNCHANGED frames
  BY DEF Base, TypeOK, Shaped
<1>4. ASSUME Done(F)' = Done(F), Done(A)' = Done(A), UNCHANGED <<fwd, tx>>
      PROVE  InOrderOnce'
  BY <1>1, <1>2, <1>4 DEF InOrderOnce, InOrder
<1>5. ASSUME NEW out \in Outs \ {"done"}, Header, log' = Append(log, Entry(out)),
             UNCHANGED <<fwd, tx>>
      PROVE  InOrderOnce'
  BY <1>3, <1>4, <1>5, DoneGrows
<1>6. ASSUME UNCHANGED <<fwd, tx, log>> PROVE InOrderOnce'
  BY <1>3, <1>4, <1>6 DEF Done
<1>7. CASE Waits \/ Fails \/ Drops
  BY <1>5, <1>6, <1>7 DEF Waits, Fails, Drops, Outs
<1>8. ASSUME NEW out \in Outs \ {"done"}, Takes(out) PROVE InOrderOnce'
  BY <1>5, <1>8 DEF Takes
<1>9. CASE Takes("done")
  <2>1. /\ Header /\ log' = Append(log, Entry("done")) /\ "done" \in Outs
        /\ fwd' = IF Frame(Cell(1)).control = "response" THEN fwd ELSE Append(fwd, fe)
        /\ tx' = IF Frame(Cell(1)).control \in A THEN Append(tx, te) ELSE tx
    BY <1>9 DEF Takes, Outs
  <2>2. Cell(1).id \in Nat /\ Frame(Cell(1)).control \in Controls
    BY <2>1, HeaderFacts, KindFacts
  <2>3. /\ fe \in [id : Nat] /\ fe.id = Cell(1).id
        /\ te \in [id : Nat, rcv_idx : Nat] /\ te.id = Cell(1).id
        /\ te.rcv_idx = te.id
    BY <2>2
  <2> HIDE DEF F, A, fe, te
  <2>4. Lists(fwd', Done(F)')
    <3>1. CASE Frame(Cell(1)).control = "response"
      BY <1>2, <1>3, <2>1, <3>1, DoneGrows DEF F
    <3>2. CASE Frame(Cell(1)).control # "response"
      <4>1. Done(F)' = Done(F) \cup {fe.id} /\ fwd' = Append(fwd, fe)
        BY <1>3, <2>1, <2>2, <2>3, <3>2, DoneGrows DEF F
      <4>2. \A i \in Done(F) : i < fe.id
        BY <2>1, <2>3, DoneBefore
      <4>3. fwd \in Seq([id : Nat]) /\ fe \in [id : Nat] /\ Lists(fwd, Done(F))
        BY <1>2, <1>3, <2>3
      <4>4. Lists(Append(fwd, fe), Done(F) \cup {fe.id})
        BY <4>2, <4>3, ListsAppend
      <4> QED BY <4>1, <4>4
    <3> QED BY <3>1, <3>2
  <2>5. Lists(tx', Done(A)')
    <3>1. CASE Frame(Cell(1)).control \notin A
      BY <1>2, <1>3, <2>1, <3>1, DoneGrows
    <3>2. CASE Frame(Cell(1)).control \in A
      <4>1. Done(A)' = Done(A) \cup {te.id} /\ tx' = Append(tx, te)
        BY <1>3, <2>1, <2>2, <2>3, <3>2, DoneGrows
      <4>2. \A i \in Done(A) : i < te.id
        BY <2>1, <2>3, DoneBefore
      <4>3. tx \in Seq([id : Nat, rcv_idx : Nat]) /\ te \in [id : Nat, rcv_idx : Nat] /\ Lists(tx, Done(A))
        BY <1>2, <1>3, <2>3
      <4>4. Lists(Append(tx, te), Done(A) \cup {te.id})
        BY <4>2, <4>3, ListsAppend
      <4> QED BY <4>1, <4>4
    <3> QED BY <3>1, <3>2
  <2>6. \A n \in 1..Len(tx') : tx'[n].rcv_idx = tx'[n].id
    <3>1. CASE tx' = tx
      BY <1>2, <3>1
    <3>2. CASE tx' = Append(tx, te)
      <4>1. /\ Len(tx) \in Nat /\ Len(tx') = Len(tx) + 1 /\ tx'[Len(tx) + 1] = te
            /\ \A n \in 1..Len(tx) : tx'[n] = tx[n]
        BY <1>3, <2>3, <3>2, AppendProperties
      <4>2. \A n \in 1..Len(tx') : n \in 1..Len(tx) \/ n = Len(tx) + 1
        BY <4>1
      <4> QED BY <1>2, <2>3, <4>1, <4>2
    <3> QED BY <2>1, <3>1, <3>2
  <2> QED BY <1>1, <2>4, <2>5, <2>6 DEF InOrderOnce, InOrder, F, A
<1> QED BY <1>7, <1>8, <1>9 DEF Shaped

LEMMA ArriveOnce ==
    ASSUME Base, Logged, InOrderOnce, (\E k \in Kinds : Send(k)) \/ Receive
    PROVE  InOrderOnce'
<1>1. UNCHANGED <<log, fwd, tx>> /\ \A i \in 1..Len(frames) : frames'[i] = frames[i]
  BY SendGrows DEF Send, Receive, Base
<1>2. \A controls : Done(controls)' = Done(controls)
  BY <1>1, LoggedIds DEF Done
<1> QED BY <1>1, <1>2 DEF InOrderOnce

-----------------------------------------------------------------------------
(* What is lost.                                                           *)

LEMMA PlacesOrdered ==
    ASSUME TypeOK, Framed, NEW p \in Places, NEW q \in Places
    PROVE  /\ p <= q => stream[p].id <= stream[q].id
           /\ p < q /\ stream[q].pos = 0 => stream[p].id < stream[q].id
<1>1. /\ p \in Nat /\ q \in Nat /\ stream[p].id \in Nat /\ stream[q].id \in Nat
      /\ stream[p].pos \in Nat /\ stream[q].pos \in Nat
  BY PlaceFacts DEF Places
<1>2. p < q => \/ stream[p].id < stream[q].id
               \/ stream[p].id = stream[q].id /\ stream[p].pos < stream[q].pos
  BY DEF Framed
<1>3. p = q => stream[p].id = stream[q].id
  OBVIOUS
<1> QED BY <1>1, <1>2, <1>3

\* Behind the last cell of a frame another one begins.
LEMMA NextBegins ==
    ASSUME Base, NEW p \in Places, NEW q \in Places, q = p + 1,
           stream[p].pos = Body(p)
    PROVE  stream[q].pos = 0
<1>1. p \in Nat /\ q \in Nat /\ p < q /\ \A r \in Nat : r < q <=> r <= p
  BY DEF Places
<1>2. /\ stream[q].id \in 1..Len(frames) /\ stream[q].id \in Nat /\ stream[q].pos \in Nat
      /\ stream[p].id \in Nat /\ stream[p].pos \in Nat /\ Body(p) \in Nat
  BY <1>1, PlaceFacts DEF Base
<1>3. stream[q].id > stream[p].id
  <2>1. \/ stream[p].id < stream[q].id
        \/ stream[p].id = stream[q].id /\ stream[p].pos < stream[q].pos
    BY <1>1 DEF Base, Framed
  <2>2. stream[p].id = stream[q].id => stream[q].pos <= Body(p)
    BY <1>1 DEF Base, Framed, Body
  <2> QED BY <1>2, <2>1, <2>2
<1>4. PICK s \in Places : stream[s] = [id |-> stream[q].id, pos |-> 0]
  BY <1>2 DEF Base, Framed
<1>5. s \in Nat /\ stream[s].id = stream[q].id /\ stream[s].pos = 0
  BY <1>4 DEF Places
<1>6. ~(s <= p)
  BY <1>2, <1>3, <1>5, PlacesOrdered DEF Base
<1>7. ~(q < s)
  BY <1>1, <1>2, <1>5, PlacesOrdered DEF Base
<1>8. s = q
  BY <1>1, <1>5, <1>6, <1>7
<1> QED BY <1>5, <1>8

\* Who answers for the message in front answers for all behind it: none of
\* them has met an empty buffer.
LEMMA ExcuseCarries ==
    ASSUME Base, FreshStarts, rd + 1 \in Places, Excused(Cell(1).id),
           NEW q \in Places, rd + 1 <= q
    PROVE  Excused(stream[q].id)
<1> DEFINE r == rd + 1
           c == Cell(1).id
           d == stream[q].id
<1>1. r \in Places /\ r <= q /\ c = stream[r].id
  BY DEF Cell
<1>2. /\ c \in Nat /\ d \in Nat /\ d \in 1..Len(frames) /\ c <= d
      /\ Len(frames) \in Nat
  BY <1>1, PlaceFacts, PlacesOrdered DEF Base
<1>3. PICK j \in 1..c : ~WellFramed(frames[j]) /\ fresh \cap (j + 1)..c = {}
  BY DEF Excused
<1>4. \A p \in Places : stream[p].pos = 0 /\ stream[p].id \in fresh => p <= r
  BY DEF FreshStarts
<1>5. fresh \subseteq 1..Len(frames)
  BY DEF FreshStarts
<1> HIDE DEF r, c, d
<1>6. ASSUME NEW f \in fresh, f \in (j + 1)..d PROVE FALSE
  <2>1. f \in 1..Len(frames)
    BY <1>5, <1>6
  <2>2. PICK p \in Places : stream[p] = [id |-> f, pos |-> 0]
    BY <2>1 DEF Base, Framed
  <2>3. p <= r /\ stream[p].id = f
    BY <1>4, <1>6, <2>2
  <2>4. f <= c
    BY <1>1, <2>3, PlacesOrdered DEF Base
  <2> QED BY <1>2, <1>3, <1>6, <2>4
<1>7. j \in 1..d
  BY <1>2, <1>3
<1> QED BY <1>3, <1>6, <1>7 DEF Excused, d

LEMMA ReadFresh ==
    ASSUME Base, FreshStarts, Shaped
    PROVE  FreshStarts'
<1>1. /\ rd \in Nat /\ arr \in Nat /\ rd' \in rd..arr
      /\ UNCHANGED <<frames, stream, fresh>>
  BY PlaceFacts, ReadLog DEF Base, Shaped
<1>2. rd' \in Nat /\ rd <= rd'
  BY <1>1
<1>3. \A p \in Nat : p <= rd + 1 => p <= rd' + 1
  <2>1. \A r, s, p \in Nat : r <= s /\ p <= r + 1 => p <= s + 1
    OBVIOUS
  <2> QED BY <1>1, <1>2, <2>1
<1>4. ASSUME NEW p \in Places, stream[p].pos = 0, stream[p].id \in fresh
      PROVE  p <= rd' + 1
  <2>1. p \in Nat /\ p <= rd + 1
    BY <1>4 DEF FreshStarts, Places
  <2> QED BY <1>3, <2>1
<1>5. fresh' \subseteq 1..Len(frames')
  BY <1>1 DEF FreshStarts
<1>6. \A p \in Places' : stream'[p].pos = 0 /\ stream'[p].id \in fresh' => p <= rd' + 1
  BY <1>1, <1>4 DEF Places
<1> QED BY <1>5, <1>6 DEF FreshStarts

\* The second conjunct of Blamed for one place.
Accounted(p) ==
    stream[p].pos = Body(p) /\ Good(frames[stream[p].id]) =>
        \/ \E n \in 1..Len(log) : log[n] = [id |-> stream[p].id, out |-> "done"]
        \/ Excused(stream[p].id)

LEMMA ReadBlamed ==
    ASSUME Base, FreshStarts, Blamed, Shaped
    PROVE  Blamed'
<1>1. /\ Len(stream) \in Nat /\ rd \in Nat /\ arr \in Nat /\ rd <= arr
      /\ arr <= Len(stream) /\ rd' \in rd..arr
  BY PlaceFacts, ReadLog DEF Base
<1>2. UNCHANGED <<frames, stream, fresh>> /\ Places' = Places
      /\ \A p : Body(p)' = Body(p) /\ \A c : Excused(c)' <=> Excused(c)
  BY DEF Shaped, Body, Excused, Places
<1>3. /\ rd < Len(stream) /\ Cell(1).pos # 0 => Excused(Cell(1).id)
      /\ \A p \in 1..rd : Accounted(p)
  BY DEF Blamed, Accounted
<1>4. \A n \in 1..Len(log) : n \in 1..Len(log') /\ log'[n] = log[n]
  <2>1. CASE UNCHANGED log
    BY <2>1
  <2> QED BY <2>1, ReadLog, LogGrows
<1>5. \A p : Accounted(p) => Accounted(p)'
  BY <1>2, <1>4 DEF Accounted
<1>6. SUFFICES /\ rd' < Len(stream) /\ stream[rd' + 1].pos # 0
                    => Excused(stream[rd' + 1].id)
               /\ \A p \in 1..rd' : Accounted(p)'
  BY <1>2 DEF Blamed, Accounted, Cell
<1>7. CASE rd' = rd
  BY <1>3, <1>5, <1>7 DEF Cell
<1>8. CASE Drops
  <2>1. rd + 1 \in Places /\ Cell(1) = stream[rd + 1] /\ rd < Len(stream)
    BY <1>1, <1>8 DEF Drops, Places, Cell
  <2>2. Excused(Cell(1).id)
    <3>1. CASE ~WellFramed(Frame(Cell(1)))
      <4>1. Cell(1).id \in Nat \ {0}
        BY <2>1, PlaceFacts DEF Base
      <4>2. \A i \in Nat : (i + 1)..i = {}
        OBVIOUS
      <4> QED BY <3>1, <4>1, <4>2 DEF Excused, Frame
    <3> QED BY <1>3, <1>8, <2>1, <3>1 DEF Drops
  <2>3. \A q \in Places : rd + 1 <= q => Excused(stream[q].id)
    BY <2>1, <2>2, ExcuseCarries
  <2>4. rd' < Len(stream) => rd' + 1 \in Places /\ rd + 1 <= rd' + 1
    <3>1. \A r, s, l \in Nat : r <= s /\ s < l => s + 1 \in 1..l /\ r + 1 <= s + 1
      OBVIOUS
    <3>2. rd' \in Nat /\ rd <= rd'
      BY <1>1
    <3> QED BY <1>1, <3>1, <3>2 DEF Places
  <2>5. ASSUME NEW p \in 1..rd' PROVE Accounted(p)'
    <3>1. CASE p \in 1..rd
      BY <1>3, <1>5, <3>1
    <3>2. CASE p \notin 1..rd
      <4>1. p \in Places /\ rd + 1 <= p
        BY <1>1, <3>2 DEF Places
      <4> QED BY <1>5, <2>3, <4>1 DEF Accounted
    <3> QED BY <3>1, <3>2
  <2> QED BY <2>3, <2>4, <2>5
<1>9. ASSUME NEW out \in Outs, Takes(out)
      PROVE  /\ rd' < Len(stream) /\ stream[rd' + 1].pos # 0
                  => Excused(stream[rd' + 1].id)
             /\ \A p \in 1..rd' : Accounted(p)'
  <2>1. /\ Header /\ Complete /\ DataLen = Frame(Cell(1)).body /\ rd' = rd + Size
        /\ log' = Append(log, Entry(out)) /\ (out = "done" \/ ~Good(Frame(Cell(1))))
    BY <1>9 DEF Takes
  <2>2. /\ rd' \in Places
        /\ stream[rd'] = [id |-> Cell(1).id, pos |-> Frame(Cell(1)).body]
    BY <2>1, EndsInStep
  <2>3. /\ rd + 1 \in Places /\ Cell(1) = stream[rd + 1] /\ DataLen \in Nat \ {0}
        /\ Size = DataLen + 1 /\ Cell(1).pos = 0
    BY <2>1, HeaderFacts
  <2>4. stream[rd'].pos = Body(rd')
    BY <2>2 DEF Body, Frame
  <2>5. rd' < Len(stream) => stream[rd' + 1].pos = 0
    <3>1. \A s, l \in Nat : s < l => s + 1 \in 1..l
      OBVIOUS
    <3>2. rd' \in Nat
      BY <1>1
    <3>3. rd' < Len(stream) => rd' + 1 \in Places
      BY <1>1, <3>1, <3>2 DEF Places
    <3> DEFINE p == rd'
               q == rd' + 1
    <3>4. rd' < Len(stream) => q \in Places
      BY <3>3
    <3>5. p \in Places /\ stream[p].pos = Body(p) /\ q = p + 1
      BY <2>2, <2>4
    <3> HIDE DEF p, q
    <3>6. rd' < Len(stream) => stream[q].pos = 0
      BY <3>4, <3>5, NextBegins
    <3> QED BY <3>6 DEF q
  <2>6. ASSUME NEW p \in (rd + 1)..rd', stream[p].pos = Body(p) PROVE p = rd'
    <3> DEFINE r == rd + 1
    <3>5. \A a, z, d, x \in Nat : z = d + 1 /\ x \in (a + 1)..(a + z) =>
             /\ a + 1 <= x /\ x - (a + 1) <= d /\ x - (a + 1) \in Nat
             /\ (x - (a + 1) = d => x = a + z) /\ x <= (a + 1) + (d - 0)
      OBVIOUS
    <3>6. DataLen \in Nat /\ Size \in Nat /\ p \in Nat /\ r \in Nat
      BY <1>1, <2>3
    <3>7. p \in (rd + 1)..(rd + Size)
      BY <2>1
    <3>8. /\ r <= p /\ p - r <= DataLen /\ p - r \in Nat
          /\ (p - r = DataLen => p = rd') /\ p <= r + (DataLen - 0)
      <4>1. Size = DataLen + 1 /\ rd \in Nat /\ rd' = rd + Size
        BY <1>1, <2>1, <2>3
      <4>2. /\ rd + 1 <= p /\ p - (rd + 1) <= DataLen /\ p - (rd + 1) \in Nat
            /\ (p - (rd + 1) = DataLen => p = rd + Size) /\ p <= (rd + 1) + (DataLen - 0)
        BY <3>5, <3>6, <3>7, <4>1
      <4> QED BY <4>1, <4>2
    <3>9. \A a, x, b, l \in Nat : x \in (a + 1)..b /\ b <= l => x \in 1..l
      OBVIOUS
    <3>10. rd' \in Nat /\ rd' <= Len(stream)
      BY <1>1
    <3>11. p \in Places
      BY <1>1, <2>6, <3>6, <3>9, <3>10 DEF Places
    <3>1. /\ r \in Nat /\ p \in Nat /\ r <= p /\ p \in Places /\ r \in Places
          /\ p - r <= DataLen /\ p - r \in Nat /\ (p - r = DataLen => p = rd')
          /\ p <= r + (DataLen - 0) /\ Cell(1) = stream[r]
      BY <2>3, <3>6, <3>8, <3>11
    <3> HIDE DEF r
    <3>2. Body(r) = DataLen /\ stream[r].pos = 0
      BY <2>1, <2>3, <3>1 DEF Body, Frame
    <3>3. stream[p] = [id |-> stream[r].id, pos |-> stream[r].pos + (p - r)]
      BY <3>1, <3>2 DEF Base, Framed
    <3>4. stream[p].pos = p - r /\ Body(p) = DataLen
      BY <3>1, <3>2, <3>3 DEF Body
    <3> QED BY <2>6, <3>1, <3>4
  <2>7. ASSUME NEW p \in 1..rd' PROVE Accounted(p)'
    <3>1. CASE p \in 1..rd
      BY <1>3, <1>5, <3>1
    <3>2. CASE p \notin 1..rd
      <4>1. p \in (rd + 1)..rd'
        BY <1>1, <3>2
      <4>2. CASE p # rd'
        BY <1>2, <2>6, <4>1, <4>2 DEF Accounted
      <4>3. CASE p = rd'
        <5>1. stream[p].id = Cell(1).id
          BY <2>2, <4>3
        <5>2. CASE ~Good(Frame(Cell(1)))
          BY <1>2, <5>1, <5>2 DEF Accounted, Frame
        <5>3. CASE out = "done"
          <6>1. /\ Len(log) + 1 \in 1..Len(log')
                /\ log'[Len(log) + 1] = [id |-> Cell(1).id, out |-> "done"]
            BY <2>1, <5>3, LogGrows DEF Entry
          <6> QED BY <1>2, <5>1, <6>1 DEF Accounted
        <5> QED BY <2>1, <5>2, <5>3
      <4> QED BY <4>2, <4>3
    <3> QED BY <3>1, <3>2
  <2> QED BY <2>5, <2>7
<1> QED BY <1>7, <1>8, <1>9 DEF Shaped, Waits, Fails

LEMMA SendFresh ==
    ASSUME Base, FreshStarts, NEW k \in Kinds, Send(k)
    PROVE  FreshStarts'
<1>1. /\ Len(frames') = Len(frames) + 1 /\ Len(stream') = Len(stream) + (k.body + 1)
      /\ \A p \in Places : stream'[p] = stream[p]
      /\ \A p \in (Len(stream) + 1)..Len(stream') :
            stream'[p] = [id |-> Len(frames) + 1, pos |-> p - Len(stream) - 1]
      /\ UNCHANGED <<rd, fresh>>
  BY SendGrows DEF Send, Base
<1>2. Len(stream) \in Nat /\ Len(frames) \in Nat /\ k.body \in Nat
  BY PlaceFacts, KindFacts DEF Base
<1>3. fresh \subseteq 1..Len(frames) /\ fresh' \subseteq 1..Len(frames')
  <2>1. 1..Len(frames) \subseteq 1..Len(frames')
    BY <1>1, <1>2
  <2> QED BY <1>1, <2>1 DEF FreshStarts
<1>4. ASSUME NEW p \in Places', stream'[p].pos = 0, stream'[p].id \in fresh
      PROVE  p <= rd + 1
  <2>1. p \in Places \/ p \in (Len(stream) + 1)..Len(stream')
    BY <1>1, <1>2 DEF Places
  <2>2. CASE p \in Places
    BY <1>1, <1>4, <2>2 DEF FreshStarts
  <2>3. CASE p \in (Len(stream) + 1)..Len(stream')
    <3>3. stream'[p] = [id |-> Len(frames) + 1, pos |-> p - Len(stream) - 1]
      BY <1>1, <2>3
    <3>1. stream'[p].id = Len(frames) + 1
      BY <3>3
    <3>2. Len(frames) + 1 \notin 1..Len(frames)
      BY <1>2
    <3> QED BY <1>3, <1>4, <3>1, <3>2
  <2> QED BY <2>1, <2>2, <2>3
<1> QED BY <1>1, <1>3, <1>4 DEF FreshStarts

\* The buffer was empty: the frame that arrives has its first cell next to
\* what was read last.
LEMMA ReceiveShape ==
    ASSUME Base, Receive
    PROVE  /\ UNCHANGED <<frames, stream, rd, log>> /\ rd \in Nat
           /\ \/ UNCHANGED fresh
              \/ /\ rd + 1 \in Places /\ stream[rd + 1].pos = 0
                 /\ fresh' = fresh \cup {stream[rd + 1].id}
<1>1. /\ arr' \in (arr + 1)..Len(stream) /\ UNCHANGED <<frames, stream, rd, log>>
      /\ fresh' = IF rd = arr /\ stream[arr + 1].pos = 0
                   THEN fresh \cup {stream[arr + 1].id} ELSE fresh
  BY DEF Receive
<1>2. Len(stream) \in Nat /\ arr \in Nat /\ rd \in Nat
  BY PlaceFacts DEF Base
<1>3. arr + 1 \in Places
  BY <1>1, <1>2 DEF Places
<1>4. CASE rd = arr /\ stream[arr + 1].pos = 0
  BY <1>1, <1>2, <1>3, <1>4
<1>5. CASE ~(rd = arr /\ stream[arr + 1].pos = 0)
  BY <1>1, <1>2, <1>5
<1> QED BY <1>4, <1>5

LEMMA ReceiveFresh ==
    ASSUME Base, FreshStarts, Receive
    PROVE  FreshStarts'
<1>1. UNCHANGED <<frames, stream, rd>> /\ rd \in Nat
  BY ReceiveShape
<1>2. CASE UNCHANGED fresh
  BY <1>1, <1>2 DEF FreshStarts, Places
<1>3. CASE /\ rd + 1 \in Places /\ stream[rd + 1].pos = 0
           /\ fresh' = fresh \cup {stream[rd + 1].id}
  <2> DEFINE r == rd + 1
  <2>1. r \in Places /\ r \in Nat /\ stream[r].pos = 0 /\ fresh' = fresh \cup {stream[r].id}
    BY <1>1, <1>3
  <2>2. \A p \in Places : stream[p].pos = 0 /\ stream[p].id \in fresh => p <= r
    BY DEF FreshStarts
  <2> HIDE DEF r
  <2>3. fresh' \subseteq 1..Len(frames)
    BY <2>1, PlaceFacts DEF FreshStarts, Base
  <2>4. ASSUME NEW p \in Places, stream[p].pos = 0, stream[p].id \in fresh'
        PROVE  p <= r
    <3>1. CASE stream[p].id \in fresh
      BY <2>2, <2>4, <3>1
    <3>2. CASE stream[p].id = stream[r].id
      <4>1. p \in Nat /\ stream[p].id \in Nat /\ stream[r].id \in Nat
        BY <2>1, PlaceFacts DEF Base, Places
      <4>2. ~(r < p)
        BY <2>1, <2>4, <3>2, <4>1, PlacesOrdered DEF Base
      <4> QED BY <2>1, <4>1, <4>2
    <3> QED BY <2>1, <2>4, <3>1, <3>2
  <2> QED BY <1>1, <2>3, <2>4 DEF FreshStarts, Places, r
<1> QED BY <1>2, <1>3, ReceiveShape

LEMMA SendBlamed ==
    ASSUME Base, Logged, FreshStarts, Blamed, NEW k \in Kinds, Send(k)
    PROVE  Blamed'
<1>1. /\ Len(frames') = Len(frames) + 1 /\ Len(stream') = Len(stream) + (k.body + 1)
      /\ \A i \in 1..Len(frames) : frames'[i] = frames[i]
      /\ \A p \in Places : stream'[p] = stream[p]
      /\ \A p \in (Len(stream) + 1)..Len(stream') :
            stream'[p] = [id |-> Len(frames) + 1, pos |-> p - Len(stream) - 1]
      /\ UNCHANGED <<rd, log, fresh>>
  BY SendGrows DEF Send, Base
<1>2. /\ Len(stream) \in Nat /\ Len(frames) \in Nat /\ k.body \in Nat
      /\ rd \in Nat /\ arr \in Nat /\ rd <= arr /\ arr <= Len(stream)
  BY PlaceFacts, KindFacts DEF Base
<1>3. \A c \in 1..Len(frames) : Excused(c) =>
          \E j \in 1..c : ~WellFramed(frames'[j]) /\ fresh' \cap (j + 1)..c = {}
  <2> SUFFICES ASSUME NEW c \in 1..Len(frames), NEW j \in 1..c,
                      ~WellFramed(frames[j]), fresh \cap (j + 1)..c = {}
               PROVE  ~WellFramed(frames'[j]) /\ fresh' \cap (j + 1)..c = {}
    BY DEF Excused
  <2>1. j \in 1..Len(frames)
    BY <1>2
  <2> QED BY <1>1, <2>1
<1>4. \A p \in 1..rd : p \in Places
  BY <1>2 DEF Places
<1>5. ASSUME rd < Len(stream'), stream'[rd + 1].pos # 0
      PROVE  \E j \in 1..stream'[rd + 1].id :
                /\ ~WellFramed(frames'[j])
                /\ fresh' \cap (j + 1)..(stream'[rd + 1].id) = {}
  <2> DEFINE r == rd + 1
  <2>1. CASE rd < Len(stream)
    <3>1. r \in Places
      BY <1>2, <2>1 DEF Places
    <3>6. stream'[r].pos # 0
      BY <1>5
    <3>2. stream'[r] = stream[r] /\ stream[r].pos # 0
      BY <1>1, <3>1, <3>6
    <3>3. Excused(stream[r].id)
      BY <2>1, <3>2 DEF Blamed, Cell
    <3>4. stream[r].id \in 1..Len(frames)
      BY <3>1, PlaceFacts DEF Base
    <3> HIDE DEF r
    <3>5. \E j \in 1..stream'[r].id :
             ~WellFramed(frames'[j]) /\ fresh' \cap (j + 1)..(stream'[r].id) = {}
      BY <1>3, <3>2, <3>3, <3>4
    <3> QED BY <3>5 DEF r
  <2>2. CASE rd = Len(stream)
    <3>1. r \in (Len(stream) + 1)..Len(stream') /\ r - Len(stream) - 1 = 0
      BY <1>1, <1>2, <2>2
    <3> HIDE DEF r
    <3>2. stream'[r] = [id |-> Len(frames) + 1, pos |-> r - Len(stream) - 1]
      BY <1>1, <3>1
    <3>3. stream'[r].pos = 0
      BY <3>1, <3>2
    <3> QED BY <1>5, <3>3 DEF r
  <2> QED BY <1>2, <2>1, <2>2
<1>6. ASSUME NEW p \in 1..rd, stream'[p].pos = frames'[stream'[p].id].body,
             Good(frames'[stream'[p].id])
      PROVE  \/ \E n \in 1..Len(log) : log[n] = [id |-> stream'[p].id, out |-> "done"]
             \/ \E j \in 1..stream'[p].id :
                   ~WellFramed(frames'[j]) /\ fresh' \cap (j + 1)..(stream'[p].id) = {}
  <2>1. stream'[p] = stream[p] /\ stream[p].id \in 1..Len(frames)
    BY <1>1, <1>4, PlaceFacts DEF Base
  <2>2. frames'[stream[p].id] = frames[stream[p].id]
    BY <1>1, <2>1
  <2>3. \/ \E n \in 1..Len(log) : log[n] = [id |-> stream[p].id, out |-> "done"]
        \/ Excused(stream[p].id)
    BY <1>6, <2>1, <2>2 DEF Blamed, Body
  <2> QED BY <1>3, <2>1, <2>3
<1>7. rd' = rd /\ log' = log
  BY <1>1
<1> QED BY <1>5, <1>6, <1>7 DEF Blamed, Body, Cell, Excused

LEMMA ReceiveBlamed ==
    ASSUME Base, FreshStarts, Blamed, Receive
    PROVE  Blamed'
<1>1. UNCHANGED <<frames, stream, rd, log>> /\ rd \in Nat /\ Len(stream) \in Nat
      /\ arr \in Nat /\ rd <= arr /\ arr <= Len(stream)
  BY ReceiveShape, PlaceFacts DEF Base
<1>2. CASE UNCHANGED fresh
  BY <1>1, <1>2 DEF Blamed, Body, Cell, Excused
<1>3. CASE /\ rd + 1 \in Places /\ stream[rd + 1].pos = 0
           /\ fresh' = fresh \cup {stream[rd + 1].id}
  <2> DEFINE r == rd + 1
  <2>1. r \in Places /\ stream[r].pos = 0 /\ fresh' = fresh \cup {stream[r].id}
    BY <1>3
  <2>2. \A p \in 1..rd : p \in Places /\ p < r
    BY <1>1 DEF Places
  <2> HIDE DEF r
  <2>3. ASSUME NEW p \in 1..rd, Excused(stream[p].id)
        PROVE  \E j \in 1..stream[p].id :
                  ~WellFramed(frames[j]) /\ fresh' \cap (j + 1)..(stream[p].id) = {}
    <3>1. stream[p].id < stream[r].id /\ stream[p].id \in Nat /\ stream[r].id \in Nat
      BY <2>1, <2>2, PlacesOrdered, PlaceFacts DEF Base
    <3>2. PICK j \in 1..stream[p].id :
              ~WellFramed(frames[j]) /\ fresh \cap (j + 1)..(stream[p].id) = {}
      BY <2>3 DEF Excused
    <3>3. stream[r].id \notin (j + 1)..(stream[p].id)
      BY <3>1
    <3> QED BY <2>1, <3>2, <3>3
  <2>4. stream[rd + 1].pos = 0
    BY <1>3
  <2>5. ASSUME NEW p \in 1..rd, stream[p].pos = Body(p), Good(frames[stream[p].id])
        PROVE  \/ \E n \in 1..Len(log) : log[n] = [id |-> stream[p].id, out |-> "done"]
               \/ \E j \in 1..stream[p].id :
                     ~WellFramed(frames[j]) /\ fresh' \cap (j + 1)..(stream[p].id) = {}
    BY <2>3, <2>5 DEF Blamed
  <2> QED BY <1>1, <2>4, <2>5 DEF Blamed, Body, Cell, Excused
<1> QED BY <1>2, <1>3, ReceiveShape

-----------------------------------------------------------------------------
(* The theorems.                                                           *)

ReadInv ==
    Base /\ Logged /\ OnlyIntact /\ InOrderOnce /\ FreshStarts /\ Blamed

LEMMA ReadInit == Init => ReadInv
<1> SUFFICES ASSUME Init PROVE ReadInv
  OBVIOUS
<1>1. /\ frames = <<>> /\ stream = <<>> /\ arr = 0 /\ rd = 0 /\ ~header_valid
      /\ fwd = <<>> /\ tx = <<>> /\ log = <<>> /\ fresh = {}
  BY DEF Init
<1>2. Len(frames) = 0 /\ Len(stream) = 0 /\ Len(log) = 0 /\ Len(fwd) = 0 /\ Len(tx) = 0
  BY <1>1
<1>3. 1..0 = {} /\ 1..(0 - 1) = {}
  OBVIOUS
<1>4. \A S : <<>> \in Seq(S)
  OBVIOUS
<1>5. TypeOK
  <2>1. /\ frames \in Seq(Kinds) /\ stream \in Seq([id : Nat, pos : Nat])
        /\ fwd \in Seq([id : Nat]) /\ tx \in Seq([id : Nat, rcv_idx : Nat])
        /\ log \in Seq([id : Nat, out : Outs])
    BY <1>1, <1>4
  <2>2. /\ arr \in 0..Len(stream) /\ rd \in 0..arr /\ rcv_idx \in 0..Len(frames)
        /\ data_len \in Nat /\ fresh \subseteq Nat
    BY <1>1, <1>2 DEF Init
  <2>3. /\ header_valid \in BOOLEAN /\ busy \in BOOLEAN
        /\ state \in {"init", "received", "up"}
    BY DEF Init
  <2> QED BY <2>1, <2>2, <2>3 DEF TypeOK
<1>6. Framed /\ Stored /\ Logged /\ OnlyIntact /\ FreshStarts /\ Blamed
  BY <1>1, <1>2, <1>3 DEF Framed, Stored, Logged, OnlyIntact, FreshStarts, Blamed, Places
<1>7. \A controls : Done(controls) = {}
  BY <1>2, <1>3 DEF Done
<1>8. InOrderOnce
  BY <1>2, <1>3, <1>7 DEF InOrderOnce, Lists
<1> QED BY <1>5, <1>6, <1>8 DEF ReadInv, Base

LEMMA ReadStep == ReadInv /\ [Next]_vars => ReadInv'
<1> SUFFICES ASSUME ReadInv, [Next]_vars PROVE ReadInv'
  OBVIOUS
<1>1. Base /\ Logged /\ OnlyIntact /\ InOrderOnce /\ FreshStarts /\ Blamed
  BY DEF ReadInv
<1>2. ASSUME NEW k \in Kinds, Send(k) PROVE ReadInv'
  BY <1>1, <1>2, SendBase, ArriveLogged, ArriveIntact, ArriveOnce, SendFresh,
     SendBlamed DEF ReadInv
<1>3. CASE Receive
  BY <1>1, <1>3, ReceiveBase, ArriveLogged, ArriveIntact, ArriveOnce,
     ReceiveFresh, ReceiveBlamed DEF ReadInv
<1>4. CASE Iterate \/ Raise
  BY <1>1, <1>4, ReadShape, ReadBase, ReadLogged, ReadIntact, ReadOnce,
     ReadFresh, ReadBlamed DEF ReadInv
<1>5. CASE UNCHANGED vars
  <2>1. UNCHANGED <<frames, stream, arr, rd, header_valid, data_len, rcv_idx, busy>>
        /\ UNCHANGED <<state, fwd, tx, log, fresh>>
    BY <1>5 DEF vars
  <2>2. TypeOK' /\ Framed' /\ Stored' /\ Logged'
    <3>1. TypeOK'
      BY <1>1, <2>1 DEF Base, TypeOK
    <3>2. Framed'
      BY <1>1, <2>1 DEF Base, Framed, Places, Body
    <3>3. Stored'
      BY <1>1, <2>1 DEF Base, Stored, IsStart, Cell, Frame
    <3>4. Logged'
      BY <1>1, <2>1 DEF Logged, Cell
    <3> QED BY <3>1, <3>2, <3>3, <3>4
  <2>3. OnlyIntact' /\ FreshStarts'
    BY <1>1, <2>1 DEF OnlyIntact, FreshStarts, Places
  <2>4. InOrderOnce'
    <3>1. \A controls : Done(controls)' = Done(controls)
      BY <2>1 DEF Done
    <3> QED BY <1>1, <2>1, <3>1 DEF InOrderOnce, Lists
  <2>5. Blamed'
    <3>1. rd < Len(stream) /\ Cell(1).pos # 0 => Excused(Cell(1).id)
      BY <1>1 DEF Blamed
    <3>2. (rd < Len(stream) /\ Cell(1).pos # 0 => Excused(Cell(1).id))'
      BY <2>1, <3>1 DEF Cell, Excused
    <3> QED BY <1>1, <2>1, <3>2, SMTT(30) DEF Blamed, Excused, Body
  <2> QED BY <2>2, <2>3, <2>4, <2>5 DEF ReadInv, Base
<1> QED BY <1>2, <1>3, <1>4, <1>5 DEF Next

(* The whole of the inductive invariant: how the stream is made up, what    *)
(* read() knows of the header in front, where the messages of the history   *)
(* are, and which message answers for what was dropped (SolarmanBase.read). *)
THEOREM ReadInvariant == Spec => []ReadInv
  BY ReadInit, ReadStep, PTL DEF Spec

(* The buffer, the header and the histories keep their types; the stored    *)
(* index is always that of a frame that was sent.                           *)
THEOREM ReadTypeCorrect == Spec => []TypeOK
<1>1. ReadInv => TypeOK
  BY DEF ReadInv, Base
<1> QED BY ReadInvariant, <1>1, PTL

(* However TCP cuts the stream and whatever was dropped before, a handler   *)
(* sees only intact frames of configured inverters.                         *)
THEOREM IntactCorrect == Spec => []OnlyIntact
<1>1. ReadInv => OnlyIntact
  BY DEF ReadInv
<1> QED BY ReadInvariant, <1>1, PTL

(* Messages are handled in their order; every one that was handled to its   *)
(* end is forwarded and answered once, with its own index, although a       *)
(* handler may raise and meet the message again.                            *)
THEOREM OnceCorrect == Spec => []InOrderOnce
<1>1. ReadInv => InOrderOnce
  BY DEF ReadInv
<1> QED BY ReadInvariant, <1>1, PTL

\* The last cell of a frame is where EndOf says.
LEMMA EndFacts ==
    ASSUME Base, NEW i \in 1..Len(frames)
    PROVE  /\ EndOf(i) \in Places
           /\ stream[EndOf(i)] = [id |-> i, pos |-> frames[i].body]
<1>1. PICK p \in Places : stream[p] = [id |-> i, pos |-> 0]
  BY DEF Base, Framed
<1>2. /\ p \in Nat /\ Body(p) = frames[i].body /\ Body(p) \in Nat
      /\ stream[p].pos = 0 /\ stream[p].id = i /\ Len(stream) \in Nat
  BY <1>1, PlaceFacts DEF Base, Body, Places
<1>3. p + (Body(p) - 0) <= Len(stream)
  BY <1>2 DEF Base, Framed
<1> DEFINE q == p + Body(p)
<1>4. q \in 1..Len(stream) /\ q \in Places /\ p <= q /\ q <= p + (Body(p) - 0) /\ q - p = Body(p)
  BY <1>1, <1>2, <1>3 DEF Places
<1> HIDE DEF q
<1>5. stream[q] = [id |-> i, pos |-> 0 + (q - p)]
  BY <1>2, <1>4 DEF Base, Framed
<1>6. stream[q] = [id |-> i, pos |-> frames[i].body]
  BY <1>2, <1>4, <1>5
<1> QED BY <1>4, <1>6 DEF EndOf, Places

(* A wrong checksum, an unknown inverter or an exception costs no message   *)
(* but its own: a good frame that is gone was handled, or an earlier one    *)
(* was framed wrong and no frame since then has met an empty buffer.        *)
THEOREM LossCorrect == Spec => []LossNeedsFraming
<1>1. ReadInv => LossNeedsFraming
  <2> SUFFICES ASSUME ReadInv, NEW i \in 1..Len(frames), Good(frames[i]),
                      EndOf(i) <= rd
               PROVE  \/ \E n \in 1..Len(log) : log[n] = [id |-> i, out |-> "done"]
                      \/ \E j \in 1..(i - 1) :
                            ~WellFramed(frames[j]) /\ fresh \cap (j + 1)..i = {}
    BY DEF LossNeedsFraming
  <2>1. Base /\ Blamed /\ i \in Nat
    BY DEF ReadInv
  <2>2. /\ EndOf(i) \in Places
        /\ stream[EndOf(i)] = [id |-> i, pos |-> frames[i].body]
    BY <2>1, EndFacts
  <2> DEFINE p == EndOf(i)
  <2>3. /\ p \in 1..rd /\ stream[p].id = i /\ stream[p].pos = Body(p)
        /\ Good(frames[stream[p].id])
    <3>1. rd \in Nat
      BY <2>1, PlaceFacts DEF Base
    <3> QED BY <2>2, <3>1 DEF Places, Body
  <2> HIDE DEF p
  <2>4. \/ \E n \in 1..Len(log) : log[n] = [id |-> i, out |-> "done"]
        \/ Excused(i)
    BY <2>1, <2>3 DEF Blamed
  <2>5. ASSUME NEW j \in 1..i, ~WellFramed(frames[j]) PROVE j \in 1..(i - 1)
    <3>1. j # i
      BY <2>5 DEF Good
    <3> QED BY <2>1, <3>1
  <2> QED BY <2>4, <2>5 DEF Excused
<1> QED BY ReadInvariant, <1>1, PTL
==============================================================================
