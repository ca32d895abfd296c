----------------------- MODULE WebSocketTunnelProofs ------------------------
(***************************************************************************)
(* Proofs about WebSocketTunnel: its type invariant (in which the cap of   *)
(* the inspector's buffer is the part that is not obvious), that the bytes *)
(* of each direction go through unchanged, that what the inspector reports *)
(* of them are their frames, and that it decodes compressed ones right.    *)
(***************************************************************************)
EXTENDS WebSocketTunnel, SequenceFacts

\* What a queue holds, and the units of a peer's frames.
Piece == [frame : Nat, part : Nat]
Unit(frames) == [frame : 1..Len(frames), part : Nat \ {0}]

Queues ==
  /\ world \in Worlds
  /\ unsent \in [Directions -> Seq(Piece)] /\ inbound \in [Directions -> Seq(Piece)]
  /\ chunk \in [Directions -> Seq(Piece)] /\ session \in [Directions -> Seq(Piece)]
  /\ outbound \in [Directions -> Seq(Piece)] /\ received \in [Directions -> Seq(Piece)]
  /\ closed \in [Directions -> BOOLEAN] /\ done \in [Directions -> BOOLEAN]
  /\ ended \in {"no", "ok", "error"}

\* Of a direction: what the bounds leave room for.
Fits(d) ==
  /\ Len(inbound[d]) <= SocketRoom /\ Len(outbound[d]) <= SocketRoom
  /\ Len(session[d]) <= SessionRoom /\ Len(chunk[d]) <= MaxRead

\* The copy reads units of the peer's frames, and the end behind the last.
Readable(d) ==
  /\ closed[d] => unsent[d] = <<>>
  /\ unsent[d] \in Seq(Unit(world.frames[d]))
  /\ \A i \in 1..Len(inbound[d]) :
       \/ inbound[d][i] \in Unit(world.frames[d])
       \/ inbound[d][i] = Fin /\ closed[d] /\ i = Len(inbound[d])

\* An inspector has kept units of frames only.
Watches(frames, s) ==
  /\ DOMAIN s = {"buffer", "inflater", "reports", "lost"}
  /\ s.buffer \in Seq(Unit(frames))

Watched(d) ==
  Watches(world.frames[d], inspector[d]) /\ Len(inspector[d].buffer) <= MaxBuffer

\* What is under way in a direction, from its receiver back to its sender, is
\* what its peer sends.
Line(r, o, s, c, i, u) == ((((r \o o) \o s) \o c) \o i) \o u

Preserved(d) ==
  Line(received[d], outbound[d], session[d], chunk[d], inbound[d],
       IF closed[d] THEN <<>> ELSE unsent[d]) = Sent(d)

\* The inductive invariant.
InOrder(d) == Fits(d) /\ Readable(d) /\ Watched(d) /\ Preserved(d)
TunnelInv ==
  Queues /\ DOMAIN inspector = Directions /\ \A d \in Directions : InOrder(d)

-----------------------------------------------------------------------------
(* The inspector.                                                          *)

LEMMA WireType ==
  ASSUME NEW frames \in Seq(Frame)
  PROVE  Wire(frames) \in Seq(Unit(frames))
<1> DEFINE parts == [k \in DOMAIN frames |-> Units(k, frames[k])]
<1>1. ASSUME NEW k \in 1..Len(frames)
      PROVE  Units(k, frames[k]) \in Seq(Unit(frames))
  <2>1. frames[k].size \in Nat
    <3>1. frames[k] \in Frame
      BY ElementOfSeq
    <3> QED
      BY <3>1 DEF Frame
  <2>2. \A i \in 1..frames[k].size : [frame |-> k, part |-> i] \in Unit(frames)
    BY <2>1 DEF Unit
  <2> QED
    BY <2>1, <2>2 DEF Units
<1>2. parts = [k \in 1..Len(frames) |-> Units(k, frames[k])] /\ Len(frames) \in Nat
  OBVIOUS
<1>3. parts \in Seq(Seq(Unit(frames)))
  BY <1>1, <1>2
<1> QED
  BY <1>3, FlattenType DEF Wire

\* A frame that is taken out of the buffer leaves units of frames.
LEMMA PopWatches ==
  ASSUME NEW frames \in Seq(Frame), NEW data, data.frames = frames,
         data.garble \in Frame, NEW s, Watches(frames, s), CanPop(data, s)
  PROVE  Watches(frames, PopFrame(data, s)) /\ PopFrame(data, s).lost = s.lost
<1> DEFINE unit == Head(s.buffer)
           frame == Header(data, unit)
           rest == SubSeq(s.buffer, frame.size + 1, Len(s.buffer))
           popped == [s EXCEPT !.buffer = rest]
<1>1. s.buffer \in Seq(Unit(frames)) /\ s.buffer # <<>>
  BY DEF Watches, CanPop
<1>2. unit \in Unit(frames)
  BY <1>1, HeadTailProperties
<1>3. frame \in Frame
  <2>1. frames[unit.frame] \in Frame
    BY <1>2, ElementOfSeq DEF Unit
  <2> QED
    BY <2>1 DEF Header
<1>4. frame.size \in Nat /\ Len(s.buffer) \in Nat
  BY <1>1, <1>3 DEF Frame
<1>5. rest \in Seq(Unit(frames))
  <2>1. \A i \in frame.size + 1..Len(s.buffer) : s.buffer[i] \in Unit(frames)
    BY <1>1, <1>4, ElementOfSeq
  <2> HIDE DEF frame
  <2> QED
    BY <1>4, <2>1, SubSeqProperties
<1>6. Watches(frames, popped) /\ popped.lost = s.lost
  <2> HIDE DEF rest
  <2> QED
    BY <1>5 DEF Watches
<1>7. ASSUME NEW k, NEW f
      PROVE  /\ Watches(frames, EmitFrame(data, popped, k, f))
             /\ EmitFrame(data, popped, k, f).lost = s.lost
  <2> HIDE DEF popped
  <2> QED
    BY <1>6 DEF Watches, EmitFrame, TextReport
<1> QED
  BY <1>7 DEF PopFrame

\* So does taking out all that are complete: the loop's state after n rounds
\* is given by recursion.
Drains(after, data, s, n) ==
  after = [i \in 0..n |->
             IF i = 0 THEN s
             ELSE IF CanPop(data, after[i - 1]) THEN PopFrame(data, after[i - 1])
             ELSE after[i - 1]]

LEMMA DrainingExists ==
  ASSUME NEW data, NEW s, NEW m \in Nat
  PROVE  \E after : Drains(after, data, s, m)
<1> DEFINE Round(t) == IF CanPop(data, t) THEN PopFrame(data, t) ELSE t
           Done == {n \in Nat : \E after : Drains(after, data, s, n)}
<1>1. 0 \in Done
  <2> DEFINE start == [i \in 0..0 |-> s]
  <2>1. start = [i \in 0..0 |-> IF i = 0 THEN s ELSE Round(start[i - 1])]
    <3> HIDE DEF Round
    <3> QED
      OBVIOUS
  <2>2. Drains(start, data, s, 0)
    BY <2>1 DEF Drains
  <2> QED
    BY <2>2
<1>2. ASSUME NEW n \in Nat, n \in Done
      PROVE  n + 1 \in Done
  <2>1. PICK f : Drains(f, data, s, n)
    BY <1>2
  <2> DEFINE g == [i \in 0..n + 1 |-> IF i <= n THEN f[i] ELSE Round(f[i - 1])]
  <2>2. ASSUME NEW i \in 0..n + 1
        PROVE  g[i] = IF i = 0 THEN s ELSE Round(g[i - 1])
    <3>1. i # 0 => i - 1 \in 0..n + 1 /\ i - 1 <= n
      OBVIOUS
    <3>2. i # 0 => g[i - 1] = f[i - 1]
      <4> HIDE DEF Round
      <4> QED
        BY <3>1
    <3>3. CASE i <= n
      <4>1. i \in 0..n
        BY <3>3
      <4>2. f[i] = IF i = 0 THEN s ELSE Round(f[i - 1])
        BY <4>1, <2>1 DEF Drains
      <4> HIDE DEF Round
      <4> QED
        BY <3>2, <3>3, <4>2
    <3>4. CASE ~(i <= n)
      <4> HIDE DEF Round
      <4> QED
        BY <3>2, <3>4
    <3> QED
      BY <3>3, <3>4
  <2>3. g = [i \in 0..n + 1 |-> g[i]]
    <3> HIDE DEF Round
    <3> QED
      OBVIOUS
  <2>4. Drains(g, data, s, n + 1)
    <3> HIDE DEF g
    <3> QED
      BY <2>2, <2>3 DEF Drains
  <2> HIDE DEF g, Round
  <2> QED
    BY <2>4
<1>3. Nat \subseteq Done
  <2> HIDE DEF Done
  <2> QED
    BY <1>1, <1>2, InductionOverNat
<1> QED
  BY <1>3

LEMMA DrainWatches ==
  ASSUME NEW frames \in Seq(Frame), NEW data, data.frames = frames,
         data.garble \in Frame, NEW s, Watches(frames, s)
  PROVE  Watches(frames, Drain(data, s)) /\ Drain(data, s).lost = s.lost
<1> DEFINE m == Len(s.buffer)
           after == CHOOSE f : Drains(f, data, s, m)
<1>1. m \in Nat
  BY DEF Watches
<1>2. Drains(after, data, s, m)
  <2>1. \E f : Drains(f, data, s, m)
    BY <1>1, DrainingExists
  <2> QED
    BY <2>1
<1>3. Drain(data, s) = after[m]
  BY DEF Drain, Drains
<1> HIDE DEF after, m
<1> DEFINE Good(t) == Watches(frames, t) /\ t.lost = s.lost
           Kept == {k \in Nat : k \in 0..m => Good(after[k])}
<1>4. 0 \in Kept
  BY <1>1, <1>2 DEF Drains
<1>5. ASSUME NEW k \in Nat, k \in Kept
      PROVE  k + 1 \in Kept
  <2> SUFFICES ASSUME k + 1 \in 0..m
               PROVE  Good(after[k + 1])
    OBVIOUS
  <2>1. k \in 0..m /\ (k + 1) - 1 = k /\ k + 1 # 0
    BY <1>1
  <2>2. Good(after[k])
    BY <1>5, <2>1
  <2>3. after[k + 1] = IF CanPop(data, after[k]) THEN PopFrame(data, after[k]) ELSE after[k]
    BY <1>2, <2>1 DEF Drains
  <2>4. CASE CanPop(data, after[k])
    BY <2>2, <2>3, <2>4, PopWatches
  <2>5. CASE ~CanPop(data, after[k])
    BY <2>2, <2>3, <2>5
  <2> QED
    BY <2>4, <2>5
<1>6. Nat \subseteq Kept
  <2> HIDE DEF Kept
  <2> QED
    BY <1>4, <1>5, InductionOverNat
<1> QED
  BY <1>1, <1>3, <1>6

\* ingest keeps to units of frames, and to the cap.
LEMMA IngestWatches ==
  ASSUME NEW frames \in Seq(Frame), NEW data, data.frames = frames,
         data.garble \in Frame, NEW s, Watches(frames, s),
         NEW units \in Seq(Unit(frames))
  PROVE  /\ Watches(frames, Ingest(data, s, units))
         /\ Len(Ingest(data, s, units).buffer) <= MaxBuffer
         /\ ~Ingest(data, s, units).lost => ~s.lost
<1> DEFINE fed == [s EXCEPT !.buffer = @ \o units]
           rest == Drain(data, fed)
<1>1. Watches(frames, fed) /\ fed.lost = s.lost
  BY ConcatProperties DEF Watches
<1>2. Watches(frames, rest) /\ rest.lost = s.lost
  <2> HIDE DEF fed
  <2> QED
    BY <1>1, DrainWatches
<1>3. Ingest(data, s, units) =
        IF Len(rest.buffer) > MaxBuffer
        THEN [rest EXCEPT !.buffer = <<>>, !.lost = TRUE]
        ELSE rest
  BY DEF Ingest
<1> HIDE DEF rest
<1>4. Len(rest.buffer) \in Nat /\ MaxBuffer \in Nat
  BY <1>2, MaxBufferAssumption DEF Watches
<1>5. CASE Len(rest.buffer) > MaxBuffer
  <2>1. /\ DOMAIN Ingest(data, s, units) = DOMAIN rest
        /\ Ingest(data, s, units).buffer = <<>> /\ Ingest(data, s, units).lost = TRUE
    BY <1>2, <1>3, <1>5 DEF Watches
  <2>2. <<>> \in Seq(Unit(frames)) /\ Len(<<>>) = 0
    BY EmptySeq
  <2> QED
    BY <1>2, <1>4, <2>1, <2>2 DEF Watches
<1>6. CASE ~(Len(rest.buffer) > MaxBuffer)
  BY <1>2, <1>3, <1>4, <1>6
<1> QED
  BY <1>5, <1>6

-----------------------------------------------------------------------------
(* Queues.                                                                 *)

LEMMA HeadMoves ==
  ASSUME NEW S, NEW a \in Seq(S), NEW b \in Seq(S), b # <<>>
  PROVE  /\ Append(a, Head(b)) \in Seq(S) /\ Tail(b) \in Seq(S)
         /\ Append(a, Head(b)) \o Tail(b) = a \o b
<1>1. Head(b) \in S /\ Tail(b) \in Seq(S)
  BY HeadTailProperties
<1>2. Append(a, Head(b)) = a \o <<Head(b)>> /\ <<Head(b)>> \in Seq(S)
  BY <1>1, AppendIsConcat
<1>3. <<Head(b)>> \o Tail(b) = b
  OBVIOUS
<1>4. (a \o <<Head(b)>>) \o Tail(b) = a \o (<<Head(b)>> \o Tail(b))
  BY <1>1, <1>2, ConcatAssociative
<1>5. Append(a, Head(b)) \in Seq(S)
  BY <1>1, AppendProperties
<1> QED
  BY <1>1, <1>2, <1>3, <1>4, <1>5

LEMMA Cut ==
  ASSUME NEW S, NEW a \in Seq(S), NEW n \in 0..Len(a)
  PROVE  /\ SubSeq(a, 1, n) \in Seq(S) /\ Rest(a, n) \in Seq(S)
         /\ Len(SubSeq(a, 1, n)) = n /\ Len(Rest(a, n)) = Len(a) - n
         /\ \A i \in 1..n : SubSeq(a, 1, n)[i] = a[i]
         /\ \A i \in 1..Len(a) - n : Rest(a, n)[i] = a[n + i]
         /\ SubSeq(a, 1, n) \o Rest(a, n) = a
<1>1. Len(a) \in Nat
  OBVIOUS
<1>2. SubSeq(a, 1, n) \o SubSeq(a, n + 1, Len(a)) = SubSeq(a, 1, Len(a))
  <2>1. 1 \in 1..Len(a) + 1 /\ n \in 1 - 1..Len(a) /\ Len(a) \in n..Len(a)
    BY <1>1
  <2> QED
    BY <2>1, ConcatAdjacentSubSeq
<1>3. SubSeq(a, 1, Len(a)) = a
  BY SubSeqFull
<1>4. \A i \in 1..Len(a) : a[i] \in S
  BY ElementOfSeq
<1>5. /\ SubSeq(a, 1, n) \in Seq(S) /\ Len(SubSeq(a, 1, n)) = n
      /\ \A i \in 1..n : SubSeq(a, 1, n)[i] = a[i]
  BY <1>1, <1>4
<1>6. /\ Rest(a, n) \in Seq(S) /\ Len(Rest(a, n)) = Len(a) - n
      /\ \A i \in 1..Len(a) - n : Rest(a, n)[i] = a[n + i]
  BY <1>1, <1>4 DEF Rest
<1> QED
  BY <1>2, <1>3, <1>5, <1>6 DEF Rest

Associate(p, a, b) == (p \o a) \o b = p \o (a \o b)

LEMMA JoinsAssociate ==
  ASSUME NEW S, NEW p \in Seq(S), NEW a \in Seq(S), NEW b \in Seq(S)
  PROVE  Associate(p, a, b)
BY ConcatAssociative DEF Associate

LEMMA PiecesAssociate ==
  \A p, a, b \in Seq(Piece) : Associate(p, a, b)
BY ConcatAssociative DEF Associate

\* Two neighbours in a direction that hold the same together: the others,
\* before and behind them, do not matter.
AtReceiver(r, o, s, c, i, u, x, y) ==
  r \o o = x \o y => Line(r, o, s, c, i, u) = Line(x, y, s, c, i, u)

LEMMA LineAtReceiver ==
  \A r, o, s, c, i, u, x, y \in Seq(Piece) : AtReceiver(r, o, s, c, i, u, x, y)
<1> SUFFICES ASSUME NEW r \in Seq(Piece), NEW o \in Seq(Piece), NEW s \in Seq(Piece),
                    NEW c \in Seq(Piece), NEW i \in Seq(Piece), NEW u \in Seq(Piece),
                    NEW x \in Seq(Piece), NEW y \in Seq(Piece)
             PROVE  AtReceiver(r, o, s, c, i, u, x, y)
  OBVIOUS
<1> QED
  BY DEF AtReceiver, Line

AtSocket(r, o, s, c, i, u, x, y) ==
  o \o s = x \o y => Line(r, o, s, c, i, u) = Line(r, x, y, c, i, u)

LEMMA LineAtSocket ==
  \A r, o, s, c, i, u, x, y \in Seq(Piece) : AtSocket(r, o, s, c, i, u, x, y)
<1> SUFFICES ASSUME NEW r \in Seq(Piece), NEW o \in Seq(Piece), NEW s \in Seq(Piece),
                    NEW c \in Seq(Piece), NEW i \in Seq(Piece), NEW u \in Seq(Piece),
                    NEW x \in Seq(Piece), NEW y \in Seq(Piece)
             PROVE  AtSocket(r, o, s, c, i, u, x, y)
  OBVIOUS
<1> DEFINE before == r
<1>1. before \in Seq(Piece)
  BY ConcatProperties
<1> HIDE DEF before
<1>2. Associate(before, o, s)
  BY <1>1, PiecesAssociate
<1>3. Associate(before, x, y)
  BY <1>1, PiecesAssociate
<1> QED
  BY <1>2, <1>3 DEF AtSocket, Associate, Line, before

AtSession(r, o, s, c, i, u, x, y) ==
  s \o c = x \o y => Line(r, o, s, c, i, u) = Line(r, o, x, y, i, u)

LEMMA LineAtSession ==
  \A r, o, s, c, i, u, x, y \in Seq(Piece) : AtSession(r, o, s, c, i, u, x, y)
<1> SUFFICES ASSUME NEW r \in Seq(Piece), NEW o \in Seq(Piece), NEW s \in Seq(Piece),
                    NEW c \in Seq(Piece), NEW i \in Seq(Piece), NEW u \in Seq(Piece),
                    NEW x \in Seq(Piece), NEW y \in Seq(Piece)
             PROVE  AtSession(r, o, s, c, i, u, x, y)
  OBVIOUS
<1> DEFINE before == r \o o
<1>1. before \in Seq(Piece)
  BY ConcatProperties
<1> HIDE DEF before
<1>2. Associate(before, s, c)
  BY <1>1, PiecesAssociate
<1>3. Associate(before, x, y)
  BY <1>1, PiecesAssociate
<1> QED
  BY <1>2, <1>3 DEF AtSession, Associate, Line, before

AtChunk(r, o, s, c, i, u, x, y) ==
  c \o i = x \o y => Line(r, o, s, c, i, u) = Line(r, o, s, x, y, u)

LEMMA LineAtChunk ==
  \A r, o, s, c, i, u, x, y \in Seq(Piece) : AtChunk(r, o, s, c, i, u, x, y)
<1> SUFFICES ASSUME NEW r \in Seq(Piece), NEW o \in Seq(Piece), NEW s \in Seq(Piece),
                    NEW c \in Seq(Piece), NEW i \in Seq(Piece), NEW u \in Seq(Piece),
                    NEW x \in Seq(Piece), NEW y \in Seq(Piece)
             PROVE  AtChunk(r, o, s, c, i, u, x, y)
  OBVIOUS
<1> DEFINE before == (r \o o) \o s
<1>1. before \in Seq(Piece)
  BY ConcatProperties
<1> HIDE DEF before
<1>2. Associate(before, c, i)
  BY <1>1, PiecesAssociate
<1>3. Associate(before, x, y)
  BY <1>1, PiecesAssociate
<1> QED
  BY <1>2, <1>3 DEF AtChunk, Associate, Line, before

AtSender(r, o, s, c, i, u, x, y) ==
  i \o u = x \o y => Line(r, o, s, c, i, u) = Line(r, o, s, c, x, y)

LEMMA LineAtSender ==
  \A r, o, s, c, i, u, x, y \in Seq(Piece) : AtSender(r, o, s, c, i, u, x, y)
<1> SUFFICES ASSUME NEW r \in Seq(Piece), NEW o \in Seq(Piece), NEW s \in Seq(Piece),
                    NEW c \in Seq(Piece), NEW i \in Seq(Piece), NEW u \in Seq(Piece),
                    NEW x \in Seq(Piece), NEW y \in Seq(Piece)
             PROVE  AtSender(r, o, s, c, i, u, x, y)
  OBVIOUS
<1> DEFINE before == ((r \o o) \o s) \o c
<1>1. before \in Seq(Piece)
  BY ConcatProperties
<1> HIDE DEF before
<1>2. Associate(before, i, u)
  BY <1>1, PiecesAssociate
<1>3. Associate(before, x, y)
  BY <1>1, PiecesAssociate
<1> QED
  BY <1>2, <1>3 DEF AtSender, Associate, Line, before

LEMMA LeastIsLeast ==
  ASSUME NEW m \in Nat, NEW n \in Nat
  PROVE  Least(m, n) \in Nat /\ Least(m, n) <= m /\ Least(m, n) <= n
BY DEF Least

-----------------------------------------------------------------------------
(* A step of one direction leaves the other as it was.                     *)

Same(d) ==
  /\ unsent'[d] = unsent[d] /\ inbound'[d] = inbound[d] /\ chunk'[d] = chunk[d]
  /\ session'[d] = session[d] /\ outbound'[d] = outbound[d]
  /\ received'[d] = received[d] /\ closed'[d] = closed[d]
  /\ inspector'[d] = inspector[d]

LEMMA SameInOrder ==
  ASSUME NEW d \in Directions, InOrder(d), world' = world, Same(d)
  PROVE  InOrder(d)'
<1>1. Fits(d)' /\ Readable(d)' /\ Watched(d)'
  BY DEF InOrder, Fits, Readable, Watched, Same
<1>2. Preserved(d)'
  BY DEF InOrder, Preserved, Sent, Line, Same
<1> QED
  BY <1>1, <1>2 DEF InOrder

LEMMA OneDirection ==
  ASSUME TunnelInv, NEW d \in Directions, world' = world, Queues',
         DOMAIN inspector' = Directions, InOrder(d)',
         \A e \in Directions : e # d => Same(e)
  PROVE  TunnelInv'
<1>1. ASSUME NEW e \in Directions
      PROVE  InOrder(e)'
  <2>1. CASE e = d
    BY <2>1
  <2>2. CASE e # d
    BY <2>2, SameInOrder DEF TunnelInv
  <2> QED
    BY <2>1, <2>2
<1> QED
  BY <1>1 DEF TunnelInv

LEMMA QueueTypes ==
  ASSUME Queues, NEW d \in Directions
  PROVE  /\ unsent[d] \in Seq(Piece) /\ inbound[d] \in Seq(Piece)
         /\ chunk[d] \in Seq(Piece) /\ session[d] \in Seq(Piece)
         /\ outbound[d] \in Seq(Piece) /\ received[d] \in Seq(Piece)
         /\ received[d] \o outbound[d] \in Seq(Piece)
         /\ (received[d] \o outbound[d]) \o session[d] \in Seq(Piece)
         /\ ((received[d] \o outbound[d]) \o session[d]) \o chunk[d] \in Seq(Piece)
<1>1. /\ unsent[d] \in Seq(Piece) /\ inbound[d] \in Seq(Piece)
      /\ chunk[d] \in Seq(Piece) /\ session[d] \in Seq(Piece)
      /\ outbound[d] \in Seq(Piece) /\ received[d] \in Seq(Piece)
  BY DEF Queues
<1>2. received[d] \o outbound[d] \in Seq(Piece)
  BY <1>1, ConcatProperties
<1>3. (received[d] \o outbound[d]) \o session[d] \in Seq(Piece)
  BY <1>1, <1>2, ConcatProperties
<1>4. ((received[d] \o outbound[d]) \o session[d]) \o chunk[d] \in Seq(Piece)
  BY <1>1, <1>3, ConcatProperties
<1> QED
  BY <1>1, <1>2, <1>3, <1>4

LEMMA UnitsArePieces ==
  /\ Fin \in Piece
  /\ \A d \in Directions, w \in Worlds :
       /\ w.frames[d] \in Seq(Frame) /\ w.garble \in Frame
       /\ Unit(w.frames[d]) \subseteq Piece /\ Fin \notin Unit(w.frames[d])
BY WorldsAssumption DEF Fin, Piece, Unit

-----------------------------------------------------------------------------
(* The steps of the peers.                                                 *)

LEMMA SendStep ==
  ASSUME TunnelInv, NEW d \in Directions, Send(d)
  PROVE  TunnelInv'
<1>1. /\ InOrder(d) /\ Queues /\ ~closed[d]
      /\ unsent[d] # <<>> /\ unsent[d] \in Seq(Unit(world.frames[d]))
  BY DEF TunnelInv, InOrder, Readable, Send
<1>2. Head(unsent[d]) \in Unit(world.frames[d]) /\ Tail(unsent[d]) \in Seq(Unit(world.frames[d]))
  BY <1>1, HeadTailProperties
<1>3. /\ inbound[d] \in Seq(Piece) /\ unsent[d] \in Seq(Piece)
      /\ Append(inbound[d], Head(unsent[d])) \in Seq(Piece) /\ Tail(unsent[d]) \in Seq(Piece)
      /\ Append(inbound[d], Head(unsent[d])) \o Tail(unsent[d]) = inbound[d] \o unsent[d]
  BY <1>1, QueueTypes, HeadMoves
<1>4. /\ inbound'[d] = Append(inbound[d], Head(unsent[d])) /\ unsent'[d] = Tail(unsent[d])
      /\ world' = world /\ closed'[d] = closed[d] /\ inspector' = inspector
      /\ received' = received /\ outbound' = outbound /\ session' = session /\ chunk' = chunk
  BY <1>1 DEF Send, Queues
<1>5. Queues'
  BY <1>1, <1>3 DEF Queues, Send
<1>6. \A e \in Directions : e # d => Same(e)
  BY <1>1 DEF Same, Send, Queues
<1>7. Fits(d)'
  <2>1. Len(inbound[d]) \in Nat /\ Len(inbound'[d]) = Len(inbound[d]) + 1
    BY <1>3, <1>4
  <2>2. Len(inbound[d]) < SocketRoom
    BY DEF Send
  <2> QED
    BY <1>1, <1>4, <2>1, <2>2, RoomAssumption DEF Fits, InOrder
<1>8. Readable(d)'
  <2>1. ASSUME NEW i \in 1..Len(inbound'[d])
        PROVE  inbound'[d][i] \in Unit(world.frames[d])
    <3>1. CASE i = Len(inbound[d]) + 1
      BY <1>2, <1>3, <1>4, <3>1
    <3>2. CASE i \in 1..Len(inbound[d])
      <4>1. inbound[d][i] \in Unit(world.frames[d])
        BY <1>1, <3>2 DEF InOrder, Readable
      <4> QED
        BY <1>3, <1>4, <3>2, <4>1
    <3> QED
      BY <1>3, <1>4, <3>1, <3>2
  <2> QED
    BY <1>1, <1>2, <1>4, <2>1 DEF Readable
<1>9. Watched(d)'
  BY <1>1, <1>4 DEF InOrder, Watched
<1>10. Preserved(d)'
  <2>1. Line(received[d], outbound[d], session[d], chunk[d], inbound'[d], unsent'[d])
          = Line(received[d], outbound[d], session[d], chunk[d], inbound[d], unsent[d])
    <3>1. AtSender(received[d], outbound[d], session[d], chunk[d], inbound[d], unsent[d],
                   Append(inbound[d], Head(unsent[d])), Tail(unsent[d]))
      BY <1>1, <1>3, QueueTypes, LineAtSender
    <3> QED
      BY <1>3, <1>4, <3>1 DEF AtSender
  <2> QED
    BY <1>1, <1>4, <2>1 DEF InOrder, Preserved, Sent
<1> QED
  <2>1. InOrder(d)'
    BY <1>7, <1>8, <1>9, <1>10 DEF InOrder
  <2> QED
    BY <1>4, <1>5, <1>6, <2>1, OneDirection DEF TunnelInv

LEMMA CloseStep ==
  ASSUME TunnelInv, NEW d \in Directions, Close(d)
  PROVE  TunnelInv'
<1>1. InOrder(d) /\ Queues /\ ~closed[d] /\ unsent[d] = <<>>
  BY DEF TunnelInv, Close
<1>2. inbound[d] \in Seq(Piece) /\ Append(inbound[d], Fin) \in Seq(Piece)
  BY <1>1, QueueTypes, UnitsArePieces, AppendProperties
<1>3. /\ inbound'[d] = Append(inbound[d], Fin) /\ closed'[d] = TRUE
      /\ world' = world /\ unsent' = unsent /\ inspector' = inspector
      /\ received' = received /\ outbound' = outbound /\ session' = session /\ chunk' = chunk
  BY <1>1 DEF Close, Queues
<1>4. Queues'
  BY <1>1, <1>2 DEF Queues, Close
<1>5. \A e \in Directions : e # d => Same(e)
  BY <1>1 DEF Same, Close, Queues
<1>6. Fits(d)'
  <2>1. Len(inbound[d]) \in Nat /\ Len(inbound'[d]) = Len(inbound[d]) + 1
    BY <1>2, <1>3
  <2>2. Len(inbound[d]) < SocketRoom
    BY DEF Close
  <2> QED
    BY <1>1, <1>3, <2>1, <2>2, RoomAssumption DEF Fits, InOrder
<1>7. Readable(d)'
  <2>1. ASSUME NEW i \in 1..Len(inbound'[d])
        PROVE  \/ inbound'[d][i] \in Unit(world.frames[d])
               \/ inbound'[d][i] = Fin /\ i = Len(inbound'[d])
    <3>1. CASE i = Len(inbound[d]) + 1
      BY <1>2, <1>3, <3>1
    <3>2. CASE i \in 1..Len(inbound[d])
      <4>1. inbound[d][i] \in Unit(world.frames[d])
        BY <1>1, <3>2 DEF InOrder, Readable
      <4> QED
        BY <1>2, <1>3, <3>2, <4>1
    <3> QED
      BY <1>2, <1>3, <3>1, <3>2
  <2> QED
    BY <1>1, <1>3, <2>1 DEF Readable, InOrder
<1>8. Watched(d)'
  BY <1>1, <1>3 DEF InOrder, Watched
<1>9. Preserved(d)'
  <2> DEFINE before == ((received[d] \o outbound[d]) \o session[d]) \o chunk[d]
             wire == Wire(world.frames[d])
  <2>1. before \in Seq(Piece)
    BY <1>1, QueueTypes
  <2>2. wire \in Seq(Piece)
    <3>1. world \in Worlds
      BY <1>1 DEF Queues
    <3>2. wire \in Seq(Unit(world.frames[d]))
      BY <3>1, UnitsArePieces, WireType
    <3> QED
      BY <3>1, <3>2, UnitsArePieces, SeqMonotonic
  <2>3. (before \o inbound[d]) \o <<>> = wire \o <<>>
    BY <1>1 DEF InOrder, Preserved, Line, Sent
  <2> HIDE DEF before, wire
  <2>4. before \o inbound[d] = wire
    <3>1. before \o inbound[d] \in Seq(Piece)
      BY <1>2, <2>1, ConcatProperties
    <3>2. (before \o inbound[d]) \o <<>> = before \o inbound[d] /\ wire \o <<>> = wire
      BY <2>2, <3>1, ConcatEmptySeq
    <3> QED
      BY <2>3, <3>2
  <2>5. before \o Append(inbound[d], Fin) = wire \o <<Fin>>
    <3>1. Append(inbound[d], Fin) = inbound[d] \o <<Fin>>
      BY <1>2, UnitsArePieces, AppendIsConcat
    <3>2. inbound[d] \in Seq(Piece) /\ <<Fin>> \in Seq(Piece)
      BY <1>2, UnitsArePieces
    <3>3. Associate(before, inbound[d], <<Fin>>)
      BY <2>1, <3>2, PiecesAssociate
    <3> QED
      BY <2>4, <3>1, <3>3 DEF Associate
  <2>6. (before \o Append(inbound[d], Fin)) \o <<>> = wire \o <<Fin>>
    <3>1. before \o Append(inbound[d], Fin) \in Seq(Piece)
      BY <1>2, <2>1, ConcatProperties
    <3> QED
      BY <2>5, <3>1, ConcatEmptySeq
  <2> QED
    BY <1>3, <2>6 DEF Preserved, Line, Sent, before, wire
<1> QED
  <2>1. InOrder(d)'
    BY <1>6, <1>7, <1>8, <1>9 DEF InOrder
  <2> QED
    BY <1>3, <1>4, <1>5, <2>1, OneDirection DEF TunnelInv

LEMMA ReceiveStep ==
  ASSUME TunnelInv, NEW d \in Directions, Receive(d)
  PROVE  TunnelInv'
<1>1. InOrder(d) /\ Queues /\ outbound[d] # <<>>
  BY DEF TunnelInv, Receive
<1>2. /\ received[d] \in Seq(Piece) /\ outbound[d] \in Seq(Piece)
      /\ Append(received[d], Head(outbound[d])) \in Seq(Piece) /\ Tail(outbound[d]) \in Seq(Piece)
      /\ Append(received[d], Head(outbound[d])) \o Tail(outbound[d]) = received[d] \o outbound[d]
  BY <1>1, QueueTypes, HeadMoves
<1>3. /\ received'[d] = Append(received[d], Head(outbound[d])) /\ outbound'[d] = Tail(outbound[d])
      /\ world' = world /\ closed' = closed /\ inspector' = inspector /\ unsent' = unsent
      /\ inbound' = inbound /\ session' = session /\ chunk' = chunk
  BY <1>1 DEF Receive, Queues
<1>4. Queues'
  BY <1>1, <1>2 DEF Queues, Receive
<1>5. \A e \in Directions : e # d => Same(e)
  BY <1>1 DEF Same, Receive, Queues
<1>6. Fits(d)'
  <2>1. Len(outbound'[d]) = Len(outbound[d]) - 1 /\ Len(outbound[d]) \in Nat
    BY <1>1, <1>2, <1>3, HeadTailProperties
  <2> QED
    BY <1>1, <1>3, <2>1, RoomAssumption DEF Fits, InOrder
<1>7. Readable(d)' /\ Watched(d)'
  BY <1>1, <1>3 DEF InOrder, Readable, Watched
<1>8. Preserved(d)'
  <2> DEFINE u == IF closed[d] THEN <<>> ELSE unsent[d]
  <2>1. u \in Seq(Piece)
    BY <1>1, QueueTypes, EmptySeq
  <2> HIDE DEF u
  <2>2. AtReceiver(received[d], outbound[d], session[d], chunk[d], inbound[d], u,
                   Append(received[d], Head(outbound[d])), Tail(outbound[d]))
    BY <1>1, <1>2, <2>1, QueueTypes, LineAtReceiver
  <2> QED
    BY <1>1, <1>2, <1>3, <2>2 DEF AtReceiver, InOrder, Preserved, Sent, u
<1> QED
  <2>1. InOrder(d)'
    BY <1>6, <1>7, <1>8 DEF InOrder
  <2> QED
    BY <1>3, <1>4, <1>5, <2>1, OneDirection DEF TunnelInv

-----------------------------------------------------------------------------
(* The steps of the copy.                                                  *)

LEMMA ReadStep ==
  ASSUME TunnelInv, NEW d \in Directions, Read(d)
  PROVE  TunnelInv'
<1>1. InOrder(d) /\ Queues /\ chunk[d] = <<>> /\ world \in Worlds
  BY DEF TunnelInv, Read, Free, Queues
<1> DEFINE queue == inbound[d]
<1>2. queue \in Seq(Piece) /\ Len(queue) \in Nat
  BY <1>1, QueueTypes
<1>3. PICK n \in 1..Least(MaxRead, Len(queue)) :
        /\ Last(SubSeq(queue, 1, n)) # Fin
        /\ Inspect(d, SubSeq(queue, 1, n))
        /\ chunk' = [chunk EXCEPT ![d] = SubSeq(queue, 1, n)]
        /\ inbound' = [inbound EXCEPT ![d] = Rest(queue, n)]
  BY DEF Read
<1>4. n \in 1..Len(queue) /\ n <= MaxRead /\ n \in 0..Len(queue) /\ n \in Nat
  BY <1>2, RoomAssumption DEF Least
<1>5. /\ SubSeq(queue, 1, n) \in Seq(Piece) /\ Rest(queue, n) \in Seq(Piece)
      /\ Len(SubSeq(queue, 1, n)) = n /\ Len(Rest(queue, n)) = Len(queue) - n
      /\ \A j \in 1..n : SubSeq(queue, 1, n)[j] = queue[j]
      /\ \A j \in 1..Len(queue) - n : Rest(queue, n)[j] = queue[n + j]
      /\ SubSeq(queue, 1, n) \o Rest(queue, n) = queue
  BY <1>2, <1>4, Cut
<1>6. /\ chunk'[d] = SubSeq(queue, 1, n) /\ inbound'[d] = Rest(queue, n)
      /\ world' = world /\ closed' = closed /\ unsent' = unsent /\ session' = session
      /\ outbound' = outbound /\ received' = received
  BY <1>1, <1>3 DEF Read, Queues
<1>7. Queues'
  BY <1>1, <1>3, <1>5 DEF Queues, Read
<1>8. Fits(d)'
  BY <1>1, <1>2, <1>4, <1>5, <1>6, RoomAssumption DEF Fits, InOrder
<1>9. \A j \in 1..Len(queue) :
        queue[j] \in Unit(world.frames[d]) \/ (queue[j] = Fin /\ closed[d] /\ j = Len(queue))
  <2>1. Readable(d)
    BY <1>1 DEF InOrder
  <2> QED
    BY <2>1, Zenon DEF Readable
<1>10. Readable(d)'
  <2>1. ASSUME NEW j \in 1..Len(Rest(queue, n))
        PROVE  \/ Rest(queue, n)[j] \in Unit(world.frames[d])
               \/ Rest(queue, n)[j] = Fin /\ closed[d] /\ j = Len(Rest(queue, n))
    <3>1. n + j \in 1..Len(queue) /\ Rest(queue, n)[j] = queue[n + j]
      <4>1. j \in 1..Len(queue) - n
        BY <1>5
      <4>2. n + j \in 1..Len(queue)
        BY <1>2, <1>4, <4>1
      <4> QED
        BY <1>5, <4>1, <4>2
    <3>2. n + j = Len(queue) => j = Len(Rest(queue, n))
      BY <1>2, <1>4, <1>5
    <3> QED
      BY <1>9, <3>1, <3>2
  <2> QED
    BY <1>1, <1>6, <2>1 DEF InOrder, Readable
<1>11. SubSeq(queue, 1, n) \in Seq(Unit(world.frames[d]))
  <2>1. SubSeq(queue, 1, n)[n] # Fin
    BY <1>3, <1>5 DEF Last
  <2>2. \A j \in 1..n : SubSeq(queue, 1, n)[j] \in Unit(world.frames[d])
    <3> TAKE j \in 1..n
    <3>1. j \in 1..Len(queue) /\ (j = Len(queue) => j = n)
      BY <1>2, <1>4
    <3> QED
      BY <1>5, <1>9, <2>1, <3>1
  <2> QED
    BY <1>4, <1>5, <2>2
<1>12. DOMAIN inspector = Directions /\ Watched(d)
  BY <1>1 DEF TunnelInv, InOrder
<1>13. Watched(d)' /\ DOMAIN inspector' = Directions
       /\ \A e \in Directions : e # d => inspector'[e] = inspector[e]
  <2>1. CASE world.capture
    <3> DEFINE new == Ingest(Data(d), inspector[d], SubSeq(queue, 1, n))
    <3>1. inspector' = [inspector EXCEPT ![d] = new]
      BY <1>3, <2>1 DEF Inspect
    <3>2. Data(d).frames = world.frames[d] /\ Data(d).garble = world.garble
      BY DEF Data
    <3>3. Watches(world.frames[d], new) /\ Len(new.buffer) <= MaxBuffer
      BY <1>1, <1>11, <1>12, <3>2, IngestWatches, UnitsArePieces DEF Watched
    <3> HIDE DEF new
    <3> QED
      BY <1>6, <1>12, <3>1, <3>3 DEF Watched
  <2>2. CASE ~world.capture
    BY <1>3, <1>6, <1>12, <2>2 DEF Inspect, Watched
  <2> QED
    BY <2>1, <2>2
<1>14. \A e \in Directions : e # d => Same(e)
  BY <1>1, <1>3, <1>6, <1>13 DEF Same, Queues
<1>15. Preserved(d)'
  <2> DEFINE u == IF closed[d] THEN <<>> ELSE unsent[d]
  <2>1. u \in Seq(Piece)
    BY <1>1, QueueTypes, EmptySeq
  <2> HIDE DEF u
  <2>2. AtChunk(received[d], outbound[d], session[d], chunk[d], queue, u,
                SubSeq(queue, 1, n), Rest(queue, n))
    BY <1>1, <1>5, <2>1, QueueTypes, LineAtChunk
  <2>3. chunk[d] \o queue = queue
    BY <1>1, <1>2, ConcatEmptySeq
  <2> QED
    BY <1>1, <1>5, <1>6, <2>2, <2>3 DEF AtChunk, InOrder, Preserved, Sent, u
<1> QED
  <2>1. InOrder(d)'
    BY <1>8, <1>10, <1>13, <1>15 DEF InOrder
  <2> QED
    BY <1>6, <1>7, <1>13, <1>14, <2>1, OneDirection

LEMMA ReadEndStep ==
  ASSUME TunnelInv, NEW d \in Directions, ReadEnd(d)
  PROVE  TunnelInv'
<1>1. InOrder(d) /\ Queues /\ chunk[d] = <<>> /\ inbound[d] # <<>> /\ Head(inbound[d]) = Fin
  BY DEF TunnelInv, ReadEnd, Free
<1>2. /\ inbound[d] \in Seq(Piece) /\ Tail(inbound[d]) \in Seq(Piece) /\ <<Fin>> \in Seq(Piece)
      /\ Len(inbound[d]) \in Nat /\ Len(Tail(inbound[d])) = Len(inbound[d]) - 1
      /\ \A j \in 1..Len(Tail(inbound[d])) : Tail(inbound[d])[j] = inbound[d][j + 1]
  BY <1>1, QueueTypes, UnitsArePieces, HeadTailProperties
<1>3. /\ chunk'[d] = <<Fin>> /\ inbound'[d] = Tail(inbound[d])
      /\ world' = world /\ closed' = closed /\ unsent' = unsent /\ session' = session
      /\ outbound' = outbound /\ received' = received /\ inspector' = inspector
  BY <1>1 DEF ReadEnd, Queues
<1>4. Queues'
  BY <1>1, <1>2 DEF Queues, ReadEnd
<1>5. \A e \in Directions : e # d => Same(e)
  BY <1>1 DEF Same, ReadEnd, Queues
<1>6. Fits(d)'
  BY <1>1, <1>2, <1>3, RoomAssumption DEF Fits, InOrder
<1>7. Readable(d)'
  <2>1. ASSUME NEW j \in 1..Len(Tail(inbound[d]))
        PROVE  \/ Tail(inbound[d])[j] \in Unit(world.frames[d])
               \/ Tail(inbound[d])[j] = Fin /\ closed[d] /\ j = Len(Tail(inbound[d]))
    <3>1. /\ j + 1 \in 1..Len(inbound[d]) /\ Tail(inbound[d])[j] = inbound[d][j + 1]
          /\ j + 1 = Len(inbound[d]) => j = Len(Tail(inbound[d]))
      BY <1>2
    <3> QED
      BY <1>1, <3>1 DEF InOrder, Readable
  <2> QED
    BY <1>1, <1>3, <2>1 DEF InOrder, Readable
<1>8. Watched(d)'
  BY <1>1, <1>3 DEF InOrder, Watched
<1>9. Preserved(d)'
  <2> DEFINE u == IF closed[d] THEN <<>> ELSE unsent[d]
  <2>1. u \in Seq(Piece)
    BY <1>1, QueueTypes, EmptySeq
  <2> HIDE DEF u
  <2>2. AtChunk(received[d], outbound[d], session[d], chunk[d], inbound[d], u,
                <<Fin>>, Tail(inbound[d]))
    BY <1>1, <1>2, <2>1, QueueTypes, LineAtChunk
  <2>3. chunk[d] \o inbound[d] = <<Fin>> \o Tail(inbound[d])
    <3>1. chunk[d] \o inbound[d] = inbound[d]
      BY <1>1, <1>2, ConcatEmptySeq
    <3>2. <<Head(inbound[d])>> \o Tail(inbound[d]) = inbound[d]
      BY <1>1, <1>2
    <3> QED
      BY <1>1, <3>1, <3>2
  <2> QED
    BY <1>1, <1>3, <2>2, <2>3 DEF AtChunk, InOrder, Preserved, Sent, u
<1> QED
  <2>1. InOrder(d)'
    BY <1>6, <1>7, <1>8, <1>9 DEF InOrder
  <2> QED
    BY <1>3, <1>4, <1>5, <2>1, OneDirection DEF TunnelInv

\* A session takes units in behind what it has, and sends from the front.
LEMMA Ships ==
  ASSUME Queues, NEW d \in Directions, Len(outbound[d]) <= SocketRoom,
         NEW units \in Seq(Piece), Len(units) <= SessionRoom \/ units = session[d],
         Ship(d, units)
  PROVE  /\ outbound'[d] \in Seq(Piece) /\ session'[d] \in Seq(Piece)
         /\ outbound' \in [Directions -> Seq(Piece)] /\ session' \in [Directions -> Seq(Piece)]
         /\ \A e \in Directions :
              e # d => outbound'[e] = outbound[e] /\ session'[e] = session[e]
         /\ Len(outbound'[d]) <= SocketRoom /\ Len(session'[d]) <= Len(units)
         /\ outbound'[d] \o session'[d] = outbound[d] \o units
<1> DEFINE o == outbound[d]
           m == Least(Len(units), SocketRoom - Len(o))
<1>1. /\ o \in Seq(Piece) /\ Len(o) \in Nat /\ Len(units) \in Nat
      /\ outbound \in [Directions -> Seq(Piece)] /\ session \in [Directions -> Seq(Piece)]
  BY DEF Queues
<1>2. m \in 0..Len(units) /\ Len(o) + m <= SocketRoom
  BY <1>1, RoomAssumption DEF Least
<1>3. /\ outbound' = [outbound EXCEPT ![d] = o \o SubSeq(units, 1, m)]
      /\ session' = [session EXCEPT ![d] = Rest(units, m)]
  BY <1>1 DEF Ship
<1> HIDE DEF m, o
<1>4. /\ SubSeq(units, 1, m) \in Seq(Piece) /\ Rest(units, m) \in Seq(Piece)
      /\ Len(SubSeq(units, 1, m)) = m /\ Len(Rest(units, m)) = Len(units) - m
      /\ SubSeq(units, 1, m) \o Rest(units, m) = units
  BY <1>2, Cut
<1>5. /\ o \o SubSeq(units, 1, m) \in Seq(Piece)
      /\ Len(o \o SubSeq(units, 1, m)) = Len(o) + m
  BY <1>1, <1>4, ConcatProperties
<1>6. Associate(o, SubSeq(units, 1, m), Rest(units, m))
  BY <1>1, <1>4, PiecesAssociate
<1>7. outbound'[d] = o \o SubSeq(units, 1, m) /\ session'[d] = Rest(units, m)
  BY <1>1, <1>3
<1>8. Len(session'[d]) <= Len(units) /\ Len(outbound'[d]) <= SocketRoom
  BY <1>1, <1>2, <1>4, <1>5, <1>7
<1>9. outbound' \in [Directions -> Seq(Piece)] /\ session' \in [Directions -> Seq(Piece)]
  BY <1>1, <1>3, <1>4, <1>5
<1>10. outbound'[d] \o session'[d] = outbound[d] \o units
  BY <1>4, <1>6, <1>7 DEF Associate, o
<1> QED
  BY <1>1, <1>3, <1>4, <1>5, <1>7, <1>8, <1>9, <1>10

LEMMA WriteStep ==
  ASSUME TunnelInv, NEW d \in Directions, Write(d)
  PROVE  TunnelInv'
<1>1. InOrder(d) /\ Queues /\ Fits(d)
  BY DEF TunnelInv, InOrder
<1> DEFINE s == session[d]
           c == chunk[d]
           n == Least(Len(c), SessionRoom - Len(s))
           units == s \o SubSeq(c, 1, n)
<1>2. /\ s \in Seq(Piece) /\ c \in Seq(Piece) /\ Len(s) \in Nat /\ Len(c) \in Nat
      /\ Len(s) <= SessionRoom /\ Len(c) <= MaxRead
  BY <1>1, QueueTypes DEF Fits
<1>3. n \in 0..Len(c) /\ Len(s) + n <= SessionRoom
  <2>1. SessionRoom - Len(s) \in Nat
    BY <1>2, RoomAssumption
  <2>2. n \in Nat /\ n <= Len(c) /\ n <= SessionRoom - Len(s)
    BY <1>2, <2>1, LeastIsLeast
  <2> HIDE DEF n
  <2> QED
    BY <1>2, <2>2, RoomAssumption
<1>4. Ship(d, units) /\ chunk' = [chunk EXCEPT ![d] = Rest(c, n)]
  BY <1>1 DEF Write, Queues
<1> HIDE DEF n
<1>5. /\ SubSeq(c, 1, n) \in Seq(Piece) /\ Rest(c, n) \in Seq(Piece)
      /\ Len(SubSeq(c, 1, n)) = n /\ Len(Rest(c, n)) = Len(c) - n
      /\ SubSeq(c, 1, n) \o Rest(c, n) = c
  <2> HIDE DEF c, s, units
  <2> QED
    BY <1>2, <1>3, Cut
<1>6. units \in Seq(Piece) /\ Len(units) = Len(s) + n
  BY <1>2, <1>5, ConcatProperties
<1>7. units \o Rest(c, n) = s \o c
  <2>1. Associate(s, SubSeq(c, 1, n), Rest(c, n))
    BY <1>2, <1>5, PiecesAssociate
  <2> QED
    BY <1>5, <2>1 DEF Associate
<1> HIDE DEF units
<1>8. /\ outbound'[d] \in Seq(Piece) /\ session'[d] \in Seq(Piece)
      /\ outbound' \in [Directions -> Seq(Piece)] /\ session' \in [Directions -> Seq(Piece)]
      /\ \A e \in Directions :
           e # d => outbound'[e] = outbound[e] /\ session'[e] = session[e]
      /\ Len(outbound'[d]) <= SocketRoom /\ Len(session'[d]) <= Len(units)
      /\ outbound'[d] \o session'[d] = outbound[d] \o units
  BY <1>1, <1>3, <1>4, <1>6, Ships DEF Fits
<1>9. /\ world' = world /\ closed' = closed /\ unsent' = unsent /\ inbound' = inbound
      /\ received' = received /\ inspector' = inspector /\ done' = done /\ ended' = ended
      /\ chunk'[d] = Rest(c, n)
      /\ \A e \in Directions : e # d => chunk'[e] = chunk[e]
  BY <1>1, <1>4 DEF Write, Queues
<1>10. Queues'
  BY <1>1, <1>4, <1>5, <1>8, <1>9 DEF Queues
<1>11. \A e \in Directions : e # d => Same(e)
  BY <1>8, <1>9 DEF Same
<1>12. Fits(d)'
  <2>1. Len(session'[d]) <= SessionRoom
    BY <1>2, <1>3, <1>6, <1>8, RoomAssumption
  <2>2. Len(chunk'[d]) <= MaxRead
    BY <1>2, <1>3, <1>5, <1>9, RoomAssumption
  <2> QED
    BY <1>1, <1>8, <1>9, <2>1, <2>2 DEF Fits
<1>13. Readable(d)' /\ Watched(d)'
  BY <1>1, <1>9 DEF InOrder, Readable, Watched
<1>14. Preserved(d)'
  <2> DEFINE u == IF closed[d] THEN <<>> ELSE unsent[d]
             r == received[d]
             o == outbound[d]
             i == inbound[d]
  <2>1. u \in Seq(Piece) /\ r \in Seq(Piece) /\ o \in Seq(Piece) /\ i \in Seq(Piece)
    BY <1>1, QueueTypes, EmptySeq
  <2> HIDE DEF u
  <2>2. AtSession(r, o, s, c, i, u, units, Rest(c, n))
    BY <1>2, <1>5, <1>6, <2>1, LineAtSession
  <2>3. AtSocket(r, o, units, Rest(c, n), i, u, outbound'[d], session'[d])
    BY <1>5, <1>6, <1>8, <2>1, LineAtSocket
  <2>4. Line(r, o, s, c, i, u) = Line(r, outbound'[d], session'[d], Rest(c, n), i, u)
    BY <1>7, <1>8, <2>2, <2>3 DEF AtSession, AtSocket
  <2> QED
    BY <1>1, <1>9, <2>4 DEF InOrder, Preserved, Sent, u
<1> QED
  <2>1. InOrder(d)'
    BY <1>12, <1>13, <1>14 DEF InOrder
  <2> QED
    BY <1>9, <1>10, <1>11, <2>1, OneDirection DEF TunnelInv

LEMMA FlushStep ==
  ASSUME TunnelInv, NEW d \in Directions, Flush(d)
  PROVE  TunnelInv'
<1>1. InOrder(d) /\ Queues /\ Fits(d) /\ Ship(d, session[d])
  BY DEF TunnelInv, InOrder, Flush
<1>2. session[d] \in Seq(Piece) /\ Len(session[d]) \in Nat /\ Len(session[d]) <= SessionRoom
  BY <1>1, QueueTypes DEF Fits
<1>3. /\ outbound'[d] \in Seq(Piece) /\ session'[d] \in Seq(Piece)
      /\ outbound' \in [Directions -> Seq(Piece)] /\ session' \in [Directions -> Seq(Piece)]
      /\ \A e \in Directions :
           e # d => outbound'[e] = outbound[e] /\ session'[e] = session[e]
      /\ Len(outbound'[d]) <= SocketRoom /\ Len(session'[d]) <= Len(session[d])
      /\ outbound'[d] \o session'[d] = outbound[d] \o session[d]
  BY <1>1, <1>2, Ships DEF Fits
<1>4. /\ world' = world /\ closed' = closed /\ unsent' = unsent /\ inbound' = inbound
      /\ received' = received /\ inspector' = inspector /\ done' = done /\ ended' = ended
      /\ chunk' = chunk
  BY DEF Flush
<1>5. Queues'
  BY <1>1, <1>3, <1>4 DEF Queues
<1>6. \A e \in Directions : e # d => Same(e)
  BY <1>3, <1>4 DEF Same
<1>7. Fits(d)'
  <2>1. Len(session'[d]) \in Nat
    BY <1>3
  <2> QED
    BY <1>1, <1>2, <1>3, <1>4, <2>1, RoomAssumption DEF Fits
<1>8. Readable(d)' /\ Watched(d)'
  BY <1>1, <1>4 DEF InOrder, Readable, Watched
<1>9. Preserved(d)'
  <2> DEFINE u == IF closed[d] THEN <<>> ELSE unsent[d]
  <2>1. u \in Seq(Piece)
    BY <1>1, QueueTypes, EmptySeq
  <2> HIDE DEF u
  <2>2. AtSocket(received[d], outbound[d], session[d], chunk[d], inbound[d], u,
                 outbound'[d], session'[d])
    BY <1>1, <1>3, <2>1, QueueTypes, LineAtSocket
  <2> QED
    BY <1>1, <1>3, <1>4, <2>2 DEF AtSocket, InOrder, Preserved, Sent, u
<1> QED
  <2>1. InOrder(d)'
    BY <1>7, <1>8, <1>9 DEF InOrder
  <2> QED
    BY <1>4, <1>5, <1>6, <2>1, OneDirection DEF TunnelInv

LEMMA ShutdownStep ==
  ASSUME TunnelInv, NEW d \in Directions, Shutdown(d)
  PROVE  TunnelInv'
<1>1. InOrder(d) /\ Queues /\ Fits(d) /\ chunk[d] = <<Fin>> /\ session[d] = <<>>
  BY DEF TunnelInv, InOrder, Shutdown
<1>2. /\ outbound[d] \in Seq(Piece) /\ Append(outbound[d], Fin) \in Seq(Piece)
      /\ <<Fin>> \in Seq(Piece) /\ <<>> \in Seq(Piece)
  BY <1>1, QueueTypes, UnitsArePieces, AppendProperties
<1>3. /\ world' = world /\ closed' = closed /\ unsent' = unsent /\ inbound' = inbound
      /\ received' = received /\ inspector' = inspector /\ session' = session
      /\ chunk'[d] = <<>> /\ outbound'[d] = Append(outbound[d], Fin)
  BY <1>1 DEF Shutdown, Queues
<1>4. Queues'
  BY <1>1, <1>2 DEF Queues, Shutdown
<1>5. \A e \in Directions : e # d => Same(e)
  BY <1>1 DEF Same, Shutdown, Queues
<1>6. Fits(d)'
  <2>1. Len(outbound[d]) \in Nat /\ Len(outbound'[d]) = Len(outbound[d]) + 1 /\ Len(<<>>) = 0
    BY <1>2, <1>3
  <2>2. Len(outbound[d]) < SocketRoom
    BY DEF Shutdown
  <2> QED
    BY <1>1, <1>3, <2>1, <2>2, RoomAssumption DEF Fits
<1>7. Readable(d)' /\ Watched(d)'
  BY <1>1, <1>3 DEF InOrder, Readable, Watched
<1>8. Preserved(d)'
  <2> DEFINE u == IF closed[d] THEN <<>> ELSE unsent[d]
             r == received[d]
             o == outbound[d]
             i == inbound[d]
  <2>1. u \in Seq(Piece) /\ r \in Seq(Piece) /\ o \in Seq(Piece) /\ i \in Seq(Piece)
    BY <1>1, QueueTypes, EmptySeq
  <2> HIDE DEF u
  <2>2. AtSession(r, o, <<>>, <<Fin>>, i, u, <<Fin>>, <<>>)
    BY <1>2, <2>1, LineAtSession
  <2>3. AtSocket(r, o, <<Fin>>, <<>>, i, u, Append(o, Fin), <<>>)
    BY <1>2, <2>1, LineAtSocket
  <2>4. <<>> \o <<Fin>> = <<Fin>> \o <<>>
    BY <1>2, ConcatEmptySeq
  <2>5. o \o <<Fin>> = Append(o, Fin) \o <<>>
    <3>1. Append(o, Fin) = o \o <<Fin>>
      BY <1>2, UnitsArePieces, AppendIsConcat
    <3>2. Append(o, Fin) \o <<>> = Append(o, Fin)
      BY <1>2, ConcatEmptySeq
    <3> QED
      BY <3>1, <3>2
  <2>6. Line(r, o, <<>>, <<Fin>>, i, u) = Line(r, Append(o, Fin), <<>>, <<>>, i, u)
    BY <2>2, <2>3, <2>4, <2>5 DEF AtSession, AtSocket
  <2> QED
    BY <1>1, <1>3, <2>6 DEF InOrder, Preserved, Sent, u
<1> QED
  <2>1. InOrder(d)'
    BY <1>6, <1>7, <1>8 DEF InOrder
  <2> QED
    BY <1>3, <1>4, <1>5, <2>1, OneDirection DEF TunnelInv

-----------------------------------------------------------------------------
(* The invariant, and what follows.                                        *)

LEMMA InitEstablishes == Init => TunnelInv
<1> SUFFICES ASSUME Init
             PROVE  TunnelInv
  OBVIOUS
<1>1. /\ world \in Worlds /\ ended = "no"
      /\ received = [d \in Directions |-> <<>>] /\ session = [d \in Directions |-> <<>>]
      /\ chunk = [d \in Directions |-> <<>>] /\ inbound = [d \in Directions |-> <<>>]
      /\ closed = [d \in Directions |-> FALSE] /\ done = [d \in Directions |-> FALSE]
      /\ inspector = [d \in Directions |-> New]
  BY DEF Init
<1>2. ASSUME NEW d \in Directions
      PROVE  /\ unsent[d] = Rest(Wire(world.frames[d]), world.early[d])
             /\ outbound[d] = SubSeq(Wire(world.frames[d]), 1, world.early[d])
             /\ unsent[d] \in Seq(Unit(world.frames[d])) /\ unsent[d] \in Seq(Piece)
             /\ outbound[d] \in Seq(Piece) /\ Len(outbound[d]) = world.early[d]
             /\ Wire(world.frames[d]) \in Seq(Piece)
             /\ outbound[d] \o unsent[d] = Wire(world.frames[d])
  <2> DEFINE wire == Wire(world.frames[d])
             n == world.early[d]
             U == Unit(world.frames[d])
  <2>1. unsent[d] = Rest(wire, n) /\ outbound[d] = SubSeq(wire, 1, n)
    BY DEF Init
  <2>2. wire \in Seq(U) /\ U \subseteq Piece /\ n \in 0..Len(wire)
    BY <1>1, UnitsArePieces, WireType, WorldsAssumption
  <2> HIDE DEF wire, n, U
  <2>3. /\ SubSeq(wire, 1, n) \in Seq(U) /\ Rest(wire, n) \in Seq(U)
        /\ Len(SubSeq(wire, 1, n)) = n /\ SubSeq(wire, 1, n) \o Rest(wire, n) = wire
    BY <2>2, Cut
  <2>4. wire \in Seq(Piece) /\ SubSeq(wire, 1, n) \in Seq(Piece) /\ Rest(wire, n) \in Seq(Piece)
    BY <2>2, <2>3, SeqMonotonic
  <2> QED
    BY <2>1, <2>3, <2>4 DEF wire, n, U
<1>3. Queues
  <2>1. /\ unsent = [d \in Directions |-> unsent[d]]
        /\ outbound = [d \in Directions |-> outbound[d]]
    BY DEF Init
  <2>2. unsent \in [Directions -> Seq(Piece)] /\ outbound \in [Directions -> Seq(Piece)]
    BY <1>2, <2>1
  <2> QED
    BY <1>1, <2>2, EmptySeq DEF Queues
<1>4. ASSUME NEW d \in Directions
      PROVE  InOrder(d)
  <2>1. /\ received[d] = <<>> /\ session[d] = <<>> /\ chunk[d] = <<>> /\ inbound[d] = <<>>
        /\ ~closed[d] /\ inspector[d] = New
    BY <1>1
  <2>2. Fits(d)
    <3>1. world.early[d] <= SocketRoom /\ Len(outbound[d]) = world.early[d]
      BY <1>1, <1>2, WorldsAssumption
    <3>2. Len(<<>>) = 0 /\ 0 <= SocketRoom /\ 0 <= SessionRoom /\ 0 <= MaxRead
      BY RoomAssumption, EmptySeq
    <3> QED
      BY <2>1, <3>1, <3>2 DEF Fits
  <2>3. Readable(d)
    <3>1. 1..Len(inbound[d]) = {}
      BY <2>1, EmptySeq
    <3> QED
      BY <1>2, <2>1, <3>1 DEF Readable
  <2>4. Watched(d)
    BY <2>1, MaxBufferAssumption DEF Watched, Watches, New
  <2>5. Preserved(d)
    <3> DEFINE o == outbound[d]
               u == unsent[d]
               wire == Wire(world.frames[d])
    <3>1. o \in Seq(Piece) /\ u \in Seq(Piece) /\ wire \in Seq(Piece) /\ o \o u = wire
      BY <1>2
    <3>2. Line(<<>>, o, <<>>, <<>>, <<>>, u) = o \o u
      <4> HIDE DEF o, u, wire
      <4>1. <<>> \o o = o /\ o \o <<>> = o
        BY <3>1, ConcatEmptySeq
      <4> QED
        BY <4>1 DEF Line
    <3>3. wire \o <<>> = wire
      BY <3>1, ConcatEmptySeq
    <3>4. Sent(d) = wire \o <<>>
      BY <2>1 DEF Sent
    <3>5. Line(received[d], o, session[d], chunk[d], inbound[d],
               IF closed[d] THEN <<>> ELSE u) = Line(<<>>, o, <<>>, <<>>, <<>>, u)
      BY <2>1
    <3> QED
      BY <3>1, <3>2, <3>3, <3>4, <3>5 DEF Preserved
  <2> QED
    BY <2>2, <2>3, <2>4, <2>5 DEF InOrder
<1> QED
  BY <1>1, <1>3, <1>4 DEF TunnelInv

LEMMA NextPreserves == TunnelInv /\ [Next]_vars => TunnelInv'
<1> SUFFICES ASSUME TunnelInv, [Next]_vars
             PROVE  TunnelInv'
  OBVIOUS
<1>1. ASSUME NEW d \in Directions, Send(d)
      PROVE  TunnelInv'
  BY <1>1, SendStep
<1>2. ASSUME NEW d \in Directions, Receive(d)
      PROVE  TunnelInv'
  BY <1>2, ReceiveStep
<1>3. ASSUME NEW d \in Directions, Read(d)
      PROVE  TunnelInv'
  BY <1>3, ReadStep
<1>4. ASSUME NEW d \in Directions, ReadEnd(d)
      PROVE  TunnelInv'
  BY <1>4, ReadEndStep
<1>5. ASSUME NEW d \in Directions, Write(d)
      PROVE  TunnelInv'
  BY <1>5, WriteStep
<1>6. ASSUME NEW d \in Directions, Flush(d)
      PROVE  TunnelInv'
  BY <1>6, FlushStep
<1>7. ASSUME NEW d \in Directions, Shutdown(d)
      PROVE  TunnelInv'
  BY <1>7, ShutdownStep
<1>8. ASSUME NEW d \in Directions, Close(d)
      PROVE  TunnelInv'
  BY <1>8, CloseStep
<1>9. ASSUME world' = world, UNCHANGED <<unsent, inbound, chunk, session, outbound, received,
                                         closed, done, inspector>>, ended' \in {"no", "ok", "error"}
      PROVE  TunnelInv'
  <2>1. Queues' /\ DOMAIN inspector' = Directions
    BY <1>9 DEF TunnelInv, Queues
  <2>2. \A d \in Directions : InOrder(d)'
    BY <1>9, SameInOrder DEF TunnelInv, Same
  <2> QED
    BY <2>1, <2>2 DEF TunnelInv
<1>10. CASE Fail
  BY <1>9, <1>10 DEF Fail
<1>11. CASE UNCHANGED vars
  BY <1>9, <1>11 DEF vars, TunnelInv, Queues
<1> QED
  BY <1>1, <1>2, <1>3, <1>4, <1>5, <1>6, <1>7, <1>8, <1>10, <1>11 DEF Next, Progress

\* The inductive invariant of the tunnel: in each direction what has been
\* received and what the sockets, sessions and buffers hold is, put together,
\* what the peer sends, and the inspector's buffer is under its cap.
THEOREM TunnelInvariance == Spec => []TunnelInv
<1>1. Init => TunnelInv
  BY InitEstablishes
<1>2. TunnelInv /\ [Next]_vars => TunnelInv'
  BY NextPreserves
<1> QED
  BY <1>1, <1>2, PTL DEF Spec

\* For any worlds and any sizes, no queue is over its room, and the inspector's
\* buffer is never over its cap, however the reads cut the frames up.
THEOREM TunnelTypes == Spec => []TypeOK
<1>1. TunnelInv => TypeOK
  BY DEF TunnelInv, Queues, InOrder, Fits, Watched, TypeOK
<1> QED
  BY <1>1, TunnelInvariance, PTL

\* For any worlds and any sizes of the buffers, captured or not, the bytes of
\* each direction arrive as they were sent.
THEOREM BytesUnchanged == Spec => []Unchanged
<1>1. ASSUME TunnelInv, NEW d \in Directions
      PROVE  FlattenSeq(<<received[d], outbound[d], session[d], chunk[d], inbound[d]>>)
               \o (IF closed[d] THEN <<>> ELSE unsent[d]) = Sent(d)
  <2>1. FlattenSeq(<<received[d], outbound[d], session[d], chunk[d], inbound[d]>>)
          = (((received[d] \o outbound[d]) \o session[d]) \o chunk[d]) \o inbound[d]
    <3>1. Queues
      BY <1>1 DEF TunnelInv
    <3>2. Five(received[d], outbound[d], session[d], chunk[d], inbound[d])
      BY <3>1, QueueTypes, FlattenFive
    <3> QED
      BY <3>2 DEF Five
  <2>2. Preserved(d)
    BY <1>1 DEF TunnelInv, InOrder
  <2> QED
    BY <2>1, <2>2 DEF Preserved, Line
<1>2. TunnelInv => Unchanged
  BY <1>1 DEF Unchanged
<1> QED
  BY <1>2, TunnelInvariance, PTL

-----------------------------------------------------------------------------
(* The frames on the wire.                                                 *)

Parts(frames) == [k \in DOMAIN frames |-> Units(k, frames[k])]

\* The wire behind the first k frames.
Behind(frames, k) == FlattenSeq(SubSeq(Parts(frames), k + 1, Len(frames)))

LEMMA PartsType ==
  ASSUME NEW frames \in Seq(Frame)
  PROVE  /\ Len(frames) \in Nat /\ Parts(frames) \in Seq(Seq(Unit(frames)))
         /\ Len(Parts(frames)) = Len(frames)
         /\ \A k \in 1..Len(frames) :
              /\ frames[k] \in Frame /\ frames[k].size \in Nat \ {0}
              /\ Parts(frames)[k] = Units(k, frames[k])
              /\ Units(k, frames[k]) \in Seq(Unit(frames))
              /\ Len(Units(k, frames[k])) = frames[k].size
              /\ \A i \in 1..frames[k].size :
                   Units(k, frames[k])[i] = [frame |-> k, part |-> i]
<1>1. ASSUME NEW k \in 1..Len(frames)
      PROVE  /\ frames[k] \in Frame /\ frames[k].size \in Nat \ {0}
             /\ Units(k, frames[k]) \in Seq(Unit(frames))
             /\ Len(Units(k, frames[k])) = frames[k].size
             /\ \A i \in 1..frames[k].size :
                  Units(k, frames[k])[i] = [frame |-> k, part |-> i]
  <2>1. frames[k] \in Frame
    BY ElementOfSeq
  <2>2. frames[k].size \in Nat \ {0}
    BY <2>1 DEF Frame
  <2>3. \A i \in 1..frames[k].size : [frame |-> k, part |-> i] \in Unit(frames)
    BY <2>2 DEF Unit
  <2> QED
    BY <2>1, <2>2, <2>3 DEF Units
<1>2. Parts(frames) = [k \in 1..Len(frames) |-> Units(k, frames[k])] /\ Len(frames) \in Nat
  BY DEF Parts
<1> QED
  BY <1>1, <1>2

LEMMA BehindType ==
  ASSUME NEW frames \in Seq(Frame), NEW k \in 0..Len(frames)
  PROVE  Behind(frames, k) \in Seq(Unit(frames))
<1> DEFINE parts == Parts(frames)
           n == Len(frames)
           U == Unit(frames)
<1>1. n \in Nat /\ parts \in Seq(Seq(U)) /\ Len(parts) = n
  BY PartsType
<1>2. \A i \in k + 1..n : parts[i] \in Seq(U)
  BY <1>1, ElementOfSeq
<1> HIDE DEF parts, n, U
<1>3. SubSeq(parts, k + 1, n) \in Seq(Seq(U))
  BY <1>1, <1>2, SubSeqProperties
<1>4. FlattenSeq(SubSeq(parts, k + 1, n)) \in Seq(U)
  BY <1>3, FlattenType
<1> QED
  BY <1>4 DEF Behind, parts, n, U

LEMMA BehindEnds ==
  ASSUME NEW frames \in Seq(Frame)
  PROVE  Behind(frames, 0) = Wire(frames) /\ Behind(frames, Len(frames)) = <<>>
<1> DEFINE n == Len(frames)
           parts == Parts(frames)
<1>1. n \in Nat /\ parts \in Seq(Seq(Unit(frames))) /\ Len(parts) = n
  BY PartsType
<1>2. Wire(frames) = FlattenSeq(parts)
  BY DEF Wire, Parts
<1> HIDE DEF n, parts
<1>3. SubSeq(parts, 0 + 1, n) = parts
  BY <1>1, SubSeqFull
<1>4. SubSeq(parts, n + 1, n) = <<>>
  BY <1>1, SubSeqEmpty
<1> QED
  BY <1>2, <1>3, <1>4, FlattenEmpty DEF Behind, n, parts

\* Frame k + 1 comes first, and then what is behind it.
BeginsWith(frames, k) ==
  Behind(frames, k) = Units(k + 1, frames[k + 1]) \o Behind(frames, k + 1)

LEMMA BehindNext ==
  ASSUME NEW frames \in Seq(Frame), NEW k \in Nat, k < Len(frames)
  PROVE  BeginsWith(frames, k)
<1> DEFINE parts == Parts(frames)
           n == Len(frames)
           U == Unit(frames)
<1>1. n \in Nat /\ parts \in Seq(Seq(U)) /\ Len(parts) = n /\ k + 1 \in 1..n
  BY PartsType
<1>2. parts[k + 1] = Units(k + 1, frames[k + 1]) /\ parts[k + 1] \in Seq(U)
  BY <1>1, PartsType
<1> HIDE DEF parts, n, U
<1>3. FlattensAt(parts, k + 1, k + 1, n)
  <2>1. k + 1 \in 1..Len(parts) + 1 /\ k + 1 \in (k + 1) - 1..Len(parts) /\ n \in k + 1..Len(parts)
    BY <1>1
  <2> QED
    BY <1>1, <2>1, FlattenSplit
<1>4. SubSeq(parts, k + 1, k + 1) = <<parts[k + 1]>>
  <2>1. k + 1 \in 1..Len(parts) /\ k + 1 \in k + 1..Len(parts)
    BY <1>1
  <2>2. SubSeq(parts, k + 1, k + 1) = <<parts[k + 1]>> \o SubSeq(parts, (k + 1) + 1, k + 1)
    BY <1>1, <2>1, SubSeqRecursiveFirst
  <2>3. SubSeq(parts, (k + 1) + 1, k + 1) = <<>>
    BY <1>1, SubSeqEmpty
  <2>4. <<parts[k + 1]>> \in Seq(Seq(U))
    BY <1>2
  <2> QED
    BY <2>2, <2>3, <2>4, ConcatEmptySeq
<1>5. FlattenSeq(<<parts[k + 1]>>) = parts[k + 1]
  BY <1>2, FlattenOne
<1> QED
  BY <1>2, <1>3, <1>4, <1>5 DEF FlattensAt, BeginsWith, Behind, parts, n

\* The members of a sequence, each of them there once.
Once(s, S) ==
  /\ \A i \in 1..Len(s) : s[i] \in S
  /\ \A u \in S : \E i \in 1..Len(s) : s[i] = u
  /\ \A i, j \in 1..Len(s) : s[i] = s[j] => i = j

LEMMA OnceJoins ==
  ASSUME NEW X, NEW a \in Seq(X), NEW b \in Seq(X), NEW S, NEW T,
         Once(a, S), Once(b, T), S \intersect T = {}
  PROVE  Once(a \o b, S \union T)
<1> DEFINE m == Len(a)
           n == Len(b)
           c == a \o b
<1>1. /\ m \in Nat /\ n \in Nat /\ Len(c) = m + n
      /\ \A i \in 1..m + n : c[i] = IF i <= m THEN a[i] ELSE b[i - m]
  BY LenProperties, ConcatProperties
<1>2. \A i \in 1..m + n : IF i <= m THEN i \in 1..m ELSE i - m \in 1..n
  BY <1>1
<1>3. /\ \A i \in 1..m : a[i] \in S
      /\ \A u \in S : \E i \in 1..m : a[i] = u
      /\ \A i, j \in 1..m : a[i] = a[j] => i = j
      /\ \A i \in 1..n : b[i] \in T
      /\ \A u \in T : \E i \in 1..n : b[i] = u
      /\ \A i, j \in 1..n : b[i] = b[j] => i = j
  BY DEF Once
<1> HIDE DEF m, n, c
<1>4. \A i \in 1..Len(c) : c[i] \in S \union T
  BY <1>1, <1>2, <1>3
<1>5. ASSUME NEW u \in S \union T
      PROVE  \E i \in 1..Len(c) : c[i] = u
  <2>1. CASE u \in S
    <3>1. PICK i \in 1..m : a[i] = u
      BY <1>3, <2>1
    <3>2. i \in 1..Len(c) /\ c[i] = u
      BY <1>1, <3>1
    <3> QED
      BY <3>2
  <2>2. CASE u \in T
    <3>1. PICK i \in 1..n : b[i] = u
      BY <1>3, <2>2
    <3>2. m + i \in 1..m + n /\ ~(m + i <= m) /\ (m + i) - m = i
      BY <1>1
    <3>3. m + i \in 1..Len(c) /\ c[m + i] = u
      BY <1>1, <3>1, <3>2
    <3> QED
      BY <3>3
  <2> QED
    BY <2>1, <2>2
<1>6. ASSUME NEW i \in 1..Len(c), NEW j \in 1..Len(c), c[i] = c[j]
      PROVE  i = j
  <2>1. i \in 1..m + n /\ j \in 1..m + n
    BY <1>1
  <2>2. CASE i <= m /\ j <= m
    BY <1>1, <1>2, <1>3, <1>6, <2>1, <2>2
  <2>3. CASE ~(i <= m) /\ ~(j <= m)
    <3>1. b[i - m] = b[j - m] /\ i - m \in 1..n /\ j - m \in 1..n
      BY <1>1, <1>2, <1>6, <2>1, <2>3
    <3>2. i - m = j - m
      BY <1>3, <3>1
    <3> QED
      BY <1>1, <2>1, <3>2
  <2>4. (i <= m) <=> (j <= m)
    <3>1. i <= m => c[i] \in S
      BY <1>1, <1>2, <1>3, <2>1
    <3>2. j <= m => c[j] \in S
      BY <1>1, <1>2, <1>3, <2>1
    <3>3. ~(i <= m) => c[i] \in T
      BY <1>1, <1>2, <1>3, <2>1
    <3>4. ~(j <= m) => c[j] \in T
      BY <1>1, <1>2, <1>3, <2>1
    <3> QED
      BY <1>6, <3>1, <3>2, <3>3, <3>4
  <2> QED
    BY <2>2, <2>3, <2>4
<1> QED
  BY <1>4, <1>5, <1>6 DEF Once, c

\* The units of the frames behind the first k.
Rem(frames, k) == {u \in Unit(frames) : u.frame > k /\ u.part <= frames[u.frame].size}

LEMMA BehindOnce ==
  ASSUME NEW frames \in Seq(Frame), NEW k \in 0..Len(frames)
  PROVE  Once(Behind(frames, k), Rem(frames, k))
<1> DEFINE n == Len(frames)
           Done == {i \in Nat : i <= n => Once(Behind(frames, n - i), Rem(frames, n - i))}
<1>1. n \in Nat
  BY PartsType
<1>2. 0 \in Done
  <2>1. Rem(frames, n) = {}
    BY <1>1 DEF Rem, Unit
  <2>2. Behind(frames, n) = <<>> /\ Len(<<>>) = 0
    BY BehindEnds, EmptySeq
  <2>3. Once(Behind(frames, n), Rem(frames, n))
    BY <2>1, <2>2 DEF Once
  <2>4. n - 0 = n
    BY <1>1
  <2> QED
    BY <2>3, <2>4
<1>3. ASSUME NEW i \in Nat, i \in Done
      PROVE  i + 1 \in Done
  <2> SUFFICES ASSUME i + 1 <= n
               PROVE  Once(Behind(frames, n - (i + 1)), Rem(frames, n - (i + 1)))
    OBVIOUS
  <2> DEFINE m == n - (i + 1)
             units == Units(m + 1, frames[m + 1])
             S == {u \in Unit(frames) : u.frame = m + 1 /\ u.part <= frames[m + 1].size}
             U == Unit(frames)
             behind == Behind(frames, m + 1)
             later == Rem(frames, m + 1)
  <2>1. m \in Nat /\ m < n /\ m + 1 = n - i /\ m + 1 \in 1..n /\ i <= n /\ m + 1 \in 0..n
    BY <1>1
  <2> HIDE DEF m
  <2>2. Once(behind, later) /\ behind \in Seq(U)
    BY <1>3, <2>1, BehindType
  <2>3. /\ units \in Seq(U) /\ Len(units) = frames[m + 1].size /\ frames[m + 1].size \in Nat
        /\ \A j \in 1..frames[m + 1].size : units[j] = [frame |-> m + 1, part |-> j]
    BY <2>1, PartsType
  <2>4. Once(units, S)
    <3> HIDE DEF units
    <3>1. ASSUME NEW j \in 1..Len(units)
          PROVE  units[j] \in S
      <4>1. j \in Nat \ {0} /\ j <= frames[m + 1].size /\ units[j] = [frame |-> m + 1, part |-> j]
        BY <2>3
      <4>2. [frame |-> m + 1, part |-> j] \in Unit(frames)
        BY <2>1, <4>1 DEF Unit
      <4> QED
        BY <4>1, <4>2
    <3>2. ASSUME NEW u \in S
          PROVE  u.part \in 1..Len(units) /\ units[u.part] = u
      <4>1. u = [frame |-> m + 1, part |-> u.part] /\ u.part \in 1..frames[m + 1].size
        BY <2>3 DEF Unit
      <4> QED
        BY <2>3, <4>1
    <3>3. ASSUME NEW j \in 1..Len(units)
          PROVE  units[j].part = j
      <4>1. units[j] = [frame |-> m + 1, part |-> j]
        BY <2>3
      <4> QED
        BY <4>1
    <3>4. \A j, l \in 1..Len(units) : units[j] = units[l] => j = l
      BY <3>3
    <3> HIDE DEF S
    <3> QED
      BY <3>1, <3>2, <3>4 DEF Once
  <2>5. S \intersect later = {}
    BY <2>1 DEF Rem, Unit
  <2>6. S \union later = Rem(frames, m)
    <3>1. ASSUME NEW u \in Unit(frames)
          PROVE  (u.frame > m) <=> (u.frame = m + 1 \/ u.frame > m + 1)
      BY <2>1 DEF Unit
    <3> QED
      BY <3>1 DEF Rem
  <2>7. Behind(frames, m) = units \o behind
    BY <2>1, BehindNext DEF BeginsWith
  <2> HIDE DEF units, behind, S, later, U
  <2>8. Once(units \o behind, S \union later)
    BY <2>2, <2>3, <2>4, <2>5, OnceJoins
  <2> QED
    BY <2>6, <2>7, <2>8 DEF m
<1>4. Nat \subseteq Done
  <2> HIDE DEF Done
  <2> QED
    BY <1>2, <1>3, InductionOverNat
<1>5. n - k \in Nat /\ n - k <= n /\ n - (n - k) = k
  BY <1>1
<1> QED
  BY <1>4, <1>5

\* What is in one of two sequences is in the two of them together.
LEMMA MembersJoin ==
  ASSUME NEW S, NEW s \in Seq(S), NEW t \in Seq(S), NEW x
  PROVE  x \in ToSet(s \o t) <=> x \in ToSet(s) \/ x \in ToSet(t)
<1> DEFINE m == Len(s)
           n == Len(t)
           all == s \o t
<1>1. /\ m \in Nat /\ n \in Nat /\ DOMAIN s = 1..m /\ DOMAIN t = 1..n
      /\ all \in Seq(S) /\ Len(all) = m + n
      /\ \A i \in 1..m + n : all[i] = IF i <= m THEN s[i] ELSE t[i - m]
  BY LenProperties, ConcatProperties
<1>2. DOMAIN all = 1..m + n
  BY <1>1, LenProperties
<1> HIDE DEF m, n, all
<1>3. ASSUME NEW i \in 1..m + n
      PROVE  all[i] \in ToSet(s) \/ all[i] \in ToSet(t)
  <2>1. IF i <= m THEN i \in 1..m ELSE i - m \in 1..n
    BY <1>1
  <2> QED
    BY <1>1, <2>1 DEF ToSet
<1>4. ASSUME NEW i \in 1..m
      PROVE  s[i] \in ToSet(all)
  <2>1. i \in 1..m + n /\ all[i] = s[i]
    BY <1>1
  <2> QED
    BY <1>2, <2>1 DEF ToSet
<1>5. ASSUME NEW i \in 1..n
      PROVE  t[i] \in ToSet(all)
  <2>1. m + i \in 1..m + n /\ ~(m + i <= m) /\ (m + i) - m = i
    BY <1>1
  <2>2. all[m + i] = t[i]
    BY <1>1, <2>1
  <2> QED
    BY <1>2, <2>1, <2>2 DEF ToSet
<1> QED
  BY <1>1, <1>2, <1>3, <1>4, <1>5 DEF ToSet, all

-----------------------------------------------------------------------------
(* Ordered.                                                                *)

Picks(n, S) == [k \in 1..n |-> IF k \in S THEN <<k>> ELSE <<>>]

LEMMA PicksType ==
  ASSUME NEW n \in Nat, NEW S
  PROVE  /\ Picks(n, S) \in Seq(Seq(Nat)) /\ Len(Picks(n, S)) = n
         /\ Ordered(n, S) = FlattenSeq(Picks(n, S))
         /\ Ordered(n, S) \in Seq(Nat)
<1>1. \A k \in 1..n : (IF k \in S THEN <<k>> ELSE <<>>) \in Seq(Nat)
  <2> SUFFICES ASSUME NEW k \in 1..n
               PROVE  (IF k \in S THEN <<k>> ELSE <<>>) \in Seq(Nat)
    OBVIOUS
  <2>1. <<k>> \in Seq(Nat) /\ <<>> \in Seq(Nat)
    OBVIOUS
  <2> QED
    BY <2>1
<1>2. Picks(n, S) \in Seq(Seq(Nat)) /\ Len(Picks(n, S)) = n
  BY <1>1 DEF Picks
<1>3. Ordered(n, S) = FlattenSeq(Picks(n, S))
  BY DEF Ordered, Picks
<1> QED
  BY <1>2, <1>3, FlattenType

LEMMA OrderedNone ==
  ASSUME NEW n \in Nat, NEW S, \A k \in 1..n : k \notin S
  PROVE  Ordered(n, S) = <<>>
<1>1. \A k \in 1..n : Picks(n, S)[k] = <<>>
  BY DEF Picks
<1> QED
  BY <1>1, PicksType, FlattenNothing

Grows(n, S) == Ordered(n + 1, S) = Ordered(n, S) \o (IF n + 1 \in S THEN <<n + 1>> ELSE <<>>)

LEMMA OrderedNext ==
  ASSUME NEW n \in Nat, NEW S
  PROVE  Grows(n, S)
<1> DEFINE some == Picks(n, S)
           more == Picks(n + 1, S)
           last == IF n + 1 \in S THEN <<n + 1>> ELSE <<>>
<1>1. /\ some \in Seq(Seq(Nat)) /\ Len(some) = n
      /\ more \in Seq(Seq(Nat)) /\ Len(more) = n + 1
      /\ Ordered(n, S) = FlattenSeq(some) /\ Ordered(n + 1, S) = FlattenSeq(more)
  BY PicksType
<1>2. last \in Seq(Nat)
  <2>1. <<n + 1>> \in Seq(Nat) /\ <<>> \in Seq(Nat)
    OBVIOUS
  <2> QED
    BY <2>1
<1>3. \A k \in 1..n : more[k] = some[k]
  BY DEF Picks
<1>4. more[n + 1] = last
  BY DEF Picks
<1> HIDE DEF some, more, last
<1>5. /\ Append(some, last) \in Seq(Seq(Nat)) /\ Len(Append(some, last)) = n + 1
      /\ \A k \in 1..n : Append(some, last)[k] = some[k]
      /\ Append(some, last)[n + 1] = last
  BY <1>1, <1>2, AppendProperties
<1>6. more = Append(some, last)
  <2>1. \A k \in 1..n + 1 : k \in 1..n \/ k = n + 1
    OBVIOUS
  <2>2. \A k \in 1..Len(more) : more[k] = Append(some, last)[k]
    BY <1>1, <1>3, <1>4, <1>5, <2>1
  <2> QED
    BY <1>1, <1>5, <2>2, SeqEqual
<1>7. FlattenSeq(Append(some, last)) = FlattenSeq(some) \o last
  BY <1>1, <1>2, FlattenAppend
<1> QED
  BY <1>1, <1>6, <1>7 DEF Grows, last

LEMMA OrderedMembers ==
  ASSUME NEW n \in Nat, NEW S, NEW j
  PROVE  j \in ToSet(Ordered(n, S)) <=> j \in S /\ j \in 1..n
<1> DEFINE Done == {m \in Nat : j \in ToSet(Ordered(m, S)) <=> j \in S /\ j \in 1..m}
<1>1. 0 \in Done
  <2>1. Ordered(0, S) = <<>> /\ ToSet(<<>>) = {}
    <3>1. \A k \in 1..0 : k \notin S
      OBVIOUS
    <3>2. ToSet(<<>>) = {}
      BY DEF ToSet
    <3> QED
      BY <3>1, <3>2, OrderedNone
  <2> QED
    BY <2>1
<1>2. ASSUME NEW m \in Nat, m \in Done
      PROVE  m + 1 \in Done
  <2> DEFINE some == Ordered(m, S)
             last == IF m + 1 \in S THEN <<m + 1>> ELSE <<>>
  <2>1. some \in Seq(Nat) /\ last \in Seq(Nat) /\ some \o last \in Seq(Nat)
    <3>1. <<m + 1>> \in Seq(Nat) /\ <<>> \in Seq(Nat)
      OBVIOUS
    <3>2. last \in Seq(Nat)
      BY <3>1
    <3> HIDE DEF last
    <3> QED
      BY <3>2, PicksType, ConcatProperties
  <2>2. Ordered(m + 1, S) = some \o last
    BY OrderedNext DEF Grows
  <2>3. j \in ToSet(some) <=> j \in S /\ j \in 1..m
    BY <1>2
  <2>4. j \in ToSet(last) <=> j \in S /\ j = m + 1
    <3>1. CASE m + 1 \in S
      <4>1. last = <<m + 1>>
        BY <3>1
      <4>2. ToSet(<<m + 1>>) = {m + 1}
        BY DEF ToSet
      <4> QED
        BY <3>1, <4>1, <4>2
    <3>2. CASE m + 1 \notin S
      <4>1. last = <<>> /\ ToSet(<<>>) = {}
        BY <3>2 DEF ToSet
      <4> QED
        BY <3>2, <4>1
    <3> QED
      BY <3>1, <3>2
  <2> HIDE DEF some, last
  <2>5. j \in ToSet(some \o last) <=> j \in ToSet(some) \/ j \in ToSet(last)
    BY <2>1, MembersJoin
  <2>6. j \in 1..m + 1 <=> j \in 1..m \/ j = m + 1
    OBVIOUS
  <2>7. j \in ToSet(Ordered(m + 1, S)) <=> j \in S /\ j \in 1..m + 1
    BY <2>2, <2>3, <2>4, <2>5, <2>6
  <2> QED
    BY <2>7
<1>3. Nat \subseteq Done
  <2> HIDE DEF Done
  <2> QED
    BY <1>1, <1>2, InductionOverNat
<1> QED
  BY <1>3

LEMMA OrderedSame ==
  ASSUME NEW n \in Nat, NEW S, NEW T, \A k \in 1..n : k \in S <=> k \in T
  PROVE  Ordered(n, S) = Ordered(n, T)
<1>1. Picks(n, S) = Picks(n, T)
  BY DEF Picks
<1> QED
  BY <1>1, PicksType

\* A sequence and what comes behind it.
LEMMA PrefixOfJoin ==
  ASSUME NEW S, NEW s \in Seq(S), NEW t \in Seq(S)
  PROVE  IsPrefix(s, s \o t)
<1> DEFINE m == Len(s)
           n == Len(t)
           all == s \o t
           a == SubSeq(s, 1, m)
           b == SubSeq(all, 1, m)
<1>1. /\ m \in Nat /\ n \in Nat /\ all \in Seq(S) /\ Len(all) = m + n
      /\ \A i \in 1..m + n : all[i] = IF i <= m THEN s[i] ELSE t[i - m]
  BY LenProperties, ConcatProperties
<1>2. \A i \in 1..m : all[i] = s[i] /\ s[i] \in S
  BY <1>1, ElementOfSeq
<1> HIDE DEF m, n, all
<1>3. /\ a \in Seq(S) /\ Len(a) = IF 1 <= m THEN m - 1 + 1 ELSE 0
      /\ \A i \in 1..m - 1 + 1 : a[i] = s[1 + i - 1]
  BY <1>1, <1>2, SubSeqProperties
<1>4. /\ b \in Seq(S) /\ Len(b) = IF 1 <= m THEN m - 1 + 1 ELSE 0
      /\ \A i \in 1..m - 1 + 1 : b[i] = all[1 + i - 1]
  <2>1. \A i \in 1..m : all[i] \in S
    BY <1>2
  <2> QED
    BY <1>1, <2>1, SubSeqProperties
<1> HIDE DEF a, b
<1>5. ASSUME NEW i \in 1..Len(a)
      PROVE  a[i] = b[i]
  <2>1. i \in 1..m - 1 + 1 /\ 1 + i - 1 = i /\ i \in 1..m
    BY <1>1, <1>3
  <2> QED
    BY <1>2, <1>3, <1>4, <2>1
<1>6. a = b
  BY <1>3, <1>4, <1>5, SeqEqual
<1>7. m <= Len(all)
  BY <1>1
<1> QED
  BY <1>6, <1>7 DEF IsPrefix, a, b, m, all

LEMMA OrderedPrefix ==
  ASSUME NEW m \in Nat, NEW n \in Nat, m <= n, NEW S
  PROVE  IsPrefix(Ordered(m, S), Ordered(n, S))
<1> DEFINE Goes(i) == \E t \in Seq(Nat) : Ordered(m + i, S) = Ordered(m, S) \o t
           Done == {i \in Nat : Goes(i)}
<1>1. 0 \in Done
  <2>1. m + 0 = m /\ <<>> \in Seq(Nat)
    OBVIOUS
  <2>2. Ordered(m, S) \o <<>> = Ordered(m, S)
    BY PicksType, ConcatEmptySeq
  <2> QED
    BY <2>1, <2>2
<1>2. ASSUME NEW i \in Nat, i \in Done
      PROVE  i + 1 \in Done
  <2>1. PICK t \in Seq(Nat) : Ordered(m + i, S) = Ordered(m, S) \o t
    BY <1>2
  <2> DEFINE o == Ordered(m, S)
             last == IF (m + i) + 1 \in S THEN <<(m + i) + 1>> ELSE <<>>
  <2>2. last \in Seq(Nat)
    <3>1. <<(m + i) + 1>> \in Seq(Nat) /\ <<>> \in Seq(Nat)
      OBVIOUS
    <3> QED
      BY <3>1
  <2>3. Ordered((m + i) + 1, S) = (o \o t) \o last
    <3>1. Grows(m + i, S)
      BY OrderedNext
    <3> QED
      BY <2>1, <3>1 DEF Grows
  <2>4. o \in Seq(Nat)
    BY PicksType
  <2> HIDE DEF last, o
  <2>5. Associate(o, t, last) /\ t \o last \in Seq(Nat)
    BY <2>2, <2>4, JoinsAssociate, ConcatProperties
  <2>6. (m + i) + 1 = m + (i + 1)
    OBVIOUS
  <2>7. Goes(i + 1)
    BY <2>3, <2>5, <2>6 DEF o, Associate
  <2> QED
    BY <2>7
<1>3. Nat \subseteq Done
  <2> HIDE DEF Done
  <2> QED
    BY <1>1, <1>2, InductionOverNat
<1>4. n - m \in Nat /\ m + (n - m) = n
  OBVIOUS
<1>5. PICK t \in Seq(Nat) : Ordered(n, S) = Ordered(m, S) \o t
  BY <1>3, <1>4
<1> DEFINE o == Ordered(m, S)
<1>6. o \in Seq(Nat)
  BY PicksType
<1> HIDE DEF o
<1>7. IsPrefix(o, o \o t)
  BY <1>6, PrefixOfJoin
<1> QED
  BY <1>5, <1>7 DEF o

-----------------------------------------------------------------------------
(* What the inspector takes out of its buffer.                             *)

\* What two sequences begin with may be taken off both.
SplitsAs(a, b, p, q) ==
  /\ \A i \in 1..Len(p) : a[i] = p[i]
  /\ Rest(a, Len(p)) \o b = q

LEMMA SplitJoin ==
  ASSUME NEW S, NEW a \in Seq(S), NEW b \in Seq(S), NEW p \in Seq(S), NEW q \in Seq(S),
         a \o b = p \o q, Len(p) <= Len(a)
  PROVE  SplitsAs(a, b, p, q)
<1> DEFINE m == Len(p)
           n == Len(a)
           front == SubSeq(a, 1, m)
           rest == Rest(a, m)
<1>1. m \in Nat /\ n \in Nat /\ m <= n /\ m \in 0..n
  BY LenProperties
<1>2. ASSUME NEW i \in 1..m
      PROVE  a[i] = p[i]
  <2>1. i \in 1..Len(a) + Len(b) /\ i <= Len(a) /\ i \in 1..Len(p) + Len(q) /\ i <= Len(p)
    BY <1>1, LenProperties
  <2>2. (a \o b)[i] = a[i]
    BY <2>1, ConcatProperties
  <2>3. (p \o q)[i] = p[i]
    BY <2>1, ConcatProperties
  <2> QED
    BY <2>2, <2>3
<1>3. /\ front \in Seq(S) /\ rest \in Seq(S) /\ Len(front) = m
      /\ \A i \in 1..m : front[i] = a[i]
      /\ front \o rest = a
  BY <1>1, Cut
<1> HIDE DEF front, rest
<1>4. \A i \in 1..Len(front) : front[i] = p[i]
  BY <1>2, <1>3
<1>5. front = p
  BY <1>3, <1>4, SeqEqual
<1>6. Associate(p, rest, b) /\ rest \o b \in Seq(S)
  BY <1>3, JoinsAssociate, ConcatProperties
<1>7. p \o (rest \o b) = p \o q
  BY <1>3, <1>5, <1>6 DEF Associate
<1> DEFINE more == rest \o b
<1>8. more \in Seq(S) /\ p \o more = p \o q
  BY <1>6, <1>7
<1> HIDE DEF more
<1>9. more = q
  BY <1>8, ConcatSimplifications
<1> QED
  BY <1>2, <1>9 DEF more, rest, SplitsAs

Ends == {<<>>, <<Fin>>}

LEMMA FramePieces ==
  ASSUME NEW frames \in Seq(Frame)
  PROVE  /\ Unit(frames) \subseteq Piece /\ Fin \in Piece /\ Fin \notin Unit(frames)
         /\ Seq(Unit(frames)) \subseteq Seq(Piece) /\ Ends \subseteq Seq(Piece)
<1>1. Unit(frames) \subseteq Piece /\ Fin \in Piece /\ Fin \notin Unit(frames)
  BY DEF Unit, Piece, Fin
<1>2. Ends \subseteq Seq(Piece)
  BY <1>1 DEF Ends
<1> QED
  BY <1>1, <1>2, SeqMonotonic

\* A buffer that goes on with the wire behind k frames, once it can be popped,
\* begins with frame k + 1; and without that with what is behind it.
LEMMA FirstFrame ==
  ASSUME NEW data, data.frames \in Seq(Frame), NEW s, s.buffer \in Seq(Unit(data.frames)),
         NEW rest \in Seq(Piece), NEW fin \in Ends, NEW k \in 0..Len(data.frames),
         s.buffer \o rest = Behind(data.frames, k) \o fin, s.buffer # <<>>
  PROVE  /\ k < Len(data.frames)
         /\ Head(s.buffer) = [frame |-> k + 1, part |-> 1]
         /\ Header(data, Head(s.buffer)) = data.frames[k + 1]
         /\ Id(Head(s.buffer)) = k + 1
         /\ Len(s.buffer) >= data.frames[k + 1].size =>
              Rest(s.buffer, data.frames[k + 1].size) \o rest = Behind(data.frames, k + 1) \o fin
<1> DEFINE frames == data.frames
           n == Len(frames)
           a == s.buffer
           head == Head(a)
<1>1. /\ n \in Nat /\ a \in Seq(Piece) /\ a # <<>> /\ Len(a) \in Nat /\ Len(a) >= 1
      /\ head = a[1] /\ a[1] \in Unit(frames) /\ fin \in Seq(Piece)
  <2>1. a \in Seq(Unit(frames)) /\ a # <<>> /\ n \in Nat
    BY PartsType
  <2>2. Len(a) \in Nat /\ Len(a) >= 1 /\ a[1] \in Unit(frames)
    <3>1. Len(a) \in Nat \ {0}
      BY <2>1, EmptySeq
    <3> QED
      BY <2>1, <3>1, ElementOfSeq
  <2> QED
    BY <2>1, <2>2, FramePieces
<1>2. (a \o rest)[1] = a[1]
  <2>1. Len(rest) \in Nat /\ 1 \in 1..Len(a) + Len(rest) /\ 1 <= Len(a)
    BY <1>1, LenProperties
  <2> QED
    BY <1>1, <2>1, ConcatProperties
<1>3. \A j \in 1..n : /\ frames[j].size \in Nat \ {0}
                       /\ Units(j, frames[j]) \in Seq(Unit(frames))
                       /\ Len(Units(j, frames[j])) = frames[j].size
                       /\ \A i \in 1..frames[j].size :
                            Units(j, frames[j])[i] = [frame |-> j, part |-> i]
  BY PartsType
<1>4. k < n => BeginsWith(frames, k)
  <2>1. k \in Nat
    BY <1>1
  <2> QED
    BY <2>1, BehindNext
<1>5. a \o rest = Behind(frames, k) \o fin
  OBVIOUS
<1> HIDE DEF frames, n, a, head
<1>6. k < n
  <2> SUFFICES ASSUME k = n
               PROVE  FALSE
    BY <1>1 DEF n, frames
  <2>1. a \o rest = <<>> \o fin
    BY BehindEnds DEF a, n, frames
  <2>2. a \o rest = fin
    BY <1>1, <2>1, ConcatEmptySeq
  <2>3. CASE fin = <<>>
    <3>1. a = <<>>
      BY <1>1, <2>2, <2>3, ConcatSimplifications
    <3> QED
      BY <1>1, <3>1
  <2>4. CASE fin = <<Fin>>
    <3>1. a[1] = Fin
      BY <1>2, <2>2, <2>4
    <3> QED
      BY <1>1, <3>1, FramePieces DEF frames
  <2> QED
    BY <2>3, <2>4 DEF Ends
<1> DEFINE units == Units(k + 1, frames[k + 1])
           behind == Behind(frames, k + 1)
           size == frames[k + 1].size
<1>7. /\ units \in Seq(Piece) /\ Len(units) = size /\ size \in Nat \ {0}
      /\ units[1] = [frame |-> k + 1, part |-> 1] /\ behind \in Seq(Piece)
  <2>1. k + 1 \in 1..n /\ k + 1 \in 0..n
    BY <1>1, <1>6
  <2>2. /\ units \in Seq(Unit(frames)) /\ Len(units) = size /\ size \in Nat \ {0}
        /\ units[1] = [frame |-> k + 1, part |-> 1]
    <3>1. 1 \in 1..frames[k + 1].size
      BY <1>3, <2>1
    <3> QED
      BY <1>3, <2>1, <3>1
  <2>3. behind \in Seq(Unit(frames))
    BY <2>1, BehindType DEF frames, n
  <2> QED
    BY <2>2, <2>3, FramePieces DEF frames
<1>8. a \o rest = (units \o behind) \o fin
  BY <1>6, <1>4, <1>5 DEF BeginsWith
<1> HIDE DEF units, behind, size
<1>9. Associate(units, behind, fin) /\ behind \o fin \in Seq(Piece)
  BY <1>1, <1>7, PiecesAssociate, ConcatProperties
<1> DEFINE more == behind \o fin
<1>10. a \o rest = units \o more /\ more \in Seq(Piece)
  BY <1>8, <1>9 DEF Associate
<1> HIDE DEF more
<1>11. head = [frame |-> k + 1, part |-> 1]
  <2>1. (units \o more)[1] = units[1]
    <3>1. Len(more) \in Nat /\ 1 \in 1..Len(units) + Len(more) /\ 1 <= Len(units)
      BY <1>7, <1>10, LenProperties
    <3> QED
      BY <1>7, <1>10, <3>1, ConcatProperties
  <2> QED
    BY <1>1, <1>2, <1>7, <1>10, <2>1
<1>12. Header(data, head) = frames[k + 1] /\ Id(head) = k + 1
  BY <1>11 DEF Header, Id, frames
<1>13. ASSUME Len(a) >= size
       PROVE  Rest(a, size) \o rest = more
  <2>1. /\ Len(units) <= Len(a) /\ a \o rest = units \o more
        /\ a \in Seq(Piece) /\ units \in Seq(Piece) /\ more \in Seq(Piece)
    BY <1>1, <1>7, <1>10, <1>13
  <2>2. SplitsAs(a, rest, units, more)
    BY <2>1, SplitJoin
  <2> QED
    BY <1>7, <2>2 DEF SplitsAs
<1> QED
  BY <1>6, <1>11, <1>12, <1>13 DEF frames, n, a, head, more, behind, size

-----------------------------------------------------------------------------
(* What the inspector makes of a frame.                                    *)

Status == {"available", "text_preview_unavailable", "binary_skipped",
           "compressed_fragmented_preview_unavailable",
           "compressed_preview_unavailable", "decoded_non_utf8", "decoded",
           "decoded_truncated"}
Reports == [frame : Nat, status : Status, right : BOOLEAN]
Inflater == [live : BOOLEAN, over : BOOLEAN, fed : Seq(Nat)]
Inspectors(frames) == [buffer : Seq(Unit(frames)), inflater : Inflater,
                       reports : Seq(Reports), lost : BOOLEAN]

IsData(data) ==
  /\ data.frames \in Seq(Frame) /\ data.garble \in Frame
  /\ data.deflate \in BOOLEAN /\ data.fresh \in BOOLEAN

Reported(s) == [i \in DOMAIN s.reports |-> s.reports[i].frame]
Wanted(frames, passed) ==
  {k \in DOMAIN frames : k \notin passed /\ frames[k].opcode \in {"text", "binary"}}

\* The context in which the inspector inflates the next message.
Known(data, inflater) == IF data.fresh \/ ~inflater.live THEN <<>> ELSE inflater.fed

\* It is that of frame k, and its stream goes on.
Knows(data, inflater, k) ==
  ~AtStreamEnd(data, inflater) /\ Known(data, inflater) = Context(data, k)

\* Undisturbed, of the frames that passed the inspector by.
Calm(data, passed, k) ==
  \/ data.fresh
  \/ \A j \in 1..k - 1 :
       LET frame == data.frames[j]
       IN  Compressed(data.frames, j) =>
             /\ j \notin passed
             /\ frame.opcode = "text" /\ frame.fin
             /\ frame.inflates # "bomb" /\ ~frame.final

Faithful(data, passed, r) ==
  /\ r.status = "compressed_preview_unavailable" => ~Calm(data, passed, r.frame)
  /\ Calm(data, passed, r.frame) => r.right

\* The inspector is behind k frames, and rest is what it has not read.
Follows(data, passed, s, rest, fin, k) ==
  /\ s \in Inspectors(data.frames)
  /\ s.buffer \o rest = Behind(data.frames, k) \o fin
  /\ passed \subseteq 1..k
  /\ Reported(s) = Ordered(k, Wanted(data.frames, passed))
  /\ data.deflate /\ Calm(data, passed, k + 1) => Knows(data, s.inflater, k + 1)
  /\ \A i \in 1..Len(s.reports) : Faithful(data, passed, s.reports[i])

ContextGrows(data, n) ==
  Context(data, n + 1)
    = Context(data, n) \o (IF Compressed(data.frames, n) THEN <<n>> ELSE <<>>)

LEMMA ContextNext ==
  ASSUME NEW data, ~data.fresh, NEW n \in Nat \ {0}
  PROVE  ContextGrows(data, n) /\ Context(data, n) \in Seq(Nat)
<1> DEFINE C(m) == {j \in 1..m : Compressed(data.frames, j)}
<1>1. n - 1 \in Nat /\ (n - 1) + 1 = n /\ (n + 1) - 1 = n
  OBVIOUS
<1>2. Context(data, n + 1) = Ordered(n, C(n)) /\ Context(data, n) = Ordered(n - 1, C(n - 1))
  BY <1>1 DEF Context
<1>3. Ordered(n - 1, C(n)) = Ordered(n - 1, C(n - 1))
  <2>1. \A k \in 1..n - 1 : k \in C(n) <=> k \in C(n - 1)
    OBVIOUS
  <2> HIDE DEF C
  <2> QED
    BY <1>1, <2>1, OrderedSame
<1>4. Grows(n - 1, C(n))
  BY <1>1, OrderedNext
<1>5. n \in C(n) <=> Compressed(data.frames, n)
  OBVIOUS
<1> HIDE DEF C
<1>6. Context(data, n) \in Seq(Nat)
  BY <1>1, <1>2, PicksType
<1> QED
  BY <1>1, <1>2, <1>3, <1>4, <1>5, <1>6 DEF Grows, ContextGrows

LEMMA ReportedMore ==
  ASSUME NEW q \in Seq(Reports), NEW r \in Reports
  PROVE  /\ Append(q, r) \in Seq(Reports)
         /\ [i \in DOMAIN Append(q, r) |-> Append(q, r)[i].frame]
              = [i \in DOMAIN q |-> q[i].frame] \o <<r.frame>>
<1> DEFINE more == Append(q, r)
           n == Len(q)
           some == [i \in DOMAIN q |-> q[i].frame]
           all == [i \in DOMAIN more |-> more[i].frame]
<1>1. /\ n \in Nat /\ DOMAIN q = 1..n /\ more \in Seq(Reports) /\ Len(more) = n + 1
      /\ DOMAIN more = 1..n + 1 /\ \A i \in 1..n : more[i] = q[i]
      /\ more[n + 1] = r
  BY LenProperties, AppendProperties
<1>2. /\ \A i \in 1..n : q[i].frame \in Nat
      /\ \A i \in 1..n + 1 : more[i].frame \in Nat
      /\ r.frame \in Nat
  <2>1. \A x \in Reports : x.frame \in Nat
    BY DEF Reports
  <2> QED
    BY <1>1, <2>1, ElementOfSeq
<1> HIDE DEF n, more
<1>3. /\ some \in Seq(Nat) /\ Len(some) = n /\ \A i \in 1..n : some[i] = q[i].frame
      /\ all \in Seq(Nat) /\ Len(all) = n + 1 /\ \A i \in 1..n + 1 : all[i] = more[i].frame
  BY <1>1, <1>2
<1> HIDE DEF some, all
<1> DEFINE k == r.frame
<1>4. k \in Nat
  BY <1>2
<1> HIDE DEF k
<1>5. /\ Append(some, k) \in Seq(Nat) /\ Len(Append(some, k)) = n + 1
      /\ \A i \in 1..n : Append(some, k)[i] = some[i]
      /\ Append(some, k)[n + 1] = k
  BY <1>3, <1>4, AppendProperties
<1>6. Append(some, k) = some \o <<k>>
  BY <1>3, <1>4, AppendIsConcat
<1>7. \A i \in 1..Len(all) : all[i] = Append(some, k)[i]
  <2>1. \A i \in 1..n + 1 : i \in 1..n \/ i = n + 1
    BY <1>1
  <2> QED
    BY <1>1, <1>3, <1>5, <2>1 DEF k
<1>8. all = Append(some, k)
  BY <1>3, <1>5, <1>7, SeqEqual
<1> QED
  BY <1>1, <1>6, <1>8 DEF more, all, some, k

\* A frame that is compressed and yet not inflated, or one that is not
\* compressed: the inflater knows what it has to, if the frame is no reason
\* that it should not.
LEMMA ContextKept ==
  ASSUME NEW data, IsData(data), NEW passed, NEW n \in 1..Len(data.frames), NEW inflater,
         data.deflate /\ Calm(data, passed, n) => Knows(data, inflater, n),
         data.deflate /\ Compressed(data.frames, n) =>
           ~(data.frames[n].opcode = "text" /\ data.frames[n].fin)
  PROVE  data.deflate /\ Calm(data, passed, n + 1) =>
           Knows(data, inflater, n + 1)
<1> SUFFICES ASSUME data.deflate, Calm(data, passed, n + 1)
             PROVE  Knows(data, inflater, n + 1)
  OBVIOUS
<1>1. CASE data.fresh
  BY <1>1 DEF Knows, AtStreamEnd, Known, Context
<1>2. CASE ~data.fresh
  <2>1. n \in Nat \ {0} /\ (n + 1) - 1 = n /\ n \in 1..n /\ 1..n - 1 \subseteq 1..n
    BY DEF IsData
  <2>2. ~Compressed(data.frames, n)
    BY <1>2, <2>1 DEF Calm
  <2>3. Calm(data, passed, n)
    BY <1>2, <2>1 DEF Calm
  <2>4. Context(data, n + 1) = Context(data, n) \o <<>> /\ Context(data, n) \in Seq(Nat)
    BY <1>2, <2>1, <2>2, ContextNext DEF ContextGrows
  <2>5. Context(data, n + 1) = Context(data, n)
    BY <2>4, ConcatEmptySeq
  <2> QED
    BY <2>3, <2>5 DEF Knows
<1> QED
  BY <1>1, <1>2

\* What the inflater makes of a compressed text message.
LEMMA Inflates ==
  ASSUME NEW data, IsData(data), NEW passed, NEW n \in 1..Len(data.frames),
         NEW inflater \in Inflater, data.deflate,
         Calm(data, passed, n) => Knows(data, inflater, n),
         data.frames[n].opcode = "text", data.frames[n].fin, data.frames[n].rsv1
  PROVE  LET result == Inflate(data, inflater, n, data.frames[n])
         IN  /\ result.inflater \in Inflater
             /\ result.right \in BOOLEAN /\ result.status \in Status
             /\ result.status = "compressed_preview_unavailable" => ~Calm(data, passed, n)
             /\ Calm(data, passed, n) => result.right
             /\ Calm(data, passed, n + 1) =>
                  Knows(data, result.inflater, n + 1)
<1> DEFINE frame == data.frames[n]
           known == Known(data, inflater)
           right == n # 0 /\ known = Context(data, n)
           fails == ~right /\ data.drift = "error"
           next == [live |-> TRUE, over |-> frame.final, fed |-> Append(known, n)]
           after == IF Drops(data, frame, fails) THEN NoInflater ELSE next
           status == IF fails THEN "compressed_preview_unavailable"
                     ELSE IF ~frame.readable THEN "decoded_non_utf8"
                     ELSE IF frame.inflates = "short" THEN "decoded"
                     ELSE "decoded_truncated"
           result == Inflate(data, inflater, n, frame)
<1>1. ~AtStreamEnd(data, inflater) =>
        result = [inflater |-> after, right |-> right, status |-> status]
  BY DEF Inflate, Known
<1>2. n \in Nat \ {0} /\ n - 1 \in Nat /\ (n + 1) - 1 = n /\ n \in 1..n /\ 1..n - 1 \subseteq 1..n
  BY DEF IsData
<1>3. known \in Seq(Nat) /\ frame.final \in BOOLEAN
  <2>1. <<>> \in Seq(Nat) /\ inflater.fed \in Seq(Nat)
    BY DEF Inflater
  <2>2. frame \in Frame
    BY ElementOfSeq DEF IsData
  <2> QED
    BY <2>1, <2>2 DEF Known, Frame
<1> HIDE DEF known
<1>4. right \in BOOLEAN /\ fails \in BOOLEAN /\ (fails => ~right)
  OBVIOUS
<1>5. Calm(data, passed, n) => right /\ ~AtStreamEnd(data, inflater)
  BY <1>2 DEF known, Knows
<1>6. Calm(data, passed, n + 1) /\ ~data.fresh =>
        Calm(data, passed, n) /\ frame.inflates # "bomb" /\ ~frame.final
  <2>1. Compressed(data.frames, n)
    BY DEF Compressed
  <2> QED
    BY <1>2, <2>1 DEF Calm
<1> HIDE DEF right, fails, result
<1>7. status \in Status /\ (status = "compressed_preview_unavailable" => fails)
  <2>1. CASE fails
    <3>1. status = "compressed_preview_unavailable"
      BY <2>1
    <3> HIDE DEF status
    <3> QED
      BY <2>1, <3>1 DEF Status
  <2>2. CASE ~fails
    <3>1. status \in {"decoded_non_utf8", "decoded", "decoded_truncated"}
      BY <2>2
    <3> HIDE DEF status
    <3> QED
      BY <3>1 DEF Status
  <2> QED
    BY <2>1, <2>2
<1> HIDE DEF status
<1>8. after \in Inflater
  <2>1. NoInflater \in Inflater
    BY DEF NoInflater, Inflater
  <2>2. next \in Inflater
    BY <1>2, <1>3, AppendProperties DEF Inflater
  <2> QED
    BY <2>1, <2>2
<1> HIDE DEF next
<1>9. ASSUME Calm(data, passed, n + 1)
      PROVE  Knows(data, after, n + 1)
  <2>1. CASE data.fresh
    BY <2>1 DEF Known, Knows, AtStreamEnd, Context
  <2>2. CASE ~data.fresh
    <3>1. Calm(data, passed, n) /\ frame.inflates # "bomb" /\ ~frame.final /\ ~fails
      BY <1>4, <1>5, <1>6, <1>9, <2>2
    <3>2. after = next
      BY <2>2, <3>1 DEF Drops
    <3> HIDE DEF after
    <3>3. Known(data, after) = Append(known, n) /\ ~AtStreamEnd(data, after)
      BY <2>2, <3>1, <3>2 DEF Known, AtStreamEnd, next
    <3>4. Append(known, n) = known \o <<n>>
      BY <1>2, <1>3, AppendIsConcat
    <3>5. Compressed(data.frames, n)
      BY DEF Compressed
    <3>6. Context(data, n + 1) = Context(data, n) \o <<n>>
      BY <1>2, <2>2, <3>5, ContextNext DEF ContextGrows
    <3>7. known = Context(data, n)
      BY <3>1 DEF known, Knows
    <3> QED
      BY <3>3, <3>4, <3>6, <3>7 DEF Knows
  <2> QED
    BY <2>1, <2>2
<1> HIDE DEF after
<1>10. CASE ~AtStreamEnd(data, inflater)
  <2>1. /\ result.inflater = after /\ result.right = right /\ result.status = status
    BY <1>1, <1>10
  <2> QED
    BY <1>4, <1>5, <1>7, <1>8, <1>9, <2>1 DEF result
<1>11. CASE AtStreamEnd(data, inflater)
  <2>1. result.inflater = inflater /\ result.right = FALSE /\ result.status = "decoded"
    BY <1>11 DEF result, Inflate
  <2>2. ~data.fresh
    BY <1>11 DEF AtStreamEnd
  <2>3. ~Calm(data, passed, n) /\ ~Calm(data, passed, n + 1)
    BY <1>5, <1>6, <1>11, <2>2
  <2> QED
    BY <2>1, <2>3 DEF result, Status
<1> QED
  BY <1>10, <1>11

After(s, buffer, inflater, reports) ==
  [buffer |-> buffer, inflater |-> inflater, reports |-> reports, lost |-> s.lost]

\* What is behind frame n = k + 1 when that is taken out and, if it is a text or a
\* binary one, reported.
LEMMA FrameTaken ==
  ASSUME NEW data, IsData(data), NEW passed, NEW s, NEW rest, NEW fin,
         NEW k \in Nat, k < Len(data.frames), Follows(data, passed, s, rest, fin, k),
         NEW buffer \in Seq(Unit(data.frames)),
         buffer \o rest = Behind(data.frames, k + 1) \o fin,
         NEW inflater \in Inflater,
         data.deflate /\ Calm(data, passed, (k + 1) + 1) =>
           Knows(data, inflater, (k + 1) + 1),
         NEW reports,
         \/ /\ reports = s.reports
            /\ data.frames[k + 1].opcode \notin {"text", "binary"}
         \/ /\ data.frames[k + 1].opcode \in {"text", "binary"}
            /\ \E r \in Reports : /\ reports = Append(s.reports, r)
                                  /\ r.frame = k + 1 /\ Faithful(data, passed, r)
  PROVE  Follows(data, passed, After(s, buffer, inflater, reports), rest, fin, k + 1)
<1> DEFINE wanted == Wanted(data.frames, passed)
           old == s.reports
           t == After(s, buffer, inflater, reports)
           list == [i \in DOMAIN old |-> old[i].frame]
<1>1. /\ old \in Seq(Reports) /\ s.lost \in BOOLEAN
      /\ passed \subseteq 1..k
      /\ list = Ordered(k, wanted)
      /\ \A i \in 1..Len(old) : Faithful(data, passed, old[i])
  BY DEF Follows, Inspectors, Reported
<1>2. /\ Len(data.frames) \in Nat /\ DOMAIN data.frames = 1..Len(data.frames)
      /\ k + 1 \in DOMAIN data.frames
  BY PartsType DEF IsData
<1>3. passed \subseteq 1..k + 1 /\ k + 1 \notin passed
  BY <1>1
<1>4. k + 1 \in wanted <=> data.frames[k + 1].opcode \in {"text", "binary"}
  BY <1>2, <1>3 DEF Wanted
<1>5. Grows(k, wanted) /\ Ordered(k, wanted) \in Seq(Nat)
  BY OrderedNext, PicksType
<1> HIDE DEF wanted
<1>6. /\ reports \in Seq(Reports)
      /\ [i \in DOMAIN reports |-> reports[i].frame] = Ordered(k + 1, wanted)
      /\ \A i \in 1..Len(reports) : Faithful(data, passed, reports[i])
  <2>1. CASE reports = s.reports /\ k + 1 \notin wanted
    <3>1. Ordered(k + 1, wanted) = Ordered(k, wanted) \o <<>>
      BY <1>5, <2>1 DEF Grows
    <3>2. Ordered(k + 1, wanted) = Ordered(k, wanted)
      BY <1>5, <3>1, ConcatEmptySeq
    <3> QED
      BY <1>1, <2>1, <3>2
  <2>2. CASE k + 1 \in wanted /\ \E r \in Reports : /\ reports = Append(s.reports, r)
                                  /\ r.frame = k + 1 /\ Faithful(data, passed, r)
    <3>1. PICK r \in Reports : /\ reports = Append(old, r)
                               /\ r.frame = k + 1 /\ Faithful(data, passed, r)
      BY <2>2
    <3>2. /\ Append(old, r) \in Seq(Reports)
          /\ [i \in DOMAIN Append(old, r) |-> Append(old, r)[i].frame] = list \o <<r.frame>>
      BY <1>1, ReportedMore
    <3>3. Ordered(k + 1, wanted) = Ordered(k, wanted) \o <<k + 1>>
      BY <1>5, <2>2 DEF Grows
    <3> HIDE DEF list, old
    <3>4. ASSUME NEW i \in 1..Len(reports)
          PROVE  Faithful(data, passed, reports[i])
      <4>1. /\ Len(old) \in Nat /\ Len(reports) = Len(old) + 1
            /\ \A j \in 1..Len(old) : reports[j] = old[j]
            /\ reports[Len(old) + 1] = r
        BY <1>1, <3>1, AppendProperties
      <4>2. i \in 1..Len(old) \/ i = Len(old) + 1
        BY <4>1
      <4> QED
        BY <1>1, <3>1, <4>1, <4>2
    <3> QED
      BY <1>1, <3>1, <3>2, <3>3, <3>4
  <2> QED
    BY <1>4, <2>1, <2>2
<1>7. t.buffer = buffer /\ t.inflater = inflater /\ t.reports = reports
  BY DEF After
<1>8. t \in Inspectors(data.frames)
  BY <1>1, <1>6 DEF After, Inspectors
<1>9. Reported(t) = Ordered(k + 1, wanted)
  BY <1>6, <1>7 DEF Reported
<1> HIDE DEF t, old, list
<1> QED
  BY <1>3, <1>6, <1>7, <1>8, <1>9 DEF Follows, t, wanted

\* What emit_frame makes of the inspector, by the kinds of frames.
Emitted(data, s, buffer, n, frame, t) ==
  \/ /\ frame.opcode \notin {"text", "binary"}
     /\ t = After(s, buffer, s.inflater, s.reports)
  \/ /\ frame.opcode \in {"text", "binary"}
     /\ data.deflate /\ frame.rsv1 => frame.opcode = "binary" \/ ~frame.fin
     /\ \E status \in Status \ {"compressed_preview_unavailable"} :
          t = After(s, buffer, s.inflater, Append(s.reports, Report(n, status, n # 0)))
  \/ /\ frame.opcode = "text" /\ data.deflate /\ frame.rsv1 /\ frame.fin
     /\ LET result == Inflate(data, s.inflater, n, frame)
        IN  t = After(s, buffer, result.inflater,
                      Append(s.reports, Report(n, result.status, result.right)))

LEMMA EmitKinds ==
  ASSUME NEW data, NEW frames, NEW s \in Inspectors(frames), NEW buffer, NEW n, NEW frame
  PROVE  Emitted(data, s, buffer, n, frame,
                 EmitFrame(data, [s EXCEPT !.buffer = buffer], n, frame))
<1> DEFINE b == [s EXCEPT !.buffer = buffer]
           t == EmitFrame(data, b, n, frame)
           result == Inflate(data, s.inflater, n, frame)
<1>1. b = After(s, buffer, s.inflater, s.reports)
  BY DEF Inspectors, After
<1>2. /\ b.inflater = s.inflater /\ b.reports = s.reports
  BY <1>1 DEF After
<1>3. ASSUME NEW q
      PROVE  [b EXCEPT !.reports = Append(@, q)]
               = After(s, buffer, s.inflater, Append(s.reports, q))
  <2> HIDE DEF b
  <2> QED
    BY <1>1 DEF After
<1>4. ASSUME NEW q, NEW i
      PROVE  [b EXCEPT !.inflater = i, !.reports = Append(@, q)]
               = After(s, buffer, i, Append(s.reports, q))
  <2> DEFINE more == Append(b.reports, q)
             one == [b EXCEPT !.inflater = i]
  <2>1. more = Append(s.reports, q)
    BY <1>2
  <2> HIDE DEF b, more
  <2>2. one = After(s, buffer, i, s.reports)
    BY <1>1 DEF After
  <2>3. [b EXCEPT !.inflater = i, !.reports = more] = [one EXCEPT !.reports = more]
    OBVIOUS
  <2> HIDE DEF one
  <2>4. [one EXCEPT !.reports = more] = After(s, buffer, i, more)
    BY <2>2 DEF After
  <2> QED
    BY <2>1, <2>3, <2>4 DEF more
<1> HIDE DEF b
<1>5. ASSUME frame.opcode \notin {"text", "binary"}
      PROVE  Emitted(data, s, buffer, n, frame, t)
  <2>1. t = b
    BY <1>5 DEF EmitFrame
  <2> HIDE DEF t
  <2> QED
    BY <1>1, <1>5, <2>1 DEF Emitted
<1>6. ASSUME frame.opcode = "binary"
      PROVE  Emitted(data, s, buffer, n, frame, t)
  <2>1. t = [b EXCEPT !.reports = Append(@, Report(n, "binary_skipped", n # 0))]
    BY <1>6 DEF EmitFrame
  <2>2. "binary_skipped" \in Status \ {"compressed_preview_unavailable"}
    BY DEF Status
  <2> HIDE DEF t
  <2> QED
    BY <1>3, <1>6, <2>1, <2>2 DEF Emitted
<1>7. ASSUME frame.opcode = "text"
      PROVE  Emitted(data, s, buffer, n, frame, t)
  <2>1. t = TextReport(data, b, n, frame)
    BY <1>7 DEF EmitFrame
  <2>2. CASE ~(data.deflate /\ frame.rsv1)
    <3> DEFINE status == IF frame.readable THEN "available" ELSE "text_preview_unavailable"
    <3>1. t = [b EXCEPT !.reports = Append(@, Report(n, status, n # 0))]
      BY <2>1, <2>2 DEF TextReport
    <3>2. status \in Status \ {"compressed_preview_unavailable"}
      BY DEF Status
    <3> HIDE DEF status, t
    <3> QED
      BY <1>3, <1>7, <2>2, <3>1, <3>2 DEF Emitted
  <2>3. CASE data.deflate /\ frame.rsv1 /\ ~frame.fin
    <3> DEFINE status == "compressed_fragmented_preview_unavailable"
    <3>1. t = [b EXCEPT !.reports = Append(@, Report(n, status, n # 0))]
      BY <2>1, <2>3 DEF TextReport
    <3>2. status \in Status \ {"compressed_preview_unavailable"}
      BY DEF Status
    <3> HIDE DEF status, t
    <3> QED
      BY <1>3, <1>7, <2>3, <3>1, <3>2 DEF Emitted
  <2>4. CASE data.deflate /\ frame.rsv1 /\ frame.fin
    <3>1. t = [b EXCEPT !.inflater = result.inflater,
                        !.reports = Append(@, Report(n, result.status, result.right))]
      BY <1>2, <2>1, <2>4 DEF TextReport
    <3> HIDE DEF result, t
    <3>2. t = After(s, buffer, result.inflater,
                    Append(s.reports, Report(n, result.status, result.right)))
      BY <1>4, <3>1
    <3> QED
      BY <1>7, <2>4, <3>2 DEF Emitted, result
  <2> QED
    BY <2>2, <2>3, <2>4
<1>8. frame.opcode \notin {"text", "binary"} \/ frame.opcode = "binary" \/ frame.opcode = "text"
  OBVIOUS
<1> HIDE DEF t
<1>9. Emitted(data, s, buffer, n, frame, t)
  BY <1>5, <1>6, <1>7, <1>8
<1> QED
  BY <1>9 DEF t, b

LEMMA PopFollows ==
  ASSUME NEW data, IsData(data), NEW passed, NEW s, NEW rest \in Seq(Piece),
         NEW fin \in Ends, NEW k \in 0..Len(data.frames),
         Follows(data, passed, s, rest, fin, k), CanPop(data, s)
  PROVE  /\ k + 1 \in 0..Len(data.frames)
         /\ Follows(data, passed, PopFrame(data, s), rest, fin, k + 1)
         /\ Len(PopFrame(data, s).buffer) < Len(s.buffer)
<1> DEFINE frames == data.frames
           n == k + 1
           frame == frames[n]
           buffer == Rest(s.buffer, frame.size)
           t == PopFrame(data, s)
<1>1. /\ s \in Inspectors(frames) /\ s.buffer \in Seq(Unit(frames)) /\ s.buffer # <<>>
      /\ s.buffer \o rest = Behind(frames, k) \o fin
      /\ s.inflater \in Inflater /\ s.reports \in Seq(Reports)
      /\ data.deflate /\ Calm(data, passed, n) => Knows(data, s.inflater, n)
      /\ frames \in Seq(Frame)
  BY DEF Follows, Inspectors, CanPop, IsData
<1>2. /\ k < Len(frames) /\ Header(data, Head(s.buffer)) = frame /\ Id(Head(s.buffer)) = n
      /\ Len(s.buffer) >= frame.size => buffer \o rest = Behind(frames, n) \o fin
  <2>1. /\ data.frames \in Seq(Frame) /\ s.buffer \in Seq(Unit(data.frames))
        /\ s.buffer \o rest = Behind(data.frames, k) \o fin /\ s.buffer # <<>>
    BY <1>1
  <2> HIDE DEF frames, n, frame, buffer
  <2>2. /\ k < Len(data.frames)
        /\ Head(s.buffer) = [frame |-> k + 1, part |-> 1]
        /\ Header(data, Head(s.buffer)) = data.frames[k + 1]
        /\ Id(Head(s.buffer)) = k + 1
        /\ Len(s.buffer) >= data.frames[k + 1].size =>
             Rest(s.buffer, data.frames[k + 1].size) \o rest = Behind(data.frames, k + 1) \o fin
    BY <2>1, FirstFrame, Zenon
  <2> QED
    BY <2>2 DEF frames, n, frame, buffer
<1>3. /\ Len(s.buffer) >= frame.size
      /\ t = EmitFrame(data, [s EXCEPT !.buffer = buffer], n, frame)
  BY <1>2 DEF CanPop, PopFrame, Rest
<1>4. /\ Len(frames) \in Nat /\ k \in Nat /\ n \in 1..Len(frames) /\ n # 0
      /\ frame \in Frame /\ frame.size \in Nat \ {0}
  <2>1. Len(frames) \in Nat /\ k \in Nat
    BY <1>1, LenProperties
  <2>2. n \in 1..Len(frames) /\ n # 0
    BY <1>2, <2>1
  <2> HIDE DEF frames, n
  <2>3. frame \in Frame /\ frame.size \in Nat \ {0}
    BY <1>1, <2>2, PartsType
  <2> QED
    BY <2>1, <2>2, <2>3
<1>5. buffer \in Seq(Unit(frames)) /\ Len(buffer) < Len(s.buffer)
  <2> HIDE DEF frame, frames
  <2>1. Len(s.buffer) \in Nat /\ frame.size \in 0..Len(s.buffer)
    BY <1>1, <1>3, <1>4, LenProperties
  <2> DEFINE a == s.buffer
             z == frame.size
  <2>2. a \in Seq(Unit(frames)) /\ z \in 0..Len(a) /\ buffer = Rest(a, z)
    BY <1>1, <2>1
  <2> HIDE DEF a, z, buffer
  <2>3. Rest(a, z) \in Seq(Unit(frames)) /\ Len(Rest(a, z)) = Len(a) - z
    BY <2>2, Cut
  <2>4. Len(a) \in Nat /\ z \in Nat \ {0}
    BY <1>4, <2>1 DEF a, z
  <2>5. buffer \in Seq(Unit(frames)) /\ Len(buffer) < Len(a)
    BY <2>2, <2>3, <2>4
  <2> QED
    BY <2>5 DEF a
<1>6. Emitted(data, s, buffer, n, frame, t)
  BY <1>1, <1>3, EmitKinds
<1>7. buffer \o rest = Behind(frames, n) \o fin
  BY <1>2, <1>3
<1>8. data.deflate /\ Compressed(frames, n) /\ frame.opcode \in {"text", "binary"} => frame.rsv1
  BY DEF Compressed
<1>9. n \in Nat /\ (n # 0) = TRUE
  BY <1>4
<1> HIDE DEF buffer, t
<1>10. \E inflater \in Inflater : \E reports :
         /\ t = After(s, buffer, inflater, reports)
         /\ data.deflate /\ Calm(data, passed, n + 1) => Knows(data, inflater, n + 1)
         /\ \/ reports = s.reports /\ frame.opcode \notin {"text", "binary"}
            \/ /\ frame.opcode \in {"text", "binary"}
               /\ \E r \in Reports : /\ reports = Append(s.reports, r)
                                     /\ r.frame = n /\ Faithful(data, passed, r)
  <2>1. ASSUME data.deflate /\ Compressed(frames, n) => ~(frame.opcode = "text" /\ frame.fin)
        PROVE  data.deflate /\ Calm(data, passed, n + 1) =>
                 Knows(data, s.inflater, n + 1)
    BY <1>1, <1>4, <2>1, ContextKept
  <2>2. CASE /\ frame.opcode \notin {"text", "binary"}
             /\ t = After(s, buffer, s.inflater, s.reports)
    <3>1. data.deflate /\ Calm(data, passed, n + 1) =>
            Knows(data, s.inflater, n + 1)
      BY <2>1, <2>2
    <3> QED
      BY <1>1, <2>2, <3>1
  <2>3. CASE /\ frame.opcode \in {"text", "binary"}
             /\ data.deflate /\ frame.rsv1 => frame.opcode = "binary" \/ ~frame.fin
             /\ \E status \in Status \ {"compressed_preview_unavailable"} :
                  t = After(s, buffer, s.inflater, Append(s.reports, Report(n, status, n # 0)))
    <3>1. PICK status \in Status \ {"compressed_preview_unavailable"} :
            t = After(s, buffer, s.inflater, Append(s.reports, Report(n, status, n # 0)))
      BY <2>3
    <3> DEFINE r == Report(n, status, TRUE)
    <3>2. Report(n, status, n # 0) = r
      BY <1>9
    <3>3. r \in Reports /\ r.frame = n /\ Faithful(data, passed, r)
      BY <1>9 DEF Report, Reports, Faithful
    <3>4. data.deflate /\ Calm(data, passed, n + 1) =>
            Knows(data, s.inflater, n + 1)
      BY <1>8, <2>1, <2>3
    <3> HIDE DEF r
    <3> QED
      BY <1>1, <2>3, <3>1, <3>2, <3>3, <3>4
  <2>4. CASE /\ frame.opcode = "text" /\ data.deflate /\ frame.rsv1 /\ frame.fin
             /\ LET result == Inflate(data, s.inflater, n, frame)
                IN  t = After(s, buffer, result.inflater,
                              Append(s.reports, Report(n, result.status, result.right)))
    <3> DEFINE result == Inflate(data, s.inflater, n, frame)
               r == Report(n, result.status, result.right)
    <3>1. /\ result.inflater \in Inflater
          /\ result.right \in BOOLEAN /\ result.status \in Status
          /\ result.status = "compressed_preview_unavailable" => ~Calm(data, passed, n)
          /\ Calm(data, passed, n) => result.right
          /\ Calm(data, passed, n + 1) => Knows(data, result.inflater, n + 1)
      BY <1>1, <1>4, <2>4, Inflates
    <3>2. t = After(s, buffer, result.inflater, Append(s.reports, r))
      BY <2>4
    <3> HIDE DEF result
    <3>3. r \in Reports /\ r.frame = n /\ Faithful(data, passed, r)
      BY <1>9, <3>1 DEF Report, Reports, Faithful
    <3> HIDE DEF r
    <3> QED
      BY <2>4, <3>1, <3>2, <3>3
  <2> QED
    BY <1>6, <2>2, <2>3, <2>4 DEF Emitted
<1>14. PICK inflater \in Inflater : \E reports :
         /\ t = After(s, buffer, inflater, reports)
         /\ data.deflate /\ Calm(data, passed, n + 1) => Knows(data, inflater, n + 1)
         /\ \/ reports = s.reports /\ frame.opcode \notin {"text", "binary"}
            \/ /\ frame.opcode \in {"text", "binary"}
               /\ \E r \in Reports : /\ reports = Append(s.reports, r)
                                     /\ r.frame = n /\ Faithful(data, passed, r)
  BY <1>10
<1>11. PICK reports :
         /\ t = After(s, buffer, inflater, reports)
         /\ data.deflate /\ Calm(data, passed, n + 1) => Knows(data, inflater, n + 1)
         /\ \/ reports = s.reports /\ frame.opcode \notin {"text", "binary"}
            \/ /\ frame.opcode \in {"text", "binary"}
               /\ \E r \in Reports : /\ reports = Append(s.reports, r)
                                     /\ r.frame = n /\ Faithful(data, passed, r)
  BY <1>14
<1>12. Follows(data, passed, After(s, buffer, inflater, reports), rest, fin, n)
  BY <1>2, <1>4, <1>5, <1>7, <1>11, FrameTaken
<1>13. t.buffer = buffer
  BY <1>11 DEF After
<1> QED
  BY <1>4, <1>5, <1>11, <1>12, <1>13 DEF t

\* The loop of ingest ends when no frame is complete.
Caught(data, passed, t, rest, fin) ==
  /\ ~CanPop(data, t)
  /\ \E j \in 0..Len(data.frames) : Follows(data, passed, t, rest, fin, j)

LEMMA DrainFollows ==
  ASSUME NEW data, IsData(data), NEW passed, NEW s, NEW rest \in Seq(Piece),
         NEW fin \in Ends, NEW k \in 0..Len(data.frames),
         Follows(data, passed, s, rest, fin, k)
  PROVE  Caught(data, passed, Drain(data, s), rest, fin)
<1> DEFINE m == Len(s.buffer)
           after == CHOOSE f : Drains(f, data, s, m)
           Good(t, i) ==
             /\ \E j \in 0..Len(data.frames) : Follows(data, passed, t, rest, fin, j)
             /\ ~CanPop(data, t) \/ Len(t.buffer) <= m - i
           Kept == {i \in Nat : i \in 0..m => Good(after[i], i)}
<1>1. m \in Nat
  BY LenProperties DEF Follows, Inspectors
<1>2. Drains(after, data, s, m)
  <2>1. \E f : Drains(f, data, s, m)
    BY <1>1, DrainingExists
  <2> QED
    BY <2>1
<1>3. Drain(data, s) = after[m]
  BY DEF Drain, Drains
<1>4. ASSUME NEW t, NEW j \in 0..Len(data.frames), Follows(data, passed, t, rest, fin, j)
      PROVE  /\ Len(t.buffer) \in Nat /\ (t.buffer = <<>> <=> Len(t.buffer) = 0)
             /\ CanPop(data, t) =>
                  /\ \E l \in 0..Len(data.frames) :
                       Follows(data, passed, PopFrame(data, t), rest, fin, l)
                  /\ Len(PopFrame(data, t).buffer) \in Nat
                  /\ Len(PopFrame(data, t).buffer) < Len(t.buffer)
  <2>1. \A u, i : Follows(data, passed, u, rest, fin, i) => u.buffer \in Seq(Unit(data.frames))
    BY DEF Follows, Inspectors
  <2>2. t.buffer \in Seq(Unit(data.frames))
    BY <1>4, <2>1
  <2>3. Len(t.buffer) \in Nat /\ (t.buffer = <<>> <=> Len(t.buffer) = 0)
    BY <2>2, EmptySeq, LenProperties
  <2>4. ASSUME CanPop(data, t)
        PROVE  /\ j + 1 \in 0..Len(data.frames)
               /\ Follows(data, passed, PopFrame(data, t), rest, fin, j + 1)
               /\ Len(PopFrame(data, t).buffer) < Len(t.buffer)
    BY <1>4, <2>4, PopFollows
  <2>5. ASSUME CanPop(data, t)
        PROVE  Len(PopFrame(data, t).buffer) \in Nat
    BY <2>1, <2>4, <2>5, LenProperties
  <2> QED
    BY <2>3, <2>4, <2>5
<1> HIDE DEF after, m
<1>5. 0 \in Kept
  <2>1. after[0] = s
    BY <1>1, <1>2 DEF Drains
  <2>2. Good(s, 0)
    BY <1>1 DEF m
  <2> QED
    BY <2>1, <2>2
<1>6. ASSUME NEW i \in Nat, i \in Kept
      PROVE  i + 1 \in Kept
  <2> SUFFICES ASSUME i + 1 \in 0..m
               PROVE  Good(after[i + 1], i + 1)
    OBVIOUS
  <2>1. i \in 0..m /\ (i + 1) - 1 = i /\ i + 1 # 0
    BY <1>1
  <2>2. Good(after[i], i)
    BY <1>6, <2>1
  <2>3. after[i + 1] = IF CanPop(data, after[i]) THEN PopFrame(data, after[i]) ELSE after[i]
    BY <1>2, <2>1 DEF Drains
  <2>4. PICK j \in 0..Len(data.frames) : Follows(data, passed, after[i], rest, fin, j)
    BY <2>2
  <2>5. CASE CanPop(data, after[i])
    <3>1. /\ Len(after[i].buffer) \in Nat
          /\ \E l \in 0..Len(data.frames) :
               Follows(data, passed, PopFrame(data, after[i]), rest, fin, l)
          /\ Len(PopFrame(data, after[i]).buffer) \in Nat
          /\ Len(PopFrame(data, after[i]).buffer) < Len(after[i].buffer)
      BY <1>4, <2>4, <2>5
    <3>2. Len(after[i].buffer) <= m - i
      BY <2>2, <2>5
    <3>3. after[i + 1] = PopFrame(data, after[i])
      BY <2>3, <2>5
    <3>4. Len(PopFrame(data, after[i]).buffer) <= m - (i + 1)
      BY <1>1, <3>1, <3>2
    <3> QED
      BY <3>1, <3>2, <3>3, <3>4
  <2>6. CASE ~CanPop(data, after[i])
    BY <2>2, <2>3, <2>6
  <2> QED
    BY <2>5, <2>6
<1>7. Nat \subseteq Kept
  <2> HIDE DEF Kept
  <2> QED
    BY <1>5, <1>6, InductionOverNat
<1> DEFINE t == after[m]
<1>8. Good(t, m)
  BY <1>1, <1>7
<1> HIDE DEF t, Kept
<1>9. ~CanPop(data, t)
  <2> SUFFICES ASSUME Len(t.buffer) <= 0
               PROVE  ~CanPop(data, t)
    BY <1>1, <1>8
  <2>1. PICK j \in 0..Len(data.frames) : Follows(data, passed, t, rest, fin, j)
    BY <1>8
  <2>2. t.buffer = <<>>
    BY <1>4, <2>1
  <2> QED
    BY <2>2 DEF CanPop
<1>10. Caught(data, passed, t, rest, fin)
  BY <1>8, <1>9 DEF Caught
<1> QED
  BY <1>3, <1>10 DEF t

\* ingest, unless it meets a frame over the cap, goes on to follow the frames.
LEMMA IngestFollows ==
  ASSUME NEW data, IsData(data), NEW passed, NEW s, NEW units \in Seq(Unit(data.frames)),
         NEW rest \in Seq(Piece), NEW fin \in Ends, ~Ingest(data, s, units).lost,
         Caught(data, passed, s, units \o rest, fin)
  PROVE  Caught(data, passed, Ingest(data, s, units), rest, fin)
<1> DEFINE frames == data.frames
           fed == [s EXCEPT !.buffer = @ \o units]
           drained == Drain(data, fed)
<1>1. PICK k \in 0..Len(data.frames) : Follows(data, passed, s, units \o rest, fin, k)
  BY DEF Caught
<1>2. s \in Inspectors(frames) /\ s.buffer \in Seq(Unit(frames))
  BY <1>1 DEF Follows, Inspectors
<1>3. fed.buffer = s.buffer \o units /\ fed.inflater = s.inflater /\ fed.reports = s.reports
  BY <1>2 DEF Inspectors
<1>4. fed \in Inspectors(frames)
  BY <1>2, ConcatProperties DEF Inspectors
<1>5. fed.buffer \o rest = s.buffer \o (units \o rest)
  <2>1. frames \in Seq(Frame)
    BY DEF IsData
  <2>2. s.buffer \in Seq(Piece) /\ units \in Seq(Piece)
    BY <1>2, <2>1, FramePieces
  <2> HIDE DEF fed
  <2>3. Associate(s.buffer, units, rest)
    BY <2>2, PiecesAssociate
  <2> QED
    BY <1>3, <2>3 DEF Associate
<1>6. Follows(data, passed, fed, rest, fin, k)
  <2> HIDE DEF fed
  <2> QED
    BY <1>1, <1>3, <1>4, <1>5 DEF Follows, Reported
<1> HIDE DEF fed
<1>7. Caught(data, passed, drained, rest, fin)
  BY <1>6, DrainFollows
<1>8. Ingest(data, s, units) = IF Len(drained.buffer) > MaxBuffer
                               THEN [drained EXCEPT !.buffer = <<>>, !.lost = TRUE]
                               ELSE drained
  BY DEF Ingest, fed
<1>9. drained \in Inspectors(frames)
  BY <1>7 DEF Caught, Follows
<1> HIDE DEF drained
<1>10. Ingest(data, s, units) = drained
  <2>1. [drained EXCEPT !.buffer = <<>>, !.lost = TRUE].lost = TRUE
    BY <1>9 DEF Inspectors
  <2> QED
    BY <1>8, <2>1
<1> QED
  BY <1>7, <1>10

-----------------------------------------------------------------------------
(* Where the inspector begins, and what it has when the peer has it.       *)

\* The wire up to the end of frame k.
Before(frames, k, before) ==
  /\ before \in Seq(Unit(frames))
  /\ Wire(frames) = before \o Behind(frames, k)
  /\ \A i \in 1..Len(before) : before[i].frame \in 1..k
  /\ \A j \in 1..k : \E i \in 1..Len(before) : before[i].frame = j

LEMMA BeforeExists ==
  ASSUME NEW frames \in Seq(Frame), NEW k \in 0..Len(frames)
  PROVE  \E before : Before(frames, k, before)
<1> DEFINE n == Len(frames)
           Done == {m \in Nat : m <= n => \E before : Before(frames, m, before)}
<1>1. n \in Nat
  BY PartsType
<1>2. 0 \in Done
  <2> DEFINE wire == Wire(frames)
  <2>1. wire \in Seq(Unit(frames)) /\ <<>> \in Seq(Unit(frames)) /\ Len(<<>>) = 0
    BY WireType, EmptySeq
  <2> HIDE DEF wire
  <2>2. wire = <<>> \o wire
    BY <2>1, ConcatEmptySeq
  <2>3. Before(frames, 0, <<>>)
    BY <2>1, <2>2, BehindEnds DEF Before, wire
  <2> QED
    BY <2>3
<1>3. ASSUME NEW m \in Nat, m \in Done
      PROVE  m + 1 \in Done
  <2> SUFFICES ASSUME m + 1 <= n
               PROVE  \E before : Before(frames, m + 1, before)
    OBVIOUS
  <2>1. m < n /\ m <= n /\ m + 1 \in 1..n /\ m + 1 \in 0..n
    BY <1>1
  <2>2. PICK before : Before(frames, m, before)
    BY <1>3, <2>1
  <2> DEFINE units == Units(m + 1, frames[m + 1])
             size == frames[m + 1].size
             behind == Behind(frames, m + 1)
             all == before \o units
             U == Unit(frames)
  <2>3. /\ units \in Seq(U) /\ Len(units) = size /\ size \in Nat \ {0}
        /\ \A i \in 1..size : units[i] = [frame |-> m + 1, part |-> i]
    BY <2>1, PartsType
  <2>4. behind \in Seq(U) /\ before \in Seq(U)
    BY <2>1, <2>2, BehindType DEF Before
  <2>5. Wire(frames) = before \o (units \o behind)
    BY <2>1, <2>2, BehindNext DEF Before, BeginsWith
  <2>6. /\ \A i \in 1..Len(before) : before[i].frame \in 1..m
        /\ \A j \in 1..m : \E i \in 1..Len(before) : before[i].frame = j
    BY <2>2 DEF Before
  <2>7. \A i \in 1..size : units[i].frame = m + 1
    <3> SUFFICES ASSUME NEW i \in 1..size
                 PROVE  units[i].frame = m + 1
      OBVIOUS
    <3>1. units[i] = [frame |-> m + 1, part |-> i]
      BY <2>3
    <3> QED
      BY <3>1
  <2> HIDE DEF units, behind, size, U
  <2>8. Associate(before, units, behind)
    BY <2>3, <2>4, JoinsAssociate
  <2>9. /\ all \in Seq(U) /\ Len(before) \in Nat /\ Len(all) = Len(before) + size
        /\ \A i \in 1..Len(before) + size :
             all[i] = IF i <= Len(before) THEN before[i] ELSE units[i - Len(before)]
    <3>1. /\ all \in Seq(U) /\ Len(all) = Len(before) + Len(units)
          /\ \A i \in 1..Len(before) + Len(units) :
               all[i] = IF i <= Len(before) THEN before[i] ELSE units[i - Len(before)]
      <4>1. units \in Seq(U) /\ before \in Seq(U)
        BY <2>3, <2>4
      <4> QED
        BY <4>1, ConcatProperties
    <3>2. Len(before) \in Nat
      BY <2>4, LenProperties
    <3> HIDE DEF all
    <3> QED
      BY <2>3, <3>1, <3>2
  <2>10. Wire(frames) = all \o behind
    BY <2>5, <2>8 DEF Associate
  <2> HIDE DEF all
  <2>11. ASSUME NEW i \in 1..Len(all)
         PROVE  all[i].frame \in 1..m + 1
    <3>1. CASE i <= Len(before)
      <4>1. i \in 1..Len(before) /\ all[i] = before[i]
        BY <2>9, <3>1
      <4>2. all[i].frame \in 1..m
        BY <2>6, <4>1
      <4> QED
        BY <4>2
    <3>2. CASE ~(i <= Len(before))
      <4>1. i - Len(before) \in 1..size /\ all[i] = units[i - Len(before)]
        BY <2>3, <2>9, <3>2
      <4> QED
        BY <2>7, <4>1
    <3> QED
      BY <3>1, <3>2
  <2>12. ASSUME NEW j \in 1..m + 1
         PROVE  \E i \in 1..Len(all) : all[i].frame = j
    <3>1. CASE j \in 1..m
      <4>1. PICK i \in 1..Len(before) : before[i].frame = j
        BY <2>6, <3>1
      <4>2. i \in 1..Len(all) /\ all[i] = before[i]
        BY <2>3, <2>9
      <4> QED
        BY <4>1, <4>2
    <3>2. CASE j = m + 1
      <4> DEFINE i == Len(before) + 1
      <4>1. i \in 1..Len(all) /\ ~(i <= Len(before)) /\ i - Len(before) = 1 /\ 1 \in 1..size
        BY <2>3, <2>9
      <4>2. all[i] = units[1]
        BY <2>9, <4>1
      <4> HIDE DEF i
      <4> QED
        BY <2>7, <3>2, <4>1, <4>2
    <3> QED
      BY <3>1, <3>2
  <2>13. Before(frames, m + 1, all)
    BY <2>9, <2>10, <2>11, <2>12 DEF Before, U, behind
  <2> QED
    BY <2>13
<1>4. Nat \subseteq Done
  <2> HIDE DEF Done
  <2> QED
    BY <1>2, <1>3, InductionOverNat
<1> QED
  BY <1>1, <1>4

\* What was written ahead of an inspector that begins at a header are whole
\* frames.
LEMMA WholeFrames ==
  ASSUME NEW frames \in Seq(Frame), NEW early \in 0..Len(Wire(frames)),
         early = Len(Wire(frames)) \/ Wire(frames)[early + 1].part = 1
  PROVE  \E k \in 0..Len(frames) :
           /\ Rest(Wire(frames), early) = Behind(frames, k)
           /\ {Wire(frames)[i].frame : i \in 1..early} = 1..k
<1> DEFINE wire == Wire(frames)
           n == Len(frames)
           U == Unit(frames)
<1>1. wire \in Seq(U) /\ Len(wire) \in Nat /\ n \in Nat
  BY WireType, PartsType, LenProperties
<1>2. ASSUME NEW k \in 0..n, NEW before, Before(frames, k, before), early = Len(before)
      PROVE  /\ Rest(wire, early) = Behind(frames, k)
             /\ {wire[i].frame : i \in 1..early} = 1..k
  <2> DEFINE behind == Behind(frames, k)
  <2>1. behind \in Seq(U) /\ before \in Seq(U) /\ wire = before \o behind
    BY <1>2, BehindType DEF Before
  <2>2. /\ \A i \in 1..Len(before) : before[i].frame \in 1..k
        /\ \A j \in 1..k : \E i \in 1..Len(before) : before[i].frame = j
    BY <1>2 DEF Before
  <2> HIDE DEF behind, wire, U
  <2>3. <<>> \in Seq(U) /\ wire \o <<>> = before \o behind /\ Len(before) <= Len(wire)
    <3>1. wire \o <<>> = wire /\ <<>> \in Seq(U)
      BY <1>1, ConcatEmptySeq
    <3>2. Len(before) <= Len(wire)
      BY <1>2 DEF wire
    <3> QED
      BY <2>1, <3>1, <3>2
  <2>4. SplitsAs(wire, <<>>, before, behind)
    BY <1>1, <2>1, <2>3, SplitJoin
  <2>5. Rest(wire, early) \in Seq(U)
    BY <1>1, Cut DEF wire
  <2>6. Rest(wire, early) = behind
    BY <1>2, <2>4, <2>5, ConcatEmptySeq DEF SplitsAs
  <2>7. \A i \in 1..early : wire[i] = before[i]
    BY <1>2, <2>4 DEF SplitsAs
  <2>8. {wire[i].frame : i \in 1..early} = 1..k
    <3>1. \A i \in 1..early : wire[i].frame \in 1..k
      BY <1>2, <2>2, <2>7
    <3>2. \A j \in 1..k : \E i \in 1..early : wire[i].frame = j
      BY <1>2, <2>2, <2>7
    <3> QED
      BY <3>1, <3>2
  <2> QED
    BY <2>6, <2>8 DEF behind
<1>3. CASE early = Len(wire)
  <2>1. n \in 0..n
    BY <1>1
  <2>2. PICK before : Before(frames, n, before)
    BY <2>1, BeforeExists
  <2>3. wire = before
    <3>1. wire = before \o <<>> /\ before \in Seq(U)
      BY <2>2, BehindEnds DEF Before
    <3> QED
      BY <3>1, ConcatEmptySeq
  <2> HIDE DEF wire, n
  <2> QED
    BY <1>2, <1>3, <2>1, <2>2, <2>3 DEF wire, n
<1>4. CASE early # Len(wire)
  <2> DEFINE u == wire[early + 1]
             k == u.frame - 1
             m == u.frame
  <2>1. early + 1 \in 1..Len(wire) /\ early \in Nat
    BY <1>1, <1>4
  <2>2. u \in U /\ u.part = 1
    BY <1>1, <1>4, <2>1, ElementOfSeq
  <2>3. u = [frame |-> m, part |-> 1] /\ m \in 1..n
    BY <2>2 DEF Unit
  <2>4. k \in 0..n /\ k \in Nat /\ k < n /\ k + 1 = m
    BY <1>1, <2>3
  <2> HIDE DEF u, k, m
  <2>5. PICK before : Before(frames, k, before)
    BY <2>4, BeforeExists
  <2> DEFINE units == Units(m, frames[m])
             later == Behind(frames, m)
             behind == Behind(frames, k)
  <2>6. /\ units \in Seq(U) /\ Len(units) \in Nat \ {0}
        /\ units[1] = [frame |-> m, part |-> 1]
    <3>1. 1 \in 1..frames[m].size /\ frames[m].size \in Nat \ {0}
      BY <2>3, PartsType
    <3> QED
      BY <2>3, <3>1, PartsType
  <2>7. later \in Seq(U) /\ behind \in Seq(U) /\ before \in Seq(U) /\ wire = before \o behind
    <3>1. m \in 0..Len(frames) /\ k \in 0..Len(frames)
      BY <1>1, <2>3, <2>4
    <3>2. later \in Seq(U) /\ behind \in Seq(U)
      BY <3>1, BehindType
    <3> QED
      BY <2>5, <3>2 DEF Before
  <2>8. behind = units \o later
    BY <2>4, BehindNext DEF BeginsWith
  <2> HIDE DEF units, later, behind
  <2>9. Len(behind) \in Nat \ {0} /\ behind[1] = u
    <3>1. Len(behind) = Len(units) + Len(later) /\ Len(later) \in Nat
      BY <2>6, <2>7, <2>8, LenProperties, ConcatProperties
    <3>2. 1 \in 1..Len(units) + Len(later) /\ 1 <= Len(units)
      BY <2>6, <3>1
    <3>3. (units \o later)[1] = units[1]
      BY <2>6, <2>7, <3>2, ConcatProperties
    <3> QED
      BY <2>3, <2>6, <2>8, <3>1, <3>3
  <2>10. Len(before) + 1 \in 1..Len(wire) /\ wire[Len(before) + 1] = u
    <3>1. /\ Len(before) \in Nat
          /\ Len(before) + 1 \in 1..Len(before) + Len(behind)
          /\ ~(Len(before) + 1 <= Len(before)) /\ (Len(before) + 1) - Len(before) = 1
      BY <2>7, <2>9, LenProperties
    <3>2. /\ (before \o behind)[Len(before) + 1] = behind[1]
          /\ Len(before \o behind) = Len(before) + Len(behind)
      BY <2>7, <3>1, ConcatProperties
    <3> QED
      BY <2>7, <2>9, <3>1, <3>2
  <2>11. \A i, j \in 1..Len(wire) : wire[i] = wire[j] => i = j
    <3>1. 0 \in 0..Len(frames)
      BY <1>1
    <3>2. Once(Behind(frames, 0), Rem(frames, 0))
      BY <3>1, BehindOnce
    <3> QED
      BY <3>2, BehindEnds DEF Once
  <2>12. early = Len(before)
    <3>1. early + 1 = Len(before) + 1
      BY <2>1, <2>10, <2>11 DEF u
    <3>2. Len(before) \in Nat
      BY <2>7, LenProperties
    <3> QED
      BY <2>1, <3>1, <3>2
  <2> HIDE DEF wire, n
  <2> QED
    BY <1>2, <2>4, <2>5, <2>12 DEF wire, n
<1> QED
  BY <1>3, <1>4

LEMMA DataOfDirection ==
  ASSUME world \in Worlds, NEW d \in Directions
  PROVE  IsData(Data(d)) /\ Data(d).frames = world.frames[d]
<1>1. world.frames[d] \in Seq(Frame) /\ world.garble \in Frame
  BY UnitsArePieces
<1>2. \A compression, direction : NoContextTakeover(compression, direction) \in BOOLEAN
  BY DEF NoContextTakeover
<1> QED
  BY <1>1, <1>2 DEF Data, IsData

\* What the peer has still to send; and the inductive invariant.
Left(d) == IF closed[d] THEN <<>> ELSE unsent[d]

Reporting(d) ==
  /\ ~world.capture => inspector[d] = New
  /\ world.capture /\ Aligned(d) =>
       \E fin \in Ends :
         /\ ~closed[d] => fin = <<>>
         /\ Caught(Data(d), Passed(d), inspector[d], inbound[d] \o Left(d), fin)

ReportInv == \A d \in Directions : Reporting(d)

\* An inspector that has seen nothing yet is behind the frames that passed it by.
LEMMA NewFollows ==
  ASSUME NEW data, IsData(data), NEW k \in 0..Len(data.frames), NEW rest,
         rest = Behind(data.frames, k)
  PROVE  Follows(data, 1..k, New, rest, <<>>, k) /\ ~CanPop(data, New)
<1> DEFINE frames == data.frames
           wanted == Wanted(frames, 1..k)
           behind == Behind(frames, k)
<1>1. /\ New.buffer = <<>> /\ New.reports = <<>> /\ New.inflater = NoInflater
      /\ <<>> \in Seq(Reports) /\ <<>> \in Seq(Unit(frames)) /\ <<>> \in Seq(Nat) /\ Len(<<>>) = 0
  BY EmptySeq DEF New
<1>2. New \in Inspectors(frames)
  BY <1>1 DEF New, NoInflater, Inspectors, Inflater
<1>3. frames \in Seq(Frame) /\ Len(frames) \in Nat /\ k \in Nat
  <2>1. frames \in Seq(Frame)
    BY DEF IsData
  <2> QED
    BY <2>1, LenProperties
<1>4. behind \in Seq(Unit(frames))
  BY <1>3, BehindType
<1>5. <<>> \o rest = behind \o <<>>
  <2> HIDE DEF behind, frames
  <2> QED
    BY <1>4, ConcatEmptySeq DEF behind, frames
<1>6. Reported(New) = Ordered(k, wanted)
  <2>1. \A j \in 1..k : j \notin wanted
    BY DEF Wanted
  <2> HIDE DEF wanted
  <2>2. Ordered(k, wanted) = <<>>
    BY <1>3, <2>1, OrderedNone
  <2>3. DOMAIN New.reports = {} /\ Reported(New) = [i \in {} |-> New.reports[i].frame]
    BY <1>1 DEF Reported
  <2>4. Reported(New) = <<>>
    BY <2>3
  <2> QED
    BY <2>2, <2>4
<1>7. ASSUME Calm(data, 1..k, k + 1)
      PROVE  Knows(data, New.inflater, k + 1)
  <2>1. Known(data, New.inflater) = <<>> /\ ~AtStreamEnd(data, New.inflater)
    BY <1>1 DEF Known, AtStreamEnd, NoInflater
  <2>2. CASE data.fresh
    BY <2>1, <2>2 DEF Knows, Context
  <2>3. CASE ~data.fresh
    <3>1. (k + 1) - 1 = k
      BY <1>3
    <3>2. \A j \in 1..k : ~Compressed(frames, j)
      BY <1>7, <2>3, <3>1 DEF Calm
    <3> DEFINE C == {j \in 1..k : Compressed(frames, j)}
    <3>3. \A j \in 1..k : j \notin C
      BY <3>2
    <3>4. Context(data, k + 1) = Ordered(k, C)
      BY <2>3, <3>1 DEF Context
    <3> HIDE DEF C
    <3> QED
      BY <1>3, <2>1, <3>3, <3>4, OrderedNone DEF Knows
  <2> QED
    BY <2>2, <2>3
<1>8. ~CanPop(data, New)
  BY <1>1 DEF CanPop
<1>9. \A i \in 1..Len(New.reports) : Faithful(data, 1..k, New.reports[i])
  BY <1>1
<1> QED
  BY <1>1, <1>2, <1>5, <1>6, <1>7, <1>8, <1>9 DEF Follows

LEMMA ReportingFirst ==
  ASSUME Init, NEW d \in Directions
  PROVE  Reporting(d)
<1> DEFINE frames == world.frames[d]
           wire == Wire(frames)
           early == world.early[d]
<1>1. /\ world \in Worlds /\ inspector[d] = New /\ inbound[d] = <<>>
      /\ ~closed[d] /\ unsent[d] = Rest(wire, early)
  BY DEF Init
<1>2. IsData(Data(d)) /\ Data(d).frames = frames /\ frames \in Seq(Frame)
  BY <1>1, DataOfDirection, UnitsArePieces
<1>3. early \in 0..Len(wire)
  BY <1>1, WorldsAssumption
<1> SUFFICES ASSUME Aligned(d)
             PROVE  Caught(Data(d), Passed(d), inspector[d], inbound[d] \o Left(d), <<>>)
  BY <1>1 DEF Reporting, Ends
<1>4. early = Len(wire) \/ wire[early + 1].part = 1
  BY DEF Aligned
<1>5. PICK k \in 0..Len(frames) :
        Rest(wire, early) = Behind(frames, k) /\ {wire[i].frame : i \in 1..early} = 1..k
  BY <1>2, <1>3, <1>4, WholeFrames
<1>6. Passed(d) = 1..k
  BY <1>5 DEF Passed
<1>7. inbound[d] \o Left(d) = Behind(frames, k)
  <2>1. Rest(wire, early) \in Seq(Unit(frames))
    BY <1>2, <1>5, BehindType
  <2>2. inbound[d] \o Left(d) = <<>> \o Rest(wire, early)
    BY <1>1 DEF Left
  <2> HIDE DEF wire, early
  <2> QED
    BY <1>5, <2>1, <2>2, ConcatEmptySeq DEF wire, early
<1>8. k \in 0..Len(Data(d).frames)
  BY <1>2
<1> HIDE DEF wire, early, frames
<1>9. /\ Follows(Data(d), 1..k, New, inbound[d] \o Left(d), <<>>, k)
      /\ ~CanPop(Data(d), New)
  BY <1>2, <1>7, <1>8, NewFollows
<1> QED
  BY <1>1, <1>6, <1>8, <1>9 DEF Caught

\* A step after which the inspector is as it was, and so is what it has not read.
LEMMA StillReporting ==
  ASSUME NEW d \in Directions, Reporting(d), world' = world,
         inspector'[d] = inspector[d], closed'[d] = closed[d],
         (inbound[d] \o Left(d))' = inbound[d] \o Left(d)
  PROVE  Reporting(d)'
<1>1. Data(d)' = Data(d) /\ Passed(d)' = Passed(d) /\ Aligned(d)' = Aligned(d)
  BY DEF Data, Passed, Aligned
<1> DEFINE rest == inbound[d] \o Left(d)
<1>2. rest' = rest
  OBVIOUS
<1>3. /\ ~world.capture => inspector[d] = New
      /\ world.capture /\ Aligned(d) =>
           \E fin \in Ends : /\ ~closed[d] => fin = <<>>
                             /\ Caught(Data(d), Passed(d), inspector[d], rest, fin)
  BY DEF Reporting
<1>4. /\ ~world'.capture => inspector'[d] = New
      /\ world'.capture /\ Aligned(d)' =>
           \E fin \in Ends : /\ ~closed'[d] => fin = <<>>
                             /\ Caught(Data(d)', Passed(d)', inspector'[d], rest', fin)
  <2> HIDE DEF rest
  <2> QED
    BY <1>1, <1>2, <1>3
<1> QED
  BY <1>4 DEF Reporting, Caught, CanPop, Follows

LEMMA SendReports ==
  ASSUME TunnelInv, NEW d \in Directions, Reporting(d), Send(d)
  PROVE  Reporting(d)'
<1>1. /\ Queues /\ ~closed[d] /\ unsent[d] # <<>>
  BY DEF TunnelInv, InOrder, Readable, Send
<1>2. /\ inbound[d] \in Seq(Piece) /\ unsent[d] \in Seq(Piece)
      /\ Append(inbound[d], Head(unsent[d])) \o Tail(unsent[d]) = inbound[d] \o unsent[d]
  BY <1>1, QueueTypes, HeadMoves
<1>3. /\ inbound'[d] = Append(inbound[d], Head(unsent[d])) /\ unsent'[d] = Tail(unsent[d])
      /\ world' = world /\ closed' = closed /\ inspector' = inspector
  BY <1>1 DEF Send, Queues
<1>4. (inbound[d] \o Left(d))' = inbound[d] \o Left(d)
  BY <1>1, <1>2, <1>3 DEF Left
<1> QED
  BY <1>3, <1>4, StillReporting

\* The end of the direction comes behind all of its frames.
LEMMA CloseFollows ==
  ASSUME NEW data, IsData(data), NEW passed, NEW s, NEW i \in Seq(Piece),
         Caught(data, passed, s, i \o <<>>, <<>>)
  PROVE  Caught(data, passed, s, Append(i, Fin) \o <<>>, <<Fin>>)
<1>1. PICK k \in 0..Len(data.frames) : Follows(data, passed, s, i \o <<>>, <<>>, k)
  BY DEF Caught
<1> DEFINE frames == data.frames
           behind == Behind(frames, k)
           buffer == s.buffer
<1>2. buffer \in Seq(Piece) /\ behind \in Seq(Piece) /\ <<Fin>> \in Seq(Piece) /\ <<>> \in Seq(Piece)
  <2>1. frames \in Seq(Frame) /\ buffer \in Seq(Unit(frames))
    BY <1>1 DEF IsData, Follows, Inspectors
  <2>2. behind \in Seq(Unit(frames))
    BY <2>1, BehindType
  <2>3. Seq(Unit(frames)) \subseteq Seq(Piece) /\ Ends \subseteq Seq(Piece)
    BY <2>1, FramePieces
  <2> QED
    BY <2>1, <2>2, <2>3 DEF Ends
<1>3. buffer \o (i \o <<>>) = behind \o <<>>
  BY <1>1 DEF Follows
<1> HIDE DEF frames, behind, buffer
<1>4. buffer \o i = behind
  BY <1>2, <1>3, ConcatEmptySeq
<1>5. Append(i, Fin) \o <<>> = i \o <<Fin>>
  <2>1. Fin \in Piece
    BY UnitsArePieces
  <2>2. Append(i, Fin) = i \o <<Fin>> /\ i \o <<Fin>> \in Seq(Piece)
    BY <1>2, <2>1, AppendIsConcat, ConcatProperties
  <2> QED
    BY <2>2, ConcatEmptySeq
<1>6. Associate(buffer, i, <<Fin>>)
  BY <1>2, PiecesAssociate
<1>7. buffer \o (Append(i, Fin) \o <<>>) = behind \o <<Fin>>
  BY <1>4, <1>5, <1>6 DEF Associate
<1>8. Follows(data, passed, s, Append(i, Fin) \o <<>>, <<Fin>>, k)
  <2> DEFINE rest == Append(i, Fin) \o <<>>
  <2>1. s.buffer \o rest = Behind(data.frames, k) \o <<Fin>>
    BY <1>7 DEF buffer, behind, frames
  <2> HIDE DEF rest
  <2>2. Follows(data, passed, s, rest, <<Fin>>, k)
    BY <1>1, <2>1 DEF Follows
  <2> QED
    BY <2>2 DEF rest
<1> QED
  BY <1>8 DEF Caught

LEMMA CloseReports ==
  ASSUME TunnelInv, NEW d \in Directions, Reporting(d), Close(d)
  PROVE  Reporting(d)'
<1>1. /\ Queues /\ ~closed[d] /\ unsent[d] = <<>> /\ inbound[d] \in Seq(Piece)
      /\ world \in Worlds
  BY QueueTypes DEF TunnelInv, Close, Queues
<1>2. /\ inbound'[d] = Append(inbound[d], Fin) /\ closed'[d] = TRUE
      /\ world' = world /\ inspector' = inspector
  BY <1>1 DEF Close, Queues
<1>3. Data(d)' = Data(d) /\ Passed(d)' = Passed(d) /\ Aligned(d)' = Aligned(d)
  BY <1>2 DEF Data, Passed, Aligned
<1>4. Left(d) = <<>> /\ Left(d)' = <<>>
  BY <1>1, <1>2 DEF Left
<1>5. ASSUME world.capture, Aligned(d)
      PROVE  Caught(Data(d), Passed(d), inspector[d], Append(inbound[d], Fin) \o <<>>, <<Fin>>)
  <2>1. Caught(Data(d), Passed(d), inspector[d], inbound[d] \o <<>>, <<>>)
    BY <1>1, <1>4, <1>5 DEF Reporting
  <2>2. IsData(Data(d))
    BY <1>1, DataOfDirection
  <2> QED
    BY <1>1, <2>1, <2>2, CloseFollows
<1>6. ~world.capture => inspector[d] = New
  BY DEF Reporting
<1>7. <<Fin>> \in Ends
  BY DEF Ends
<1>8. ASSUME world'.capture, Aligned(d)'
      PROVE  Caught(Data(d)', Passed(d)', inspector'[d], inbound'[d] \o Left(d)', <<Fin>>)
  BY <1>2, <1>3, <1>4, <1>5, <1>8
<1> QED
  BY <1>2, <1>6, <1>7, <1>8 DEF Reporting, Caught, CanPop, Follows

\* A read takes units of frames, not the end, from what is underway.
LEMMA UnitsRead ==
  ASSUME TunnelInv, NEW d \in Directions, Read(d)
  PROVE  \E units \in Seq(Unit(world.frames[d])) :
           /\ Inspect(d, units) /\ units \o inbound'[d] = inbound[d]
           /\ inbound'[d] \in Seq(Piece)
<1> DEFINE queue == inbound[d]
<1>1. Readable(d) /\ Queues /\ queue \in Seq(Piece) /\ Len(queue) \in Nat
  BY QueueTypes, LenProperties DEF TunnelInv, InOrder
<1>2. PICK n \in 1..Least(MaxRead, Len(queue)) :
        /\ Last(SubSeq(queue, 1, n)) # Fin
        /\ Inspect(d, SubSeq(queue, 1, n))
        /\ inbound' = [inbound EXCEPT ![d] = Rest(queue, n)]
  BY DEF Read
<1> DEFINE units == SubSeq(queue, 1, n)
<1>3. n \in 1..Len(queue) /\ n \in 0..Len(queue)
  BY <1>1, RoomAssumption DEF Least
<1>4. /\ units \in Seq(Piece) /\ Rest(queue, n) \in Seq(Piece) /\ Len(units) = n
      /\ \A j \in 1..n : units[j] = queue[j]
      /\ units \o Rest(queue, n) = queue
  BY <1>1, <1>3, Cut
<1>5. inbound'[d] = Rest(queue, n)
  BY <1>1, <1>2 DEF Queues
<1>6. \A j \in 1..Len(queue) : queue[j] \in Unit(world.frames[d]) \/ (queue[j] = Fin /\ j = Len(queue))
  BY <1>1, Zenon DEF Readable
<1>7. units[n] # Fin
  BY <1>2, <1>4 DEF Last
<1> HIDE DEF units, queue
<1>8. \A j \in 1..n : units[j] \in Unit(world.frames[d])
  <2> TAKE j \in 1..n
  <2>1. j \in 1..Len(queue) /\ (j = Len(queue) => j = n)
    BY <1>1, <1>3
  <2> QED
    BY <1>4, <1>6, <1>7, <2>1
<1>9. units \in Seq(Unit(world.frames[d]))
  BY <1>3, <1>4, <1>8
<1> QED
  BY <1>2, <1>4, <1>5, <1>9 DEF units, queue

LEMMA ReadReports ==
  ASSUME TunnelInv, NEW d \in Directions, Reporting(d), Read(d)
  PROVE  /\ Reporting(d)'
         /\ \A e \in Directions : e # d => inspector'[e] = inspector[e] /\ inbound'[e] = inbound[e]
<1>1. PICK units \in Seq(Unit(world.frames[d])) :
        /\ Inspect(d, units) /\ units \o inbound'[d] = inbound[d]
        /\ inbound'[d] \in Seq(Piece)
  BY UnitsRead
<1> DEFINE old == inspector[d]
           new == Ingest(Data(d), old, units)
           left == Left(d)
           rest == inbound'[d] \o left
<1>2. /\ world' = world /\ closed' = closed /\ unsent' = unsent /\ left' = left
      /\ Queues /\ world \in Worlds /\ DOMAIN inspector = Directions /\ Watched(d)
      /\ \A e \in Directions : e # d => inbound'[e] = inbound[e]
  BY DEF Read, Left, TunnelInv, InOrder, Queues
<1>3. left \in Seq(Piece)
  BY <1>2, QueueTypes, EmptySeq DEF Left
<1>4. CASE ~world.capture
  <2>1. inspector' = inspector /\ inspector[d] = New
    BY <1>1, <1>4 DEF Inspect, Reporting
  <2> QED
    BY <1>2, <1>4, <2>1 DEF Reporting
<1>5. CASE world.capture
  <2>1. inspector' = [inspector EXCEPT ![d] = new]
    BY <1>1, <1>5 DEF Inspect
  <2>2. inspector'[d] = new /\ \A e \in Directions : e # d => inspector'[e] = inspector[e]
    BY <1>2, <2>1
  <2>3. IsData(Data(d)) /\ Data(d).frames = world.frames[d] /\ Data(d).garble \in Frame
    BY <1>2, DataOfDirection DEF IsData
  <2>4. ~new.lost => ~old.lost
    BY <1>2, <2>3, IngestWatches DEF Watched, IsData
  <2> HIDE DEF old, new, left
  <2>5. Data(d)' = Data(d) /\ Passed(d)' = Passed(d)
    BY <1>2 DEF Data, Passed
  <2>6. Aligned(d)' => Aligned(d) /\ ~new.lost
    BY <1>2, <2>2, <2>4 DEF Aligned, old
  <2>7. ASSUME Aligned(d)'
        PROVE  \E fin \in Ends :
                 /\ ~closed[d] => fin = <<>>
                 /\ Caught(Data(d), Passed(d), new, rest, fin)
    <3>1. PICK fin \in Ends :
            /\ ~closed[d] => fin = <<>>
            /\ Caught(Data(d), Passed(d), old, inbound[d] \o left, fin)
      BY <1>5, <2>6, <2>7 DEF Reporting, old, left
    <3>2. rest \in Seq(Piece) /\ units \in Seq(Piece)
      <4>1. world.frames[d] \in Seq(Frame)
        BY <1>2, UnitsArePieces
      <4> QED
        BY <1>1, <1>3, <4>1, FramePieces, ConcatProperties
    <3>3. Associate(units, inbound'[d], left)
      BY <1>1, <1>3, <3>2, PiecesAssociate
    <3>4. inbound[d] \o left = units \o rest
      BY <1>1, <3>3 DEF Associate
    <3> HIDE DEF rest
    <3>5. Caught(Data(d), Passed(d), old, units \o rest, fin)
      BY <3>1, <3>4
    <3>6. Caught(Data(d), Passed(d), Ingest(Data(d), old, units), rest, fin)
      BY <2>3, <2>6, <2>7, <3>2, <3>5, IngestFollows DEF new
    <3> QED
      BY <3>1, <3>6 DEF new
  <2>8. ASSUME Aligned(d)'
        PROVE  \E fin \in Ends :
                 /\ ~closed'[d] => fin = <<>>
                 /\ Caught(Data(d)', Passed(d)', inspector'[d], inbound'[d] \o left', fin)
    BY <1>2, <2>2, <2>5, <2>7, <2>8
  <2> QED
    BY <1>2, <1>5, <2>2, <2>8 DEF Reporting, Caught, CanPop, Follows, left
<1> QED
  BY <1>4, <1>5, <1>2

\* When the end is all that is left, the inspector has the frames without it.
LEMMA EndFollows ==
  ASSUME NEW data, IsData(data), NEW passed, NEW s, NEW fin \in Ends,
         Caught(data, passed, s, <<Fin>>, fin)
  PROVE  Caught(data, passed, s, <<>>, <<>>)
<1>1. PICK k \in 0..Len(data.frames) : Follows(data, passed, s, <<Fin>>, fin, k)
  BY DEF Caught
<1> DEFINE U == Unit(data.frames)
           behind == Behind(data.frames, k)
           buffer == s.buffer
<1>2. buffer \in Seq(U) /\ behind \in Seq(U) /\ Fin \notin U /\ Fin \in Piece
      /\ Seq(U) \subseteq Seq(Piece)
  <2>1. data.frames \in Seq(Frame) /\ buffer \in Seq(U)
    BY <1>1 DEF IsData, Follows, Inspectors
  <2> QED
    BY <2>1, BehindType, FramePieces
<1>3. buffer \o <<Fin>> = behind \o fin
  BY <1>1 DEF Follows
<1> HIDE DEF U, behind, buffer
<1>4. /\ buffer \o <<Fin>> = Append(buffer, Fin) /\ behind \o <<Fin>> = Append(behind, Fin)
      /\ behind \o <<>> = behind
  BY <1>2, AppendIsConcat, ConcatEmptySeq
<1>5. buffer \in Seq(Piece) /\ behind \in Seq(Piece) /\ Len(buffer) \in Nat /\ Len(behind) \in Nat
  BY <1>2, LenProperties
<1>6. /\ Len(Append(buffer, Fin)) = Len(buffer) + 1 /\ Append(buffer, Fin)[Len(buffer) + 1] = Fin
      /\ \A i \in 1..Len(buffer) : Append(buffer, Fin)[i] = buffer[i]
      /\ Len(Append(behind, Fin)) = Len(behind) + 1
      /\ \A i \in 1..Len(behind) : Append(behind, Fin)[i] = behind[i]
  BY <1>2, <1>5, AppendProperties
<1>7. fin # <<>>
  <2> SUFFICES ASSUME fin = <<>>
               PROVE  FALSE
    OBVIOUS
  <2>1. Append(buffer, Fin) = behind
    BY <1>3, <1>4
  <2>2. Len(buffer) + 1 \in 1..Len(behind) /\ behind[Len(buffer) + 1] = Fin
    BY <1>5, <1>6, <2>1
  <2> QED
    BY <1>2, <2>2, ElementOfSeq
<1>8. Append(buffer, Fin) = Append(behind, Fin)
  BY <1>3, <1>4, <1>7 DEF Ends
<1>9. buffer = behind
  <2>1. Len(buffer) = Len(behind)
    BY <1>5, <1>6, <1>8
  <2>2. \A i \in 1..Len(buffer) : buffer[i] = behind[i]
    BY <1>6, <1>8, <2>1
  <2> QED
    BY <1>5, <2>1, <2>2, SeqEqual
<1>10. s.buffer \o <<>> = behind \o <<>>
  BY <1>9 DEF buffer
<1>11. Follows(data, passed, s, <<>>, <<>>, k)
  BY <1>1, <1>10 DEF Follows, behind
<1> QED
  BY <1>11 DEF Caught

LEMMA ReadEndReports ==
  ASSUME TunnelInv, NEW d \in Directions, Reporting(d), ReadEnd(d)
  PROVE  Reporting(d)'
<1>1. /\ Readable(d) /\ Queues /\ world \in Worlds /\ inbound[d] # <<>>
      /\ Head(inbound[d]) = Fin /\ inbound[d] \in Seq(Piece)
  BY QueueTypes DEF TunnelInv, InOrder, ReadEnd, Queues
<1>2. /\ inbound'[d] = Tail(inbound[d]) /\ world' = world /\ closed' = closed
      /\ unsent' = unsent /\ inspector' = inspector
  BY <1>1 DEF ReadEnd, Queues
<1>3. closed[d] /\ inbound[d] = <<Fin>>
  <2> DEFINE queue == inbound[d]
  <2>1. Len(queue) \in Nat \ {0} /\ queue[1] = Fin
    BY <1>1, EmptySeq
  <2>2. \A i \in 1..Len(queue) :
          queue[i] \in Unit(world.frames[d]) \/ (queue[i] = Fin /\ closed[d] /\ i = Len(queue))
    BY <1>1, Zenon DEF Readable
  <2>3. Fin \notin Unit(world.frames[d])
    BY <1>1, UnitsArePieces
  <2> HIDE DEF queue
  <2>4. closed[d] /\ 1 = Len(queue)
    <3>1. 1 \in 1..Len(queue)
      BY <2>1
    <3> QED
      BY <2>1, <2>2, <2>3, <3>1
  <2>5. queue = <<Fin>>
    BY <1>1, <2>1, <2>4 DEF queue
  <2> QED
    BY <2>4, <2>5 DEF queue
<1>4. Left(d) = <<>> /\ Left(d)' = <<>> /\ inbound'[d] = <<>>
  BY <1>2, <1>3 DEF Left
<1>5. /\ inbound[d] \o Left(d) = <<Fin>> /\ inbound'[d] \o Left(d)' = <<>>
  BY <1>3, <1>4
<1>6. Data(d)' = Data(d) /\ Passed(d)' = Passed(d) /\ Aligned(d)' = Aligned(d)
  BY <1>2 DEF Data, Passed, Aligned
<1>7. ASSUME world.capture, Aligned(d)
      PROVE  Caught(Data(d), Passed(d), inspector[d], <<>>, <<>>)
  <2>1. PICK fin \in Ends : Caught(Data(d), Passed(d), inspector[d], <<Fin>>, fin)
    BY <1>5, <1>7 DEF Reporting
  <2>2. IsData(Data(d))
    BY <1>1, DataOfDirection
  <2> QED
    BY <2>1, <2>2, EndFollows
<1>8. ASSUME world'.capture, Aligned(d)'
      PROVE  Caught(Data(d)', Passed(d)', inspector'[d], inbound'[d] \o Left(d)', <<>>)
  BY <1>2, <1>5, <1>6, <1>7, <1>8
<1>9. <<>> \in Ends /\ (~world.capture => inspector[d] = New)
  BY DEF Ends, Reporting
<1> QED
  BY <1>2, <1>8, <1>9 DEF Reporting, Caught, CanPop, Follows

LEMMA OtherReports ==
  ASSUME NEW d \in Directions, Reporting(d), world' = world, inspector'[d] = inspector[d],
         closed'[d] = closed[d], inbound'[d] = inbound[d], unsent'[d] = unsent[d]
  PROVE  Reporting(d)'
<1>1. (inbound[d] \o Left(d))' = inbound[d] \o Left(d)
  BY DEF Left
<1> QED
  BY <1>1, StillReporting

\* The frames that are complete are reported, whatever the step.
LEMMA NextReports == TunnelInv /\ ReportInv /\ [Next]_vars => ReportInv'
<1> SUFFICES ASSUME TunnelInv, ReportInv, [Next]_vars, NEW e \in Directions
             PROVE  Reporting(e)'
  BY DEF ReportInv
<1>1. Reporting(e) /\ Queues
  BY DEF ReportInv, TunnelInv
<1>2. ASSUME NEW d \in Directions, Send(d)
      PROVE  Reporting(e)'
  <2>1. CASE e = d
    BY <1>1, <1>2, <2>1, SendReports
  <2>2. CASE e # d
    BY <1>1, <1>2, <2>2, OtherReports DEF Send, Queues
  <2> QED
    BY <2>1, <2>2
<1>3. ASSUME NEW d \in Directions, Close(d)
      PROVE  Reporting(e)'
  <2>1. CASE e = d
    BY <1>1, <1>3, <2>1, CloseReports
  <2>2. CASE e # d
    BY <1>1, <1>3, <2>2, OtherReports DEF Close, Queues
  <2> QED
    BY <2>1, <2>2
<1>4. ASSUME NEW d \in Directions, Read(d)
      PROVE  Reporting(e)'
  <2>1. Reporting(d)
    BY DEF ReportInv
  <2>2. /\ Reporting(d)'
        /\ e # d => inspector'[e] = inspector[e] /\ inbound'[e] = inbound[e]
        /\ world' = world /\ closed' = closed /\ unsent' = unsent
    BY <1>4, <2>1, ReadReports DEF Read
  <2>3. CASE e = d
    BY <2>2, <2>3
  <2>4. CASE e # d
    BY <1>1, <2>2, <2>4, OtherReports
  <2> QED
    BY <2>3, <2>4
<1>5. ASSUME NEW d \in Directions, ReadEnd(d)
      PROVE  Reporting(e)'
  <2>1. CASE e = d
    BY <1>1, <1>5, <2>1, ReadEndReports
  <2>2. CASE e # d
    BY <1>1, <1>5, <2>2, OtherReports DEF ReadEnd, Queues
  <2> QED
    BY <2>1, <2>2
<1>6. ASSUME /\ world' = world /\ inspector' = inspector /\ closed' = closed
             /\ inbound' = inbound /\ unsent' = unsent
      PROVE  Reporting(e)'
  BY <1>1, <1>6, OtherReports
<1>7. ASSUME NEW d \in Directions, Receive(d) \/ Write(d) \/ Flush(d) \/ Shutdown(d)
      PROVE  Reporting(e)'
  BY <1>6, <1>7 DEF Receive, Write, Flush, Shutdown
<1>8. ASSUME Fail
      PROVE  Reporting(e)'
  BY <1>6, <1>8 DEF Fail
<1>9. ASSUME UNCHANGED vars
      PROVE  Reporting(e)'
  BY <1>6, <1>9 DEF vars
<1> QED
  BY <1>2, <1>3, <1>4, <1>5, <1>7, <1>8, <1>9 DEF Next, Progress

\* For any worlds and any sizes, an inspector that is Aligned has taken out the
\* frames that are complete, and those only; and its inflater knows what a
\* message needs unless one before it was kept from the inflater, hit its cap or
\* ended its stream (Calm).
THEOREM ReportInvariance == Spec => []ReportInv
<1>1. Init => ReportInv
  BY ReportingFirst DEF ReportInv
<1>2. TunnelInv /\ ReportInv /\ [Next]_vars => ReportInv'
  BY NextReports
<1> QED
  BY <1>1, <1>2, TunnelInvariance, PTL DEF Spec

\* In any captured direction that the inspector reads from a frame's header on
\* (Aligned), a compressed message is decoded as what the peer compressed, over
\* any number of messages before it, unless one of those was kept from the
\* inflater, hit its cap or ended its stream (Undisturbed).
THEOREM DecodedRight == Spec => []DecodedIsTrue
<1>1. ASSUME ReportInv, NEW d \in Directions, world.capture, Aligned(d),
             NEW i \in DOMAIN inspector[d].reports
      PROVE  Faithful(Data(d), Passed(d), inspector[d].reports[i])
  <2>1. PICK fin \in Ends, k \in 0..Len(Data(d).frames) :
          Follows(Data(d), Passed(d), inspector[d], inbound[d] \o Left(d), fin, k)
    BY <1>1 DEF ReportInv, Reporting, Caught
  <2>2. inspector[d].reports \in Seq(Reports)
    BY <2>1 DEF Follows, Inspectors
  <2>3. i \in 1..Len(inspector[d].reports)
    BY <2>2, LenProperties
  <2> QED
    BY <2>1, <2>3 DEF Follows
<1>2. ASSUME NEW d \in Directions, NEW k
      PROVE  Calm(Data(d), Passed(d), k) <=> Undisturbed(d, k)
  <2>1. Data(d).frames = world.frames[d]
    BY DEF Data
  <2> QED
    BY <2>1 DEF Calm, Undisturbed, Fed
<1>3. ASSUME ReportInv
      PROVE  DecodedIsTrue
  BY <1>1, <1>2, <1>3 DEF DecodedIsTrue, Faithful
<1> QED
  BY <1>3, ReportInvariance, PTL

\* What is there once is not in two parts.
LEMMA Apart ==
  ASSUME NEW S, NEW a \in Seq(S), NEW b \in Seq(S), NEW x \in ToSet(a),
         \A i, j \in 1..Len(a \o b) : (a \o b)[i] = (a \o b)[j] => i = j
  PROVE  x \notin ToSet(b)
<1> SUFFICES ASSUME x \in ToSet(b)
             PROVE  FALSE
  OBVIOUS
<1>1. Len(a) \in Nat /\ Len(b) \in Nat /\ DOMAIN a = 1..Len(a) /\ DOMAIN b = 1..Len(b)
  BY LenProperties
<1>2. PICK i \in 1..Len(a) : a[i] = x
  BY <1>1 DEF ToSet
<1>3. PICK j \in 1..Len(b) : b[j] = x
  BY <1>1 DEF ToSet
<1> DEFINE k == Len(a) + j
<1>4. /\ i \in 1..Len(a) + Len(b) /\ i <= Len(a)
      /\ k \in 1..Len(a) + Len(b) /\ ~(k <= Len(a)) /\ k - Len(a) = j /\ i # k
  BY <1>1
<1> HIDE DEF k
<1>5. (a \o b)[i] = x /\ (a \o b)[k] = x /\ Len(a \o b) = Len(a) + Len(b)
  BY <1>2, <1>3, <1>4, ConcatProperties
<1> QED
  BY <1>4, <1>5

LEMMA SentOnce ==
  ASSUME world \in Worlds, NEW d \in Directions
  PROVE  \A i, j \in 1..Len(Sent(d)) : Sent(d)[i] = Sent(d)[j] => i = j
<1> DEFINE frames == world.frames[d]
           wire == Wire(frames)
           units == Rem(frames, 0)
<1>1. frames \in Seq(Frame) /\ 0 \in 0..Len(frames)
  <2>1. frames \in Seq(Frame)
    BY UnitsArePieces
  <2> QED
    BY <2>1, PartsType
<1>2. Once(wire, units) /\ wire \in Seq(Unit(frames))
  BY <1>1, BehindOnce, BehindEnds, WireType
<1>3. wire \in Seq(Piece) /\ <<Fin>> \in Seq(Piece) /\ Fin \notin units
  BY <1>1, <1>2, FramePieces DEF Ends, Rem
<1> HIDE DEF frames, wire, units
<1>4. CASE closed[d]
  <2>1. Once(<<Fin>>, {Fin}) /\ units \intersect {Fin} = {}
    BY <1>3 DEF Once
  <2>2. Once(wire \o <<Fin>>, units \union {Fin})
    BY <1>2, <1>3, <2>1, OnceJoins
  <2>3. Sent(d) = wire \o <<Fin>>
    BY <1>4 DEF Sent, wire, frames
  <2> QED
    BY <2>2, <2>3 DEF Once
<1>5. CASE ~closed[d]
  <2>1. Sent(d) = wire \o <<>>
    BY <1>5 DEF Sent, wire, frames
  <2>2. Sent(d) = wire
    BY <1>3, <2>1, ConcatEmptySeq
  <2> QED
    BY <1>2, <2>2 DEF Once
<1> QED
  BY <1>4, <1>5

\* What has been received the copy has read.
LEMMA ReceivedWasRead ==
  ASSUME TunnelInv, NEW d \in Directions, NEW x \in ToSet(received[d])
  PROVE  x \notin ToSet(inbound[d] \o Left(d))
<1> DEFINE a == received[d]
           b == outbound[d]
           c == session[d]
           e == chunk[d]
           read == ((a \o b) \o c) \o e
           rest == inbound[d] \o Left(d)
<1>1. /\ a \in Seq(Piece) /\ b \in Seq(Piece) /\ c \in Seq(Piece) /\ e \in Seq(Piece)
      /\ a \o b \in Seq(Piece) /\ (a \o b) \o c \in Seq(Piece) /\ read \in Seq(Piece)
      /\ inbound[d] \in Seq(Piece) /\ Left(d) \in Seq(Piece) /\ world \in Worlds
  BY QueueTypes, EmptySeq DEF TunnelInv, Left, Queues
<1>2. rest \in Seq(Piece) /\ Associate(read, inbound[d], Left(d))
  <2> HIDE DEF read
  <2> QED
    BY <1>1, PiecesAssociate, ConcatProperties
<1>3. read \o rest = Sent(d)
  <2>1. (read \o inbound[d]) \o Left(d) = Sent(d)
    BY DEF TunnelInv, InOrder, Preserved, Line, Left
  <2> HIDE DEF read
  <2> QED
    BY <1>2, <2>1 DEF Associate
<1>4. x \in ToSet(read)
  <2> DEFINE two == a \o b
             three == two \o c
  <2>1. x \in ToSet(two)
    BY <1>1, MembersJoin
  <2> HIDE DEF two
  <2>2. x \in ToSet(three)
    BY <1>1, <2>1, MembersJoin DEF two
  <2> HIDE DEF three
  <2>3. x \in ToSet(three \o e)
    BY <1>1, <2>2, MembersJoin DEF three, two
  <2> QED
    BY <2>3 DEF three, two
<1> HIDE DEF read, rest
<1>5. \A i, j \in 1..Len(read \o rest) : (read \o rest)[i] = (read \o rest)[j] => i = j
  BY <1>1, <1>3, SentOnce
<1>6. x \notin ToSet(rest)
  BY <1>1, <1>2, <1>4, <1>5, Apart
<1> QED
  BY <1>6 DEF rest

\* A frame whose last unit the inspector has read it has taken out.
LEMMA ReadIsTaken ==
  ASSUME NEW data, IsData(data), NEW passed, NEW s, NEW rest \in Seq(Piece),
         NEW fin \in Ends, NEW k \in 0..Len(data.frames),
         Follows(data, passed, s, rest, fin, k), ~CanPop(data, s),
         NEW j \in 1..Len(data.frames),
         [frame |-> j, part |-> data.frames[j].size] \notin ToSet(rest)
  PROVE  j <= k
<1> DEFINE frames == data.frames
           n == Len(frames)
           buffer == s.buffer
           behind == Behind(frames, k)
           x == [frame |-> j, part |-> frames[j].size]
<1>1. /\ frames \in Seq(Frame) /\ n \in Nat /\ buffer \in Seq(Unit(frames))
      /\ buffer \o rest = behind \o fin /\ k \in Nat
  <2>1. frames \in Seq(Frame)
    BY DEF IsData
  <2> QED
    BY <2>1, LenProperties DEF Follows, Inspectors
<1>2. buffer \in Seq(Piece) /\ behind \in Seq(Piece) /\ fin \in Seq(Piece)
  BY <1>1, BehindType, FramePieces
<1> SUFFICES ASSUME j > k
             PROVE  FALSE
  BY <1>1
<1>3. \A i \in 1..n : frames[i].size \in Nat \ {0}
  BY <1>1, PartsType
<1>4. x \in Rem(frames, k)
  BY <1>1, <1>3 DEF Rem, Unit
<1>5. x \in ToSet(behind)
  <2>1. Once(behind, Rem(frames, k))
    BY <1>1, BehindOnce
  <2>2. PICK i \in 1..Len(behind) : behind[i] = x
    BY <1>4, <2>1 DEF Once
  <2>3. DOMAIN behind = 1..Len(behind)
    BY <1>2, LenProperties
  <2> QED
    BY <2>2, <2>3 DEF ToSet
<1>6. x \in ToSet(buffer)
  <2> HIDE DEF behind, buffer, x
  <2>1. x \in ToSet(behind \o fin)
    BY <1>2, <1>5, MembersJoin
  <2>2. x \in ToSet(buffer \o rest)
    BY <1>1, <2>1
  <2>3. x \notin ToSet(rest)
    BY DEF x
  <2> QED
    BY <1>2, <2>2, <2>3, MembersJoin
<1>7. PICK i \in 1..Len(buffer) : buffer[i] = x
  <2>1. DOMAIN buffer = 1..Len(buffer)
    BY <1>1, LenProperties
  <2> QED
    BY <1>6, <2>1 DEF ToSet
<1>8. Len(buffer) \in Nat /\ buffer # <<>>
  BY <1>1, <1>7, EmptySeq, LenProperties
<1> DEFINE size == frames[k + 1].size
<1>9. k < n /\ Len(buffer) < size /\ size \in Nat
  <2>1. /\ data.frames \in Seq(Frame) /\ s.buffer \in Seq(Unit(data.frames))
        /\ s.buffer \o rest = Behind(data.frames, k) \o fin /\ s.buffer # <<>>
    BY <1>1, <1>8
  <2>2. /\ k < Len(data.frames)
        /\ Head(s.buffer) = [frame |-> k + 1, part |-> 1]
        /\ Header(data, Head(s.buffer)) = data.frames[k + 1]
        /\ Id(Head(s.buffer)) = k + 1
        /\ Len(s.buffer) >= data.frames[k + 1].size =>
             Rest(s.buffer, data.frames[k + 1].size) \o rest = Behind(data.frames, k + 1) \o fin
    <3> HIDE DEF frames, n, buffer, behind, x, size
    <3> QED
      BY <2>1, FirstFrame, ZenonT(30)
  <2>3. ~(Len(buffer) >= size)
    BY <1>8, <2>2 DEF CanPop
  <2>4. k + 1 \in 1..n
    BY <1>1, <2>2
  <2>5. size \in Nat
    BY <1>3, <2>4
  <2> QED
    BY <1>8, <2>2, <2>3, <2>5
<1>10. x = [frame |-> k + 1, part |-> i]
  <2> DEFINE units == Units(k + 1, frames[k + 1])
             later == Behind(frames, k + 1)
  <2>1. k + 1 \in 1..n /\ k + 1 \in 0..n /\ i \in 1..size
    BY <1>1, <1>8, <1>9
  <2>2. /\ units \in Seq(Unit(frames)) /\ Len(units) = size
        /\ units[i] = [frame |-> k + 1, part |-> i]
    <3> DEFINE m == k + 1
    <3>1. m \in 1..Len(frames) /\ i \in 1..frames[m].size
      BY <2>1
    <3> HIDE DEF m, frames
    <3>2. /\ Units(m, frames[m]) \in Seq(Unit(frames)) /\ Len(Units(m, frames[m])) = frames[m].size
          /\ Units(m, frames[m])[i] = [frame |-> m, part |-> i]
      BY <1>1, <3>1, PartsType
    <3> QED
      BY <3>2 DEF m
  <2>3. later \in Seq(Unit(frames))
    BY <1>1, <2>1, BehindType
  <2>4. units \in Seq(Piece) /\ later \in Seq(Piece)
    BY <1>1, <2>2, <2>3, FramePieces
  <2>5. behind = units \o later
    BY <1>1, <1>9, BehindNext DEF BeginsWith
  <2> HIDE DEF units, later, behind, buffer, x, n, size, frames
  <2>6. Len(later) \in Nat /\ Len(behind) = size + Len(later) /\ Len(fin) \in Nat /\ Len(rest) \in Nat
    BY <1>2, <2>2, <2>4, <2>5, LenProperties, ConcatProperties
  <2>7. (buffer \o rest)[i] = buffer[i]
    <3>1. i \in 1..Len(buffer) + Len(rest) /\ i <= Len(buffer)
      BY <1>8, <2>6
    <3> QED
      BY <1>2, <3>1, ConcatProperties
  <2>8. (behind \o fin)[i] = behind[i]
    <3>1. i \in 1..Len(behind) + Len(fin) /\ i <= Len(behind)
      BY <1>9, <2>1, <2>6
    <3> QED
      BY <1>2, <3>1, ConcatProperties
  <2>9. behind[i] = units[i]
    <3>1. i \in 1..Len(units) + Len(later) /\ i <= Len(units)
      BY <1>9, <2>1, <2>2, <2>6
    <3> QED
      BY <2>4, <2>5, <3>1, ConcatProperties
  <2> QED
    BY <1>1, <1>7, <2>2, <2>7, <2>8, <2>9
<1>11. j = k + 1 /\ frames[j].size = i
  BY <1>10
<1> QED
  BY <1>8, <1>9, <1>11

\* For any worlds and any sizes of the reads: the reports of a direction are, in
\* their order and each of them once, the text and binary frames that went
\* through, and the other peer has none of them whole that is not reported.
THEOREM ReportsHold == Spec => []ReportsAreFrames
<1>1. ASSUME TunnelInv, ReportInv, NEW d \in Directions, world.capture, Aligned(d)
      PROVE  /\ IsPrefix(Reported(inspector[d]), Reportable(d))
             /\ \A j \in ToSet(Reportable(d)) :
                  Last(Units(j, world.frames[d][j])) \in ToSet(received[d])
                    => j \in ToSet(Reported(inspector[d]))
  <2> DEFINE data == Data(d)
             frames == data.frames
             n == Len(frames)
             passed == Passed(d)
             wanted == Wanted(frames, passed)
             rest == inbound[d] \o Left(d)
             s == inspector[d]
  <2>1. IsData(data) /\ frames = world.frames[d] /\ n \in Nat /\ frames \in Seq(Frame)
    <3>1. IsData(data) /\ frames = world.frames[d]
      BY <1>1, DataOfDirection DEF TunnelInv, Queues
    <3> QED
      BY <3>1, LenProperties DEF IsData
  <2>2. PICK fin \in Ends, k \in 0..n : Follows(data, passed, s, rest, fin, k) /\ ~CanPop(data, s)
    BY <1>1 DEF ReportInv, Reporting, Caught
  <2>3. Reported(s) = Ordered(k, wanted) /\ k \in Nat /\ k <= n
    BY <2>1, <2>2 DEF Follows
  <2>4. Reportable(d) = Ordered(n, wanted)
    BY <2>1 DEF Reportable, Wanted
  <2>5. rest \in Seq(Piece)
    <3>1. inbound[d] \in Seq(Piece) /\ Left(d) \in Seq(Piece)
      BY <1>1, QueueTypes, EmptySeq DEF TunnelInv, Left
    <3> QED
      BY <3>1, ConcatProperties
  <2> HIDE DEF data, n, passed, wanted, rest, s
  <2>6. IsPrefix(Reported(s), Reportable(d))
    BY <2>1, <2>3, <2>4, OrderedPrefix
  <2>7. ASSUME NEW j \in ToSet(Reportable(d)), Last(Units(j, world.frames[d][j])) \in ToSet(received[d])
        PROVE  j \in ToSet(Reported(s))
    <3>1. j \in wanted /\ j \in 1..n
      BY <2>1, <2>4, OrderedMembers
    <3>2. Last(Units(j, world.frames[d][j])) = [frame |-> j, part |-> frames[j].size]
      <4>1. frames[j].size \in Nat \ {0}
        BY <2>1, <3>1, PartsType DEF n
      <4> DEFINE units == Units(j, frames[j])
      <4>2. Len(units) = frames[j].size /\ units[frames[j].size] = [frame |-> j, part |-> frames[j].size]
        <5>1. j \in 1..Len(frames) /\ frames[j].size \in 1..frames[j].size
          BY <3>1, <4>1 DEF n
        <5> QED
          BY <2>1, <5>1, PartsType
      <4> HIDE DEF units
      <4>3. Last(units) = [frame |-> j, part |-> frames[j].size]
        BY <4>2 DEF Last
      <4> QED
        BY <2>1, <4>3 DEF units
    <3>3. [frame |-> j, part |-> frames[j].size] \notin ToSet(rest)
      BY <1>1, <2>7, <3>2, ReceivedWasRead DEF rest
    <3>4. j <= k
      <4>1. k \in 0..Len(data.frames) /\ j \in 1..Len(data.frames)
        BY <2>2, <3>1 DEF n
      <4> QED
        BY <2>1, <2>2, <2>5, <3>3, <4>1, ReadIsTaken
    <3>5. j \in 1..k
      BY <2>3, <3>1, <3>4
    <3> QED
      BY <2>3, <3>1, <3>5, OrderedMembers
  <2> QED
    BY <2>6, <2>7 DEF s
<1>2. ASSUME TunnelInv, ReportInv
      PROVE  ReportsAreFrames
  <2>1. \A d \in Directions : ~world.capture => inspector[d] = New
    BY <1>2 DEF ReportInv, Reporting
  <2> QED
    BY <1>1, <1>2, <2>1 DEF ReportsAreFrames, Reported
<1> QED
  BY <1>2, TunnelInvariance, ReportInvariance, PTL

=============================================================================
