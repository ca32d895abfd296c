--------------------------- MODULE EventLogProofs ---------------------------
(***************************************************************************)
(* Proofs about EventLog, for every set of handles and every bound.        *)
(*                                                                         *)
(* LogFollowsSends and ShutdownFlushes are not inductive: they say nothing *)
(* of the records that are neither on disk nor lost.  WriterInv adds where *)
(* those are while the task lives: in current, then in queue, so that what *)
(* the channel took is always disk, then current, then queue.              *)
(***************************************************************************)
EXTENDS EventLog, TLAPS, SequenceTheorems, FiniteSetTheorems

\* The lines on disk and the states of owner and task that go together.
FileInv ==
  /\ base <= Len(file)
  /\ torn => base < Len(file)
  /\ NumLines <= Len(accepted)
  /\ \A i \in 1..NumLines : file[base + i] = Line(accepted[i])

\* While the task lives: accepted is what is on disk, then current, then queue.
ChannelInv ==
  task \in {"select", "drain"} =>
    /\ Len(accepted) = NumLines + Len(current) + Len(queue)
    /\ current # <<>> => current[1] = accepted[NumLines + 1]
    /\ \A i \in 1..Len(queue) : queue[i] = accepted[NumLines + Len(current) + i]
    /\ torn => current # <<>>

StateInv ==
  /\ task \notin {"select", "drain"} => closed /\ current = <<>> /\ queue = <<>>
  /\ task = "done" => NumLines = Len(accepted) /\ ~torn
  /\ task = "off" => accepted = <<>> /\ NumLines = 0 /\ ~torn
  /\ owner = "ok" => task \in {"done", "off"}
  /\ owner = "none" <=> task = "none"

WriterInv == TypeOK /\ FileInv /\ ChannelInv /\ StateInv

-----------------------------------------------------------------------------
(* Lemmas.                                                                 *)

\* What is being written is one record.
LEMMA CurrentIsARecord ==
  ASSUME TypeOK, current # <<>>
  PROVE  Len(current) = 1 /\ Head(current) = current[1] /\ current[1] \in Record
<1>1. current \in Seq(Record) /\ Len(current) <= 1
  BY DEF TypeOK
<1> QED
  BY <1>1, EmptySeq, ElementOfSeq

\* The file after part of the current record has been put on it.
LEMMA WithCurrentProperties ==
  ASSUME TypeOK, FileInv, current # <<>>, NEW part \in {"line", "bare", "torn"}
  PROVE  LET f == WithCurrent(part)
             n == IF torn THEN Len(file) ELSE Len(file) + 1
         IN  /\ f \in Seq(Piece) /\ Len(f) = n
             /\ f[n] = [rec |-> current[1], part |-> part]
             /\ \A i \in 1..(n - 1) : f[i] = file[i]
<1> DEFINE piece == [rec |-> Head(current), part |-> part]
<1>1. piece \in Piece /\ Head(current) = current[1]
  BY CurrentIsARecord DEF Piece
<1>2. file \in Seq(Piece) /\ Len(file) \in Nat
  BY LenProperties DEF TypeOK
<1>3. CASE torn
  <2>1. Len(file) \in 1..Len(file)
    BY <1>2, <1>3 DEF FileInv, TypeOK
  <2>2. WithCurrent(part) = [file EXCEPT ![Len(file)] = piece]
    BY <1>3 DEF WithCurrent
  <2> HIDE DEF piece
  <2>3. /\ WithCurrent(part) \in Seq(Piece)
        /\ Len(WithCurrent(part)) = Len(file)
        /\ \A j \in 1..Len(file) :
             WithCurrent(part)[j] = IF j = Len(file) THEN piece ELSE file[j]
    BY <1>1, <1>2, <2>1, <2>2, ExceptSeq
  <2> USE DEF piece
  <2> QED
    BY <1>1, <1>2, <1>3, <2>1, <2>3
<1>4. CASE ~torn
  <2>1. WithCurrent(part) = Append(file, piece)
    BY <1>4 DEF WithCurrent
  <2> HIDE DEF piece
  <2>2. /\ Append(file, piece) \in Seq(Piece)
        /\ Len(Append(file, piece)) = Len(file) + 1
        /\ Append(file, piece)[Len(file) + 1] = piece
        /\ \A j \in 1..Len(file) : Append(file, piece)[j] = file[j]
    BY <1>1, <1>2
  <2> USE DEF piece
  <2> QED
    BY <1>1, <1>2, <1>4, <2>1, <2>2
<1> QED
  BY <1>3, <1>4

-----------------------------------------------------------------------------
(* The invariant.                                                          *)

LEMMA InitInv == Init => WriterInv
<1> SUFFICES ASSUME Init PROVE WriterInv
  OBVIOUS
<1>1. <<>> \in Seq(Piece) /\ <<>> \in Seq(Record) /\ Len(<<>>) = 0
  OBVIOUS
<1>2. pending \in [Handles -> Seq(Record)]
  BY <1>1 DEF Init
<1>3. clock \in 0..MaxRecords /\ spawns \in 0..MaxSpawns /\ base \in Nat
  BY BoundsAssumption DEF Init
<1>4. TypeOK
  <2>1. /\ file \in Seq(Piece) /\ queue \in Seq(Record) /\ current \in Seq(Record)
        /\ accepted \in Seq(Record) /\ Len(current) <= 1
    BY <1>1 DEF Init
  <2>2. /\ torn \in BOOLEAN /\ closed \in BOOLEAN
        /\ owner \in {"none", "owned", "joining", "ok", "err", "dropped"}
        /\ task \in {"none", "off", "select", "drain", "done", "failed"}
        /\ handles \subseteq Handles /\ refused \subseteq Record
    BY DEF Init
  <2> QED
    BY <1>2, <1>3, <2>1, <2>2 DEF TypeOK
<1> QED
  BY <1>1, <1>4 DEF Init, WriterInv, FileInv, ChannelInv, StateInv, NumLines

\* The owner's steps and the emitters' steps before and after the send leave
\* the disk, the channel and the current record alone.
LEMMA OutsideStep ==
  ASSUME WriterInv, UNCHANGED <<disk, channel, current, spawns>>,
         TypeOK', StateInv',
         task' = task
  PROVE  WriterInv'
BY DEF WriterInv, FileInv, ChannelInv, NumLines, disk, channel

\* The current record, once on disk with its newline, is the next line.
LEMMA LineWritten ==
  ASSUME WriterInv, current # <<>>, file' = WithCurrent("line"), torn' = FALSE,
         base' = base, accepted' = accepted, task \in {"select", "drain"}
  PROVE  /\ file' \in Seq(Piece) /\ FileInv'
         /\ NumLines' = NumLines + 1 /\ NumLines \in Nat
<1>1. /\ TypeOK /\ FileInv /\ ChannelInv
      /\ Len(file) \in Nat /\ Len(accepted) \in Nat /\ Len(queue) \in Nat
  BY LenProperties DEF WriterInv, TypeOK
<1> DEFINE n == IF torn THEN Len(file) ELSE Len(file) + 1
<1>2. /\ file' \in Seq(Piece) /\ Len(file') = n
      /\ file'[n] = Line(current[1])
      /\ \A i \in 1..(n - 1) : file'[i] = file[i]
  BY <1>1, WithCurrentProperties DEF Line
<1>3. /\ NumLines = n - 1 - base /\ NumLines' = n - base
      /\ n \in Nat /\ base \in Nat /\ base <= n - 1
  BY <1>1, <1>2 DEF NumLines, FileInv, TypeOK
<1>4. current[1] = accepted[NumLines + 1] /\ NumLines + 1 <= Len(accepted)
  BY <1>1, <1>3, CurrentIsARecord DEF ChannelInv
<1> HIDE DEF n
<1>5. ASSUME NEW i \in 1..NumLines' PROVE file'[base + i] = Line(accepted[i])
  <2>1. CASE i = NumLines + 1
    BY <1>2, <1>3, <1>4, <2>1
  <2>2. CASE i \in 1..NumLines
    BY <1>1, <1>2, <1>3, <2>2 DEF FileInv
  <2> QED
    BY <1>3, <2>1, <2>2
<1> QED
  BY <1>2, <1>3, <1>4, <1>5 DEF FileInv

\* A part of it takes the place of an earlier part, or follows the last line.
LEMMA PartWritten ==
  ASSUME TypeOK, FileInv, current # <<>>, NEW part \in {"bare", "torn"},
         file' = WithCurrent(part), torn' = TRUE, base' = base, accepted' = accepted
  PROVE  file' \in Seq(Piece) /\ FileInv' /\ NumLines' = NumLines
<1> DEFINE n == IF torn THEN Len(file) ELSE Len(file) + 1
<1>1. /\ file' \in Seq(Piece) /\ Len(file') = n
      /\ \A i \in 1..(n - 1) : file'[i] = file[i]
  BY WithCurrentProperties
<1>2. Len(file) \in Nat /\ Len(accepted) \in Nat
  BY LenProperties DEF TypeOK
<1>3. /\ NumLines = n - 1 - base /\ NumLines' = n - 1 - base
      /\ n \in Nat /\ base \in Nat /\ base <= n - 1
  BY <1>1, <1>2 DEF NumLines, FileInv, TypeOK
<1> HIDE DEF n
<1>4. ASSUME NEW i \in 1..NumLines' PROVE file'[base + i] = Line(accepted[i])
  BY <1>1, <1>3 DEF FileInv
<1> QED
  BY <1>1, <1>3, <1>4 DEF FileInv

\* Every step preserves the invariant: one step of the proof per action.
LEMMA NextInv == WriterInv /\ [Next]_vars => WriterInv'
<1> SUFFICES ASSUME WriterInv, [Next]_vars PROVE WriterInv'
  OBVIOUS
<1> USE DEF disk, channel, emitters
<1>0. /\ TypeOK /\ FileInv /\ ChannelInv /\ StateInv
      /\ Len(file) \in Nat /\ Len(accepted) \in Nat /\ Len(queue) \in Nat
      /\ Len(current) \in Nat
  BY LenProperties DEF WriterInv, TypeOK
<1>1. ASSUME NEW enabled \in BOOLEAN, Spawn(enabled) PROVE WriterInv'
  <2>1. <<>> \in Seq(Record) /\ Len(<<>>) = 0
    OBVIOUS
  <2>2. spawns' \in 0..MaxSpawns
    BY <1>0, <1>1, BoundsAssumption DEF TypeOK, Spawn
  <2>3. TypeOK'
    BY <1>0, <1>1, <2>1, <2>2 DEF TypeOK, Spawn
  <2>4. /\ base' = Len(file) /\ torn' = FALSE /\ file' = file /\ current' = <<>>
        /\ queue' = <<>> /\ accepted' = <<>> /\ owner' = "owned"
        /\ task' \in {"select", "off"} /\ (task' = "off" => closed')
    <3>1. current = <<>>
      BY <1>0, <1>1 DEF Spawn, StateInv
    <3> QED
      BY <1>1, <3>1 DEF Spawn
  <2>5. NumLines' = 0
    <3>1. NumLines' = Len(file') - base' - (IF torn' THEN 1 ELSE 0)
      BY DEF NumLines
    <3>2. NumLines' = Len(file) - Len(file) - 0
      BY <2>4, <3>1
    <3> QED
      BY <1>0, <3>2
  <2>6. FileInv'
    BY <1>0, <2>1, <2>4, <2>5 DEF FileInv
  <2>7. ChannelInv'
    BY <2>1, <2>4, <2>5 DEF ChannelInv
  <2>8. StateInv'
    BY <2>4, <2>5 DEF StateInv
  <2> QED
    BY <2>3, <2>6, <2>7, <2>8 DEF WriterInv
<1>2. CASE Shutdown \/ Join \/ DropWriter
  <2>1. TypeOK'
    BY <1>0, <1>2 DEF TypeOK, Shutdown, Join, DropWriter
  <2>2. StateInv'
    BY <1>0, <1>2 DEF StateInv, TypeOK, NumLines, Shutdown, Join, DropWriter
  <2> QED
    BY <1>2, <2>1, <2>2, OutsideStep DEF Shutdown, Join, DropWriter
<1>3. ASSUME NEW h \in Handles, CloneHandle(h) \/ BuildRecord(h) \/ DropHandle(h)
      PROVE  WriterInv'
  <2>1. TypeOK'
    <3>1. CASE CloneHandle(h) \/ DropHandle(h)
      BY <1>0, <3>1 DEF TypeOK, CloneHandle, DropHandle
    <3>2. CASE BuildRecord(h)
      <4>1. clock' \in 1..MaxRecords
        BY <1>0, <3>2, BoundsAssumption DEF TypeOK, BuildRecord
      <4>2. <<[by |-> h, at |-> clock']>> \in Seq(Record)
        BY <4>1 DEF Record
      <4> QED
        BY <1>0, <3>2, <4>1, <4>2 DEF TypeOK, BuildRecord
    <3> QED
      BY <1>3, <3>1, <3>2
  <2>2. StateInv'
    BY <1>0, <1>3 DEF StateInv, NumLines, CloneHandle, BuildRecord, DropHandle
  <2> QED
    BY <1>3, <2>1, <2>2, OutsideStep DEF CloneHandle, BuildRecord, DropHandle
<1>4. ASSUME NEW h \in Handles, SendRecord(h) PROVE WriterInv'
  <2> DEFINE r == Head(pending[h])
  <2>1. r \in Record
    BY <1>0, <1>4, HeadTailProperties DEF TypeOK, SendRecord
  <2>2. <<>> \in Seq(Record)
    OBVIOUS
  <2>3. pending' \in [Handles -> Seq(Record)]
    BY <1>0, <1>4, <2>2 DEF TypeOK, SendRecord
  <2>4. CASE closed
    <3>1. TypeOK'
      BY <1>0, <1>4, <2>1, <2>3, <2>4 DEF TypeOK, SendRecord
    <3>2. UNCHANGED <<file, base, torn, owner, task, closed, queue, accepted, current>>
      BY <1>4, <2>4 DEF SendRecord
    <3> QED
      BY <1>0, <3>1, <3>2 DEF WriterInv, FileInv, ChannelInv, StateInv, NumLines
  <2>5. CASE ~closed
    <3>1. /\ queue' = Append(queue, r) /\ accepted' = Append(accepted, r)
          /\ UNCHANGED <<file, base, torn, owner, task, handles, closed, current,
                         clock, spawns, refused>>
      BY <1>4, <2>5 DEF SendRecord
    <3> HIDE DEF r
    <3>2. TypeOK'
      BY <1>0, <2>1, <2>3, <3>1 DEF TypeOK
    <3>3. /\ Len(accepted') = Len(accepted) + 1 /\ Len(queue') = Len(queue) + 1
          /\ accepted'[Len(accepted) + 1] = r /\ queue'[Len(queue) + 1] = r
          /\ \A i \in 1..Len(accepted) : accepted'[i] = accepted[i]
          /\ \A i \in 1..Len(queue) : queue'[i] = queue[i]
      BY <1>0, <2>1, <3>1 DEF TypeOK
    <3>4. task \in {"select", "drain"}
      BY <1>0, <2>5 DEF StateInv
    <3>5. NumLines' = NumLines /\ NumLines \in Nat
      BY <1>0, <3>1 DEF NumLines, TypeOK, FileInv
    <3>6. FileInv'
      BY <1>0, <3>1, <3>3, <3>5 DEF FileInv
    <3>7. ChannelInv'
      <4>1. /\ Len(accepted) = NumLines + Len(current) + Len(queue)
            /\ current # <<>> => current[1] = accepted[NumLines + 1]
            /\ \A i \in 1..Len(queue) : queue[i] = accepted[NumLines + Len(current) + i]
            /\ torn => current # <<>>
        BY <1>0, <3>4 DEF ChannelInv
      <4>2. current # <<>> => Len(current) = 1
        BY <1>0, CurrentIsARecord
      <4>3. Len(accepted') = NumLines' + Len(current') + Len(queue')
        BY <1>0, <3>1, <3>3, <3>5, <4>1
      <4>4. current' # <<>> => current'[1] = accepted'[NumLines' + 1]
        BY <1>0, <3>1, <3>3, <3>5, <4>1, <4>2
      <4>5. ASSUME NEW i \in 1..Len(queue')
            PROVE  queue'[i] = accepted'[NumLines' + Len(current') + i]
        <5>1. CASE i = Len(queue) + 1
          BY <1>0, <3>1, <3>3, <3>5, <4>1, <5>1
        <5>2. CASE i \in 1..Len(queue)
          <6>1. NumLines + Len(current) + i \in 1..Len(accepted)
            BY <1>0, <3>5, <4>1, <5>2
          <6>2. queue'[i] = queue[i]
            BY <3>3, <5>2
          <6> QED
            BY <3>1, <3>3, <3>5, <4>1, <5>2, <6>1, <6>2
        <5> QED
          BY <1>0, <3>3, <5>1, <5>2
      <4> QED
        BY <3>1, <4>1, <4>3, <4>4, <4>5 DEF ChannelInv
    <3>8. StateInv'
      BY <1>0, <3>1, <3>4 DEF StateInv
    <3> QED
      BY <3>2, <3>6, <3>7, <3>8 DEF WriterInv
  <2> QED
    BY <2>4, <2>5
<1>5. CASE Receive
  <2>1. /\ task \in {"select", "drain"} /\ current = <<>> /\ queue # <<>>
        /\ current' = <<Head(queue)>> /\ queue' = Tail(queue)
        /\ UNCHANGED <<file, base, torn, owner, task, closed, accepted>>
    BY <1>5 DEF Receive
  <2>2. /\ Head(queue) \in Record /\ Head(queue) = queue[1]
        /\ Tail(queue) \in Seq(Record) /\ Len(Tail(queue)) = Len(queue) - 1
        /\ \A i \in 1..Len(Tail(queue)) : Tail(queue)[i] = queue[i + 1]
        /\ Len(queue) \in Nat \ {0}
    BY <1>0, <2>1, HeadTailProperties, EmptySeq DEF TypeOK
  <2>3. Len(current') = 1 /\ current'[1] = queue[1] /\ current' # <<>>
    BY <2>1, <2>2
  <2>4. TypeOK'
    BY <1>0, <1>5, <2>1, <2>2 DEF TypeOK, Receive
  <2>5. NumLines' = NumLines /\ NumLines \in Nat /\ Len(current) = 0
    BY <1>0, <2>1 DEF NumLines, TypeOK, FileInv
  <2>6. FileInv'
    BY <1>0, <2>1, <2>5 DEF FileInv
  <2>7. ChannelInv'
    <3>1. /\ Len(accepted) = NumLines + Len(queue)
          /\ \A i \in 1..Len(queue) : queue[i] = accepted[NumLines + i]
      BY <1>0, <2>1, <2>5 DEF ChannelInv
    <3>2. Len(accepted') = NumLines' + Len(current') + Len(queue')
      BY <1>0, <2>1, <2>2, <2>3, <2>5, <3>1
    <3>3. current'[1] = accepted'[NumLines' + 1]
      BY <2>1, <2>2, <2>3, <2>5, <3>1
    <3>4. ASSUME NEW i \in 1..Len(queue')
          PROVE  queue'[i] = accepted'[NumLines' + Len(current') + i]
      <4>1. i + 1 \in 1..Len(queue) /\ queue'[i] = queue[i + 1]
        BY <2>1, <2>2, <3>4
      <4>2. queue[i + 1] = accepted[NumLines + (i + 1)]
        BY <3>1, <4>1
      <4>3. NumLines + (i + 1) = NumLines' + Len(current') + i
        BY <2>3, <2>5, <3>4
      <4> QED
        BY <2>1, <4>1, <4>2, <4>3
    <3> QED
      BY <2>1, <2>3, <3>2, <3>3, <3>4 DEF ChannelInv
  <2>8. StateInv'
    BY <1>0, <2>1 DEF StateInv
  <2> QED
    BY <2>4, <2>6, <2>7, <2>8 DEF WriterInv
<1>6. CASE ReceiveNone \/ SeeShutdown
  <2>1. /\ task = "select" /\ task' = "drain"
        /\ UNCHANGED <<file, base, torn, owner, handles, pending, clock, queue,
                       accepted, refused, current, spawns>>
        /\ closed' \in {closed, TRUE}
    BY <1>6 DEF ReceiveNone, SeeShutdown
  <2>2. TypeOK'
    BY <1>0, <2>1 DEF TypeOK
  <2>3. NumLines' = NumLines
    BY <2>1 DEF NumLines
  <2> QED
    BY <1>0, <2>1, <2>2, <2>3 DEF WriterInv, FileInv, ChannelInv, StateInv
<1>7. CASE SpillRecord
  <2>1. /\ current # <<>> /\ torn = FALSE /\ torn' = TRUE
        /\ file' = WithCurrent("torn")
        /\ UNCHANGED <<base, owner, task, handles, pending, clock, queue, closed,
                       accepted, refused, current, spawns>>
    BY <1>0, <1>7 DEF SpillRecord, WithCurrent, TypeOK
  <2>2. file' \in Seq(Piece) /\ FileInv' /\ NumLines' = NumLines
    BY <1>0, <2>1, PartWritten
  <2>3. TypeOK'
    BY <1>0, <2>1, <2>2 DEF TypeOK
  <2> QED
    BY <1>0, <2>1, <2>2, <2>3 DEF WriterInv, ChannelInv, StateInv
<1>8. CASE WriteRecord
  <2>1. /\ current # <<>> /\ torn' = FALSE /\ current' = <<>>
        /\ file' = WithCurrent("line")
        /\ UNCHANGED <<base, owner, task, handles, pending, clock, queue, closed,
                       accepted, refused, spawns>>
    BY <1>8 DEF WriteRecord
  <2>2. task \in {"select", "drain"}
    BY <1>0, <2>1 DEF StateInv
  <2>3. /\ file' \in Seq(Piece) /\ FileInv'
        /\ NumLines' = NumLines + 1 /\ NumLines \in Nat
    BY <2>1, <2>2, LineWritten
  <2>4. Len(current) = 1 /\ Len(current') = 0
    BY <1>0, <2>1, CurrentIsARecord
  <2>5. ChannelInv'
    BY <1>0, <2>1, <2>2, <2>3, <2>4 DEF ChannelInv
  <2>6. TypeOK'
    <3>1. current' \in Seq(Record) /\ Len(current') <= 1
      BY <2>1, <2>4
    <3>2. torn' \in BOOLEAN
      BY <2>1
    <3> QED
      BY <1>0, <2>1, <2>3, <3>1, <3>2 DEF TypeOK
  <2>7. StateInv'
    BY <1>0, <2>1, <2>2 DEF StateInv
  <2> QED
    BY <2>3, <2>5, <2>6, <2>7 DEF WriterInv
<1>9. CASE WriteFails
  <2>1. /\ current # <<>> /\ task' = "failed" /\ closed' = TRUE
        /\ queue' = <<>> /\ current' = <<>>
        /\ UNCHANGED <<base, owner, handles, pending, clock, accepted, refused, spawns>>
    BY <1>9 DEF WriteFails
  <2>2. task \in {"select", "drain"}
    BY <1>0, <2>1 DEF StateInv
  <2>3. file' \in Seq(Piece) /\ FileInv' /\ torn' \in BOOLEAN
    <3>1. CASE UNCHANGED <<file, torn>>
      BY <1>0, <2>1, <3>1 DEF TypeOK, FileInv, NumLines
    <3>2. CASE file' = WithCurrent("line") /\ torn' = FALSE
      BY <2>1, <2>2, <3>2, LineWritten
    <3>3. ASSUME NEW part \in {"torn", "bare"}, file' = WithCurrent(part), torn' = TRUE
          PROVE  file' \in Seq(Piece) /\ FileInv'
      BY <1>0, <2>1, <3>3, PartWritten
    <3> QED
      BY <1>9, <3>1, <3>2, <3>3 DEF WriteFails
  <2>4. TypeOK'
    <3>1. <<>> \in Seq(Record) /\ Len(<<>>) <= 1
      OBVIOUS
    <3> QED
      BY <1>0, <2>1, <2>3, <3>1 DEF TypeOK
  <2>5. ChannelInv' /\ StateInv'
    BY <1>0, <2>1, <2>2 DEF ChannelInv, StateInv
  <2> QED
    BY <2>3, <2>4, <2>5 DEF WriterInv
<1>10. CASE Finish
  <2>1. /\ task = "drain" /\ current = <<>> /\ queue = <<>>
        /\ task' = "done" /\ closed' = TRUE
        /\ UNCHANGED <<file, base, torn, owner, handles, pending, clock, queue,
                       accepted, refused, current, spawns>>
    BY <1>10 DEF Finish
  <2>2. TypeOK'
    BY <1>0, <2>1 DEF TypeOK
  <2>3. NumLines' = NumLines /\ NumLines = Len(accepted) /\ ~torn
    <3>1. Len(current) = 0 /\ Len(queue) = 0
      BY <2>1
    <3>2. NumLines \in Int
      BY <1>0 DEF NumLines, TypeOK
    <3> QED
      BY <1>0, <2>1, <3>1, <3>2 DEF ChannelInv, NumLines
  <2> QED
    BY <1>0, <2>1, <2>2, <2>3 DEF WriterInv, FileInv, ChannelInv, StateInv
<1>11. CASE Exit \/ Crash
  <2>1. /\ owner' = "none" /\ task' = "none" /\ handles' = {}
        /\ pending' = [h \in Handles |-> <<>>]
        /\ queue' = <<>> /\ closed' = TRUE /\ current' = <<>>
        /\ UNCHANGED <<file, base, torn, clock, spawns, accepted, refused>>
    BY <1>11 DEF Exit, Crash, Gone
  <2>2. <<>> \in Seq(Record) /\ Len(<<>>) <= 1
    OBVIOUS
  <2>3. pending' \in [Handles -> Seq(Record)]
    BY <2>1, <2>2
  <2>4. TypeOK'
    BY <1>0, <2>1, <2>2, <2>3 DEF TypeOK
  <2>5. NumLines' = NumLines
    BY <2>1 DEF NumLines
  <2> QED
    BY <1>0, <2>1, <2>4, <2>5 DEF WriterInv, FileInv, ChannelInv, StateInv
<1>12. CASE UNCHANGED vars
  BY <1>0, <1>12 DEF vars, WriterInv, TypeOK, FileInv, ChannelInv, StateInv, NumLines
<1> QED
  BY <1>1, <1>2, <1>3, <1>4, <1>5, <1>6, <1>7, <1>8, <1>9, <1>10, <1>11, <1>12
    DEF Next, Writer, Emit, Owner

-----------------------------------------------------------------------------
(* The theorems.                                                           *)

\* The inductive invariant of EventLogWriter's channel, task and file: what the
\* channel took is on disk, being written or queued, while the task lives.
THEOREM Invariance == Spec => []WriterInv
BY InitInv, NextInv, PTL DEF Spec

\* Every state of the event log is well-typed.
THEOREM TypeCorrect == Spec => []TypeOK
<1>1. WriterInv => TypeOK
  BY DEF WriterInv
<1> QED
  BY <1>1, Invariance, PTL

\* The lines of a life are its accepted records, from the first on and in the
\* order the channel took them, whatever fails and whenever the process dies.
THEOREM LogCorrect == Spec => []LogFollowsSends
<1>1. WriterInv => LogFollowsSends
  BY DEF WriterInv, FileInv, LogFollowsSends
<1> QED
  BY <1>1, Invariance, PTL

\* When shutdown returns Ok, every accepted record is on disk.
THEOREM ShutdownCorrect == Spec => []ShutdownFlushes
<1>1. WriterInv => ShutdownFlushes
  <2> SUFFICES ASSUME WriterInv, owner = "ok" PROVE NumLines = Len(accepted)
    BY DEF ShutdownFlushes
  <2>1. task = "done" \/ (task = "off" /\ accepted = <<>> /\ NumLines = 0)
    BY DEF WriterInv, StateInv
  <2> QED
    BY <2>1 DEF WriterInv, StateInv
<1> QED
  BY <1>1, Invariance, PTL

-----------------------------------------------------------------------------
(* The log implements what it promises.                                    *)

DurableFacts ==
  /\ accepted \in Seq(Record) /\ Durable \in Seq(Record)
  /\ NumLines \in Nat /\ NumLines <= Len(accepted) /\ Len(Durable) = NumLines
  /\ \A i \in 1..NumLines : Durable[i] = accepted[i]

LEMMA DurableIsAccepted == WriterInv => DurableFacts
<1> SUFFICES ASSUME WriterInv PROVE DurableFacts
  OBVIOUS
<1>1. /\ accepted \in Seq(Record) /\ file \in Seq(Piece)
      /\ Len(accepted) \in Nat /\ Len(file) \in Nat
  BY LenProperties DEF WriterInv, TypeOK
<1>2. NumLines \in Nat /\ NumLines <= Len(accepted)
  BY <1>1 DEF WriterInv, TypeOK, FileInv, NumLines
<1>3. ASSUME NEW i \in 1..NumLines
      PROVE  file[base + i].rec = accepted[i] /\ accepted[i] \in Record
  <2>1. file[base + i] = Line(accepted[i])
    BY DEF WriterInv, FileInv
  <2>2. accepted[i] \in Record
    BY <1>1, <1>2, ElementOfSeq
  <2> QED
    BY <2>1, <2>2 DEF Line
<1>4. Durable \in Seq(Record) /\ Len(Durable) = NumLines
  BY <1>2, <1>3 DEF Durable
<1>5. ASSUME NEW i \in 1..NumLines PROVE Durable[i] = accepted[i]
  BY <1>3 DEF Durable
<1> QED
  BY <1>1, <1>2, <1>4, <1>5 DEF DurableFacts

\* Nothing new on disk: the same durable records.
LEMMA DurableKept ==
  ASSUME DurableFacts, DurableFacts', accepted' = accepted, NumLines' = NumLines
  PROVE  Durable' = Durable
BY SeqEqual DEF DurableFacts

\* One more line on disk: the next accepted record is durable.
LEMMA DurableGrows ==
  ASSUME DurableFacts, DurableFacts', accepted' = accepted, NumLines' = NumLines + 1
  PROVE  /\ Len(Durable) < Len(accepted)
         /\ Durable' = Append(Durable, accepted[Len(Durable) + 1])
<1>1. Len(Durable) < Len(accepted) /\ Len(Durable) \in Nat /\ Len(accepted) \in Nat
  BY LenProperties DEF DurableFacts
<1>2. accepted[Len(Durable) + 1] \in Record
  BY <1>1, ElementOfSeq DEF DurableFacts
<1> DEFINE r == accepted[Len(Durable) + 1]
           d == Append(Durable, r)
<1>3. /\ d \in Seq(Record) /\ Len(d) = Len(Durable) + 1
      /\ d[Len(Durable) + 1] = r
      /\ \A i \in 1..Len(Durable) : d[i] = Durable[i]
  BY <1>1, <1>2 DEF DurableFacts
<1> HIDE DEF d
<1>4. \A i \in 1..Len(d) : d[i] = Durable'[i]
  BY <1>1, <1>3 DEF DurableFacts
<1>5. Len(d) = Len(Durable')
  BY <1>3 DEF DurableFacts
<1>6. Durable' = d
  BY <1>3, <1>4, <1>5, SeqEqual DEF DurableFacts
<1> QED
  BY <1>1, <1>6 DEF d

\* All of it on disk.
LEMMA DurableComplete ==
  ASSUME DurableFacts, NumLines = Len(accepted)
  PROVE  Durable = accepted
BY SeqEqual DEF DurableFacts

LEMMA InitImplements == Init => Promise!Init
<1> SUFFICES ASSUME Init PROVE Promise!Init
  OBVIOUS
<1>1. DurableFacts
  BY InitInv, DurableIsAccepted
<1>2. NumLines = 0 /\ Len(accepted) = 0
  BY DEF Init, NumLines
<1>3. Durable = <<>>
  BY <1>1, <1>2, DurableComplete DEF Init
<1> QED
  BY <1>3 DEF Init, Promise!Init, LogStatus

\* Every step is a step of the promise or changes nothing of it.
LEMMA StepImplements ==
  WriterInv /\ WriterInv' /\ [Next]_vars => [Promise!Next]_(Promise!vars)
<1> SUFFICES ASSUME WriterInv, WriterInv', [Next]_vars
             PROVE  [Promise!Next]_(Promise!vars)
  OBVIOUS
<1> USE DEF disk, channel, emitters
<1>0. DurableFacts /\ DurableFacts'
  BY DurableIsAccepted, PTL
<1>1. ASSUME NEW enabled \in BOOLEAN, Spawn(enabled) PROVE Promise!Start
  <2>1. LogStatus = "down"
    BY <1>1 DEF Spawn, LogStatus
  <2>2. LogStatus' \in {"open", "closed"}
    BY <1>1 DEF Spawn, LogStatus
  <2>3. accepted' = <<>> /\ Durable' = <<>>
    <3>1. accepted' = <<>>
      BY <1>1 DEF Spawn
    <3>2. NumLines' \in Nat /\ NumLines' <= Len(accepted') /\ Len(accepted') = 0
      BY <1>0, <3>1 DEF DurableFacts
    <3>3. Durable' = accepted'
      BY <1>0, <3>2, SeqEqual DEF DurableFacts
    <3> QED
      BY <3>1, <3>3
  <2> QED
    BY <2>1, <2>2, <2>3 DEF Promise!Start
<1>2. CASE Shutdown \/ Join
  <2>1. owner \in {"owned", "joining"} /\ UNCHANGED <<file, base, torn, accepted, task, closed>>
    BY <1>2 DEF Shutdown, Join
  <2>2. Durable' = Durable
    BY <1>0, <2>1, DurableKept DEF NumLines
  <2>3. CASE owner' = "ok"
    <3>1. task \in {"off", "done"} /\ closed
      BY <1>2, <2>3 DEF Shutdown, Join, WriterInv, StateInv
    <3>2. NumLines = Len(accepted)
      BY <3>1 DEF WriterInv, StateInv
    <3>3. LogStatus = "closed" /\ LogStatus' = "settled"
      BY <2>1, <2>3, <3>1 DEF LogStatus
    <3> QED
      BY <1>0, <2>1, <2>2, <3>2, <3>3, DurableComplete DEF Promise!Next, Promise!Settle
  <2>4. CASE owner' # "ok"
    <3>1. owner' \in {"joining", "err"}
      BY <1>2, <2>4 DEF Shutdown, Join
    <3>2. LogStatus' = LogStatus
      BY <2>1, <3>1 DEF LogStatus
    <3> QED
      BY <2>1, <2>2, <3>2 DEF Promise!vars
  <2> QED
    BY <2>3, <2>4
<1>3. CASE DropWriter \/ \E h \in Handles : CloneHandle(h) \/ BuildRecord(h) \/ DropHandle(h)
  <2>1. /\ UNCHANGED <<file, base, torn, accepted, task, closed>>
        /\ owner' = owner \/ (owner = "owned" /\ owner' = "dropped")
    BY <1>3 DEF DropWriter, CloneHandle, BuildRecord, DropHandle
  <2>2. Durable' = Durable
    BY <1>0, <2>1, DurableKept DEF NumLines
  <2>3. LogStatus' = LogStatus
    BY <2>1 DEF LogStatus
  <2> QED
    BY <2>1, <2>2, <2>3 DEF Promise!vars
<1>4. ASSUME NEW h \in Handles, SendRecord(h) PROVE [Promise!Next]_(Promise!vars)
  <2>1. UNCHANGED <<file, base, torn, owner, task, closed>>
    BY <1>4 DEF SendRecord
  <2>2. NumLines' = NumLines /\ LogStatus' = LogStatus
    BY <2>1 DEF NumLines, LogStatus
  <2>3. Durable' = Durable
    BY <2>1, <2>2 DEF Durable
  <2>4. CASE closed
    BY <1>4, <2>2, <2>3, <2>4 DEF SendRecord, Promise!vars
  <2>5. CASE ~closed
    <3> DEFINE r == Head(pending[h])
    <3>1. r \in Record /\ accepted' = Append(accepted, r)
      BY <1>4, <2>5, HeadTailProperties DEF SendRecord, WriterInv, TypeOK
    <3>2. task \in {"select", "drain"} /\ owner \notin {"none", "ok"}
      BY <2>5 DEF WriterInv, StateInv
    <3>3. LogStatus = "open"
      BY <2>5, <3>2 DEF LogStatus
    <3>4. Promise!Accept(r)
      BY <2>2, <2>3, <3>1, <3>3 DEF Promise!Accept
    <3> QED
      BY <3>1, <3>4 DEF Promise!Next
  <2> QED
    BY <2>4, <2>5
<1>5. CASE Receive \/ ReceiveNone \/ SeeShutdown \/ SpillRecord \/ Finish
  <2>1. /\ UNCHANGED <<owner, accepted>>
        /\ NumLines' = NumLines
        /\ task # "failed" /\ task' # "failed" /\ owner \notin {"none", "ok"}
        /\ closed' \in {closed, TRUE}
    <3>1. /\ UNCHANGED <<owner, accepted>> /\ closed' \in {closed, TRUE}
          /\ task \in {"select", "drain"} /\ task' \in {"select", "drain", "done"}
      BY <1>5 DEF Receive, ReceiveNone, SeeShutdown, SpillRecord, Finish, WriterInv,
                  StateInv
    <3>2. owner \notin {"none", "ok"}
      BY <3>1 DEF WriterInv, StateInv
    <3>3. NumLines' = NumLines
      <4>1. CASE SpillRecord
        <5>1. torn = FALSE
          BY <4>1 DEF SpillRecord, WriterInv, TypeOK
        <5>2. file' = WithCurrent("torn") /\ UNCHANGED <<base, accepted>>
              /\ torn' = TRUE /\ current # <<>>
          BY <4>1, <5>1 DEF SpillRecord, WithCurrent
        <5> QED
          BY <5>2, PartWritten DEF WriterInv
      <4>2. CASE Receive \/ ReceiveNone \/ SeeShutdown \/ Finish
        BY <4>2 DEF Receive, ReceiveNone, SeeShutdown, Finish, NumLines
      <4> QED
        BY <1>5, <4>1, <4>2
    <3> QED
      BY <3>1, <3>2, <3>3
  <2>2. Durable' = Durable
    BY <1>0, <2>1, DurableKept
  <2>3. LogStatus' = LogStatus \/ (LogStatus = "open" /\ LogStatus' = "closed")
    <3>1. CASE closed' = closed
      BY <2>1, <3>1 DEF LogStatus
    <3>2. CASE closed' = TRUE
      <4>1. LogStatus' = "closed" /\ LogStatus \in {"open", "closed"}
        BY <2>1, <3>2 DEF LogStatus
      <4> QED
        BY <4>1
    <3> QED
      BY <2>1, <3>1, <3>2
  <2> QED
    BY <2>1, <2>2, <2>3 DEF Promise!Next, Promise!Close, Promise!vars
<1>6. CASE WriteRecord
  <2>1. /\ current # <<>> /\ file' = WithCurrent("line") /\ torn' = FALSE
        /\ UNCHANGED <<base, owner, task, closed, accepted>>
    BY <1>6 DEF WriteRecord
  <2>2. task \in {"select", "drain"} /\ owner \notin {"none", "ok"}
    BY <2>1 DEF WriterInv, StateInv
  <2>3. NumLines' = NumLines + 1
    BY <2>1, <2>2, LineWritten
  <2>4. LogStatus \in {"open", "closed"} /\ LogStatus' = LogStatus
    BY <2>1, <2>2 DEF LogStatus
  <2> QED
    BY <1>0, <2>1, <2>3, <2>4, DurableGrows
      DEF Promise!Next, Promise!Write, Promise!Persist
<1>7. CASE WriteFails
  <2>1. /\ current # <<>> /\ task' = "failed"
        /\ UNCHANGED <<base, owner, accepted>>
    BY <1>7 DEF WriteFails
  <2>2. task \in {"select", "drain"} /\ owner \notin {"none", "ok"}
    BY <2>1 DEF WriterInv, StateInv
  <2>3. LogStatus \in {"open", "closed"} /\ LogStatus' = "broken"
    BY <2>1, <2>2 DEF LogStatus
  <2>4. NumLines' = NumLines \/ NumLines' = NumLines + 1
    <3>1. CASE UNCHANGED <<file, torn>>
      BY <2>1, <3>1 DEF NumLines
    <3>2. CASE file' = WithCurrent("line") /\ torn' = FALSE
      BY <2>1, <2>2, <3>2, LineWritten
    <3>3. ASSUME NEW part \in {"torn", "bare"}, file' = WithCurrent(part), torn' = TRUE
          PROVE  NumLines' = NumLines
      BY <2>1, <3>3, PartWritten DEF WriterInv
    <3> QED
      BY <1>7, <3>1, <3>2, <3>3 DEF WriteFails
  <2>5. Durable' = Durable \/ Promise!Persist
    BY <1>0, <2>1, <2>4, DurableKept, DurableGrows DEF Promise!Persist
  <2> QED
    BY <2>1, <2>3, <2>5 DEF Promise!Next, Promise!Break
<1>8. CASE Exit \/ Crash
  <2>1. owner # "none" /\ owner' = "none" /\ UNCHANGED <<file, base, torn, accepted>>
    BY <1>8 DEF Exit, Crash, Gone
  <2>2. Durable' = Durable
    BY <1>0, <2>1, DurableKept DEF NumLines
  <2>3. LogStatus # "down" /\ LogStatus' = "down"
    BY <2>1 DEF LogStatus
  <2> QED
    BY <2>1, <2>2, <2>3 DEF Promise!Next, Promise!Halt
<1>9. CASE UNCHANGED vars
  <2>1. NumLines' = NumLines /\ LogStatus' = LogStatus /\ accepted' = accepted
    BY <1>9 DEF vars, NumLines, LogStatus
  <2> QED
    BY <1>0, <2>1, DurableKept DEF Promise!vars
<1> QED
  BY <1>1, <1>2, <1>3, <1>4, <1>5, <1>6, <1>7, <1>8, <1>9
    DEF Next, Writer, Emit, Owner, Promise!Next

\* EventLog, with its channel, task, failures and restarts, implements the
\* promise of DurableLog.
THEOREM Refinement == Spec => ImplementsDurableLog
BY InitImplements, StepImplements, Invariance, PTL
  DEF Spec, ImplementsDurableLog, Promise!Spec

-----------------------------------------------------------------------------
(* The order of an emitter's records, and the damage of many lives.         *)
(*                                                                         *)
(* EmitterOrder is about the file alone, but what makes it true is spread: *)
(* the file is the beginning of a longer story, the records of the lives   *)
(* before and then those the channel took in this one, and an emitter's    *)
(* pending record is younger than all of its records in that story.        *)

Story == [k \in 1..(base + Len(accepted)) |->
            IF k <= base THEN file[k].rec ELSE accepted[k - base]]

StoryInv ==
  /\ Len(file) <= base + Len(accepted)
  /\ \A k \in 1..Len(file) : file[k].rec = Story[k]

OrderInv ==
  /\ \A i, j \in 1..(base + Len(accepted)) :
       i < j /\ Story[i].by = Story[j].by => Story[i].at < Story[j].at
  /\ \A k \in 1..(base + Len(accepted)) :
       /\ Story[k] \in Record /\ Story[k].at <= clock
       /\ \A h \in Handles : pending[h] # <<>> /\ Story[k].by = h =>
            Story[k].at < pending[h][1].at
  /\ \A h \in Handles : pending[h] # <<>> =>
       pending[h][1] \in Record /\ pending[h][1].by = h /\ pending[h][1].at <= clock

\* The pieces of earlier lives that are no lines; this life may add one.
Damaged(n) == {i \in 1..n : file[i].part # "line"}
DamageInv ==
  /\ Cardinality(Damaged(base)) + (IF torn THEN 1 ELSE 0) <= spawns
  /\ task \in {"select", "drain"} => Cardinality(Damaged(base)) + 1 <= spawns

HistoryInv == WriterInv /\ StoryInv /\ OrderInv /\ DamageInv

\* The pieces up to the length of the file are finitely many.
LEMMA DamagedIsFinite ==
  ASSUME NEW n \in Nat
  PROVE  IsFiniteSet(Damaged(n)) /\ Cardinality(Damaged(n)) \in Nat
<1>1. IsFiniteSet(1..n) /\ Damaged(n) \in SUBSET (1..n)
  BY FS_Interval DEF Damaged
<1> QED
  BY <1>1, FS_Subset, FS_CardinalityType

\* A life leaves one piece that is no line, its last.
LEMMA DamageOfLife ==
  ASSUME TypeOK, FileInv, DamageInv
  PROVE  Cardinality(Damaged(Len(file))) <= spawns
<1>1. /\ Len(file) \in Nat /\ base \in Nat /\ spawns \in Nat /\ torn \in BOOLEAN
      /\ IsFiniteSet(Damaged(base)) /\ Cardinality(Damaged(base)) \in Nat
      /\ Cardinality(Damaged(Len(file))) \in Nat
  <2>1. /\ Len(file) \in Nat /\ base \in Nat /\ spawns \in Nat /\ torn \in BOOLEAN
    BY LenProperties, BoundsAssumption DEF TypeOK
  <2> QED
    BY <2>1, DamagedIsFinite
<1>2. ASSUME NEW i \in 1..Len(file), i > base, ~(torn /\ i = Len(file))
      PROVE  file[i].part = "line"
  <2>1. i - base \in 1..NumLines /\ base + (i - base) = i
    BY <1>1, <1>2 DEF NumLines, FileInv
  <2>2. file[base + (i - base)] = Line(accepted[i - base])
    BY <2>1 DEF FileInv
  <2> QED
    BY <2>1, <2>2 DEF Line
<1>3. CASE torn
  <2>1. Damaged(Len(file)) \in SUBSET (Damaged(base) \union {Len(file)})
    BY <1>1, <1>2 DEF Damaged
  <2>2. /\ IsFiniteSet(Damaged(base) \union {Len(file)})
        /\ Cardinality(Damaged(base) \union {Len(file)})
             \in {Cardinality(Damaged(base)), Cardinality(Damaged(base)) + 1}
    BY <1>1, FS_AddElement
  <2>3. Cardinality(Damaged(Len(file))) <= Cardinality(Damaged(base) \union {Len(file)})
    BY <2>1, <2>2, FS_Subset
  <2> QED
    BY <1>1, <1>3, <2>2, <2>3 DEF DamageInv
<1>4. CASE ~torn
  <2>1. Damaged(Len(file)) \in SUBSET Damaged(base)
    BY <1>1, <1>2, <1>4 DEF Damaged
  <2>2. Cardinality(Damaged(Len(file))) <= Cardinality(Damaged(base))
    BY <1>1, <2>1, FS_Subset
  <2> QED
    BY <1>1, <1>4, <2>2 DEF DamageInv
<1> QED
  BY <1>3, <1>4

\* What the writer puts on the file is the story's next record.
LEMMA StoryWritten ==
  ASSUME WriterInv, StoryInv, current # <<>>, task \in {"select", "drain"},
         NEW part \in {"line", "bare", "torn"}, file' = WithCurrent(part),
         base' = base, accepted' = accepted
  PROVE  /\ StoryInv' /\ Story' = Story
         /\ Damaged(base)' = Damaged(base)
<1>1. /\ TypeOK /\ FileInv /\ ChannelInv
      /\ Len(file) \in Nat /\ Len(accepted) \in Nat /\ Len(queue) \in Nat
      /\ base \in Nat
  BY LenProperties DEF WriterInv, TypeOK
<1> DEFINE n == IF torn THEN Len(file) ELSE Len(file) + 1
<1>2. /\ Len(file') = n
      /\ file'[n] = [rec |-> current[1], part |-> part]
      /\ \A i \in 1..(n - 1) : file'[i] = file[i]
  BY <1>1, WithCurrentProperties
<1>3. /\ NumLines = n - 1 - base /\ n \in Nat /\ base <= n - 1
      /\ n - 1 <= Len(file)
  BY <1>1 DEF NumLines, FileInv
<1>4. current[1] = accepted[n - base] /\ n - base <= Len(accepted)
  <2>1. n - base = NumLines + 1
    BY <1>1, <1>3
  <2>2. Len(current) = 1 /\ current[1] = accepted[NumLines + 1]
    BY <1>1, CurrentIsARecord DEF ChannelInv
  <2>3. Len(accepted) = NumLines + Len(current) + Len(queue)
    BY <1>1 DEF ChannelInv
  <2>4. NumLines \in Int
    BY <1>1, <1>3
  <2> HIDE DEF n
  <2> QED
    BY <1>1, <2>1, <2>2, <2>3, <2>4
<1> HIDE DEF n
<1>5. Story' = Story
  <2>1. \A k \in 1..base : file'[k] = file[k]
    BY <1>1, <1>2, <1>3
  <2> QED
    BY <2>1 DEF Story
<1>6. Damaged(base)' = Damaged(base)
  BY <1>1, <1>2, <1>3 DEF Damaged
<1>7. ASSUME NEW k \in 1..Len(file') PROVE file'[k].rec = Story'[k]
  <2>1. CASE k = n
    <3>1. k \in 1..(base + Len(accepted)) /\ ~(k <= base)
      BY <1>1, <1>3, <1>4, <2>1
    <3>2. Story[k] = accepted[n - base]
      BY <2>1, <3>1 DEF Story
    <3> QED
      BY <1>2, <1>4, <1>5, <2>1, <3>2
  <2>2. CASE k \in 1..(n - 1)
    BY <1>2, <1>3, <1>1, <1>5, <2>2 DEF StoryInv
  <2> QED
    BY <1>2, <1>3, <2>1, <2>2
<1>8. Len(file') <= base' + Len(accepted')
  BY <1>1, <1>2, <1>3, <1>4
<1> QED
  BY <1>5, <1>6, <1>7, <1>8 DEF StoryInv

LEMMA HistoryInit == Init => HistoryInv
<1> SUFFICES ASSUME Init PROVE HistoryInv
  OBVIOUS
<1>1. /\ WriterInv /\ Len(accepted) = 0 /\ Len(file) = 0 /\ base = 0 /\ torn = FALSE
      /\ spawns = 0 /\ task = "none" /\ \A h \in Handles : pending[h] = <<>>
  BY InitInv DEF Init
<1>2. Cardinality(Damaged(base)) = 0
  <2>1. Damaged(base) = {}
    BY <1>1 DEF Damaged
  <2> QED
    BY <2>1, FS_EmptySet
<1> QED
  BY <1>1, <1>2 DEF HistoryInv, StoryInv, OrderInv, DamageInv

\* A step that leaves the story, the clock and the pending records as they are.
LEMMA StoryKept ==
  ASSUME OrderInv, UNCHANGED <<base, accepted, pending, clock>>, Story' = Story
  PROVE  OrderInv'
BY DEF OrderInv

\* Every step preserves it: one step of the proof per action that matters.
LEMMA HistoryNext == HistoryInv /\ WriterInv' /\ [Next]_vars => HistoryInv'
<1> SUFFICES ASSUME HistoryInv, WriterInv', [Next]_vars PROVE HistoryInv'
  OBVIOUS
<1> USE DEF disk, channel, emitters
<1>0. /\ WriterInv /\ StoryInv /\ OrderInv /\ DamageInv
      /\ TypeOK /\ FileInv /\ ChannelInv /\ StateInv
      /\ Len(file) \in Nat /\ Len(accepted) \in Nat /\ base \in Nat
      /\ spawns \in Nat /\ clock \in Nat
  BY LenProperties DEF HistoryInv, WriterInv, TypeOK
<1>1. ASSUME NEW enabled \in BOOLEAN, Spawn(enabled) PROVE HistoryInv'
  <2>1. /\ base' = Len(file) /\ torn' = FALSE /\ file' = file /\ accepted' = <<>>
        /\ spawns' = spawns + 1 /\ UNCHANGED <<pending, clock>>
        /\ base' + Len(accepted') = Len(file)
    BY <1>0, <1>1 DEF Spawn
  <2>2. ASSUME NEW k \in 1..Len(file) PROVE Story'[k] = Story[k] /\ Story'[k] = file[k].rec
    <3>1. k \in 1..(base' + Len(accepted')) /\ k <= base'
      BY <1>0, <2>1
    <3>2. Story'[k] = file'[k].rec
      BY <3>1 DEF Story
    <3> QED
      BY <1>0, <2>1, <3>2 DEF StoryInv
  <2>3. StoryInv'
    BY <1>0, <2>1, <2>2 DEF StoryInv
  <2>4. OrderInv'
    <3>1. 1..Len(file) \subseteq 1..(base + Len(accepted))
      BY <1>0 DEF StoryInv
    <3> QED
      BY <1>0, <2>1, <2>2, <3>1 DEF OrderInv
  <2>5. Damaged(base)' = Damaged(Len(file))
    BY <2>1 DEF Damaged
  <2>6. DamageInv'
    <3>1. /\ Cardinality(Damaged(base)') <= spawns
          /\ Cardinality(Damaged(base)') \in Nat
      BY <1>0, <2>5, DamageOfLife, DamagedIsFinite
    <3> QED
      BY <1>0, <2>1, <3>1 DEF DamageInv
  <2> QED
    BY <2>3, <2>4, <2>6 DEF HistoryInv
<1>2. ASSUME NEW h \in Handles, BuildRecord(h) PROVE HistoryInv'
  <2> DEFINE r == [by |-> h, at |-> clock']
  <2>1. /\ clock' = clock + 1 /\ pending' = [pending EXCEPT ![h] = <<r>>]
        /\ UNCHANGED <<file, base, torn, task, accepted, spawns>>
        /\ clock < MaxRecords
    BY <1>2 DEF BuildRecord
  <2>2. r \in Record
    BY <1>0, <2>1, BoundsAssumption DEF Record
  <2>3. \A g \in Handles : pending'[g] = IF g = h THEN <<r>> ELSE pending[g]
    BY <1>0, <2>1 DEF TypeOK
  <2>4. Story' = Story /\ Damaged(base)' = Damaged(base)
    BY <2>1 DEF Story, Damaged
  <2>5. OrderInv'
    <3>1. ASSUME NEW k \in 1..(base + Len(accepted))
          PROVE  /\ Story[k] \in Record /\ Story[k].at <= clock'
                 /\ \A g \in Handles : pending'[g] # <<>> /\ Story[k].by = g =>
                      Story[k].at < pending'[g][1].at
      <4>1. /\ Story[k] \in Record /\ Story[k].at <= clock
            /\ \A g \in Handles : pending[g] # <<>> /\ Story[k].by = g =>
                 Story[k].at < pending[g][1].at
        BY <1>0 DEF OrderInv
      <4>2. Story[k].at \in Nat
        BY <4>1 DEF Record
      <4>3. r.at = clock + 1
        BY <2>1
      <4> HIDE DEF r
      <4> QED
        BY <1>0, <2>1, <2>3, <4>1, <4>2, <4>3
    <3>2. ASSUME NEW g \in Handles, pending'[g] # <<>>
          PROVE  /\ pending'[g][1] \in Record /\ pending'[g][1].by = g
                 /\ pending'[g][1].at <= clock'
      <4>1. CASE g = h
        <5>1. pending'[g][1] = r
          BY <2>3, <4>1
        <5> QED
          BY <1>0, <2>1, <2>2, <4>1, <5>1
      <4>2. CASE g # h
        <5>1. pending'[g] = pending[g]
          BY <2>3, <4>2
        <5>2. /\ pending[g][1] \in Record /\ pending[g][1].by = g
              /\ pending[g][1].at <= clock
          BY <1>0, <3>2, <5>1 DEF OrderInv
        <5>3. pending[g][1].at \in Nat
          BY <5>2 DEF Record
        <5> QED
          BY <1>0, <2>1, <5>1, <5>2, <5>3
      <4> QED
        BY <4>1, <4>2
    <3> QED
      BY <1>0, <2>1, <2>4, <3>1, <3>2 DEF OrderInv
  <2> QED
    BY <1>0, <2>1, <2>4, <2>5 DEF HistoryInv, StoryInv, DamageInv
<1>3. ASSUME NEW h \in Handles, SendRecord(h) PROVE HistoryInv'
  <2> DEFINE r == pending[h][1]
  <2>1. /\ pending[h] # <<>> /\ pending' = [pending EXCEPT ![h] = <<>>]
        /\ UNCHANGED <<file, base, torn, task, clock, spawns>>
    BY <1>3 DEF SendRecord
  <2>2. \A g \in Handles : pending'[g] = IF g = h THEN <<>> ELSE pending[g]
    BY <1>0, <2>1 DEF TypeOK
  <2>3. Damaged(base)' = Damaged(base)
    BY <2>1 DEF Damaged
  <2>4. CASE accepted' = accepted
    <3>1. Story' = Story
      BY <2>1, <2>4 DEF Story
    <3>2. OrderInv'
      BY <1>0, <2>1, <2>2, <2>4, <3>1 DEF OrderInv
    <3> QED
      BY <1>0, <2>1, <2>3, <2>4, <3>1, <3>2 DEF HistoryInv, StoryInv, DamageInv
  <2>5. CASE accepted' = Append(accepted, Head(pending[h]))
    <3>1. Head(pending[h]) = r /\ r \in Record /\ r.by = h /\ r.at <= clock
      BY <1>0, <2>1 DEF OrderInv, TypeOK
    <3> DEFINE n == base + Len(accepted)
    <3> HIDE DEF r
    <3>2. /\ Len(accepted') = Len(accepted) + 1 /\ accepted'[Len(accepted) + 1] = r
          /\ \A i \in 1..Len(accepted) : accepted'[i] = accepted[i]
      BY <1>0, <2>5, <3>1 DEF TypeOK
    <3>3. base' + Len(accepted') = n + 1 /\ n \in Nat
      BY <1>0, <2>1, <3>2
    <3>4. Story'[n + 1] = r
      BY <1>0, <2>1, <3>2, <3>3 DEF Story
    <3>5. \A k \in 1..n : Story'[k] = Story[k]
      <4>1. ASSUME NEW k \in 1..n PROVE Story'[k] = Story[k]
        <5>1. k \in 1..(base' + Len(accepted'))
          BY <3>3
        <5>2. CASE k <= base
          BY <2>1, <5>1, <5>2 DEF Story
        <5>3. CASE ~(k <= base)
          <6>1. k - base \in 1..Len(accepted)
            BY <1>0, <5>3
          <6> QED
            BY <2>1, <3>2, <5>1, <5>3, <6>1 DEF Story
        <5> QED
          BY <5>2, <5>3
      <4> QED
        BY <4>1
    <3>6. StoryInv'
      BY <1>0, <2>1, <3>3, <3>5 DEF StoryInv
    <3>7. \A k \in 1..n :
            /\ Story[k] \in Record /\ Story[k].at <= clock
            /\ Story[k].by = h => Story[k].at < r.at
            /\ \A g \in Handles : pending'[g] # <<>> /\ Story[k].by = g =>
                 Story[k].at < pending'[g][1].at
      BY <1>0, <2>1, <2>2 DEF OrderInv, r
    <3> HIDE DEF n
    <3>8. OrderInv'
      <4>1. ASSUME NEW i \in 1..(n + 1), NEW j \in 1..(n + 1),
                   i < j, Story'[i].by = Story'[j].by
            PROVE  Story'[i].at < Story'[j].at
        <5>1. i \in 1..n
          BY <3>3, <4>1
        <5>2. CASE j = n + 1
          BY <3>1, <3>4, <3>5, <3>7, <4>1, <5>1, <5>2
        <5>3. CASE j \in 1..n
          BY <1>0, <3>5, <4>1, <5>1, <5>3 DEF OrderInv, n
        <5> QED
          BY <3>3, <5>2, <5>3
      <4>2. ASSUME NEW k \in 1..(n + 1)
            PROVE  /\ Story'[k] \in Record /\ Story'[k].at <= clock'
                   /\ \A g \in Handles : pending'[g] # <<>> /\ Story'[k].by = g =>
                        Story'[k].at < pending'[g][1].at
        <5>1. CASE k = n + 1
          BY <2>1, <2>2, <3>1, <3>4, <5>1
        <5>2. CASE k \in 1..n
          BY <2>1, <3>5, <3>7, <5>2
        <5> QED
          BY <3>3, <5>1, <5>2
      <4>3. \A g \in Handles : pending'[g] # <<>> =>
              /\ pending'[g][1] \in Record /\ pending'[g][1].by = g
              /\ pending'[g][1].at <= clock'
        BY <1>0, <2>1, <2>2 DEF OrderInv
      <4> QED
        BY <3>3, <4>1, <4>2, <4>3 DEF OrderInv
    <3> QED
      BY <1>0, <2>1, <2>3, <3>6, <3>8 DEF HistoryInv, DamageInv
  <2> QED
    BY <1>3, <2>4, <2>5 DEF SendRecord
<1>4. CASE SpillRecord \/ WriteRecord \/ WriteFails
  <2>1. /\ current # <<>> /\ spawns' = spawns
        /\ UNCHANGED <<base, accepted, pending, clock>>
    BY <1>4 DEF SpillRecord, WriteRecord, WriteFails
  <2>2. task \in {"select", "drain"}
    BY <1>0, <2>1 DEF StateInv, TypeOK
  <2>3. \/ UNCHANGED file
        \/ \E part \in {"line", "bare", "torn"} : file' = WithCurrent(part)
    <3>1. CASE SpillRecord
      BY <3>1 DEF SpillRecord, WithCurrent
    <3>2. CASE WriteRecord \/ WriteFails
      BY <3>2 DEF WriteRecord, WriteFails
    <3> QED
      BY <1>4, <3>1, <3>2
  <2>4. StoryInv' /\ Story' = Story /\ Damaged(base)' = Damaged(base)
    <3>1. CASE UNCHANGED file
      BY <1>0, <2>1, <3>1 DEF StoryInv, Story, Damaged
    <3>2. ASSUME NEW part \in {"line", "bare", "torn"}, file' = WithCurrent(part)
          PROVE  StoryInv' /\ Story' = Story /\ Damaged(base)' = Damaged(base)
      BY <1>0, <2>1, <2>2, <3>2, StoryWritten
    <3> QED
      BY <2>3, <3>1, <3>2
  <2>5. OrderInv'
    BY <1>0, <2>1, <2>4, StoryKept
  <2>6. DamageInv'
    <3>1. Cardinality(Damaged(base)) + 1 <= spawns /\ Cardinality(Damaged(base)) \in Nat
      BY <1>0, <2>2, DamagedIsFinite DEF DamageInv
    <3>2. Cardinality(Damaged(base)') = Cardinality(Damaged(base))
      BY <2>4
    <3> QED
      BY <1>0, <2>1, <3>1, <3>2 DEF DamageInv
  <2> QED
    BY <2>4, <2>5, <2>6 DEF HistoryInv
<1>5. CASE \/ Receive \/ ReceiveNone \/ SeeShutdown \/ Finish \/ Shutdown \/ Join
           \/ DropWriter \/ UNCHANGED vars
           \/ \E h \in Handles : CloneHandle(h) \/ DropHandle(h)
  <2>1. /\ UNCHANGED <<file, base, torn, accepted, pending, clock, spawns>>
        /\ task' \in {"select", "drain"} => task \in {"select", "drain"}
    BY <1>5 DEF Receive, ReceiveNone, SeeShutdown, Finish, Shutdown, Join, DropWriter,
                CloneHandle, DropHandle, vars
  <2>2. Story' = Story /\ Damaged(base)' = Damaged(base)
    BY <2>1 DEF Story, Damaged
  <2>3. OrderInv'
    BY <1>0, <2>1, <2>2, StoryKept
  <2> QED
    BY <1>0, <2>1, <2>2, <2>3 DEF HistoryInv, StoryInv, DamageInv
<1>6. CASE Exit \/ Crash
  <2>1. /\ UNCHANGED <<file, base, torn, accepted, clock, spawns>>
        /\ task' = "none" /\ pending' = [h \in Handles |-> <<>>]
    BY <1>6 DEF Exit, Crash, Gone
  <2>2. Story' = Story /\ Damaged(base)' = Damaged(base)
    BY <2>1 DEF Story, Damaged
  <2>3. OrderInv'
    <3>1. \A h \in Handles : pending'[h] = <<>>
      BY <2>1
    <3> QED
      BY <1>0, <2>1, <2>2, <3>1 DEF OrderInv
  <2> QED
    BY <1>0, <2>1, <2>2, <2>3 DEF HistoryInv, StoryInv, DamageInv
<1> QED
  BY <1>1, <1>2, <1>3, <1>4, <1>5, <1>6 DEF Next, Writer, Emit, Owner

\* Over all lives of the process the file is the beginning of one story, in
\* which an emitter's records are in the order it built them, and each life has
\* damaged one line at most.
THEOREM HistoryInvariance == Spec => []HistoryInv
BY HistoryInit, HistoryNext, Invariance, PTL DEF Spec

\* An emitter's records are on disk in the order it built them, in all lives
\* of the process together.
THEOREM EmittersInOrder == Spec => []EmitterOrder
<1>1. HistoryInv => EmitterOrder
  <2> SUFFICES ASSUME HistoryInv, NEW i \in 1..Len(file), NEW j \in 1..Len(file),
                      i < j, file[i].rec.by = file[j].rec.by
               PROVE  file[i].rec.at < file[j].rec.at
    BY DEF EmitterOrder
  <2>1. base \in Nat /\ Len(file) \in Nat /\ Len(accepted) \in Nat
    BY LenProperties DEF HistoryInv, WriterInv, TypeOK
  <2>2. /\ i \in 1..(base + Len(accepted)) /\ j \in 1..(base + Len(accepted))
        /\ file[i].rec = Story[i] /\ file[j].rec = Story[j]
    BY <2>1 DEF HistoryInv, StoryInv
  <2> QED
    BY <2>2 DEF HistoryInv, OrderInv
<1> QED
  BY <1>1, HistoryInvariance, PTL

\* Every life of the process leaves at most one record without its newline.
THEOREM DamageIsBounded == Spec => []DamageBounded
<1>1. HistoryInv => DamageBounded
  <2> SUFFICES ASSUME HistoryInv PROVE Cardinality(Damaged(Len(file))) <= spawns
    BY DEF DamageBounded, Damaged
  <2>1. TypeOK /\ FileInv /\ DamageInv
    BY DEF HistoryInv, WriterInv
  <2> QED
    BY <2>1, DamageOfLife
<1> QED
  BY <1>1, HistoryInvariance, PTL

=============================================================================
