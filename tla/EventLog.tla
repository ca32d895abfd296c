------------------------------ MODULE EventLog ------------------------------
(***************************************************************************)
(* The event log of the daemon (src/crates/marsala/src/event_log.rs):      *)
(* handles that emit records from any thread, an unbounded channel, the    *)
(* writer task that appends one JSON line per record, and the owner that   *)
(* spawns the task and shuts it down.  The process may be killed at any    *)
(* moment and started again on the same file, which is opened for append.  *)
(*                                                                         *)
(* The file is a sequence of pieces.  A piece "line" is a record with its  *)
(* newline, "bare" a whole record whose newline is missing, "torn" a       *)
(* proper prefix of a record.  What follows a piece that is not a "line"   *)
(* is on the same line of the file as that piece.                          *)
(***************************************************************************)
EXTENDS Naturals, Sequences, FiniteSets

CONSTANTS Handles,      \* the tasks that hold a clone of EventLogHandle
          MaxRecords,   \* bound: records built, over all the process's lives
          MaxSpawns     \* bound: lives of the process (calls of spawn)

ASSUME BoundsAssumption == MaxRecords \in Nat /\ MaxSpawns \in Nat

VARIABLES
  file,      \* what is on disk; it survives the process
  base,      \* length of file when this life opened it
  torn,      \* this life's last piece is not a "line"
  owner,     \* the EventLogWriter: none, owned, joining, ok, err, dropped
  task,      \* the writer task: none, off, select, drain, done, failed
  handles,   \* live EventLogHandle clones
  pending,   \* record built by emit and not sent yet (<<>> or <<r>>)
  queue,     \* the channel
  closed,    \* the channel accepts no more records
  current,   \* record received and not written yet (<<>> or <<r>>)
  clock,     \* Utc::now(), one tick per record
  spawns,    \* lives so far
  accepted,  \* history: records sender.send took in this life, in order
  refused    \* history: records sender.send gave back

vars == <<file, base, torn, owner, task, handles, pending, queue, closed,
          current, clock, spawns, accepted, refused>>
channel == <<queue, closed, accepted, refused>>
emitters == <<handles, pending, clock>>
disk == <<file, base, torn>>

Record == [by : Handles, at : 1..MaxRecords]
Piece == [rec : Record, part : {"line", "bare", "torn"}]
Line(r) == [rec |-> r, part |-> "line"]

\* The records of this life that are on disk with their newline.
NumLines == Len(file) - base - (IF torn THEN 1 ELSE 0)
Durable == [i \in 1..NumLines |-> file[base + i].rec]

Init ==
  /\ file = <<>> /\ base = 0 /\ torn = FALSE
  /\ owner = "none" /\ task = "none"
  /\ handles = {} /\ pending = [h \in Handles |-> <<>>] /\ clock = 0
  /\ queue = <<>> /\ closed = TRUE /\ accepted = <<>> /\ refused = {}
  /\ current = <<>> /\ spawns = 0

-----------------------------------------------------------------------------
(* The owner.                                                              *)

\* EventLogWriter::spawn: a disabled log has neither channel nor task.
Spawn(enabled) ==
  /\ owner = "none" /\ spawns < MaxSpawns
  /\ spawns' = spawns + 1
  /\ owner' = "owned"
  /\ task' = IF enabled THEN "select" ELSE "off"
  /\ closed' = ~enabled
  /\ base' = Len(file) /\ torn' = FALSE
  /\ queue' = <<>> /\ accepted' = <<>> /\ refused' = {}
  /\ UNCHANGED <<file, emitters, current>>

\* EventLogWriter::handle, and EventLogHandle::clone.
CloneHandle(h) ==
  /\ h \notin handles
  /\ owner = "owned" \/ handles # {}
  /\ handles' = handles \union {h}
  /\ UNCHANGED <<disk, owner, task, pending, channel, current, clock, spawns>>

\* shutdown, up to the await of the task: drop the sender, signal the task.
Shutdown ==
  /\ owner = "owned"
  /\ owner' = IF task = "off" THEN "ok" ELSE "joining"
  /\ UNCHANGED <<disk, task, emitters, channel, current, spawns>>

\* Mutant of Join: the task's error is not passed on.
JoinIgnoringError ==
  /\ owner = "joining" /\ task \in {"done", "failed"}
  /\ owner' = "ok"
  /\ UNCHANGED <<disk, task, emitters, channel, current, spawns>>

\* shutdown, from the end of the task on: its error is the caller's error.
Join ==
  /\ owner = "joining" /\ task \in {"done", "failed"}
  /\ owner' = IF task = "done" THEN "ok" ELSE "err"
  /\ UNCHANGED <<disk, task, emitters, channel, current, spawns>>

\* The writer goes out of scope with no shutdown: the oneshot sender drops.
DropWriter ==
  /\ owner = "owned"
  /\ owner' = "dropped"
  /\ UNCHANGED <<disk, task, emitters, channel, current, spawns>>

-----------------------------------------------------------------------------
(* Emitters.                                                               *)

\* emit, up to the record: the timestamp is taken before the send.
BuildRecord(h) ==
  /\ h \in handles /\ pending[h] = <<>> /\ task # "off"
  /\ clock < MaxRecords
  /\ clock' = clock + 1
  /\ pending' = [pending EXCEPT ![h] = <<[by |-> h, at |-> clock']>>]
  /\ UNCHANGED <<disk, owner, task, handles, channel, current, spawns>>

\* emit, the send: a closed channel refuses the record, emit only warns.
SendRecord(h) ==
  /\ pending[h] # <<>>
  /\ pending' = [pending EXCEPT ![h] = <<>>]
  /\ IF closed
     THEN /\ refused' = refused \union {Head(pending[h])}
          /\ UNCHANGED <<queue, accepted>>
     ELSE /\ queue' = Append(queue, Head(pending[h]))
          /\ accepted' = Append(accepted, Head(pending[h]))
          /\ UNCHANGED refused
  /\ UNCHANGED <<disk, owner, task, handles, closed, current, clock, spawns>>

DropHandle(h) ==
  /\ h \in handles /\ pending[h] = <<>>
  /\ handles' = handles \ {h}
  /\ UNCHANGED <<disk, owner, task, pending, channel, current, clock, spawns>>

-----------------------------------------------------------------------------
(* The writer task.                                                        *)

\* The oneshot resolves when it is sent to and when its sender is dropped.
Signalled == owner # "owned"
SendersGone == owner # "owned" /\ handles = {}

\* Mutant of Receive: everything queued is taken at once.
ReceiveAll ==
  /\ task \in {"select", "drain"} /\ current = <<>> /\ queue # <<>>
  /\ current' = queue
  /\ queue' = <<>>
  /\ UNCHANGED <<disk, owner, task, emitters, closed, accepted, refused, spawns>>

\* receiver.recv() yields a record, in the select loop or in the drain loop.
Receive ==
  /\ task \in {"select", "drain"} /\ current = <<>> /\ queue # <<>>
  /\ current' = <<Head(queue)>>
  /\ queue' = Tail(queue)
  /\ UNCHANGED <<disk, owner, task, emitters, closed, accepted, refused, spawns>>

\* receiver.recv() yields None in the select loop.
ReceiveNone ==
  /\ task = "select" /\ current = <<>> /\ queue = <<>> /\ SendersGone
  /\ task' = "drain"
  /\ UNCHANGED <<disk, owner, emitters, channel, current, spawns>>

\* Mutant of SeeShutdown: the shutdown waits for the handles to go.
SeeShutdownLate ==
  /\ task = "select" /\ current = <<>> /\ SendersGone
  /\ task' = "drain" /\ closed' = TRUE
  /\ UNCHANGED <<disk, owner, emitters, queue, accepted, refused, current, spawns>>

\* The other branch of the select: close the channel, then drain it.
SeeShutdown ==
  /\ task = "select" /\ current = <<>> /\ Signalled
  /\ task' = "drain" /\ closed' = TRUE
  /\ UNCHANGED <<disk, owner, emitters, queue, accepted, refused, current, spawns>>

\* write_record, some of the bytes: a long record overflows the BufWriter.
SpillRecord ==
  /\ current # <<>> /\ ~torn
  /\ file' = Append(file, [rec |-> Head(current), part |-> "torn"])
  /\ torn' = TRUE
  /\ UNCHANGED <<base, owner, task, emitters, channel, current, spawns>>

\* The file once `part` is all that is on it of the current record.
WithCurrent(part) ==
  LET piece == [rec |-> Head(current), part |-> part]
  IN  IF torn THEN [file EXCEPT ![Len(file)] = piece] ELSE Append(file, piece)

\* write_record returns Ok: the line is flushed.
WriteRecord ==
  /\ current # <<>>
  /\ file' = WithCurrent("line")
  /\ torn' = FALSE
  /\ current' = <<>>
  /\ UNCHANGED <<base, owner, task, emitters, channel, spawns>>

\* Mutant of WriteFails: the error is logged and the loop goes on.
WriteFailsIgnored ==
  /\ current # <<>>
  /\ \/ UNCHANGED file
     \/ file' = WithCurrent("torn")
  /\ torn' = FALSE /\ current' = <<>>
  /\ UNCHANGED <<base, owner, task, emitters, channel, spawns>>

\* Mutant of WriteFails: the record goes back to the channel to try again.
WriteFailsRetried ==
  /\ current # <<>> /\ ~torn
  /\ queue' = Append(queue, Head(current)) /\ current' = <<>>
  /\ UNCHANGED <<disk, owner, task, emitters, closed, accepted, refused, spawns>>

\* write_record fails: the task returns the error, which drops the receiver
\* with its records, and the BufWriter, which tries once more to flush.
WriteFails ==
  /\ current # <<>>
  /\ \/ UNCHANGED <<file, torn>>
     \/ /\ file' = WithCurrent("line") /\ torn' = FALSE
     \/ \E part \in {"torn", "bare"} : file' = WithCurrent(part) /\ torn' = TRUE
  /\ task' = "failed"
  /\ closed' = TRUE /\ queue' = <<>> /\ current' = <<>>
  /\ UNCHANGED <<base, owner, emitters, accepted, refused, spawns>>

\* Mutant of Finish: the task ends without the drain loop.
FinishWithoutDrain ==
  /\ task = "drain" /\ current = <<>>
  /\ task' = "done" /\ closed' = TRUE /\ queue' = <<>>
  /\ UNCHANGED <<disk, owner, emitters, accepted, refused, current, spawns>>

\* The drain loop sees None: the final flush, and the receiver is dropped.
Finish ==
  /\ task = "drain" /\ current = <<>> /\ queue = <<>>
  /\ task' = "done" /\ closed' = TRUE
  /\ UNCHANGED <<disk, owner, emitters, queue, accepted, refused, current, spawns>>

-----------------------------------------------------------------------------
(* The process.                                                            *)

\* Everything but the file is gone.
Gone ==
  /\ owner' = "none" /\ task' = "none" /\ handles' = {}
  /\ pending' = [h \in Handles |-> <<>>]
  /\ queue' = <<>> /\ closed' = TRUE /\ current' = <<>>
  /\ UNCHANGED <<disk, clock, spawns, accepted, refused>>

\* main returns: the runtime drops the tasks at their next await, and no
\* write_record is between two awaits.
Exit == owner \in {"ok", "err", "dropped"} /\ current = <<>> /\ Gone

\* The process is killed, possibly inside write_record.
Crash == owner # "none" /\ Gone

-----------------------------------------------------------------------------
Writer == Receive \/ ReceiveNone \/ SeeShutdown \/ SpillRecord \/ WriteRecord
            \/ WriteFails \/ Finish
Emit(h) == CloneHandle(h) \/ BuildRecord(h) \/ SendRecord(h) \/ DropHandle(h)
Owner == (\E enabled \in BOOLEAN : Spawn(enabled)) \/ Shutdown \/ Join \/ DropWriter

Next == Writer \/ (\E h \in Handles : Emit(h)) \/ Owner \/ Exit \/ Crash

\* The runtime polls a woken task, a write returns, and select! polls its
\* branches in random order, so a signal is seen however busy the channel.
Fairness ==
  /\ WF_vars(Receive \/ ReceiveNone \/ Finish)
  /\ WF_vars(WriteRecord \/ WriteFails)
  /\ SF_vars(SeeShutdown)
  /\ WF_vars(Join)

Spec == Init /\ [][Next]_vars /\ Fairness

-----------------------------------------------------------------------------
(* Properties.                                                             *)

TypeOK ==
  /\ file \in Seq(Piece) /\ base \in Nat /\ torn \in BOOLEAN
  /\ owner \in {"none", "owned", "joining", "ok", "err", "dropped"}
  /\ task \in {"none", "off", "select", "drain", "done", "failed"}
  /\ handles \subseteq Handles
  /\ pending \in [Handles -> Seq(Record)]
  /\ queue \in Seq(Record) /\ current \in Seq(Record) /\ Len(current) <= 1
  /\ closed \in BOOLEAN
  /\ clock \in 0..MaxRecords /\ spawns \in 0..MaxSpawns
  /\ accepted \in Seq(Record) /\ refused \subseteq Record

\* The lines of this life are its accepted records from the first on, in the
\* order the channel took them, none lost in between, doubled or swapped:
\* the writer task alone appends, one record at a time.
LogFollowsSends ==
  /\ NumLines <= Len(accepted)
  /\ \A i \in 1..NumLines : file[base + i] = Line(accepted[i])

\* A shutdown that returns Ok has every accepted record on disk: those queued
\* behind the signal are drained before the task ends.
ShutdownFlushes == owner = "ok" => NumLines = Len(accepted)

\* An emitter's records are on disk in the order it built them, in all lives
\* together.  (Those of two emitters need not be: the timestamp is taken
\* before the send.)
EmitterOrder ==
  \A i, j \in 1..Len(file) :
    i < j /\ file[i].rec.by = file[j].rec.by => file[i].rec.at < file[j].rec.at

\* However often the process dies or a write fails, each life leaves at most
\* one record without its newline, so it damages at most one later line.
DamageBounded ==
  Cardinality({i \in 1..Len(file) : file[i].part # "line"}) <= spawns

\* shutdown returns, whatever live handles keep sending.
ShutdownReturns == owner = "joining" ~> owner # "joining"

\* An accepted record reaches the disk unless a write fails or the process
\* ends first.
AcceptedIsWritten ==
  \A n \in 1..MaxRecords :
    Len(accepted) >= n ~> NumLines >= n \/ task \in {"failed", "none"}

-----------------------------------------------------------------------------
(* What the log promises, and how this module's state maps to it.          *)

LogStatus ==
  IF owner = "none" THEN "down"
  ELSE IF owner = "ok" THEN "settled"
  ELSE IF task = "failed" THEN "broken"
  ELSE IF closed THEN "closed" ELSE "open"

Promise == INSTANCE DurableLog WITH
             status <- LogStatus, accepted <- accepted, durable <- Durable

\* The log implements its promise: order, durability and a truthful shutdown,
\* through channel, drain loop, spilled records, failures and restarts.
ImplementsDurableLog == Promise!Spec

=============================================================================
