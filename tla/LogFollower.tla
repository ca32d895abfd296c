----------------------------- MODULE LogFollower ----------------------------
(***************************************************************************)
(* EventLogFollower (src/crates/marsala/src/event_log.rs): a reader that   *)
(* polls the log file at its path while the daemon appends to it, restarts *)
(* on it, and while an operator truncates it or moves it away.  LogTail    *)
(* and EventStream add who polls and what becomes of the lines.            *)
(*                                                                         *)
(* A file is a sequence of chunks, one for each write the daemon's         *)
(* BufWriter issues: a whole record with its newline, or the head and the  *)
(* tail of a long one (a head is never a whole record that only lacks its  *)
(* newline).  Positions count chunks.  read_line is one step: a line is    *)
(* torn by the writer's chunks, never by the reader's own buffer.  A seek  *)
(* does not fail, and a file's id is never that of an earlier file (no     *)
(* inode is used again).                                                   *)
(***************************************************************************)
EXTENDS Naturals, Sequences, FiniteSetsExt

CONSTANTS
  MaxChunks,   \* bound: chunks ever written
  MaxFiles,    \* bound: files ever created at the path
  MaxCuts,     \* bound: truncations
  MaxErrors    \* bound: polls that fail

ASSUME BoundsAssumption ==
  MaxChunks \in Nat /\ MaxFiles \in Nat /\ MaxCuts \in Nat /\ MaxErrors \in Nat

VARIABLES
  content,   \* the files, in the order they were created
  path,      \* the file at the path, 0 if there is none
  target,    \* the file the daemon's writer has open, 0 if it does not run
  midline,   \* the writer has written the head of a record and not its tail
  written,   \* chunks so far
  cuts,      \* truncations so far
  at,        \* idle, open, read, stat, or ready, failed (poll has returned)
  reader,    \* the file the follower has open, 0 if none
  pos,       \* the reader's offset
  cursor,    \* self.cursor: the bytes counted so far in the file
  opening,   \* initial_open, Begin once it is taken
  waiting,   \* report_waiting
  batch,     \* the events of the poll, <<>> for WaitingForFile
  errors     \* failed polls so far

disk == <<content, path, target, midline, written, cuts>>
follower == <<at, reader, pos, cursor, opening, waiting, batch, errors>>

Chunk == [file : 1..MaxFiles, epoch : 0..MaxCuts, index : 1..MaxChunks,
          kind : {"whole", "head", "tail"}]
Before(c, d) == \/ c.file < d.file
                \/ c.file = d.file /\ c.epoch < d.epoch
                \/ c.file = d.file /\ c.epoch = d.epoch /\ c.index < d.index

Begin == [how |-> "begin"]
AtEnd == [how |-> "end"]
Resume(f, c) == [how |-> "resume", file |-> f, cursor |-> c]

Init(start) ==
  /\ content = <<>> /\ path = 0 /\ target = 0 /\ midline = FALSE
  /\ written = 0 /\ cuts = 0
  /\ at = "idle" /\ reader = 0 /\ pos = 0 /\ cursor = 0
  /\ opening = start /\ waiting = TRUE /\ batch = <<>> /\ errors = 0

-----------------------------------------------------------------------------
(* The daemon and the operator.                                            *)

\* EventLogWriter::spawn opens the path for append and creates it if missing.
OpenLog ==
  /\ target = 0
  /\ IF path # 0 THEN UNCHANGED <<content, path>>
     ELSE /\ Len(content) < MaxFiles
          /\ content' = Append(content, <<>>)
          /\ path' = Len(content')
  /\ target' = path' /\ midline' = FALSE
  /\ UNCHANGED <<written, cuts>>

\* A chunk of a record reaches the file the writer has open.
WriteChunk(kind) ==
  /\ target # 0 /\ written < MaxChunks
  /\ (kind = "tail") <=> midline
  /\ midline' = (kind = "head")
  /\ written' = written + 1
  /\ LET chunk == [file |-> target, epoch |-> cuts,
                   index |-> Len(content[target]) + 1, kind |-> kind]
     IN  content' = [content EXCEPT ![target] = Append(@, chunk)]
  /\ UNCHANGED <<path, target, cuts>>

\* The daemon ends, possibly between the two chunks of a record.
CloseLog ==
  /\ target # 0
  /\ target' = 0 /\ midline' = FALSE
  /\ UNCHANGED <<content, path, written, cuts>>

\* The operator moves the file away; a running daemon goes on writing to it.
MoveAway == path # 0 /\ path' = 0 /\ UNCHANGED <<content, target, midline, written, cuts>>

Truncate ==
  /\ path # 0 /\ cuts < MaxCuts
  /\ content' = [content EXCEPT ![path] = <<>>]
  /\ cuts' = cuts + 1
  /\ UNCHANGED <<path, target, midline, written>>

DiskStep ==
  \/ OpenLog \/ CloseLog \/ MoveAway \/ Truncate
  \/ \E kind \in {"whole", "head", "tail"} : WriteChunk(kind)

-----------------------------------------------------------------------------
(* EventLogFollower::poll, from system call to system call.                *)

StartPoll ==
  /\ at = "idle"
  /\ at' = IF reader = 0 THEN "open" ELSE "read"
  /\ batch' = <<>>
  /\ UNCHANGED <<reader, pos, cursor, opening, waiting, errors>>

\* There is no file at the path: say so once, and the poll is over.
FileMissing ==
  /\ at' = "ready" /\ reader' = 0
  /\ batch' = IF waiting THEN Append(batch, <<>>) ELSE batch
  /\ waiting' = FALSE

\* Where the first open of the follower starts in file f, and any other open.
StartIn(f) ==
  IF opening.how = "end" THEN Len(content[f])
  ELSE IF opening.how = "resume" /\ opening.file = f THEN opening.cursor ELSE 0

\* Mutant: a follower that resumes starts at the end of the file, too.
OpenAtEnd ==
  /\ at = "open" /\ path # 0
  /\ at' = "read" /\ reader' = path
  /\ cursor' = (IF opening.how = "begin" THEN 0 ELSE Len(content[path]))
  /\ pos' = cursor' /\ opening' = Begin /\ waiting' = TRUE
  /\ UNCHANGED <<batch, errors>>

\* open_current_path, for a file that is there.
Open ==
  /\ at = "open" /\ path # 0
  /\ at' = "read" /\ reader' = path
  /\ cursor' = StartIn(path) /\ pos' = cursor'
  /\ opening' = Begin /\ waiting' = TRUE
  /\ UNCHANGED <<batch, errors>>

OpenMissing ==
  /\ at = "open" /\ path = 0
  /\ FileMissing
  /\ opening' = Begin
  /\ UNCHANGED <<pos, cursor, errors>>

\* Where read_line stops: behind a newline, or at the end of the file.
EndsLine(c) == c.kind # "head"
LineEnd ==
  LET read == content[reader]
  IN  Min({i \in (pos + 1)..Len(read) : EndsLine(read[i])} \union {Len(read)})
NextLine == SubSeq(content[reader], pos + 1, LineEnd)

\* Mutant: cursor is advanced by the line's end instead of its length.
ReadLineMiscounted ==
  /\ at = "read" /\ pos < Len(content[reader])
  /\ batch' = Append(batch, NextLine)
  /\ pos' = LineEnd /\ cursor' = cursor + LineEnd
  /\ UNCHANGED <<at, reader, opening, waiting, errors>>

ReadLine ==
  /\ at = "read" /\ pos < Len(content[reader])
  /\ batch' = Append(batch, NextLine)
  /\ pos' = LineEnd /\ cursor' = cursor + (LineEnd - pos)
  /\ UNCHANGED <<at, reader, opening, waiting, errors>>

ReadNothing ==
  /\ at = "read" /\ pos >= Len(content[reader])
  /\ at' = "stat"
  /\ UNCHANGED <<reader, pos, cursor, opening, waiting, batch, errors>>

\* Mutant: the file at the path is only compared by its id.
CheckIdOnly ==
  /\ at = "stat" /\ path # 0
  /\ IF path # reader THEN at' = "open" /\ reader' = 0 ELSE at' = "ready" /\ UNCHANGED reader
  /\ UNCHANGED <<pos, cursor, opening, waiting, batch, errors>>

\* Mutant: a follower that opens another file forgets what the poll has read.
CheckPathAnew ==
  /\ at = "stat" /\ path # 0
  /\ \/ /\ path # reader
        /\ at' = "open" /\ reader' = 0 /\ cursor' = 0 /\ batch' = <<>> /\ UNCHANGED pos
     \/ /\ path = reader /\ Len(content[path]) < cursor
        /\ at' = "read" /\ cursor' = 0 /\ pos' = 0 /\ UNCHANGED <<reader, batch>>
     \/ /\ path = reader /\ Len(content[path]) >= cursor
        /\ at' = "ready" /\ UNCHANGED <<reader, cursor, pos, batch>>
  /\ UNCHANGED <<opening, waiting, errors>>

\* At the end of the file: is it still the file at the path, and as long?
CheckPath ==
  /\ at = "stat" /\ path # 0
  /\ \/ path # reader /\ at' = "open" /\ reader' = 0 /\ cursor' = 0 /\ UNCHANGED pos
     \/ /\ path = reader /\ Len(content[path]) < cursor
        /\ at' = "read" /\ cursor' = 0 /\ pos' = 0 /\ UNCHANGED reader
     \/ /\ path = reader /\ Len(content[path]) >= cursor
        /\ at' = "ready" /\ UNCHANGED <<reader, cursor, pos>>
  /\ UNCHANGED <<opening, waiting, batch, errors>>

PathMissing ==
  /\ at = "stat" /\ path = 0
  /\ FileMissing
  /\ cursor' = 0
  /\ UNCHANGED <<pos, opening, errors>>

\* poll returns an error, and what it had read is dropped.
Fail ==
  /\ errors < MaxErrors /\ errors' = errors + 1
  /\ at' = "failed" /\ batch' = <<>>
  /\ UNCHANGED <<reader, opening, waiting>>

CallFails == at \in {"open", "stat"} /\ Fail /\ UNCHANGED <<pos, cursor>>

\* A piece of a record may end or begin inside a character: read_line has
\* consumed it when it finds that it is not UTF-8, and cursor does not count it.
ReadFails ==
  /\ at = "read" /\ pos < Len(content[reader])
  /\ \E i \in DOMAIN NextLine : NextLine[i].kind # "whole"
  /\ ~ \E i \in 1..Len(NextLine) - 1 :
         NextLine[i].kind = "head" /\ NextLine[i + 1].kind = "tail"
  /\ Fail
  /\ pos' = LineEnd
  /\ UNCHANGED cursor

\* A poll that has begun, up to its return.
Poll ==
  \/ StartPoll \/ Open \/ OpenMissing \/ ReadLine \/ ReadNothing \/ CheckPath
  \/ PathMissing \/ CallFails \/ ReadFails

-----------------------------------------------------------------------------
TypeOK ==
  /\ content \in Seq(Seq(Chunk)) /\ Len(content) <= MaxFiles
  /\ {path, target, reader} \subseteq 0..Len(content)
  /\ midline \in BOOLEAN /\ written \in 0..MaxChunks /\ cuts \in 0..MaxCuts
  /\ at \in {"idle", "open", "read", "stat", "ready", "failed"}
  /\ at \in {"read", "stat"} => reader # 0
  /\ {pos, cursor} \subseteq 0..MaxChunks
  /\ opening.how \in {"begin", "end", "resume"}
  /\ waiting \in BOOLEAN /\ batch \in Seq(Seq(Chunk)) /\ errors \in 0..MaxErrors

=============================================================================
