----------------------------- MODULE EventStream ----------------------------
(***************************************************************************)
(* The browser's page (src/crates/marsala/src/ui.rs): it loads the recent  *)
(* events, then opens a stream of server sent events over the follower.    *)
(* The filter lets every event pass, and the log is shorter than the page  *)
(* asks for.  The page is not paused, and its stream's connection holds.   *)
(***************************************************************************)
EXTENDS LogFollower, SequencesExt

VARIABLES
  page,     \* blank, loaded, live, failed
  recent,   \* the lines of the recent events
  gap,      \* history: the chunks from..to of a file, in neither answer
  looked,   \* history: the chunks in each file when the stream last found its end
  sent,     \* the lines sent to the browser as events
  lost      \* history: an event was read and not sent

window == <<page, recent, gap, looked>>
stream == <<sent, lost>>
vars == <<disk, follower, window, stream>>

\* ui_event_from_line: a line is an event if it is one record of the log.
IsEvent(line) ==
  \/ Len(line) = 1 /\ line[1].kind = "whole"
  \/ Len(line) = 2 /\ line[1].kind = "head" /\ line[2].kind = "tail"

\* The line that chunk i of s is on, up to that chunk; and the events on the
\* lines of s: a line that is not ended is none.
LineTo(s, i) == SubSeq(s, Max({0} \union {e \in 1..i - 1 : EndsLine(s[e])}) + 1, i)
OnlyEvents(lines) ==
  FlattenSeq([n \in DOMAIN lines |-> IF IsEvent(lines[n]) THEN <<lines[n]>> ELSE <<>>])
Events(s) == OnlyEvents([i \in DOMAIN s |-> LineTo(s, i)])

StreamInit ==
  /\ Init(AtEnd)
  /\ page = "blank" /\ recent = <<>> /\ gap = [file |-> 0, from |-> 0, to |-> 0]
  /\ looked = [f \in 1..MaxFiles |-> 0]
  /\ sent = <<>> /\ lost = FALSE

-----------------------------------------------------------------------------
(* The page.                                                               *)

\* loadRecent and recent_events, which reads the file to its end.
LoadRecent ==
  /\ page = "blank" /\ page' = "loaded"
  /\ LET s == IF path = 0 THEN <<>> ELSE content[path]
     IN  /\ recent' = Events(s)
         /\ gap' = [file |-> path, from |-> Len(s), to |-> 0]
  /\ UNCHANGED <<disk, follower, looked, stream>>

\* The page shows the error and does not connect.  The file is no UTF-8 when
\* a record in it is cut inside a character.
LoadFails ==
  /\ page = "blank" /\ page' = "failed"
  /\ errors < MaxErrors /\ errors' = errors + 1
  /\ UNCHANGED <<disk, at, reader, pos, cursor, opening, waiting, batch, recent, gap, looked, stream>>

\* Mutant: the stream begins with the file.
ConnectFromBegin ==
  /\ page = "loaded" /\ page' = "live"
  /\ opening' = Begin
  /\ UNCHANGED <<disk, at, reader, pos, cursor, waiting, batch, errors, recent, gap, looked, stream>>

\* connect
Connect ==
  /\ page = "loaded" /\ page' = "live"
  /\ UNCHANGED <<disk, follower, recent, gap, looked, stream>>

-----------------------------------------------------------------------------
(* event_stream.                                                           *)

\* The first open is at the end, behind what came after the recent events.
Skipped ==
  IF opening.how = "end" /\ reader' # 0
  THEN gap' = [file |-> reader', to |-> cursor',
               from |-> IF gap.file = reader' THEN gap.from ELSE 0]
  ELSE UNCHANGED gap

\* A read has found nothing more in the file.
EndFound ==
  IF at = "read" /\ at' = "stat"
  THEN looked' = [looked EXCEPT ![reader] = Len(content[reader])]
  ELSE UNCHANGED looked

Follow ==
  /\ page = "live"
  /\ Poll /\ Skipped /\ EndFound
  /\ UNCHANGED <<disk, page, recent, stream>>

\* The first event of the poll is returned to the stream, which drops the
\* vector with the rest of them; the next call polls again.
Send ==
  /\ at = "ready"
  /\ LET events == OnlyEvents(batch)
     IN  /\ sent' = IF events = <<>> THEN sent ELSE Append(sent, Head(events))
         /\ lost' = (lost \/ Len(events) > 1)
  /\ at' = "idle" /\ batch' = <<>>
  /\ UNCHANGED <<disk, reader, pos, cursor, opening, waiting, errors, window>>

\* Mutant: the stream ends at the first error.
SendErrorAndEnd == FALSE

\* An error is sent as such, and the stream goes on with the same follower.
SendError ==
  /\ at = "failed"
  /\ at' = "idle"
  /\ UNCHANGED <<disk, reader, pos, cursor, opening, waiting, batch, errors, window, stream>>

Browse == LoadRecent \/ LoadFails \/ Connect \/ Follow \/ Send \/ SendError

Next == (DiskStep /\ UNCHANGED <<follower, window, stream>>) \/ Browse

\* The browser loads the page and reads its stream, which is what polls the
\* follower.
Spec == StreamInit /\ [][Next]_vars /\ WF_vars(Browse)

-----------------------------------------------------------------------------
Shown == recent \o sent

\* The page shows whole records only, each once and in the order of the log,
\* from the recent events over into the stream, and over pieces of records,
\* failed polls, truncations and replacements.
ShownInOrder ==
  /\ \A i \in DOMAIN Shown : IsEvent(Shown[i])
  /\ \A i \in 1..Len(Shown) - 1 : Before(Last(Shown[i]), Head(Shown[i + 1]))

\* Between two polls a live page shows all that any file held when the stream
\* last looked for its end, of the file it follows and of those replaced since,
\* but for what came between the recent events and the stream's first open.
\* (What it does not speak of: what is appended to a file behind that last look,
\* which is lost when the file is replaced; a file replaced before it was opened;
\* a record written in two pieces, which may be read in two; and runs with a
\* truncation, a failed poll, or the loss that SendsAll is about.)
OnlyGapMissed ==
  page = "live" /\ at = "idle" /\ cuts = 0 /\ errors = 0 /\ ~lost =>
    \A f \in DOMAIN content :
      \A line \in ToSet(Events(SubSeq(content[f], 1, looked[f]))) :
        \/ Len(line) = 2 \/ line \in ToSet(Shown)
        \/ gap.file = f /\ line[1].index \in gap.from + 1..gap.to

\* The stream never stops reading: whatever has happened to the file and to
\* earlier polls, the follower gets to the end of the file at the path: to no
\* other place, unless a poll has failed on bytes that cursor does not count.
KeepsReading ==
  <>[](page = "live" /\ path # 0 =>
         /\ reader = path /\ pos >= Len(content[path])
         /\ cursor = pos => pos = Len(content[path]))

\* The test follower_rewinds_after_truncate: a follower that is behind the end of
\* its file, which was truncated and written to again, goes back to what is new.
RewindsAfterTruncate ==
  <>[](page = "live" /\ path # 0 /\ content[path] # <<>> =>
         reader = path /\ pos <= Len(content[path]))

\* docs/planning/06_terminal_codex_interception.md: "the UI shows allowlisted
\* Codex traffic": an event that has been read is sent.
SendsAll == ~lost

=============================================================================
