------------------------------- MODULE LogTail ------------------------------
(***************************************************************************)
(* `marsala logs tail --follow`: tail_log_file and follow_log_file         *)
(* (src/crates/marsala/src/event_log.rs) over the follower.                *)
(***************************************************************************)
EXTENDS LogFollower, SequencesExt

VARIABLES
  phase,   \* snapshot, follow, ended
  out      \* the chunks printed

tail == <<disk, follower, phase, out>>

TailInit == Init(Begin) /\ phase = "snapshot" /\ out = <<>>

\* A suffix of lines of s: all that `--lines n` can select.
LastLines(s) ==
  {SubSeq(s, i + 1, Len(s)) : i \in {0, Len(s)} \union {j \in DOMAIN s : EndsLine(s[j])}}

\* read_tail_snapshot: the file is read to its end and closed again.
Snapshot ==
  /\ phase = "snapshot" /\ phase' = "follow"
  /\ IF path = 0 THEN opening' = Begin /\ UNCHANGED out
     ELSE /\ opening' = Resume(path, Len(content[path]))
          /\ out' \in LastLines(content[path])
  /\ UNCHANGED <<disk, at, reader, pos, cursor, waiting, batch, errors>>

SnapshotFails ==
  /\ phase = "snapshot" /\ errors < MaxErrors
  /\ phase' = "ended" /\ errors' = errors + 1
  /\ UNCHANGED <<disk, at, reader, pos, cursor, opening, waiting, batch, out>>

FollowLog == phase = "follow" /\ Poll /\ UNCHANGED <<disk, phase, out>>

\* All the lines of a poll are printed, then it sleeps.
PrintLines ==
  /\ at = "ready"
  /\ out' = out \o FlattenSeq(batch)
  /\ at' = "idle" /\ batch' = <<>>
  /\ UNCHANGED <<disk, reader, pos, cursor, opening, waiting, errors, phase>>

\* An error of a poll is the command's error.
End ==
  /\ at = "failed"
  /\ phase' = "ended" /\ at' = "idle"
  /\ UNCHANGED <<disk, reader, pos, cursor, opening, waiting, batch, errors, out>>

TailNext == (DiskStep /\ UNCHANGED <<follower, phase, out>>)
            \/ Snapshot \/ SnapshotFails \/ FollowLog \/ PrintLines \/ End

\* The command runs; nothing is assumed of the daemon or the operator.
TailSpec == TailInit /\ [][TailNext]_tail /\ WF_tail(Snapshot \/ FollowLog \/ PrintLines \/ End)

-----------------------------------------------------------------------------
\* What is printed is the log in its order: within a file nothing is skipped
\* or repeated, from the snapshot over into the following and however the file
\* grows meanwhile; a file that replaces it is printed from its beginning.
\* (Only a truncated file may be taken up in its middle.)
PrintedInOrder ==
  \A i \in 1..Len(out) - 1 :
    LET c == out[i] d == out[i + 1]
    IN  /\ Before(c, d)
        /\ c.file = d.file /\ c.epoch = d.epoch => d.index = c.index + 1
        /\ c.file # d.file => d.index = 1

\* The file at the path is followed to its end, whatever truncations and
\* replacements came before.
CaughtUp ==
  <>[](phase = "follow" /\ path # 0 => reader = path /\ pos = Len(content[path]))

=============================================================================
