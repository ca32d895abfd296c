-------------------------- MODULE ShellIntegration --------------------------
(***************************************************************************)
(* marsala codex install and uninstall (src/crates/marsala/src/            *)
(* codex_env.rs): the marked block in the user's shell file, which trusts  *)
(* the certificate authority.                                              *)
(*                                                                         *)
(* The file is its lines, an empty one being "blank"; a missing file has   *)
(* none, and whether the last line ends is left out.  Markers are lines of *)
(* their own.                                                              *)
(***************************************************************************)
EXTENDS CertificateAuthority, Sequences, SequencesExt

CONSTANTS
  Commands,     \* the processes that run install or uninstall
  UserLines,    \* what the user writes
  MaxEdits      \* a bound of the model: the user's edits

\* The user's lines are none of the others.
ASSUME LinesAssumption == UserLines \intersect {"start", "exports", "end", "blank"} = {}

VARIABLES
  shell,      \* the lines of the shell file
  command,    \* what a command does next
  updated,    \* the lines that it is about to write
  users,      \* history: the user's lines, as the last edit left them
  edits,      \* the edits so far
  torn        \* history: a write was cut, or the file changed under a command

integration == <<shell, command, updated, users, edits, torn>>
vars == <<authority, integration>>

Block == <<"start", "exports", "end">>

-----------------------------------------------------------------------------
Start(lines) == SelectInSeq(lines, LAMBDA l : l = "start")

\* Mutant: the block reaches to the last end marker.
LastEnd(lines) == SelectLastInSeq(lines, LAMBDA l : l = "end")

\* The first end marker behind the start marker.
End(lines) == SelectInSubSeq(lines, Start(lines), Len(lines), LAMBDA l : l = "end")

\* Without the block, and without the second of two line ends before it.
Cut(lines) ==
  LET before == SubSeq(lines, 1, Start(lines) - 1)
  IN  (IF Len(before) > 1 /\ Last(before) = "blank" THEN Front(before) ELSE before)
        \o SubSeq(lines, End(lines) + 1, Len(lines))

\* remove_block: a marker without the other, or more than one block, is an
\* error.
HasBlock(lines) == Start(lines) # 0
Removable(lines) ==
  IF HasBlock(lines)
  THEN End(lines) # 0 /\ ToSet(Cut(lines)) \intersect {"start", "end"} = {}
  ELSE "end" \notin ToSet(lines)
RemoveBlock(lines) == IF HasBlock(lines) THEN Cut(lines) ELSE lines

\* append_block: behind the last line with text in it.
AppendBlock(lines) ==
  LET last == SelectLastInSeq(lines, LAMBDA l : l # "blank")
  IN  (IF last = 0 THEN <<>> ELSE Append(SubSeq(lines, 1, last), "blank")) \o Block

\* The user's lines: the text outside of a start marker and the next end.
Outside(lines) ==
  LET open(i) == \E s \in 1..(i - 1) :
                   lines[s] = "start" /\ \A e \in s..i : lines[e] # "end"
  IN  FlattenSeq([i \in DOMAIN lines |->
                    IF lines[i] \in UserLines /\ ~open(i) THEN <<lines[i]>> ELSE <<>>])

-----------------------------------------------------------------------------
Init ==
  /\ AuthorityInit
  /\ shell = <<>> /\ users = <<>> /\ edits = 0 /\ torn = FALSE
  /\ command = [c \in Commands |-> "idle"] /\ updated = [c \in Commands |-> <<>>]

Moves(c, from, to) == command[c] = from /\ command' = [command EXCEPT ![c] = to]
Writing == \E c \in Commands : command[c] = "write"
UnderWay == \E c \in Commands : command[c] \in {"truncate", "write"}

\* install: the certificate need not be whole.
FindCertificate(c) ==
  /\ Moves(c, "idle", IF cert # NoFile THEN "install" ELSE "end")
  /\ UNCHANGED <<shell, updated, users, edits, torn>>

\* read_optional, remove_block and append_block.
ReadShellFile(c) ==
  /\ command[c] \in {"install", "idle"}
  /\ LET lines == IF command[c] = "install" THEN AppendBlock(RemoveBlock(shell))
                  ELSE RemoveBlock(shell)
         write == Removable(shell) /\ (command[c] = "install" \/ lines # shell)
     IN  /\ updated' = IF write THEN [updated EXCEPT ![c] = lines] ELSE updated
         /\ command' = [command EXCEPT ![c] = IF write THEN "truncate" ELSE "end"]
  /\ torn' = (torn \/ Writing)
  /\ UNCHANGED <<shell, users, edits>>

\* write_shell_file: fs::write opens the file, which truncates it, and writes.
Truncate(c) ==
  /\ Moves(c, "truncate", "write")
  /\ shell' = <<>>
  /\ UNCHANGED <<updated, users, edits, torn>>

\* From the beginning: what another wrote further behind stays.
Over(lines) == lines \o SubSeq(shell, Len(lines) + 1, Len(shell))

Write(c) ==
  /\ Moves(c, "write", "end")
  /\ shell' = Over(updated[c])
  /\ updated' = [updated EXCEPT ![c] = <<>>]
  /\ UNCHANGED <<users, edits, torn>>

\* An error of the file system, or a kill: a part of the lines is written.
StopCommand(c) ==
  /\ command[c] \in {"install", "truncate", "write"}
  /\ command' = [command EXCEPT ![c] = "end"]
  /\ \/ command[c] = "write" /\ torn' = TRUE
          /\ \E n \in 0..Len(updated[c]) : shell' = Over(SubSeq(updated[c], 1, n))
     \/ command[c] # "write" /\ UNCHANGED <<torn, shell>>
  /\ updated' = [updated EXCEPT ![c] = <<>>]
  /\ UNCHANGED <<users, edits>>

\* The user adds a line, pastes a block, or takes out a line, of a block too.
Edit ==
  /\ edits < MaxEdits /\ edits' = edits + 1
  /\ \/ \E line \in UserLines \union {"blank"} : shell' = Append(shell, line)
     \/ shell' = shell \o Block
     \/ \E i \in DOMAIN shell : shell' = RemoveAt(shell, i)
  /\ users' = Outside(shell')
  /\ torn' = (torn \/ UnderWay)
  /\ UNCHANGED <<command, updated>>

Next ==
  \/ AuthorityNext /\ UNCHANGED integration
  \/ /\ \/ \E c \in Commands :
             \/ FindCertificate(c) \/ ReadShellFile(c) \/ Truncate(c) \/ Write(c)
             \/ StopCommand(c)
        \/ Edit
     /\ UNCHANGED authority

Spec == Init /\ [][Next]_vars

-----------------------------------------------------------------------------
\* However often and from however many terminals the block is installed and
\* taken out, over whatever the user did to it, the user's lines stay as they
\* are, in order: but for a write that was cut, and for who reads or edits the
\* file while a command is about to write it.
UserLinesKept == torn \/ Writing \/ Outside(shell) = users

\* What docs/planning/06_terminal_codex_interception.md:95 says of uninstall,
\* that it "does not remove user-authored shell content", whenever no command
\* is between its truncation of the file and its write.  It is not so of one
\* that is stopped there, of one that reads what another has truncated, nor
\* with an edit between its read and its write.
UserContentStays == Writing \/ Outside(shell) = users

=============================================================================
