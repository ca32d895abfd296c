---------------------------- MODULE FollowerProofs --------------------------
(***************************************************************************)
(* Proofs about the two that poll the follower: LogTail, whose printed     *)
(* lines are the log in its order, and EventStream, whose page shows the   *)
(* events in their order and, of what a file held at the last look for its *)
(* end, misses only those of the gap.  Both rest on what a step of the     *)
(* disk does to the files (Moves).                                         *)
(***************************************************************************)
EXTENDS LogTail, EventStream, SequenceFacts

\* What has been printed and what the poll under way has read: all of it in
\* the order that PrintedInOrder asks of what is printed.
Taken == out \o FlattenSeq(batch)

Follows(c, d) ==
  /\ Before(c, d)
  /\ (c.file = d.file /\ c.epoch = d.epoch) => d.index = c.index + 1
  /\ (c.file # d.file) => d.index = 1

Chained(s) == \A i \in 1..Len(s) - 1 : Follows(s[i], s[i + 1])

\* The chunks of a file are numbered as they lie in it, and none is of a later
\* epoch than one behind it or than now.
Kept(f) ==
  /\ Len(content[f]) <= written
  /\ \A i \in 1..Len(content[f]) :
       /\ content[f][i].file = f /\ content[f][i].index = i
       /\ content[f][i].epoch <= cuts
       /\ \A j \in 1..i : content[f][j].epoch <= content[f][i].epoch

Files ==
  /\ content \in Seq(Seq(Chunk)) /\ Len(content) <= MaxFiles
  /\ {path, target} \subseteq 0..Len(content)
  /\ path # 0 => path = Len(content)
  /\ midline \in BOOLEAN /\ written \in 0..MaxChunks /\ cuts \in 0..MaxCuts
  /\ \A f \in 1..Len(content) : Kept(f)

\* Where the follower is, and where it will begin.
Reader ==
  /\ at \in {"idle", "open", "read", "stat", "ready", "failed"}
  /\ phase \in {"snapshot", "follow", "ended"}
  /\ reader \in 0..Len(content)
  /\ at \in {"read", "stat"} => reader # 0
  /\ at = "open" => reader = 0
  /\ pos \in 0..MaxChunks /\ cursor \in 0..MaxChunks
  /\ waiting \in BOOLEAN /\ errors \in 0..MaxErrors
  /\ \/ opening = Begin
     \/ \E f \in 1..Len(content), c \in 0..MaxChunks : opening = Resume(f, c)
  /\ reader # 0 => opening = Begin
  /\ phase = "snapshot" => at = "idle" /\ reader = 0 /\ opening = Begin /\ out = <<>>
  /\ batch \in Seq(Seq(Chunk)) /\ out \in Seq(Chunk)
  /\ at \in {"idle", "failed"} => batch = <<>>

\* A follower at position p of file f goes on behind chunk c: it has just read
\* it there; or the file was truncated since; or it has not begun the file,
\* which came after c's.
GoesOn(files, now, c, f, p) ==
  \/ c.file = f /\ p \in 1..Len(files[f]) /\ files[f][p] = c
  \/ /\ c.file = f /\ c.epoch < now
     /\ \A i \in 1..Len(files[f]) : c.epoch < files[f][i].epoch
  \/ c.file < f /\ p = 0

Linked(c) ==
  /\ reader # 0 => GoesOn(content, cuts, c, reader, pos)
  /\ (reader = 0 /\ opening # Begin) =>
       GoesOn(content, cuts, c, opening.file, opening.cursor)
  /\ (reader = 0 /\ opening = Begin) =>
       c.file <= Len(content) /\ (path # 0 => c.file < path)

\* As long as no poll has failed.
Alive == phase # "ended" /\ at # "failed"

\* The inductive invariant.
TailInv ==
  /\ Files /\ Reader /\ Chained(Taken)
  /\ Alive => /\ reader # 0 => cursor = pos
              /\ Taken # <<>> => Linked(Taken[Len(Taken)])

-----------------------------------------------------------------------------
(* Lines.                                                                  *)

\* read_line takes a part of the file that is not empty.
LEMMA LineEndInFile ==
  ASSUME Files, reader \in 1..Len(content), pos \in Nat, pos < Len(content[reader])
  PROVE  LineEnd \in pos + 1..Len(content[reader])
<1> DEFINE s == content[reader]
           S == {i \in pos + 1..Len(s) : EndsLine(s[i])} \union {Len(s)}
<1>1. s \in Seq(Chunk)
  BY ElementOfSeq DEF Files
<1>2. Len(s) \in Nat /\ Len(s) \in pos + 1..Len(s)
  BY <1>1
<1>3. S \subseteq pos + 1..Len(s) /\ S \subseteq Nat /\ S # {}
  BY <1>2
<1>4. Min(S) \in S
  <2> HIDE DEF S
  <2> QED
    BY <1>3, LeastMember
<1>5. LineEnd = Min(S)
  BY DEF LineEnd
<1> HIDE DEF S
<1> QED
  BY <1>3, <1>4, <1>5

LEMMA FileTypes ==
  ASSUME Files, NEW f \in 1..Len(content)
  PROVE  /\ content[f] \in Seq(Chunk) /\ Len(content[f]) \in Nat
         /\ Len(content[f]) <= MaxChunks /\ Len(content) \in Nat /\ cuts \in Nat
         /\ \A i \in 1..Len(content[f]) :
              /\ content[f][i] \in Chunk /\ content[f][i].epoch \in Nat
              /\ content[f][i].file = f /\ content[f][i].index = i
              /\ content[f][i].epoch <= cuts
              /\ \A j \in 1..i : content[f][j].epoch <= content[f][i].epoch
<1>1. content[f] \in Seq(Chunk) /\ Kept(f) /\ written \in 0..MaxChunks /\ MaxChunks \in Nat
  BY ElementOfSeq, BoundsAssumption DEF Files
<1>2. \A i \in 1..Len(content[f]) : content[f][i] \in Chunk
  BY <1>1, ElementOfSeq
<1>3. \A c \in Chunk : c.epoch \in Nat
  BY BoundsAssumption DEF Chunk
<1>4. Len(content[f]) \in Nat /\ Len(content[f]) <= MaxChunks
  BY <1>1 DEF Kept
<1>5. Len(content) \in Nat /\ cuts \in Nat
  BY BoundsAssumption DEF Files
<1> QED
  BY <1>1, <1>2, <1>3, <1>4, <1>5 DEF Kept

\* What is behind p in a file follows chunk by chunk.
LEMMA NeighboursFollow ==
  ASSUME Files, NEW f \in 1..Len(content), NEW i \in 1..Len(content[f]) - 1
  PROVE  Follows(content[f][i], content[f][i + 1])
<1> DEFINE c == content[f][i]
           d == content[f][i + 1]
<1>1. i \in 1..Len(content[f]) /\ i + 1 \in 1..Len(content[f]) /\ i \in 1..i + 1
  BY FileTypes
<1>2. /\ c.file = f /\ d.file = f /\ c.index = i /\ d.index = i + 1
      /\ c.epoch \in Nat /\ d.epoch \in Nat /\ c.epoch <= d.epoch
  BY <1>1, FileTypes
<1> HIDE DEF c, d
<1>3. Follows(c, d)
  BY <1>2 DEF Follows, Before
<1> QED
  BY <1>3 DEF c, d

LEMMA PieceIsChained ==
  ASSUME Files, NEW f \in 1..Len(content), NEW a \in 1..Len(content[f]),
         NEW b \in a..Len(content[f])
  PROVE  LET s == SubSeq(content[f], a, b)
         IN  /\ s \in Seq(Chunk) /\ Len(s) = b - a + 1 /\ s # <<>>
             /\ s[1] = content[f][a] /\ s[Len(s)] = content[f][b]
             /\ Chained(s)
<1> DEFINE s == SubSeq(content[f], a, b)
<1>1. content[f] \in Seq(Chunk) /\ Len(content[f]) \in Nat
  BY FileTypes
<1>2. /\ s \in Seq(Chunk) /\ Len(s) = b - a + 1
      /\ \A i \in 1..b - a + 1 : s[i] = content[f][a + i - 1]
  <2>1. \A i \in a..b : content[f][i] \in Chunk
    BY <1>1, FileTypes
  <2> QED
    BY <1>1, <2>1, SubSeqProperties
<1> HIDE DEF s
<1>3. s[1] = content[f][a] /\ s[Len(s)] = content[f][b] /\ s # <<>>
  <2>1. /\ 1 \in 1..b - a + 1 /\ b - a + 1 \in 1..b - a + 1
        /\ a + 1 - 1 = a /\ a + (b - a + 1) - 1 = b
    BY <1>1
  <2> QED
    BY <1>2, <2>1, EmptySeq
<1>4. Chained(s)
  <2> SUFFICES ASSUME NEW i \in 1..Len(s) - 1
               PROVE  Follows(s[i], s[i + 1])
    BY DEF Chained
  <2>1. /\ i \in 1..b - a + 1 /\ i + 1 \in 1..b - a + 1
        /\ a + i - 1 \in 1..Len(content[f]) - 1 /\ a + (i + 1) - 1 = (a + i - 1) + 1
    BY <1>1, <1>2
  <2>2. Follows(content[f][a + i - 1], content[f][(a + i - 1) + 1])
    BY <2>1, NeighboursFollow
  <2> QED
    BY <1>2, <2>1, <2>2
<1> QED
  BY <1>2, <1>3, <1>4 DEF s

\* The chunk a follower goes on with may come behind the last it has taken.
LEMMA GoesOnFollows ==
  ASSUME Files, NEW c \in Chunk, NEW f \in 1..Len(content), NEW p \in Nat,
         p < Len(content[f]), GoesOn(content, cuts, c, f, p)
  PROVE  Follows(c, content[f][p + 1])
<1> DEFINE d == content[f][p + 1]
<1>1. p + 1 \in 1..Len(content[f])
  BY FileTypes
<1>2. d.file = f /\ d.index = p + 1 /\ d.epoch \in Nat /\ c.epoch \in Nat /\ c.file \in Nat
  <2>1. d.file = f /\ d.index = p + 1 /\ d.epoch \in Nat
    BY <1>1, FileTypes
  <2>2. c.epoch \in Nat /\ c.file \in Nat
    BY BoundsAssumption DEF Chunk
  <2> QED
    BY <2>1, <2>2
<1>3. CASE c.file = f /\ p \in 1..Len(content[f]) /\ content[f][p] = c
  <2>1. p \in 1..Len(content[f]) - 1
    BY <1>1, <1>3
  <2> QED
    BY <1>3, <2>1, NeighboursFollow
<1>4. CASE c.file = f /\ c.epoch < cuts /\ \A i \in 1..Len(content[f]) : c.epoch < content[f][i].epoch
  <2>1. c.epoch < d.epoch
    BY <1>1, <1>4
  <2> HIDE DEF d
  <2>2. Follows(c, d)
    BY <1>2, <1>4, <2>1 DEF Follows, Before
  <2> QED
    BY <2>2 DEF d
<1>5. CASE c.file < f /\ p = 0
  <2> HIDE DEF d
  <2>1. Follows(c, d)
    BY <1>2, <1>5 DEF Follows, Before
  <2> QED
    BY <2>1 DEF d
<1> QED
  BY <1>3, <1>4, <1>5 DEF GoesOn

LEMMA ChainedConcat ==
  ASSUME NEW s \in Seq(Chunk), NEW t \in Seq(Chunk), Chained(s), Chained(t), t # <<>>,
         s # <<>> => Follows(s[Len(s)], t[1])
  PROVE  Chained(s \o t)
<1>1. /\ Len(s) \in Nat /\ Len(t) \in Nat /\ Len(s \o t) = Len(s) + Len(t)
      /\ \A i \in 1..Len(s) + Len(t) :
           (s \o t)[i] = IF i <= Len(s) THEN s[i] ELSE t[i - Len(s)]
      /\ (Len(s) = 0 => s = <<>>)
  BY ConcatProperties, EmptySeq
<1> SUFFICES ASSUME NEW i \in 1..Len(s \o t) - 1
             PROVE  Follows((s \o t)[i], (s \o t)[i + 1])
  BY DEF Chained
<1>2. i \in 1..Len(s) + Len(t) /\ i + 1 \in 1..Len(s) + Len(t)
  BY <1>1
<1>3. CASE i < Len(s)
  <2>1. (s \o t)[i] = s[i] /\ (s \o t)[i + 1] = s[i + 1]
    BY <1>1, <1>2, <1>3
  <2>2. i \in 1..Len(s) - 1
    BY <1>1, <1>2, <1>3
  <2> QED
    BY <2>1, <2>2 DEF Chained
<1>4. CASE i = Len(s)
  <2>1. (s \o t)[i] = s[Len(s)] /\ (s \o t)[i + 1] = t[1]
    BY <1>1, <1>2, <1>4
  <2>2. s # <<>>
    BY <1>1, <1>2, <1>4, EmptySeq
  <2> QED
    BY <2>1, <2>2
<1>5. CASE i > Len(s)
  <2>1. /\ (s \o t)[i] = t[i - Len(s)] /\ (s \o t)[i + 1] = t[(i - Len(s)) + 1]
        /\ i - Len(s) \in 1..Len(t) - 1
    BY <1>1, <1>2, <1>5
  <2> QED
    BY <2>1 DEF Chained
<1> QED
  BY <1>1, <1>2, <1>3, <1>4, <1>5

\* A beginning of what is chained is chained.
LEMMA ChainedPrefix ==
  ASSUME NEW s \in Seq(Chunk), NEW t \in Seq(Chunk), Chained(s \o t)
  PROVE  Chained(s)
<1>1. /\ Len(s) \in Nat /\ Len(t) \in Nat /\ Len(s \o t) = Len(s) + Len(t)
      /\ \A i \in 1..Len(s) : (s \o t)[i] = s[i]
  BY ConcatProperties
<1> SUFFICES ASSUME NEW i \in 1..Len(s) - 1
             PROVE  Follows(s[i], s[i + 1])
  BY DEF Chained
<1>2. i \in 1..Len(s \o t) - 1 /\ i \in 1..Len(s) /\ i + 1 \in 1..Len(s)
  BY <1>1
<1> QED
  BY <1>1, <1>2 DEF Chained

-----------------------------------------------------------------------------
(* The daemon and the operator.                                            *)

\* Before the daemon has run there is no file.
LEMMA NoFiles ==
  ASSUME content = <<>>, path = 0, target = 0, midline = FALSE, written = 0, cuts = 0
  PROVE  Files
<1>1. content \in Seq(Seq(Chunk)) /\ Len(content) = 0
  BY EmptySeq
<1>2. \A f \in 1..Len(content) : Kept(f)
  BY <1>1
<1>3. Len(content) <= MaxFiles
  BY <1>1, BoundsAssumption
<1>4. {path, target} \subseteq 0..Len(content)
  BY <1>1
<1>5. written \in 0..MaxChunks /\ cuts \in 0..MaxCuts
  BY BoundsAssumption
<1>6. midline \in BOOLEAN
  OBVIOUS
<1> QED
  BY <1>1, <1>2, <1>3, <1>4, <1>5, <1>6 DEF Files

\* What a step of them does to the files: a new file is the last, and of an
\* earlier one either the chunks stay, with those of now behind them, or it is
\* cut.
Moves ==
  /\ Len(content) <= Len(content')
  /\ path' # 0 => path' = path \/ path' > Len(content)
  /\ cuts <= cuts'
  /\ \A f \in 1..Len(content) :
       \/ /\ Len(content[f]) <= Len(content'[f])
          /\ \A i \in 1..Len(content[f]) : content'[f][i] = content[f][i]
          /\ \A i \in Len(content[f]) + 1..Len(content'[f]) : content'[f][i].epoch = cuts
       \/ content'[f] = <<>> /\ cuts < cuts'

\* Nothing is written and nothing is cut.
LEMMA FilesStay ==
  ASSUME Files, content \in Seq(Seq(Chunk)), NEW f \in 1..Len(content), content'[f] = content[f]
  PROVE  /\ Len(content[f]) <= Len(content'[f])
         /\ \A i \in 1..Len(content[f]) : content'[f][i] = content[f][i]
         /\ \A i \in Len(content[f]) + 1..Len(content'[f]) : content'[f][i].epoch = cuts
<1>1. Len(content[f]) \in Nat
  BY FileTypes
<1>2. Len(content[f]) + 1..Len(content'[f]) = {}
  BY <1>1
<1> QED
  BY <1>1, <1>2

LEMMA OpenLogMoves ==
  ASSUME Files, OpenLog
  PROVE  Files' /\ Moves
<1>1. Files /\ Len(content) \in Nat /\ cuts \in Nat /\ cuts' = cuts
  BY BoundsAssumption DEF Files, OpenLog
<1>2. CASE path # 0
  <2>1. content' = content /\ path' = path /\ written' = written
    BY <1>2 DEF OpenLog
  <2>2. Files'
    <3>1. \A f \in 1..Len(content') : Kept(f)'
      BY <1>1, <2>1 DEF Files, Kept
    <3>2. target' = path' /\ midline' = FALSE /\ path' \in 0..Len(content')
      BY <1>1, <2>1 DEF Files, OpenLog
    <3> QED
      BY <1>1, <2>1, <3>1, <3>2 DEF Files
  <2>3. Moves
    <3>1. content \in Seq(Seq(Chunk)) /\ cuts <= cuts'
      BY <1>1 DEF Files
    <3> QED
      BY <1>1, <2>1, <3>1, FilesStay DEF Moves
  <2> QED
    BY <2>2, <2>3
<1>3. CASE path = 0
  <2>1. /\ content' = Append(content, <<>>) /\ path' = Len(content') /\ Len(content) < MaxFiles
        /\ target' = path' /\ midline' = FALSE /\ written' = written
    BY <1>3 DEF OpenLog
  <2>2. /\ content' \in Seq(Seq(Chunk)) /\ Len(content') = Len(content) + 1
        /\ \A f \in 1..Len(content) : content'[f] = content[f]
        /\ content'[Len(content) + 1] = <<>>
    <3>1. <<>> \in Seq(Chunk) /\ content \in Seq(Seq(Chunk))
      BY <1>1, EmptySeq DEF Files
    <3> QED
      BY <2>1, <3>1, AppendProperties
  <2>3. ASSUME NEW f \in 1..Len(content')
        PROVE  Kept(f)'
    <3>1. CASE f = Len(content) + 1
      <4>1. Len(content'[f]) = 0
        BY <2>2, <3>1, EmptySeq
      <4>2. written' \in Nat
        BY <1>1, <2>1, BoundsAssumption DEF Files
      <4> QED
        BY <4>1, <4>2 DEF Kept
    <3>2. CASE f \in 1..Len(content)
      <4>1. content'[f] = content[f]
        BY <2>2, <3>2
      <4> QED
        BY <1>1, <2>1, <3>2, <4>1 DEF Files, Kept
    <3> QED
      BY <1>1, <2>2, <3>1, <3>2
  <2>4. Files'
    <3>1. /\ Len(content') <= MaxFiles /\ path' \in 0..Len(content')
          /\ target' \in 0..Len(content')
      BY <1>1, <2>1, <2>2, BoundsAssumption
    <3> QED
      BY <1>1, <2>1, <2>2, <2>3, <3>1 DEF Files
  <2>5. Len(content') >= Len(content) /\ path' > Len(content)
    BY <1>1, <2>1, <2>2
  <2>6. Moves
    <3>1. content \in Seq(Seq(Chunk)) /\ cuts <= cuts' /\ Len(content) <= Len(content')
      BY <1>1, <2>2 DEF Files
    <3> QED
      BY <1>1, <2>2, <2>5, <3>1, FilesStay DEF Moves
  <2> QED
    BY <2>4, <2>6
<1> QED
  BY <1>2, <1>3

LEMMA CloseMoves ==
  ASSUME Files, CloseLog \/ MoveAway
  PROVE  Files' /\ Moves
<1>1. Files /\ Len(content) \in Nat
  BY DEF Files
<1>2. /\ content' = content /\ cuts' = cuts /\ written' = written
      /\ path' = path \/ path' = 0
  BY DEF CloseLog, MoveAway
<1>3. Files'
  <2>1. \A f \in 1..Len(content') : Kept(f)'
    BY <1>1, <1>2 DEF Files, Kept
  <2>2. path' \in 0..Len(content') /\ target' \in 0..Len(content') /\ midline' \in BOOLEAN
    <3>1. CASE CloseLog
      <4>1. target' = 0 /\ midline' = FALSE /\ path' = path
        BY <3>1 DEF CloseLog
      <4>2. path \in 0..Len(content) /\ 0 \in 0..Len(content)
        BY <1>1 DEF Files
      <4> QED
        BY <1>2, <4>1, <4>2
    <3>2. CASE MoveAway
      BY <1>1, <1>2, <3>2 DEF Files, MoveAway
    <3> QED
      BY <3>1, <3>2
  <2> QED
    BY <1>1, <1>2, <2>1, <2>2 DEF Files
<1>4. Moves
  <2>1. content \in Seq(Seq(Chunk)) /\ cuts <= cuts' /\ Len(content) <= Len(content')
    BY <1>1, <1>2, BoundsAssumption DEF Files
  <2> QED
    BY <1>1, <1>2, <2>1, FilesStay DEF Moves
<1> QED
  BY <1>3, <1>4

LEMMA WriteChunkMoves ==
  ASSUME Files, NEW kind \in {"whole", "head", "tail"}, WriteChunk(kind)
  PROVE  Files' /\ Moves
<1> DEFINE old == content[target]
           chunk == [file |-> target, epoch |-> cuts, index |-> Len(old) + 1, kind |-> kind]
<1>1. /\ Files /\ target \in 1..Len(content) /\ Len(content) \in Nat
      /\ cuts \in Nat /\ cuts \in 0..MaxCuts /\ written \in Nat /\ written < MaxChunks
      /\ cuts' = cuts /\ path' = path /\ target' = target /\ midline' = (kind = "head")
      /\ written' = written + 1
      /\ content' = [content EXCEPT ![target] = Append(old, chunk)]
  BY BoundsAssumption DEF Files, WriteChunk
<1>2. old \in Seq(Chunk) /\ Len(old) \in Nat /\ Len(old) <= written
  BY <1>1, FileTypes DEF Files, Kept
<1>3. chunk \in Chunk
  BY <1>1, <1>2, BoundsAssumption DEF Chunk, Files
<1>4. chunk.file = target /\ chunk.epoch = cuts /\ chunk.index = Len(old) + 1
  OBVIOUS
<1> HIDE DEF chunk
<1>5. /\ Append(old, chunk) \in Seq(Chunk) /\ Len(Append(old, chunk)) = Len(old) + 1
      /\ \A i \in 1..Len(old) : Append(old, chunk)[i] = old[i]
      /\ Append(old, chunk)[Len(old) + 1] = chunk
  BY <1>2, <1>3, AppendProperties
<1>6. /\ content' \in Seq(Seq(Chunk)) /\ Len(content') = Len(content)
      /\ content'[target] = Append(old, chunk)
      /\ \A f \in 1..Len(content) : f # target => content'[f] = content[f]
  <2>1. content \in Seq(Seq(Chunk))
    BY <1>1 DEF Files
  <2> QED
    BY <1>1, <1>5, <2>1, ExceptSeq
<1> HIDE DEF old
<1>7. /\ \A i \in 1..Len(old) : content'[target][i] = old[i]
      /\ content'[target][Len(old) + 1] = chunk /\ Len(content'[target]) = Len(old) + 1
  BY <1>5, <1>6
<1>8. \A i \in 1..Len(old) : /\ old[i].file = target /\ old[i].index = i
                             /\ old[i].epoch \in Nat /\ old[i].epoch <= cuts
                             /\ \A j \in 1..i : old[j].epoch <= old[i].epoch
  BY <1>1, FileTypes DEF old
<1>9. ASSUME NEW f \in 1..Len(content')
      PROVE  Kept(f)'
  <2>1. CASE f = target
    <3>1. Len(content'[target]) <= written'
      BY <1>1, <1>2, <1>7
    <3>2. ASSUME NEW i \in 1..Len(old) + 1
          PROVE  /\ content'[target][i].file = target /\ content'[target][i].index = i
                 /\ content'[target][i].epoch <= cuts
                 /\ \A j \in 1..i : content'[target][j].epoch <= content'[target][i].epoch
      <4>1. CASE i \in 1..Len(old)
        <5>1. \A j \in 1..i : j \in 1..Len(old)
          BY <1>2, <4>1
        <5> QED
          BY <1>7, <1>8, <4>1, <5>1
      <4>2. CASE i = Len(old) + 1
        <5>1. content'[target][i] = chunk
          BY <1>7, <4>2
        <5>2. \A j \in 1..i : j \in 1..Len(old) \/ j = i
          BY <1>2, <4>2
        <5>3. \A j \in 1..i : content'[target][j].epoch <= cuts
          <6> TAKE j \in 1..i
          <6>1. CASE j \in 1..Len(old)
            BY <1>7, <1>8, <6>1
          <6>2. CASE j = i
            BY <1>1, <1>4, <5>1, <6>2
          <6> QED
            BY <5>2, <6>1, <6>2
        <5> QED
          BY <1>1, <1>4, <4>2, <5>1, <5>3
      <4> QED
        BY <1>2, <4>1, <4>2
    <3> QED
      BY <1>1, <1>7, <2>1, <3>1, <3>2 DEF Kept
  <2>2. CASE f # target
    <3>1. content'[f] = content[f] /\ Kept(f) /\ Len(content[f]) \in Nat
      BY <1>1, <1>6, <2>2, FileTypes DEF Files
    <3>2. Len(content[f]) <= written'
      BY <1>1, <3>1 DEF Kept
    <3> QED
      BY <1>1, <3>1, <3>2 DEF Kept
  <2> QED
    BY <2>1, <2>2
<1>10. Files'
  BY <1>1, <1>6, <1>9, BoundsAssumption DEF Files
<1>11. Moves
  <2>1. ASSUME NEW f \in 1..Len(content)
        PROVE  /\ Len(content[f]) <= Len(content'[f])
               /\ \A i \in 1..Len(content[f]) : content'[f][i] = content[f][i]
               /\ \A i \in Len(content[f]) + 1..Len(content'[f]) : content'[f][i].epoch = cuts
    <3>1. CASE f # target
      <4>1. content'[f] = content[f] /\ content \in Seq(Seq(Chunk))
        BY <1>1, <1>6, <3>1 DEF Files
      <4> QED
        BY <1>1, <4>1, FilesStay
    <3>2. CASE f = target
      <4>1. \A i \in Len(old) + 1..Len(old) + 1 : i = Len(old) + 1
        BY <1>2
      <4>2. Len(old) <= Len(content'[target])
        BY <1>2, <1>7
      <4>3. \A i \in Len(old) + 1..Len(content'[target]) : content'[target][i].epoch = cuts
        BY <1>4, <1>7, <4>1
      <4> QED
        BY <1>7, <3>2, <4>2, <4>3 DEF old
    <3> QED
      BY <3>1, <3>2
  <2>2. Len(content) <= Len(content') /\ cuts <= cuts'
    BY <1>1, <1>6
  <2> QED
    BY <1>1, <2>1, <2>2 DEF Moves
<1> QED
  BY <1>10, <1>11

LEMMA TruncateMoves ==
  ASSUME Files, Truncate
  PROVE  Files' /\ Moves
<1>1. /\ Files /\ path \in 1..Len(content) /\ Len(content) \in Nat
      /\ cuts \in Nat /\ cuts' = cuts + 1 /\ cuts' \in 0..MaxCuts
      /\ written \in Nat /\ written' = written
      /\ path' = path /\ target' = target /\ midline' = midline
      /\ content' = [content EXCEPT ![path] = <<>>]
  BY BoundsAssumption DEF Files, Truncate
<1>2. /\ content' \in Seq(Seq(Chunk)) /\ Len(content') = Len(content)
      /\ content'[path] = <<>>
      /\ \A f \in 1..Len(content) : f # path => content'[f] = content[f]
  <2>1. content \in Seq(Seq(Chunk)) /\ <<>> \in Seq(Chunk)
    BY <1>1, EmptySeq DEF Files
  <2> QED
    BY <1>1, <2>1, ExceptSeq
<1>3. ASSUME NEW f \in 1..Len(content')
      PROVE  Kept(f)'
  <2>1. CASE f = path
    <3>1. Len(content'[f]) = 0
      BY <1>2, <2>1, EmptySeq
    <3> QED
      BY <1>1, <3>1 DEF Kept
  <2>2. CASE f # path
    <3>1. f \in 1..Len(content) /\ content'[f] = content[f] /\ Kept(f)
      BY <1>1, <1>2, <2>2 DEF Files
    <3>2. \A i \in 1..Len(content[f]) : content[f][i].epoch \in Nat /\ content[f][i].epoch <= cuts
      BY <1>1, <3>1, FileTypes
    <3>3. \A i \in 1..Len(content[f]) : content[f][i].epoch <= cuts'
      BY <1>1, <3>2
    <3> QED
      BY <1>1, <3>1, <3>3 DEF Kept
  <2> QED
    BY <2>1, <2>2
<1>4. Files'
  BY <1>1, <1>2, <1>3 DEF Files
<1>5. Moves
  <2>1. content \in Seq(Seq(Chunk)) /\ Len(content) <= Len(content')
    <3>1. content \in Seq(Seq(Chunk))
      BY <1>1 DEF Files
    <3> QED
      BY <1>1, <1>2, <3>1
  <2>3. cuts <= cuts' /\ cuts < cuts'
    BY <1>1
  <2>2. \A f \in 1..Len(content) : f # path =>
          /\ Len(content[f]) <= Len(content'[f])
          /\ \A i \in 1..Len(content[f]) : content'[f][i] = content[f][i]
          /\ \A i \in Len(content[f]) + 1..Len(content'[f]) : content'[f][i].epoch = cuts
    BY <1>1, <1>2, <2>1, FilesStay
  <2> QED
    BY <1>1, <1>2, <2>1, <2>2, <2>3 DEF Moves
<1> QED
  BY <1>4, <1>5

LEMMA FilesStill ==
  ASSUME Files, UNCHANGED disk
  PROVE  Files'
BY DEF Files, Kept, disk

LEMMA DiskMoves ==
  ASSUME Files, DiskStep
  PROVE  Files' /\ Moves
BY OpenLogMoves, CloseMoves, TruncateMoves, WriteChunkMoves DEF DiskStep

-----------------------------------------------------------------------------
(* `logs tail --follow`.                                                   *)

LEMMA TakenTypes ==
  ASSUME Reader
  PROVE  /\ Taken \in Seq(Chunk) /\ FlattenSeq(batch) \in Seq(Chunk) /\ Len(Taken) \in Nat
         /\ Taken # <<>> => Len(Taken) \in 1..Len(Taken) /\ Taken[Len(Taken)] \in Chunk
<1>1. batch \in Seq(Seq(Chunk)) /\ out \in Seq(Chunk)
  BY DEF Reader
<1>2. FlattenSeq(batch) \in Seq(Chunk)
  BY <1>1, FlattenType
<1>3. Taken \in Seq(Chunk)
  BY <1>1, <1>2, ConcatProperties DEF Taken
<1>4. Taken # <<>> => Len(Taken) \in 1..Len(Taken)
  BY <1>3, EmptySeq
<1> QED
  BY <1>2, <1>3, <1>4, ElementOfSeq

\* A follower that goes on behind a chunk does so after a step of the disk.
LEMMA GoesOnMoves ==
  ASSUME Files, Files', Moves, NEW c \in Chunk, NEW f \in 1..Len(content), NEW p \in Nat,
         GoesOn(content, cuts, c, f, p)
  PROVE  GoesOn(content', cuts', c, f, p)
<1>1. /\ c.epoch \in Nat /\ cuts \in Nat /\ cuts' \in Nat /\ cuts <= cuts'
      /\ Len(content[f]) \in Nat
  <2>1. c.epoch \in Nat
    BY BoundsAssumption DEF Chunk
  <2>2. cuts \in Nat /\ cuts' \in Nat
    BY BoundsAssumption DEF Files
  <2> QED
    BY <2>1, <2>2, FileTypes DEF Moves
<1>2. CASE c.file < f /\ p = 0
  BY <1>2 DEF GoesOn
<1>3. CASE content'[f] = <<>> /\ cuts < cuts' /\ ~(c.file < f /\ p = 0)
  <2>1. c.file = f /\ c.epoch < cuts'
    <3>1. CASE c.file = f /\ p \in 1..Len(content[f]) /\ content[f][p] = c
      <4>1. c.epoch <= cuts
        BY <3>1, FileTypes
      <4> QED
        BY <1>1, <1>3, <3>1, <4>1
    <3>2. CASE c.file = f /\ c.epoch < cuts
      BY <1>1, <1>3, <3>2
    <3> QED
      BY <1>3, <3>1, <3>2 DEF GoesOn
  <2>2. 1..Len(content'[f]) = {}
    BY <1>3, EmptySeq
  <2> QED
    BY <2>1, <2>2 DEF GoesOn
<1>4. CASE /\ Len(content[f]) <= Len(content'[f])
           /\ \A i \in 1..Len(content[f]) : content'[f][i] = content[f][i]
           /\ \A i \in Len(content[f]) + 1..Len(content'[f]) : content'[f][i].epoch = cuts
  <2>1. f \in 1..Len(content') /\ Len(content'[f]) \in Nat
    <3>1. f \in 1..Len(content')
      BY DEF Files, Moves
    <3>2. content'[f] \in Seq(Chunk)
      BY <3>1, ElementOfSeq DEF Files
    <3> QED
      BY <3>1, <3>2
  <2>2. CASE c.file = f /\ p \in 1..Len(content[f]) /\ content[f][p] = c
    <3>1. p \in 1..Len(content'[f])
      BY <1>1, <1>4, <2>1, <2>2
    <3> QED
      BY <1>4, <2>2, <3>1 DEF GoesOn
  <2>3. CASE c.file = f /\ c.epoch < cuts /\ \A i \in 1..Len(content[f]) : c.epoch < content[f][i].epoch
    <3>1. \A i \in 1..Len(content'[f]) : c.epoch < content'[f][i].epoch
      <4> TAKE i \in 1..Len(content'[f])
      <4>1. i \in 1..Len(content[f]) \/ i \in Len(content[f]) + 1..Len(content'[f])
        BY <1>1, <2>1
      <4> QED
        BY <1>4, <2>3, <4>1
    <3>2. c.epoch < cuts'
      BY <1>1, <2>3
    <3> QED
      BY <2>3, <3>1, <3>2 DEF GoesOn
  <2> QED
    BY <1>2, <2>2, <2>3 DEF GoesOn
<1> QED
  BY <1>2, <1>3, <1>4 DEF Moves

LEMMA DiskPreserves ==
  ASSUME TailInv, UNCHANGED <<follower, phase, out>>, DiskStep
  PROVE  TailInv'
<1>8. Files' /\ Moves
  BY DiskMoves DEF TailInv
<1>1. /\ UNCHANGED <<at, reader, pos, cursor, opening, waiting, batch, errors, phase, out>>
      /\ Files /\ Reader
  BY DEF follower, TailInv
<1>2. Len(content) \in Nat /\ Len(content') \in Nat
  BY <1>1, <1>8 DEF Files
<1>9. Len(content) <= Len(content')
  BY <1>8 DEF Moves
<1>3. Reader'
  <2>1. reader' \in 0..Len(content')
    BY <1>1, <1>2, <1>9 DEF Reader
  <2>2. \/ opening' = Begin
        \/ \E f \in 1..Len(content'), c \in 0..MaxChunks : opening' = Resume(f, c)
    <3>1. 1..Len(content) \subseteq 1..Len(content')
      BY <1>2, <1>9
    <3> QED
      BY <1>1, <3>1 DEF Reader
  <2>3. /\ at' \in {"idle", "open", "read", "stat", "ready", "failed"}
        /\ phase' \in {"snapshot", "follow", "ended"}
        /\ at' \in {"read", "stat"} => reader' # 0
        /\ at' = "open" => reader' = 0
        /\ pos' \in 0..MaxChunks /\ cursor' \in 0..MaxChunks
        /\ waiting' \in BOOLEAN /\ errors' \in 0..MaxErrors
        /\ reader' # 0 => opening' = Begin
        /\ phase' = "snapshot" => at' = "idle" /\ reader' = 0 /\ opening' = Begin /\ out' = <<>>
        /\ batch' \in Seq(Seq(Chunk)) /\ out' \in Seq(Chunk)
        /\ at' \in {"idle", "failed"} => batch' = <<>>
    BY <1>1 DEF Reader
  <2> QED
    BY <2>1, <2>2, <2>3 DEF Reader
<1>4. Taken' = Taken
  BY <1>1 DEF Taken
<1>5. Alive' => Alive
  BY <1>1 DEF Alive
<1>6. Alive => (reader' # 0 => cursor' = pos')
  BY <1>1 DEF TailInv
<1>7. ASSUME Alive, Taken # <<>>
      PROVE  Linked(Taken[Len(Taken)])'
  <2> DEFINE c == Taken[Len(Taken)]
  <2>1. c \in Chunk /\ c.file \in Nat
    <3>1. c \in Chunk
      BY <1>1, <1>7, TakenTypes
    <3> QED
      BY <3>1, BoundsAssumption DEF Chunk
  <2>2. Linked(c)
    BY <1>7 DEF TailInv
  <2>3. c' = c
    BY <1>4
  <2> HIDE DEF c
  <2>4. reader # 0 => GoesOn(content', cuts', c, reader, pos)
    <3>1. reader # 0 => reader \in 1..Len(content) /\ pos \in Nat
      BY <1>1, <1>2, BoundsAssumption DEF Reader
    <3> QED
      BY <1>1, <1>8, <2>1, <2>2, <3>1, GoesOnMoves DEF Linked
  <2>5. (reader = 0 /\ opening # Begin) =>
          GoesOn(content', cuts', c, opening.file, opening.cursor)
    <3>1. opening # Begin => opening.file \in 1..Len(content) /\ opening.cursor \in Nat
      BY <1>1, BoundsAssumption DEF Reader, Resume
    <3> QED
      BY <1>1, <1>8, <2>1, <2>2, <3>1, GoesOnMoves DEF Linked
  <2>6. (reader = 0 /\ opening = Begin) =>
          c.file <= Len(content') /\ (path' # 0 => c.file < path')
    <3>1. path' # 0 => path' = path \/ (path' > Len(content) /\ path' \in Nat)
      BY <1>2, <1>8 DEF Files, Moves
    <3> QED
      BY <1>2, <1>9, <2>1, <2>2, <3>1 DEF Linked
  <2>7. Linked(c)'
    BY <1>1, <2>3, <2>4, <2>5, <2>6 DEF Linked
  <2> QED
    BY <2>7 DEF c
<1>10. Chained(Taken)'
  BY <1>4 DEF TailInv, Chained
<1> QED
  BY <1>3, <1>4, <1>5, <1>6, <1>7, <1>8, <1>10 DEF TailInv

-----------------------------------------------------------------------------
(* The follower and the command.                                           *)

\* What a step of them has to keep that takes nothing in and drops nothing.
LEMMA TakesNothing ==
  ASSUME TailInv, UNCHANGED disk, Reader', Taken' = Taken, Alive' => Alive,
         Alive' /\ reader' # 0 => cursor' = pos',
         ASSUME Alive', NEW c \in Chunk, Linked(c)
         PROVE  Linked(c)'
  PROVE  TailInv'
<1>1. /\ Files /\ Reader
      /\ UNCHANGED <<content, path, target, midline, written, cuts>>
  BY DEF TailInv, disk
<1>2. Files'
  BY <1>1 DEF Files, Kept
<1>3. Chained(Taken)'
  BY DEF TailInv, Chained
<1>4. ASSUME Alive', Taken # <<>>
      PROVE  Linked(Taken[Len(Taken)])'
  <2> DEFINE c == Taken[Len(Taken)]
  <2>1. c \in Chunk /\ Linked(c)
    BY <1>1, <1>4, TakenTypes DEF TailInv
  <2>2. c' = c
    OBVIOUS
  <2> HIDE DEF c
  <2>3. Linked(c)'
    BY <1>4, <2>1, <2>2
  <2> QED
    BY <2>3 DEF c
<1> QED
  BY <1>2, <1>3, <1>4 DEF TailInv

\* A step after which no poll can follow.
LEMMA Stops ==
  ASSUME TailInv, UNCHANGED disk, Reader', ~Alive', Chained(Taken)'
  PROVE  TailInv'
<1>1. Files /\ UNCHANGED <<content, path, target, midline, written, cuts>>
  BY DEF TailInv, disk
<1>2. Files'
  BY <1>1 DEF Files, Kept
<1> QED
  BY <1>2 DEF TailInv

LEMMA GoesOnFile ==
  ASSUME NEW files, NEW now, NEW c \in Chunk, NEW f \in Nat, NEW p, GoesOn(files, now, c, f, p)
  PROVE  c.file <= f /\ c.file \in Nat
<1>1. c.file \in Nat
  BY BoundsAssumption DEF Chunk
<1> QED
  BY <1>1 DEF GoesOn

LEMMA OpeningTypes ==
  ASSUME Files, Reader
  PROVE  /\ Len(content) \in Nat /\ path \in 0..Len(content) /\ MaxChunks \in Nat
         /\ path # 0 => path = Len(content) /\ path \in 1..Len(content)
         /\ Begin.how = "begin"
         /\ opening # Begin =>
              /\ opening.how = "resume" /\ opening.file \in 1..Len(content)
              /\ opening.cursor \in 0..MaxChunks
<1>1. Len(content) \in Nat /\ path \in 0..Len(content) /\ MaxChunks \in Nat
  BY BoundsAssumption DEF Files
<1>2. path # 0 => path = Len(content) /\ path \in 1..Len(content)
  BY <1>1 DEF Files
<1>3. opening # Begin =>
        /\ opening.how = "resume" /\ opening.file \in 1..Len(content)
        /\ opening.cursor \in 0..MaxChunks
  BY DEF Reader, Resume
<1> QED
  BY <1>1, <1>2, <1>3 DEF Begin

LEMMA StartPollStep ==
  ASSUME TailInv, FollowLog, StartPoll
  PROVE  TailInv'
<1>1. /\ Files /\ Reader /\ UNCHANGED disk /\ phase' = phase /\ phase = "follow" /\ out' = out
      /\ content' = content /\ path' = path /\ cuts' = cuts
      /\ at = "idle" /\ batch = <<>> /\ batch' = <<>> /\ at' = IF reader = 0 THEN "open" ELSE "read"
      /\ UNCHANGED <<reader, pos, cursor, opening, waiting, errors>>
  BY DEF TailInv, FollowLog, StartPoll, disk, Reader
<1>2. Reader'
  BY <1>1 DEF Reader
<1>3. Taken' = Taken
  BY <1>1 DEF Taken
<1>4. Alive /\ (reader # 0 => cursor = pos)
  BY <1>1 DEF Alive, TailInv
<1>5. ASSUME NEW c \in Chunk, Linked(c)
      PROVE  Linked(c)'
  BY <1>1, <1>5 DEF Linked
<1> QED
  BY <1>1, <1>2, <1>3, <1>4, <1>5, TakesNothing

LEMMA OpenStep ==
  ASSUME TailInv, FollowLog, Open
  PROVE  TailInv'
<1>1. /\ Files /\ Reader /\ UNCHANGED disk /\ phase' = phase /\ phase = "follow" /\ out' = out
      /\ content' = content /\ path' = path /\ cuts' = cuts
      /\ at = "open" /\ path # 0 /\ at' = "read" /\ reader' = path
      /\ cursor' = StartIn(path) /\ pos' = cursor' /\ opening' = Begin /\ waiting' = TRUE
      /\ batch' = batch /\ errors' = errors
  BY DEF TailInv, FollowLog, Open, disk
<1>2. reader = 0 /\ Alive
  BY <1>1 DEF Reader, Alive
<1>3. StartIn(path) = IF opening # Begin /\ opening.file = path THEN opening.cursor ELSE 0
  BY <1>1, OpeningTypes DEF StartIn
<1>4. StartIn(path) \in 0..MaxChunks /\ path \in 1..Len(content) /\ path = Len(content)
  BY <1>1, <1>3, OpeningTypes
<1>5. Reader'
  BY <1>1, <1>4 DEF Reader
<1>6. Taken' = Taken
  BY <1>1 DEF Taken
<1>7. ASSUME NEW c \in Chunk, Linked(c)
      PROVE  Linked(c)'
  <2>1. GoesOn(content, cuts, c, path, StartIn(path))
    <3>1. c.file \in Nat /\ Len(content) \in Nat
      BY <1>1, BoundsAssumption DEF Chunk, Files
    <3>2. CASE opening = Begin
      BY <1>1, <1>2, <1>3, <1>7, <3>2 DEF Linked, GoesOn
    <3>3. CASE opening # Begin
      <4>1. GoesOn(content, cuts, c, opening.file, opening.cursor)
        BY <1>2, <1>7, <3>3 DEF Linked
      <4>2. opening.file \in 1..Len(content) /\ opening.file \in Nat
        BY <1>1, <3>3, OpeningTypes
      <4>3. CASE opening.file = path
        BY <1>3, <3>3, <4>1, <4>3
      <4>4. CASE opening.file # path
        <5>1. c.file <= opening.file
          BY <4>1, <4>2, GoesOnFile
        <5>2. c.file < path /\ StartIn(path) = 0
          BY <1>3, <1>4, <3>1, <4>2, <4>4, <5>1
        <5> QED
          BY <5>2 DEF GoesOn
      <4> QED
        BY <4>3, <4>4
    <3> QED
      BY <3>2, <3>3
  <2>2. reader' # 0
    BY <1>1
  <2> QED
    BY <1>1, <2>1, <2>2 DEF Linked
<1>8. cursor' = pos'
  BY <1>1
<1> QED
  BY <1>1, <1>2, <1>5, <1>6, <1>7, <1>8, TakesNothing

\* "There is no file" adds no line to what is taken.
LEMMA MissingTakesNothing ==
  ASSUME Reader, out' = out, FileMissing
  PROVE  /\ Taken' = Taken /\ batch' \in Seq(Seq(Chunk))
         /\ at' = "ready" /\ reader' = 0 /\ waiting' \in BOOLEAN
<1>1. /\ batch \in Seq(Seq(Chunk)) /\ <<>> \in Seq(Chunk) /\ FlattenSeq(batch) \in Seq(Chunk)
      /\ batch' = (IF waiting THEN Append(batch, <<>>) ELSE batch)
      /\ at' = "ready" /\ reader' = 0 /\ waiting' = FALSE
  BY TakenTypes, EmptySeq DEF Reader, FileMissing
<1>2. FlattenSeq(Append(batch, <<>>)) = FlattenSeq(batch) \o <<>>
  BY <1>1, FlattenAppend
<1>3. FlattenSeq(batch) \o <<>> = FlattenSeq(batch)
  BY <1>1, ConcatEmptySeq
<1>4. FlattenSeq(batch') = FlattenSeq(batch)
  BY <1>1, <1>2, <1>3
<1>5. Taken' = Taken
  BY <1>4 DEF Taken
<1>6. Append(batch, <<>>) \in Seq(Seq(Chunk))
  BY <1>1, AppendProperties
<1> QED
  BY <1>1, <1>5, <1>6

LEMMA MissingStep ==
  ASSUME TailInv, FollowLog, OpenMissing \/ PathMissing
  PROVE  TailInv'
<1>1. /\ Files /\ Reader /\ UNCHANGED disk /\ phase' = phase /\ phase = "follow" /\ out' = out
      /\ content' = content /\ path' = path /\ cuts' = cuts
      /\ path = 0 /\ at \in {"open", "stat"} /\ FileMissing
      /\ pos' = pos /\ cursor' \in {0, cursor} /\ errors' = errors
  BY DEF TailInv, FollowLog, OpenMissing, PathMissing, disk
<1>2. /\ Taken' = Taken /\ batch' \in Seq(Seq(Chunk))
      /\ at' = "ready" /\ reader' = 0 /\ waiting' \in BOOLEAN
  BY <1>1, MissingTakesNothing
<1>3. opening' = Begin
  <2>1. CASE OpenMissing
    BY <2>1 DEF OpenMissing
  <2>2. CASE PathMissing
    <3>1. opening' = opening /\ reader # 0
      BY <1>1, <2>2 DEF PathMissing, Reader
    <3> QED
      BY <1>1, <3>1 DEF Reader
  <2> QED
    BY <2>1, <2>2
<1>4. Reader'
  BY <1>1, <1>2, <1>3, OpeningTypes DEF Reader
<1>5. Alive
  BY <1>1 DEF Alive
<1>6. ASSUME NEW c \in Chunk, Linked(c)
      PROVE  Linked(c)'
  <2>1. c.file <= Len(content)
    <3>1. CASE reader # 0
      <4>1. GoesOn(content, cuts, c, reader, pos)
        BY <1>6, <3>1 DEF Linked
      <4>2. reader \in Nat /\ reader <= Len(content) /\ Len(content) \in Nat
        BY <1>1 DEF Reader, Files
      <4>3. c.file <= reader /\ c.file \in Nat
        BY <4>1, <4>2, GoesOnFile
      <4> QED
        BY <4>2, <4>3
    <3>2. CASE reader = 0 /\ opening # Begin
      <4>1. GoesOn(content, cuts, c, opening.file, opening.cursor)
        BY <1>6, <3>2 DEF Linked
      <4>2. opening.file \in Nat /\ opening.file <= Len(content) /\ Len(content) \in Nat
        BY <1>1, <3>2, OpeningTypes
      <4>3. c.file <= opening.file /\ c.file \in Nat
        BY <4>1, <4>2, GoesOnFile
      <4> QED
        BY <4>2, <4>3
    <3>3. CASE reader = 0 /\ opening = Begin
      BY <1>6, <3>3 DEF Linked
    <3> QED
      BY <3>1, <3>2, <3>3
  <2> QED
    BY <1>1, <1>2, <1>3, <2>1 DEF Linked
<1> QED
  BY <1>1, <1>2, <1>4, <1>5, <1>6, TakesNothing

LEMMA ReadNothingStep ==
  ASSUME TailInv, FollowLog, ReadNothing
  PROVE  TailInv'
<1>1. /\ Files /\ Reader /\ UNCHANGED disk /\ phase' = phase /\ phase = "follow" /\ out' = out
      /\ content' = content /\ path' = path /\ cuts' = cuts
      /\ at = "read" /\ at' = "stat"
      /\ UNCHANGED <<reader, pos, cursor, opening, waiting, batch, errors>>
  BY DEF TailInv, FollowLog, ReadNothing, disk
<1>2. Reader'
  BY <1>1 DEF Reader
<1>3. Taken' = Taken
  BY <1>1 DEF Taken
<1>4. Alive /\ (reader # 0 => cursor = pos)
  BY <1>1 DEF Alive, TailInv
<1>5. ASSUME NEW c \in Chunk, Linked(c)
      PROVE  Linked(c)'
  BY <1>1, <1>5 DEF Linked
<1> QED
  BY <1>1, <1>2, <1>3, <1>4, <1>5, TakesNothing

LEMMA CheckPathStep ==
  ASSUME TailInv, FollowLog, CheckPath
  PROVE  TailInv'
<1>1. /\ Files /\ Reader /\ UNCHANGED disk /\ phase' = phase /\ phase = "follow" /\ out' = out
      /\ content' = content /\ path' = path /\ cuts' = cuts
      /\ at = "stat" /\ path # 0 /\ UNCHANGED <<opening, waiting, batch, errors>>
  BY DEF TailInv, FollowLog, CheckPath, disk
<1>2. /\ Alive /\ reader # 0 /\ cursor = pos /\ opening = Begin
      /\ path = Len(content) /\ reader \in 1..Len(content) /\ Len(content) \in Nat
  BY <1>1, OpeningTypes DEF Alive, Reader, TailInv
<1>3. Taken' = Taken
  BY <1>1 DEF Taken
<1>4. CASE path # reader /\ at' = "open" /\ reader' = 0 /\ cursor' = 0 /\ pos' = pos
  <2>1. Reader'
    BY <1>1, <1>2, <1>4, OpeningTypes DEF Reader
  <2>2. ASSUME NEW c \in Chunk, Linked(c)
        PROVE  Linked(c)'
    <3>1. GoesOn(content, cuts, c, reader, pos) /\ reader \in Nat
      BY <1>2, <2>2 DEF Linked
    <3>2. c.file <= reader /\ c.file \in Nat
      BY <3>1, GoesOnFile
    <3>3. c.file <= Len(content) /\ c.file < path
      BY <1>2, <1>4, <3>2
    <3> QED
      BY <1>1, <1>2, <1>4, <3>3 DEF Linked
  <2> QED
    BY <1>1, <1>2, <1>3, <1>4, <2>1, <2>2, TakesNothing
<1>5. CASE /\ path = reader /\ Len(content[path]) < cursor
           /\ at' = "read" /\ cursor' = 0 /\ pos' = 0 /\ reader' = reader
  <2>1. Reader'
    BY <1>1, <1>2, <1>5, OpeningTypes DEF Reader
  <2>2. ASSUME NEW c \in Chunk, Linked(c)
        PROVE  Linked(c)'
    <3>1. GoesOn(content, cuts, c, reader, pos)
      BY <1>2, <2>2 DEF Linked
    <3>2. Len(content[reader]) < pos /\ pos \in Nat /\ Len(content[reader]) \in Nat
      BY <1>1, <1>2, <1>5, FileTypes, BoundsAssumption DEF Reader
    <3>3. pos \notin 1..Len(content[reader])
      BY <3>2
    <3>4. GoesOn(content, cuts, c, reader, 0)
      BY <3>1, <3>3 DEF GoesOn
    <3> QED
      BY <1>1, <1>2, <1>5, <3>4 DEF Linked
  <2> QED
    BY <1>1, <1>2, <1>3, <1>5, <2>1, <2>2, TakesNothing
<1>6. CASE at' = "ready" /\ UNCHANGED <<reader, cursor, pos>>
  <2>1. Reader'
    BY <1>1, <1>2, <1>6 DEF Reader
  <2>2. ASSUME NEW c \in Chunk, Linked(c)
        PROVE  Linked(c)'
    BY <1>1, <1>6, <2>2 DEF Linked
  <2> QED
    BY <1>1, <1>2, <1>3, <1>6, <2>1, <2>2, TakesNothing
<1> QED
  BY <1>4, <1>5, <1>6 DEF CheckPath

LEMMA ReadLineStep ==
  ASSUME TailInv, FollowLog, ReadLine
  PROVE  TailInv'
<1>1. /\ Files /\ Reader /\ UNCHANGED disk /\ phase' = phase /\ phase = "follow" /\ out' = out
      /\ content' = content /\ path' = path /\ cuts' = cuts
      /\ at = "read" /\ pos < Len(content[reader]) /\ batch' = Append(batch, NextLine)
      /\ pos' = LineEnd /\ cursor' = cursor + (LineEnd - pos)
      /\ UNCHANGED <<at, reader, opening, waiting, errors>>
  BY DEF TailInv, FollowLog, ReadLine, disk
<1>2. /\ Alive /\ reader # 0 /\ cursor = pos /\ reader \in 1..Len(content)
      /\ pos \in Nat /\ MaxChunks \in Nat
  BY <1>1, OpeningTypes DEF Alive, Reader, TailInv
<1> DEFINE f == reader
           e == LineEnd
           line == NextLine
           c == content[f][e]
<1>3. e \in pos + 1..Len(content[f]) /\ Len(content[f]) \in Nat /\ Len(content[f]) <= MaxChunks
  BY <1>1, <1>2, LineEndInFile, FileTypes
<1>4. line = SubSeq(content[f], pos + 1, e)
  BY DEF NextLine
<1> HIDE DEF line, e
<1>5. /\ line \in Seq(Chunk) /\ Len(line) = e - pos /\ line # <<>>
      /\ line[1] = content[f][pos + 1] /\ line[Len(line)] = c /\ Chained(line)
  <2>1. pos + 1 \in 1..Len(content[f]) /\ e \in pos + 1..Len(content[f])
    BY <1>2, <1>3
  <2>2. e - (pos + 1) + 1 = e - pos
    BY <1>2, <1>3
  <2> QED
    BY <1>1, <1>2, <1>4, <2>1, <2>2, PieceIsChained
<1>6. /\ Taken \in Seq(Chunk) /\ FlattenSeq(batch) \in Seq(Chunk)
      /\ batch \in Seq(Seq(Chunk)) /\ out \in Seq(Chunk) /\ Chained(Taken)
  BY <1>1, TakenTypes DEF Reader, TailInv
<1>7. Taken' = Taken \o line
  <2>1. FlattenSeq(batch') = FlattenSeq(batch) \o line
    BY <1>1, <1>5, <1>6, FlattenAppend DEF line
  <2>2. out \o (FlattenSeq(batch) \o line) = (out \o FlattenSeq(batch)) \o line
    <3>1. Regroups(out, FlattenSeq(batch), line)
      BY <1>5, <1>6, Regrouped
    <3> QED
      BY <3>1 DEF Regroups
  <2> QED
    BY <1>1, <2>1, <2>2 DEF Taken
<1>8. Chained(Taken \o line)
  <2>1. Taken # <<>> => Follows(Taken[Len(Taken)], line[1])
    <3> SUFFICES ASSUME Taken # <<>>
                 PROVE  Follows(Taken[Len(Taken)], content[f][pos + 1])
      BY <1>5
    <3>1. Taken[Len(Taken)] \in Chunk
      BY <1>1, TakenTypes
    <3>2. GoesOn(content, cuts, Taken[Len(Taken)], f, pos)
      BY <1>2 DEF TailInv, Linked
    <3> QED
      BY <1>1, <1>2, <3>1, <3>2, GoesOnFollows
  <2> QED
    BY <1>5, <1>6, <2>1, ChainedConcat
<1>9. Taken'[Len(Taken')] = c /\ Taken' # <<>>
  <2>1. /\ Len(Taken) \in Nat /\ Len(line) \in Nat \ {0}
        /\ Len(Taken \o line) = Len(Taken) + Len(line)
        /\ \A i \in 1..Len(Taken) + Len(line) :
             (Taken \o line)[i] = IF i <= Len(Taken) THEN Taken[i] ELSE line[i - Len(Taken)]
    BY <1>5, <1>6, ConcatProperties, EmptySeq
  <2>2. (Taken \o line)[Len(Taken) + Len(line)] = line[Len(line)]
    <3>1. /\ Len(Taken) + Len(line) \in 1..Len(Taken) + Len(line)
          /\ ~(Len(Taken) + Len(line) <= Len(Taken))
          /\ (Len(Taken) + Len(line)) - Len(Taken) = Len(line)
      BY <2>1
    <3> QED
      BY <2>1, <3>1
  <2>3. Taken \o line # <<>>
    BY <2>1, EmptySeq
  <2> QED
    BY <1>5, <1>7, <2>1, <2>2, <2>3
<1>10. Reader'
  <2>1. batch' \in Seq(Seq(Chunk))
    BY <1>1, <1>5, <1>6, AppendProperties DEF line
  <2>2. pos' \in 0..MaxChunks /\ cursor' = pos'
    BY <1>1, <1>2, <1>3 DEF e
  <2> QED
    BY <1>1, <2>1, <2>2 DEF Reader
<1>11. Linked(Taken[Len(Taken)])'
  <2>1. e \in 1..Len(content[f]) /\ c.file = f
    BY <1>1, <1>2, <1>3, FileTypes
  <2>2. GoesOn(content, cuts, c, f, e)
    BY <2>1 DEF GoesOn
  <2>3. reader' = reader /\ pos' = e
    BY <1>1 DEF e
  <2>4. GoesOn(content', cuts', Taken'[Len(Taken')], reader', pos')
    BY <1>1, <1>9, <2>2, <2>3
  <2>5. reader' # 0
    BY <1>1, <1>2
  <2> QED
    BY <2>4, <2>5 DEF Linked
<1>12. Files'
  BY <1>1 DEF Files, Kept, disk
<1>13. cursor' = pos'
  BY <1>1, <1>2, <1>3 DEF e
<1>14. Chained(Taken)'
  BY <1>7, <1>8 DEF Chained
<1> QED
  BY <1>10, <1>11, <1>12, <1>13, <1>14 DEF TailInv

LEMMA FailStep ==
  ASSUME TailInv, FollowLog, CallFails \/ ReadFails
  PROVE  TailInv'
<1>1. /\ Files /\ Reader /\ UNCHANGED disk /\ phase' = phase /\ phase = "follow" /\ out' = out
      /\ content' = content
      /\ errors < MaxErrors /\ errors' = errors + 1 /\ at' = "failed" /\ batch' = <<>>
      /\ UNCHANGED <<reader, opening, waiting, cursor>>
  BY DEF TailInv, FollowLog, CallFails, ReadFails, Fail, disk
<1>2. pos' \in 0..MaxChunks
  <2>1. CASE CallFails
    BY <1>1, <2>1 DEF CallFails, Reader
  <2>2. CASE ReadFails
    <3>1. /\ at = "read" /\ pos < Len(content[reader]) /\ pos' = LineEnd
      BY <2>2 DEF ReadFails
    <3>2. /\ reader \in 1..Len(content) /\ pos \in Nat /\ MaxChunks \in Nat
      BY <1>1, <3>1, OpeningTypes DEF Reader
    <3>3. /\ LineEnd \in pos + 1..Len(content[reader])
          /\ Len(content[reader]) \in Nat /\ Len(content[reader]) <= MaxChunks
      BY <1>1, <3>1, <3>2, LineEndInFile, FileTypes
    <3> QED
      BY <3>1, <3>2, <3>3
  <2> QED
    BY <2>1, <2>2
<1>3. errors' \in 0..MaxErrors
  BY <1>1, BoundsAssumption DEF Reader
<1>4. Reader'
  BY <1>1, <1>2, <1>3, EmptySeq DEF Reader
<1>5. Chained(Taken)'
  <2>1. out \in Seq(Chunk) /\ FlattenSeq(batch) \in Seq(Chunk) /\ Chained(out \o FlattenSeq(batch))
    BY <1>1, TakenTypes DEF Reader, TailInv, Taken
  <2>2. Chained(out)
    BY <2>1, ChainedPrefix
  <2>3. Taken' = out
    BY <1>1, <2>1, FlattenEmpty, ConcatEmptySeq DEF Taken
  <2> QED
    BY <2>2, <2>3 DEF Chained
<1>6. ~Alive'
  BY <1>1 DEF Alive
<1> QED
  BY <1>1, <1>4, <1>5, <1>6, Stops

LEMMA SnapshotStep ==
  ASSUME TailInv, Snapshot
  PROVE  TailInv'
<1>1. /\ Files /\ Reader /\ UNCHANGED disk /\ phase = "snapshot" /\ phase' = "follow"
      /\ content' = content /\ path' = path /\ cuts' = cuts
      /\ UNCHANGED <<at, reader, pos, cursor, waiting, batch, errors>>
  BY DEF TailInv, Snapshot, disk
<1>2. at = "idle" /\ reader = 0 /\ opening = Begin /\ out = <<>> /\ batch = <<>>
  BY <1>1 DEF Reader
<1>3. Files'
  BY <1>1 DEF Files, Kept, disk
<1>4. CASE path = 0
  <2>1. opening' = Begin /\ out' = out
    BY <1>4 DEF Snapshot
  <2>2. Reader'
    BY <1>1, <1>2, <2>1 DEF Reader
  <2>3. Taken' = <<>>
    BY <1>1, <1>2, <2>1, FlattenEmpty DEF Taken
  <2>4. Chained(Taken)'
    BY <2>3, EmptySeq DEF Chained
  <2> QED
    BY <1>1, <1>2, <1>3, <2>2, <2>3, <2>4 DEF TailInv
<1>5. CASE path # 0
  <2> DEFINE s == content[path]
             n == Len(content[path])
  <2>1. opening' = Resume(path, n) /\ out' \in LastLines(s)
    BY <1>5 DEF Snapshot
  <2>2. path \in 1..Len(content) /\ s \in Seq(Chunk) /\ n \in Nat /\ n <= MaxChunks
        /\ n \in 0..MaxChunks
    BY <1>1, <1>5, OpeningTypes, FileTypes
  <2>3. PICK i \in 0..n : out' = SubSeq(s, i + 1, n)
    <3>1. DOMAIN s = 1..n
      BY <2>2
    <3> QED
      BY <2>1, <2>2, <3>1 DEF LastLines
  <2> HIDE DEF s
  <2>4. out' = <<>> \/ (/\ out' \in Seq(Chunk) /\ out' # <<>> /\ n # 0
                       /\ out'[Len(out')] = content[path][n] /\ Chained(out)')
    <3>1. CASE i = n
      BY <2>2, <2>3, <3>1, SubSeqEmpty
    <3>2. CASE i # n
      <4>1. i + 1 \in 1..n /\ n \in i + 1..n
        BY <2>2, <3>2
      <4> DEFINE t == SubSeq(content[path], i + 1, n)
      <4>2. /\ t \in Seq(Chunk) /\ t # <<>> /\ t[Len(t)] = content[path][n] /\ Chained(t)
        BY <1>1, <2>2, <4>1, PieceIsChained
      <4>3. out' = t
        BY <2>3 DEF s
      <4> HIDE DEF t
      <4>4. Chained(out)'
        BY <4>2, <4>3 DEF Chained
      <4>5. n # 0
        BY <2>2, <4>1
      <4> QED
        BY <4>2, <4>3, <4>4, <4>5
    <3> QED
      BY <3>1, <3>2
  <2>5. out' \in Seq(Chunk)
    BY <2>4, EmptySeq
  <2>6. Taken' = out'
    BY <1>1, <1>2, <2>5, FlattenEmpty, ConcatEmptySeq DEF Taken
  <2>7. Reader'
    BY <1>1, <1>2, <2>1, <2>2, <2>5 DEF Reader
  <2>8. Chained(Taken)'
    BY <2>4, <2>6, EmptySeq DEF Chained
  <2>9. ASSUME Taken' # <<>>
        PROVE  Linked(Taken[Len(Taken)])'
    <3>1. Taken'[Len(Taken')] = content[path][n] /\ n \in 1..n
      BY <2>2, <2>4, <2>6, <2>9
    <3>2. content[path][n].file = path
      BY <1>1, <2>2, <3>1, FileTypes
    <3>3. GoesOn(content, cuts, content[path][n], path, n)
      BY <3>1, <3>2 DEF GoesOn
    <3>4. opening' # Begin /\ opening'.file = path /\ opening'.cursor = n
      <4>1. opening'.how = "resume"
        BY <2>1 DEF Resume
      <4> QED
        BY <2>1, <4>1 DEF Resume, Begin
    <3> QED
      BY <1>1, <1>2, <3>1, <3>3, <3>4 DEF Linked
  <2> QED
    BY <1>1, <1>2, <1>3, <2>7, <2>8, <2>9 DEF TailInv
<1> QED
  BY <1>4, <1>5

LEMMA EndStep ==
  ASSUME TailInv, SnapshotFails \/ End
  PROVE  TailInv'
<1>1. /\ Files /\ Reader /\ UNCHANGED disk /\ phase' = "ended" /\ content' = content
      /\ at \in {"idle", "failed"} /\ at' = "idle" /\ errors' \in 0..MaxErrors
      /\ UNCHANGED <<reader, pos, cursor, opening, waiting, batch, out>>
  <2>1. CASE SnapshotFails
    <3>1. errors' \in 0..MaxErrors
      BY <2>1, BoundsAssumption DEF SnapshotFails, TailInv, Reader
    <3> QED
      BY <2>1, <3>1 DEF SnapshotFails, TailInv, Reader, disk
  <2>2. CASE End
    BY <2>2 DEF End, TailInv, Reader, disk
  <2> QED
    BY <2>1, <2>2
<1>2. Reader'
  BY <1>1 DEF Reader
<1>3. Chained(Taken)'
  BY <1>1 DEF TailInv, Chained, Taken
<1>4. ~Alive'
  BY <1>1 DEF Alive
<1> QED
  BY <1>1, <1>2, <1>3, <1>4, Stops

LEMMA PrintStep ==
  ASSUME TailInv, PrintLines
  PROVE  TailInv'
<1>1. /\ Files /\ Reader /\ UNCHANGED disk /\ phase' = phase
      /\ content' = content /\ path' = path /\ cuts' = cuts
      /\ at = "ready" /\ at' = "idle" /\ out' = Taken /\ batch' = <<>>
      /\ UNCHANGED <<reader, pos, cursor, opening, waiting, errors>>
  BY DEF TailInv, PrintLines, Taken, disk
<1>2. Taken \in Seq(Chunk) /\ phase # "snapshot"
  BY <1>1, TakenTypes DEF Reader
<1>3. Taken' = Taken
  BY <1>1, <1>2, FlattenEmpty, ConcatEmptySeq DEF Taken
<1>4. Reader'
  BY <1>1, <1>2, EmptySeq DEF Reader
<1>5. Alive' => Alive /\ (reader # 0 => cursor = pos)
  BY <1>1 DEF Alive, TailInv
<1>6. ASSUME NEW c \in Chunk, Linked(c)
      PROVE  Linked(c)'
  BY <1>1, <1>6 DEF Linked
<1> QED
  BY <1>1, <1>3, <1>4, <1>5, <1>6, TakesNothing

-----------------------------------------------------------------------------
(* The theorems.                                                           *)

LEMMA InitEstablishes ==
  TailInit => TailInv
<1> SUFFICES ASSUME TailInit
             PROVE  TailInv
  OBVIOUS
<1>1. /\ content = <<>> /\ path = 0 /\ target = 0 /\ midline = FALSE /\ written = 0 /\ cuts = 0
      /\ at = "idle" /\ reader = 0 /\ pos = 0 /\ cursor = 0 /\ opening = Begin
      /\ waiting = TRUE /\ batch = <<>> /\ errors = 0 /\ phase = "snapshot" /\ out = <<>>
  BY DEF TailInit, Init
<1>2. Files
  BY <1>1, NoFiles
<1>3. Reader
  <2>1. batch \in Seq(Seq(Chunk)) /\ out \in Seq(Chunk) /\ 0 \in 0..Len(content)
    BY <1>1, EmptySeq
  <2> QED
    BY <1>1, <2>1, BoundsAssumption DEF Reader
<1>4. Taken = <<>>
  <2>1. out \in Seq(Chunk) /\ FlattenSeq(batch) = <<>>
    BY <1>1, EmptySeq, FlattenEmpty
  <2> QED
    BY <1>1, <2>1, ConcatEmptySeq DEF Taken
<1>5. Chained(Taken)
  BY <1>4, EmptySeq DEF Chained
<1> QED
  BY <1>1, <1>2, <1>3, <1>4, <1>5 DEF TailInv

LEMMA NextPreserves ==
  TailInv /\ [TailNext]_tail => TailInv'
<1> SUFFICES ASSUME TailInv, [TailNext]_tail
             PROVE  TailInv'
  OBVIOUS
<1>1. ASSUME DiskStep, UNCHANGED <<follower, phase, out>>
      PROVE  TailInv'
  BY <1>1, DiskPreserves
<1>2. CASE Snapshot
  BY <1>2, SnapshotStep
<1>3. CASE SnapshotFails \/ End
  BY <1>3, EndStep
<1>4. CASE FollowLog
  <2>1. Poll
    BY <1>4 DEF FollowLog
  <2> QED
    BY <1>4, <2>1, StartPollStep, OpenStep, MissingStep, ReadLineStep, ReadNothingStep,
       CheckPathStep, FailStep DEF Poll
<1>5. CASE PrintLines
  BY <1>5, PrintStep
<1>6. CASE UNCHANGED tail
  <2>1. UNCHANGED disk /\ UNCHANGED follower /\ phase' = phase /\ out' = out
    BY <1>6 DEF tail
  <2>2. Taken' = Taken
    BY <2>1 DEF Taken, follower
  <2>3. Files' /\ Reader' /\ Alive' = Alive
    <3>1. Files /\ Reader
      BY DEF TailInv
    <3>2. Files'
      BY <2>1, <3>1 DEF disk, Files, Kept
    <3>3. Reader'
      BY <2>1, <3>1 DEF disk, follower, Reader
    <3>4. Alive' = Alive
      BY <2>1 DEF Alive, follower
    <3> QED
      BY <3>2, <3>3, <3>4
  <2>4. ASSUME NEW c \in Chunk, Linked(c)
        PROVE  Linked(c)'
    BY <2>1, <2>4 DEF disk, follower, Linked
  <2>5. Alive /\ reader' # 0 => cursor' = pos'
    BY <2>1 DEF TailInv, follower
  <2> QED
    BY <2>1, <2>2, <2>3, <2>4, <2>5, TakesNothing
<1> QED
  BY <1>1, <1>2, <1>3, <1>4, <1>5, <1>6 DEF TailNext

\* The inductive invariant of `logs tail --follow`: what is taken from the
\* files is in order, and a follower that has not failed goes on behind the
\* last of it, whatever the daemon and the operator do to the files meanwhile.
THEOREM TailInvariance == TailSpec => []TailInv
<1>1. TailInit => TailInv
  BY InitEstablishes
<1>2. TailInv /\ [TailNext]_tail => TailInv'
  BY NextPreserves
<1> QED
  BY <1>1, <1>2, PTL DEF TailSpec

\* For any number of files, chunks, truncations and errors, the follower's
\* offsets stay within what was ever written and it reads only files it opened.
THEOREM FollowerTypes == TailSpec => []TypeOK
<1>1. TailInv => TypeOK
  <2> SUFFICES ASSUME TailInv
               PROVE  TypeOK
    OBVIOUS
  <2>1. Files /\ Reader
    BY DEF TailInv
  <2>2. opening.how \in {"begin", "end", "resume"}
    BY <2>1, OpeningTypes
  <2> QED
    BY <2>1, <2>2 DEF Files, Reader, TypeOK
<1> QED
  BY <1>1, TailInvariance, PTL

\* For any number of files, chunks, truncations and errors, what is printed is
\* the log in its order: nothing of a file is skipped or repeated, and a file
\* that replaces it is printed from its beginning.
THEOREM LogPrintedInOrder == TailSpec => []PrintedInOrder
<1>1. TailInv => PrintedInOrder
  <2> SUFFICES ASSUME TailInv
               PROVE  PrintedInOrder
    OBVIOUS
  <2>1. out \in Seq(Chunk) /\ FlattenSeq(batch) \in Seq(Chunk) /\ Chained(out \o FlattenSeq(batch))
    BY TakenTypes DEF TailInv, Reader, Taken
  <2>2. Chained(out)
    BY <2>1, ChainedPrefix
  <2> QED
    BY <2>2 DEF Chained, Follows, PrintedInOrder
<1> QED
  BY <1>1, TailInvariance, PTL

-----------------------------------------------------------------------------
(* The page: events among lines.                                           *)

\* The events among some lines follow each other in the log, and x follows them.
InOrder(lines) ==
  \A i, j \in DOMAIN lines :
    i < j /\ IsEvent(lines[i]) /\ IsEvent(lines[j]) => Before(Last(lines[i]), Head(lines[j]))
Ahead(lines, x) ==
  \A i \in DOMAIN lines : IsEvent(lines[i]) /\ IsEvent(x) => Before(Last(lines[i]), Head(x))

LEMMA EventShape ==
  ASSUME NEW line \in Seq(Chunk), IsEvent(line)
  PROVE  /\ Len(line) \in {1, 2} /\ line # <<>>
         /\ Head(line) = line[1] /\ Head(line) \in Chunk
         /\ Last(line) = line[Len(line)] /\ Last(line) \in Chunk /\ EndsLine(Last(line))
<1>1. Len(line) \in {1, 2}
  BY DEF IsEvent
<1>2. line # <<>> /\ Len(line) \in 1..Len(line) /\ 1 \in 1..Len(line)
  BY <1>1, EmptySeq
<1>3. Head(line) = line[1] /\ Last(line) = line[Len(line)]
  BY <1>2 DEF Last
<1>4. line[1] \in Chunk /\ line[Len(line)] \in Chunk
  BY <1>2, ElementOfSeq
<1>5. EndsLine(line[Len(line)])
  BY <1>2 DEF IsEvent, EndsLine
<1> QED
  BY <1>1, <1>2, <1>3, <1>4, <1>5

LEMMA InOrderAppend ==
  ASSUME NEW lines \in Seq(Seq(Chunk)), NEW x \in Seq(Chunk)
  PROVE  InOrder(Append(lines, x)) <=> InOrder(lines) /\ Ahead(lines, x)
<1> DEFINE more == Append(lines, x)
<1>1. /\ Len(lines) \in Nat /\ DOMAIN lines = 1..Len(lines) /\ DOMAIN more = 1..Len(lines) + 1
      /\ \A i \in 1..Len(lines) : more[i] = lines[i]
      /\ more[Len(lines) + 1] = x
  BY LenProperties, AppendProperties
<1> HIDE DEF more
<1>2. ASSUME InOrder(more)
      PROVE  InOrder(lines) /\ Ahead(lines, x)
  <2>1. InOrder(lines)
    BY <1>1, <1>2 DEF InOrder
  <2>2. Ahead(lines, x)
    <3> SUFFICES ASSUME NEW i \in DOMAIN lines, IsEvent(lines[i]), IsEvent(x)
                 PROVE  Before(Last(lines[i]), Head(x))
      BY DEF Ahead
    <3> DEFINE n == Len(lines) + 1
    <3>1. i \in DOMAIN more /\ n \in DOMAIN more /\ i < n /\ more[i] = lines[i] /\ more[n] = x
      BY <1>1
    <3> HIDE DEF n
    <3> QED
      BY <1>2, <3>1 DEF InOrder
  <2> QED
    BY <2>1, <2>2
<1>3. ASSUME InOrder(lines), Ahead(lines, x)
      PROVE  InOrder(more)
  <2> SUFFICES ASSUME NEW i \in DOMAIN more, NEW j \in DOMAIN more, i < j,
                      IsEvent(more[i]), IsEvent(more[j])
               PROVE  Before(Last(more[i]), Head(more[j]))
    BY DEF InOrder
  <2>1. i \in 1..Len(lines)
    BY <1>1
  <2>2. CASE j = Len(lines) + 1
    BY <1>1, <1>3, <2>1, <2>2 DEF Ahead
  <2>3. CASE j \in 1..Len(lines)
    BY <1>1, <1>3, <2>1, <2>3 DEF InOrder
  <2> QED
    BY <1>1, <2>2, <2>3
<1> QED
  BY <1>2, <1>3 DEF more

\* OnlyEvents, line by line.
Chosen == [line \in Seq(Chunk) |-> IF IsEvent(line) THEN <<line>> ELSE <<>>]

LEMMA OnlyEventsEach ==
  ASSUME NEW lines \in Seq(Seq(Chunk))
  PROVE  OnlyEvents(lines) = Each(Chosen, lines) /\ Chosen \in [Seq(Chunk) -> Seq(Seq(Chunk))]
<1>1. \A i \in DOMAIN lines : lines[i] \in Seq(Chunk)
  BY LenProperties, ElementOfSeq
<1>2. [n \in DOMAIN lines |-> IF IsEvent(lines[n]) THEN <<lines[n]>> ELSE <<>>]
      = [i \in DOMAIN lines |-> Chosen[lines[i]]]
  BY <1>1 DEF Chosen
<1>3. Chosen \in [Seq(Chunk) -> Seq(Seq(Chunk))]
  BY EmptySeq DEF Chosen
<1> QED
  BY <1>2, <1>3 DEF OnlyEvents, Each

\* What OnlyEvents takes out: the events, all of them, in their order.
TakesOut(lines, events) ==
  /\ events \in Seq(Seq(Chunk))
  /\ \A i \in DOMAIN events : IsEvent(events[i]) /\ events[i] \in ToSet(lines)
  /\ \A line \in ToSet(lines) : IsEvent(line) => line \in ToSet(events)
  /\ InOrder(lines) => InOrder(events)

LEMMA OnlyEventsAre ==
  ASSUME NEW lines \in Seq(Seq(Chunk))
  PROVE  TakesOut(lines, OnlyEvents(lines))
<1> DEFINE P == {ls \in Seq(Seq(Chunk)) : TakesOut(ls, Each(Chosen, ls))}
<1>1. <<>> \in P
  <2>1. Each(Chosen, <<>>) = <<>>
    BY EachEmpty
  <2>2. <<>> \in Seq(Seq(Chunk)) /\ DOMAIN <<>> = {}
    BY EmptySeq
  <2> QED
    BY <2>1, <2>2 DEF TakesOut, ToSet
<1>2. ASSUME NEW ls \in Seq(Seq(Chunk)), NEW x \in Seq(Chunk), ls \in P
      PROVE  Append(ls, x) \in P
  <2> DEFINE more == Append(ls, x)
             events == Each(Chosen, ls)
             new == Each(Chosen, more)
  <2>1. /\ Chosen \in [Seq(Chunk) -> Seq(Seq(Chunk))]
        /\ TakesOut(ls, events) /\ events \in Seq(Seq(Chunk))
    BY <1>2, OnlyEventsEach DEF TakesOut
  <2>2. new = events \o Chosen[x]
    BY <2>1, EachAppend
  <2>3. more \in Seq(Seq(Chunk)) /\ ToSet(more) = ToSet(ls) \union {x}
    BY AppendProperties, ToSetAppend
  <2>4. InOrder(more) <=> InOrder(ls) /\ Ahead(ls, x)
    BY InOrderAppend
  <2> HIDE DEF more, events, new
  <2>5. TakesOut(more, new)
    <3>1. CASE ~IsEvent(x)
      <4>1. Chosen[x] = <<>>
        BY <3>1 DEF Chosen
      <4>2. new = events
        BY <2>1, <2>2, <4>1, ConcatEmptySeq
      <4> QED
        BY <2>1, <2>3, <2>4, <3>1, <4>2 DEF TakesOut
    <3>2. CASE IsEvent(x)
      <4>1. Chosen[x] = <<x>>
        BY <3>2 DEF Chosen
      <4>2. new = Append(events, x)
        BY <2>1, <2>2, <4>1, AppendIsConcat
      <4>3. /\ new \in Seq(Seq(Chunk))
            /\ Len(events) \in Nat /\ DOMAIN events = 1..Len(events)
            /\ DOMAIN new = 1..Len(events) + 1
            /\ \A i \in 1..Len(events) : new[i] = events[i]
            /\ new[Len(events) + 1] = x
        BY <2>1, <4>2, LenProperties, AppendProperties
      <4>4. \A i \in DOMAIN new : IsEvent(new[i]) /\ new[i] \in ToSet(more)
        <5> TAKE i \in DOMAIN new
        <5>1. CASE i = Len(events) + 1
          BY <2>3, <3>2, <4>3, <5>1
        <5>2. CASE i \in 1..Len(events)
          BY <2>1, <2>3, <4>3, <5>2 DEF TakesOut
        <5> QED
          BY <4>3, <5>1, <5>2
      <4>5. ToSet(new) = ToSet(events) \union {x}
        BY <2>1, <4>2, ToSetAppend
      <4>6. \A line \in ToSet(more) : IsEvent(line) => line \in ToSet(new)
        BY <2>1, <2>3, <4>5 DEF TakesOut
      <4>7. InOrder(more) => InOrder(new)
        <5> SUFFICES ASSUME InOrder(more)
                     PROVE  InOrder(new)
          OBVIOUS
        <5>1. InOrder(events) /\ Ahead(ls, x)
          BY <2>1, <2>4 DEF TakesOut
        <5>2. Ahead(events, x)
          BY <2>1, <5>1 DEF Ahead, TakesOut, ToSet
        <5> QED
          BY <2>1, <4>2, <5>1, <5>2, InOrderAppend
      <4> QED
        BY <4>3, <4>4, <4>6, <4>7 DEF TakesOut
    <3> QED
      BY <3>1, <3>2
  <2> QED
    BY <2>3, <2>5 DEF more, new
<1>3. Seq(Seq(Chunk)) \subseteq P
  <2> HIDE DEF P
  <2> QED
    BY <1>1, <1>2, InductionOverSeq
<1> QED
  BY <1>3, OnlyEventsEach

\* Where the line that chunk i is on begins.
BeginsAt(s, i, a) ==
  /\ LineTo(s, i) \in Seq(Chunk) /\ Len(LineTo(s, i)) = i - a + 1
  /\ \A n \in 1..i - a + 1 : LineTo(s, i)[n] = s[a + n - 1]
  /\ \A e \in 1..i - 1 : EndsLine(s[e]) => e < a
  /\ a = 1 \/ EndsLine(s[a - 1])

LEMMA LineBegins ==
  ASSUME NEW s \in Seq(Chunk), NEW i \in 1..Len(s)
  PROVE  \E a \in 1..i : BeginsAt(s, i, a)
<1> DEFINE E == {e \in 1..i - 1 : EndsLine(s[e])}
           S == {0} \union E
           a == Max(S) + 1
<1>1. Len(s) \in Nat /\ i \in Nat /\ i - 1 \in Nat /\ \A n \in 1..Len(s) : s[n] \in Chunk
  BY LenProperties, ElementOfSeq
<1>2. S # {} /\ S \subseteq 0..i - 1
  BY <1>1
<1>3. Max(S) \in S /\ Max(S) \in 0..i - 1 /\ \A x \in S : x <= Max(S)
  <2> HIDE DEF S
  <2> QED
    BY <1>1, <1>2, GreatestMember
<1>4. LineTo(s, i) = SubSeq(s, a, i)
  BY DEF LineTo
<1>5. a \in 1..i /\ a - 1 = Max(S)
  BY <1>1, <1>3
<1>6. a = 1 \/ EndsLine(s[a - 1])
  <2>1. CASE Max(S) = 0
    BY <2>1
  <2>2. CASE Max(S) \in E
    <3>1. EndsLine(s[Max(S)])
      BY <2>2
    <3> QED
      BY <1>5, <3>1
  <2> QED
    BY <1>3, <2>1, <2>2
<1>7. \A e \in 1..i - 1 : EndsLine(s[e]) => e < a
  <2> SUFFICES ASSUME NEW e \in 1..i - 1, EndsLine(s[e])
               PROVE  e < a
    OBVIOUS
  <2>1. e \in S
    OBVIOUS
  <2>2. e <= Max(S)
    BY <1>3, <2>1
  <2> QED
    BY <1>1, <1>3, <2>2
<1> HIDE DEF a
<1>8. /\ SubSeq(s, a, i) \in Seq(Chunk) /\ Len(SubSeq(s, a, i)) = i - a + 1
      /\ \A n \in 1..i - a + 1 : SubSeq(s, a, i)[n] = s[a + n - 1]
  <2>1. a \in Int /\ i \in Int /\ a <= i /\ \A n \in a..i : s[n] \in Chunk
    BY <1>1, <1>5
  <2> QED
    BY <2>1, SubSeqProperties
<1> QED
  BY <1>4, <1>5, <1>6, <1>7, <1>8 DEF BeginsAt

LEMMA LinesType ==
  ASSUME NEW s \in Seq(Chunk)
  PROVE  LET lines == [i \in DOMAIN s |-> LineTo(s, i)]
         IN  /\ lines \in Seq(Seq(Chunk)) /\ DOMAIN lines = 1..Len(s)
             /\ \A i \in 1..Len(s) : lines[i] = LineTo(s, i)
             /\ Events(s) = OnlyEvents(lines) /\ TakesOut(lines, Events(s))
<1> DEFINE lines == [i \in DOMAIN s |-> LineTo(s, i)]
<1>1. Len(s) \in Nat /\ DOMAIN s = 1..Len(s)
  BY LenProperties
<1>2. \A i \in 1..Len(s) : LineTo(s, i) \in Seq(Chunk)
  BY LineBegins DEF BeginsAt
<1>3. lines \in Seq(Seq(Chunk))
  BY <1>1, <1>2
<1>4. Events(s) = OnlyEvents(lines)
  BY DEF Events
<1>5. TakesOut(lines, Events(s))
  <2> HIDE DEF lines
  <2> QED
    BY <1>3, <1>4, OnlyEventsAre
<1> QED
  BY <1>1, <1>3, <1>4, <1>5

\* The events of a file.
OfFile(events, f) ==
  /\ events \in Seq(Seq(Chunk)) /\ InOrder(events)
  /\ \A i \in DOMAIN events : IsEvent(events[i])
  /\ \A line \in ToSet(events) :
       \E k \in 1..Len(content[f]) : Last(line) = content[f][k]

LEMMA EventsOfFile ==
  ASSUME Files, NEW f \in 1..Len(content)
  PROVE  OfFile(Events(content[f]), f)
<1> DEFINE s == content[f]
           lines == [i \in DOMAIN s |-> LineTo(s, i)]
<1>1. s \in Seq(Chunk) /\ Len(s) \in Nat
  BY FileTypes
<1>2. /\ lines \in Seq(Seq(Chunk)) /\ DOMAIN lines = 1..Len(s)
      /\ \A i \in 1..Len(s) : lines[i] = LineTo(s, i)
      /\ TakesOut(lines, Events(s))
  BY <1>1, LinesType
<1>3. \A i, j \in 1..Len(s) : i < j => Before(s[i], s[j])
  <2> SUFFICES ASSUME NEW i \in 1..Len(s), NEW j \in 1..Len(s), i < j
               PROVE  Before(s[i], s[j])
    OBVIOUS
  <2>1. i \in 1..j
    BY <1>1
  <2> DEFINE c == s[i]
             d == s[j]
  <2>2. /\ c.file = f /\ d.file = f /\ c.index = i /\ d.index = j
        /\ c.epoch \in Nat /\ d.epoch \in Nat /\ c.epoch <= d.epoch
    BY <2>1, FileTypes
  <2> HIDE DEF c, d
  <2>3. Before(c, d)
    BY <2>2 DEF Before
  <2> QED
    BY <2>3 DEF c, d
<1> HIDE DEF s, lines
<1>4. ASSUME NEW i \in 1..Len(s), IsEvent(lines[i])
      PROVE  /\ lines[i] \in Seq(Chunk) /\ Last(lines[i]) = s[i] /\ EndsLine(s[i])
             /\ \E a \in 1..i : /\ Head(lines[i]) = s[a]
                                /\ \A e \in 1..i - 1 : EndsLine(s[e]) => e < a
  <2>1. lines[i] = LineTo(s, i)
    BY <1>2
  <2>2. PICK a \in 1..i : BeginsAt(s, i, a)
    BY <1>1, LineBegins
  <2>3. lines[i] \in Seq(Chunk) /\ Len(lines[i]) = i - a + 1
    BY <2>1, <2>2 DEF BeginsAt
  <2>4. /\ Head(lines[i]) = lines[i][1] /\ Last(lines[i]) = lines[i][i - a + 1]
        /\ EndsLine(Last(lines[i]))
    BY <1>4, <2>3, EventShape
  <2>5. lines[i][1] = s[a] /\ lines[i][i - a + 1] = s[i]
    <3>1. 1 \in 1..i - a + 1 /\ i - a + 1 \in 1..i - a + 1 /\ a + 1 - 1 = a /\ a + (i - a + 1) - 1 = i
      BY <1>1
    <3> QED
      BY <2>1, <2>2, <3>1 DEF BeginsAt
  <2> QED
    BY <2>2, <2>3, <2>4, <2>5 DEF BeginsAt
<1>5. InOrder(lines)
  <2> SUFFICES ASSUME NEW i \in 1..Len(s), NEW j \in 1..Len(s), i < j,
                      IsEvent(lines[i]), IsEvent(lines[j])
               PROVE  Before(Last(lines[i]), Head(lines[j]))
    BY <1>2 DEF InOrder
  <2>1. Last(lines[i]) = s[i] /\ EndsLine(s[i])
    BY <1>4
  <2>2. PICK a \in 1..j : /\ Head(lines[j]) = s[a]
                          /\ \A e \in 1..j - 1 : EndsLine(s[e]) => e < a
    BY <1>4
  <2>3. a \in 1..Len(s) /\ i < a
    BY <1>1, <2>1, <2>2
  <2> QED
    BY <1>3, <2>1, <2>2, <2>3
<1>6. ASSUME NEW line \in ToSet(Events(s))
      PROVE  \E k \in 1..Len(s) : Last(line) = s[k]
  <2>1. IsEvent(line) /\ line \in ToSet(lines)
    BY <1>2 DEF TakesOut, ToSet
  <2>2. PICK k \in 1..Len(s) : line = lines[k]
    BY <1>2, <2>1 DEF ToSet
  <2> QED
    BY <1>4, <2>1, <2>2
<1> QED
  BY <1>2, <1>5, <1>6 DEF OfFile, TakesOut, s

\* A record in one chunk, on a line of its own.
Alone(s, i) == /\ s[i].kind = "whole"
               /\ i = 1 \/ EndsLine(s[i - 1])

\* Such a record is an event; an event that is not in two chunks is such a record.
LEMMA AloneIsEvent ==
  ASSUME NEW s \in Seq(Chunk), NEW i \in 1..Len(s), Alone(s, i)
  PROVE  <<s[i]>> \in ToSet(Events(s)) /\ IsEvent(<<s[i]>>)
<1> DEFINE lines == [n \in DOMAIN s |-> LineTo(s, n)]
<1>1. /\ lines \in Seq(Seq(Chunk)) /\ DOMAIN lines = 1..Len(s) /\ lines[i] = LineTo(s, i)
      /\ TakesOut(lines, Events(s)) /\ Len(s) \in Nat
  BY LinesType, LenProperties
<1> HIDE DEF lines
<1>2. PICK a \in 1..i : BeginsAt(s, i, a)
  BY LineBegins
<1>3. a = i
  <2>1. CASE i = 1
    BY <2>1
  <2>2. CASE i # 1
    <3>1. i - 1 \in 1..i - 1 /\ EndsLine(s[i - 1])
      BY <1>1, <2>2 DEF Alone
    <3>2. i - 1 < a
      BY <1>2, <3>1 DEF BeginsAt
    <3> QED
      BY <1>1, <3>2
  <2> QED
    BY <2>1, <2>2
<1>4. LineTo(s, i) = <<s[i]>>
  <2>1. i - a + 1 = 1 /\ 1 \in 1..1 /\ a + 1 - 1 = i
    BY <1>1, <1>3
  <2>2. /\ LineTo(s, i) \in Seq(Chunk) /\ Len(LineTo(s, i)) = 1 /\ LineTo(s, i)[1] = s[i]
    BY <1>2, <2>1 DEF BeginsAt
  <2> HIDE DEF LineTo
  <2> QED
    BY <2>2
<1>5. IsEvent(<<s[i]>>)
  BY DEF IsEvent, Alone
<1>6. <<s[i]>> \in ToSet(lines)
  BY <1>1, <1>4 DEF ToSet
<1> QED
  BY <1>1, <1>5, <1>6 DEF TakesOut

LEMMA EventIsAlone ==
  ASSUME NEW s \in Seq(Chunk), NEW line \in ToSet(Events(s)), Len(line) # 2
  PROVE  \E i \in 1..Len(s) : Alone(s, i) /\ line = <<s[i]>>
<1> DEFINE lines == [n \in DOMAIN s |-> LineTo(s, n)]
<1>1. /\ lines \in Seq(Seq(Chunk)) /\ DOMAIN lines = 1..Len(s)
      /\ \A i \in 1..Len(s) : lines[i] = LineTo(s, i)
      /\ TakesOut(lines, Events(s)) /\ Len(s) \in Nat
  BY LinesType, LenProperties
<1> HIDE DEF lines
<1>2. IsEvent(line) /\ line \in ToSet(lines)
  BY <1>1 DEF TakesOut, ToSet
<1>3. PICK i \in 1..Len(s) : line = LineTo(s, i)
  BY <1>1, <1>2 DEF ToSet
<1>4. PICK a \in 1..i : BeginsAt(s, i, a)
  BY LineBegins
<1>5. line \in Seq(Chunk) /\ Len(line) = i - a + 1 /\ Len(line) = 1 /\ line[1].kind = "whole"
  BY <1>2, <1>3, <1>4 DEF BeginsAt, IsEvent
<1>6. a = i
  <2>1. i - a + 1 = 1
    BY <1>5
  <2> HIDE DEF LineTo, BeginsAt
  <2>2. Len(s) \in Nat
    BY <1>1
  <2> QED
    BY <2>1, <2>2
<1>7. line[1] = s[i]
  <2>1. 1 \in 1..i - a + 1 /\ a + 1 - 1 = i
    BY <1>6
  <2> QED
    BY <1>3, <1>4, <2>1 DEF BeginsAt
<1>8. Alone(s, i)
  BY <1>4, <1>5, <1>6, <1>7 DEF BeginsAt, Alone
<1> QED
  BY <1>5, <1>7, <1>8

-----------------------------------------------------------------------------
(* The page: the invariant of what is shown.                               *)

\* The lines that the page shows, and those that the poll under way has read.
SoFar == ToSet(Shown) \union ToSet(batch)

\* Who polls, and where the follower is and will begin.
Polls ==
  /\ page \in {"blank", "loaded", "live", "failed"}
  /\ page # "live" => at = "idle" /\ reader = 0 /\ opening = AtEnd /\ sent = <<>>
  /\ page = "blank" => recent = <<>>
  /\ at \in {"idle", "open", "read", "stat", "ready", "failed"}
  /\ at \in {"read", "stat"} => reader # 0
  /\ at = "open" => reader = 0
  /\ at \in {"idle", "failed"} => batch = <<>>
  /\ reader \in 0..Len(content) /\ pos \in Nat /\ cursor \in Nat
  /\ opening \in {Begin, AtEnd}
  /\ reader # 0 => opening = Begin /\ cursor <= pos
  /\ errors \in Nat /\ lost \in BOOLEAN
  /\ recent \in Seq(Seq(Chunk)) /\ sent \in Seq(Seq(Chunk)) /\ batch \in Seq(Seq(Chunk))

\* Chunk c comes before all that is behind position p of file f, now and later:
\* it is one of the first p chunks; or the file was truncated since; or the file
\* came after c's.  (A poll that fails may have left p anywhere behind c.)
Past(files, now, c, f, p) ==
  \/ /\ c.file = f /\ p <= Len(files[f])
     /\ c.index \in 1..p /\ files[f][c.index] = c
  \/ /\ c.file = f /\ c.epoch < now
     /\ \A i \in 1..Len(files[f]) : c.epoch < files[f][i].epoch
  \/ c.file < f

\* What the follower reads next comes after chunk c.
GoesPast(c) ==
  /\ reader # 0 => Past(content, cuts, c, reader, pos)
  /\ reader = 0 => c.file <= Len(content)
  /\ reader = 0 /\ path # 0 /\ opening = AtEnd =>
       Past(content, cuts, c, path, Len(content[path]))
  /\ reader = 0 /\ path # 0 /\ opening = Begin => c.file < path

\* The inductive invariant of what is shown.
StreamInv ==
  /\ Files /\ Polls
  /\ \A i \in DOMAIN Shown : IsEvent(Shown[i])
  /\ InOrder(Shown) /\ InOrder(batch)
  /\ \A j \in DOMAIN batch : Ahead(Shown, batch[j])
  /\ \A line \in SoFar : IsEvent(line) => GoesPast(Last(line))

\* What is not shown.  The recent events are all that were in the file then, and
\* the stream has seen all up to where it is but for the gap.
Loaded ==
  /\ gap.file \in 1..Len(content) /\ gap.from \in 0..Len(content[gap.file])
  /\ \A i \in 1..gap.from :
       Alone(content[gap.file], i) => <<content[gap.file][i]>> \in ToSet(recent)
CaughtAll ==
  /\ cursor = pos /\ pos <= Len(content[reader])
  /\ \A i \in 1..pos : Alone(content[reader], i) =>
       \/ <<content[reader][i]>> \in SoFar
       \/ gap.file = reader /\ i \in gap.from + 1..gap.to

\* The inductive invariant of what is not shown.
GapInv ==
  /\ cuts = 0 /\ gap.file # 0 => Loaded
  /\ cuts = 0 /\ errors = 0 /\ ~lost /\ reader # 0 => CaughtAll

\* A record of file f among its first n chunks is shown or lies in the gap.
SeenTo(f, n) ==
  \A i \in 1..n : Alone(content[f], i) =>
    \/ <<content[f][i]>> \in SoFar
    \/ gap.file = f /\ i \in gap.from + 1..gap.to

\* All is seen of every file that was in it when the stream last found its end;
\* before its first open it has found none.
LookedInv ==
  /\ looked \in [1..MaxFiles -> Nat]
  /\ \A f \in 1..MaxFiles : looked[f] # 0 => f <= Len(content) /\ opening = Begin
  /\ cuts = 0 /\ errors = 0 /\ ~lost =>
       \A f \in 1..Len(content) : looked[f] <= Len(content[f]) /\ SeenTo(f, looked[f])

LEMMA StreamTypes ==
  ASSUME StreamInv
  PROVE  /\ Files /\ Polls /\ Len(content) \in Nat /\ path \in 0..Len(content)
         /\ path # 0 => path = Len(content) /\ path \in 1..Len(content)
         /\ reader \in 0..Len(content) /\ (reader # 0 => reader \in 1..Len(content))
         /\ pos \in Nat /\ cursor \in Nat /\ cuts \in Nat /\ errors \in Nat
         /\ batch \in Seq(Seq(Chunk)) /\ Shown \in Seq(Seq(Chunk))
<1>1. Files /\ Polls
  BY DEF StreamInv
<1>2. Len(content) \in Nat /\ path \in 0..Len(content) /\ cuts \in Nat
  BY <1>1, BoundsAssumption DEF Files
<1>3. path # 0 => path = Len(content)
  BY <1>1 DEF Files
<1>4. Shown \in Seq(Seq(Chunk))
  BY <1>1, ConcatProperties DEF Polls, Shown
<1> QED
  BY <1>1, <1>2, <1>3, <1>4 DEF Polls

LEMMA SoFarTypes ==
  ASSUME StreamInv, NEW line \in SoFar
  PROVE  line \in Seq(Chunk) /\ (IsEvent(line) => Last(line) \in Chunk /\ GoesPast(Last(line)))
<1>1. Shown \in Seq(Seq(Chunk)) /\ batch \in Seq(Seq(Chunk))
  BY StreamTypes
<1>2. line \in Seq(Chunk)
  <2>1. CASE line \in ToSet(Shown)
    <3>1. PICK i \in 1..Len(Shown) : line = Shown[i]
      BY <1>1, <2>1, LenProperties DEF ToSet
    <3> QED
      BY <1>1, <3>1, ElementOfSeq
  <2>2. CASE line \in ToSet(batch)
    <3>1. PICK i \in 1..Len(batch) : line = batch[i]
      BY <1>1, <2>2, LenProperties DEF ToSet
    <3> QED
      BY <1>1, <3>1, ElementOfSeq
  <2> QED
    BY <2>1, <2>2 DEF SoFar
<1> QED
  BY <1>2, EventShape DEF StreamInv

\* What the stream is past it is past after a step of the disk.
LEMMA PastMoves ==
  ASSUME Files, Files', Moves, NEW c \in Chunk, NEW f \in 1..Len(content),
         NEW p \in Nat, NEW q \in Nat,
         q = p \/ (p = Len(content[f]) /\ q = Len(content'[f])),
         Past(content, cuts, c, f, p)
  PROVE  Past(content', cuts', c, f, q)
<1>1. /\ c.epoch \in Nat /\ c.file \in Nat /\ cuts \in Nat /\ cuts' \in Nat /\ cuts <= cuts'
      /\ Len(content[f]) \in Nat
  <2>1. c.epoch \in Nat /\ c.file \in Nat
    BY BoundsAssumption DEF Chunk
  <2>2. cuts \in Nat /\ cuts' \in Nat
    BY BoundsAssumption DEF Files
  <2> QED
    BY <2>1, <2>2, FileTypes DEF Moves
<1>2. CASE c.file < f
  BY <1>2 DEF Past
<1>3. CASE content'[f] = <<>> /\ cuts < cuts' /\ ~(c.file < f)
  <2>1. c.file = f /\ c.epoch < cuts'
    <3>1. CASE /\ c.file = f /\ p <= Len(content[f])
               /\ c.index \in 1..p /\ content[f][c.index] = c
      <4>1. c.index \in 1..Len(content[f])
        BY <1>1, <3>1
      <4>2. c.epoch <= cuts
        BY <3>1, <4>1, FileTypes
      <4> QED
        BY <1>1, <1>3, <3>1, <4>2
    <3>2. CASE c.file = f /\ c.epoch < cuts
      BY <1>1, <1>3, <3>2
    <3> QED
      BY <1>3, <3>1, <3>2 DEF Past
  <2>2. 1..Len(content'[f]) = {}
    BY <1>3, EmptySeq
  <2> QED
    BY <2>1, <2>2 DEF Past
<1>4. CASE /\ Len(content[f]) <= Len(content'[f])
           /\ \A i \in 1..Len(content[f]) : content'[f][i] = content[f][i]
           /\ \A i \in Len(content[f]) + 1..Len(content'[f]) : content'[f][i].epoch = cuts
  <2>1. f \in 1..Len(content') /\ Len(content'[f]) \in Nat
    <3>1. f \in 1..Len(content')
      BY DEF Files, Moves
    <3>2. content'[f] \in Seq(Chunk)
      BY <3>1, ElementOfSeq DEF Files
    <3> QED
      BY <3>1, <3>2
  <2>2. CASE /\ c.file = f /\ p <= Len(content[f])
             /\ c.index \in 1..p /\ content[f][c.index] = c
    <3>1. c.index \in 1..q /\ q <= Len(content'[f]) /\ c.index \in 1..Len(content[f])
      <4>1. /\ Len(content[f]) <= Len(content'[f]) /\ p <= Len(content[f]) /\ c.index \in 1..p
            /\ q = p \/ (p = Len(content[f]) /\ q = Len(content'[f]))
        BY <1>4, <2>2
      <4>2. Len(content[f]) \in Nat /\ Len(content'[f]) \in Nat
        BY <1>1, <2>1
      <4>3. c.index \in 1..Len(content[f])
        BY <4>1, <4>2
      <4>4. p <= q /\ q <= Len(content'[f])
        BY <4>1, <4>2
      <4>5. c.index \in 1..q
        BY <4>1, <4>2, <4>4
      <4> QED
        BY <4>3, <4>4, <4>5
    <3> QED
      BY <1>4, <2>2, <3>1 DEF Past
  <2>3. CASE c.file = f /\ c.epoch < cuts /\ \A i \in 1..Len(content[f]) : c.epoch < content[f][i].epoch
    <3>1. \A i \in 1..Len(content'[f]) : c.epoch < content'[f][i].epoch
      <4> TAKE i \in 1..Len(content'[f])
      <4>1. i \in 1..Len(content[f]) \/ i \in Len(content[f]) + 1..Len(content'[f])
        BY <1>1, <2>1
      <4> QED
        BY <1>4, <2>3, <4>1
    <3>2. c.epoch < cuts'
      BY <1>1, <2>3
    <3> QED
      BY <2>3, <3>1, <3>2 DEF Past
  <2> QED
    BY <1>2, <2>2, <2>3 DEF Past
<1> QED
  BY <1>2, <1>3, <1>4 DEF Moves

\* What is behind the position comes after what the stream is past, which is
\* also past what it reads there.
LEMMA PastIsBefore ==
  ASSUME Files, NEW c \in Chunk, NEW f \in 1..Len(content), NEW p \in Nat,
         NEW i \in p + 1..Len(content[f]), Past(content, cuts, c, f, p)
  PROVE  Before(c, content[f][i]) /\ Past(content, cuts, c, f, i)
<1> DEFINE d == content[f][i]
<1>1. /\ c.epoch \in Nat /\ c.file \in Nat /\ Len(content[f]) \in Nat
      /\ i \in 1..Len(content[f]) /\ d.file = f /\ d.index = i /\ d.epoch \in Nat
  <2>1. c.epoch \in Nat /\ c.file \in Nat
    BY BoundsAssumption DEF Chunk
  <2>2. Len(content[f]) \in Nat /\ i \in 1..Len(content[f])
    BY FileTypes
  <2> QED
    BY <2>1, <2>2, FileTypes
<1> HIDE DEF d
<1>2. CASE c.file < f
  BY <1>1, <1>2 DEF Past, Before, d
<1>3. CASE c.file = f /\ c.epoch < cuts /\ \A n \in 1..Len(content[f]) : c.epoch < content[f][n].epoch
  <2>1. c.epoch < d.epoch
    BY <1>1, <1>3 DEF d
  <2>2. Before(c, d)
    BY <1>1, <1>3, <2>1 DEF Before
  <2> QED
    BY <1>3, <2>2 DEF Past, d
<1>4. CASE /\ c.file = f /\ p <= Len(content[f])
           /\ c.index \in 1..p /\ content[f][c.index] = c
  <2>1. c.index \in 1..i /\ c.index < i
    BY <1>1, <1>4
  <2>2. c.epoch <= d.epoch
    BY <1>1, <1>4, <2>1, FileTypes DEF d
  <2>3. Before(c, d)
    BY <1>1, <1>4, <2>1, <2>2 DEF Before
  <2>4. i <= Len(content[f])
    BY <1>1
  <2> QED
    BY <1>4, <2>1, <2>3, <2>4 DEF Past, d
<1> QED
  BY <1>2, <1>3, <1>4 DEF Past

\* What a step of the page has to keep that shows nothing new, and reads nothing
\* or only drops what it has read.
LEMMA ShowsNothing ==
  ASSUME StreamInv, UNCHANGED <<disk, recent, sent>>, Polls',
         batch' \in {batch, <<>>, Append(batch, <<>>)},
         ASSUME NEW c \in Chunk, GoesPast(c)
         PROVE  GoesPast(c)'
  PROVE  StreamInv'
<1>1. /\ Files /\ batch \in Seq(Seq(Chunk)) /\ Shown' = Shown
      /\ UNCHANGED <<content, path, target, midline, written, cuts>>
  BY StreamTypes DEF disk, Shown
<1>2. Files'
  BY <1>1 DEF Files, Kept
<1>3. InOrder(Shown)' /\ \A i \in DOMAIN Shown' : IsEvent(Shown'[i])
  BY <1>1 DEF StreamInv, InOrder
<1>4. /\ InOrder(batch)' /\ \A j \in DOMAIN batch' : Ahead(Shown, batch'[j])
      /\ \A line \in ToSet(batch') : IsEvent(line) => line \in ToSet(batch)
  <2>1. CASE batch' = batch
    BY <2>1 DEF StreamInv, InOrder
  <2>2. CASE batch' = <<>>
    BY <2>2 DEF InOrder, ToSet
  <2>3. CASE batch' = Append(batch, <<>>)
    <3>1. ~IsEvent(<<>>) /\ <<>> \in Seq(Chunk)
      BY EmptySeq DEF IsEvent
    <3>2. ToSet(batch') = ToSet(batch) \union {<<>>}
      <4> DEFINE x == <<>>
      <4>1. batch \in Seq(Seq(Chunk)) /\ x \in Seq(Chunk) /\ batch' = Append(batch, x)
        BY <1>1, <2>3, <3>1
      <4> HIDE DEF x
      <4>2. ToSet(batch') = ToSet(batch) \union {x}
        BY <4>1, ToSetAppend
      <4> QED
        BY <4>2 DEF x
    <3>3. InOrder(Append(batch, <<>>))
      BY <1>1, <3>1, InOrderAppend DEF StreamInv, Ahead
    <3>4. ASSUME NEW j \in DOMAIN batch'
          PROVE  Ahead(Shown, batch'[j])
      <4>1. CASE batch'[j] = <<>>
        BY <3>1, <4>1 DEF Ahead
      <4>2. CASE batch'[j] # <<>>
        <5>1. /\ Len(batch) \in Nat /\ DOMAIN batch = 1..Len(batch)
              /\ DOMAIN batch' = 1..Len(batch) + 1
              /\ \A i \in 1..Len(batch) : batch'[i] = batch[i]
              /\ batch'[Len(batch) + 1] = <<>>
          BY <1>1, <2>3, <3>1, LenProperties, AppendProperties
        <5>2. j \in DOMAIN batch /\ batch'[j] = batch[j]
          BY <4>2, <5>1
        <5> QED
          BY <5>2 DEF StreamInv
      <4> QED
        BY <4>1, <4>2
    <3>5. InOrder(batch)'
      BY <2>3, <3>3 DEF InOrder
    <3> QED
      BY <3>1, <3>2, <3>4, <3>5
  <2> QED
    BY <2>1, <2>2, <2>3
<1>5. \A j \in DOMAIN batch' : Ahead(Shown, batch[j])'
  BY <1>1, <1>4 DEF Ahead
<1>6. ASSUME NEW line \in SoFar', IsEvent(line)
      PROVE  GoesPast(Last(line))'
  <2>1. line \in SoFar
    BY <1>1, <1>4, <1>6 DEF SoFar
  <2> DEFINE c == Last(line)
  <2>2. c \in Chunk /\ GoesPast(c)
    BY <1>6, <2>1, SoFarTypes
  <2> HIDE DEF c
  <2>3. GoesPast(c)'
    BY <2>2
  <2> QED
    BY <2>3 DEF c
<1> QED
  BY <1>2, <1>3, <1>4, <1>5, <1>6 DEF StreamInv

LEMMA DiskShows ==
  ASSUME StreamInv, DiskStep, UNCHANGED <<follower, window, stream>>
  PROVE  StreamInv'
<1>1. /\ UNCHANGED <<at, reader, pos, cursor, opening, waiting, batch, errors>>
      /\ UNCHANGED <<page, recent, gap, sent, lost>> /\ Shown' = Shown /\ SoFar' = SoFar
  BY DEF follower, window, stream, Shown, SoFar
<1>2. /\ Files /\ Polls /\ Files' /\ Moves /\ Len(content) \in Nat /\ path \in 0..Len(content)
      /\ reader # 0 => reader \in 1..Len(content)
      /\ path # 0 => path \in 1..Len(content)
      /\ pos \in Nat
  BY StreamTypes, DiskMoves
<1>3. Len(content') \in Nat /\ Len(content) <= Len(content')
  BY <1>2 DEF Files, Moves
<1>4. Polls'
  <2>1. reader' \in 0..Len(content')
    BY <1>1, <1>2, <1>3 DEF Polls
  <2> QED
    BY <1>1, <1>2, <2>1 DEF Polls
<1>5. /\ InOrder(Shown)' /\ InOrder(batch)'
      /\ \A i \in DOMAIN Shown' : IsEvent(Shown'[i])
      /\ \A j \in DOMAIN batch' : Ahead(Shown, batch[j])'
  BY <1>1 DEF StreamInv, InOrder, Ahead
<1>6. ASSUME NEW c \in Chunk, GoesPast(c)
      PROVE  GoesPast(c)'
  <2>1. c.file \in Nat
    BY BoundsAssumption DEF Chunk
  <2>2. reader' # 0 => Past(content', cuts', c, reader', pos')
    BY <1>1, <1>2, <1>6, PastMoves DEF GoesPast
  <2>3. reader' = 0 => c.file <= Len(content')
    BY <1>1, <1>2, <1>3, <1>6, <2>1 DEF GoesPast
  <2>4. CASE path' = 0
    BY <2>2, <2>3, <2>4 DEF GoesPast
  <2>5. CASE path' = path /\ path # 0
    <3>1. ASSUME reader' = 0, opening' = AtEnd
          PROVE  Past(content', cuts', c, path', Len(content'[path']))
      <4>1. Past(content, cuts, c, path, Len(content[path]))
        BY <1>1, <1>6, <2>5, <3>1 DEF GoesPast
      <4>2. path' \in 1..Len(content') /\ Len(content[path]) \in Nat
        BY <1>2, <1>3, <2>5, FileTypes
      <4>3. Len(content'[path]) \in Nat
        <5>1. content'[path] \in Seq(Chunk)
          BY <1>2, <2>5, <4>2, ElementOfSeq DEF Files
        <5> QED
          BY <5>1
      <4> QED
        BY <1>2, <2>5, <4>1, <4>2, <4>3, PastMoves
    <3>2. reader' = 0 /\ opening' = Begin => c.file < path'
      BY <1>1, <1>6, <2>5 DEF GoesPast
    <3> QED
      BY <2>2, <2>3, <3>1, <3>2 DEF GoesPast
  <2>6. CASE path' > Len(content)
    <3>1. reader' = 0 => c.file < path'
      <4>1. path' \in Nat
        BY <1>2, <1>3 DEF Files
      <4> QED
        BY <1>1, <1>2, <1>6, <2>1, <2>6, <4>1 DEF GoesPast
    <3>2. reader' = 0 => Past(content', cuts', c, path', Len(content'[path']))
      BY <3>1 DEF Past
    <3> QED
      BY <2>2, <2>3, <3>1, <3>2 DEF GoesPast
  <2> QED
    BY <1>2, <2>4, <2>5, <2>6 DEF Moves
<1>7. ASSUME NEW line \in SoFar', IsEvent(line)
      PROVE  GoesPast(Last(line))'
  <2> DEFINE c == Last(line)
  <2>1. c \in Chunk /\ GoesPast(c)
    BY <1>1, <1>7, SoFarTypes
  <2> HIDE DEF c
  <2>2. GoesPast(c)'
    BY <1>6, <2>1
  <2> QED
    BY <2>2 DEF c
<1> QED
  BY <1>2, <1>4, <1>5, <1>7 DEF StreamInv

LEMMA FollowFacts ==
  ASSUME StreamInv, Follow
  PROVE  /\ Files /\ Polls /\ UNCHANGED <<disk, recent, sent, page, lost>> /\ page = "live"
         /\ UNCHANGED <<content, path, cuts>> /\ Poll /\ Skipped /\ EndFound
         /\ Len(content) \in Nat /\ path \in 0..Len(content)
         /\ path # 0 => path = Len(content) /\ path \in 1..Len(content)
         /\ reader # 0 => reader \in 1..Len(content) /\ opening = Begin
BY StreamTypes DEF Follow, disk, stream, Polls

LEMMA StreamStarts ==
  ASSUME StreamInv, Follow, StartPoll
  PROVE  StreamInv'
<1>1. /\ at = "idle" /\ at' = (IF reader = 0 THEN "open" ELSE "read") /\ batch' = <<>>
      /\ UNCHANGED <<reader, pos, cursor, opening, waiting, errors>>
  BY DEF StartPoll
<1>2. Polls'
  BY <1>1, FollowFacts, EmptySeq DEF Polls
<1>3. ASSUME NEW c \in Chunk, GoesPast(c)
      PROVE  GoesPast(c)'
  BY <1>1, <1>3, FollowFacts DEF GoesPast
<1> QED
  BY <1>1, <1>2, <1>3, FollowFacts, ShowsNothing

LEMMA StreamOpens ==
  ASSUME StreamInv, Follow, Open
  PROVE  StreamInv'
<1>1. /\ at = "open" /\ path # 0 /\ at' = "read" /\ reader' = path
      /\ cursor' = StartIn(path) /\ pos' = StartIn(path) /\ opening' = Begin /\ batch' = batch
      /\ errors' = errors
  BY DEF Open
<1>2. reader = 0 /\ path \in 1..Len(content) /\ opening \in {Begin, AtEnd}
  BY <1>1, FollowFacts DEF Polls
<1>3. Len(content[path]) \in Nat
  BY <1>2, FollowFacts, FileTypes
<1>4. StartIn(path) = IF opening = AtEnd THEN Len(content[path]) ELSE 0
  BY <1>2 DEF StartIn, Begin, AtEnd
<1>5. StartIn(path) \in Nat
  BY <1>3, <1>4
<1>6. Polls'
  BY <1>1, <1>2, <1>5, FollowFacts DEF Polls
<1>7. ASSUME NEW c \in Chunk, GoesPast(c)
      PROVE  GoesPast(c)'
  <2>1. Past(content, cuts, c, path, StartIn(path))
    <3>1. CASE opening = AtEnd
      BY <1>1, <1>2, <1>4, <1>7, <3>1 DEF GoesPast
    <3>2. CASE opening = Begin
      BY <1>1, <1>2, <1>7, <3>2 DEF GoesPast, Past
    <3> QED
      BY <1>2, <3>1, <3>2
  <2>2. Past(content', cuts', c, reader', pos') /\ reader' # 0
    BY <1>1, <2>1, FollowFacts
  <2> QED
    BY <2>2 DEF GoesPast
<1> QED
  BY <1>1, <1>6, <1>7, FollowFacts, ShowsNothing

LEMMA StreamMisses ==
  ASSUME StreamInv, Follow, OpenMissing \/ PathMissing
  PROVE  StreamInv'
<1>1. /\ at \in {"open", "stat"} /\ path = 0 /\ at' = "ready" /\ reader' = 0 /\ errors' = errors
      /\ batch' \in {batch, Append(batch, <<>>)} /\ pos' = pos /\ cursor' \in {cursor, 0}
      /\ opening' \in {opening, Begin}
  BY DEF OpenMissing, PathMissing, FileMissing
<1>2. Polls'
  <2>1. batch' \in Seq(Seq(Chunk))
    <3>1. <<>> \in Seq(Chunk) /\ batch \in Seq(Seq(Chunk))
      BY StreamTypes, EmptySeq
    <3>2. Append(batch, <<>>) \in Seq(Seq(Chunk))
      BY <3>1, AppendProperties
    <3> QED
      BY <1>1, <3>1, <3>2
  <2>2. opening' \in {Begin, AtEnd} /\ cursor' \in Nat /\ 0 \in 0..Len(content)
    BY <1>1, FollowFacts DEF Polls
  <2> QED
    BY <1>1, <2>1, <2>2, FollowFacts DEF Polls
<1>3. ASSUME NEW c \in Chunk, GoesPast(c)
      PROVE  GoesPast(c)'
  <2>1. c.file <= Len(content)
    <3>1. CASE reader = 0
      BY <1>3, <3>1 DEF GoesPast
    <3>2. CASE reader # 0
      <4>1. Past(content, cuts, c, reader, pos) /\ reader \in 1..Len(content)
        BY <1>3, <3>2, FollowFacts DEF GoesPast
      <4>2. c.file \in Nat /\ c.file <= reader
        BY <4>1, BoundsAssumption DEF Past, Chunk
      <4> QED
        BY <4>1, <4>2, FollowFacts
    <3> QED
      BY <3>1, <3>2
  <2> QED
    BY <1>1, <2>1, FollowFacts DEF GoesPast
<1> QED
  BY <1>1, <1>2, <1>3, FollowFacts, ShowsNothing

LEMMA StreamReadsNothing ==
  ASSUME StreamInv, Follow, ReadNothing
  PROVE  StreamInv'
<1>1. /\ at = "read" /\ at' = "stat" /\ batch' = batch
      /\ UNCHANGED <<reader, pos, cursor, opening, waiting, errors>>
  BY DEF ReadNothing
<1>2. Polls'
  BY <1>1, FollowFacts DEF Polls
<1>3. ASSUME NEW c \in Chunk, GoesPast(c)
      PROVE  GoesPast(c)'
  BY <1>1, <1>3, FollowFacts DEF GoesPast
<1> QED
  BY <1>1, <1>2, <1>3, FollowFacts, ShowsNothing

LEMMA StreamChecksPath ==
  ASSUME StreamInv, Follow, CheckPath
  PROVE  StreamInv'
<1>1. /\ at = "stat" /\ path # 0 /\ UNCHANGED <<opening, waiting, batch, errors>>
      /\ reader # 0 /\ reader \in 1..Len(content) /\ opening = Begin /\ cursor <= pos
      /\ path \in 1..Len(content) /\ path = Len(content) /\ cursor \in Nat /\ pos \in Nat
      /\ Len(content[path]) \in Nat
  <2>1. at = "stat" /\ path # 0 /\ UNCHANGED <<opening, waiting, batch, errors>>
    BY DEF CheckPath
  <2>2. reader # 0 /\ cursor <= pos /\ cursor \in Nat /\ pos \in Nat
    BY <2>1, FollowFacts DEF Polls
  <2> QED
    BY <2>1, <2>2, FollowFacts, FileTypes
<1>2. CASE path # reader /\ at' = "open" /\ reader' = 0 /\ cursor' = 0 /\ pos' = pos
  <2>1. Polls'
    BY <1>1, <1>2, FollowFacts DEF Polls
  <2>2. ASSUME NEW c \in Chunk, GoesPast(c)
        PROVE  GoesPast(c)'
    <3>1. Past(content, cuts, c, reader, pos) /\ c.file \in Nat
      BY <1>1, <2>2, BoundsAssumption DEF GoesPast, Chunk
    <3>2. c.file <= reader
      BY <1>1, <3>1 DEF Past
    <3>3. c.file < path /\ c.file <= Len(content)
      BY <1>1, <1>2, <3>1, <3>2, FollowFacts
    <3> QED
      BY <1>1, <1>2, <3>3, FollowFacts DEF GoesPast, Begin, AtEnd
  <2> QED
    BY <1>1, <2>1, <2>2, FollowFacts, ShowsNothing
<1>3. CASE /\ path = reader /\ Len(content[path]) < cursor
           /\ at' = "read" /\ cursor' = 0 /\ pos' = 0 /\ reader' = reader
  <2>1. Polls'
    <3>1. cursor' \in Nat /\ pos' \in Nat /\ cursor' <= pos' /\ at' = "read"
      BY <1>3
    <3>2. reader' \in 0..Len(content') /\ reader' # 0 /\ opening' = Begin /\ batch' = batch
      BY <1>1, <1>3, FollowFacts DEF Polls
    <3>3. errors' \in Nat /\ batch' \in Seq(Seq(Chunk)) /\ page' = "live"
      BY <1>1, FollowFacts DEF Polls
    <3> QED
      BY <3>1, <3>2, <3>3, FollowFacts DEF Polls
  <2>2. ASSUME NEW c \in Chunk, GoesPast(c)
        PROVE  GoesPast(c)'
    <3>1. Past(content, cuts, c, reader, pos)
      BY <1>1, <2>2 DEF GoesPast
    <3>2. ~(pos <= Len(content[reader]))
      BY <1>1, <1>3
    <3>3. Past(content, cuts, c, reader, 0)
      BY <3>1, <3>2 DEF Past
    <3> QED
      BY <1>1, <1>3, <3>3, FollowFacts DEF GoesPast
  <2> QED
    BY <1>1, <2>1, <2>2, FollowFacts, ShowsNothing
<1>4. CASE at' = "ready" /\ UNCHANGED <<reader, cursor, pos>>
  <2>1. Polls'
    BY <1>1, <1>4, FollowFacts DEF Polls
  <2>2. ASSUME NEW c \in Chunk, GoesPast(c)
        PROVE  GoesPast(c)'
    BY <1>1, <1>4, <2>2, FollowFacts DEF GoesPast
  <2> QED
    BY <1>1, <2>1, <2>2, FollowFacts, ShowsNothing
<1> QED
  BY <1>2, <1>3, <1>4 DEF CheckPath

\* The line that is read: what of it is in the file.
LEMMA LineRead ==
  ASSUME Files, reader \in 1..Len(content), pos \in Nat, pos < Len(content[reader])
  PROVE  /\ LineEnd \in pos + 1..Len(content[reader]) /\ LineEnd \in Nat
         /\ NextLine \in Seq(Chunk) /\ Len(NextLine) = LineEnd - pos
         /\ Head(NextLine) = content[reader][pos + 1]
         /\ Last(NextLine) = content[reader][LineEnd] /\ Last(NextLine) \in Chunk
<1> DEFINE e == LineEnd
           line == NextLine
<1>1. e \in pos + 1..Len(content[reader]) /\ Len(content[reader]) \in Nat
  BY LineEndInFile, FileTypes
<1>2. line = SubSeq(content[reader], pos + 1, e)
  BY DEF NextLine
<1> HIDE DEF e, line
<1>3. pos + 1 \in 1..Len(content[reader]) /\ e - (pos + 1) + 1 = e - pos /\ e \in Nat
  BY <1>1
<1>4. /\ line \in Seq(Chunk) /\ Len(line) = e - pos /\ line # <<>>
      /\ line[1] = content[reader][pos + 1] /\ line[Len(line)] = content[reader][e]
  BY <1>1, <1>2, <1>3, PieceIsChained
<1>5. Head(line) = line[1] /\ Last(line) = line[Len(line)]
  BY <1>4 DEF Last
<1>6. content[reader][e] \in Chunk
  BY <1>1, FileTypes
<1> QED
  BY <1>1, <1>3, <1>4, <1>5, <1>6 DEF e, line

LEMMA StreamReads ==
  ASSUME StreamInv, Follow, ReadLine
  PROVE  StreamInv'
<1>1. /\ at = "read" /\ pos < Len(content[reader]) /\ batch' = Append(batch, NextLine)
      /\ pos' = LineEnd /\ cursor' = cursor + (LineEnd - pos)
      /\ UNCHANGED <<at, reader, opening, waiting, errors>>
  BY DEF ReadLine
<1>2. /\ reader # 0 /\ reader \in 1..Len(content) /\ pos \in Nat /\ cursor \in Nat
      /\ cursor <= pos /\ Shown' = Shown /\ batch \in Seq(Seq(Chunk))
  BY <1>1, FollowFacts DEF Polls, Shown
<1> DEFINE f == reader
           e == LineEnd
           line == NextLine
           d == content[f][e]
<1>3. /\ e \in pos + 1..Len(content[f]) /\ e \in Nat /\ line \in Seq(Chunk)
      /\ Head(line) = content[f][pos + 1] /\ Last(line) = d /\ d \in Chunk
      /\ pos' = e /\ batch' = Append(batch, line) /\ cursor' = cursor + (e - pos)
      /\ Len(content[f]) \in Nat
  BY <1>1, <1>2, FollowFacts, LineRead, FileTypes
<1> HIDE DEF e, line, d
<1>4. ASSUME NEW c \in Chunk, Past(content, cuts, c, f, pos)
      PROVE  Before(c, Head(line)) /\ Past(content, cuts, c, f, e)
  <2>1. pos + 1 \in pos + 1..Len(content[f])
    BY <1>1, <1>2, <1>3
  <2> QED
    BY <1>2, <1>3, <1>4, <2>1, FollowFacts, PastIsBefore
<1>5. ASSUME NEW x \in SoFar, IsEvent(x)
      PROVE  Before(Last(x), Head(line)) /\ Past(content, cuts, Last(x), f, e)
  <2> DEFINE c == Last(x)
  <2>1. c \in Chunk /\ GoesPast(c)
    BY <1>5, SoFarTypes
  <2> HIDE DEF c
  <2>2. Past(content, cuts, c, f, pos)
    BY <1>2, <2>1 DEF GoesPast
  <2>3. Before(c, Head(line)) /\ Past(content, cuts, c, f, e)
    BY <1>4, <2>1, <2>2
  <2> QED
    BY <2>3 DEF c
<1>6. Past(content, cuts, Last(line), f, e)
  <2>1. e \in 1..Len(content[f]) /\ e \in 1..e /\ e <= Len(content[f])
    BY <1>2, <1>3
  <2>2. d.file = f /\ d.index = e
    BY <1>2, <2>1, FollowFacts, FileTypes DEF d
  <2> QED
    BY <1>3, <2>1, <2>2 DEF Past, d
<1>7. ToSet(batch') = ToSet(batch) \union {line} /\ batch' \in Seq(Seq(Chunk))
  BY <1>2, <1>3, ToSetAppend, AppendProperties
<1>8. Ahead(Shown, line) /\ Ahead(batch, line)
  <2>1. \A i \in DOMAIN Shown : Shown[i] \in SoFar
    BY DEF SoFar, ToSet
  <2>2. \A i \in DOMAIN batch : batch[i] \in SoFar
    BY DEF SoFar, ToSet
  <2> QED
    BY <1>5, <2>1, <2>2 DEF Ahead
<1>9. InOrder(batch)'
  <2>1. InOrder(Append(batch, line))
    BY <1>2, <1>3, <1>8, InOrderAppend DEF StreamInv
  <2> QED
    BY <1>3, <2>1 DEF InOrder
<1>10. \A j \in DOMAIN batch' : Ahead(Shown, batch'[j])
  <2> TAKE j \in DOMAIN batch'
  <2>1. batch'[j] \in ToSet(batch) \/ batch'[j] = line
    BY <1>7 DEF ToSet
  <2>2. CASE batch'[j] = line
    BY <1>8, <2>2
  <2>3. CASE batch'[j] \in ToSet(batch)
    BY <2>3 DEF StreamInv, ToSet
  <2> QED
    BY <2>1, <2>2, <2>3
<1>11. \A j \in DOMAIN batch' : Ahead(Shown, batch[j])'
  BY <1>2, <1>10 DEF Ahead
<1>12. InOrder(Shown)' /\ \A i \in DOMAIN Shown' : IsEvent(Shown'[i])
  BY <1>2 DEF StreamInv, InOrder
<1>13. ASSUME NEW x \in SoFar', IsEvent(x)
       PROVE  GoesPast(Last(x))'
  <2>1. x \in SoFar \/ x = line
    BY <1>2, <1>7 DEF SoFar
  <2>2. Past(content, cuts, Last(x), f, e)
    BY <1>5, <1>6, <1>13, <2>1
  <2> DEFINE c == Last(x)
  <2>3. Past(content, cuts, c, f, e)
    BY <2>2
  <2> HIDE DEF c
  <2>4. GoesPast(c)'
    BY <1>1, <1>2, <1>3, <2>3, FollowFacts DEF GoesPast
  <2> QED
    BY <2>4 DEF c
<1>14. Polls'
  <2>1. pos' \in Nat /\ cursor' \in Nat /\ cursor' <= pos'
    BY <1>2, <1>3
  <2> QED
    BY <1>1, <1>2, <1>7, <2>1, FollowFacts DEF Polls
<1>15. Files'
  BY FollowFacts, FilesStill DEF Follow
<1> QED
  BY <1>9, <1>11, <1>12, <1>13, <1>14, <1>15 DEF StreamInv

LEMMA StreamFails ==
  ASSUME StreamInv, Follow, CallFails \/ ReadFails
  PROVE  StreamInv'
<1>1. /\ errors' = errors + 1 /\ at' = "failed" /\ batch' = <<>>
      /\ UNCHANGED <<reader, opening, waiting, cursor>>
  BY DEF CallFails, ReadFails, Fail
<1>2. \/ pos' = pos
      \/ /\ reader \in 1..Len(content) /\ pos \in Nat /\ pos' = LineEnd
         /\ LineEnd \in pos + 1..Len(content[reader]) /\ LineEnd \in Nat
  <2>1. CASE CallFails
    BY <2>1 DEF CallFails
  <2>2. CASE ReadFails
    <3>1. at = "read" /\ pos < Len(content[reader]) /\ pos' = LineEnd
      BY <2>2 DEF ReadFails
    <3>2. reader \in 1..Len(content) /\ pos \in Nat
      BY <3>1, FollowFacts DEF Polls
    <3> QED
      BY <3>1, <3>2, FollowFacts, LineRead
  <2> QED
    BY <2>1, <2>2
<1>3. Polls'
  <2>1. pos' \in Nat /\ errors' \in Nat /\ (reader # 0 => cursor' <= pos')
    <3>1. pos \in Nat /\ cursor \in Nat /\ errors \in Nat /\ (reader # 0 => cursor <= pos)
      BY FollowFacts DEF Polls
    <3> QED
      BY <1>1, <1>2, <3>1
  <2>2. batch' \in Seq(Seq(Chunk))
    BY <1>1, EmptySeq
  <2> QED
    BY <1>1, <2>1, <2>2, FollowFacts DEF Polls
<1>4. ASSUME NEW c \in Chunk, GoesPast(c)
      PROVE  GoesPast(c)'
  <2>1. reader # 0 => Past(content, cuts, c, reader, pos')
    <3>1. CASE pos' = pos
      BY <1>4, <3>1 DEF GoesPast
    <3>2. CASE pos' # pos
      BY <1>2, <1>4, <3>2, FollowFacts, PastIsBefore DEF GoesPast
    <3> QED
      BY <3>1, <3>2
  <2> QED
    BY <1>1, <1>4, <2>1, FollowFacts DEF GoesPast
<1> QED
  BY <1>1, <1>3, <1>4, FollowFacts, ShowsNothing

\* What a file holds, or nothing if there is none.
LEMMA LoadedEvents ==
  ASSUME Files
  PROVE  LET s == IF path = 0 THEN <<>> ELSE content[path]
         IN  /\ s \in Seq(Chunk) /\ Events(s) \in Seq(Seq(Chunk)) /\ InOrder(Events(s))
             /\ \A i \in DOMAIN Events(s) : IsEvent(Events(s)[i])
             /\ \A line \in ToSet(Events(s)) :
                  /\ path \in 1..Len(content)
                  /\ \E k \in 1..Len(content[path]) : Last(line) = content[path][k]
<1>1. CASE path = 0
  <2> DEFINE s == <<>>
             lines == [i \in DOMAIN s |-> LineTo(s, i)]
             events == Events(s)
  <2>1. s \in Seq(Chunk) /\ Len(s) = 0
    BY EmptySeq
  <2> HIDE DEF s
  <2>2. DOMAIN lines = 1..Len(s) /\ TakesOut(lines, events)
    BY <2>1, LinesType
  <2>3. ToSet(lines) = {}
    <3>1. DOMAIN lines = {}
      BY <2>1, <2>2
    <3> HIDE DEF lines
    <3> QED
      BY <3>1 DEF ToSet
  <2> HIDE DEF lines, events
  <2>4. DOMAIN events = {} /\ events \in Seq(Seq(Chunk))
    BY <2>2, <2>3 DEF TakesOut
  <2>5. InOrder(events) /\ ToSet(events) = {}
    BY <2>4 DEF InOrder, ToSet
  <2> QED
    BY <1>1, <2>1, <2>4, <2>5 DEF events, s
<1>2. CASE path # 0
  <2>1. path \in 1..Len(content)
    BY <1>2, BoundsAssumption DEF Files
  <2>2. OfFile(Events(content[path]), path) /\ content[path] \in Seq(Chunk)
    BY <2>1, EventsOfFile, FileTypes
  <2> QED
    BY <1>2, <2>1, <2>2 DEF OfFile
<1> QED
  BY <1>1, <1>2

LEMMA PageLoads ==
  ASSUME StreamInv, LoadRecent
  PROVE  StreamInv'
<1> DEFINE s == IF path = 0 THEN <<>> ELSE content[path]
           events == Events(s)
<1>1. /\ page = "blank" /\ page' = "loaded" /\ recent' = events
      /\ UNCHANGED disk /\ UNCHANGED <<content, path, cuts, sent, lost>>
      /\ UNCHANGED <<at, reader, pos, cursor, opening, waiting, batch, errors>>
  BY DEF LoadRecent, disk, follower, stream
<1>2. /\ Files /\ Polls /\ reader = 0 /\ opening = AtEnd /\ sent = <<>> /\ batch = <<>>
      /\ path \in 0..Len(content) /\ Len(content) \in Nat
  BY <1>1, StreamTypes DEF Polls
<1>3. /\ events \in Seq(Seq(Chunk)) /\ InOrder(events)
      /\ \A i \in DOMAIN events : IsEvent(events[i])
      /\ \A line \in ToSet(events) :
           /\ path \in 1..Len(content)
           /\ \E k \in 1..Len(content[path]) : Last(line) = content[path][k]
  BY <1>2, LoadedEvents
<1> HIDE DEF events, s
<1>4. Shown' = events /\ SoFar' = ToSet(events)
  <2>1. Shown' = events
    BY <1>1, <1>2, <1>3, ConcatEmptySeq DEF Shown
  <2>2. ToSet(batch') = {}
    BY <1>1, <1>2 DEF ToSet
  <2> QED
    BY <2>1, <2>2 DEF SoFar
<1>5. InOrder(Shown)' /\ \A i \in DOMAIN Shown' : IsEvent(Shown'[i])
  BY <1>3, <1>4 DEF InOrder
<1>6. InOrder(batch)' /\ \A j \in DOMAIN batch' : Ahead(Shown, batch[j])'
  BY <1>1, <1>2 DEF InOrder
<1>7. ASSUME NEW line \in SoFar', IsEvent(line)
      PROVE  GoesPast(Last(line))'
  <2>1. path \in 1..Len(content)
    BY <1>3, <1>4
  <2>2. PICK k \in 1..Len(content[path]) : Last(line) = content[path][k]
    BY <1>3, <1>4
  <2> DEFINE c == Last(line)
  <2>3. /\ Len(content[path]) \in Nat /\ c.file = path /\ c.index = k /\ c = content[path][k]
    BY <1>2, <2>1, <2>2, FileTypes
  <2>4. Past(content, cuts, c, path, Len(content[path])) /\ c.file <= Len(content)
    BY <1>2, <2>1, <2>3 DEF Past
  <2> HIDE DEF c
  <2>5. opening' # Begin /\ reader' = 0
    <3>1. Begin.how # AtEnd.how
      BY DEF Begin, AtEnd
    <3> QED
      BY <1>1, <1>2, <3>1
  <2>6. GoesPast(c)'
    BY <1>1, <2>4, <2>5 DEF GoesPast
  <2> QED
    BY <2>6 DEF c
<1>8. Polls'
  BY <1>1, <1>2, <1>3 DEF Polls
<1>9. Files'
  BY <1>1, <1>2, FilesStill
<1> QED
  BY <1>5, <1>6, <1>7, <1>8, <1>9 DEF StreamInv

LEMMA PageGoesOn ==
  ASSUME StreamInv, LoadFails \/ Connect \/ SendError
  PROVE  StreamInv'
<1>1. /\ UNCHANGED disk /\ UNCHANGED <<content, path, cuts, recent, sent, lost>>
      /\ UNCHANGED <<reader, pos, cursor, opening, batch>>
      /\ errors' \in {errors, errors + 1} /\ Polls
  BY StreamTypes DEF LoadFails, Connect, SendError, disk, follower, stream, window
<1>2. page' \in {"loaded", "live", "failed", page} /\ at' \in {at, "idle"} /\ batch \in Seq(Seq(Chunk))
  BY StreamTypes DEF LoadFails, Connect, SendError, follower, window
<1>3. CASE LoadFails
  <2>1. page = "blank" /\ page' = "failed" /\ at' = at /\ errors' \in Nat
    BY <1>3, StreamTypes DEF LoadFails
  <2> QED
    <3>1. Polls'
      BY <1>1, <2>1 DEF Polls
    <3>2. ASSUME NEW c \in Chunk, GoesPast(c)
          PROVE  GoesPast(c)'
      BY <1>1, <3>2 DEF GoesPast
    <3> QED
      BY <1>1, <3>1, <3>2, ShowsNothing
<1>4. CASE Connect \/ SendError
  <2>1. Polls'
    <3>1. CASE Connect
      <4>1. page = "loaded" /\ page' = "live" /\ at' = at /\ errors' = errors
        BY <3>1 DEF Connect, follower
      <4> QED
        BY <1>1, <4>1 DEF Polls
    <3>2. CASE SendError
      <4>1. page' = page /\ at = "failed" /\ at' = "idle" /\ errors' = errors
        BY <3>2 DEF SendError, window
      <4> QED
        BY <1>1, <4>1 DEF Polls
    <3> QED
      BY <1>4, <3>1, <3>2
  <2>2. ASSUME NEW c \in Chunk, GoesPast(c)
        PROVE  GoesPast(c)'
    BY <1>1, <2>2 DEF GoesPast
  <2> QED
    BY <1>1, <2>1, <2>2, ShowsNothing
<1> QED
  BY <1>3, <1>4

\* What is sent of a poll: the first of its events.
LEMMA SentEvent ==
  ASSUME StreamInv, Send, OnlyEvents(batch) # <<>>
  PROVE  LET x == Head(OnlyEvents(batch))
         IN  /\ x \in ToSet(batch) /\ IsEvent(x) /\ x \in Seq(Chunk)
             /\ Shown' = Append(Shown, x)
<1> DEFINE events == OnlyEvents(batch)
           x == Head(events)
<1>1. /\ batch \in Seq(Seq(Chunk)) /\ recent \in Seq(Seq(Chunk)) /\ sent \in Seq(Seq(Chunk))
      /\ recent' = recent /\ sent' = Append(sent, x)
  <2>1. recent' = recent /\ sent' = Append(sent, x)
    BY DEF Send, window
  <2> QED
    BY <2>1, StreamTypes DEF Polls
<1>2. TakesOut(batch, events)
  BY <1>1, OnlyEventsAre
<1>3. events # <<>>
  OBVIOUS
<1> HIDE DEF events
<1>4. x = events[1] /\ 1 \in DOMAIN events /\ x \in Seq(Chunk)
  <2>1. events \in Seq(Seq(Chunk)) /\ Len(events) \in Nat /\ Len(events) # 0
    BY <1>2, <1>3, EmptySeq, LenProperties DEF TakesOut
  <2>2. x = events[1]
    BY <1>3, <2>1
  <2>3. 1 \in 1..Len(events) /\ DOMAIN events = 1..Len(events)
    BY <2>1, LenProperties
  <2> QED
    BY <2>1, <2>2, <2>3, ElementOfSeq
<1>5. x \in ToSet(batch) /\ IsEvent(x)
  BY <1>2, <1>4 DEF TakesOut
<1> HIDE DEF x
<1>6. Shown' = Append(Shown, x)
  <2>1. /\ Append(sent, x) = sent \o <<x>> /\ <<x>> \in Seq(Seq(Chunk))
        /\ Shown \in Seq(Seq(Chunk))
    BY <1>1, <1>4, AppendIsConcat, ConcatProperties DEF Shown
  <2>2. Regroups(recent, sent, <<x>>)
    BY <1>1, <2>1, Regrouped
  <2>3. Append(Shown, x) = Shown \o <<x>>
    BY <1>4, <2>1, AppendIsConcat
  <2> QED
    BY <1>1, <2>1, <2>2, <2>3 DEF Regroups, Shown
<1> QED
  BY <1>4, <1>5, <1>6 DEF x, events

LEMMA StreamSends ==
  ASSUME StreamInv, Send
  PROVE  StreamInv'
<1>1. /\ at = "ready" /\ at' = "idle" /\ batch' = <<>> /\ recent' = recent /\ page' = page
      /\ UNCHANGED disk /\ UNCHANGED <<content, path, cuts>>
      /\ UNCHANGED <<reader, pos, cursor, opening, waiting, errors>>
      /\ Files /\ Polls /\ page = "live"
  BY StreamTypes DEF Send, window, disk, Polls
<1>2. lost' \in BOOLEAN
  BY <1>1 DEF Send, Polls
<1>3. ASSUME NEW c \in Chunk, GoesPast(c)
      PROVE  GoesPast(c)'
  BY <1>1, <1>3 DEF GoesPast
<1>4. CASE OnlyEvents(batch) = <<>>
  <2>1. sent' = sent
    BY <1>4 DEF Send
  <2>2. Polls'
    BY <1>1, <1>2, <2>1, EmptySeq DEF Polls
  <2> QED
    BY <1>1, <1>3, <2>1, <2>2, ShowsNothing
<1>5. CASE OnlyEvents(batch) # <<>>
  <2> DEFINE x == Head(OnlyEvents(batch))
  <2>1. x \in ToSet(batch) /\ IsEvent(x) /\ x \in Seq(Chunk) /\ Shown' = Append(Shown, x)
    BY <1>5, SentEvent
  <2>2. sent' = Append(sent, x)
    BY <1>5 DEF Send
  <2> HIDE DEF x
  <2>3. Shown \in Seq(Seq(Chunk)) /\ sent \in Seq(Seq(Chunk)) /\ sent' \in Seq(Seq(Chunk))
    BY <2>1, <2>2, StreamTypes, AppendProperties DEF Polls
  <2>4. Polls'
    BY <1>1, <1>2, <2>3, EmptySeq DEF Polls
  <2>5. ToSet(Shown') = ToSet(Shown) \union {x}
    BY <2>1, <2>3, ToSetAppend
  <2>6. SoFar' \subseteq SoFar
    <3>1. ToSet(batch') = {}
      BY <1>1 DEF ToSet
    <3> QED
      BY <2>1, <2>5, <3>1 DEF SoFar
  <2>7. Ahead(Shown, x)
    BY <2>1 DEF StreamInv, ToSet
  <2>8. InOrder(Shown)'
    <3>1. InOrder(Append(Shown, x))
      BY <2>1, <2>3, <2>7, InOrderAppend DEF StreamInv
    <3> QED
      BY <2>1, <3>1 DEF InOrder
  <2>9. \A i \in DOMAIN Shown' : IsEvent(Shown'[i])
    <3> TAKE i \in DOMAIN Shown'
    <3>1. Shown'[i] \in ToSet(Shown) \/ Shown'[i] = x
      BY <2>5 DEF ToSet
    <3>2. CASE Shown'[i] \in ToSet(Shown)
      BY <3>2 DEF StreamInv, ToSet
    <3> QED
      BY <2>1, <3>1, <3>2
  <2>10. InOrder(batch)' /\ \A j \in DOMAIN batch' : Ahead(Shown, batch[j])'
    BY <1>1 DEF InOrder
  <2>11. ASSUME NEW line \in SoFar', IsEvent(line)
         PROVE  GoesPast(Last(line))'
    <3> DEFINE c == Last(line)
    <3>1. c \in Chunk /\ GoesPast(c)
      BY <2>6, <2>11, SoFarTypes
    <3> HIDE DEF c
    <3>2. GoesPast(c)'
      BY <1>3, <3>1
    <3> QED
      BY <3>2 DEF c
  <2>12. Files'
    BY <1>1, FilesStill
  <2> QED
    BY <2>4, <2>8, <2>9, <2>10, <2>11, <2>12 DEF StreamInv
<1> QED
  BY <1>4, <1>5

LEMMA StreamSteps ==
  ASSUME StreamInv, [Next]_vars
  PROVE  StreamInv'
<1>1. CASE DiskStep /\ UNCHANGED <<follower, window, stream>>
  BY <1>1, DiskShows
<1>2. CASE LoadRecent
  BY <1>2, PageLoads
<1>3. CASE LoadFails \/ Connect \/ SendError
  BY <1>3, PageGoesOn
<1>4. CASE Follow
  <2>1. Poll
    BY <1>4 DEF Follow
  <2> QED
    BY <1>4, <2>1, StreamStarts, StreamOpens, StreamMisses, StreamReads, StreamReadsNothing,
       StreamChecksPath, StreamFails DEF Poll
<1>5. CASE Send
  BY <1>5, StreamSends
<1>6. CASE UNCHANGED vars
  <2>1. UNCHANGED <<disk, follower, window, stream>>
    BY <1>6 DEF vars
  <2>2. Polls'
    BY <2>1, StreamTypes DEF Polls, disk, follower, window, stream
  <2>3. ASSUME NEW c \in Chunk, GoesPast(c)
        PROVE  GoesPast(c)'
    BY <2>1, <2>3 DEF GoesPast, disk, follower
  <2>4. UNCHANGED <<disk, recent, sent>> /\ batch' = batch
    BY <2>1 DEF follower, window, stream
  <2> QED
    BY <2>2, <2>3, <2>4, ShowsNothing
<1> QED
  BY <1>1, <1>2, <1>3, <1>4, <1>5, <1>6 DEF Next, Browse

LEMMA StreamBegins ==
  ASSUME StreamInit
  PROVE  StreamInv
<1>1. /\ content = <<>> /\ path = 0 /\ target = 0 /\ midline = FALSE /\ written = 0 /\ cuts = 0
      /\ at = "idle" /\ reader = 0 /\ pos = 0 /\ cursor = 0 /\ opening = AtEnd
      /\ batch = <<>> /\ errors = 0
      /\ page = "blank" /\ recent = <<>> /\ sent = <<>> /\ lost = FALSE
  BY DEF StreamInit, Init
<1>2. Files
  BY <1>1, NoFiles
<1>3. Polls
  <2>1. <<>> \in Seq(Seq(Chunk)) /\ 0 \in 0..Len(content)
    BY <1>1, EmptySeq
  <2> QED
    BY <1>1, <2>1 DEF Polls
<1>4. Shown = <<>> /\ SoFar = {}
  <2>1. Shown = <<>>
    BY <1>1, EmptySeq, ConcatEmptySeq DEF Shown
  <2> QED
    BY <1>1, <2>1 DEF SoFar, ToSet
<1> QED
  BY <1>1, <1>2, <1>3, <1>4 DEF StreamInv, InOrder

\* The inductive invariant of the page: what it shows and what the poll under
\* way has read is in the order of the log, and what the follower will read
\* next comes after all of it, after failed polls and truncations, too.
THEOREM StreamInvariance == Spec => []StreamInv
<1>1. StreamInit => StreamInv
  BY StreamBegins
<1>2. StreamInv /\ [Next]_vars => StreamInv'
  BY StreamSteps
<1> QED
  BY <1>1, <1>2, PTL DEF Spec

\* For any files, chunks, truncations and failed polls: the page shows records
\* only, and each of them comes after the one before it in the log.
THEOREM EventsShownInOrder == Spec => []ShownInOrder
<1>1. StreamInv => ShownInOrder
  <2> SUFFICES ASSUME StreamInv, NEW i \in 1..Len(Shown) - 1
               PROVE  Before(Last(Shown[i]), Head(Shown[i + 1]))
    BY DEF StreamInv, ShownInOrder
  <2>1. Len(Shown) \in Nat /\ DOMAIN Shown = 1..Len(Shown)
    BY StreamTypes, LenProperties
  <2>2. i \in DOMAIN Shown /\ i + 1 \in DOMAIN Shown /\ i < i + 1
    BY <2>1
  <2> QED
    BY <2>2 DEF StreamInv, InOrder
<1> QED
  BY <1>1, StreamInvariance, PTL

-----------------------------------------------------------------------------
(* The page: what is not shown.                                            *)

\* What has been seen of a file while nothing new is read: the follower is where
\* it was or nowhere, and no event is dropped.
LEMMA GapStays ==
  ASSUME StreamInv, GapInv, UNCHANGED <<content, cuts, recent, gap>>,
         ASSUME cuts = 0, errors' = 0, ~lost', reader' # 0, errors = 0 /\ ~lost /\ reader # 0 => CaughtAll
         PROVE  /\ errors = 0 /\ ~lost /\ reader' = reader /\ pos' = pos /\ cursor' = cursor
                /\ \A line \in SoFar : IsEvent(line) => line \in SoFar'
  PROVE  GapInv'
<1>1. cuts' = 0 /\ gap'.file # 0 => Loaded'
  BY DEF GapInv, Loaded, Alone
<1>2. ASSUME cuts' = 0, errors' = 0, ~lost', reader' # 0
      PROVE  CaughtAll'
  <2>1. /\ errors = 0 /\ ~lost /\ reader' = reader /\ pos' = pos /\ cursor' = cursor
        /\ \A line \in SoFar : IsEvent(line) => line \in SoFar'
    BY <1>2 DEF GapInv
  <2>2. CaughtAll
    BY <1>2, <2>1 DEF GapInv
  <2>3. ASSUME NEW i \in 1..pos, Alone(content[reader], i)
        PROVE  \/ <<content[reader][i]>> \in SoFar'
               \/ gap.file = reader /\ i \in gap.from + 1..gap.to
    <3>1. \/ <<content[reader][i]>> \in SoFar
          \/ gap.file = reader /\ i \in gap.from + 1..gap.to
      BY <2>2, <2>3 DEF CaughtAll
    <3>2. IsEvent(<<content[reader][i]>>)
      BY <2>3 DEF Alone, IsEvent
    <3> QED
      BY <2>1, <3>1, <3>2
  <2> QED
    BY <2>1, <2>2, <2>3 DEF CaughtAll
<1> QED
  BY <1>1, <1>2 DEF GapInv

\* A record on a line of its own stays one while its file grows.
LEMMA AloneStays ==
  ASSUME NEW s \in Seq(Chunk), NEW t, NEW i \in 1..Len(s), \A n \in 1..Len(s) : t[n] = s[n]
  PROVE  Alone(t, i) <=> Alone(s, i)
<1>1. Len(s) \in Nat
  BY LenProperties
<1>2. t[i] = s[i]
  OBVIOUS
<1>3. CASE i = 1
  BY <1>2, <1>3 DEF Alone
<1>4. CASE i # 1
  <2>1. i - 1 \in 1..Len(s)
    BY <1>1, <1>4
  <2>2. t[i - 1] = s[i - 1]
    BY <2>1
  <2> QED
    BY <1>2, <1>4, <2>2 DEF Alone
<1> QED
  BY <1>3, <1>4

LEMMA DiskMisses ==
  ASSUME StreamInv, GapInv, DiskStep, UNCHANGED <<follower, window, stream>>
  PROVE  GapInv'
<1>1. /\ UNCHANGED <<reader, pos, cursor, errors, recent, gap, lost>> /\ SoFar' = SoFar
  BY DEF follower, window, stream, Shown, SoFar
<1>2. /\ Files /\ Files' /\ Moves /\ Len(content) \in Nat /\ Len(content') \in Nat /\ pos \in Nat
      /\ Len(content) <= Len(content') /\ reader \in 0..Len(content)
      /\ cuts \in Nat /\ cuts' \in Nat /\ cuts <= cuts'
  <2>1. Files /\ Files' /\ Moves /\ Len(content) \in Nat /\ pos \in Nat /\ reader \in 0..Len(content)
    BY StreamTypes, DiskMoves
  <2>2. Len(content') \in Nat /\ cuts \in Nat /\ cuts' \in Nat
    BY <2>1, BoundsAssumption DEF Files
  <2> QED
    BY <2>1, <2>2 DEF Moves
<1>3. ASSUME cuts' = 0
      PROVE  /\ cuts = 0
             /\ \A f \in 1..Len(content) :
                  /\ f \in 1..Len(content') /\ Len(content'[f]) \in Nat
                  /\ content[f] \in Seq(Chunk) /\ Len(content[f]) <= Len(content'[f])
                  /\ \A i \in 1..Len(content[f]) : content'[f][i] = content[f][i]
                  /\ \A i \in 1..Len(content[f]) : Alone(content'[f], i) <=> Alone(content[f], i)
  <2>1. cuts = 0 /\ ~(cuts < cuts')
    BY <1>2, <1>3
  <2>2. ASSUME NEW f \in 1..Len(content)
        PROVE  /\ f \in 1..Len(content') /\ Len(content'[f]) \in Nat
               /\ content[f] \in Seq(Chunk) /\ Len(content[f]) <= Len(content'[f])
               /\ \A i \in 1..Len(content[f]) : content'[f][i] = content[f][i]
    <3>1. f \in 1..Len(content')
      BY <1>2
    <3>2. content'[f] \in Seq(Chunk)
      BY <1>2, <3>1, ElementOfSeq DEF Files
    <3>3. content[f] \in Seq(Chunk)
      BY <1>2, FileTypes
    <3> QED
      BY <1>2, <2>1, <3>1, <3>2, <3>3, LenProperties DEF Moves
  <2> QED
    BY <2>1, <2>2, AloneStays
<1>4. ASSUME cuts' = 0, gap'.file # 0
      PROVE  Loaded'
  <2> DEFINE f == gap.file
  <2>1. Loaded /\ f \in 1..Len(content)
    BY <1>1, <1>3, <1>4 DEF GapInv, Loaded
  <2>2. gap.from \in 0..Len(content'[f]) /\ \A i \in 1..gap.from : i \in 1..Len(content[f])
    <3>1. Len(content[f]) \in Nat
      BY <1>2, <2>1, FileTypes
    <3> QED
      BY <1>3, <1>4, <2>1, <3>1 DEF Loaded
  <2> QED
    BY <1>1, <1>3, <1>4, <2>1, <2>2 DEF Loaded
<1>5. ASSUME cuts' = 0, errors' = 0, ~lost', reader' # 0
      PROVE  CaughtAll'
  <2>1. CaughtAll /\ reader \in 1..Len(content)
    BY <1>1, <1>2, <1>3, <1>5 DEF GapInv
  <2>2. pos <= Len(content'[reader]) /\ \A i \in 1..pos : i \in 1..Len(content[reader])
    <3>1. Len(content[reader]) \in Nat
      BY <1>2, <2>1, FileTypes
    <3> QED
      BY <1>2, <1>3, <1>5, <2>1, <3>1 DEF CaughtAll
  <2> QED
    BY <1>1, <1>3, <1>5, <2>1, <2>2 DEF CaughtAll
<1> QED
  BY <1>4, <1>5 DEF GapInv

LEMMA LoadedAll ==
  ASSUME StreamInv, LoadRecent
  PROVE  GapInv'
<1>1. /\ recent' = Events(IF path = 0 THEN <<>> ELSE content[path])
      /\ gap' = [file |-> path, from |-> Len(IF path = 0 THEN <<>> ELSE content[path]), to |-> 0]
      /\ UNCHANGED <<content, cuts, reader>> /\ reader = 0
  BY StreamTypes DEF LoadRecent, disk, follower, Polls
<1>2. ASSUME gap'.file # 0
      PROVE  Loaded'
  <2>1. /\ path # 0 /\ recent' = Events(content[path])
        /\ gap'.file = path /\ gap'.from = Len(content[path])
    BY <1>1, <1>2
  <2>2. /\ path \in 1..Len(content) /\ content[path] \in Seq(Chunk)
        /\ Len(content[path]) \in Nat
    BY <2>1, StreamTypes, FileTypes
  <2>3. \A i \in 1..Len(content[path]) :
          Alone(content[path], i) => <<content[path][i]>> \in ToSet(Events(content[path]))
    BY <2>2, AloneIsEvent
  <2> QED
    BY <1>1, <2>1, <2>2, <2>3 DEF Loaded
<1> QED
  BY <1>1, <1>2 DEF GapInv

\* What was loaded is shown.
LEMMA ShownHolds ==
  ASSUME Polls
  PROVE  ToSet(recent) \subseteq ToSet(Shown)
<1>1. /\ recent \in Seq(Seq(Chunk)) /\ sent \in Seq(Seq(Chunk))
      /\ Len(recent) \in Nat /\ Len(sent) \in Nat
      /\ DOMAIN recent = 1..Len(recent) /\ DOMAIN Shown = 1..Len(recent) + Len(sent)
      /\ \A i \in 1..Len(recent) : Shown[i] = recent[i]
  BY ConcatProperties, LenProperties DEF Polls, Shown
<1> QED
  BY <1>1 DEF ToSet

LEMMA GapOpens ==
  ASSUME StreamInv, GapInv, Follow, Open
  PROVE  GapInv'
<1>1. /\ at = "open" /\ path # 0 /\ reader' = path
      /\ cursor' = StartIn(path) /\ pos' = StartIn(path) /\ batch' = batch
      /\ errors' = errors /\ SoFar' = SoFar
  BY FollowFacts DEF Open, SoFar, Shown
<1>2. /\ path \in 1..Len(content) /\ opening \in {Begin, AtEnd} /\ Len(content[path]) \in Nat
      /\ UNCHANGED <<content, path, cuts, recent, lost>> /\ Files
  <2>1. path \in 1..Len(content) /\ opening \in {Begin, AtEnd}
    BY <1>1, FollowFacts DEF Polls
  <2> QED
    BY <2>1, FollowFacts, FileTypes
<1>3. CASE opening = Begin
  <2>1. gap' = gap /\ StartIn(path) = 0
    BY <1>3, FollowFacts DEF Skipped, StartIn, Begin
  <2>2. cuts' = 0 /\ gap'.file # 0 => Loaded'
    BY <1>2, <2>1 DEF GapInv, Loaded, Alone
  <2>3. CaughtAll'
    <3>1. pos' = 0 /\ cursor' = 0 /\ pos' <= Len(content'[reader']) /\ 1..pos' = {}
      BY <1>1, <1>2, <2>1
    <3> QED
      BY <3>1 DEF CaughtAll
  <2> QED
    BY <2>2, <2>3 DEF GapInv
<1>4. CASE opening = AtEnd
  <2> DEFINE n == Len(content[path])
             from == IF gap.file = path THEN gap.from ELSE 0
  <2>1. opening.how = "end" /\ StartIn(path) = n /\ path # 0
    BY <1>1, <1>4 DEF StartIn, AtEnd
  <2>2. gap' = [file |-> path, to |-> n, from |-> from]
    BY <1>1, <2>1, FollowFacts DEF Skipped
  <2>3. gap'.file = path /\ gap'.to = n /\ gap'.from = from
    BY <2>2
  <2>4. ASSUME cuts = 0
        PROVE  /\ from \in 0..n
               /\ \A i \in 1..from : Alone(content[path], i) => <<content[path][i]>> \in ToSet(recent)
    <3>1. CASE gap.file = path
      BY <1>1, <2>4, <3>1 DEF GapInv, Loaded
    <3>2. CASE gap.file # path
      BY <1>2, <3>2
    <3> QED
      BY <3>1, <3>2
  <2> HIDE DEF from, n
  <2>5. cuts' = 0 => Loaded'
    BY <1>2, <2>3, <2>4 DEF Loaded, n
  <2>6. ASSUME cuts' = 0
        PROVE  CaughtAll'
    <3>1. cuts = 0 /\ from \in 0..n /\ n \in Nat
      BY <1>2, <2>4, <2>6 DEF n
    <3>2. ASSUME NEW i \in 1..n, Alone(content[path], i)
          PROVE  \/ <<content[path][i]>> \in SoFar
                 \/ i \in from + 1..n
      <4>1. CASE i <= from
        <5>1. <<content[path][i]>> \in ToSet(recent)
          BY <2>4, <3>1, <3>2, <4>1
        <5>2. ToSet(recent) \subseteq ToSet(Shown)
          BY FollowFacts, ShownHolds
        <5> QED
          BY <5>1, <5>2 DEF SoFar
      <4>2. CASE i > from
        BY <3>1, <4>2
      <4> QED
        BY <3>1, <4>1, <4>2
    <3>3. cursor' = n /\ pos' = n /\ n <= Len(content'[reader']) /\ reader' = path
      BY <1>1, <1>2, <2>1, <3>1 DEF n
    <3> QED
      BY <1>1, <1>2, <2>3, <3>2, <3>3 DEF CaughtAll
  <2> QED
    BY <2>5, <2>6 DEF GapInv
<1> QED
  BY <1>2, <1>3, <1>4

\* A line that is read holds no record on a line of its own but as all of it.
LEMMA GapReads ==
  ASSUME StreamInv, GapInv, Follow, ReadLine
  PROVE  GapInv'
<1> DEFINE s == content[reader]
           e == LineEnd
           line == NextLine
           S == {i \in (pos + 1)..Len(s) : EndsLine(s[i])} \union {Len(s)}
<1>1. /\ at = "read" /\ pos < Len(s) /\ batch' = Append(batch, line)
      /\ pos' = e /\ cursor' = cursor + (e - pos)
      /\ UNCHANGED <<reader, opening, errors>>
  BY DEF ReadLine
<1>2. /\ reader # 0 /\ reader \in 1..Len(content) /\ pos \in Nat /\ batch \in Seq(Seq(Chunk))
      /\ UNCHANGED <<content, cuts, recent, lost, Shown>> /\ opening = Begin
  BY <1>1, FollowFacts DEF Polls, Shown
<1>3. gap' = gap
  BY <1>1, <1>2, FollowFacts DEF Skipped, Begin
<1>4. /\ e \in pos + 1..Len(s) /\ e \in Nat /\ line \in Seq(Chunk) /\ Len(line) = e - pos
      /\ Head(line) = s[pos + 1] /\ s \in Seq(Chunk) /\ Len(s) \in Nat
  BY <1>1, <1>2, FollowFacts, LineRead, FileTypes
<1>5. \A i \in pos + 1..Len(s) : EndsLine(s[i]) => e <= i
  <2>1. S \subseteq Nat /\ S # {} /\ e = Min(S)
    BY <1>2, <1>4 DEF LineEnd
  <2>2. \A i \in S : e <= i
    <3> HIDE DEF S, e
    <3> QED
      BY <2>1, LeastMember
  <2> HIDE DEF e
  <2> QED
    BY <2>2
<1> HIDE DEF e, line, S
<1>6. ASSUME NEW i \in pos + 1..e, Alone(s, i)
      PROVE  line = <<s[i]>>
  <2>1. EndsLine(s[i]) /\ i \in pos + 1..Len(s)
    BY <1>2, <1>4, <1>6 DEF Alone, EndsLine
  <2>2. i = e
    <3>1. e <= i /\ e \in Nat /\ i \in pos + 1..e
      BY <1>4, <1>5, <2>1
    <3> QED
      BY <1>2, <3>1
  <2>3. i = pos + 1
    <3> SUFFICES ASSUME i # pos + 1
                 PROVE  FALSE
      OBVIOUS
    <3>1. i - 1 \in pos + 1..Len(s) /\ i # 1
      <4>1. i \in pos + 1..Len(s) /\ Len(s) \in Nat /\ pos \in Nat
        BY <1>2, <1>4, <2>1
      <4> HIDE DEF s
      <4> QED
        BY <4>1
    <3>2. EndsLine(s[i - 1])
      BY <1>6, <3>1 DEF Alone
    <3>3. e <= i - 1
      BY <1>5, <3>1, <3>2
    <3> QED
      BY <1>4, <2>2, <3>3
  <2>4. Len(line) = 1 /\ Head(line) = s[i]
    BY <1>2, <1>4, <2>2, <2>3
  <2>5. line[1] = s[i]
    BY <1>4, <2>4
  <2>6. line = <<line[1]>>
    <3>1. line \in Seq(Chunk) /\ Len(line) = 1
      BY <1>4, <2>4
    <3> QED
      BY <3>1
  <2> QED
    BY <2>5, <2>6
<1>7. SoFar \subseteq SoFar' /\ line \in SoFar'
  <2>1. ToSet(batch') = ToSet(batch) \union {line}
    BY <1>1, <1>2, <1>4, ToSetAppend
  <2> QED
    BY <1>2, <2>1 DEF SoFar
<1>8. cuts' = 0 /\ gap'.file # 0 => Loaded'
  BY <1>2, <1>3 DEF GapInv, Loaded, Alone
<1>9. ASSUME cuts' = 0, errors' = 0, ~lost', reader' # 0
      PROVE  CaughtAll'
  <2>1. CaughtAll
    BY <1>1, <1>2, <1>9 DEF GapInv
  <2>2. cursor' = e /\ pos' = e /\ e <= Len(s)
    BY <1>1, <1>2, <1>4, <2>1 DEF CaughtAll
  <2>3. ASSUME NEW i \in 1..e, Alone(s, i)
        PROVE  \/ <<s[i]>> \in SoFar'
               \/ gap.file = reader /\ i \in gap.from + 1..gap.to
    <3>1. CASE i <= pos
      BY <1>2, <1>7, <2>1, <2>3, <3>1 DEF CaughtAll
    <3>2. CASE i > pos
      <4>1. i \in pos + 1..e
        BY <1>2, <1>4, <3>2
      <4> QED
        BY <1>6, <1>7, <2>3, <4>1
    <3> QED
      BY <1>2, <1>4, <3>1, <3>2
  <2> QED
    BY <1>1, <1>2, <1>3, <2>2, <2>3 DEF CaughtAll
<1> QED
  BY <1>8, <1>9 DEF GapInv

\* The stream drops an event only if there are two in a poll.
LEMMA SendKeeps ==
  ASSUME StreamInv, Send, ~lost', NEW line \in SoFar, IsEvent(line)
  PROVE  ~lost /\ line \in SoFar'
<1>1. lost' = (lost \/ Len(OnlyEvents(batch)) > 1)
  BY DEF Send
<1>2. UNCHANGED recent
  BY DEF Send, window
<1>3. batch \in Seq(Seq(Chunk)) /\ Shown \in Seq(Seq(Chunk))
  BY StreamTypes
<1>4. ~lost /\ ~(Len(OnlyEvents(batch)) > 1)
  BY <1>1
<1>5. ToSet(Shown) \subseteq ToSet(Shown')
  <2>1. CASE OnlyEvents(batch) = <<>>
    <3>1. Shown' = Shown
      BY <2>1, <1>2 DEF Send, Shown
    <3> QED
      BY <3>1
  <2>2. CASE OnlyEvents(batch) # <<>>
    <3> DEFINE x == Head(OnlyEvents(batch))
    <3>1. x \in Seq(Chunk) /\ Shown' = Append(Shown, x)
      BY <2>2, SentEvent
    <3> HIDE DEF x
    <3> QED
      BY <1>3, <3>1, ToSetAppend
  <2> QED
    BY <2>1, <2>2
<1>6. CASE line \in ToSet(Shown)
  BY <1>4, <1>5, <1>6 DEF SoFar
<1>7. CASE line \in ToSet(batch)
  <2> DEFINE events == OnlyEvents(batch)
             x == Head(events)
  <2>1. events \in Seq(Seq(Chunk)) /\ line \in ToSet(events)
    BY <1>3, <1>7, OnlyEventsAre DEF TakesOut
  <2>2. Len(events) = 1 /\ line = events[1]
    <3>1. ~(Len(events) > 1)
      BY <1>4
    <3> HIDE DEF events
    <3>2. Len(events) \in Nat /\ DOMAIN events = 1..Len(events)
      BY <2>1, LenProperties
    <3>3. PICK i \in 1..Len(events) : line = events[i]
      BY <2>1, <3>2 DEF ToSet
    <3> QED
      BY <3>1, <3>2, <3>3
  <2>3. events # <<>> /\ line = x
    <3> HIDE DEF events
    <3>1. events # <<>>
      BY <2>2, EmptySeq
    <3> QED
      BY <2>1, <2>2, <3>1
  <2>4. Shown' = Append(Shown, x) /\ x \in Seq(Chunk)
    BY <2>3, SentEvent
  <2> HIDE DEF x
  <2>5. ToSet(Shown') = ToSet(Shown) \union {x}
    BY <1>3, <2>4, ToSetAppend
  <2> QED
    BY <1>4, <2>3, <2>5 DEF SoFar
<1> QED
  BY <1>6, <1>7 DEF SoFar

LEMMA GapSends ==
  ASSUME StreamInv, GapInv, Send
  PROVE  GapInv'
<1>1. /\ UNCHANGED <<content, cuts, recent, gap>> /\ UNCHANGED <<reader, pos, cursor, errors>>
      /\ lost' = (lost \/ Len(OnlyEvents(batch)) > 1)
  BY DEF Send, window, disk
<1>2. ASSUME ~lost'
      PROVE  ~lost /\ \A line \in SoFar : IsEvent(line) => line \in SoFar'
  BY <1>1, <1>2, SendKeeps
<1>3. /\ reader' = reader /\ pos' = pos /\ cursor' = cursor
      /\ errors' = 0 => errors = 0
  BY <1>1
<1> QED
  BY <1>1, <1>2, <1>3, GapStays

LEMMA GapRests ==
  ASSUME StreamInv, GapInv,
         \/ LoadFails \/ Connect \/ SendError \/ UNCHANGED vars
         \/ Follow /\ (StartPoll \/ ReadNothing \/ CheckPath \/ OpenMissing \/ PathMissing
                       \/ CallFails \/ ReadFails)
  PROVE  GapInv'
<1>1. CASE LoadFails \/ Connect \/ SendError \/ UNCHANGED vars
  <2>1. /\ UNCHANGED <<content, cuts, recent, gap>> /\ UNCHANGED <<reader, pos, cursor, lost>>
        /\ UNCHANGED <<batch, Shown>> /\ errors' \in {errors, errors + 1} /\ errors \in Nat
    BY <1>1, StreamTypes DEF LoadFails, Connect, SendError, vars, disk, follower, window, stream, Shown
  <2>2. SoFar' = SoFar /\ (errors' = 0 => errors = 0)
    BY <2>1 DEF SoFar
  <2> QED
    BY <2>1, <2>2, GapStays
<1>2. CASE Follow /\ (CallFails \/ ReadFails)
  <2>1. errors' # 0 /\ UNCHANGED <<content, cuts, recent, reader, opening>>
    BY <1>2, FollowFacts DEF Polls, CallFails, ReadFails, Fail
  <2>2. gap' = gap
    <3>1. CASE reader = 0
      BY <1>2, <2>1, <3>1, FollowFacts DEF Skipped
    <3>2. CASE reader # 0
      BY <1>2, <2>1, <3>2, FollowFacts DEF Skipped, Begin
    <3> QED
      BY <3>1, <3>2
  <2> QED
    BY <2>1, <2>2, GapStays
<1>3. CASE Follow /\ (OpenMissing \/ PathMissing)
  <2>1. reader' = 0 /\ UNCHANGED <<content, cuts, recent>>
    BY <1>3, FollowFacts DEF OpenMissing, PathMissing, FileMissing
  <2>2. gap' = gap
    BY <1>3, <2>1, FollowFacts DEF Skipped
  <2> QED
    BY <2>1, <2>2, GapStays
<1>4. CASE Follow /\ (StartPoll \/ ReadNothing)
  <2>1. /\ UNCHANGED <<content, cuts, recent, lost, Shown>>
        /\ UNCHANGED <<reader, pos, cursor, opening, errors>>
        /\ ToSet(batch') = ToSet(batch)
    <3>1. batch' = batch
      BY <1>4, FollowFacts DEF StartPoll, ReadNothing, Polls
    <3> QED
      BY <1>4, <3>1, FollowFacts DEF StartPoll, ReadNothing, Shown
  <2>2. gap' = gap
    <3>1. CASE reader = 0
      BY <1>4, <2>1, <3>1, FollowFacts DEF Skipped
    <3>2. CASE reader # 0
      BY <1>4, <2>1, <3>2, FollowFacts DEF Skipped, Begin
    <3> QED
      BY <3>1, <3>2
  <2>3. SoFar' = SoFar
    BY <2>1 DEF SoFar
  <2> QED
    BY <2>1, <2>2, <2>3, GapStays
<1>5. CASE Follow /\ CheckPath
  <2>1. /\ at = "stat" /\ path # 0 /\ UNCHANGED <<opening, batch, errors>>
        /\ UNCHANGED <<content, cuts, recent, lost, Shown>> /\ SoFar' = SoFar
        /\ reader \in 1..Len(content) /\ opening = Begin
    BY <1>5, FollowFacts DEF CheckPath, Shown, SoFar, Polls
  <2>2. gap' = gap
    BY <1>5, <2>1, FollowFacts DEF Skipped, Begin
  <2>3. \/ reader' = 0
        \/ path = reader /\ Len(content[path]) < cursor
        \/ UNCHANGED <<reader, cursor, pos>>
    BY <1>5 DEF CheckPath
  <2>4. ASSUME reader' # 0, CaughtAll
        PROVE  UNCHANGED <<reader, cursor, pos>>
    <3>1. Len(content[reader]) \in Nat /\ pos \in Nat
      BY <2>1, StreamTypes, FileTypes
    <3> QED
      BY <2>3, <2>4, <3>1 DEF CaughtAll
  <2>5. ASSUME errors' = 0, ~lost', reader' # 0,
               errors = 0 /\ ~lost /\ reader # 0 => CaughtAll
        PROVE  /\ errors = 0 /\ ~lost /\ UNCHANGED <<reader, cursor, pos>>
               /\ \A line \in SoFar : IsEvent(line) => line \in SoFar'
    <3>1. errors = 0 /\ ~lost /\ reader # 0
      BY <2>1, <2>5
    <3> QED
      BY <2>1, <2>4, <2>5, <3>1
  <2> QED
    BY <2>1, <2>2, <2>5, GapStays
<1> QED
  BY <1>1, <1>2, <1>3, <1>4, <1>5

LEMMA GapSteps ==
  ASSUME StreamInv, GapInv, [Next]_vars
  PROVE  GapInv'
<1>1. CASE DiskStep /\ UNCHANGED <<follower, window, stream>>
  BY <1>1, DiskMisses
<1>2. CASE LoadRecent
  BY <1>2, LoadedAll
<1>3. CASE Follow
  <2>1. Poll
    BY <1>3 DEF Follow
  <2> QED
    BY <1>3, <2>1, GapOpens, GapReads, GapRests DEF Poll
<1>4. CASE Send
  BY <1>4, GapSends
<1>5. CASE LoadFails \/ Connect \/ SendError \/ UNCHANGED vars
  BY <1>5, GapRests
<1> QED
  BY <1>1, <1>2, <1>3, <1>4, <1>5 DEF Next, Browse

\* While no file has been truncated, no poll has failed and no event has been
\* dropped, the recent events are all that their file held, and of the file
\* that the stream has open it has seen all up to where it is, but for the gap.
THEOREM GapInvariance == Spec => [](StreamInv /\ GapInv)
<1>1. StreamInit => StreamInv /\ GapInv
  <2>1. StreamInit => gap.file = 0 /\ reader = 0
    BY DEF StreamInit, Init
  <2> QED
    BY <2>1, StreamBegins DEF GapInv
<1>2. StreamInv /\ GapInv /\ [Next]_vars => (StreamInv /\ GapInv)'
  BY StreamSteps, GapSteps
<1> QED
  BY <1>1, <1>2, PTL DEF Spec

-----------------------------------------------------------------------------
(* The page: what is not shown of any file.                                *)

\* What has been seen stays seen while the files stay and no event is dropped.
LEMMA LookedStays ==
  ASSUME StreamInv, LookedInv, UNCHANGED <<content, cuts, gap, looked>>,
         opening' = opening \/ opening' = Begin,
         ASSUME cuts = 0, errors' = 0, ~lost'
         PROVE  errors = 0 /\ ~lost /\ \A line \in SoFar : IsEvent(line) => line \in SoFar'
  PROVE  LookedInv'
<1>1. ASSUME cuts' = 0, errors' = 0, ~lost', NEW f \in 1..Len(content)
      PROVE  looked[f] <= Len(content[f]) /\ SeenTo(f, looked[f])'
  <2>1. /\ errors = 0 /\ ~lost /\ cuts = 0
        /\ \A line \in SoFar : IsEvent(line) => line \in SoFar'
    BY <1>1
  <2>2. looked[f] <= Len(content[f]) /\ SeenTo(f, looked[f])
    BY <1>1, <2>1 DEF LookedInv
  <2>3. ASSUME NEW i \in 1..looked[f], Alone(content[f], i)
        PROVE  \/ <<content[f][i]>> \in SoFar'
               \/ gap.file = f /\ i \in gap.from + 1..gap.to
    <3>1. \/ <<content[f][i]>> \in SoFar
          \/ gap.file = f /\ i \in gap.from + 1..gap.to
      BY <2>2, <2>3 DEF SeenTo
    <3>2. IsEvent(<<content[f][i]>>)
      BY <2>3 DEF Alone, IsEvent
    <3> QED
      BY <2>1, <3>1, <3>2
  <2> QED
    BY <2>2, <2>3 DEF SeenTo
<1>2. looked' \in [1..MaxFiles -> Nat]
  BY DEF LookedInv
<1>3. \A f \in 1..MaxFiles : looked'[f] # 0 => f <= Len(content') /\ opening' = Begin
  BY DEF LookedInv
<1> QED
  BY <1>1, <1>2, <1>3 DEF LookedInv

\* Before the first open nothing has been looked at, whatever the gap becomes.
LEMMA LookedNothing ==
  ASSUME StreamInv, LookedInv, UNCHANGED <<content, looked>>, opening = AtEnd
  PROVE  LookedInv'
<1>1. /\ looked \in [1..MaxFiles -> Nat] /\ Files /\ Len(content) \in Nat
      /\ Len(content) <= MaxFiles /\ MaxFiles \in Nat
  BY StreamTypes, BoundsAssumption DEF LookedInv, Files
<1>2. \A f \in 1..MaxFiles : looked[f] = 0
  BY DEF LookedInv, Begin, AtEnd
<1>3. ASSUME NEW f \in 1..Len(content)
      PROVE  looked[f] = 0 /\ Len(content[f]) \in Nat
  BY <1>1, <1>2, <1>3, FileTypes
<1>4. \A f \in 1..Len(content) : looked'[f] <= Len(content'[f]) /\ SeenTo(f, looked[f])'
  <2> SUFFICES ASSUME NEW f \in 1..Len(content)
               PROVE  looked'[f] <= Len(content'[f]) /\ SeenTo(f, looked[f])'
    OBVIOUS
  <2>1. looked'[f] = 0 /\ 0 <= Len(content'[f]) /\ 1..looked'[f] = {}
    BY <1>3
  <2> QED
    BY <2>1 DEF SeenTo
<1> QED
  BY <1>1, <1>2, <1>4 DEF LookedInv

LEMMA LookedDisk ==
  ASSUME StreamInv, LookedInv, DiskStep, UNCHANGED <<follower, window, stream>>
  PROVE  LookedInv'
<1>1. /\ UNCHANGED <<errors, opening, gap, looked, lost>> /\ SoFar' = SoFar
  BY DEF follower, window, stream, Shown, SoFar
<1>2. /\ Files /\ Files' /\ Moves /\ Len(content) \in Nat /\ Len(content') \in Nat
      /\ Len(content) <= Len(content') /\ Len(content') <= MaxFiles
      /\ cuts \in Nat /\ cuts' \in Nat /\ cuts <= cuts'
  <2>1. Files /\ Files' /\ Moves /\ Len(content) \in Nat
    BY StreamTypes, DiskMoves
  <2>2. Len(content') \in Nat /\ cuts \in Nat /\ cuts' \in Nat /\ Len(content') <= MaxFiles
    BY <2>1, BoundsAssumption DEF Files
  <2> QED
    BY <2>1, <2>2 DEF Moves
<1>3. ASSUME cuts' = 0, errors' = 0, ~lost', NEW f \in 1..Len(content')
      PROVE  looked[f] <= Len(content'[f]) /\ SeenTo(f, looked[f])'
  <2>1. /\ cuts = 0 /\ ~(cuts < cuts') /\ errors = 0 /\ ~lost
        /\ content'[f] \in Seq(Chunk) /\ Len(content'[f]) \in Nat
        /\ looked[f] \in Nat /\ f \in 1..MaxFiles
    <3>1. content'[f] \in Seq(Chunk)
      BY <1>2, <1>3, ElementOfSeq DEF Files
    <3>2. f \in 1..MaxFiles /\ MaxFiles \in Nat
      BY <1>2, <1>3, BoundsAssumption
    <3> QED
      BY <1>1, <1>2, <1>3, <3>1, <3>2, LenProperties DEF LookedInv
  <2>2. CASE f > Len(content)
    <3>1. looked[f] = 0
      BY <1>2, <2>1, <2>2 DEF LookedInv
    <3>2. 1..looked'[f] = {} /\ looked[f] <= Len(content'[f])
      BY <1>1, <2>1, <3>1
    <3> QED
      BY <1>1, <3>2 DEF SeenTo
  <2>3. CASE f <= Len(content)
    <3>1. /\ f \in 1..Len(content) /\ content[f] \in Seq(Chunk) /\ Len(content[f]) \in Nat
          /\ looked[f] <= Len(content[f]) /\ SeenTo(f, looked[f])
      <4>1. f \in 1..Len(content)
        BY <1>2, <1>3, <2>3
      <4> QED
        BY <1>2, <2>1, <4>1, FileTypes DEF LookedInv
    <3>2. /\ Len(content[f]) <= Len(content'[f])
          /\ \A i \in 1..Len(content[f]) : content'[f][i] = content[f][i]
      BY <2>1, <3>1, <1>2 DEF Moves
    <3>3. ASSUME NEW i \in 1..looked[f], Alone(content'[f], i)
          PROVE  \/ <<content'[f][i]>> \in SoFar'
                 \/ gap'.file = f /\ i \in gap'.from + 1..gap'.to
      <4>1. i \in 1..Len(content[f])
        BY <2>1, <3>1
      <4>2. Alone(content[f], i)
        BY <3>1, <3>2, <3>3, <4>1, AloneStays
      <4> QED
        BY <1>1, <3>1, <3>2, <4>1, <4>2 DEF SeenTo
    <3> QED
      BY <1>1, <2>1, <3>1, <3>2, <3>3 DEF SeenTo
  <2> QED
    BY <1>2, <2>2, <2>3
<1>4. looked' \in [1..MaxFiles -> Nat]
  BY <1>1 DEF LookedInv
<1>5. \A f \in 1..MaxFiles : looked'[f] # 0 => f <= Len(content') /\ opening' = Begin
  BY <1>1, <1>2 DEF LookedInv
<1> QED
  BY <1>1, <1>3, <1>4, <1>5 DEF LookedInv

\* What the end of the file is found at has been read, chunk by chunk.
LEMMA LookedEnd ==
  ASSUME StreamInv, GapInv, LookedInv, Follow, ReadNothing
  PROVE  LookedInv'
<1>1. /\ at = "read" /\ at' = "stat" /\ pos >= Len(content[reader])
      /\ UNCHANGED <<reader, pos, cursor, opening, batch, errors>>
  BY DEF ReadNothing
<1>2. /\ UNCHANGED <<content, cuts, lost, Shown>> /\ SoFar' = SoFar /\ pos \in Nat
      /\ reader \in 1..Len(content) /\ opening = Begin /\ Files
      /\ Len(content) \in Nat /\ Len(content) <= MaxFiles /\ MaxFiles \in Nat
  BY <1>1, FollowFacts, BoundsAssumption DEF Polls, Shown, SoFar, Files
<1>3. gap' = gap
  BY <1>1, <1>2, FollowFacts DEF Skipped, Begin
<1>4. Len(content[reader]) \in Nat
  BY <1>2, FileTypes
<1>5. /\ looked \in [1..MaxFiles -> Nat] /\ reader \in 1..MaxFiles
      /\ looked' = [looked EXCEPT ![reader] = Len(content[reader])]
  BY <1>1, <1>2, FollowFacts DEF EndFound, LookedInv
<1>6. /\ looked'[reader] = Len(content[reader])
      /\ \A f \in 1..MaxFiles : f # reader => looked'[f] = looked[f]
      /\ looked' \in [1..MaxFiles -> Nat]
  BY <1>4, <1>5
<1>7. ASSUME cuts' = 0, errors' = 0, ~lost', NEW f \in 1..Len(content)
      PROVE  looked'[f] <= Len(content[f]) /\ SeenTo(f, looked[f])'
  <2>1. cuts = 0 /\ errors = 0 /\ ~lost /\ reader # 0
    BY <1>1, <1>2, <1>7
  <2>2. CASE f = reader
    <3>1. CaughtAll /\ pos = Len(content[reader])
      BY <1>1, <1>2, <1>4, <2>1 DEF GapInv, CaughtAll
    <3>2. looked'[f] = pos /\ pos <= Len(content[f])
      BY <1>2, <1>6, <2>2, <3>1
    <3> QED
      BY <1>2, <1>3, <2>2, <3>1, <3>2 DEF SeenTo, CaughtAll, Alone
  <2>3. CASE f # reader
    <3>1. looked'[f] = looked[f]
      BY <1>2, <1>6, <1>7, <2>3
    <3> QED
      BY <1>2, <1>3, <1>7, <2>1, <3>1 DEF LookedInv, SeenTo, Alone
  <2> QED
    BY <2>2, <2>3
<1>8. \A f \in 1..MaxFiles : looked'[f] # 0 => f <= Len(content') /\ opening' = Begin
  BY <1>1, <1>2, <1>6 DEF LookedInv
<1> QED
  BY <1>2, <1>6, <1>7, <1>8 DEF LookedInv

\* Any other step of a poll looks for no end, and forgets no line.
LEMMA LookedFollows ==
  ASSUME StreamInv, LookedInv, Follow,
         StartPoll \/ Open \/ OpenMissing \/ ReadLine \/ CheckPath \/ PathMissing
         \/ CallFails \/ ReadFails
  PROVE  LookedInv'
<1>1. /\ UNCHANGED <<content, cuts, lost, Shown>> /\ opening \in {Begin, AtEnd}
      /\ batch \in Seq(Seq(Chunk))
  BY FollowFacts DEF Shown, Polls
<1>2. looked' = looked
  BY FollowFacts DEF EndFound, StartPoll, Open, OpenMissing, FileMissing, ReadLine, CheckPath,
                     PathMissing, CallFails, ReadFails, Fail
<1>3. CASE opening = AtEnd
  BY <1>1, <1>2, <1>3, LookedNothing
<1>4. CASE opening = Begin
  <2>1. gap' = gap
    BY <1>4, FollowFacts DEF Skipped, Begin
  <2>2. opening' = opening \/ opening' = Begin
    BY DEF StartPoll, Open, OpenMissing, ReadLine, CheckPath, PathMissing, CallFails, ReadFails, Fail
  <2>3. CASE CallFails \/ ReadFails
    <3>1. errors \in Nat /\ errors' = errors + 1
      BY <2>3, StreamTypes DEF CallFails, ReadFails, Fail
    <3>2. errors' # 0
      BY <3>1
    <3> QED
      BY <1>1, <1>2, <2>1, <2>2, <3>2, LookedStays
  <2>4. CASE StartPoll \/ Open \/ OpenMissing \/ ReadLine \/ CheckPath \/ PathMissing
    <3>1. errors' = errors
      BY <2>4 DEF StartPoll, Open, OpenMissing, ReadLine, CheckPath, PathMissing
    <3>2. ToSet(batch) \subseteq ToSet(batch')
      <4>1. CASE StartPoll \/ Open \/ CheckPath
        <5>1. batch' = batch
          BY <4>1, FollowFacts DEF StartPoll, Open, CheckPath, Polls
        <5> QED
          BY <5>1
      <4>2. CASE OpenMissing \/ PathMissing
        <5>1. /\ batch' = batch \/ batch' = Append(batch, <<>>)
              /\ <<>> \in Seq(Chunk)
          BY <4>2, EmptySeq DEF OpenMissing, PathMissing, FileMissing
        <5>2. CASE batch' = Append(batch, <<>>)
          <6> DEFINE none == <<>>
          <6>1. none \in Seq(Chunk) /\ batch' = Append(batch, none)
            BY <5>1, <5>2
          <6> HIDE DEF none
          <6>2. ToSet(batch') = ToSet(batch) \union {none}
            BY <1>1, <6>1, ToSetAppend
          <6> QED
            BY <6>2
        <5> QED
          BY <5>1, <5>2
      <4>3. CASE ReadLine
        <5> DEFINE line == NextLine
        <5>1. batch' = Append(batch, line) /\ line \in Seq(Chunk)
          <6>1. at = "read" /\ reader # 0 /\ pos < Len(content[reader])
            BY <4>3, FollowFacts DEF ReadLine, Polls
          <6> QED
            BY <4>3, <6>1, FollowFacts, LineRead DEF ReadLine, Polls
        <5> HIDE DEF line
        <5>2. ToSet(batch') = ToSet(batch) \union {line}
          BY <1>1, <5>1, ToSetAppend
        <5> QED
          BY <5>2
      <4> QED
        BY <2>4, <4>1, <4>2, <4>3
    <3>3. SoFar \subseteq SoFar'
      BY <1>1, <3>2 DEF SoFar
    <3> QED
      BY <1>1, <1>2, <2>1, <2>2, <3>1, <3>3, LookedStays
  <2> QED
    BY <2>3, <2>4
<1> QED
  BY <1>1, <1>3, <1>4

LEMMA LookedSteps ==
  ASSUME StreamInv, GapInv, LookedInv, [Next]_vars
  PROVE  LookedInv'
<1>1. CASE DiskStep /\ UNCHANGED <<follower, window, stream>>
  BY <1>1, LookedDisk
<1>2. CASE LoadRecent
  <2>1. UNCHANGED <<content, looked>> /\ opening = AtEnd
    BY <1>2, StreamTypes DEF LoadRecent, disk, Polls
  <2> QED
    BY <2>1, LookedNothing
<1>3. CASE Follow
  <2>1. Poll
    BY <1>3 DEF Follow
  <2> QED
    BY <1>3, <2>1, LookedEnd, LookedFollows DEF Poll
<1>4. CASE Send
  <2>1. UNCHANGED <<content, cuts, gap, looked>> /\ UNCHANGED <<opening, errors>>
    BY <1>4 DEF Send, window, disk
  <2>2. ASSUME ~lost'
        PROVE  ~lost /\ \A line \in SoFar : IsEvent(line) => line \in SoFar'
    <3>1. ~lost
      BY <1>4, <2>2 DEF Send
    <3> QED
      BY <1>4, <2>2, <3>1, SendKeeps
  <2> QED
    BY <2>1, <2>2, LookedStays
<1>5. CASE LoadFails \/ Connect \/ SendError \/ UNCHANGED vars
  <2>1. /\ UNCHANGED <<content, cuts, gap, looked>> /\ UNCHANGED <<opening, lost, batch, Shown>>
        /\ errors' \in {errors, errors + 1} /\ errors \in Nat
    BY <1>5, StreamTypes DEF LoadFails, Connect, SendError, vars, disk, follower, window, stream, Shown
  <2>2. SoFar' = SoFar /\ (errors' = 0 => errors = 0)
    BY <2>1 DEF SoFar
  <2> QED
    BY <2>1, <2>2, LookedStays
<1> QED
  BY <1>1, <1>2, <1>3, <1>4, <1>5 DEF Next, Browse

\* For any files and any order of the daemon's, the operator's and the page's
\* steps: of what a file held when the stream last found its end, be it the file
\* that is followed or one replaced since, each record on a line of its own is
\* shown, or came between the recent events and the opening of the stream.  (The
\* rest of a replaced file, behind that last look, it does not speak of.)
THEOREM OnlyTheGapMissed == Spec => []OnlyGapMissed
<1>1. StreamInv /\ LookedInv => OnlyGapMissed
  <2> SUFFICES ASSUME StreamInv, LookedInv, at = "idle", cuts = 0, errors = 0, ~lost,
                      NEW f \in DOMAIN content,
                      NEW line \in ToSet(Events(SubSeq(content[f], 1, looked[f]))), Len(line) # 2
               PROVE  \/ line \in ToSet(Shown)
                      \/ gap.file = f /\ line[1].index \in gap.from + 1..gap.to
    BY DEF OnlyGapMissed
  <2> DEFINE s == content[f]
             n == looked[f]
             t == SubSeq(s, 1, n)
  <2>1. /\ f \in 1..Len(content) /\ s \in Seq(Chunk) /\ Len(s) \in Nat /\ n \in Nat
        /\ n <= Len(s) /\ SeenTo(f, n)
    <3>1. f \in 1..Len(content) /\ Files /\ Len(content) <= MaxFiles /\ MaxFiles \in Nat
      BY StreamTypes, BoundsAssumption, LenProperties DEF Files
    <3>2. Len(content) \in Nat /\ f \in 1..MaxFiles
      BY <3>1, StreamTypes
    <3> QED
      BY <3>1, <3>2, FileTypes DEF LookedInv
  <2>2. t \in Seq(Chunk) /\ Len(t) = n /\ \A i \in 1..n : t[i] = s[i]
    <3>1. \A i \in 1..Len(s) : s[i] \in Chunk
      BY <2>1, ElementOfSeq
    <3>2. CASE n = 0
      BY <2>1, <3>2, EmptySeq, SubSeqProperties
    <3>3. CASE n # 0
      <4> HIDE DEF s, n
      <4>1. 1 <= n /\ \A i \in 1..n : s[i] \in Chunk
        BY <2>1, <3>1, <3>3
      <4> QED
        BY <2>1, <4>1, SubSeqProperties
    <3> QED
      BY <3>2, <3>3
  <2>3. PICK i \in 1..Len(t) : Alone(t, i) /\ line = <<t[i]>>
    <3> HIDE DEF t
    <3>1. line \in ToSet(Events(t))
      BY DEF t
    <3> QED
      BY <2>2, <3>1, EventIsAlone
  <2>4. i \in 1..n /\ i \in 1..Len(s) /\ line = <<s[i]>> /\ s[i].index = i
    <3>1. i \in 1..n /\ i \in 1..Len(s) /\ line = <<s[i]>>
      BY <2>1, <2>2, <2>3
    <3> QED
      BY <2>1, <3>1, StreamTypes, FileTypes
  <2>5. Alone(s, i)
    <3> HIDE DEF s, t
    <3>1. \A j \in 1..Len(t) : s[j] = t[j]
      BY <2>2
    <3> QED
      BY <2>2, <2>3, <3>1, AloneStays
  <2>6. \/ line \in SoFar
        \/ gap.file = f /\ i \in gap.from + 1..gap.to
    BY <2>1, <2>4, <2>5 DEF SeenTo
  <2>7. ToSet(batch) = {}
    <3>1. batch = <<>>
      BY StreamTypes DEF Polls
    <3> QED
      BY <3>1 DEF ToSet
  <2>8. line[1].index = i
    BY <2>4
  <2> QED
    BY <2>6, <2>7, <2>8 DEF SoFar
<1>2. StreamInit => LookedInv
  <2>1. ASSUME StreamInit
        PROVE  LookedInv
    <3>1. /\ looked = [f \in 1..MaxFiles |-> 0] /\ Len(content) = 0 /\ 1..Len(content) = {}
      BY <2>1, EmptySeq DEF StreamInit, Init
    <3> QED
      BY <3>1 DEF LookedInv
  <2> QED
    BY <2>1
<1>3. StreamInv /\ GapInv /\ LookedInv /\ [Next]_vars => LookedInv'
  BY LookedSteps
<1> QED
  BY <1>1, <1>2, <1>3, GapInvariance, PTL DEF Spec

=============================================================================
