# Verification of Marsala

TLA+ models of Marsala (`src/crates/marsala`), TLC configurations that
model-check them on small instances, and theorems, for every value of the
constants, that the safety properties of the passing runs hold, whose proofs
TLAPS checks. Source paths below are relative to `src/crates/marsala/src/` unless
they start with `src/`.

Run a model with `tlc -config <X>.cfg <Module>`, the proofs with `tlapm <X>.tla`
for each of the `...Proofs` modules and for `SequenceFacts`.

## 1. The system

Marsala is one process (`marsala serve`) with two ingress paths, a JSON-lines
log that both write, and readers of that log; the other commands of the binary
set files up or print them.

| component | source | state | operations | talks to |
|---|---|---|---|---|
| event log writer | `event_log.rs:16-139` | unbounded channel, oneshot for shutdown, writer task with a `BufWriter`, the file | `spawn`, `handle`, `emit`, `shutdown`, the task's select and drain loops | every other component emits into it |
| log tail and follow | `event_log.rs:141-440` | follower: reader, cursor, file id, first-open mode | `read_tail_snapshot`, `follow_log_file`, `EventLogFollower::poll` | the log's file, never the writer |
| web UI event stream | `ui.rs` | one follower per browser, the page's list | `recent_events`, `event_stream`, the page's `loadRecent` and `connect` | the file; HTTP gateway's routes |
| daemon lifecycle | `lib.rs:120-255`, `proxy.rs:52-109` | server future, listener task, watch channel, detached tasks | `serve_command`, `serve_listener`, Ctrl-C, the 5 s grace period | spawns and stops all of the below |
| proxy connection | `proxy.rs:111-1680` | one task per connection: its await, buffered bytes, what was answered, forwarded and emitted | plain HTTP, tunnel, MITM handshake, one decrypted request, WebSocket upgrade | client, upstream, log |
| WebSocket tunnel and frame inspector | `proxy.rs:1680-2190` | per direction: parser buffer, fragment, inflater | the capturing copy, `ingest`, preview | both peers, log |
| request rules and header filters | `proxy.rs:2271-2533` | none | authority, `Content-Length`, upgrade validation, hop-by-hop filters | proxy connection |
| HTTP gateway | `http.rs` | per request: handler at an await, or a streamed body; one id counter | `chat_completions`, `responses`, logging middleware, `LoggedResponseStream` | upstream client, log |
| OpenAI-compatible client | `openai.rs` | a `reqwest` client with one timeout | `send_*`, error mapping, header filters | upstream |
| configuration | `config.rs` | none after loading | load, validate, `connect_action_for_host` | all |
| certificate authority | `certs.rs` | two files | `init_ca` | MITM handshake |
| shell integration | `codex_env.rs` | the user's shell file | `install`, `uninstall` of a marked block | the authority's certificate |
| redaction | `http.rs:1012-1103`, `proxy.rs` | none | rewriting of previews | |
| command line | `cli.rs`, `main.rs` | none | argument definitions | |

What is hard in it, and so what the models are for (the full list, each at its
line, is under `hazards` in `PROJECT.json`):

* **Concurrency around one log.** Any task emits at any time; the log must keep
  the channel's order, lose nothing in the middle, and be complete when a
  shutdown says so, although handles outlive the shutdown.
* **Failure in the middle.** A write to the disk fails, the process dies inside
  a record, a response breaks off behind its head, a client leaves while its
  request is out. What has been logged and answered by then must agree.
* **Waiting.** Which awaits have a timeout, and which keep a task for ever.
* **Detached work.** Connection and request tasks outlive the listener, the
  server's future and even the log's writer.
* **Reading what is being written.** A follower sees torn records, rotations and
  truncations between any two of its system calls.

What makes each component correct:

* event log: the file is the accepted records, in order, a prefix of them after
  a failure or a crash, all of them after an Ok shutdown; shutdown returns;
* follower, tail and stream: nothing out of order, skipped or doubled within a
  file, whole records only to the browser, the current file read to its end;
* lifecycle: the daemon stops when asked; the last record says truly how;
  nobody's record is turned away before that; an Ok leaves a complete log;
* connection: client, upstream and log agree on every path; refused requests
  stay local; every readable request is answered; no await but four, all at
  the mercy of a peer, can keep the task;
* page: the recent events and the stream behind them show whole records, in
  order, once; of what a file held when the stream last looked for its end they
  miss only what was written between the two;
* tunnel: bytes and ends pass unchanged, captured or not; what is reported of
  them is what was sent; nothing but a peer, or the copy's two known
  shortfalls, holds them up;
* rules: whatever is loaded and requested, the upstream is asked for the host
  of the CONNECT only, and both ends of a rewritten message see one message (a
  length with a plus sign excepted);
* setup: a certificate and a key that are both there are a pair; the user's own
  lines survive every installation and removal that is let finish alone;
* gateway: one request record and one true response record per request however
  it ends, nothing sent upstream unlogged, every request ends.

## 2. The modules

| module | models | built on |
|---|---|---|
| `DurableLog` | what the event log promises, with no channel or task | |
| `EventLog` | handles, channel, writer task, owner, file, process lives | refines `DurableLog` |
| `EventLogProofs` | theorems about it | `EventLog`, TLAPS |
| `LogFollower` | the file with its writer and operator, and `EventLogFollower::poll` | |
| `LogTail` | `logs tail --follow` | `LogFollower` |
| `EventStream` | the page: `GET /ui/events/recent`, then `GET /ui/events` | `LogFollower` |
| `FollowerProofs` | theorems about the two | `LogTail`, `EventStream`, `SequenceFacts` |
| `Serve` | one life of the daemon: `serve_command`, `serve_listener`, detached tasks | composes `DurableLog` as its log |
| `ServeProofs` | theorems about it | `Serve`, TLAPS |
| `ProxyConnection` | one proxy connection from accept to the end of its task | |
| `ProxyConnectionProofs` | theorems about it | `ProxyConnection`, TLAPS |
| `Gateway` | the two API routes, concurrent requests, streamed bodies | |
| `GatewayProofs` | theorems about it | `Gateway`, TLAPS |
| `WebSocketInspector` | one direction's `WebSocketFrameInspector` as functions of its state and what it reads | |
| `WebSocketTunnel` | both directions of an upgraded connection, captured or not, between two TLS sessions and two peers | `WebSocketInspector` |
| `WebSocketTunnelProofs` | theorems about it | `WebSocketTunnel`, `SequenceFacts` |
| `Configuration` | the configuration's sources, its validation, the allowlist | |
| `RequestRules` | from the configuration over the CONNECT and a decrypted request to the heads that go upstream and back | `Configuration` |
| `CertificateAuthority` | `init_ca`, concurrent and interrupted | |
| `ShellIntegration` | `install` and `uninstall` beside `init_ca` | composes `CertificateAuthority` |
| `InterceptionProofs` | theorems about what interception rests on: the authority alone and beside the commands, the shell's file, the rules | `ShellIntegration`, `RequestRules`, `SequenceFacts` |
| `MCWebSocketTunnel`, `MCRequestRules`, `MCShellIntegration` | their instances for TLC | |
| `SequenceFacts` | lemmas on doing something with each member of a sequence and putting the results together, and induction over numbers and sequences | `SequencesExt`, TLAPS |

`DurableLog` is the joint between components: `EventLog` is shown to implement
it (model-checked as a PROPERTY and proved as a theorem), and `Serve` uses it in
place of the writer's details, so what is shown of the lifecycle holds over the
real log.

### EventLog

`owner` is the `EventLogWriter` value in `serve_command`, `task` the writer
task, `handles` and `pending` the emitters. `emit` is two steps, `BuildRecord`
(timestamp) and `SendRecord`: two emitters may be ordered one way by time and
the other way in the channel. `write_record` may put part of a long record on
disk first (`SpillRecord`: the `BufWriter` overflows), so a crash or an error
can leave a torn line; the next life appends to it. Dropping the owner without
`shutdown` drops the oneshot's sender, which the select takes for a signal
(`Signalled`). `Exit` and `Crash` end a life, and `Spawn` begins the next on the
same file.

### LogFollower, LogTail, EventStream

A file is a sequence of chunks, one per write of the daemon's `BufWriter`: a
whole record, or its head and its tail. Every system call of `poll` (open, read
of a line, stat of the path) is an action of its own, so writes, rotations,
truncations and restarts of the daemon happen between any two of them.
`ReadFails` is the case of a piece that ends inside a character: `read_line` has
consumed it, `cursor` does not count it, and the two differ from then on.
`LogTail` adds the snapshot and the resumption from it (its specification is
`TailSpec`, so that a module may extend both). `EventStream` adds the page, which loads the recent events (`LoadRecent`) and then opens a stream that
begins at the end of the file (`Connect`, `Follow`), and that a poll's vector is
dropped once its first event has been returned (`Send`). `LineTo` is the line a
chunk ends, `OnlyEvents` the lines that are records, as `ui_event_from_line` tells.
`gap` remembers which chunks were written between the two, `looked` how long each
file was when a read of the stream last came to its end.
Not distinguished: bytes within a chunk, inode reuse (a new file is never taken
for an old one), which of several lines a `--lines` count selects (any suffix).

### Serve

`main` is the await `serve_command` is at. The proxy's listener, the detached
tasks and the log's writer run beside it. `Emit` goes into `DurableLog`; when
the log is closed or broken the record is refused and only the history variable
`refused` remembers it, as `emit` only warns. The log may also be disabled (it
begins closed). `End` is the end of the process at any moment.

### ProxyConnection

`pc` is the await the connection's task is at; each action is one outcome of
that await together with all of the code up to the next one, the events it emits
included. Data is classes: a request is one of the refusals of
`forward_mitm_http1_request`, or has no body, a body, or is a WebSocket upgrade;
frames are counted; a client sends numbered items behind its `CONNECT` head, of
which the `BufReader` may already hold some (`early`). The task can be dropped
with the runtime at any await (`Dropped`).

### Gateway

`req[r]` is one request: its await, the credential its upstream was called
with, what the upstream's body came to, and `logged` and `chunks` of its
`LoggedResponseStream`. A handler and the middleware around it run without an
await between them, so a handler's return and the `http_request` record are one
action. `Leave` drops a handler at its await, `DropStream` runs the stream's
destructor.

### WebSocketInspector, WebSocketTunnel

A frame is a number of units: one is its header with the beginning of its
payload, and a unit is what a read, a buffer or a socket counts. The inspector
is not a process: `Ingest` is the state it has after a read, its buffer, its cap
(`MaxBuffer`), fragment and inflater included. A frame's `final` says that its
message's last block ends the DEFLATE stream: `over` is what that leaves of the
inflater, which the code keeps (`AtStreamEnd`). `world` is what the handshake and
the peers are: the frames either sends, how many units came in together with the
upgrade or its 101 (`early`), whether a peer writes everything before it reads
(`patient`), the extension negotiated, and what an inflater that has lost its
context makes of a frame (an error or garbage). The capturing copy of
`proxy.rs:1793-1841` and tokio's `copy_bidirectional` are the same actions with
two differences the code has: the former reads only when neither direction is in
a write (`Free`), and never flushes a session before its end (`Flush`).

### Configuration, RequestRules

One request passes through stages: load, connect, check, forward, respond.
Values are structured as `read_proxy_request` and the header functions see them:
an authority is host, bracket, port and whether user information stands before
it; a `Content-Length` is a number and a form; a `Connection` header is its
tokens. What `parse_authority` drops, user information and text behind a bracket
(a port that is "bad"), is forwarded all the same: hosts are compared as Marsala
parses them, in the checks and in `AuthorityKept`. Whether a host has upper case letters
is kept because the allowlist compares with case and the authority check
without. The operators carry the names of the functions, and `Check` keeps their
order. `Values` is what a loop over the headers finds of a name, `Without` what a
filter leaves. Left out: characters of names and values, `Cookie` and the other headers
that no rule looks at (one of them stands for all).

### CertificateAuthority, ShellIntegration

`init_ca` looks for two files, creates and writes one, then creates and writes
the other; each of these is an action, and between any two another run goes on,
the process is killed or the operator deletes a file. `install` looks for the
certificate, reads the shell file, and writes it with `fs::write`: `Truncate` and
`Write` are two actions. The file is a sequence of lines: text of the user,
blank lines and the two markers, which the user may paste or break as well.

## 3. The runs

| run | shows |
|---|---|
| `event_log` (EventLog.cfg) | `LogFollowsSends`, `ShutdownFlushes`, `EmitterOrder`, `DamageBounded`, `ShutdownReturns`, `AcceptedIsWritten`, refinement of `DurableLog` |
| `log_tail` | `PrintedInOrder`, `CaughtUp` |
| `event_stream` | `ShownInOrder`, `OnlyGapMissed`, `KeepsReading` |
| `serve` | `StopIsTrue`, `OkIsComplete`, `NothingRefusedEarly`, `StopsWhenAsked` |
| `proxy_connection` | `LogOrder`, `Logged`, `ForwardedIsTrue`, `RefusedStaysLocal`, `Answered`, `SecondAnswerIsGateway`, `KeptByPeerOnly` |
| `gateway` | `OneStory`, `FateLogged`, `StreamStatusTrue`, `CallsAccountedFor`, `RequestsEnd` |
| `websocket_tunnel` | `Unchanged`, `ReportsAreFrames`, `DecodedIsTrue`, `Arrives` |
| `request_rules` | `AuthorityKept`, `MessagesKept` |
| `setup` (ShellIntegration.cfg) | `PairMatches`, `UserLinesKept` |
| `event_stream_all`, `serve_ctrl_c`, `proxy_tunnel` | counterexamples, section 4 |

A `TypeOK` is checked by the run of its module; that of `WebSocketTunnel` states
the inspector's cap.

What a passing property leaves out is said in its comment. Of the page,
`OnlyGapMissed` speaks of every file that was followed, up to the stream's last
look at its end: a line appended behind that look to a file that is then
replaced is shown nowhere, nor is a file that was replaced before the stream
opened it. `KeepsReading` wants the position at the end of the file, and takes one
behind it only when a failed read has moved it past what `cursor` counts.
`DecodedIsTrue` excepts the messages that `Undisturbed` names and the inspectors
that are not `Aligned`, `MessagesKept` a length with a plus sign, `UserLinesKept`
the writes that were cut or overtaken. `OkIsComplete` says nothing of an exit with
an error, `AuthorityKept` nothing of which spelling of a host is intercepted, and
`PairMatches` nothing of the refusals behind a certificate without a key.

Bounds, and why they suffice:

* EventLog: two handles (every order of two emitters), three records over three
  lives: two records can be queued behind a signal, one life can leave a torn
  line and another write behind it. No symmetry, which TLC's liveness check does
  not support.
* LogFollower: three chunks, two files, one truncation, one failed poll: a
  record in two pieces and one more, a file and its replacement, a truncation
  before or after the replacement, a poll after a failed one.
  `EventStreamTruncated.cfg` has one file and three chunks: its counterexample needs
  a head that is read with an error, a truncation, and a head.
* Serve: two connections and two gateway requests: one of each that ends before
  the daemon stops and one that is still there.
* ProxyConnection: two items (one buffered with the head and one behind it; all
  or none), two frames. The handlers have no other loops, so all of their paths
  are in the run.
* Gateway: two requests (they share only the id counter and the log), two
  chunks, every authorization mode and state of the key.

* WebSocketTunnel: a socket of two units, a session of one, reads of two, a cap
  of two, frames of up to four. Every one of these can be full or split; a frame
  is over the cap, at it and under it. Three frames in one direction (two of any
  kind, one that ends its stream included, before a compressed one), or two in
  each. `WebSocketContext.cfg` is the same instance.
* RequestRules: up to one header of every kind before and behind those of a
  regular or upgrading request, or of one with a header missing; every form of
  target; two hosts, an address and the spellings of one; two configuration
  sources. The rules look at values of one name together, and two of a name are
  enough for any disagreement between them.
* ShellIntegration: two runs of `init_ca` and two commands, with symmetry (the run
  checks no liveness), and three edits of the user: enough for a line, a second
  block and a broken marker. `ShellUninstall.cfg` has no certificate, and so no
  installation: two edits make a file of the user's line and a block.

`CHECK_DEADLOCK FALSE` is set where the modelled thing ends: a process, a
connection, a set of requests, the command of `LogTail` once it has returned, a
page that could not load.

### Fairness

* EventLog: weak fairness of the task's polls, of a write's completion (or
  failure) and of the owner's join: the tokio runtime polls woken tasks and a
  write to a local file returns. Strong fairness of `SeeShutdown`: `select!`
  polls its branches in random order, so a signal that stays ready is taken in
  the end although the channel may be ready each time as well. Emitters need not
  do anything.
* LogTail, EventStream: weak fairness of the follower or the page alone; the
  command loops with a 250 ms sleep, and the browser is assumed to load the page
  and to read its stream. Nothing
  is assumed of daemon or operator.
* Serve: weak fairness of `serve_command`, of the grace period's timer and of
  the log's writer, strong fairness of the listener's shutdown branch (a
  `select!` again). Open requests and connections may stay for ever, and the
  signal need not come.
* ProxyConnection: weak fairness of timers (`HEADER_READ_TIMEOUT`, `MITM_*`) and
  of writes to the client, which end when the client takes them or its stream
  breaks. The second is an assumption about clients: the code has no timeout on
  these writes. Nothing is assumed of upstreams, or of the client's sending.
* Gateway: weak fairness of the upstream client's timer and of the server's
  writing to a client that takes its answer or is found gone. A body the client
  does not take is not polled, and then not even the timeout of its upstream is
  seen; the assumption is needed.

* WebSocketTunnel: weak fairness of `Progress`, the steps of copy and peers taken
  together: each moves units forward, so one that can be taken is taken in the
  end. A patient peer need not read before it has written; a peer need not
  close.

## 4. Where the code and the repository's words disagree

* `proxy_tunnel`: `src/README.md:54` says connections that are not intercepted
  are tunneled unchanged. `handle_connect` copies below the `BufReader` that
  read the head (`proxy.rs:229`), and bytes that came in with the head are lost.
* `event_stream_all`: `src/docs/planning/06_terminal_codex_interception.md:85`
  expects the UI to show the allowlisted traffic. `event_stream` returns from
  inside its loop over a poll's events (`ui.rs:540-560`) and drops the rest of
  the vector.
* `serve_ctrl_c`: `src/docs/planning/03_reconciled_plan.md:114` asks for a clean
  shutdown under Ctrl-C. If the proxy's listener had ended with an accept error,
  `serve_command` returns at `lib.rs:228` with neither `service_stopped` nor a
  shutdown of the log.

Four more are named exceptions of the passing properties. Each has a property
without the exception and a configuration under which TLC finds that violated;
these four are beside the runs that `PROJECT.json` lists.

* `RewindsAfterTruncate` (`tlc -config EventStreamTruncated.cfg EventStream`), the
  exception of `KeepsReading`: the test `follower_rewinds_after_truncate`
  (`event_log.rs:614`) has a follower go back to what was written after a
  truncation. A read that fails inside a character moves the reader on and not
  `cursor` (`event_log.rs:284-288`); a file truncated to a length between the two
  passes the test at `event_log.rs:301`, and what is written up to the old
  position is never read.
* `ContextMaintained` (`WebSocketContext.cfg`, `MCWebSocketTunnel`), an exception of
  `DecodedIsTrue`: `src/docs/planning/03_reconciled_plan.md:44` says that
  previews are decoded "while maintaining inflate context". A message whose last
  block is marked as the stream's last (RFC 7692 section 7.2.3.4) ends the loop at
  `Status::StreamEnd` (`proxy.rs:2167`); line 2182 keeps the decompressor, and what
  comes behind in that direction is logged as decoded, and empty.
* `LengthsAreDigits` (`RequestRulesLengths.cfg`, `MCRequestRules`), the exception of
  `MessagesKept`: `proxy.rs:1056-1057` answer a length outside the syntax with
  "ambiguous or invalid Content-Length header". `parse::<usize>` takes a plus sign,
  which RFC 9110 does not, and the header goes upstream as it came
  (`proxy.rs:2387`).
* `UserContentStays` (`ShellUninstall.cfg`, `MCShellIntegration`), the exception of
  `UserLinesKept`: `src/docs/planning/06_terminal_codex_interception.md:95` says
  that uninstall does not remove user-authored content (line 53: "Leave unrelated
  shell content untouched"). Between `fs::write`'s truncation and its write
  (`codex_env.rs:88`) a kill, a failing write or a second command loses it, and
  so does an edit between the read and the write to what was edited. Nothing else
  does (`UserLinesKept`).

What else the models show, and no sentence of the repository contradicts:

* The write of a decrypted request upstream (`proxy.rs:1130`) has no timeout,
  unlike the dial, head and body around it: one of the four awaits that
  `KeptByPeerOnly` leaves.
* Capturing a WebSocket changes when its bytes arrive, never which (`Unchanged`).
  While one direction waits in a write, the other is not read, and one peer that
  does not read holds both up; without capture it takes two. And a session that
  is not flushed may keep ciphertext until that direction's next write
  (`HeldUp`).
* A compressed message is decoded unless an earlier compressed frame arrived with
  the upgrade, was binary or a fragment, inflated to the cap, or ended its DEFLATE
  stream. What is logged behind one of the first may be garbage, behind the last
  it is empty (`DecodedIsTrue`, of inspectors that are `Aligned`).
* A frame over the inspector's cap makes it read payload as headers until the end
  of the tunnel (`ReportsAreFrames` excepts it).
* A `Connection` header that names `host` or `content-length` takes the client's
  own header out; `MessagesKept` and `AuthorityKept` hold over that.
* `install` accepts a certificate file that is not written to its end.
* A page whose recent events fail to load does not open its stream by itself.

## 5. What is proved

Every invariant that the passing runs check, and the refinements, are proved. Every
theorem is of its module's specification (those of the authority's
`AuthoritySpec`, of the rules `RulesSpec`, of `logs tail` `TailSpec`, of the others
`Spec`) and holds for any values of the constants under the assumptions named
here, which TLC evaluates on every run:

* the bounds are naturals (`BoundsAssumption`, `ChunksAssumption`,
  `MaxBufferAssumption`), and the buffers of a tunnel are not empty
  (`RoomAssumption`);
* a tunnel's worlds are made of frames and of what fits into a socket
  (`WorldsAssumption`), a head lists its headers (`HeadsAssumption`), and a
  `Content-Length` is a number in one of its forms (`LengthsAssumption`);
* `"nobody"` is no run of `init_ca` (`RunsAssumption`), and the names the model
  gives to markers and blank lines are not those of the user's other lines
  (`LinesAssumption`).

Each safety property is proved from an inductive invariant of its module: the
initial states establish it, every action preserves it (one lemma or step per
action), and it implies the property. The properties are not inductive
themselves; what the invariants add is what makes them true.

| module | invariant | properties it proves |
|---|---|---|
| `EventLogProofs` | `WriterInv` (`Invariance`) | `TypeOK`, `LogFollowsSends`, `ShutdownFlushes`, and `ImplementsDurableLog` |
| | `HistoryInv` (`HistoryInvariance`) | `EmitterOrder`, `DamageBounded` |
| `FollowerProofs` | `TailInv` (`TailInvariance`) | `TypeOK`, `PrintedInOrder` |
| | `StreamInv` (`StreamInvariance`) | `ShownInOrder` |
| | `GapInv` and `LookedInv` with `StreamInv` (`GapInvariance`, `OnlyTheGapMissed`) | `OnlyGapMissed` |
| `ServeProofs` | `DaemonInv` (`DaemonInvariance`) | `StopIsTrue`, `OkIsComplete`, `NothingRefusedEarly` |
| `ProxyConnectionProofs` | `ConnectionInv` (`ConnectionInvariance`) | `TypeOK`, `LogOrder`, `Logged`, `ForwardedIsTrue`, `RefusedStaysLocal`, `Answered`, `SecondAnswerIsGateway` |
| `GatewayProofs` | `GatewayInv` (`GatewayInvariance`) | `OneStory`, `FateLogged`, `StreamStatusTrue`, `CallsAccountedFor` |
| `WebSocketTunnelProofs` | `TunnelInv` (`TunnelInvariance`) | `TypeOK`, `Unchanged` |
| | `ReportInv` (`ReportInvariance`) | `DecodedIsTrue`, `ReportsAreFrames` |
| `InterceptionProofs` | `PairInv` (`PairInvariant`) | `PairMatches` |
| | `RulesInv` (`RulesInvariant`) | `AuthorityKept`, `MessagesKept` |
| | `ShellInv` (`ShellInvariant`) | `UserLinesKept` |

* **EventLog.** `LogFollowsSends` compares the file with what the channel
  accepted; in between are the queue and the record in the task's hands.
  `WriterInv` says that the lines of this life, the current record and the queue
  together are the accepted records, for as long as the task has not failed, and
  ties the phases of owner and task to each other. `HistoryInv` spans the lives of
  the process: the file is the beginning of one `Story`, what earlier lives left
  and then what this one accepted; an emitter's records are in order in all of it,
  its pending record is younger than they are, and the damaged lines before this
  life are fewer than the lives. `Refinement` maps `Init` to `Init` and each action
  to one of the contract or to a stutter: `WriteRecord` is the contract's `Write`
  because the current record is the first accepted one that is not on disk.
* **LogTail.** `TailInv` is about all that has been taken from the files, printed
  or in the poll's batch: it is chained, and the follower `GoesOn` behind its last
  chunk. It has just read that chunk at its position; or the file was truncated
  since, so that all chunks in it are of a later epoch; or it has not begun its
  file, which is a later one. The disk's steps keep that for a follower wherever it
  is, between any two of its system calls. It ends with a failed poll, as the
  command does: `ReadFails` leaves a position that the count does not know of.
* **EventStream.** The page goes on after failed polls and after a truncation of
  what it reads, so nothing ties the follower to one chunk. `StreamInv` says
  instead that what is shown and what the poll has read is in order, and that the
  follower `GoesPast` the end of each event of it: the chunk is one of those in
  front of its position; or the file was truncated since, and all that is in it is
  of a later epoch; or the file is a later one. A failed read only moves the
  position on. `GapInv` counts what is not shown: while nothing has been
  truncated, failed or dropped, each record on a line of its own in front of the
  position has been shown, is in the poll's batch, or is in the gap. That `read_line`
  stops at the first newline makes such a record the whole of the line it is read
  with; that the writer only appends keeps the recent events all that lies in front
  of the gap. `LookedInv` keeps the same of each file up to the stream's last look at
  its end, when the follower has gone on to another: what has been seen stays seen,
  and a look is a read that found nothing behind the position.
* **Serve.** What the last record says is decided long before it is written.
  `DaemonInv` says what has not happened yet at each await of `serve_command`,
  that a log closed early is a disabled one and empty, and that nothing accepts
  once the listener has been joined. `LogAsPromised` shows that the daemon uses
  its log as the contract allows: what it says of the records in `accepted` and
  `durable` is what `EventLog` is proved to provide.
* **ProxyConnection.** `ConnectionInv` gives, for each `pc`, what the upstream and
  the client have had, and the rank of the last event that can have been told. An
  event's place in the story is below `Reach(pc)`; a step emits above it.
* **Gateway.** `Story`, `Calls` and `Stream` say for every state of a request which
  records it has and what they say. A step adds records of one request only, which
  leaves the stories of the others as they are, whatever the interleaving.
* **WebSocketTunnel.** In each direction, `received`, `outbound`, `session`,
  `chunk`, `inbound` and what is unsent are, put together, what the peer sends
  (`Preserved`); a step moves units from one to the next. The inspector's loop
  leaves a sequence of units of frames however the reads cut them up (an induction
  over its turns), and what the loop leaves over the cap is thrown away.
  For the reports, `ReportInv` says that an inspector that is not lost is behind a
  whole number `k` of frames: its buffer, and what is still to come, are the units
  behind the `k`-th (`Follows`), and its reports are the text and binary frames
  among the first `k`, without those that passed it by. The loop over a buffer
  (`Drain`) takes one frame at a time and keeps that (`DrainFollows`, by induction
  over the turns). The inflater's context is what the peer's was, and its stream has
  not ended, for the next frame that no earlier one disturbed (`Calm`).
* **CertificateAuthority.** A run that has seen both names free may have been
  overtaken. `PairInv` adds that a run behind the creation of the certificate owns
  it, as long as nothing was deleted under a run, and so the key it creates is of
  the same run. `SetupIsAuthority` shows that `ShellIntegration` implements
  `AuthoritySpec`, and `PairMatchesInSetup` takes the property over.
* **RequestRules.** `RulesInv` is what a stage has found out: behind the CONNECT
  the host has no character that would not survive a `Host` header, because the
  configuration's validation kept such hosts out of the allowlist; behind the checks
  the request has passed `Check`; and what goes up and down is what the rules make
  of it. The rest is about the values of one name: of what is filtered, replaced
  and added (`Values` of `Without` and of a concatenation), for any lists of
  headers. A length that is accepted stands in one header (`AcceptedLength`), of
  digits or with the plus sign that `MessagesKept` excepts.
* **ShellIntegration.** Two commands may have read the file at different times and
  write one after the other. `ShellInv` says that there is one text without a block
  that all of them agree on: what each is about to write, and the file, begin with
  it and have only blank lines and blocks behind it. What lies outside of a block
  in such a file is the user's lines (`Outside`), whichever write comes last.

`SequenceFacts` holds what these proofs need of sequences. Selecting from a
sequence is a `FlattenSeq` of one or no member each, so that one set of lemmas is
enough: that the fold of concatenations exists, what it is for an empty, an extended
and a divided sequence (`EachConcat`, `FlattenSplit`), and for the results of another
(`EachOfEach`). The library's induction theorems take an operator as their
parameter, which the installed provers cannot instantiate; `InductionOverNat` and
`InductionOverSeq` are the principles for a set instead (a set of naturals that has 0
and each successor has all), proved from the well-foundedness of `<`.

Only model-checked is every liveness property (`ShutdownReturns`,
`AcceptedIsWritten`, `StopsWhenAsked`, `KeptByPeerOnly`, `RequestsEnd`, `Arrives`,
`CaughtUp`, `KeepsReading`): fairness and ENABLED are out of the prover's reach. Of
the counterexamples of section 4 there is nothing to prove.

No module declares a RECURSIVE operator.

## 6. Not modelled, and why

* The contents of records, previews and bodies, and their redaction: string
  rewriting without state, covered by unit tests on concrete strings.
* The page's pause, its filter fields, its table of 800 rows, and the reconnection
  of its `EventSource`.
* The parsing of TOML and the environment by figment and serde, `cli.rs`, tracing:
  no behaviour of their own over time. `redact_path_query` and
  `sanitize_target` are redaction, too.
* The contents of certificates, the TLS configurations, and the signing of leaves.
* A DEFLATE stream that ends in the middle of a message: `final` marks its last
  block only.
* TLS, DNS, HTTP parsing by hyper and reqwest, the runtime's scheduler: external;
  their outcomes are nondeterministic choices.
* Memory of the unbounded channel: the code states no bound to check.

## 7. What could come next

Every component with state is modelled, but for what section 6 names, and every
safety property that a run checks is proved. What is left is to model more:

1. the reconnection of the page's stream by its `EventSource`, which begins another
   follower at the end of the file, and with it a second gap;
2. the redaction of a payload that two chunks divide;
3. a bound on the log's channel, once the code has one.
