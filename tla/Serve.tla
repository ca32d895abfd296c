-------------------------------- MODULE Serve -------------------------------
(***************************************************************************)
(* One life of the daemon: serve_command (src/crates/marsala/src/lib.rs)   *)
(* with the tasks it spawns: the proxy's listener (serve_listener in       *)
(* proxy.rs), the detached tasks of proxy connections and of gateway       *)
(* requests, and the writer of the event log.                              *)
(*                                                                         *)
(* The log is its contract, DurableLog, which EventLog is proved to        *)
(* implement.  main names the await serve_command is at, or the code       *)
(* between two of them that emits one record.                              *)
(***************************************************************************)
EXTENDS Naturals, Sequences

CONSTANTS
  MaxConns,      \* bound: proxy connections ever accepted
  MaxRequests    \* bound: gateway requests ever accepted

ASSUME BoundsAssumption == MaxConns \in Nat /\ MaxRequests \in Nat

VARIABLES
  main,      \* start, announce, proxy, router, run, grace, join, stop, settle;
             \* ok or err once it has returned; gone with the process
  failed,    \* the server's result is an error
  forced,    \* forced_shutdown
  signal,    \* what the watch channel of the shutdown holds
  proxy,     \* the listener's task: none, accepting, ok, err
  conns,     \* tasks of proxy connections
  requests,  \* tasks of gateway requests
  taken,     \* connections and requests accepted so far
  refused,   \* history: a record was emitted that the log did not accept
  status, accepted, durable   \* the log

daemon == <<main, failed, forced, signal, proxy>>
tasks == <<conns, requests, taken>>
log == <<status, accepted, durable, refused>>
vars == <<daemon, tasks, log>>

\* The records; service_stopped by its reason, and one of a task.
Reasons == {"graceful_shutdown", "forced_shutdown", "server_error"}
Records == Reasons \union {"service_started", "proxy_listener_started",
                           "shutdown_requested", "shutdown_forced", "work"}

Log == INSTANCE DurableLog WITH Record <- Records

Logged(r) == \E i \in DOMAIN accepted : accepted[i] = r

\* EventLogHandle::emit: a log that is closed or broken takes no record.
Emit(r) ==
  IF status = "open" THEN Log!Accept(r) /\ UNCHANGED refused
  ELSE UNCHANGED <<status, accepted, durable>> /\ refused' = TRUE

Init ==
  /\ main = "start" /\ failed = FALSE /\ forced = FALSE /\ signal = FALSE
  /\ proxy = "none"
  /\ conns = 0 /\ requests = 0 /\ taken = [conns |-> 0, requests |-> 0]
  /\ Log!Init /\ refused = FALSE

-----------------------------------------------------------------------------
(* serve_command.                                                          *)

Goto(from, to) ==
  /\ main = from /\ main' = to
  /\ UNCHANGED tasks

\* A listener cannot be bound, or the log not opened.
StartFails == Goto("start", "err") /\ UNCHANGED <<failed, forced, signal, proxy, log>>

\* Both listeners are bound; the log is opened, or is disabled.
OpenLog ==
  /\ Goto("start", "announce")
  /\ Log!Start
  /\ UNCHANGED <<failed, forced, signal, proxy, refused>>

\* service_started; the proxy is enabled or not.
Announce ==
  /\ \E next \in {"proxy", "router"} : Goto("announce", next)
  /\ Emit("service_started")
  /\ UNCHANGED <<failed, forced, signal, proxy>>

StartProxy ==
  /\ Goto("proxy", "router")
  /\ Emit("proxy_listener_started")
  /\ proxy' = "accepting"
  /\ UNCHANGED <<failed, forced, signal>>

\* build_router; its error, or a listener without an address, is returned.
BuildRouter == Goto("router", "run") /\ UNCHANGED <<failed, forced, signal, proxy, log>>

SetupFails ==
  /\ \E step \in {"proxy", "router"} : Goto(step, "err")
  /\ UNCHANGED <<failed, forced, signal, proxy, log>>

\* The server's future resolves to an error, before or after Ctrl-C.
ServerFails ==
  /\ \E step \in {"run", "grace"} : Goto(step, "join")
  /\ failed' = TRUE /\ signal' = TRUE
  /\ UNCHANGED <<forced, proxy, log>>

\* ctrl_c resolves, with an error if there is no signal to be had.
CtrlC(ok) ==
  /\ Goto("run", "grace")
  /\ IF ok THEN Emit("shutdown_requested") ELSE UNCHANGED log
  /\ signal' = TRUE
  /\ UNCHANGED <<failed, forced, proxy>>

\* The server has finished its requests.
GraceEnds ==
  /\ Goto("grace", "join") /\ requests = 0
  /\ UNCHANGED <<failed, forced, signal, proxy, log>>

\* Mutant: the server is waited for without a limit.
GraceUnlimited == FALSE

\* GRACEFUL_SHUTDOWN_TIMEOUT; timeout polls the server before its timer.
GraceTimeout ==
  /\ Goto("grace", "join") /\ requests > 0
  /\ Emit("shutdown_forced")
  /\ forced' = TRUE
  /\ UNCHANGED <<failed, signal, proxy>>

\* Mutant: the listener's task is not waited for.
JoinNothing ==
  /\ Goto("join", "stop")
  /\ UNCHANGED <<failed, forced, signal, proxy, log>>

\* The listener's task is awaited.  Its error is returned at once, unless the
\* server's own error is still to be returned.
JoinProxy ==
  /\ \/ proxy \in {"none", "ok"} /\ Goto("join", "stop")
     \/ proxy = "err" /\ Goto("join", IF failed THEN "stop" ELSE "err")
  /\ UNCHANGED <<failed, forced, signal, proxy, log>>

Reason == IF forced THEN "forced_shutdown"
          ELSE IF failed THEN "server_error" ELSE "graceful_shutdown"

Stop ==
  /\ Goto("stop", "settle")
  /\ Emit(Reason)
  /\ UNCHANGED <<failed, forced, signal, proxy>>

\* Mutant: the log's writer is dropped instead of shut down.
SettleUnawaited ==
  /\ Goto("settle", IF failed THEN "err" ELSE "ok")
  /\ UNCHANGED <<failed, forced, signal, proxy, log>>

\* event_writer.shutdown() returns.
Settle ==
  /\ Goto("settle", IF failed THEN "err" ELSE "ok")
  /\ Log!Settle
  /\ UNCHANGED <<failed, forced, signal, proxy, refused>>

SettleFails ==
  /\ Goto("settle", "err") /\ status = "broken"
  /\ UNCHANGED <<failed, forced, signal, proxy, log>>

\* main returns and the runtime drops every task, or the process is killed.
End ==
  /\ main # "gone" /\ main' = "gone"
  /\ conns' = 0 /\ requests' = 0
  /\ IF status = "down" THEN UNCHANGED <<status, accepted, durable>> ELSE Log!Halt
  /\ UNCHANGED <<failed, forced, signal, proxy, taken, refused>>

-----------------------------------------------------------------------------
(* The tasks.                                                              *)

Accept ==
  /\ proxy = "accepting" /\ main # "gone" /\ taken.conns < MaxConns
  /\ conns' = conns + 1 /\ taken' = [taken EXCEPT !.conns = @ + 1]
  /\ UNCHANGED <<daemon, requests, log>>

\* accept() fails: the task ends, and nobody waits for it yet.
AcceptFails ==
  /\ proxy = "accepting" /\ main # "gone"
  /\ proxy' = "err"
  /\ UNCHANGED <<main, failed, forced, signal, tasks, log>>

\* The channel holds true, or its sender has gone with serve_command.
StopAccepting ==
  /\ proxy = "accepting" /\ main # "gone"
  /\ signal \/ main = "err"
  /\ proxy' = "ok"
  /\ UNCHANGED <<main, failed, forced, signal, tasks, log>>

\* The server accepts while it is polled and not told to stop.
TakeRequest ==
  /\ main = "run" /\ taken.requests < MaxRequests
  /\ requests' = requests + 1 /\ taken' = [taken EXCEPT !.requests = @ + 1]
  /\ UNCHANGED <<daemon, conns, log>>

\* The tasks are detached: they end, and log that, whatever main is at.
FinishConn ==
  /\ conns > 0 /\ conns' = conns - 1
  /\ Emit("work")
  /\ UNCHANGED <<daemon, requests, taken>>

FinishRequest ==
  /\ requests > 0 /\ requests' = requests - 1
  /\ Emit("work")
  /\ UNCHANGED <<daemon, conns, taken>>

\* Mutant: the log's writer watches the shutdown's channel as well.
LogCloseEarly == signal /\ Log!Close /\ UNCHANGED <<daemon, tasks, refused>>

\* The writer task closes its channel when its owner shuts it down or drops it.
LogClose == main \in {"settle", "ok", "err"} /\ Log!Close /\ UNCHANGED <<daemon, tasks, refused>>

LogWrite == (Log!Write \/ Log!Break) /\ UNCHANGED <<daemon, tasks, refused>>

-----------------------------------------------------------------------------
Main ==
  \/ OpenLog \/ Announce \/ StartProxy \/ BuildRouter \/ JoinProxy \/ Stop
  \/ Settle \/ SettleFails \/ StartFails \/ SetupFails \/ GraceEnds \/ GraceTimeout

Next ==
  \/ Main \/ ServerFails \/ (\E ok \in BOOLEAN : CtrlC(ok)) \/ End
  \/ Accept \/ AcceptFails \/ StopAccepting \/ TakeRequest \/ FinishConn
  \/ FinishRequest \/ LogClose \/ LogWrite

\* main and the writer are polled, the grace period runs out, and select!
\* takes the shutdown in the end however many connections arrive.  Requests
\* and connections may stay for ever.
Spec ==
  /\ Init /\ [][Next]_vars
  /\ WF_vars(Main) /\ SF_vars(StopAccepting) /\ WF_vars(LogClose) /\ WF_vars(LogWrite)

-----------------------------------------------------------------------------
\* A service_stopped in the log tells the truth about the life it ends: the
\* proxy accepts nothing any more, and the reason is graceful exactly if every
\* gateway request was done when the server stopped, forced exactly if the
\* timeout cut it short.
StopIsTrue ==
  \A r \in Reasons : Logged(r) =>
    /\ proxy # "accepting"
    /\ r = "graceful_shutdown" => requests = 0 /\ ~failed
    /\ (r = "forced_shutdown") <=> Logged("shutdown_forced")

\* serve_command returns Ok only after a life whose log, if it has one, is on
\* disk from the start to the reason of its end.
OkIsComplete ==
  main = "ok" =>
    /\ durable = accepted
    /\ accepted # <<>> =>
         accepted[1] = "service_started" /\ \E r \in Reasons : Logged(r)

\* While the daemon serves and until it has logged its own end, no record of
\* any task is turned away by a log that works.
NothingRefusedEarly ==
  refused /\ main \notin {"err", "gone"} /\ Len(accepted) > 0 /\ status # "broken" =>
    \E r \in Reasons : Logged(r)

\* Once it is asked to, the daemon stops, however long requests stay open.
StopsWhenAsked == main = "grace" ~> main \in {"ok", "err", "gone"}

\* docs/planning/03_reconciled_plan.md: "Clean shutdown under Ctrl-C": unless the
\* server or the log has failed, serve_command returns with its end logged.
CtrlCIsClean ==
  Logged("shutdown_requested") /\ main \in {"ok", "err"} /\ ~failed /\ status # "broken" =>
    \E r \in Reasons : Logged(r)

=============================================================================
