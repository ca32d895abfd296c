----------------------------- MODULE ServeProofs -----------------------------
(***************************************************************************)
(* Proofs about Serve, for any number of connections and requests.         *)
(*                                                                         *)
(* What the properties say of the last record holds because of what holds  *)
(* long before it is written: a log that is closed early is a disabled     *)
(* one and empty, forced and failed are set before the join, and nothing   *)
(* accepts once the listener's task has been joined.  DaemonInv says so.   *)
(***************************************************************************)
EXTENDS Serve, TLAPS, SequenceTheorems

\* The records of this life.
Said == {accepted[i] : i \in DOMAIN accepted}
ReasonSaid == \E r \in Reasons : r \in Said

DaemonTypeOK ==
  /\ main \in {"start", "announce", "proxy", "router", "run", "grace", "join",
               "stop", "settle", "ok", "err", "gone"}
  /\ failed \in BOOLEAN /\ forced \in BOOLEAN /\ refused \in BOOLEAN
  /\ proxy \in {"none", "accepting", "ok", "err"}
  /\ conns \in Nat /\ requests \in Nat
  /\ status \in {"down", "open", "closed", "settled", "broken"}
  /\ accepted \in Seq(Records)

\* What has not happened yet, by where serve_command is.
StartInv ==
  /\ main \in {"start", "announce"} =>
       accepted = <<>> /\ conns = 0 /\ requests = 0 /\ proxy = "none" /\ ~refused
  /\ main = "start" => status = "down"
  /\ status = "down" => main \in {"start", "err", "gone"}
  /\ main = "gone" => conns = 0 /\ requests = 0
  /\ main \notin {"settle", "ok", "err", "gone"} => ~ReasonSaid
  /\ forced => main \in {"join", "stop", "settle", "ok", "err", "gone"}

\* The log: closed early it is empty, and what it turns away comes too late.
LogInv ==
  /\ accepted # <<>> => accepted[1] = "service_started"
  /\ accepted = <<>> /\ status = "open" => main = "announce"
  /\ status = "open" => ~refused
  /\ status = "settled" => main \in {"ok", "err"}
  /\ status = "closed" /\ main \notin {"settle", "ok", "err"} => accepted = <<>>
  /\ main \in {"settle", "ok"} /\ status # "broken" /\ accepted # <<>> => ReasonSaid
  /\ main = "ok" => status = "settled" /\ durable = accepted

\* How the life ends, and what the log says of it.
EndInv ==
  /\ main \in {"join", "stop"} /\ ~forced /\ ~failed => requests = 0
  /\ main \in {"stop", "settle"} => proxy # "accepting"
  /\ "shutdown_forced" \in Said => forced
  /\ forced /\ status = "open" => "shutdown_forced" \in Said
  /\ \A r \in Reasons : r \in Said =>
       /\ r = Reason /\ proxy # "accepting"
       /\ r = "graceful_shutdown" => requests = 0
       /\ r = "forced_shutdown" => "shutdown_forced" \in Said

DaemonInv == DaemonTypeOK /\ StartInv /\ LogInv /\ EndInv

-----------------------------------------------------------------------------
(* Lemmas.                                                                 *)

LEMMA LoggedIsSaid == \A r : Logged(r) <=> r \in Said
BY DEF Logged, Said

LEMMA NothingSaid == accepted = <<>> => Said = {}
BY DEF Said

\* What emit does: an open log has one record more, any other none.
LEMMA EmitSays ==
  ASSUME accepted \in Seq(Records), NEW r \in Records, Emit(r)
  PROVE  /\ status' = status /\ durable' = durable
         /\ accepted' \in Seq(Records)
         /\ status = "open" =>
              /\ refused' = refused /\ Said' = Said \union {r}
              /\ accepted' # <<>>
              /\ accepted'[1] = IF accepted = <<>> THEN r ELSE accepted[1]
         /\ status # "open" => refused' = TRUE /\ accepted' = accepted /\ Said' = Said
<1>1. CASE status = "open"
  <2>1. accepted' = Append(accepted, r) /\ UNCHANGED <<status, durable, refused>>
    BY <1>1 DEF Emit, Log!Accept
  <2>2. /\ accepted' \in Seq(Records) /\ Len(accepted') = Len(accepted) + 1
        /\ \A i \in 1..Len(accepted) : accepted'[i] = accepted[i]
        /\ accepted'[Len(accepted) + 1] = r /\ Len(accepted) \in Nat
        /\ DOMAIN accepted' = 1..Len(accepted') /\ DOMAIN accepted = 1..Len(accepted)
        /\ accepted = <<>> <=> Len(accepted) = 0
    BY <2>1, EmptySeq
  <2>3. Said' = Said \union {r}
    BY <2>2 DEF Said
  <2>4. accepted' # <<>> /\ accepted'[1] = IF accepted = <<>> THEN r ELSE accepted[1]
    BY <2>2
  <2> QED
    BY <1>1, <2>1, <2>2, <2>3, <2>4
<1>2. CASE status # "open"
  <2>1. UNCHANGED <<status, accepted, durable>> /\ refused' = TRUE
    BY <1>2 DEF Emit
  <2> QED
    BY <1>2, <2>1 DEF Said
<1> QED
  BY <1>1, <1>2

\* A step that leaves the log alone leaves what it says.
LEMMA LogKept == UNCHANGED log => Said' = Said /\ ReasonSaid' = ReasonSaid
BY DEF log, Said, ReasonSaid

-----------------------------------------------------------------------------
(* The invariant.                                                          *)

LEMMA DaemonInit == Init => DaemonInv
<1> SUFFICES ASSUME Init PROVE DaemonInv
  OBVIOUS
<1>1. /\ accepted = <<>> /\ status = "down" /\ main = "start" /\ proxy = "none"
      /\ failed = FALSE /\ forced = FALSE /\ refused = FALSE /\ conns = 0 /\ requests = 0
  BY DEF Init, Log!Init
<1>2. Said = {} /\ ~ReasonSaid
  BY <1>1 DEF Said, ReasonSaid
<1>3. DaemonTypeOK
  BY <1>1, <<>> \in Seq(Records), EmptySeq DEF DaemonTypeOK
<1>4. StartInv /\ LogInv /\ EndInv
  BY <1>1, <1>2 DEF StartInv, LogInv, EndInv
<1> QED
  BY <1>3, <1>4 DEF DaemonInv

\* The steps of the life's beginning.
LEMMA StartsInv ==
  ASSUME DaemonInv, StartFails \/ OpenLog \/ Announce \/ StartProxy \/ BuildRouter \/ SetupFails
  PROVE  DaemonInv'
<1> USE DEF DaemonInv, DaemonTypeOK, StartInv, LogInv, EndInv, ReasonSaid, Reasons, Reason,
            Goto, tasks
<1>1. CASE StartFails \/ BuildRouter \/ SetupFails
  <2>1. UNCHANGED log
    BY <1>1 DEF StartFails, BuildRouter, SetupFails
  <2>2. /\ UNCHANGED <<failed, forced, proxy, conns, requests, refused, status, accepted,
                       durable>>
        /\ main \in {"start", "proxy", "router"} /\ main' \in {"err", "run"}
        /\ main' = "run" => main = "router"
    BY <1>1 DEF StartFails, BuildRouter, SetupFails, log
  <2> QED
    BY <2>1, <2>2, LogKept
<1>2. CASE OpenLog
  <2>1. accepted' = <<>> /\ status' \in {"open", "closed"} /\ Said' = {}
    BY <1>2 DEF OpenLog, Log!Start, Said
  <2>2. /\ main = "start" /\ main' = "announce"
        /\ UNCHANGED <<failed, forced, proxy, conns, requests, refused>>
    BY <1>2 DEF OpenLog
  <2> QED
    BY <2>1, <2>2
<1>3. CASE Announce
  <2>1. /\ main = "announce" /\ main' \in {"proxy", "router"}
        /\ UNCHANGED <<failed, forced, proxy, conns, requests>>
        /\ Emit("service_started")
    BY <1>3 DEF Announce
  <2>2. "service_started" \in Records /\ "service_started" \notin Reasons
    BY DEF Records
  <2>3. accepted = <<>> /\ Said = {} /\ proxy = "none" /\ ~forced
    BY <2>1, NothingSaid
  <2>4. CASE status = "open"
    <3>1. /\ status' = status /\ refused' = refused /\ Said' = Said \union {"service_started"}
          /\ accepted' \in Seq(Records) /\ accepted' # <<>>
          /\ accepted'[1] = "service_started"
      BY <2>1, <2>2, <2>3, <2>4, EmitSays
    <3> QED
      BY <2>1, <2>2, <2>3, <2>4, <3>1
  <2>5. CASE status # "open"
    <3>1. status' = status /\ refused' = TRUE /\ Said' = Said /\ accepted' = accepted
      BY <2>1, <2>2, <2>5, EmitSays
    <3> QED
      BY <2>1, <2>3, <2>5, <3>1
  <2> QED
    BY <2>4, <2>5
<1>4. CASE StartProxy
  <2>1. /\ main = "proxy" /\ main' = "router" /\ proxy' = "accepting"
        /\ UNCHANGED <<failed, forced, conns, requests>>
        /\ Emit("proxy_listener_started")
    BY <1>4 DEF StartProxy
  <2>2. "proxy_listener_started" \in Records
    BY DEF Records
  <2> QED
    BY <2>1, <2>2, EmitSays
<1> QED
  BY <1>1, <1>2, <1>3, <1>4

\* The steps from the server's run to the join of the proxy's listener.
LEMMA RunsInv ==
  ASSUME DaemonInv,
         ServerFails \/ (\E ok \in BOOLEAN : CtrlC(ok)) \/ GraceEnds \/ GraceTimeout \/ JoinProxy
  PROVE  DaemonInv'
<1> USE DEF DaemonInv, DaemonTypeOK, StartInv, LogInv, EndInv, ReasonSaid, Reasons, Reason,
            Goto, tasks
<1>1. CASE ServerFails
  <2>1. UNCHANGED log
    BY <1>1 DEF ServerFails
  <2>2. /\ UNCHANGED <<forced, proxy, conns, requests, refused, status, accepted, durable>>
        /\ main \in {"run", "grace"} /\ main' = "join" /\ failed' = TRUE
    BY <1>1 DEF ServerFails, log
  <2> QED
    BY <2>1, <2>2, LogKept
<1>2. CASE GraceEnds \/ JoinProxy
  <2>1. UNCHANGED log
    BY <1>2 DEF GraceEnds, JoinProxy
  <2>2. /\ UNCHANGED <<failed, forced, proxy, conns, requests, refused, status, accepted,
                       durable>>
        /\ \/ main = "grace" /\ main' = "join" /\ requests = 0
           \/ main = "join" /\ main' = "stop" /\ proxy # "accepting"
           \/ main = "join" /\ main' = "err"
    BY <1>2 DEF GraceEnds, JoinProxy, log
  <2> QED
    BY <2>1, <2>2, LogKept
<1>3. ASSUME NEW ok \in BOOLEAN, CtrlC(ok) PROVE DaemonInv'
  <2>1. /\ main = "run" /\ main' = "grace"
        /\ UNCHANGED <<failed, forced, proxy, conns, requests>>
    BY <1>3 DEF CtrlC
  <2>2. CASE UNCHANGED log
    BY <2>1, <2>2, LogKept DEF log
  <2>3. CASE Emit("shutdown_requested")
    <3>1. "shutdown_requested" \in Records
      BY DEF Records
    <3> QED
      BY <2>1, <2>3, <3>1, EmitSays
  <2> QED
    BY <1>3, <2>2, <2>3 DEF CtrlC
<1>4. CASE GraceTimeout
  <2>1. /\ main = "grace" /\ main' = "join" /\ forced' = TRUE
        /\ UNCHANGED <<failed, proxy, conns, requests>>
        /\ Emit("shutdown_forced")
    BY <1>4 DEF GraceTimeout
  <2>2. "shutdown_forced" \in Records
    BY DEF Records
  <2> QED
    BY <2>1, <2>2, EmitSays
<1> QED
  BY <1>1, <1>2, <1>3, <1>4

\* The steps of the life's end.
LEMMA StopsInv ==
  ASSUME DaemonInv, Stop \/ Settle \/ SettleFails \/ End
  PROVE  DaemonInv'
<1> USE DEF DaemonInv, DaemonTypeOK, StartInv, LogInv, EndInv, ReasonSaid, Reasons, Reason,
            Goto, tasks
<1>1. CASE Stop
  <2>1. /\ main = "stop" /\ main' = "settle" /\ Emit(Reason)
        /\ UNCHANGED <<failed, forced, proxy, conns, requests>>
    BY <1>1 DEF Stop
  <2>2. Reason \in Reasons /\ Reason \in Records /\ Reason' = Reason
    BY <2>1 DEF Records
  <2>3. CASE status = "open"
    <3>1. /\ status' = status /\ refused' = refused /\ Said' = Said \union {Reason}
          /\ accepted' \in Seq(Records) /\ accepted' # <<>>
          /\ accepted # <<>> => accepted'[1] = accepted[1]
      BY <2>1, <2>2, <2>3, EmitSays
    <3> QED
      BY <2>1, <2>2, <2>3, <3>1
  <2>4. CASE status # "open"
    <3>1. /\ status' = status /\ refused' = TRUE /\ Said' = Said /\ accepted' = accepted
      BY <2>1, <2>2, <2>4, EmitSays
    <3> QED
      BY <2>1, <2>2, <2>4, <3>1
  <2> QED
    BY <2>3, <2>4
<1>2. CASE Settle
  <2>1. /\ main = "settle" /\ main' \in {"ok", "err"}
        /\ status = "closed" /\ durable = accepted /\ status' = "settled"
        /\ UNCHANGED <<failed, forced, proxy, conns, requests, accepted, durable, refused>>
    BY <1>2 DEF Settle, Log!Settle
  <2>2. Said' = Said
    BY <2>1 DEF Said
  <2> QED
    BY <2>1, <2>2
<1>3. CASE SettleFails
  <2>1. UNCHANGED log
    BY <1>3 DEF SettleFails
  <2>2. /\ UNCHANGED <<failed, forced, proxy, conns, requests, refused, status, accepted,
                       durable>>
        /\ main = "settle" /\ main' = "err"
    BY <1>3 DEF SettleFails, log
  <2> QED
    BY <2>1, <2>2, LogKept
<1>4. CASE End
  <2>1. /\ main' = "gone" /\ conns' = 0 /\ requests' = 0
        /\ status' = "down"
        /\ UNCHANGED <<failed, forced, proxy, accepted, durable, refused>>
    BY <1>4 DEF End, Log!Halt
  <2>2. Said' = Said
    BY <2>1 DEF Said
  <2> QED
    BY <2>1, <2>2
<1> QED
  BY <1>1, <1>2, <1>3, <1>4

\* The steps of the tasks and of the log's writer.
LEMMA TasksInv ==
  ASSUME DaemonInv,
         \/ Accept \/ AcceptFails \/ StopAccepting \/ TakeRequest
         \/ FinishConn \/ FinishRequest \/ LogClose \/ LogWrite
  PROVE  DaemonInv'
<1> USE DEF DaemonInv, DaemonTypeOK, StartInv, LogInv, EndInv, ReasonSaid, Reasons, Reason,
            daemon, tasks
<1>1. CASE Accept \/ AcceptFails \/ StopAccepting
  <2>1. UNCHANGED log
    BY <1>1 DEF Accept, AcceptFails, StopAccepting
  <2>2. /\ UNCHANGED <<main, failed, forced, requests, refused, status, accepted, durable>>
        /\ conns' \in {conns, conns + 1} /\ main # "gone" /\ proxy = "accepting"
        /\ proxy' \in {"accepting", "ok", "err"}
    BY <1>1 DEF Accept, AcceptFails, StopAccepting, log
  <2> QED
    BY <2>1, <2>2, LogKept
<1>2. CASE TakeRequest
  <2>1. UNCHANGED log
    BY <1>2 DEF TakeRequest
  <2>2. /\ UNCHANGED <<main, failed, forced, proxy, conns, refused, status, accepted, durable>>
        /\ main = "run" /\ requests' = requests + 1
    BY <1>2 DEF TakeRequest, log
  <2> QED
    BY <2>1, <2>2, LogKept
<1>3. CASE FinishConn \/ FinishRequest
  <2>1. /\ UNCHANGED <<main, failed, forced, proxy>> /\ Emit("work")
        /\ \/ conns > 0 /\ conns' = conns - 1 /\ requests' = requests
           \/ requests > 0 /\ requests' = requests - 1 /\ conns' = conns
    BY <1>3 DEF FinishConn, FinishRequest
  <2>2. "work" \in Records /\ "work" \notin Reasons
    BY DEF Records
  <2>3. /\ conns' \in Nat /\ requests' \in Nat
        /\ main \notin {"start", "announce", "gone"} /\ requests = 0 => requests' = 0
    BY <2>1
  <2>4. CASE status = "open"
    <3>1. /\ status' = status /\ refused' = refused /\ Said' = Said \union {"work"}
          /\ accepted' \in Seq(Records) /\ accepted' # <<>>
          /\ accepted # <<>> /\ accepted'[1] = accepted[1]
      BY <2>1, <2>2, <2>3, <2>4, EmitSays
    <3> QED
      BY <2>1, <2>2, <2>3, <2>4, <3>1
  <2>5. CASE status # "open"
    <3>1. /\ status' = status /\ refused' = TRUE /\ Said' = Said /\ accepted' = accepted
          /\ durable' = durable
      BY <2>1, <2>2, <2>5, EmitSays
    <3> QED
      BY <2>1, <2>3, <2>5, <3>1
  <2> QED
    BY <2>4, <2>5
<1>4. CASE LogClose
  <2>1. /\ main \in {"settle", "ok", "err"} /\ status = "open" /\ status' = "closed"
        /\ UNCHANGED <<main, failed, forced, proxy, conns, requests, accepted, durable, refused>>
    BY <1>4 DEF LogClose, Log!Close
  <2>2. Said' = Said
    BY <2>1 DEF Said
  <2> QED
    BY <2>1, <2>2
<1>5. CASE LogWrite
  <2>1. /\ status \in {"open", "closed"} /\ status' \in {status, "broken"}
        /\ UNCHANGED <<main, failed, forced, proxy, conns, requests, accepted, refused>>
    BY <1>5 DEF LogWrite, Log!Write, Log!Break
  <2>2. Said' = Said
    BY <2>1 DEF Said
  <2> QED
    BY <2>1, <2>2
<1> QED
  BY <1>1, <1>2, <1>3, <1>4, <1>5

LEMMA DaemonNext == DaemonInv /\ [Next]_vars => DaemonInv'
<1> SUFFICES ASSUME DaemonInv, [Next]_vars PROVE DaemonInv'
  OBVIOUS
<1>1. CASE UNCHANGED vars
  <2>1. /\ UNCHANGED log
        /\ UNCHANGED <<main, failed, forced, proxy, conns, requests, refused, status, accepted,
                       durable>>
    BY <1>1 DEF vars, daemon, tasks, log
  <2> QED
    BY <2>1, LogKept DEF DaemonInv, DaemonTypeOK, StartInv, LogInv, EndInv, Reason
<1> QED
  BY <1>1, StartsInv, RunsInv, StopsInv, TasksInv DEF Next, Main

-----------------------------------------------------------------------------
(* The theorems.                                                           *)

\* The inductive invariant of serve_command and what it spawns: what is so at
\* each of its awaits, and what the log has been told by then.
THEOREM DaemonInvariance == Spec => []DaemonInv
BY DaemonInit, DaemonNext, PTL DEF Spec

\* A service_stopped in the log tells the truth about the life it ends.
THEOREM StopRecordIsTrue == Spec => []StopIsTrue
<1>1. DaemonInv => StopIsTrue
  BY LoggedIsSaid DEF DaemonInv, DaemonTypeOK, EndInv, Reasons, Reason, StopIsTrue
<1> QED
  BY <1>1, DaemonInvariance, PTL

\* serve_command returns Ok only with its whole life on disk.
THEOREM OkMeansComplete == Spec => []OkIsComplete
<1>1. DaemonInv => OkIsComplete
  BY LoggedIsSaid DEF DaemonInv, LogInv, ReasonSaid, OkIsComplete
<1> QED
  BY <1>1, DaemonInvariance, PTL

\* A working log turns no record away before the life's end is in it.
THEOREM NoRecordRefusedEarly == Spec => []NothingRefusedEarly
<1>1. DaemonInv => NothingRefusedEarly
  <2> SUFFICES ASSUME DaemonInv, refused, main \notin {"err", "gone"}, Len(accepted) > 0,
                      status # "broken"
               PROVE  ReasonSaid
    BY LoggedIsSaid DEF NothingRefusedEarly, ReasonSaid
  <2>1. accepted # <<>>
    OBVIOUS
  <2> QED
    BY <2>1 DEF DaemonInv, DaemonTypeOK, StartInv, LogInv
<1> QED
  BY <1>1, DaemonInvariance, PTL

-----------------------------------------------------------------------------
\* The daemon uses the log as its contract allows and touches it nowhere else:
\* what EventLog is proved to do is what Serve assumes of it.
THEOREM LogAsPromised == Spec => Log!Spec
<1>1. Init => Log!Init
  BY DEF Init
<1>2. ASSUME NEW r \in Records, Emit(r) PROVE [Log!Next]_(Log!vars)
  BY <1>2 DEF Emit, Log!Next, Log!vars
<1>3. [Next]_vars => [Log!Next]_(Log!vars)
  <2> SUFFICES ASSUME [Next]_vars PROVE [Log!Next]_(Log!vars)
    OBVIOUS
  <2>1. CASE \/ Announce \/ StartProxy \/ GraceTimeout \/ Stop \/ FinishConn \/ FinishRequest
             \/ \E ok \in BOOLEAN : CtrlC(ok)
    <3>1. (\E r \in Records : Emit(r)) \/ UNCHANGED log
      BY <2>1 DEF Announce, StartProxy, GraceTimeout, Stop, FinishConn, FinishRequest, CtrlC,
                  Records, Reasons, Reason
    <3> QED
      BY <1>2, <3>1 DEF log, Log!vars
  <2>2. CASE OpenLog \/ Settle \/ LogClose \/ LogWrite
    BY <2>2 DEF OpenLog, Settle, LogClose, LogWrite, Log!Next
  <2>3. CASE End
    BY <2>3 DEF End, Log!Next, Log!vars
  <2>4. CASE \/ StartFails \/ BuildRouter \/ SetupFails \/ ServerFails \/ GraceEnds
             \/ JoinProxy \/ SettleFails \/ Accept \/ AcceptFails \/ StopAccepting
             \/ TakeRequest \/ UNCHANGED vars
    BY <2>4 DEF StartFails, BuildRouter, SetupFails, ServerFails, GraceEnds, JoinProxy,
                SettleFails, Accept, AcceptFails, StopAccepting, TakeRequest, vars, log,
                Log!vars
  <2> QED
    BY <2>1, <2>2, <2>3, <2>4 DEF Next, Main
<1> QED
  BY <1>1, <1>3, PTL DEF Spec, Log!Spec

=============================================================================
