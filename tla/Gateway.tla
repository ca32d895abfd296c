------------------------------- MODULE Gateway ------------------------------
(***************************************************************************)
(* The HTTP gateway (src/crates/marsala/src/http.rs): chat_completions and *)
(* responses behind request_logging_middleware, the client of the upstream *)
(* (openai.rs), and LoggedResponseStream, the body of a streamed response. *)
(* Requests are served concurrently; they share the counter of their ids   *)
(* and the log.                                                            *)
(*                                                                         *)
(* pc names the await a request is at.  When its client leaves, or the     *)
(* runtime stops, the handler is dropped at that await; a streamed body    *)
(* that is dropped still runs its destructor.                              *)
(***************************************************************************)
EXTENDS Naturals, Sequences

CONSTANTS
  Requests,    \* requests to the two routes
  MaxChunks    \* bound: chunks of one streamed response

ASSUME ChunksAssumption == MaxChunks \in Nat

VARIABLES
  config,   \* openai.auth_mode and the environment's API key
  req,      \* the requests; sent: the credential the upstream was called with;
            \* ended: what the body of its response came to, so far as polled
  counter,  \* REQUEST_ID_COUNTER
  log       \* what the gateway has emitted

vars == <<config, req, counter, log>>

Modes == {"configured_api_key", "inbound_authorization"}
Keys == {"missing", "unusable", "good"}

Init ==
  /\ config \in [mode : Modes, key : Keys]
  /\ counter = 1 /\ log = <<>>
  /\ \E route \in [Requests -> {"chat", "responses"}] :
       req = [r \in Requests |->
               [pc |-> "idle", route |-> route[r], id |-> 0, streamed |-> FALSE,
                sent |-> "nothing", ended |-> "open", chunks |-> 0,
                logged |-> FALSE, left |-> FALSE]]

\* The log's records.  (An http_request carries no id of its own.)
RequestEvent(r, target) == [by |-> r, type |-> "request", what |-> target]
ResponseEvent(r, source) == [by |-> r, type |-> "response", what |-> source]
HttpEvent(r, status) == [by |-> r, type |-> "http", what |-> status]
StreamEvent(r, status, chunks) ==
  [by |-> r, type |-> "response", what |-> status, chunks |-> chunks]

Become(r, q) == req' = [req EXCEPT ![r] = q]
Emit(events) == log' = log \o events /\ UNCHANGED config

-----------------------------------------------------------------------------
(* A request comes in.                                                     *)

Arrive(r) ==
  /\ req[r].pc = "idle"
  /\ Become(r, [req[r] EXCEPT !.pc = "body"])
  /\ UNCHANGED <<config, counter, log>>

\* The Bytes extractor refuses the body; the handler does not run.
RejectBody(r) ==
  /\ req[r].pc = "body"
  /\ Become(r, [req[r] EXCEPT !.pc = "reply"])
  /\ Emit(<<HttpEvent(r, "rejected")>>)
  /\ UNCHANGED counter

\* Mutant: the chat route follows auth_mode, too.
InboundOnAnyRoute(route) == config.mode = "inbound_authorization"

\* responses_upstream_authorization; chat_completions knows no other mode than
\* the configured key.
Inbound(route) == route = "responses" /\ config.mode = "inbound_authorization"

\* Why the handler answers itself, in the order it looks; "" if it does not.
\* (chat_completions' answer to a body it cannot serialize again is left out: a
\* parsed body always serializes.)
LocalError(route, body, authorized) ==
  CASE body = "invalid" -> "invalid_request_error"
    [] body = "stream" /\ route = "chat" -> "unsupported_streaming"
    [] Inbound(route) /\ ~authorized -> "authorization_error"
    [] ~Inbound(route) /\ config.key = "missing" -> "configuration_error"
    [] OTHER -> ""

\* next_request_id, and the handler's state once it has one.
NextId(r) == counter' = counter + 1
Handled(r, pc) == [req[r] EXCEPT !.pc = pc, !.id = counter]

AnswerLocally(r, body, authorized) ==
  /\ req[r].pc = "body"
  /\ LET error == LocalError(req[r].route, body, authorized)
     IN  /\ error # ""
         /\ Emit(<<RequestEvent(r, "marsala_local"), ResponseEvent(r, "marsala_local"),
                   HttpEvent(r, error)>>)
  /\ Become(r, Handled(r, "reply")) /\ NextId(r)

\* The key is no legal header value: the client fails before it sends, but the
\* request has been logged as one for the upstream.
FailUnsent(r, body, authorized) ==
  /\ req[r].pc = "body"
  /\ LocalError(req[r].route, body, authorized) = ""
  /\ ~Inbound(req[r].route) /\ config.key = "unusable"
  /\ Emit(<<RequestEvent(r, "upstream"), ResponseEvent(r, "marsala_local"),
            HttpEvent(r, "invalid_upstream_response")>>)
  /\ Become(r, Handled(r, "reply")) /\ NextId(r)

\* The request is logged, and then its upstream is called.
Forward(r, body, authorized) ==
  /\ req[r].pc = "body"
  /\ LocalError(req[r].route, body, authorized) = ""
  /\ Inbound(req[r].route) \/ config.key = "good"
  /\ Emit(<<RequestEvent(r, "upstream")>>)
  /\ Become(r, [Handled(r, "upstream") EXCEPT
                  !.streamed = (body = "stream"),
                  !.sent = IF Inbound(req[r].route) THEN "inbound" ELSE "key"])
  /\ NextId(r)

-----------------------------------------------------------------------------
(* The upstream answers.                                                   *)

\* A streamed response is logged at its end, any other once it is read.
UpstreamAnswers(r) ==
  /\ req[r].pc = "upstream"
  /\ IF req[r].streamed
     THEN /\ Become(r, [req[r] EXCEPT !.pc = "stream"])
          /\ Emit(<<HttpEvent(r, "upstream")>>)
     ELSE /\ Become(r, [req[r] EXCEPT !.pc = "reply"])
          /\ Emit(<<ResponseEvent(r, "upstream"), HttpEvent(r, "upstream")>>)
  /\ UNCHANGED counter

\* Mutant: the client's error is returned without a response event.
UpstreamFailsUnlogged(r, error) ==
  /\ req[r].pc = "upstream"
  /\ Become(r, [req[r] EXCEPT !.pc = "reply"])
  /\ Emit(<<HttpEvent(r, error)>>)
  /\ UNCHANGED counter

\* UpstreamError, and the local answer to it.
UpstreamFails(r, error) ==
  /\ req[r].pc = "upstream"
  /\ Become(r, [req[r] EXCEPT !.pc = "reply"])
  /\ Emit(<<ResponseEvent(r, "marsala_local"), HttpEvent(r, error)>>)
  /\ UNCHANGED counter

\* Mutant: the client is built without a timeout.
NoTimeout(r) == FALSE

\* DEFAULT_UPSTREAM_TIMEOUT, which covers the whole response.
UpstreamTimeout(r) == UpstreamFails(r, "upstream_timeout")

\* The server has written the answer, or has found its client gone.
Replied(r) ==
  /\ req[r].pc = "reply"
  /\ Become(r, [req[r] EXCEPT !.pc = "done"])
  /\ UNCHANGED <<config, counter, log>>

\* The client leaves, or the runtime stops, before there is an answer.
Leave(r) ==
  /\ req[r].pc \in {"body", "upstream"}
  /\ Become(r, [req[r] EXCEPT !.pc = "done", !.left = TRUE])
  /\ UNCHANGED <<config, counter, log>>

-----------------------------------------------------------------------------
(* LoggedResponseStream.                                                   *)

\* Mutant: logged is not looked at.
EmitAlways(r, status) == Emit(<<StreamEvent(r, status, req[r].chunks)>>)

EmitOnce(r, status) ==
  Emit(IF req[r].logged THEN <<>> ELSE <<StreamEvent(r, status, req[r].chunks)>>)

\* A chunk is counted and handed to the server.
NextChunk(r) ==
  /\ req[r].pc = "stream" /\ req[r].chunks < MaxChunks
  /\ req' = [req EXCEPT ![r].chunks = @ + 1]
  /\ UNCHANGED <<config, counter, log>>

EndStream(r) ==
  /\ req[r].pc = "stream"
  /\ Become(r, [req[r] EXCEPT !.pc = "over", !.ended = "end", !.logged = TRUE])
  /\ EmitOnce(r, "completed")
  /\ UNCHANGED counter

\* Mutant: the error is passed on, and left to the destructor to log.
BreakStreamUnlogged(r) ==
  /\ req[r].pc = "stream"
  /\ Become(r, [req[r] EXCEPT !.pc = "over", !.ended = "error"])
  /\ UNCHANGED <<config, counter, log>>

\* The upstream's body fails, or the client's timeout strikes it.
BreakStream(r) ==
  /\ req[r].pc = "stream"
  /\ Become(r, [req[r] EXCEPT !.pc = "over", !.ended = "error", !.logged = TRUE])
  /\ EmitOnce(r, "error")
  /\ UNCHANGED counter

\* Drop: behind its end, or in the middle when the client leaves, when the
\* response's status admits no body, or when the runtime stops.
DropStream(r) ==
  /\ req[r].pc \in {"stream", "over"}
  /\ Become(r, [req[r] EXCEPT !.pc = "done", !.logged = TRUE,
                              !.left = (req[r].pc = "stream")])
  /\ EmitOnce(r, "interrupted")
  /\ UNCHANGED counter

-----------------------------------------------------------------------------
Handle(r) ==
  \E body \in {"invalid", "plain", "stream"}, authorized \in BOOLEAN :
    \/ AnswerLocally(r, body, authorized) \/ FailUnsent(r, body, authorized)
    \/ Forward(r, body, authorized)

Next ==
  \E r \in Requests :
    \/ Arrive(r) \/ RejectBody(r) \/ Handle(r) \/ UpstreamAnswers(r)
    \/ UpstreamTimeout(r) \/ UpstreamFails(r, "invalid_upstream_response")
    \/ UpstreamFails(r, "upstream_connection_error")
    \/ Replied(r) \/ Leave(r) \/ NextChunk(r) \/ EndStream(r) \/ BreakStream(r)
    \/ DropStream(r)

\* The upstream client's timer is polled, and the server writes an answer to a
\* client that takes it or is found gone, polling a streamed body as it does.
\* Nothing is assumed of the upstream.
Spec ==
  /\ Init /\ [][Next]_vars
  /\ \A r \in Requests :
       /\ WF_vars(UpstreamTimeout(r))
       /\ WF_vars(Replied(r))
       /\ WF_vars(EndStream(r) \/ BreakStream(r) \/ DropStream(r))

-----------------------------------------------------------------------------
(* Properties.                                                             *)

Of(r, type) == {i \in DOMAIN log : log[i].by = r /\ log[i].type = type}

\* Whatever is polled, dropped or interleaved, a request has one record of each
\* kind at most, its request before the others, and an id that is its own.
OneStory ==
  /\ \A i, j \in DOMAIN log :
       i < j /\ log[i].by = log[j].by =>
         log[i].type # log[j].type /\ log[j].type # "request"
  /\ \A r, s \in Requests : r # s /\ req[r].id = req[s].id => req[r].id = 0

\* A request that was logged and is over has its response logged, unless its
\* client left while the upstream had not answered.
FateLogged ==
  \A r \in Requests :
    req[r].pc = "done" /\ Of(r, "request") # {} =>
      \/ Of(r, "response") # {} /\ Of(r, "http") # {}
      \/ req[r].left /\ Of(r, "response") = {} /\ Of(r, "http") = {}

\* What the log says of a stream is what became of it, and its count is that
\* of the chunks handed on: nothing is handed on behind the record.
StreamStatusTrue ==
  \A r \in Requests : \A i \in Of(r, "response") :
    /\ log[i].what = "completed" => req[r].ended = "end"
    /\ log[i].what = "error" => req[r].ended = "error"
    /\ log[i].what = "interrupted" => req[r].ended = "open" /\ req[r].left
    /\ log[i].what \in {"completed", "error", "interrupted"} =>
         log[i].chunks = req[r].chunks

\* The log accounts for every call of the upstream: a request that was sent is
\* logged as one for the upstream, one that is logged as answered locally was
\* not sent, and no response is ascribed to an upstream that was not called.
\* A client's own credential is sent only where and when the mode says so.
CallsAccountedFor ==
  \A r \in Requests :
    /\ req[r].sent # "nothing" <=>
         \E i \in Of(r, "request") : log[i].what = "upstream" /\
           ~(config.key = "unusable" /\ ~Inbound(req[r].route))
    /\ req[r].sent = "nothing" =>
         \A i \in Of(r, "response") : log[i].what = "marsala_local"
    /\ req[r].sent = "inbound" =>
         req[r].route = "responses" /\ config.mode = "inbound_authorization"

\* A request whose body has been read is answered or given up, whatever the
\* upstream does.
RequestsEnd ==
  \A r \in Requests :
    req[r].pc \in {"upstream", "reply", "stream", "over"} ~> req[r].pc = "done"

=============================================================================
