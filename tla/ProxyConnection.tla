--------------------------- MODULE ProxyConnection --------------------------
(***************************************************************************)
(* One connection of the proxy (src/crates/marsala/src/proxy.rs), from the *)
(* accept to the end of its task: handle_connection, the untouched tunnel, *)
(* the MITM of an allowlisted host, the forwarding of one decrypted        *)
(* HTTP/1.1 request and the WebSocket upgrade.                             *)
(*                                                                         *)
(* pc names the await the task is at.  An action is the end of that await  *)
(* in one of its outcomes and the code up to the next await; an action     *)
(* that never comes is a peer that stalls.  Behind the head of its first   *)
(* request the client sends Items 1, 2, ...: TLS records of a tunnel, or a *)
(* ClientHello.                                                            *)
(***************************************************************************)
EXTENDS Naturals, FiniteSets, Sequences, SequencesExt

CONSTANTS
  MaxItems,   \* bound: items a client sends behind its CONNECT head
  MaxFrames   \* bound: WebSocket frames logged on one connection

ASSUME BoundsAssumption == MaxItems \in Nat /\ MaxFrames \in Nat

VARIABLES
  pc,        \* the await, or done (returned), or gone (dropped with the runtime)
  form,      \* what the first head asks for
  capture,   \* the capture flag of the path taken: capture_mitm_payloads for a
             \* request, capture_mitm_websocket_frames for a WebSocket
  early,     \* items the BufReader took in together with the first head
  delivered, \* items the tunnel has written upstream
  client,    \* up, or down once a failed read or write of its stream matters
  req,       \* the class of the decrypted request
  upstream,  \* what the MITM upstream got of it: nothing, part, whole
  answers,   \* response heads written on the decrypted stream, in order
  whole,     \* the response to the decrypted request was copied to its end
  verdict,   \* the status the last event will carry, "none" until it is known
  events     \* what the connection has emitted

vars == <<pc, form, capture, early, delivered, client, req, upstream, answers,
          whole, verdict, events>>
peers == <<early, delivered, client, upstream, answers, whole>>

Forms == {"none", "plain", "badTarget", "tunnel", "mitm"}

\* Requests that forward_mitm_http1_request answers itself, in its own order.
Refused == {"http2_unsupported", "http_version_unsupported", "authority_mismatch",
            "upgrade_unsupported", "websocket_malformed",
            "request_body_streaming_unsupported", "invalid_content_length",
            "request_body_too_large"}
Requests == Refused \union {"none", "noBody", "withBody", "websocket"}

\* Awaits under a timeout; awaits that end when the client takes what is
\* written to it; and awaits that nothing but a peer ends.
Timed == {"head", "handshake", "request", "body", "dialUpstream", "wait", "stream"}
Writes == {"answer501", "answer400", "dial502", "ackTunnel", "acceptor502", "ackMitm",
           "refuse", "respond", "switch", "flushTunnel", "gateway502", "close"}
Unbounded == {"dial", "tunnel", "send", "websocket"}
Ended == {"done", "gone"}

EventTypes == {"mitm_tls", "mitm_payload", "mitm_websocket_frame", "mitm_request",
               "mitm_response", "proxy_request"}

Event(type, status) == [type |-> type, status |-> status]
ProxyEvent(status) == Event("proxy_request", status)
Emitted(type) == {i \in DOMAIN events : events[i].type = type}

\* A write on the client's stream: once one has failed they all do.
ClientWrite(ok) ==
  IF ok THEN client = "up" /\ UNCHANGED client ELSE client' = "down"

\* The handler returns after these events.
Return(emitted) ==
  /\ pc' = "done"
  /\ events' = events \o emitted

Init ==
  /\ pc = "head" /\ form = "none" /\ capture \in BOOLEAN
  /\ early = 0 /\ delivered = <<>> /\ client = "up"
  /\ req = "none" /\ upstream = "nothing" /\ answers = <<>> /\ whole = FALSE
  /\ verdict = "none" /\ events = <<>>

-----------------------------------------------------------------------------
(* handle_connection, handle_plain_http, handle_connect.                   *)

\* The head is read; the BufReader may hold items that came with it.  For an
\* allowlisted host mitm_tls_acceptor, which has no await, may fail.
AfterHead == [plain |-> {"answer501"}, badTarget |-> {"answer400"},
              tunnel |-> {"dial"}, mitm |-> {"ackMitm", "acceptor502"}]

ReadHead(f, n) ==
  /\ pc = "head"
  /\ form' = f /\ early' = n
  /\ pc' \in AfterHead[f]
  /\ UNCHANGED <<capture, delivered, client, req, upstream, answers, whole,
                 verdict, events>>

\* An unreadable head, a closed connection, or HEADER_READ_TIMEOUT.
ReadHeadFails ==
  /\ pc = "head"
  /\ Return(<<ProxyEvent("error")>>)
  /\ UNCHANGED <<form, capture, peers, req, verdict>>

\* handle_plain_http: no event when the client does not take the answer.
AnswerPlain(ok) ==
  /\ pc = "answer501" /\ ClientWrite(ok)
  /\ Return(IF ok THEN <<ProxyEvent("not_implemented")>> ELSE <<>>)
  /\ UNCHANGED <<form, capture, early, delivered, req, upstream, answers, whole, verdict>>

\* The answers whose failure is ignored: 400 for the target, 502 for the dial.
AnswerError(ok) ==
  /\ pc \in {"answer400", "dial502"} /\ ClientWrite(ok)
  /\ Return(<<ProxyEvent("error")>>)
  /\ UNCHANGED <<form, capture, early, delivered, req, upstream, answers, whole, verdict>>

\* TcpStream::connect to the tunnel's target, with no timeout of its own.
Dial(ok) ==
  /\ pc = "dial"
  /\ pc' = IF ok THEN "ackTunnel" ELSE "dial502"
  /\ UNCHANGED <<form, capture, peers, req, verdict, events>>

\* The 200 of a tunnel or of a MITM: when it fails the handler just returns.
Acknowledge(ok) ==
  /\ pc \in {"ackTunnel", "ackMitm"} /\ ClientWrite(ok)
  /\ pc' = IF ~ok THEN "done" ELSE IF pc = "ackTunnel" THEN "tunnel" ELSE "handshake"
  /\ UNCHANGED <<form, capture, early, delivered, req, upstream, answers, whole,
                 verdict, events>>

\* copy_bidirectional on the stream below the BufReader: what the BufReader
\* holds is not copied.
NextItem == early + Len(delivered) + 1

\* Mutant: what is there to copy is not looked at.
CopyPastEnd ==
  /\ pc = "tunnel" /\ delivered' = Append(delivered, NextItem)
  /\ UNCHANGED <<pc, form, capture, early, client, req, upstream, answers, whole,
                 verdict, events>>

CopyItem ==
  /\ pc = "tunnel" /\ NextItem <= MaxItems
  /\ delivered' = Append(delivered, NextItem)
  /\ UNCHANGED <<pc, form, capture, early, client, req, upstream, answers, whole,
                 verdict, events>>

\* Mutant: the error of the copy is returned before the event is emitted.
TunnelEndsUnlogged(status) ==
  /\ pc = "tunnel"
  /\ Return(IF status = "error" THEN <<>> ELSE <<ProxyEvent(status)>>)
  /\ UNCHANGED <<form, capture, peers, req, verdict>>

TunnelEnds(status) ==
  /\ pc = "tunnel"
  /\ Return(<<ProxyEvent(status)>>)
  /\ UNCHANGED <<form, capture, peers, req, verdict>>

-----------------------------------------------------------------------------
(* handle_mitm_connect.                                                    *)

\* The 502 when the CA cannot be read or the leaf not signed.
AnswerNoAcceptor(ok) ==
  /\ pc = "acceptor502" /\ ClientWrite(ok)
  /\ Return(<<Event("mitm_tls", "error"), ProxyEvent("error")>>)
  /\ UNCHANGED <<form, capture, early, delivered, req, upstream, answers, whole, verdict>>

\* into_inner drops what the BufReader holds, so a handshake can succeed only
\* if the client waited for the 200.  The only ALPN offered is http/1.1.
Handshake ==
  /\ pc = "handshake" /\ client = "up" /\ early = 0
  /\ pc' = "request"
  /\ events' = Append(events, Event("mitm_tls", "handshake_ok"))
  /\ UNCHANGED <<form, capture, peers, req, verdict>>

HandshakeFails ==
  /\ pc = "handshake"
  /\ Return(<<Event("mitm_tls", "error"), ProxyEvent("error")>>)
  /\ UNCHANGED <<form, capture, peers, req, verdict>>

\* The decrypted head, and the checks of forward_mitm_http1_request on it.
ReadRequest(r) ==
  /\ pc = "request"
  /\ req' = r
  /\ \/ r \in Refused /\ pc' = "refuse"
     \/ r = "withBody" /\ pc' = "body"
     \/ r \in {"noBody", "websocket"} /\ pc' = "dialUpstream"
  /\ events' = IF r = "noBody" /\ capture
               THEN Append(events, Event("mitm_payload", "request")) ELSE events
  /\ UNCHANGED <<form, capture, peers, verdict>>

\* No answer and no TLS shutdown when the decrypted head cannot be read.
ReadRequestFails ==
  /\ pc = "request"
  /\ Return(<<Event("mitm_request", "error"), ProxyEvent("error")>>)
  /\ UNCHANGED <<form, capture, peers, req, verdict>>

\* Mutant: an Err is logged by its event alone, without the 502.
ForwardFailsQuietly ==
  pc' = "close" /\ verdict' = "error" /\ UNCHANGED <<form, capture, req, events>>

\* forward_mitm_http1_request returns Err: handle_mitm_connect answers 502.
ForwardFails == pc' = "gateway502" /\ UNCHANGED <<form, capture, req, verdict, events>>

\* Mutant: the response's event comes before the request's.
ForwardReturnsSwapped(request, response, proxy) ==
  /\ pc' = "close" /\ verdict' = proxy
  /\ events' = events
       \o (IF response = "none" THEN <<>> ELSE <<Event("mitm_response", response)>>)
       \o <<Event("mitm_request", request)>>
  /\ UNCHANGED <<form, capture, req>>

\* It returns Ok: the request's event, the response's if it has one, the TLS
\* shutdown, and then the proxy's event.
ForwardReturns(request, response, proxy) ==
  /\ pc' = "close" /\ verdict' = proxy
  /\ events' = events \o <<Event("mitm_request", request)>>
                \o (IF response = "none" THEN <<>> ELSE <<Event("mitm_response", response)>>)
  /\ UNCHANGED <<form, capture, req>>

\* The local 502, its failure ignored, whatever the client has had before it.
GatewayError(ok) ==
  /\ pc = "gateway502" /\ ClientWrite(ok)
  /\ answers' = IF ok THEN Append(answers, "gateway") ELSE answers
  /\ ForwardReturns("error", "error", "error")
  /\ UNCHANGED <<early, delivered, upstream, whole>>

CloseTls ==
  /\ pc = "close"
  /\ Return(<<ProxyEvent(verdict)>>)
  /\ UNCHANGED <<form, capture, peers, req, verdict>>

-----------------------------------------------------------------------------
(* forward_mitm_http1_request and forward_mitm_websocket_upgrade.          *)

\* Mutant: the failure of the local answer is ignored.
RefuseIgnoringError(status, ok) ==
  /\ ClientWrite(ok)
  /\ answers' = IF ok THEN Append(answers, "refusal") ELSE answers
  /\ ForwardReturns(status, "none", status)
  /\ UNCHANGED <<early, delivered, upstream, whole>>

\* A request refused by a local answer, which may itself fail.
Refuse(status, ok) ==
  /\ ClientWrite(ok)
  /\ IF ok THEN /\ answers' = Append(answers, "refusal")
                /\ ForwardReturns(status, "none", status)
           ELSE ForwardFails /\ UNCHANGED answers
  /\ UNCHANGED <<early, delivered, upstream, whole>>

RefuseRequest(ok) == pc = "refuse" /\ Refuse(req, ok)

\* The bounded body, in full, and its preview if payloads are captured.
ReadBody ==
  /\ pc = "body"
  /\ pc' = "dialUpstream"
  /\ events' = IF capture THEN Append(events, Event("mitm_payload", "request")) ELSE events
  /\ UNCHANGED <<form, capture, peers, req, verdict>>

ReadBodyFails ==
  /\ pc = "body"
  /\ client' \in {client, "down"} /\ ForwardFails
  /\ UNCHANGED <<early, delivered, upstream, answers, whole>>

\* Mutant: the body is read without a timeout.
ReadBodyUntimed == FALSE

\* MITM_REQUEST_BODY_READ_TIMEOUT: the 408, which is awaited like the others.
ReadBodyTimeout ==
  /\ pc = "body"
  /\ req' = "request_body_timeout" /\ pc' = "refuse"
  /\ UNCHANGED <<form, capture, peers, verdict, events>>

\* connect_upstream_tls: both of its awaits are under a timeout.
DialUpstream(ok) ==
  /\ pc = "dialUpstream"
  /\ IF ok THEN pc' = "send" /\ UNCHANGED <<form, capture, req, verdict, events>>
           ELSE ForwardFails
  /\ UNCHANGED peers

\* write_upstream_request, or write_upstream_websocket_request and the flush
\* of the client's buffered frames; neither is under a timeout.  They may fail
\* with the request already out.
SendUpstream(got, ok) ==
  /\ pc = "send" /\ (ok => got = "whole")
  /\ upstream' = got
  /\ IF ok THEN pc' = "wait" /\ UNCHANGED <<form, capture, req, verdict, events>>
           ELSE ForwardFails
  /\ UNCHANGED <<early, delivered, client, answers, whole>>

\* read_http_response: only a WebSocket request treats 101 as a switch.
ReadResponse(switching) ==
  /\ pc = "wait" /\ (switching => req = "websocket")
  /\ pc' = IF switching THEN "switch" ELSE "respond"
  /\ UNCHANGED <<form, capture, peers, req, verdict, events>>

ReadResponseFails == pc = "wait" /\ ForwardFails /\ UNCHANGED peers

\* The head goes to the client before any of the body is read.
WriteHead(ok) ==
  /\ pc \in {"respond", "switch"} /\ ClientWrite(ok)
  /\ IF ok THEN /\ pc' = IF pc = "switch" THEN "flushTunnel" ELSE "stream"
                /\ answers' = Append(answers, IF pc = "switch" THEN "101" ELSE "upstream")
                /\ UNCHANGED <<form, capture, req, verdict, events>>
           ELSE ForwardFails /\ UNCHANGED answers
  /\ UNCHANGED <<early, delivered, upstream, whole>>

\* Statuses of a copied and of a timed-out response body.
BodyStatus == IF req = "websocket" THEN "websocket_non_101_response" ELSE "forwarded"
TimeoutStatus == IF req = "websocket" THEN "websocket_non_101_response_body_timeout"
                                      ELSE "response_body_timeout"
RequestStatus == IF req = "websocket" THEN "websocket_forwarded" ELSE "forwarded"

\* The body is copied until the upstream closes.
CopyBody ==
  /\ pc = "stream" /\ client = "up"
  /\ whole' = TRUE
  /\ pc' = "close" /\ verdict' = BodyStatus
  /\ events' = events
       \o (IF capture /\ req # "websocket" THEN <<Event("mitm_payload", "response")>> ELSE <<>>)
       \o <<Event("mitm_request", RequestStatus), Event("mitm_response", BodyStatus)>>
  /\ UNCHANGED <<form, capture, early, delivered, client, req, upstream, answers>>

\* The copy fails on the upstream's side or on the client's.
CopyBodyFails(clientSide) ==
  /\ pc = "stream"
  /\ client' = IF clientSide THEN "down" ELSE client
  /\ ForwardFails
  /\ UNCHANGED <<early, delivered, upstream, answers, whole>>

\* Mutants: the timeout returns what a complete copy returns; it is answered.
CopyBodyTimeoutAsDone ==
  /\ pc = "stream"
  /\ ForwardReturns(RequestStatus, BodyStatus, BodyStatus)
  /\ UNCHANGED peers

CopyBodyTimeoutAnswered ==
  /\ pc = "stream"
  /\ req' = "response_body_timeout" /\ pc' = "refuse"
  /\ UNCHANGED <<form, capture, peers, verdict, events>>

\* MITM_RESPONSE_BODY_COPY_TIMEOUT.
CopyBodyTimeout ==
  /\ pc = "stream"
  /\ ForwardReturns(RequestStatus, TimeoutStatus, TimeoutStatus)
  /\ UNCHANGED peers

\* The upstream's buffered frames follow the 101.
FlushTunnel(ok) ==
  /\ pc = "flushTunnel" /\ ClientWrite(ok)
  /\ IF ok THEN pc' = "websocket" /\ UNCHANGED <<form, capture, req, verdict, events>>
           ELSE ForwardFails
  /\ UNCHANGED <<early, delivered, upstream, answers, whole>>

\* The capturing copy logs a frame it has seen whole, in either direction.
CaptureFrame ==
  /\ pc = "websocket" /\ capture
  /\ Cardinality(Emitted("mitm_websocket_frame")) < MaxFrames
  /\ events' = Append(events, Event("mitm_websocket_frame", "captured"))
  /\ UNCHANGED <<pc, form, capture, peers, req, verdict>>

\* Either copy, with or without frame capture, ends by itself only.
WebSocketEnds(ok) ==
  /\ pc = "websocket"
  /\ whole' = ok
  /\ client' \in (IF ok THEN {client} ELSE {client, "down"})
  /\ LET status == IF ok THEN "websocket_tunnel_closed" ELSE "websocket_tunnel_error"
     IN  ForwardReturns("websocket_forwarded", status, status)
  /\ UNCHANGED <<early, delivered, upstream, answers>>

-----------------------------------------------------------------------------
\* The process ends: the task is dropped at its await and emits nothing more.
Dropped ==
  /\ pc \notin Ended
  /\ pc' = "gone"
  /\ UNCHANGED <<form, capture, peers, req, verdict, events>>

\* What a timer ends: HEADER_READ_TIMEOUT and the MITM_*_TIMEOUTs.
Timeout ==
  ReadHeadFails \/ HandshakeFails \/ ReadRequestFails \/ ReadBodyTimeout
    \/ DialUpstream(FALSE) \/ ReadResponseFails \/ CopyBodyTimeout

\* Writes to the client, which end when it takes them or is found gone.
ClientTakes ==
  \/ \E ok \in BOOLEAN :
       \/ AnswerPlain(ok) \/ AnswerError(ok) \/ Acknowledge(ok) \/ AnswerNoAcceptor(ok)
       \/ RefuseRequest(ok) \/ WriteHead(ok) \/ FlushTunnel(ok) \/ GatewayError(ok)
  \/ CloseTls

\* What a peer brings about, or never does.
PeerStep ==
  \/ \E f \in Forms \ {"none"}, n \in 0..MaxItems : ReadHead(f, n)
  \/ \E r \in Requests \ {"none"} : ReadRequest(r)
  \/ \E got \in {"nothing", "part", "whole"}, ok \in BOOLEAN : SendUpstream(got, ok)
  \/ \E status \in {"closed", "error"} : TunnelEnds(status)
  \/ \E b \in BOOLEAN :
       Dial(b) \/ ReadResponse(b) \/ CopyBodyFails(b) \/ WebSocketEnds(b)
  \/ CopyItem \/ Handshake \/ ReadBody \/ ReadBodyFails \/ DialUpstream(TRUE)
  \/ CopyBody \/ CaptureFrame

Next == Timeout \/ ClientTakes \/ PeerStep \/ Dropped

\* A timer that has run out is polled.  The client takes what is written to it
\* or its stream breaks; nothing is assumed of an upstream, nor that a client
\* ever sends anything.
Spec == Init /\ [][Next]_vars /\ WF_vars(Timeout) /\ WF_vars(ClientTakes)

-----------------------------------------------------------------------------
(* Properties.                                                             *)

TypeOK ==
  /\ pc \in Timed \union Writes \union Unbounded \union Ended
  /\ form \in Forms /\ capture \in BOOLEAN
  /\ early \in 0..MaxItems /\ delivered \in Seq(1..MaxItems)
  /\ client \in {"up", "down"}
  /\ req \in Requests \union {"request_body_timeout"}
  /\ upstream \in {"nothing", "part", "whole"}
  /\ answers \in Seq({"refusal", "upstream", "101", "gateway"})
  /\ whole \in BOOLEAN
  /\ \A i \in DOMAIN events : events[i].type \in EventTypes

\* The place of an event in a connection's story.
Rank(e) ==
  CASE e.type = "mitm_tls" -> 1
    [] e = Event("mitm_payload", "request") -> 2
    [] e = Event("mitm_payload", "response") -> 3
    [] e.type = "mitm_websocket_frame" -> 4
    [] e.type = "mitm_request" -> 5
    [] e.type = "mitm_response" -> 6
    [] e.type = "proxy_request" -> 7

\* A connection's events come in one order, each type once (a payload once per
\* direction, frames any number of times) on every path through the handlers:
\* read forwards, a proxy_request closes the connection's story.
LogOrder ==
  \A i, j \in DOMAIN events :
    i < j => \/ Rank(events[i]) < Rank(events[j])
             \/ {i, j} \subseteq Emitted("mitm_websocket_frame")

\* Only a connection whose client was lost before anything was done for it
\* ends without a proxy_request event.
Logged ==
  pc = "done" /\ Emitted("proxy_request") = {} =>
    client = "down" /\ delivered = <<>> /\ upstream = "nothing" /\ answers = <<>>

\* A response is logged as forwarded only if the upstream had the request and
\* the client has the upstream's response to its end and no other answer.
ForwardedIsTrue ==
  \A i \in Emitted("mitm_response") :
    events[i].status \in {"forwarded", "websocket_non_101_response"} =>
      whole /\ upstream = "whole" /\ answers = <<"upstream">>

\* A request logged as refused was answered locally, and nothing of it, not
\* even of its body, went upstream.
RefusedStaysLocal ==
  \A i \in Emitted("mitm_request") :
    events[i].status \in Refused \union {"request_body_timeout"} =>
      upstream = "nothing" /\ answers = <<"refusal">>

\* Whoever sent a request that could be read gets an answer, unless gone.
Answered ==
  pc = "done" /\ req # "none" /\ client = "up" => answers # <<>>

\* A second head on the decrypted stream is always the local 502 behind a
\* response that broke off, and that exchange is never logged as a success.
SecondAnswerIsGateway ==
  Len(answers) > 1 =>
    /\ answers \in {<<"upstream", "gateway">>, <<"101", "gateway">>}
    /\ ~whole /\ upstream = "whole"
    /\ \A i \in Emitted("mitm_response") : events[i].status = "error"

\* With a client that takes what it is sent, whatever the upstream does and
\* whatever the client leaves unsent, a connection that is not over gets to one
\* of four places again and again: the dial or the copy of a tunnel, the write
\* of a request upstream, and an open WebSocket.  Nothing else keeps a task.
KeptByPeerOnly == []<>(pc \in Unbounded \union Ended)

\* README.md: connections that are not intercepted "are tunneled unchanged".
TunnelUnchanged == IsPrefix(delivered, [i \in 1..MaxItems |-> i])

=============================================================================
