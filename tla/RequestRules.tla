---------------------------- MODULE RequestRules ----------------------------
(***************************************************************************)
(* What is read, checked, rewritten and added on the way of a decrypted    *)
(* request (src/crates/marsala/src/proxy.rs): the CONNECT target and its   *)
(* action, the checks of forward_mitm_http1_request, the request head that *)
(* goes upstream and the response head that goes to the client.            *)
(*                                                                         *)
(* An authority is [host, bracket, user, port]: user says that user        *)
(* information stands before the host; port is "none" without one and      *)
(* "bad" if it is no number of a port or, behind a bracket, any other      *)
(* text.  A header is [name, value]; the names are lower case, as          *)
(* read_proxy_request makes them.  A Content-Length is [number, form]: of  *)
(* digits, with a plus sign that parse::<usize> takes, or of any other     *)
(* form that it does not.                                                  *)
(***************************************************************************)
EXTENDS Configuration, Sequences, SequencesExt

CONSTANTS
  Layers,       \* what a file or the environment may set of the configuration
  Connects,     \* the authorities asked for with CONNECT
  Requests,     \* the decrypted requests
  Responses     \* the response heads of the upstream

\* A head lists its headers.
ASSUME HeadsAssumption ==
  \A head \in Requests \union Responses : head.headers \in Seq(ToSet(head.headers))

VARIABLES
  stage,      \* load, connect, check, forward, respond, end
  config,     \* AppConfig
  connect,    \* [host, port] of the CONNECT
  request,    \* the decrypted request
  verdict,    \* what became of it, "none" before
  upstream,   \* the request the upstream reads, and the body bytes behind it
  response,   \* the upstream's response head
  answer      \* the response head the client reads

rules == <<stage, config, connect, request, verdict, upstream, response, answer>>

Nothing == [none |-> TRUE]

-----------------------------------------------------------------------------
(* Reading.                                                                *)

Values(headers, name) ==
  FlattenSeq([i \in DOMAIN headers |->
                IF headers[i].name = name THEN <<headers[i].value>> ELSE <<>>])
Lengths == [number : Nat, form : {"digits", "signed", "other"}]
ASSUME LengthsAssumption ==
  \A r \in Requests : Values(r.headers, "content-length") \in Seq(Lengths)

Has(headers, name) == \E i \in DOMAIN headers : headers[i].name = name

\* header_value: the first of the name.
HeaderValue(headers, name) == Head(Values(headers, name))

\* connection_header_tokens
ConnectionTokens(headers) == UNION ToSet(Values(headers, "connection"))

\* parse_authority: a port that is no number is an error, behind a bracket it
\* is no port.  An address with colons that lacks its brackets loses its end.
\* User information is dropped.  (What is forwarded is not what was parsed,
\* but the header or the target as it came.)
ParseAuthority(authority, default) ==
  IF authority.bracket
  THEN [host |-> authority.host,
        port |-> IF authority.port \in {"none", "bad"} THEN default ELSE authority.port]
  ELSE IF authority.port = "bad" THEN Nothing
  ELSE IF authority.port = "none" /\ "colon" \in authority.host.marks
  THEN [host |-> Host("cut"), port |-> "cut"]
  ELSE [host |-> authority.host,
        port |-> IF authority.port = "none" THEN default ELSE authority.port]

\* authority_matches
AuthorityMatches(authority) ==
  /\ authority # Nothing
  /\ SameIgnoringCase(connect.host, authority.host) /\ connect.port = authority.port

-----------------------------------------------------------------------------
(* Checking.                                                               *)

\* Schemes of an absolute-form target, by the spelling; origin-form has "origin".
IsHttp(scheme) == scheme \in {"http", "HTTP", "https", "HTTPS"}
DefaultPort(scheme) == IF scheme \in {"http", "HTTP"} THEN "80" ELSE "443"

\* Mutant: one Host header that matches is enough.
AnyHostMatches(hosts) ==
  hosts = <<>> \/ \E i \in DOMAIN hosts : AuthorityMatches(ParseAuthority(hosts[i], "443"))

EachHostMatches(hosts) ==
  \A i \in DOMAIN hosts : AuthorityMatches(ParseAuthority(hosts[i], "443"))

\* validate_mitm_request_authority
ValidAuthority(r) ==
  LET absolute == IsHttp(r.scheme)
  IN  /\ absolute => AuthorityMatches(ParseAuthority(r.authority, DefaultPort(r.scheme)))
      /\ EachHostMatches(Values(r.headers, "host"))
      /\ absolute \/ Has(r.headers, "host")

None == [number |-> 0, form |-> "digits"]
Invalid == [number |-> 0, form |-> "other"]

\* Mutant: of several Content-Length headers the first counts.
FirstLength(headers) ==
  LET lengths == Values(headers, "content-length")
  IN  IF lengths = <<>> THEN None ELSE Head(lengths)

\* request_content_length: more than one is refused, whether they agree or not.
ContentLength(headers) ==
  LET lengths == Values(headers, "content-length")
  IN  CASE lengths = <<>> -> None
        [] Len(lengths) = 1 -> Head(lengths)
        [] OTHER -> Invalid

\* The names that begin with sec-websocket-.
WebSocketHeaders == {"sec-websocket-key", "sec-websocket-version", "sec-websocket-protocol"}

\* is_websocket_upgrade, websocket_upgrade_attempt, unsupported_http_upgrade_request
IsWebSocketUpgrade(r) ==
  Has(r.headers, "upgrade") /\ HeaderValue(r.headers, "upgrade") = "websocket"
UpgradeAttempt(r) ==
  \/ IsWebSocketUpgrade(r)
  \/ "upgrade" \in ConnectionTokens(r.headers)
  \/ \E name \in WebSocketHeaders : Has(r.headers, name)
UnsupportedUpgrade(r) ==
  Has(r.headers, "upgrade") /\ HeaderValue(r.headers, "upgrade") # "websocket"

\* validate_websocket_upgrade_request
ValidWebSocket(r) ==
  /\ r.method = "GET"
  /\ IsWebSocketUpgrade(r)
  /\ "upgrade" \in ConnectionTokens(r.headers)
  /\ Has(r.headers, "sec-websocket-key") /\ HeaderValue(r.headers, "sec-websocket-key") # ""
  /\ Has(r.headers, "sec-websocket-version")
  /\ HeaderValue(r.headers, "sec-websocket-version") = "13"
  /\ ~Has(r.headers, "transfer-encoding")
  /\ ContentLength(r.headers).form # "other" /\ ContentLength(r.headers).number = 0

\* The checks of forward_mitm_http1_request, in their order.
Check(r) ==
  IF r.method = "PRI" /\ r.scheme = "*" /\ r.version = "HTTP/2.0" THEN "http2_unsupported"
  ELSE IF r.version # "HTTP/1.1" THEN "http_version_unsupported"
  ELSE IF ~ValidAuthority(r) THEN "authority_mismatch"
  ELSE IF UnsupportedUpgrade(r) THEN "upgrade_unsupported"
  ELSE IF UpgradeAttempt(r)
  THEN IF ValidWebSocket(r) THEN "websocket" ELSE "websocket_malformed"
  ELSE IF Has(r.headers, "transfer-encoding") THEN "request_body_streaming_unsupported"
  ELSE IF ContentLength(r.headers).form = "other" THEN "invalid_content_length"
  ELSE IF ContentLength(r.headers).number > config.max_request_body_bytes
  THEN "request_body_too_large"
  ELSE "forward"

-----------------------------------------------------------------------------
(* Rewriting.                                                              *)

ProxyHeaders == {"connection", "keep-alive", "proxy-authenticate", "proxy-authorization",
                 "proxy-connection", "te", "trailer", "upgrade"}

Without(headers, names) ==
  FlattenSeq([i \in DOMAIN headers |->
                IF headers[i].name \in names THEN <<>> ELSE <<headers[i]>>])
Header(name, value) == [name |-> name, value |-> value]

\* filter_upstream_request_headers, filter_downstream_response_headers: the
\* headers that Connection names go too; a response keeps transfer-encoding.
FilterRequest(headers) ==
  Without(headers, ProxyHeaders \union {"transfer-encoding"} \union ConnectionTokens(headers))
FilterResponse(headers) == Without(headers, ProxyHeaders \union ConnectionTokens(headers))

\* filter_upstream_websocket_request_headers and its downstream counterpart.
FilterWebSocket(headers) == Without(headers, ProxyHeaders \union {"transfer-encoding"})

\* upstream_request_target: only the lower-case schemes are taken off.
UpstreamTarget(r) ==
  IF r.scheme \in {"http", "https"}
  THEN [scheme |-> "origin", authority |-> Nothing]
  ELSE [scheme |-> r.scheme, authority |-> r.authority]

\* authority_for_host_header: an address gets no brackets.
HostHeader ==
  Header("host", [host |-> connect.host, bracket |-> FALSE, user |-> FALSE,
                  port |-> IF connect.port = "443" THEN "none" ELSE connect.port])
AddedHost(r) == IF Has(r.headers, "host") THEN <<>> ELSE <<HostHeader>>

\* write_upstream_request, write_upstream_websocket_request
UpstreamRequest(r) ==
  [method |-> r.method, target |-> UpstreamTarget(r),
   headers |-> FilterRequest(r.headers) \o AddedHost(r)
                 \o <<Header("connection", {"close"})>>,
   body |-> ContentLength(r.headers).number]
UpstreamUpgrade(r) ==
  [method |-> r.method, target |-> UpstreamTarget(r),
   headers |-> FilterWebSocket(r.headers) \o AddedHost(r)
                 \o <<Header("upgrade", HeaderValue(r.headers, "upgrade")),
                      Header("connection", {"upgrade"})>>,
   body |-> 0]

\* serialize_downstream_response, serialize_downstream_websocket_response
ClientResponse(r) ==
  [status |-> r.status,
   headers |-> FilterResponse(r.headers) \o <<Header("connection", {"close"})>>]
ClientSwitch(r) ==
  LET given(name, default) ==
        IF Has(r.headers, name) THEN HeaderValue(r.headers, name) ELSE default
  IN  [status |-> r.status,
       headers |-> FilterWebSocket(r.headers) \o
                     <<Header("upgrade", given("upgrade", "websocket")),
                       Header("connection", given("connection", {"upgrade"}))>>]

-----------------------------------------------------------------------------
RulesInit ==
  /\ stage = "load" /\ verdict = "none"
  /\ \E file, explicit, environment \in Layers :
       config = Load(file, explicit, environment)
  /\ connect = Nothing /\ request = Nothing /\ upstream = Nothing
  /\ response = Nothing /\ answer = Nothing

\* A configuration that is not valid is an error, and the command ends.
LoadConfig ==
  /\ stage = "load"
  /\ stage' = IF Validate(config) THEN "connect" ELSE "end"
  /\ UNCHANGED <<config, connect, request, verdict, upstream, response, answer>>

\* handle_connect: only a host to intercept goes on to the checks.
Connect ==
  /\ stage = "connect"
  /\ \E authority \in Connects :
       LET target == ParseAuthority(authority, "443")
           mitm == target # Nothing /\ ConnectAction(config, target.host) = "mitm"
       IN  /\ connect' = target
           /\ verdict' = IF target = Nothing THEN "bad_target"
                         ELSE IF mitm THEN "none" ELSE "tunnel"
           /\ stage' = IF mitm THEN "check" ELSE "end"
  /\ UNCHANGED <<config, request, upstream, response, answer>>

CheckRequest ==
  /\ stage = "check"
  /\ request' \in Requests
  /\ verdict' = Check(request')
  /\ stage' = IF verdict' \in {"forward", "websocket"} THEN "forward" ELSE "end"
  /\ UNCHANGED <<config, connect, upstream, response, answer>>

Forward ==
  /\ stage = "forward" /\ stage' = "respond"
  /\ upstream' = IF verdict = "forward" THEN UpstreamRequest(request)
                 ELSE UpstreamUpgrade(request)
  /\ UNCHANGED <<config, connect, request, verdict, response, answer>>

\* An upstream that does not switch answers an upgrade as any request.
Respond ==
  /\ stage = "respond" /\ stage' = "end"
  /\ response' \in Responses
  /\ answer' = IF verdict = "websocket" /\ response'.status = "101"
               THEN ClientSwitch(response') ELSE ClientResponse(response')
  /\ UNCHANGED <<config, connect, request, verdict, upstream>>

RulesNext == LoadConfig \/ Connect \/ CheckRequest \/ Forward \/ Respond

RulesSpec == RulesInit /\ [][RulesNext]_rules

-----------------------------------------------------------------------------
Forwarded == upstream # Nothing

\* Whatever the CONNECT, the configuration and the request are, every name of
\* a host that the upstream is given, in Host headers and in the target, is
\* the CONNECT's; and it is given one.  The configuration has its part in it:
\* HostHeader would break an address, and no address can be allowed.  A name
\* is what parse_authority finds in an authority: of what it drops, user
\* information goes to the upstream too.  (A Connection header that names host
\* takes it away, and a target of another scheme than http and https is not
\* looked at.)
AuthorityKept ==
  Forwarded =>
    LET hosts == Values(upstream.headers, "host")
        target == upstream.target
    IN  /\ \A i \in DOMAIN hosts : AuthorityMatches(ParseAuthority(hosts[i], "443"))
        /\ IsHttp(target.scheme) =>
             AuthorityMatches(ParseAuthority(target.authority, DefaultPort(target.scheme)))
        /\ \/ hosts # <<>> \/ IsHttp(target.scheme)
           \/ verdict = "forward" /\ "host" \in ConnectionTokens(request.headers)

\* A reader of headers that takes a Content-Length of digits only, as RFC 9110
\* has it, finds the length of the body that follows.
LengthIsRead(head) ==
  LET lengths == Values(head.headers, "content-length")
  IN  \/ lengths = <<>> /\ head.body = 0
      \/ lengths = <<[number |-> head.body, form |-> "digits"]>>

\* Where a message ends, and that it asks for an upgrade, is read the same by
\* Marsala and by who gets it from Marsala: the upstream finds the length of
\* the body that follows, in one header of digits, and no other framing; a 101
\* and the request for it arrive with all that makes them an upgrade, once.
\* Two requests are excepted from the length: one whose Connection header names
\* content-length goes without it, and one whose length has a plus sign goes
\* with the sign (LengthsAreDigits).
MessagesKept ==
  Forwarded =>
    /\ ~Has(upstream.headers, "transfer-encoding")
    /\ LET lengths == Values(upstream.headers, "content-length")
       IN  \/ LengthIsRead(upstream)
           \/ verdict = "forward" /\ lengths = <<>>
                /\ "content-length" \in ConnectionTokens(request.headers)
           \/ lengths = <<[number |-> upstream.body, form |-> "signed"]>>
                /\ Values(request.headers, "content-length") = lengths
    /\ verdict = "websocket" =>
         /\ Values(upstream.headers, "upgrade") = <<"websocket">>
         /\ Values(upstream.headers, "connection") = <<{"upgrade"}>>
         /\ Has(upstream.headers, "sec-websocket-key")
         /\ Has(upstream.headers, "sec-websocket-version")
    /\ answer # Nothing =>
         /\ Len(Values(answer.headers, "connection")) = 1
         /\ Len(Values(answer.headers, "upgrade")) =
              IF verdict = "websocket" /\ answer.status = "101" THEN 1 ELSE 0
         /\ \A name \in {"content-length", "transfer-encoding"} :
              \/ Values(answer.headers, name) = Values(response.headers, name)
              \/ name \in ConnectionTokens(response.headers)
              \/ verdict = "websocket" /\ answer.status = "101"

\* What proxy.rs:1056-1057 answers, "mitm_invalid_content_length" and "Marsala
\* rejected an ambiguous or invalid Content-Length header": a length that is
\* not of digits, which no reader by RFC 9110 takes, does not go upstream.  It
\* is not so: parse::<usize> takes a plus sign, and the header is copied.
LengthsAreDigits ==
  Forwarded =>
    \A length \in ToSet(Values(upstream.headers, "content-length")) : length.form = "digits"

=============================================================================
