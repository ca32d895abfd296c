--------------------------- MODULE MCRequestRules ---------------------------
(* An instance of RequestRules for TLC.                                    *)
EXTENDS RequestRules

a == Host("a")
b == Host("b")
UpperA == [a EXCEPT !.upper = TRUE]
Address == [Host("address") EXCEPT !.marks = {"colon"}]
Odd(mark) == [a EXCEPT !.marks = {mark}]

\* What a source sets: everything it takes, or one field.
Mitm(hosts) == [proxy |-> TRUE, mitm |-> TRUE, allow_hosts |-> hosts]
MCLayers ==
  {<<>>, Mitm({a}), Mitm({UpperA}), Mitm({}), [mitm |-> FALSE], [proxy |-> FALSE],
   [default_action |-> "mitm"], [max_request_body_bytes |-> 0], [ca_paths |-> FALSE]}
    \union {[allow_hosts |-> {a, host}] : host \in {Host(""), b, Address} \union
              {Odd(mark) : mark \in Marks}}

Authority(host, port) ==
  [host |-> host, bracket |-> FALSE, user |-> FALSE, port |-> port]
Bracketed(host, port) == [Authority(host, port) EXCEPT !.bracket = TRUE]
WithUser(authority) == [authority EXCEPT !.user = TRUE]

MCConnects ==
  {Authority(host, port) : host \in {a, UpperA, b}, port \in {"none", "8443", "bad"}}
    \union {Bracketed(Address, port) : port \in {"none", "443", "bad"}}
    \union {Authority(Address, "none"), WithUser(Authority(a, "none"))}

\* Headers that may stand before and behind those of a regular request.
Given(name, values) == {Header(name, value) : value \in values}
Extra ==
  Given("host", {Authority(a, "none"), Authority(UpperA, "8443"), Authority(a, "80"),
                 Authority(b, "none"), Authority(a, "bad"), Bracketed(Address, "none"),
                 Bracketed(a, "bad"), WithUser(Authority(a, "none"))})
    \union Given("content-length", [number : 1..2, form : {"digits"}] \union
                   {[number |-> 3, form |-> "digits"], [number |-> 1, form |-> "signed"],
                    Invalid})
    \union Given("connection", {{"upgrade"}, {"host", "close"}, {"content-length"}})
    \union Given("upgrade", {"websocket", "other"})
    \union Given("sec-websocket-key", {"", "key"})
    \union Given("sec-websocket-version", {"12"})
    \union Given("sec-websocket-protocol", {"other"})
    \union Given("transfer-encoding", {"chunked"})
    \union Given("cookie", {"private"})

Regular(host) == <<Header("host", host)>>
Upgrading(host) ==
  Regular(host) \o
    <<Header("upgrade", "websocket"), Header("connection", {"upgrade"}),
      Header("sec-websocket-key", "key"), Header("sec-websocket-version", "13")>>
Bases ==
  UNION {{Regular(host), Upgrading(host)} \union
           {RemoveAt(Upgrading(host), i) : i \in DOMAIN Upgrading(host)} :
           host \in {Authority(a, "none"), Authority(a, "8443"), Bracketed(Address, "none")}}
    \union {<<>>}
UpToOne == {<<>>} \union {<<h>> : h \in Extra}

Get == [method |-> "GET", version |-> "HTTP/1.1", scheme |-> "origin", authority |-> Nothing,
        headers |-> Regular(Authority(a, "none"))]

\* Origin-form with all the headers, and every target with some.
Targets ==
  [scheme : {"http", "https", "HTTPS", "ws"},
   authority : {Authority(host, port) : host \in {a, b}, port \in {"none", "443", "8443"}}
                 \union {Bracketed(Address, "none"), WithUser(Authority(a, "none"))}]
MCRequests ==
  {[Get EXCEPT !.headers = before \o base \o behind] :
     before \in UpToOne, base \in Bases, behind \in UpToOne}
    \union {target @@ [Get EXCEPT !.headers = headers] :
              target \in Targets, headers \in {<<>>, Upgrading(Authority(a, "8443")),
                                               Tail(Upgrading(Authority(a, "none")))}}
    \union {[Get EXCEPT !.method = "POST", !.headers = Upgrading(Authority(a, "none"))],
            [Get EXCEPT !.version = "HTTP/1.0"],
            [Get EXCEPT !.method = "PRI", !.version = "HTTP/2.0", !.scheme = "*"]}

MCResponses ==
  [status : {"101", "200"},
   headers : {<<>>, <<Header("content-length", None)>>,
              <<Header("upgrade", "websocket"), Header("connection", {"upgrade"})>>,
              <<Header("transfer-encoding", "chunked"), Header("connection", {"close"}),
                Header("connection", {"transfer-encoding"})>>}]

=============================================================================
