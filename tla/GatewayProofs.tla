---------------------------- MODULE GatewayProofs ---------------------------
(***************************************************************************)
(* Proofs about Gateway, for any set of requests and any length of their   *)
(* streams.                                                                *)
(*                                                                         *)
(* Each property relates a request's state to its records in the log.      *)
(* Story says, for every state of a request, which records it has; Calls,  *)
(* what they say of the call of its upstream; Stream, what the last one    *)
(* says of its body.  A step adds records of one request only, so that the *)
(* others keep their stories whatever the interleaving.                    *)
(***************************************************************************)
EXTENDS Gateway, TLAPS, SequenceTheorems

Request ==
  [pc : {"idle", "body", "upstream", "stream", "over", "reply", "done"},
   route : {"chat", "responses"}, id : Nat, streamed : BOOLEAN,
   sent : {"nothing", "inbound", "key"}, ended : {"open", "end", "error"},
   chunks : Nat, logged : BOOLEAN, left : BOOLEAN]

Kinds == {"request", "response", "http"}
Errors == {"rejected", "invalid_request_error", "unsupported_streaming",
           "authorization_error", "configuration_error", "invalid_upstream_response",
           "upstream_timeout", "upstream_connection_error"}
Whats == Errors \union {"marsala_local", "upstream", "completed", "error", "interrupted"}
Record ==
  [by : Requests, type : Kinds, what : Whats]
    \union [by : Requests, type : Kinds, what : Whats, chunks : Nat]

Told(s) == {s[i] : i \in DOMAIN s}
Said == Told(log)

\* Record e may come behind record d.
Follows(d, e) == d.by = e.by => d.type # e.type /\ e.type # "request"
Ordered(s) == \A i, j \in DOMAIN s : i < j => Follows(s[i], s[j])

\* Request r in state q has a record of this type in S.
Has(r, S, type) == \E e \in S : e.by = r /\ e.type = type

\* The records request r has when its state is q.
Story(r, q, S) ==
  /\ Has(r, S, "request") <=> q.id # 0
  /\ Has(r, S, "http") <=> \/ q.pc \in {"stream", "over", "reply"}
                           \/ q.pc = "done" /\ (q.logged \/ ~q.left)
  /\ Has(r, S, "response") <=>
       q.logged \/ (q.pc \in {"reply", "done"} /\ q.id # 0 /\ ~q.left)
  /\ q.pc \in {"idle", "body"} => q.id = 0
  /\ q.pc \in {"upstream", "stream", "over"} => q.id # 0
  /\ q.pc \in {"idle", "body", "upstream", "stream", "reply"} => ~q.logged
  /\ q.pc = "over" => q.logged
  /\ q.logged => q.id # 0
  /\ q.left => q.pc = "done"

\* What the records say of the call of the upstream, in configuration c.
ByClient(c, route) == route = "responses" /\ c.mode = "inbound_authorization"
Calls(c, r, q, S) ==
  /\ q.sent # "nothing" <=>
       \E e \in S : /\ e.by = r /\ e.type = "request" /\ e.what = "upstream"
                    /\ ~(c.key = "unusable" /\ ~ByClient(c, q.route))
  /\ q.sent = "nothing" =>
       \A e \in S : e.by = r /\ e.type = "response" => e.what = "marsala_local"
  /\ q.sent = "inbound" => ByClient(c, q.route)
  /\ q.pc \in {"upstream", "stream", "over"} => q.sent # "nothing"

\* What the response's record says of a stream.
Stream(r, q, S) ==
  /\ q.pc \in {"idle", "body", "upstream", "stream"} => q.ended = "open"
  /\ q.pc = "over" => q.ended # "open"
  /\ \A e \in S : e.by = r /\ e.type = "response" =>
       /\ e.what = "completed" => q.ended = "end"
       /\ e.what = "error" => q.ended = "error"
       /\ e.what = "interrupted" => q.ended = "open" /\ q.left
       /\ e.what \in {"completed", "error", "interrupted"} => e.chunks = q.chunks

LogOK == log \in Seq(Record) /\ Ordered(log)

IdsOK ==
  /\ counter \in Nat \ {0}
  /\ \A r \in Requests : req[r].id < counter
  /\ \A r, s \in Requests : r # s /\ req[r].id = req[s].id => req[r].id = 0

GatewayInv ==
  /\ config \in [mode : Modes, key : Keys]
  /\ req \in [Requests -> Request]
  /\ LogOK /\ IdsOK
  /\ \A r \in Requests :
       Story(r, req[r], Said) /\ Calls(config, r, req[r], Said) /\ Stream(r, req[r], Said)

-----------------------------------------------------------------------------
(* Lemmas about records and the log.                                       *)

LEMMA RecordIs ==
  ASSUME NEW r \in Requests, NEW w \in Whats, NEW n \in Nat
  PROVE  /\ RequestEvent(r, w) \in Record /\ ResponseEvent(r, w) \in Record
         /\ HttpEvent(r, w) \in Record /\ StreamEvent(r, w, n) \in Record
         /\ \A e \in {RequestEvent(r, w), ResponseEvent(r, w), HttpEvent(r, w),
                      StreamEvent(r, w, n)} : e.by = r /\ e.what = w
         /\ RequestEvent(r, w).type = "request" /\ ResponseEvent(r, w).type = "response"
         /\ HttpEvent(r, w).type = "http"
         /\ StreamEvent(r, w, n).type = "response" /\ StreamEvent(r, w, n).chunks = n
BY DEF Record, Kinds, RequestEvent, ResponseEvent, HttpEvent, StreamEvent

\* A sequence of records in their order, and what it tells.
Tells(s, S) == s \in Seq(Record) /\ Ordered(s) /\ Told(s) = S

LEMMA TellsFew ==
  ASSUME NEW a \in Record, NEW b \in Record, NEW c \in Record
  PROVE  /\ Tells(<<>>, {}) /\ Tells(<<a>>, {a})
         /\ Follows(a, b) => Tells(<<a, b>>, {a, b})
         /\ Follows(a, b) /\ Follows(a, c) /\ Follows(b, c) => Tells(<<a, b, c>>, {a, b, c})
<1>1. Tells(<<>>, {})
  BY EmptySeq DEF Tells, Ordered, Told
<1>2. Tells(<<a>>, {a})
  <2>1. <<a>> \in Seq(Record) /\ DOMAIN <<a>> = 1..1 /\ <<a>>[1] = a
    OBVIOUS
  <2> QED
    BY <2>1 DEF Tells, Ordered, Told
<1>3. ASSUME Follows(a, b) PROVE Tells(<<a, b>>, {a, b})
  <2> DEFINE s == <<a, b>>
  <2>1. s \in Seq(Record) /\ DOMAIN s = 1..2 /\ s[1] = a /\ s[2] = b
    OBVIOUS
  <2> HIDE DEF s
  <2>2. Ordered(s) /\ Told(s) = {a, b}
    BY <1>3, <2>1 DEF Ordered, Told
  <2> QED
    BY <2>1, <2>2 DEF Tells, s
<1>4. ASSUME Follows(a, b), Follows(a, c), Follows(b, c) PROVE Tells(<<a, b, c>>, {a, b, c})
  <2> DEFINE s == <<a, b, c>>
  <2>1. s \in Seq(Record) /\ DOMAIN s = 1..3 /\ s[1] = a /\ s[2] = b /\ s[3] = c
    OBVIOUS
  <2> HIDE DEF s
  <2>2. Ordered(s) /\ Told(s) = {a, b, c}
    BY <1>4, <2>1 DEF Ordered, Told
  <2> QED
    BY <2>1, <2>2 DEF Tells, s
<1> QED
  BY <1>1, <1>2, <1>3, <1>4

LEMMA TellsBoth ==
  ASSUME NEW s, NEW S, Tells(s, S), NEW t, NEW T, Tells(t, T),
         \A d \in S, e \in T : Follows(d, e)
  PROVE  Tells(s \o t, S \union T)
<1> DEFINE m == Len(s)
           n == Len(t)
           u == s \o t
<1>1. /\ m \in Nat /\ n \in Nat /\ u \in Seq(Record) /\ Len(u) = m + n
      /\ DOMAIN s = 1..m /\ DOMAIN t = 1..n /\ DOMAIN u = 1..(m + n)
  BY ConcatProperties, LenProperties DEF Tells
<1>2. \A i \in 1..(m + n) : u[i] = IF i <= m THEN s[i] ELSE t[i - m]
  BY ConcatProperties DEF Tells
<1>3. Ordered(s) /\ Told(s) = S /\ Ordered(t) /\ Told(t) = T
  BY DEF Tells
<1> HIDE DEF m, n, u
<1>4. /\ \A i \in 1..m : u[i] = s[i] /\ s[i] \in S
      /\ \A i \in (m + 1)..(m + n) : u[i] = t[i - m] /\ i - m \in 1..n /\ t[i - m] \in T
      /\ \A i \in 1..n : u[m + i] = t[i] /\ m + i \in 1..(m + n)
  <2>1. ASSUME NEW i \in 1..m
        PROVE  u[i] = s[i] /\ s[i] \in S
    BY <1>1, <1>2, <1>3, <2>1 DEF Told
  <2>2. \A j \in 1..n : t[j] \in T
    BY <1>1, <1>3 DEF Told
  <2>3. ASSUME NEW i \in (m + 1)..(m + n)
        PROVE  u[i] = t[i - m] /\ i - m \in 1..n /\ t[i - m] \in T
    <3>1. i \in 1..(m + n) /\ ~(i <= m) /\ i - m \in 1..n
      BY <1>1
    <3> QED
      BY <1>2, <2>2, <3>1
  <2>4. ASSUME NEW i \in 1..n
        PROVE  u[m + i] = t[i] /\ m + i \in 1..(m + n)
    <3>1. m + i \in 1..(m + n) /\ ~(m + i <= m) /\ (m + i) - m = i
      BY <1>1
    <3> QED
      BY <1>2, <3>1
  <2> QED
    BY <2>1, <2>3, <2>4
<1>5. Told(u) = S \union T
  <2>1. \A i \in 1..(m + n) : u[i] \in S \union T
    BY <1>1, <1>4
  <2>2. \A e \in S : \E i \in 1..(m + n) : u[i] = e
    BY <1>1, <1>3, <1>4 DEF Told
  <2>3. \A e \in T : \E i \in 1..(m + n) : u[i] = e
    BY <1>1, <1>3, <1>4 DEF Told
  <2> QED
    BY <1>1, <2>1, <2>2, <2>3 DEF Told
<1>6. Ordered(u)
  <2> SUFFICES ASSUME NEW i \in 1..(m + n), NEW j \in 1..(m + n), i < j
               PROVE  Follows(u[i], u[j])
    BY <1>1 DEF Ordered
  <2>1. CASE j <= m
    <3>1. i \in 1..m /\ j \in 1..m
      BY <1>1, <2>1
    <3> QED
      BY <1>1, <1>3, <1>4, <3>1 DEF Ordered
  <2>2. CASE i <= m /\ m < j
    <3>1. i \in 1..m /\ j \in (m + 1)..(m + n)
      BY <1>1, <2>2
    <3> QED
      BY <1>4, <3>1
  <2>3. CASE m < i
    <3>1. /\ i \in (m + 1)..(m + n) /\ j \in (m + 1)..(m + n) /\ i - m < j - m
          /\ i - m \in 1..n /\ j - m \in 1..n
      BY <1>1, <2>3
    <3>2. u[i] = t[i - m] /\ u[j] = t[j - m]
      BY <1>4, <3>1
    <3> QED
      BY <1>1, <1>3, <3>1, <3>2 DEF Ordered
  <2> QED
    BY <1>1, <2>1, <2>2, <2>3
<1> QED
  BY <1>1, <1>5, <1>6 DEF Tells, u

LEMMA LogTells == GatewayInv => Tells(log, Said)
BY DEF GatewayInv, LogOK, Tells, Said

\* The log after a step that emits t.
LEMMA NowTells ==
  ASSUME NEW t, NEW T, Tells(t, T), log' = t
  PROVE  LogOK' /\ Said' = T
BY DEF Tells, LogOK, Said, Told, Ordered

\* What is left to show of a step of request r to state q that tells T: what r's
\* records say.  The other requests have the records they had.
LEMMA StepInv ==
  ASSUME GatewayInv, NEW r \in Requests, NEW q \in Request, req' = [req EXCEPT ![r] = q],
         config' = config,
         NEW T, \A e \in T : e.by = r, LogOK', Said' = Said \union T,
         \/ q.id = req[r].id /\ counter' = counter
         \/ q.id = counter /\ counter' = counter + 1,
         Story(r, q, Said'), Calls(config, r, q, Said'), Stream(r, q, Said')
  PROVE  GatewayInv'
<1>1. /\ req' \in [Requests -> Request] /\ req'[r] = q
      /\ \A x \in Requests \ {r} : req'[x] = req[x]
  BY DEF GatewayInv
<1>2. IdsOK'
  <2>1. /\ counter \in Nat \ {0}
        /\ \A x \in Requests : req[x].id < counter /\ req[x].id \in Nat
        /\ \A x, y \in Requests : x # y /\ req[x].id = req[y].id => req[x].id = 0
    BY DEF GatewayInv, IdsOK, Request
  <2>2. counter' \in Nat \ {0} /\ counter' >= counter /\ q.id < counter'
    BY <2>1
  <2>3. \A x \in Requests : req'[x].id < counter'
    BY <1>1, <2>1, <2>2
  <2>4. \A x, y \in Requests : x # y /\ req'[x].id = req'[y].id => req'[x].id = 0
    BY <1>1, <2>1
  <2> QED
    BY <2>2, <2>3, <2>4 DEF IdsOK
<1>3. ASSUME NEW x \in Requests
      PROVE  /\ Story(x, req'[x], Said') /\ Calls(config', x, req'[x], Said')
             /\ Stream(x, req'[x], Said')
  <2>1. CASE x = r
    BY <1>1, <2>1
  <2>2. CASE x # r
    <3>1. /\ Story(x, req[x], Said) /\ Calls(config, x, req[x], Said)
          /\ Stream(x, req[x], Said)
      BY DEF GatewayInv
    <3>2. \A e \in Said' : e.by = x => e \in Said
      BY <2>2
    <3>3. Story(x, req[x], Said')
      BY <3>1, <3>2 DEF Story, Has
    <3>4. Calls(config, x, req[x], Said')
      BY <3>1, <3>2 DEF Calls
    <3>5. Stream(x, req[x], Said')
      BY <3>1, <3>2 DEF Stream
    <3> QED
      BY <1>1, <2>2, <3>3, <3>4, <3>5
  <2> QED
    BY <2>1, <2>2
<1> QED
  BY <1>1, <1>2, <1>3 DEF GatewayInv

LEMMA InboundIs == \A route : Inbound(route) <=> ByClient(config, route)
BY DEF Inbound, ByClient

\* The same, with the order of the log: r has no record yet of those it tells.
LEMMA EmitInv ==
  ASSUME GatewayInv, NEW r \in Requests, NEW q \in Request, req' = [req EXCEPT ![r] = q],
         config' = config,
         NEW t, NEW T, Tells(t, T), log' = log \o t,
         \A e \in T :
           /\ e.by = r /\ ~Has(r, Said, e.type)
           /\ e.type = "request" => ~Has(r, Said, "response") /\ ~Has(r, Said, "http"),
         \/ q.id = req[r].id /\ counter' = counter
         \/ q.id = counter /\ counter' = counter + 1,
         Story(r, q, Said \union T), Calls(config, r, q, Said \union T),
         Stream(r, q, Said \union T)
  PROVE  GatewayInv'
<1>1. \A d \in Said : d.type \in Kinds
  <2>1. Said \subseteq Record
    BY LogTells DEF Tells, Told
  <2> QED
    BY <2>1 DEF Record
<1>2. \A d \in Said, e \in T : Follows(d, e)
  BY <1>1 DEF Follows, Has, Kinds
<1>3. LogOK' /\ Said' = Said \union T
  BY <1>2, LogTells, TellsBoth, NowTells
<1> QED
  BY <1>3, StepInv

LEMMA HasMore ==
  ASSUME NEW r, NEW type
  PROVE  /\ \A S, T : Has(r, S \union T, type) <=> Has(r, S, type) \/ Has(r, T, type)
         /\ \A a : Has(r, {a}, type) <=> (a.by = r /\ a.type = type)
         /\ \A a, b : Has(r, {a, b}, type) <=> Has(r, {a}, type) \/ Has(r, {b}, type)
         /\ \A a, b, c : Has(r, {a, b, c}, type) <=>
              Has(r, {a}, type) \/ Has(r, {b}, type) \/ Has(r, {c}, type)
<1>1. \A S, T : Has(r, S \union T, type) <=> Has(r, S, type) \/ Has(r, T, type)
  BY DEF Has
<1>2. \A a : Has(r, {a}, type) <=> (a.by = r /\ a.type = type)
  BY DEF Has
<1>3. ASSUME NEW a, NEW b
      PROVE  Has(r, {a, b}, type) <=> Has(r, {a}, type) \/ Has(r, {b}, type)
  <2>1. {a, b} = {a} \union {b}
    OBVIOUS
  <2> QED
    BY <1>1, <2>1
<1>4. ASSUME NEW a, NEW b, NEW c
      PROVE  Has(r, {a, b, c}, type) <=>
               Has(r, {a}, type) \/ Has(r, {b}, type) \/ Has(r, {c}, type)
  <2>1. {a, b, c} = {a, b} \union {c}
    OBVIOUS
  <2>2. Has(r, {a, b} \union {c}, type) <=> Has(r, {a, b}, type) \/ Has(r, {c}, type)
    BY <1>1
  <2> QED
    BY <1>3, <2>1, <2>2
<1> QED
  BY <1>1, <1>2, <1>3, <1>4

-----------------------------------------------------------------------------
(* The steps.                                                              *)

\* The steps that emit nothing.
LEMMA QuietInv ==
  ASSUME GatewayInv, NEW r \in Requests, Arrive(r) \/ Replied(r) \/ Leave(r) \/ NextChunk(r)
  PROVE  GatewayInv'
<1>1. /\ req \in [Requests -> Request] /\ req[r] \in Request
      /\ Story(r, req[r], Said) /\ Calls(config, r, req[r], Said) /\ Stream(r, req[r], Said)
  BY DEF GatewayInv
<1>2. LogOK' /\ Said' = Said
  <2>1. log' = log
    BY DEF Arrive, Replied, Leave, NextChunk
  <2> QED
    BY <2>1, LogTells, NowTells
<1> DEFINE To(q) ==
      /\ req' = [req EXCEPT ![r] = q]
      /\ q.route = req[r].route /\ q.id = req[r].id /\ q.sent = req[r].sent
      /\ q.ended = req[r].ended /\ q.logged = req[r].logged
      /\ \/ /\ \/ req[r].pc = "idle" /\ q.pc = "body"
               \/ req[r].pc = "reply" /\ q.pc = "done"
            /\ q.left = req[r].left /\ q.chunks = req[r].chunks
         \/ /\ req[r].pc \in {"body", "upstream"} /\ q.pc = "done"
            /\ q.left = TRUE /\ q.chunks = req[r].chunks
         \/ req[r].pc = "stream" /\ q.pc = "stream" /\ q.left = req[r].left
<1>3. \E q \in Request : To(q)
  <2>1. CASE Arrive(r)
    <3> DEFINE q == [req[r] EXCEPT !.pc = "body"]
    <3>1. q \in Request /\ req[r].pc = "idle" /\ req' = [req EXCEPT ![r] = q]
      BY <1>1, <2>1 DEF Request, Arrive, Become
    <3> QED
      BY <1>1, <3>1 DEF Request
  <2>2. CASE Replied(r)
    <3> DEFINE q == [req[r] EXCEPT !.pc = "done"]
    <3>1. q \in Request /\ req[r].pc = "reply" /\ req' = [req EXCEPT ![r] = q]
      BY <1>1, <2>2 DEF Request, Replied, Become
    <3> QED
      BY <1>1, <3>1 DEF Request
  <2>3. CASE Leave(r)
    <3> DEFINE q == [req[r] EXCEPT !.pc = "done", !.left = TRUE]
    <3>1. q \in Request /\ req[r].pc \in {"body", "upstream"} /\ req' = [req EXCEPT ![r] = q]
      BY <1>1, <2>3 DEF Request, Leave, Become
    <3> QED
      BY <1>1, <3>1 DEF Request
  <2>4. CASE NextChunk(r)
    <3> DEFINE q == [req[r] EXCEPT !.chunks = @ + 1]
    <3>1. q \in Request /\ req[r].pc = "stream" /\ req' = [req EXCEPT ![r] = q]
      BY <1>1, <2>4 DEF Request, NextChunk
    <3> QED
      BY <1>1, <3>1 DEF Request
  <2> QED
    BY <2>1, <2>2, <2>3, <2>4
<1>4. PICK q \in Request : To(q)
  BY <1>3
<1>5. Story(r, q, Said)
  BY <1>1, <1>4 DEF Story
<1>6. Calls(config, r, q, Said)
  BY <1>1, <1>4 DEF Calls
<1>7. Stream(r, q, Said)
  <2>1. req[r].pc = "stream" => ~Has(r, Said, "response")
    BY <1>1 DEF Story
  <2> QED
    BY <1>1, <1>4, <2>1 DEF Stream, Has, Request
<1>8. config' = config /\ counter' = counter
  BY DEF Arrive, Replied, Leave, NextChunk
<1> DEFINE T == {}
<1>9. (\A e \in T : e.by = r) /\ Said' = Said \union T
  BY <1>2
<1> HIDE DEF T
<1> QED
  BY <1>2, <1>4, <1>5, <1>6, <1>7, <1>8, <1>9, StepInv

\* The handler's own answers, and the call of the upstream.
LEMMA HandlesInv ==
  ASSUME GatewayInv, NEW r \in Requests, RejectBody(r) \/ Handle(r)
  PROVE  GatewayInv'
<1>1. /\ req \in [Requests -> Request] /\ req[r] \in Request /\ counter \in Nat \ {0}
      /\ Story(r, req[r], Said) /\ Calls(config, r, req[r], Said) /\ Stream(r, req[r], Said)
      /\ req[r].pc = "body"
  <2>1. req[r].pc = "body"
    BY DEF RejectBody, Handle, AnswerLocally, FailUnsent, Forward
  <2> QED
    BY <2>1 DEF GatewayInv, IdsOK
<1>2. /\ \A type \in Kinds : ~Has(r, Said, type)
      /\ req[r].id = 0 /\ ~req[r].logged /\ ~req[r].left /\ req[r].ended = "open"
      /\ req[r].sent = "nothing" /\ req[r].chunks \in Nat
  <2>1. \A type \in Kinds : ~Has(r, Said, type)
    BY <1>1 DEF Story, Kinds
  <2> QED
    BY <1>1, <2>1 DEF Story, Calls, Stream, Request, Has, Kinds
<1>3. \A e \in Said : e.by = r => e.type \notin Kinds
  BY <1>2 DEF Has
<1>4. CASE RejectBody(r)
  <2> DEFINE q == [req[r] EXCEPT !.pc = "reply"]
             a == HttpEvent(r, "rejected")
             T == {a}
  <2>1. /\ q \in Request /\ req' = [req EXCEPT ![r] = q] /\ config' = config
        /\ counter' = counter /\ log' = log \o <<a>>
    BY <1>1, <1>4 DEF RejectBody, Become, Emit, Request
  <2>2. /\ q.pc = "reply" /\ q.id = 0 /\ q.id = req[r].id /\ ~q.logged /\ ~q.left
        /\ q.ended = "open" /\ q.sent = "nothing"
    BY <1>1, <1>2 DEF Request
  <2>3. "rejected" \in Whats
    BY DEF Whats, Errors
  <2>4. a \in Record /\ a.by = r /\ a.type = "http"
    BY <2>3, RecordIs
  <2> HIDE DEF q, a
  <2>5. Tells(<<a>>, T) /\ \A e \in T : e = a
    BY <2>4, TellsFew
  <2>6. \A type \in Kinds : Has(r, Said \union T, type) <=> type = "http"
    BY <1>2, <2>4, HasMore
  <2>7. \A e \in Said \union T : e.by = r => e.type = "http" \/ e.type \notin Kinds
    BY <1>3, <2>4
  <2> HIDE DEF T
  <2>8. Story(r, q, Said \union T)
    BY <2>2, <2>6 DEF Story, Kinds
  <2>9. Calls(config, r, q, Said \union T) /\ Stream(r, q, Said \union T)
    BY <2>2, <2>7 DEF Calls, Stream, Kinds
  <2>10. \A e \in T :
           /\ e.by = r /\ ~Has(r, Said, e.type)
           /\ e.type = "request" => ~Has(r, Said, "response") /\ ~Has(r, Said, "http")
    BY <1>2, <2>4, <2>5 DEF Kinds
  <2> QED
    BY <2>1, <2>2, <2>5, <2>8, <2>9, <2>10, EmitInv
<1>5. ASSUME NEW body \in {"invalid", "plain", "stream"}, NEW authorized \in BOOLEAN,
             AnswerLocally(r, body, authorized) \/ FailUnsent(r, body, authorized)
      PROVE  GatewayInv'
  <2> DEFINE q == Handled(r, "reply")
             a(w) == RequestEvent(r, w)
             b == ResponseEvent(r, "marsala_local")
             c(w) == HttpEvent(r, w)
  <2>1. PICK w \in {"marsala_local", "upstream"}, error \in Errors :
          /\ log' = log \o <<a(w), b, c(error)>>
          /\ w = "upstream" => config.key = "unusable" /\ ~ByClient(config, req[r].route)
    <3>1. CASE AnswerLocally(r, body, authorized)
      <4>1. LocalError(req[r].route, body, authorized) \in Errors \union {""}
        BY DEF LocalError, Errors
      <4>2. LocalError(req[r].route, body, authorized) # ""
        BY <3>1 DEF AnswerLocally
      <4> QED
        BY <3>1, <4>1, <4>2 DEF AnswerLocally, Emit
    <3>2. CASE FailUnsent(r, body, authorized)
      BY <3>2, InboundIs DEF FailUnsent, Emit, Errors
    <3> QED
      BY <1>5, <3>1, <3>2
  <2> DEFINE T == {a(w), b, c(error)}
  <2>2. /\ q \in Request /\ req' = [req EXCEPT ![r] = q] /\ config' = config
        /\ counter' = counter + 1
    BY <1>1, <1>5 DEF AnswerLocally, FailUnsent, Become, Emit, Request, Handled, NextId
  <2>3. /\ q.pc = "reply" /\ q.id = counter /\ q.id # 0 /\ ~q.logged /\ ~q.left
        /\ q.ended = "open" /\ q.sent = "nothing" /\ q.route = req[r].route
    BY <1>1, <1>2 DEF Request, Handled
  <2>4. w \in Whats /\ error \in Whats /\ "marsala_local" \in Whats
    BY DEF Whats
  <2>5. /\ a(w) \in Record /\ b \in Record /\ c(error) \in Record
        /\ a(w).by = r /\ b.by = r /\ c(error).by = r
        /\ a(w).type = "request" /\ b.type = "response" /\ c(error).type = "http"
        /\ a(w).what = w /\ b.what = "marsala_local"
    BY <2>4, RecordIs
  <2> HIDE DEF q, a, b, c
  <2>6. Tells(<<a(w), b, c(error)>>, T)
    BY <2>5, TellsFew DEF Follows
  <2>7. \A type \in Kinds : Has(r, Said \union T, type)
    <3>1. /\ a(w) \in Said \union T /\ b \in Said \union T /\ c(error) \in Said \union T
      OBVIOUS
    <3> QED
      BY <2>5, <3>1 DEF Has, Kinds
  <2>8. \A e \in Said \union T : e.by = r =>
          \/ e.type \notin Kinds
          \/ e.type = "request" /\ e.what = w
          \/ e.type = "response" /\ e.what = "marsala_local"
          \/ e.type = "http"
    BY <1>3, <2>5
  <2>9. \A e \in T :
          /\ e.by = r /\ ~Has(r, Said, e.type)
          /\ e.type = "request" => ~Has(r, Said, "response") /\ ~Has(r, Said, "http")
    BY <1>2, <2>5 DEF Kinds
  <2> HIDE DEF T
  <2>10. Story(r, q, Said \union T)
    BY <2>3, <2>7 DEF Story, Kinds
  <2>11. Calls(config, r, q, Said \union T) /\ Stream(r, q, Said \union T)
    BY <2>1, <2>3, <2>8 DEF Calls, Stream, Kinds
  <2> QED
    BY <2>1, <2>2, <2>3, <2>6, <2>9, <2>10, <2>11, EmitInv
<1>6. ASSUME NEW body \in {"invalid", "plain", "stream"}, NEW authorized \in BOOLEAN,
             Forward(r, body, authorized)
      PROVE  GatewayInv'
  <2> DEFINE sent == IF Inbound(req[r].route) THEN "inbound" ELSE "key"
             q == [Handled(r, "upstream") EXCEPT !.streamed = (body = "stream"), !.sent = sent]
             a == RequestEvent(r, "upstream")
             T == {a}
  <2>1. /\ q \in Request /\ req' = [req EXCEPT ![r] = q] /\ config' = config
        /\ counter' = counter + 1 /\ log' = log \o <<a>>
    BY <1>1, <1>6 DEF Forward, Become, Emit, Request, Handled, NextId
  <2>2. /\ q.pc = "upstream" /\ q.id = counter /\ q.id # 0 /\ ~q.logged /\ ~q.left
        /\ q.ended = "open" /\ q.sent = sent /\ q.route = req[r].route
    BY <1>1, <1>2 DEF Request, Handled
  <2>3. /\ sent # "nothing"
        /\ sent = "inbound" => ByClient(config, req[r].route)
        /\ ~(config.key = "unusable" /\ ~ByClient(config, req[r].route))
    BY <1>6, InboundIs DEF Forward
  <2>4. "upstream" \in Whats
    BY DEF Whats
  <2>5. a \in Record /\ a.by = r /\ a.type = "request" /\ a.what = "upstream"
    BY <2>4, RecordIs
  <2> HIDE DEF q, a, sent
  <2>6. Tells(<<a>>, T) /\ \A e \in T : e = a
    BY <2>5, TellsFew
  <2>7. \A type \in Kinds : Has(r, Said \union T, type) <=> type = "request"
    BY <1>2, <2>5, HasMore
  <2>8. /\ \A e \in Said \union T : e.by = r => e = a \/ e.type \notin Kinds
        /\ a \in Said \union T
    BY <1>3
  <2>9. \A e \in T :
          /\ e.by = r /\ ~Has(r, Said, e.type)
          /\ e.type = "request" => ~Has(r, Said, "response") /\ ~Has(r, Said, "http")
    BY <1>2, <2>5, <2>6 DEF Kinds
  <2> HIDE DEF T
  <2>10. Story(r, q, Said \union T)
    BY <2>2, <2>7 DEF Story, Kinds
  <2>11. Calls(config, r, q, Said \union T) /\ Stream(r, q, Said \union T)
    BY <2>2, <2>3, <2>5, <2>8 DEF Calls, Stream, Kinds
  <2> QED
    BY <2>1, <2>2, <2>6, <2>9, <2>10, <2>11, EmitInv
<1> QED
  BY <1>4, <1>5, <1>6 DEF Handle

\* The upstream answers, or does not.
LEMMA AnswersInv ==
  ASSUME GatewayInv, NEW r \in Requests,
         \/ UpstreamAnswers(r)
         \/ \E error \in {"upstream_timeout", "invalid_upstream_response",
                          "upstream_connection_error"} : UpstreamFails(r, error)
  PROVE  GatewayInv'
<1>1. /\ req \in [Requests -> Request] /\ req[r] \in Request
      /\ Story(r, req[r], Said) /\ Calls(config, r, req[r], Said) /\ Stream(r, req[r], Said)
      /\ req[r].pc = "upstream" /\ config' = config /\ counter' = counter
  <2>1. req[r].pc = "upstream" /\ config' = config /\ counter' = counter
    BY DEF UpstreamAnswers, UpstreamFails, Emit
  <2> QED
    BY <2>1 DEF GatewayInv
<1>2. /\ Has(r, Said, "request") /\ ~Has(r, Said, "response") /\ ~Has(r, Said, "http")
      /\ req[r].id # 0 /\ ~req[r].logged /\ ~req[r].left /\ req[r].ended = "open"
      /\ req[r].sent # "nothing"
  BY <1>1 DEF Story, Calls, Stream
<1>3. /\ \A e \in Said : e.by = r => e.type # "response" /\ e.type # "http"
      /\ req[r].sent = "inbound" => ByClient(config, req[r].route)
      /\ \E e \in Said : /\ e.by = r /\ e.type = "request" /\ e.what = "upstream"
                         /\ ~(config.key = "unusable" /\ ~ByClient(config, req[r].route))
  BY <1>1, <1>2 DEF Has, Calls
<1>4. CASE UpstreamAnswers(r) /\ req[r].streamed
  <2> DEFINE q == [req[r] EXCEPT !.pc = "stream"]
             a == HttpEvent(r, "upstream")
             T == {a}
  <2>1. q \in Request /\ req' = [req EXCEPT ![r] = q] /\ log' = log \o <<a>>
    BY <1>1, <1>4 DEF UpstreamAnswers, Become, Emit, Request
  <2>2. /\ q.pc = "stream" /\ q.id = req[r].id /\ ~q.logged /\ ~q.left
        /\ q.ended = "open" /\ q.sent = req[r].sent /\ q.route = req[r].route
    BY <1>1, <1>2 DEF Request
  <2>3. "upstream" \in Whats
    BY DEF Whats
  <2>4. a \in Record /\ a.by = r /\ a.type = "http"
    BY <2>3, RecordIs
  <2> HIDE DEF q, a
  <2>5. Tells(<<a>>, T) /\ \A e \in T : e = a
    BY <2>4, TellsFew
  <2>6. \A type \in Kinds : Has(r, Said \union T, type) <=> type \in {"request", "http"}
    <3>1. /\ Has(r, Said \union T, "request") /\ Has(r, Said \union T, "http")
          /\ ~Has(r, Said \union T, "response")
      BY <1>2, <2>4 DEF Has
    <3> QED
      BY <3>1 DEF Kinds
  <2>7. \A e \in Said \union T : e.by = r => e.type # "response"
    BY <1>3, <2>4
  <2>8. \A e \in T :
          /\ e.by = r /\ ~Has(r, Said, e.type)
          /\ e.type = "request" => ~Has(r, Said, "response") /\ ~Has(r, Said, "http")
    BY <1>2, <2>4, <2>5
  <2>9. \E e \in Said \union T :
          /\ e.by = r /\ e.type = "request" /\ e.what = "upstream"
          /\ ~(config.key = "unusable" /\ ~ByClient(config, q.route))
    BY <1>3, <2>2
  <2> HIDE DEF T
  <2>10. Story(r, q, Said \union T)
    BY <1>2, <2>2, <2>6 DEF Story, Kinds
  <2>11. Calls(config, r, q, Said \union T)
    BY <1>2, <1>3, <2>2, <2>7, <2>9 DEF Calls
  <2>12. Stream(r, q, Said \union T)
    BY <2>2, <2>7 DEF Stream
  <2> QED
    BY <1>1, <2>1, <2>2, <2>5, <2>8, <2>10, <2>11, <2>12, EmitInv
<1>5. ASSUME NEW source \in {"upstream", "marsala_local"}, NEW what \in Errors \union {"upstream"},
             req' = [req EXCEPT ![r] = [req[r] EXCEPT !.pc = "reply"]],
             log' = log \o <<ResponseEvent(r, source), HttpEvent(r, what)>>
      PROVE  GatewayInv'
  <2> DEFINE q == [req[r] EXCEPT !.pc = "reply"]
             a == ResponseEvent(r, source)
             b == HttpEvent(r, what)
             T == {a, b}
  <2>1. q \in Request /\ req' = [req EXCEPT ![r] = q] /\ log' = log \o <<a, b>>
    BY <1>1, <1>5 DEF Request
  <2>2. /\ q.pc = "reply" /\ q.id = req[r].id /\ ~q.logged /\ ~q.left
        /\ q.ended = "open" /\ q.sent = req[r].sent /\ q.route = req[r].route
    BY <1>1, <1>2 DEF Request
  <2>3. source \in Whats /\ what \in Whats
    BY DEF Whats
  <2>4. /\ a \in Record /\ a.by = r /\ a.type = "response" /\ a.what = source
        /\ b \in Record /\ b.by = r /\ b.type = "http"
    BY <2>3, RecordIs
  <2> HIDE DEF q, a, b
  <2>5. Tells(<<a, b>>, T) /\ \A e \in T : e = a \/ e = b
    BY <2>4, TellsFew DEF Follows
  <2>6. \A type \in Kinds : Has(r, Said \union T, type)
    <3>1. a \in Said \union T /\ b \in Said \union T
      OBVIOUS
    <3> QED
      BY <1>2, <2>4, <3>1 DEF Has, Kinds
  <2>7. \A e \in Said \union T : e.by = r /\ e.type = "response" => e.what = source
    BY <1>3, <2>4
  <2>8. \A e \in T :
          /\ e.by = r /\ ~Has(r, Said, e.type)
          /\ e.type = "request" => ~Has(r, Said, "response") /\ ~Has(r, Said, "http")
    BY <1>2, <2>4, <2>5
  <2>9. \E e \in Said \union T :
          /\ e.by = r /\ e.type = "request" /\ e.what = "upstream"
          /\ ~(config.key = "unusable" /\ ~ByClient(config, q.route))
    BY <1>3, <2>2
  <2> HIDE DEF T
  <2>10. Story(r, q, Said \union T)
    BY <1>2, <2>2, <2>6 DEF Story, Kinds
  <2>11. Calls(config, r, q, Said \union T)
    BY <1>2, <1>3, <2>2, <2>9 DEF Calls
  <2>12. Stream(r, q, Said \union T)
    BY <2>2, <2>7 DEF Stream
  <2> QED
    BY <1>1, <2>1, <2>2, <2>5, <2>8, <2>10, <2>11, <2>12, EmitInv
<1>6. CASE UpstreamAnswers(r) /\ ~req[r].streamed
  BY <1>5, <1>6 DEF UpstreamAnswers, Become, Emit
<1>7. CASE \E error \in {"upstream_timeout", "invalid_upstream_response",
                        "upstream_connection_error"} : UpstreamFails(r, error)
  BY <1>5, <1>7 DEF UpstreamFails, Become, Emit, Errors
<1> QED
  BY <1>4, <1>6, <1>7

\* LoggedResponseStream: its end, its error and its destructor.
LEMMA StreamsInv ==
  ASSUME GatewayInv, NEW r \in Requests, EndStream(r) \/ BreakStream(r) \/ DropStream(r)
  PROVE  GatewayInv'
<1>1. /\ req \in [Requests -> Request] /\ req[r] \in Request
      /\ Story(r, req[r], Said) /\ Calls(config, r, req[r], Said) /\ Stream(r, req[r], Said)
      /\ req[r].pc \in {"stream", "over"} /\ config' = config /\ counter' = counter
  <2>1. /\ req[r].pc \in {"stream", "over"} /\ config' = config /\ counter' = counter
    BY DEF EndStream, BreakStream, DropStream, EmitOnce, Emit
  <2> QED
    BY <2>1 DEF GatewayInv
<1>2. /\ Has(r, Said, "request") /\ Has(r, Said, "http")
      /\ Has(r, Said, "response") <=> req[r].pc = "over"
      /\ req[r].logged <=> req[r].pc = "over"
      /\ req[r].id # 0 /\ ~req[r].left /\ req[r].sent # "nothing"
      /\ req[r].ended = "open" <=> req[r].pc = "stream"
  BY <1>1 DEF Story, Calls, Stream
<1>3. \A e \in Said : e.by = r /\ e.type = "response" => req[r].pc = "over"
  BY <1>2 DEF Has
<1>4. ASSUME NEW q \in Request, NEW status \in {"completed", "error", "interrupted"},
             req[r].pc = "stream", req' = [req EXCEPT ![r] = q],
             q.pc = "over" \/ (q.pc = "done" /\ q.left /\ status = "interrupted"),
             q.pc = "over" => ~q.left /\ status = IF q.ended = "end" THEN "completed" ELSE "error",
             q.pc = "over" <=> q.ended # "open",
             q.logged, q.id = req[r].id, q.sent = req[r].sent, q.route = req[r].route,
             q.chunks = req[r].chunks,
             log' = log \o <<StreamEvent(r, status, q.chunks)>>
      PROVE  GatewayInv'
  <2> DEFINE a == StreamEvent(r, status, q.chunks)
             T == {a}
  <2>1. status \in Whats /\ q.chunks \in Nat
    BY DEF Whats, Errors, Request
  <2>2. /\ a \in Record /\ a.by = r /\ a.type = "response" /\ a.what = status
        /\ a.chunks = q.chunks /\ log' = log \o <<a>>
    BY <1>4, <2>1, RecordIs
  <2> HIDE DEF a
  <2>3. Tells(<<a>>, T) /\ \A e \in T : e = a
    BY <2>2, TellsFew
  <2>4. \A type \in Kinds : Has(r, Said \union T, type)
    <3>1. a \in Said \union T
      OBVIOUS
    <3> QED
      BY <1>2, <2>2, <3>1 DEF Has, Kinds
  <2>5. \A e \in Said \union T : e.by = r /\ e.type = "response" => e = a
    BY <1>3, <1>4
  <2>6. \A e \in T :
          /\ e.by = r /\ ~Has(r, Said, e.type)
          /\ e.type = "request" => ~Has(r, Said, "response") /\ ~Has(r, Said, "http")
    BY <1>2, <1>4, <2>2, <2>3
  <2>7. \E e \in Said \union T :
          /\ e.by = r /\ e.type = "request" /\ e.what = "upstream"
          /\ ~(config.key = "unusable" /\ ~ByClient(config, q.route))
    BY <1>1, <1>2, <1>4 DEF Calls
  <2> HIDE DEF T
  <2>8. Story(r, q, Said \union T)
    BY <1>2, <1>4, <2>4 DEF Story, Kinds
  <2>9. Calls(config, r, q, Said \union T)
    BY <1>1, <1>2, <1>4, <2>7 DEF Calls
  <2>10. Stream(r, q, Said \union T)
    BY <1>4, <2>2, <2>5 DEF Stream, Request
  <2> QED
    BY <1>1, <1>4, <2>2, <2>3, <2>6, <2>8, <2>9, <2>10, EmitInv
<1>5. CASE EndStream(r)
  <2> DEFINE q == [req[r] EXCEPT !.pc = "over", !.ended = "end", !.logged = TRUE]
  <2>1. /\ q \in Request /\ req' = [req EXCEPT ![r] = q] /\ req[r].pc = "stream"
        /\ log' = log \o <<StreamEvent(r, "completed", req[r].chunks)>>
    BY <1>1, <1>2, <1>5 DEF EndStream, Become, EmitOnce, Emit, Request
  <2>2. /\ q.pc = "over" /\ ~q.left /\ q.ended = "end" /\ q.logged /\ q.id = req[r].id
        /\ q.sent = req[r].sent /\ q.route = req[r].route /\ q.chunks = req[r].chunks
    BY <1>1, <1>2 DEF Request
  <2> HIDE DEF q
  <2> QED
    BY <1>4, <2>1, <2>2
<1>6. CASE BreakStream(r)
  <2> DEFINE q == [req[r] EXCEPT !.pc = "over", !.ended = "error", !.logged = TRUE]
  <2>1. /\ q \in Request /\ req' = [req EXCEPT ![r] = q] /\ req[r].pc = "stream"
        /\ log' = log \o <<StreamEvent(r, "error", req[r].chunks)>>
    BY <1>1, <1>2, <1>6 DEF BreakStream, Become, EmitOnce, Emit, Request
  <2>2. /\ q.pc = "over" /\ ~q.left /\ q.ended = "error" /\ q.logged /\ q.id = req[r].id
        /\ q.sent = req[r].sent /\ q.route = req[r].route /\ q.chunks = req[r].chunks
    BY <1>1, <1>2 DEF Request
  <2> HIDE DEF q
  <2> QED
    BY <1>4, <2>1, <2>2
<1>7. CASE DropStream(r)
  <2> DEFINE left == req[r].pc = "stream"
             q == [req[r] EXCEPT !.pc = "done", !.logged = TRUE, !.left = left]
  <2>1. /\ q \in Request /\ req' = [req EXCEPT ![r] = q]
        /\ log' = log \o (IF req[r].logged THEN <<>>
                          ELSE <<StreamEvent(r, "interrupted", req[r].chunks)>>)
    BY <1>1, <1>7 DEF DropStream, Become, EmitOnce, Emit, Request
  <2>2. /\ q.pc = "done" /\ (q.left <=> req[r].pc = "stream") /\ q.ended = req[r].ended /\ q.logged
        /\ q.id = req[r].id
        /\ q.sent = req[r].sent /\ q.route = req[r].route /\ q.chunks = req[r].chunks
    BY <1>1, <1>2 DEF Request
  <2> HIDE DEF q, left
  <2>3. CASE req[r].pc = "stream"
    BY <1>2, <1>4, <2>1, <2>2, <2>3
  <2>4. CASE req[r].pc = "over"
    <3> DEFINE T == {}
    <3>1. log' = log \o <<>>
      BY <1>2, <2>1, <2>4
    <3>2. log' = log
      BY <3>1, ConcatEmptySeq DEF GatewayInv, LogOK
    <3>3. LogOK' /\ Said' = Said /\ Said' = Said \union T
      BY <3>2, LogTells, NowTells
    <3>4. Story(r, q, Said)
      BY <1>1, <1>2, <2>2, <2>4 DEF Story
    <3>5. Calls(config, r, q, Said)
      BY <1>1, <1>2, <2>2, <2>4 DEF Calls
    <3>6. Stream(r, q, Said)
      BY <1>1, <1>2, <2>2, <2>4 DEF Stream
    <3>7. \A e \in T : e.by = r
      OBVIOUS
    <3> HIDE DEF T
    <3> QED
      BY <1>1, <2>1, <2>2, <3>3, <3>4, <3>5, <3>6, <3>7, StepInv
  <2> QED
    BY <1>1, <2>3, <2>4
<1> QED
  BY <1>5, <1>6, <1>7

LEMMA GatewayInit == Init => GatewayInv
<1> SUFFICES ASSUME Init PROVE GatewayInv
  OBVIOUS
<1>1. /\ config \in [mode : Modes, key : Keys] /\ counter = 1 /\ log = <<>>
      /\ req \in [Requests -> Request]
      /\ \A r \in Requests :
           /\ req[r].pc = "idle" /\ req[r].id = 0 /\ req[r].sent = "nothing"
           /\ req[r].ended = "open" /\ req[r].chunks = 0 /\ ~req[r].logged /\ ~req[r].left
  BY DEF Init, Request
<1>2. LogOK /\ Said = {}
  <2>1. Tells(<<>>, {})
    BY EmptySeq DEF Tells, Ordered, Told
  <2> QED
    BY <1>1, <2>1 DEF Tells, LogOK, Said
<1>3. IdsOK
  BY <1>1 DEF IdsOK
<1>4. ASSUME NEW r \in Requests
      PROVE  Story(r, req[r], Said) /\ Calls(config, r, req[r], Said) /\ Stream(r, req[r], Said)
  BY <1>1, <1>2 DEF Story, Calls, Stream, Has
<1> QED
  BY <1>1, <1>2, <1>3, <1>4 DEF GatewayInv

LEMMA GatewayNext == GatewayInv /\ [Next]_vars => GatewayInv'
<1> SUFFICES ASSUME GatewayInv, [Next]_vars PROVE GatewayInv'
  OBVIOUS
<1>1. CASE Next
  <2>1. PICK r \in Requests :
          \/ Arrive(r) \/ RejectBody(r) \/ Handle(r) \/ UpstreamAnswers(r)
          \/ UpstreamTimeout(r) \/ UpstreamFails(r, "invalid_upstream_response")
          \/ UpstreamFails(r, "upstream_connection_error")
          \/ Replied(r) \/ Leave(r) \/ NextChunk(r) \/ EndStream(r) \/ BreakStream(r)
          \/ DropStream(r)
    BY <1>1 DEF Next
  <2> QED
    BY <2>1, QuietInv, HandlesInv, AnswersInv, StreamsInv DEF UpstreamTimeout
<1>2. CASE UNCHANGED vars
  <2>1. UNCHANGED <<config, req, counter, log>>
    BY <1>2 DEF vars
  <2>2. LogOK' /\ Said' = Said
    BY <2>1, LogTells, NowTells
  <2> QED
    BY <2>1, <2>2 DEF GatewayInv, IdsOK
<1> QED
  BY <1>1, <1>2

-----------------------------------------------------------------------------
(* The theorems.                                                           *)

\* The inductive invariant of the gateway's handlers, middleware and streams:
\* which records a request has by then, and what they say of it.
THEOREM GatewayInvariance == Spec => []GatewayInv
BY GatewayInit, GatewayNext, PTL DEF Spec

\* What the log's places say of its records.
LEMMA PlacesTell ==
  ASSUME NEW r, NEW type
  PROVE  /\ \A i \in Of(r, type) : log[i] \in Said /\ log[i].by = r /\ log[i].type = type
         /\ \A e \in Said : e.by = r /\ e.type = type => \E i \in Of(r, type) : log[i] = e
         /\ Of(r, type) # {} <=> Has(r, Said, type)
<1>1. \A i \in Of(r, type) : log[i] \in Said /\ log[i].by = r /\ log[i].type = type
  BY DEF Of, Said, Told
<1>2. \A e \in Said : e.by = r /\ e.type = type => \E i \in Of(r, type) : log[i] = e
  BY DEF Of, Said, Told
<1> QED
  BY <1>1, <1>2 DEF Has

\* A request has one record of each kind at most, its request first, and an id
\* of its own.
THEOREM RequestsHaveOneStory == Spec => []OneStory
<1>1. GatewayInv => OneStory
  BY DEF GatewayInv, LogOK, Ordered, Follows, IdsOK, OneStory
<1> QED
  BY <1>1, GatewayInvariance, PTL

\* A logged request that is over has its response logged, unless its client
\* left first.
THEOREM FatesAreLogged == Spec => []FateLogged
<1>1. GatewayInv => FateLogged
  <2> SUFFICES ASSUME GatewayInv, NEW r \in Requests, req[r].pc = "done", Has(r, Said, "request")
               PROVE  \/ Has(r, Said, "response") /\ Has(r, Said, "http")
                      \/ req[r].left /\ ~Has(r, Said, "response") /\ ~Has(r, Said, "http")
    BY PlacesTell DEF FateLogged
  <2>1. Story(r, req[r], Said) /\ req[r] \in Request
    BY DEF GatewayInv
  <2> QED
    BY <2>1 DEF Story, Request
<1> QED
  BY <1>1, GatewayInvariance, PTL

\* What the log says of a stream is what became of it.
THEOREM StreamStatusesAreTrue == Spec => []StreamStatusTrue
<1>1. GatewayInv => StreamStatusTrue
  BY PlacesTell DEF GatewayInv, Stream, StreamStatusTrue
<1> QED
  BY <1>1, GatewayInvariance, PTL

\* The log accounts for every call of the upstream, and a client's credential
\* goes there only where the mode says so.
THEOREM EveryCallIsAccountedFor == Spec => []CallsAccountedFor
<1>1. GatewayInv => CallsAccountedFor
  <2> SUFFICES ASSUME GatewayInv, NEW r \in Requests
               PROVE  /\ req[r].sent # "nothing" <=>
                           \E i \in Of(r, "request") : log[i].what = "upstream" /\
                             ~(config.key = "unusable" /\ ~Inbound(req[r].route))
                      /\ req[r].sent = "nothing" =>
                           \A i \in Of(r, "response") : log[i].what = "marsala_local"
                      /\ req[r].sent = "inbound" =>
                           req[r].route = "responses" /\ config.mode = "inbound_authorization"
    BY DEF CallsAccountedFor
  <2>1. Calls(config, r, req[r], Said)
    BY DEF GatewayInv
  <2> QED
    BY <2>1, PlacesTell, InboundIs DEF Calls, ByClient
<1> QED
  BY <1>1, GatewayInvariance, PTL

=============================================================================
