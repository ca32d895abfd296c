------------------------ MODULE ProxyConnectionProofs -----------------------
(***************************************************************************)
(* Proofs about ProxyConnection, for any number of items and of frames.    *)
(*                                                                         *)
(* What a log line says of the exchange behind it is true because of what  *)
(* the handler knows at each await.  ConnectionInv writes that down: what  *)
(* the upstream and the client have had when the task is at pc, how far    *)
(* the connection's story has been told, and what the events told so far   *)
(* mean.                                                                   *)
(***************************************************************************)
EXTENDS ProxyConnection, TLAPS, SequenceTheorems

\* What an event says of its outcome; verdict starts as "none".
Statuses ==
  Requests \union
    {"closed", "error", "not_implemented", "handshake_ok", "captured", "forwarded",
     "request_body_timeout", "response_body_timeout", "websocket_forwarded",
     "websocket_non_101_response", "websocket_non_101_response_body_timeout",
     "websocket_tunnel_closed", "websocket_tunnel_error"}

Events ==
  [type : EventTypes \ {"mitm_payload"}, status : Statuses]
    \union {Event("mitm_payload", "request"), Event("mitm_payload", "response")}

Told(s) == {s[i] : i \in DOMAIN s}
Said == Told(events)

\* Event e may come behind event d.
Follows(d, e) ==
  \/ Rank(d) < Rank(e)
  \/ d.type = "mitm_websocket_frame" /\ e.type = "mitm_websocket_frame"
Ordered(s) == \A i, j \in DOMAIN s : i < j => Follows(s[i], s[j])

\* The awaits before the decrypted request is known, those before anything is
\* sent upstream, and those behind the upstream's having the whole request.
Opening == {"head", "answer501", "answer400", "dial", "dial502", "ackTunnel", "tunnel",
            "acceptor502", "ackMitm", "handshake"}
Asking == {"refuse", "body", "dialUpstream", "send"}
Sent == {"wait", "respond", "switch", "stream", "flushTunnel", "websocket"}

\* The rank of the last event that can have been told at p.
Reach(p) ==
  CASE p \in Opening -> 0
    [] p \in {"request", "refuse", "body"} -> 1
    [] p \in {"dialUpstream", "send", "gateway502"} \union (Sent \ {"websocket"}) -> 2
    [] p = "websocket" -> 4
    [] p = "close" -> 6
    [] p \in Ended -> 7

EventsOK ==
  /\ events \in Seq(Events) /\ Ordered(events)
  /\ \A i \in DOMAIN events : events[i].type \in EventTypes

\* What the client and the upstream have had, by where the task is.
PathInv ==
  /\ pc \in Opening \union {"request"} => req = "none"
  /\ pc \notin {"tunnel"} \union Ended => delivered = <<>>
  /\ pc \in Opening \union Asking \union {"request"} => upstream = "nothing"
  /\ pc \in Sent => upstream = "whole"
  /\ pc \in Opening \union Asking \union {"request", "wait", "respond", "switch"} =>
       answers = <<>>
  /\ pc = "stream" => answers = <<"upstream">>
  /\ pc \in {"flushTunnel", "websocket"} => answers = <<"101">>
  /\ pc = "gateway502" =>
       /\ answers \in {<<>>, <<"upstream">>, <<"101">>}
       /\ answers # <<>> => upstream = "whole"
  /\ pc \notin {"close"} \union Ended => ~whole
  /\ pc = "close" /\ client = "up" => answers # <<>>

\* What the events told so far mean.
StoryInv ==
  /\ EventsOK
  /\ \A e \in Said : Rank(e) <= Reach(pc)
  /\ \A e \in Said :
       e.type = "mitm_response" /\ e.status \in {"forwarded", "websocket_non_101_response"} =>
         whole /\ upstream = "whole" /\ answers = <<"upstream">>
  /\ \A e \in Said :
       e.type = "mitm_request" /\ e.status \in Refused \union {"request_body_timeout"} =>
         upstream = "nothing" /\ answers = <<"refusal">>

\* How a connection ends: logged, or lost at once; answered, or without a
\* client; with a second answer only behind a response that broke off.
EndInv ==
  /\ pc = "done" =>
       \/ \E e \in Said : e.type = "proxy_request"
       \/ client = "down" /\ delivered = <<>> /\ upstream = "nothing" /\ answers = <<>>
  /\ pc = "done" /\ req # "none" /\ client = "up" => answers # <<>>
  /\ \/ answers \in {<<>>, <<"refusal">>, <<"upstream">>, <<"101">>, <<"gateway">>}
     \/ /\ answers \in {<<"upstream", "gateway">>, <<"101", "gateway">>}
        /\ ~whole /\ upstream = "whole"
        /\ \A e \in Said : e.type = "mitm_response" => e.status = "error"

ConnectionInv == TypeOK /\ verdict \in Statuses /\ PathInv /\ StoryInv /\ EndInv

-----------------------------------------------------------------------------
(* Lemmas about events and their order.                                    *)

\* Rank tells an event's type, and a payload's direction.
LEMMA RankIsPlace ==
  ASSUME NEW e \in Events
  PROVE  /\ Rank(e) \in 1..7
         /\ e.type = "mitm_tls" => Rank(e) = 1
         /\ e.type = "mitm_websocket_frame" <=> Rank(e) = 4
         /\ e.type = "mitm_request" <=> Rank(e) = 5
         /\ e.type = "mitm_response" <=> Rank(e) = 6
         /\ e.type = "proxy_request" <=> Rank(e) = 7
BY DEF Events, EventTypes, Event, Rank

LEMMA EventIs ==
  /\ \A type \in EventTypes \ {"mitm_payload"}, status \in Statuses :
       /\ Event(type, status) \in Events
       /\ Event(type, status).type = type /\ Event(type, status).status = status
  /\ \A status \in {"request", "response"} :
       /\ Event("mitm_payload", status) \in Events
       /\ Event("mitm_payload", status).type = "mitm_payload"
  /\ Rank(Event("mitm_payload", "request")) = 2
  /\ Rank(Event("mitm_payload", "response")) = 3
BY DEF Events, EventTypes, Event, Rank

\* A sequence of events in their order, and what it tells.
Tells(s, S) == s \in Seq(Events) /\ Ordered(s) /\ Told(s) = S

LEMMA Pair ==
  ASSUME NEW S, NEW d \in S, NEW e \in S
  PROVE  Append(<<d>>, e) = <<d, e>>
<1> DEFINE a == Append(<<d>>, e)
           b == <<d, e>>
<1>1. b \in Seq(S) /\ Len(b) = 2 /\ b[1] = d /\ b[2] = e
  OBVIOUS
<1>2. <<d>> \in Seq(S) /\ Len(<<d>>) = 1 /\ <<d>>[1] = d
  OBVIOUS
<1>3. a \in Seq(S) /\ Len(a) = 2 /\ a[1] = d /\ a[2] = e
  BY <1>2
<1> HIDE DEF a, b
<1>4. \A i \in 1..Len(a) : a[i] = b[i]
  BY <1>1, <1>2, <1>3
<1>5. a = b
  BY <1>1, <1>3, <1>4, SeqEqual
<1> QED
  BY <1>5 DEF a, b

LEMMA OneMore ==
  ASSUME NEW s, NEW S, Tells(s, S), NEW e \in Events, \A d \in S : Follows(d, e)
  PROVE  /\ Tells(Append(s, e), S \union {e})
         /\ Tells(s \o <<e>>, S \union {e})
<1>1. /\ s \in Seq(Events)
      /\ Append(s, e) \in Seq(Events) /\ Len(Append(s, e)) = Len(s) + 1
      /\ \A i \in 1..Len(s) : Append(s, e)[i] = s[i]
      /\ Append(s, e)[Len(s) + 1] = e /\ Len(s) \in Nat
      /\ DOMAIN Append(s, e) = 1..(Len(s) + 1) /\ DOMAIN s = 1..Len(s)
  BY DEF Tells
<1>2. s \o <<e>> = Append(s, e)
  BY <1>1, AppendIsConcat
<1>3. Told(Append(s, e)) = S \union {e}
  BY <1>1 DEF Told, Tells
<1>4. Ordered(Append(s, e))
  <2> SUFFICES ASSUME NEW i \in 1..(Len(s) + 1), NEW j \in 1..(Len(s) + 1), i < j
               PROVE  Follows(Append(s, e)[i], Append(s, e)[j])
    BY <1>1 DEF Ordered
  <2>1. i \in 1..Len(s) /\ s[i] \in S /\ Append(s, e)[i] = s[i]
    BY <1>1 DEF Told, Tells
  <2>2. CASE j = Len(s) + 1
    BY <1>1, <2>1, <2>2
  <2>3. CASE j \in 1..Len(s)
    BY <1>1, <2>1, <2>3 DEF Ordered, Tells
  <2> QED
    BY <1>1, <2>2, <2>3
<1> QED
  BY <1>1, <1>2, <1>3, <1>4 DEF Tells

LEMMA TwoMore ==
  ASSUME NEW s, NEW S, Tells(s, S), NEW d \in Events, NEW e \in Events,
         \A c \in S : Follows(c, d) /\ Follows(c, e), Follows(d, e)
  PROVE  /\ Tells((s \o <<d>>) \o <<e>>, S \union {d, e})
         /\ Tells(s \o <<d, e>>, S \union {d, e})
<1>1. Tells(s \o <<d>>, S \union {d})
  BY OneMore
<1>2. Tells((s \o <<d>>) \o <<e>>, (S \union {d}) \union {e})
  <2> DEFINE t == s \o <<d>>
             T == S \union {d}
  <2>1. Tells(t, T) /\ \A c \in T : Follows(c, e)
    BY <1>1
  <2> HIDE DEF t, T
  <2>2. Tells(t \o <<e>>, T \union {e})
    BY <2>1, OneMore
  <2> QED
    BY <2>2 DEF t, T
<1>3. (s \o <<d>>) \o <<e>> = s \o <<d, e>>
  <2>1. s \in Seq(Events) /\ <<d>> \in Seq(Events) /\ <<e>> \in Seq(Events)
    BY DEF Tells
  <2>2. (s \o <<d>>) \o <<e>> = s \o (<<d>> \o <<e>>)
    BY <2>1, ConcatAssociative
  <2>3. Append(<<d>>, e) = <<d>> \o <<e>>
    BY <2>1, AppendIsConcat
  <2>4. Append(<<d>>, e) = <<d, e>>
    BY Pair
  <2> QED
    BY <2>2, <2>3, <2>4
<1>4. (S \union {d}) \union {e} = S \union {d, e}
  OBVIOUS
<1> QED
  BY <1>2, <1>3, <1>4

\* What the connection has told once its events are those of t.
LEMMA NowTells ==
  ASSUME NEW t, NEW S, Tells(t, S), events' = t
  PROVE  EventsOK' /\ Said' = S
<1>1. \A i \in DOMAIN t : t[i] \in Events
  BY DEF Tells
<1>2. \A e \in Events : e.type \in EventTypes
  BY DEF Events, Event, EventTypes
<1> QED
  BY <1>1, <1>2 DEF Tells, Said, Told, Ordered, EventsOK

\* What the events told so far can be at pc.
LEMMA SaidSoFar ==
  ASSUME ConnectionInv
  PROVE  /\ Tells(events, Said) /\ Reach(pc) \in Nat
         /\ \A d \in Said :
              /\ d \in Events /\ Rank(d) \in Nat /\ Rank(d) <= Reach(pc)
              /\ \A e \in Events : Reach(pc) < Rank(e) => Follows(d, e)
              /\ d.type = "mitm_request" => Reach(pc) >= 5
              /\ d.type = "mitm_response" => Reach(pc) >= 6
              /\ d.type = "proxy_request" => Reach(pc) >= 7
<1>1. Tells(events, Said) /\ Said \subseteq Events
  BY DEF ConnectionInv, EventsOK, StoryInv, Tells, Said, Told
<1>2. Reach(pc) \in Nat
  BY DEF ConnectionInv, TypeOK, Timed, Writes, Unbounded, Ended, Reach, Opening, Sent
<1>3. \A d \in Said : Rank(d) <= Reach(pc)
  BY DEF ConnectionInv, StoryInv
<1> QED
  BY <1>1, <1>2, <1>3, RankIsPlace DEF Follows

LEMMA SaysNothing == UNCHANGED events => Said' = Said /\ EventsOK' = EventsOK
BY DEF Said, Told, EventsOK, Ordered

LEMMA SaysOne ==
  ASSUME ConnectionInv, NEW e \in Events, Reach(pc) < Rank(e),
         events' \in {Append(events, e), events \o <<e>>}
  PROVE  EventsOK' /\ Said' = Said \union {e}
<1>1. Tells(events, Said) /\ \A d \in Said : Follows(d, e)
  BY SaidSoFar
<1>2. Tells(Append(events, e), Said \union {e}) /\ Tells(events \o <<e>>, Said \union {e})
  BY <1>1, OneMore
<1> QED
  BY <1>2, NowTells

LEMMA SaysTwo ==
  ASSUME ConnectionInv, NEW d \in Events, NEW e \in Events, Reach(pc) < Rank(d),
         Rank(d) < Rank(e),
         events' \in {(events \o <<d>>) \o <<e>>, events \o <<d, e>>}
  PROVE  EventsOK' /\ Said' = Said \union {d, e}
<1>1. Follows(d, e) /\ Reach(pc) < Rank(e)
  <2>1. Rank(d) \in Nat /\ Rank(e) \in Nat
    BY RankIsPlace
  <2>2. Reach(pc) \in Nat
    BY DEF ConnectionInv, TypeOK, Timed, Writes, Unbounded, Ended, Reach, Opening, Sent
  <2> QED
    BY <2>1, <2>2 DEF Follows
<1>2. Tells(events, Said) /\ \A c \in Said : Follows(c, d) /\ Follows(c, e)
  BY <1>1, SaidSoFar
<1>3. /\ Tells((events \o <<d>>) \o <<e>>, Said \union {d, e})
      /\ Tells(events \o <<d, e>>, Said \union {d, e})
  BY <1>1, <1>2, TwoMore
<1> QED
  BY <1>3, NowTells

LEMMA Reaches ==
  /\ \A p \in Opening : Reach(p) = 0
  /\ \A p \in {"request", "refuse", "body"} : Reach(p) = 1
  /\ \A p \in {"dialUpstream", "send", "gateway502", "wait", "respond", "switch", "stream",
               "flushTunnel"} : Reach(p) = 2
  /\ Reach("websocket") = 4 /\ Reach("close") = 6
  /\ Reach("done") = 7 /\ Reach("gone") = 7
BY DEF Reach, Opening, Sent, Ended

-----------------------------------------------------------------------------
(* The steps.                                                              *)

\* handle_connection, handle_plain_http, handle_connect: nothing is told before
\* the end, and nothing sent or answered on a decrypted stream.
LEMMA OpensInv ==
  ASSUME ConnectionInv,
         \/ \E f \in Forms \ {"none"}, n \in 0..MaxItems : ReadHead(f, n)
         \/ ReadHeadFails \/ CopyItem
         \/ \E status \in {"closed", "error"} : TunnelEnds(status)
         \/ \E ok \in BOOLEAN :
              AnswerPlain(ok) \/ AnswerError(ok) \/ Dial(ok) \/ Acknowledge(ok)
  PROVE  ConnectionInv'
<1> USE DEF TypeOK, PathInv, StoryInv, EndInv, Timed, Writes, Unbounded, Ended, Opening,
            Asking, Sent, peers
<1>1. ASSUME NEW f \in Forms \ {"none"}, NEW n \in 0..MaxItems, ReadHead(f, n)
      PROVE  ConnectionInv'
  <2>1. /\ pc = "head" /\ pc' \in {"answer501", "answer400", "dial", "ackMitm", "acceptor502"}
        /\ form' = f /\ early' = n
        /\ UNCHANGED <<capture, delivered, client, req, upstream, answers, whole, verdict,
                       events>>
    BY <1>1 DEF ReadHead, AfterHead, Forms
  <2>2. Said' = Said /\ EventsOK' = EventsOK
    BY <2>1, SaysNothing
  <2> QED
    BY <2>1, <2>2, Reaches DEF ConnectionInv, EventsOK
<1>2. ASSUME NEW ok \in BOOLEAN, Dial(ok) \/ Acknowledge(ok) PROVE ConnectionInv'
  <2>1. /\ \/ pc = "dial" /\ pc' \in {"ackTunnel", "dial502"} /\ client' = client
           \/ /\ pc \in {"ackTunnel", "ackMitm"} /\ client' \in {client, "down"}
              /\ \/ pc' \in {"tunnel", "handshake"}
                 \/ pc' = "done" /\ client' = "down"
        /\ UNCHANGED <<form, capture, early, delivered, req, upstream, answers, whole, verdict,
                       events>>
    <3>1. CASE Dial(ok)
      BY <3>1 DEF Dial
    <3>2. CASE Acknowledge(ok) /\ ok
      BY <3>2 DEF Acknowledge, ClientWrite
    <3>3. CASE Acknowledge(ok) /\ ~ok
      BY <3>3 DEF Acknowledge, ClientWrite
    <3> QED
      BY <1>2, <3>1, <3>2, <3>3
  <2>2. Said' = Said /\ EventsOK' = EventsOK
    BY <2>1, SaysNothing
  <2>3. TypeOK' /\ verdict' \in Statuses /\ PathInv'
    BY <2>1, <2>2 DEF ConnectionInv, EventsOK
  <2>4. StoryInv'
    BY <2>1, <2>2, Reaches, SaidSoFar DEF ConnectionInv
  <2>5. EndInv'
    BY <2>1, <2>2 DEF ConnectionInv
  <2> QED
    BY <2>3, <2>4, <2>5 DEF ConnectionInv
<1>3. CASE CopyItem
  <2>1. /\ pc = "tunnel" /\ NextItem <= MaxItems /\ delivered' = Append(delivered, NextItem)
        /\ UNCHANGED <<pc, form, capture, early, client, req, upstream, answers, whole, verdict,
                       events>>
    BY <1>3 DEF CopyItem
  <2>2. Said' = Said /\ EventsOK' = EventsOK
    BY <2>1, SaysNothing
  <2>3. NextItem \in 1..MaxItems
    BY <2>1, BoundsAssumption DEF NextItem, ConnectionInv
  <2>4. delivered' \in Seq(1..MaxItems)
    BY <2>1, <2>3 DEF ConnectionInv
  <2> QED
    BY <2>1, <2>2, <2>4, Reaches DEF ConnectionInv, EventsOK
<1>4. ASSUME ReadHeadFails \/ (\E status \in {"closed", "error"} : TunnelEnds(status))
               \/ (\E ok \in BOOLEAN : AnswerPlain(ok) \/ AnswerError(ok))
      PROVE  ConnectionInv'
  <2>1. /\ pc \in Opening /\ pc' = "done" /\ client' \in {client, "down"}
        /\ UNCHANGED <<form, capture, early, delivered, req, upstream, answers, whole, verdict>>
        /\ \/ \E status \in {"closed", "error", "not_implemented"} :
                events' = events \o <<ProxyEvent(status)>>
           \/ events' = events \o <<>> /\ client' = "down" /\ pc = "answer501"
    <3>1. CASE ReadHeadFails
      BY <3>1 DEF ReadHeadFails, Return
    <3>2. CASE \E status \in {"closed", "error"} : TunnelEnds(status)
      BY <3>2 DEF TunnelEnds, Return
    <3>3. CASE \E ok \in BOOLEAN : AnswerPlain(ok)
      BY <3>3 DEF AnswerPlain, ClientWrite, Return
    <3>4. CASE \E ok \in BOOLEAN : AnswerError(ok)
      BY <3>4 DEF AnswerError, ClientWrite, Return
    <3> QED
      BY <1>4, <3>1, <3>2, <3>3, <3>4
  <2>2. /\ req = "none" /\ answers = <<>> /\ upstream = "nothing" /\ ~whole /\ Reach(pc) = 0
        /\ pc = "answer501" => delivered = <<>>
    BY <2>1, Reaches DEF ConnectionInv
  <2>4. ASSUME NEW status \in {"closed", "error", "not_implemented"},
               events' = events \o <<ProxyEvent(status)>>
        PROVE  ConnectionInv'
    <3> DEFINE e == Event("proxy_request", status)
    <3>1. e \in Events /\ e.type = "proxy_request" /\ Rank(e) = 7
      <4>1. status \in Statuses
        BY DEF Statuses
      <4>2. "proxy_request" \in EventTypes \ {"mitm_payload"}
        BY DEF EventTypes
      <4> QED
        BY <4>1, <4>2, EventIs, RankIsPlace
    <3>2. EventsOK' /\ Said' = Said \union {e}
      BY <2>2, <2>4, <3>1, SaysOne DEF ProxyEvent
    <3> HIDE DEF e
    <3>3. \A d \in Said : d.type # "mitm_request" /\ d.type # "mitm_response" /\ Rank(d) = 0
      BY <2>2, SaidSoFar
    <3>4. TypeOK' /\ verdict' \in Statuses /\ PathInv'
      BY <2>1, <3>2 DEF ConnectionInv, EventsOK
    <3>5. StoryInv'
      BY <2>1, <3>1, <3>2, <3>3, Reaches
    <3>6. EndInv'
      BY <2>1, <2>2, <3>1, <3>2
    <3> QED
      BY <3>4, <3>5, <3>6 DEF ConnectionInv
  <2>5. CASE events' = events \o <<>> /\ client' = "down" /\ pc = "answer501"
    <3>1. events' = events
      BY <2>5, ConcatEmptySeq DEF ConnectionInv, EventsOK
    <3>2. Said' = Said /\ EventsOK' = EventsOK
      BY <3>1, SaysNothing
    <3>3. TypeOK' /\ verdict' \in Statuses /\ PathInv'
      BY <2>1, <3>2 DEF ConnectionInv, EventsOK
    <3>4. StoryInv'
      BY <2>1, <2>2, <3>2, Reaches, SaidSoFar DEF ConnectionInv
    <3>5. EndInv'
      BY <2>1, <2>2, <2>5, <3>2
    <3> QED
      BY <3>3, <3>4, <3>5 DEF ConnectionInv
  <2> QED
    BY <2>1, <2>4, <2>5
<1> QED
  BY <1>1, <1>2, <1>3, <1>4

\* What is left to show of a step that tells the events M.
LEMMA TellsInv ==
  ASSUME ConnectionInv, NEW M \in SUBSET Events, EventsOK', Said' = Said \union M,
         TypeOK', verdict' \in Statuses, PathInv', EndInv',
         Reach(pc) <= Reach(pc'), Reach(pc') \in Nat, \A e \in M : Rank(e) <= Reach(pc'),
         Reach(pc) < 5 \/ UNCHANGED <<whole, upstream, answers>>,
         \A e \in M :
           /\ e.type = "mitm_response"
                /\ e.status \in {"forwarded", "websocket_non_101_response"} =>
                (whole /\ upstream = "whole" /\ answers = <<"upstream">>)'
           /\ e.type = "mitm_request"
                /\ e.status \in Refused \union {"request_body_timeout"} =>
                (upstream = "nothing" /\ answers = <<"refusal">>)'
  PROVE  ConnectionInv'
<1>1. /\ Reach(pc) \in Nat
      /\ \A d \in Said : Rank(d) \in Nat /\ Rank(d) <= Reach(pc)
  BY SaidSoFar
<1>2. Reach(pc) < 5 => \A d \in Said : d.type # "mitm_request" /\ d.type # "mitm_response"
  BY <1>1, SaidSoFar
<1>3. (\A e \in Said : Rank(e) <= Reach(pc))'
  BY <1>1
<1>4. StoryInv'
  BY <1>2, <1>3 DEF ConnectionInv, StoryInv
<1> QED
  BY <1>4 DEF ConnectionInv

LEMMA QuietInv ==
  ASSUME ConnectionInv, UNCHANGED events, TypeOK', verdict' \in Statuses, PathInv', EndInv',
         Reach(pc) <= Reach(pc'), Reach(pc) < 5, Reach(pc') \in Nat
  PROVE  ConnectionInv'
<1> DEFINE M == {}
<1>1. M \in SUBSET Events /\ \A e \in M : FALSE
  OBVIOUS
<1>2. Said' = Said \union M /\ EventsOK'
  BY SaysNothing DEF ConnectionInv, StoryInv
<1> HIDE DEF M
<1> QED
  BY <1>1, <1>2, TellsInv

\* The awaits from the decrypted request to the copy of its response end, or
\* fail into the local 502: nothing is told.
LEMMA ForwardsInv ==
  ASSUME ConnectionInv,
         \/ ReadBodyFails \/ ReadBodyTimeout \/ ReadResponseFails
         \/ \E got \in {"nothing", "part", "whole"}, ok \in BOOLEAN : SendUpstream(got, ok)
         \/ \E b \in BOOLEAN :
              \/ DialUpstream(b) \/ ReadResponse(b) \/ WriteHead(b) \/ CopyBodyFails(b)
              \/ FlushTunnel(b)
  PROVE  ConnectionInv'
<1> USE DEF TypeOK, PathInv, EndInv, Timed, Writes, Unbounded, Ended, Opening,
            Asking, Sent, peers, ForwardFails
<1>1. /\ UNCHANGED <<form, capture, early, delivered, whole, verdict, events>>
      /\ \/ /\ pc \in {"body", "dialUpstream", "wait", "respond", "switch"}
            /\ pc' = "gateway502" /\ client' \in {client, "down"}
            /\ UNCHANGED <<req, upstream, answers>>
         \/ /\ pc = "send" /\ pc' = "gateway502"
            /\ upstream' \in {"nothing", "part", "whole"} /\ UNCHANGED <<client, req, answers>>
         \/ /\ pc \in {"stream", "flushTunnel"} /\ pc' = "gateway502"
            /\ client' \in {client, "down"} /\ UNCHANGED <<req, upstream, answers>>
         \/ /\ pc = "body" /\ pc' = "refuse" /\ req' = "request_body_timeout"
            /\ UNCHANGED <<client, upstream, answers>>
         \/ /\ pc = "dialUpstream" /\ pc' = "send" /\ UNCHANGED <<client, req, upstream, answers>>
         \/ /\ pc = "send" /\ pc' = "wait" /\ upstream' = "whole"
            /\ UNCHANGED <<client, req, answers>>
         \/ /\ pc = "wait" /\ pc' \in {"respond", "switch"}
            /\ UNCHANGED <<client, req, upstream, answers>>
         \/ /\ pc = "respond" /\ pc' = "stream" /\ answers' = Append(answers, "upstream")
            /\ UNCHANGED <<client, req, upstream>>
         \/ /\ pc = "switch" /\ pc' = "flushTunnel" /\ answers' = Append(answers, "101")
            /\ UNCHANGED <<client, req, upstream>>
         \/ /\ pc = "flushTunnel" /\ pc' = "websocket"
            /\ UNCHANGED <<client, req, upstream, answers>>
  <2>1. CASE ReadBodyFails \/ ReadBodyTimeout \/ ReadResponseFails
    BY <2>1 DEF ReadBodyFails, ReadBodyTimeout, ReadResponseFails
  <2>2. CASE \E got \in {"nothing", "part", "whole"}, ok \in BOOLEAN : SendUpstream(got, ok)
    BY <2>2 DEF SendUpstream
  <2>3. CASE \E b \in BOOLEAN : DialUpstream(b) \/ ReadResponse(b)
    BY <2>3 DEF DialUpstream, ReadResponse
  <2>4. CASE \E b \in BOOLEAN : WriteHead(b)
    BY <2>4 DEF WriteHead, ClientWrite
  <2>5. CASE \E b \in BOOLEAN : CopyBodyFails(b) \/ FlushTunnel(b)
    BY <2>5 DEF CopyBodyFails, FlushTunnel, ClientWrite
  <2> QED
    BY <2>1, <2>2, <2>3, <2>4, <2>5
<1>2. answers' \in Seq({"refusal", "upstream", "101", "gateway"})
  <2>1. \/ answers' \in {answers, Append(answers, "upstream")}
        \/ answers' = Append(answers, "101")
    BY <1>1
  <2>2. answers \in Seq({"refusal", "upstream", "101", "gateway"})
    BY DEF ConnectionInv
  <2> QED
    BY <2>1, <2>2
<1>3. EventsOK' /\ (\A i \in DOMAIN events : events[i].type \in EventTypes)'
  BY <1>1, SaysNothing DEF ConnectionInv, StoryInv, EventsOK
<1>4. TypeOK' /\ verdict' \in Statuses
  BY <1>1, <1>2, <1>3 DEF ConnectionInv
<1>5. PathInv' /\ EndInv'
  <2>1. Append(<<>>, "upstream") = <<"upstream">> /\ Append(<<>>, "101") = <<"101">>
    OBVIOUS
  <2>2. \A d \in Said : d.type # "mitm_request" /\ d.type # "mitm_response"
    <3>1. Reach(pc) < 5
      BY <1>1, Reaches
    <3> QED
      BY <3>1, SaidSoFar
  <2>3. PathInv'
    BY <1>1, <2>1 DEF ConnectionInv
  <2>4. EndInv'
    BY <1>1, <2>1, <2>2, SaysNothing DEF ConnectionInv
  <2> QED
    BY <2>3, <2>4
<1>6. Reach(pc) <= Reach(pc') /\ Reach(pc) < 5 /\ Reach(pc') \in Nat
  BY <1>1, Reaches
<1> QED
  BY <1>1, <1>4, <1>5, <1>6, QuietInv

\* Events and their ranks, as they are told.
LEMMA RankOf ==
  ASSUME NEW status \in Statuses
  PROVE  /\ Rank(Event("mitm_tls", status)) = 1
         /\ Rank(Event("mitm_websocket_frame", status)) = 4
         /\ Rank(Event("mitm_request", status)) = 5
         /\ Rank(Event("mitm_response", status)) = 6
         /\ Rank(Event("proxy_request", status)) = 7
         /\ \A type \in {"mitm_tls", "mitm_websocket_frame", "mitm_request", "mitm_response",
                         "proxy_request"} :
              /\ Event(type, status) \in Events
              /\ Event(type, status).type = type /\ Event(type, status).status = status
<1>1. \A type \in {"mitm_tls", "mitm_websocket_frame", "mitm_request", "mitm_response",
                  "proxy_request"} : type \in EventTypes \ {"mitm_payload"}
  BY DEF EventTypes
<1> QED
  BY <1>1, EventIs, RankIsPlace

\* A handler that returns with its last events, before the decrypted request
\* was known or when it could not be read, and the proxy's own at the end.
LEMMA ReturnsInv ==
  ASSUME ConnectionInv,
         \/ HandshakeFails \/ ReadRequestFails \/ CloseTls
         \/ \E ok \in BOOLEAN : AnswerNoAcceptor(ok)
  PROVE  ConnectionInv'
<1> USE DEF TypeOK, PathInv, EndInv, Timed, Writes, Unbounded, Ended, Opening,
            Asking, Sent, peers
<1>1. /\ UNCHANGED <<form, capture, early, delivered, req, upstream, answers, whole, verdict>>
      /\ client' \in {client, "down"} /\ pc' = "done"
      /\ \/ /\ pc \in {"acceptor502", "handshake"}
            /\ events' = events \o <<Event("mitm_tls", "error"), ProxyEvent("error")>>
         \/ /\ pc = "request"
            /\ events' = events \o <<Event("mitm_request", "error"), ProxyEvent("error")>>
         \/ pc = "close" /\ events' = events \o <<ProxyEvent(verdict)>>
  <2>1. CASE HandshakeFails \/ ReadRequestFails \/ CloseTls
    BY <2>1 DEF HandshakeFails, ReadRequestFails, CloseTls, Return
  <2>2. CASE \E ok \in BOOLEAN : AnswerNoAcceptor(ok)
    BY <2>2 DEF AnswerNoAcceptor, ClientWrite, Return
  <2> QED
    BY <2>1, <2>2
<1>2. "error" \in Statuses
  BY DEF Statuses
<1>3. \E M \in SUBSET Events :
        /\ EventsOK' /\ Said' = Said \union M
        /\ \E e \in M : e.type = "proxy_request"
        /\ \A e \in M : /\ e.type # "mitm_response" /\ Rank(e) <= 7
                        /\ e.type = "mitm_request" => e.status = "error"
  <2>1. CASE pc = "close"
    <3> DEFINE e == Event("proxy_request", verdict)
    <3>1. /\ e \in Events /\ e.type = "proxy_request" /\ Rank(e) = 7 /\ Reach(pc) = 6
          /\ events' = events \o <<e>>
      BY <1>1, <2>1, RankOf, Reaches DEF ConnectionInv, ProxyEvent
    <3> HIDE DEF e
    <3>2. EventsOK' /\ Said' = Said \union {e}
      BY <3>1, SaysOne
    <3> DEFINE M == {e}
    <3>3. /\ M \in SUBSET Events /\ EventsOK' /\ Said' = Said \union M
          /\ \E c \in M : c.type = "proxy_request"
          /\ \A c \in M : /\ c.type # "mitm_response" /\ Rank(c) <= 7
                          /\ c.type = "mitm_request" => c.status = "error"
      BY <3>1, <3>2
    <3> HIDE DEF M
    <3> QED
      BY <3>3
  <2>2. ASSUME NEW type \in {"mitm_tls", "mitm_request"},
               events' = events \o <<Event(type, "error"), ProxyEvent("error")>>,
               pc \in {"acceptor502", "handshake", "request"},
               type = "mitm_tls" <=> pc # "request"
        PROVE  \E M \in SUBSET Events :
                 /\ EventsOK' /\ Said' = Said \union M
                 /\ \E e \in M : e.type = "proxy_request"
                 /\ \A e \in M : /\ e.type # "mitm_response" /\ Rank(e) <= 7
                                 /\ e.type = "mitm_request" => e.status = "error"
    <3> DEFINE d == Event(type, "error")
               e == Event("proxy_request", "error")
    <3>1. e \in Events /\ e.type = "proxy_request" /\ Rank(e) = 7
      BY <1>2, RankOf
    <3>2. /\ d \in Events /\ d.type # "mitm_response" /\ d.status = "error"
          /\ Rank(d) = IF type = "mitm_tls" THEN 1 ELSE 5
      BY <1>2, RankOf
    <3>3. events' \in {(events \o <<d>>) \o <<e>>, events \o <<d, e>>}
      BY <2>2 DEF ProxyEvent
    <3>4. Reach(pc) = IF pc = "request" THEN 1 ELSE 0
      BY <2>2, Reaches
    <3> HIDE DEF d, e
    <3>5. Reach(pc) < Rank(d) /\ Rank(d) < Rank(e)
      BY <2>2, <3>1, <3>2, <3>4
    <3>6. EventsOK' /\ Said' = Said \union {d, e}
      BY <3>1, <3>2, <3>3, <3>5, SaysTwo
    <3> DEFINE M == {d, e}
    <3>7. /\ M \in SUBSET Events /\ EventsOK' /\ Said' = Said \union M
          /\ \E c \in M : c.type = "proxy_request"
          /\ \A c \in M : /\ c.type # "mitm_response" /\ Rank(c) <= 7
                          /\ c.type = "mitm_request" => c.status = "error"
      BY <3>1, <3>2, <3>6
    <3> HIDE DEF M
    <3> QED
      BY <3>7
  <2> QED
    BY <1>1, <2>1, <2>2
<1>4. PICK M \in SUBSET Events :
        /\ EventsOK' /\ Said' = Said \union M
        /\ \E e \in M : e.type = "proxy_request"
        /\ \A e \in M : /\ e.type # "mitm_response" /\ Rank(e) <= 7
                        /\ e.type = "mitm_request" => e.status = "error"
  BY <1>3
<1>5. TypeOK' /\ verdict' \in Statuses /\ PathInv'
  BY <1>1, <1>4 DEF ConnectionInv, EventsOK
<1>6. EndInv'
  BY <1>1, <1>4 DEF ConnectionInv
<1>7. Reach(pc') = 7 /\ (Reach(pc) \in {0, 1} \/ (pc = "close" /\ Reach(pc) = 6))
  <2>1. pc' = "done" /\ pc \in {"acceptor502", "handshake", "request", "close"}
    BY <1>1
  <2>2. /\ Reach("acceptor502") = 0 /\ Reach("handshake") = 0 /\ Reach("request") = 1
        /\ Reach("close") = 6 /\ Reach("done") = 7
    BY Reaches
  <2> QED
    BY <2>1, <2>2
<1>8. \A e \in M :
        /\ Rank(e) <= Reach(pc') /\ e.type # "mitm_response"
        /\ e.type = "mitm_request" => e.status \notin Refused \union {"request_body_timeout"}
  BY <1>4, <1>7 DEF Refused
<1>9. /\ Reach(pc) <= Reach(pc') /\ Reach(pc') \in Nat
      /\ Reach(pc) < 5 \/ UNCHANGED <<whole, upstream, answers>>
  BY <1>1, <1>7
<1> QED
  BY <1>4, <1>5, <1>6, <1>8, <1>9, TellsInv

\* What is told on the way: the handshake, the captured previews and frames.
LEMMA GoesOnInv ==
  ASSUME ConnectionInv,
         \/ Handshake \/ ReadBody \/ CaptureFrame
         \/ \E r \in Requests \ {"none"} : ReadRequest(r)
  PROVE  ConnectionInv'
<1> USE DEF TypeOK, PathInv, EndInv, Timed, Writes, Unbounded, Ended, Opening,
            Asking, Sent, peers
<1>1. /\ UNCHANGED <<form, capture, early, delivered, client, upstream, answers, whole, verdict>>
      /\ \/ /\ pc = "handshake" /\ pc' = "request" /\ req' = req
            /\ events' = Append(events, Event("mitm_tls", "handshake_ok"))
         \/ /\ pc = "request" /\ pc' \in {"refuse", "body", "dialUpstream"}
            /\ req' \in Requests \ {"none"}
            /\ \/ events' = events
               \/ pc' = "dialUpstream" /\ events' = Append(events, Event("mitm_payload", "request"))
         \/ /\ pc = "body" /\ pc' = "dialUpstream" /\ req' = req
            /\ events' \in {events, Append(events, Event("mitm_payload", "request"))}
         \/ /\ pc = "websocket" /\ pc' = pc /\ req' = req
            /\ events' = Append(events, Event("mitm_websocket_frame", "captured"))
  <2>1. CASE Handshake
    BY <2>1 DEF Handshake
  <2>2. CASE ReadBody
    BY <2>2 DEF ReadBody
  <2>3. CASE CaptureFrame
    BY <2>3 DEF CaptureFrame
  <2>4. CASE \E r \in Requests \ {"none"} : ReadRequest(r)
    <3>1. "noBody" \notin Refused
      BY DEF Refused
    <3> QED
      BY <2>4, <3>1 DEF ReadRequest
  <2> QED
    BY <2>1, <2>2, <2>3, <2>4
<1>2. /\ Reach(pc) <= Reach(pc') /\ Reach(pc') \in Nat /\ Reach(pc) < 5
      /\ \A d \in Said : d.type # "mitm_request" /\ d.type # "mitm_response"
  <2>1. Reach(pc) <= Reach(pc') /\ Reach(pc') \in Nat /\ Reach(pc) < 5
    BY <1>1, Reaches
  <2> QED
    BY <2>1, SaidSoFar
<1>3. ASSUME EventsOK' PROVE TypeOK' /\ verdict' \in Statuses /\ PathInv'
  BY <1>1, <1>3 DEF ConnectionInv, EventsOK
<1>4. ASSUME NEW e \in Events, EventsOK', Said' = Said \union {e}, Rank(e) <= Reach(pc'),
             Rank(e) < 5
      PROVE  ConnectionInv'
  <2>1. e.type # "mitm_request" /\ e.type # "mitm_response"
    BY <1>4, RankIsPlace
  <2>2. EndInv'
    BY <1>1, <1>2, <1>4, <2>1 DEF ConnectionInv
  <2> DEFINE M == {e}
  <2>3. M \in SUBSET Events /\ Said' = Said \union M /\ \A c \in M : c = e
    BY <1>4
  <2> HIDE DEF M
  <2> QED
    BY <1>2, <1>3, <1>4, <2>1, <2>2, <2>3, TellsInv
<1>5. CASE events' = events
  <2>1. Said' = Said /\ EventsOK'
    BY <1>5, SaysNothing DEF ConnectionInv, StoryInv
  <2>2. EndInv'
    BY <1>1, <1>5, <2>1, <1>2 DEF ConnectionInv
  <2> QED
    BY <1>2, <1>3, <1>5, <2>1, <2>2, QuietInv
<1>6. ASSUME NEW e \in Events, Reach(pc) < Rank(e), Rank(e) <= Reach(pc'), Rank(e) < 5,
             events' = Append(events, e)
      PROVE  ConnectionInv'
  <2>1. EventsOK' /\ Said' = Said \union {e}
    BY <1>6, SaysOne
  <2> QED
    BY <1>4, <1>6, <2>1
<1>7. CASE pc = "handshake"
  <2>1. "handshake_ok" \in Statuses
    BY DEF Statuses
  <2> QED
    BY <1>1, <1>6, <1>7, <2>1, RankOf, Reaches
<1>8. CASE pc \in {"request", "body"} /\ events' # events
  <2>1. Event("mitm_payload", "request") \in Events /\ Rank(Event("mitm_payload", "request")) = 2
    BY EventIs
  <2> QED
    BY <1>1, <1>6, <1>8, <2>1, Reaches
<1>9. CASE pc = "websocket"
  <2> DEFINE e == Event("mitm_websocket_frame", "captured")
  <2>1. "captured" \in Statuses
    BY DEF Statuses
  <2>2. /\ e \in Events /\ e.type = "mitm_websocket_frame" /\ Rank(e) = 4 /\ Reach(pc) = 4
        /\ Reach(pc') = 4 /\ events' = Append(events, e)
    BY <1>1, <1>9, <2>1, RankOf, Reaches
  <2> HIDE DEF e
  <2>3. \A d \in Said : Follows(d, e)
    <3>1. \A d \in Said : d \in Events /\ Rank(d) \in Nat /\ Rank(d) <= 4
      BY <2>2, SaidSoFar
    <3> QED
      BY <2>2, <3>1, RankIsPlace DEF Follows
  <2>4. Tells(Append(events, e), Said \union {e})
    BY <2>2, <2>3, SaidSoFar, OneMore
  <2>5. EventsOK' /\ Said' = Said \union {e}
    BY <2>2, <2>4, NowTells
  <2> QED
    BY <1>4, <2>2, <2>5
<1> QED
  BY <1>1, <1>5, <1>7, <1>8, <1>9

LEMMA DroppedInv == ConnectionInv /\ Dropped => ConnectionInv'
<1> SUFFICES ASSUME ConnectionInv, Dropped PROVE ConnectionInv'
  OBVIOUS
<1>1. /\ pc' = "gone"
      /\ UNCHANGED <<form, capture, early, delivered, client, req, upstream, answers, whole,
                     verdict, events>>
  BY DEF Dropped, peers
<1>2. Said' = Said /\ EventsOK'
  BY <1>1, SaysNothing DEF ConnectionInv, StoryInv
<1>3. TypeOK' /\ verdict' \in Statuses /\ PathInv' /\ EndInv'
  BY <1>1, <1>2 DEF ConnectionInv, EventsOK, TypeOK, PathInv, EndInv, Ended, Opening, Asking, Sent
<1>4. Reach(pc') = 7 /\ Reach(pc) \in Nat /\ Reach(pc) <= 7
  BY <1>1, Reaches DEF ConnectionInv, TypeOK, Timed, Writes, Unbounded, Ended, Opening
<1>5. \A d \in Said : Rank(d) \in Nat /\ Rank(d) <= Reach(pc)
  BY SaidSoFar
<1>6. StoryInv'
  BY <1>1, <1>2, <1>4, <1>5 DEF ConnectionInv, StoryInv
<1> QED
  BY <1>3, <1>6 DEF ConnectionInv

\* A request's event and its response's, behind those of s: what they mean is
\* what the client and the upstream have had.
LEMMA PairInv ==
  ASSUME ConnectionInv, pc \in {"stream", "websocket", "gateway502"}, pc' = "close",
         NEW s, NEW P \in SUBSET Events, Tells(s, Said \union P), \A c \in P : Rank(c) = 3,
         P # {} => pc = "stream",
         NEW request \in Statuses \ (Refused \union {"request_body_timeout"}),
         NEW response \in Statuses,
         events' \in {(s \o <<Event("mitm_request", request)>>)
                        \o <<Event("mitm_response", response)>>,
                      s \o <<Event("mitm_request", request), Event("mitm_response", response)>>},
         EventsOK' => TypeOK' /\ verdict' \in Statuses /\ PathInv',
         response \in {"forwarded", "websocket_non_101_response"} =>
           whole' /\ upstream' = "whole" /\ answers' = <<"upstream">>,
         \/ answers' \in {<<"upstream">>, <<"101">>, <<"gateway">>, <<>>}
         \/ /\ answers' \in {<<"upstream", "gateway">>, <<"101", "gateway">>}
            /\ ~whole' /\ upstream' = "whole" /\ response = "error"
  PROVE  ConnectionInv'
<1> DEFINE d == Event("mitm_request", request)
           e == Event("mitm_response", response)
           M == P \union {d, e}
<1>1. /\ d \in Events /\ d.type = "mitm_request" /\ d.status = request /\ Rank(d) = 5
      /\ e \in Events /\ e.type = "mitm_response" /\ e.status = response /\ Rank(e) = 6
  BY RankOf
<1>2. Reach(pc) \in {2, 4} /\ Reach(pc') = 6
  BY Reaches
<1>3. /\ \A c \in Said : /\ c.type # "mitm_response" /\ c \in Events /\ Rank(c) \in Nat
                        /\ Rank(c) <= Reach(pc)
      /\ \A c \in P : c.type # "mitm_response" /\ c.type # "mitm_request"
  BY <1>2, SaidSoFar, RankIsPlace
<1>4. events' \in {(s \o <<d>>) \o <<e>>, s \o <<d, e>>}
  OBVIOUS
<1>5. /\ M \in SUBSET Events
      /\ \A c \in M : c \in P \/ c = d \/ c = e
  BY <1>1
<1>6. (Said \union P) \union {d, e} = Said \union M
  OBVIOUS
<1> HIDE DEF d, e, M
<1>7. EventsOK' /\ Said' = Said \union M
  <2> DEFINE S == Said \union P
  <2>1. \A c \in S : Rank(c) < Rank(d) /\ Rank(c) < Rank(e)
    BY <1>1, <1>2, <1>3
  <2>2. (\A c \in S : Follows(c, d) /\ Follows(c, e)) /\ Follows(d, e) /\ Tells(s, S)
    BY <1>1, <2>1 DEF Follows
  <2> HIDE DEF S
  <2>3. Tells((s \o <<d>>) \o <<e>>, S \union {d, e}) /\ Tells(s \o <<d, e>>, S \union {d, e})
    BY <1>1, <2>2, TwoMore
  <2>4. EventsOK' /\ Said' = S \union {d, e}
    BY <1>4, <2>3, NowTells
  <2> QED
    BY <1>6, <2>4 DEF S
<1>8. /\ Reach(pc) <= Reach(pc') /\ Reach(pc') \in Nat /\ Reach(pc) < 5
      /\ \A c \in M : Rank(c) <= Reach(pc')
  BY <1>1, <1>2, <1>5
<1>9. EndInv'
  BY <1>1, <1>3, <1>5, <1>7 DEF EndInv
<1>10. \A c \in M :
         /\ c.type = "mitm_response" => c.status = response
         /\ c.type = "mitm_request" => c.status = request
  BY <1>1, <1>3, <1>5
<1> QED
  BY <1>5, <1>7, <1>8, <1>9, <1>10, TellsInv

\* The decrypted request is over: its event, and its response's if it has one.
LEMMA FinishesInv ==
  ASSUME ConnectionInv,
         \/ CopyBody \/ CopyBodyTimeout
         \/ \E ok \in BOOLEAN : RefuseRequest(ok) \/ GatewayError(ok) \/ WebSocketEnds(ok)
  PROVE  ConnectionInv'
<1> USE DEF TypeOK, PathInv, EndInv, Timed, Writes, Unbounded, Ended, Opening,
            Asking, Sent, peers
<1>1. CASE \E ok \in BOOLEAN : RefuseRequest(ok)
  <2>1. /\ UNCHANGED <<form, capture, early, delivered, req, upstream, whole>>
        /\ pc = "refuse"
        /\ \/ /\ pc' = "gateway502" /\ client' = "down"
              /\ UNCHANGED <<answers, verdict, events>>
           \/ /\ pc' = "close" /\ client' = client /\ answers' = Append(answers, "refusal")
              /\ verdict' = req
              /\ events' = (events \o <<Event("mitm_request", req)>>) \o <<>>
    BY <1>1 DEF RefuseRequest, Refuse, ClientWrite, ForwardReturns, ForwardFails
  <2>2. CASE pc' = "gateway502"
    <3>1. Said' = Said /\ EventsOK' /\ Reach(pc) = 1 /\ Reach(pc') = 2
      BY <2>1, <2>2, SaysNothing, Reaches DEF ConnectionInv, StoryInv
    <3>2. TypeOK' /\ verdict' \in Statuses /\ PathInv' /\ EndInv'
      BY <2>1, <2>2, <3>1 DEF ConnectionInv, EventsOK
    <3> QED
      BY <2>1, <2>2, <3>1, <3>2, QuietInv
  <2>3. CASE pc' = "close"
    <3> DEFINE e == Event("mitm_request", req)
               M == {e}
    <3>1. req \in Statuses /\ Reach(pc) = 1 /\ Reach(pc') = 6
      BY <2>1, <2>3, Reaches DEF ConnectionInv, Statuses
    <3>2. e \in Events /\ e.type = "mitm_request" /\ Rank(e) = 5
      BY <3>1, RankOf
    <3>3. events' = events \o <<e>>
      <4>1. Tells(events \o <<e>>, Said \union {e})
        BY <3>1, <3>2, SaidSoFar, OneMore
      <4> QED
        BY <2>1, <2>3, <4>1, ConcatEmptySeq DEF Tells
    <3>4. answers' = <<"refusal">> /\ upstream' = "nothing"
      <4>1. Append(<<>>, "refusal") = <<"refusal">>
        OBVIOUS
      <4> QED
        BY <2>1, <2>3, <4>1 DEF ConnectionInv
    <3> HIDE DEF e
    <3>5. EventsOK' /\ Said' = Said \union {e}
      BY <3>1, <3>2, <3>3, SaysOne
    <3>6. answers' \in Seq({"refusal", "upstream", "101", "gateway"})
      <4>1. answers \in Seq({"refusal", "upstream", "101", "gateway"})
        BY DEF ConnectionInv
      <4>2. answers' = Append(answers, "refusal")
        BY <2>1, <2>3
      <4> QED
        BY <4>1, <4>2
    <3>7. TypeOK' /\ verdict' \in Statuses /\ PathInv' /\ EndInv'
      BY <2>1, <2>3, <3>1, <3>4, <3>5, <3>6 DEF ConnectionInv, EventsOK
    <3>8. M \in SUBSET Events /\ Said' = Said \union M /\ \A c \in M : c = e
      BY <3>2, <3>5
    <3> HIDE DEF M
    <3>9. \A c \in M : c.type # "mitm_response" /\ Rank(c) <= Reach(pc')
      BY <3>1, <3>2, <3>8
    <3>10. Reach(pc) <= Reach(pc') /\ Reach(pc') \in Nat /\ Reach(pc) < 5
      BY <3>1
    <3> QED
      BY <3>4, <3>5, <3>7, <3>8, <3>9, <3>10, TellsInv
  <2> QED
    BY <2>1, <2>2, <2>3
<1>2. CASE \E ok \in BOOLEAN : GatewayError(ok)
  <2>1. /\ UNCHANGED <<form, capture, early, delivered, req, upstream, whole>>
        /\ pc = "gateway502" /\ pc' = "close" /\ verdict' = "error"
        /\ \/ client' = client /\ answers' = Append(answers, "gateway")
           \/ client' = "down" /\ answers' = answers
        /\ events' = (events \o <<Event("mitm_request", "error")>>)
                       \o <<Event("mitm_response", "error")>>
    BY <1>2 DEF GatewayError, ClientWrite, ForwardReturns
  <2>2. /\ answers \in {<<>>, <<"upstream">>, <<"101">>} /\ ~whole
        /\ answers # <<>> => upstream = "whole"
        /\ answers \in Seq({"refusal", "upstream", "101", "gateway"})
    BY <2>1 DEF ConnectionInv
  <2>3. /\ Append(<<>>, "gateway") = <<"gateway">>
        /\ Append(<<"upstream">>, "gateway") = <<"upstream", "gateway">>
        /\ Append(<<"101">>, "gateway") = <<"101", "gateway">>
    <3>1. Append(<<>>, "gateway") = <<"gateway">>
      OBVIOUS
    <3> DEFINE S == {"refusal", "upstream", "101", "gateway"}
    <3>2. "upstream" \in S /\ "101" \in S /\ "gateway" \in S
      OBVIOUS
    <3> HIDE DEF S
    <3> QED
      BY <3>1, <3>2, Pair
  <2>4. answers' \in Seq({"refusal", "upstream", "101", "gateway"})
    <3>1. answers' \in {answers, Append(answers, "gateway")}
      BY <2>1
    <3> QED
      BY <2>2, <3>1
  <2>5. /\ \/ answers' \in {<<"upstream">>, <<"101">>, <<"gateway">>, <<>>}
           \/ /\ answers' \in {<<"upstream", "gateway">>, <<"101", "gateway">>}
              /\ ~whole' /\ upstream' = "whole"
        /\ client' = "up" => answers' # <<>>
    <3>1. <<"upstream">> # <<>> /\ <<"101">> # <<>> /\ <<"gateway">> # <<>>
      OBVIOUS
    <3>2. <<"upstream", "gateway">> # <<>> /\ <<"101", "gateway">> # <<>>
      OBVIOUS
    <3>3. CASE answers' = answers
      BY <2>1, <2>2, <3>1, <3>3
    <3>4. CASE answers' = Append(answers, "gateway")
      <4>1. answers' \in {<<"gateway">>, <<"upstream", "gateway">>, <<"101", "gateway">>}
        BY <2>2, <2>3, <3>4
      <4>2. answers = <<>> => answers' = <<"gateway">>
        BY <2>3, <3>4
      <4> QED
        BY <2>1, <2>2, <3>1, <3>2, <4>1, <4>2
    <3> QED
      BY <2>1, <3>3, <3>4
  <2>6. "error" \in Statuses \ (Refused \union {"request_body_timeout"})
    BY DEF Statuses, Refused
  <2>7. ASSUME EventsOK' PROVE TypeOK' /\ verdict' \in Statuses /\ PathInv'
    BY <2>1, <2>4, <2>5, <2>6, <2>7 DEF ConnectionInv, EventsOK
  <2> DEFINE P == {}
  <2>8. Tells(events, Said \union P) /\ P \in SUBSET Events /\ P = {}
    BY SaidSoFar
  <2>9. /\ \A c \in P : Rank(c) = 3
        /\ P # {} => pc = "stream"
    BY <2>8
  <2>10. \/ answers' \in {<<"upstream">>, <<"101">>, <<"gateway">>, <<>>}
         \/ /\ answers' \in {<<"upstream", "gateway">>, <<"101", "gateway">>}
            /\ ~whole' /\ upstream' = "whole"
    BY <2>5
  <2> HIDE DEF P, TypeOK, PathInv, EndInv
  <2> QED
    BY <2>1, <2>6, <2>7, <2>8, <2>9, <2>10, PairInv
<1>3. CASE CopyBodyTimeout \/ (\E ok \in BOOLEAN : WebSocketEnds(ok))
  <2>1. /\ UNCHANGED <<form, capture, early, delivered, req, upstream, answers>>
        /\ pc \in {"stream", "websocket"} /\ pc' = "close"
        /\ client' \in {client, "down"} /\ whole' \in BOOLEAN
    BY <1>3 DEF CopyBodyTimeout, WebSocketEnds, ForwardReturns, ConnectionInv
  <2>2. \E request \in Statuses \ (Refused \union {"request_body_timeout"}),
          response \in Statuses \ {"forwarded", "websocket_non_101_response", "none"} :
          /\ verdict' = response
          /\ events' = (events \o <<Event("mitm_request", request)>>)
                         \o <<Event("mitm_response", response)>>
    <3>1. CASE CopyBodyTimeout
      <4>1. /\ RequestStatus \in Statuses \ (Refused \union {"request_body_timeout"})
            /\ TimeoutStatus \in Statuses \ {"forwarded", "websocket_non_101_response", "none"}
        BY DEF RequestStatus, TimeoutStatus, Statuses, Refused
      <4> QED
        BY <3>1, <4>1 DEF CopyBodyTimeout, ForwardReturns
    <3>2. ASSUME NEW ok \in BOOLEAN, WebSocketEnds(ok)
          PROVE  \E request \in Statuses \ (Refused \union {"request_body_timeout"}),
                   response \in Statuses \ {"forwarded", "websocket_non_101_response", "none"} :
                   /\ verdict' = response
                   /\ events' = (events \o <<Event("mitm_request", request)>>)
                                  \o <<Event("mitm_response", response)>>
      <4> DEFINE response == IF ok THEN "websocket_tunnel_closed" ELSE "websocket_tunnel_error"
      <4>1. /\ "websocket_forwarded" \in Statuses \ (Refused \union {"request_body_timeout"})
            /\ response \in Statuses \ {"forwarded", "websocket_non_101_response", "none"}
        BY DEF Statuses, Refused
      <4>2. ForwardReturns("websocket_forwarded", response, response)
        BY <3>2 DEF WebSocketEnds
      <4> HIDE DEF response
      <4> QED
        BY <4>1, <4>2 DEF ForwardReturns
    <3> QED
      BY <1>3, <3>1, <3>2
  <2>3. PICK request \in Statuses \ (Refused \union {"request_body_timeout"}),
             response \in Statuses \ {"forwarded", "websocket_non_101_response", "none"} :
          /\ verdict' = response
          /\ events' = (events \o <<Event("mitm_request", request)>>)
                         \o <<Event("mitm_response", response)>>
    BY <2>2
  <2>4. answers \in {<<"upstream">>, <<"101">>} /\ answers # <<>>
    <3>1. PathInv /\ pc \in {"stream", "websocket"}
      BY <2>1 DEF ConnectionInv
    <3>2. answers = <<"upstream">> \/ answers = <<"101">>
      BY <3>1 DEF PathInv
    <3>3. <<"upstream">> # <<>> /\ <<"101">> # <<>>
      OBVIOUS
    <3> QED
      BY <3>2, <3>3
  <2>5. ASSUME EventsOK' PROVE TypeOK' /\ verdict' \in Statuses /\ PathInv'
    BY <2>1, <2>3, <2>4, <2>5 DEF ConnectionInv, EventsOK
  <2> DEFINE P == {}
  <2>6. Tells(events, Said \union P) /\ P \in SUBSET Events /\ P = {}
    BY SaidSoFar
  <2> HIDE DEF P
  <2> QED
    BY <2>1, <2>3, <2>4, <2>5, <2>6, PairInv
<1>4. CASE CopyBody
  <2> DEFINE c == Event("mitm_payload", "response")
             d == Event("mitm_request", RequestStatus)
             e == Event("mitm_response", BodyStatus)
  <2>1. /\ UNCHANGED <<form, capture, early, delivered, client, req, upstream, answers>>
        /\ pc = "stream" /\ pc' = "close" /\ whole' = TRUE /\ verdict' = BodyStatus
        /\ events' \in {(events \o <<c>>) \o <<d, e>>, (events \o <<>>) \o <<d, e>>}
    BY <1>4 DEF CopyBody
  <2>2. answers = <<"upstream">> /\ upstream = "whole"
    BY <2>1 DEF ConnectionInv
  <2>3. /\ RequestStatus \in Statuses \ (Refused \union {"request_body_timeout"})
        /\ BodyStatus \in Statuses
    BY DEF RequestStatus, BodyStatus, Statuses, Refused
  <2>4. ASSUME EventsOK' PROVE TypeOK' /\ verdict' \in Statuses /\ PathInv'
    BY <2>1, <2>2, <2>3, <2>4 DEF ConnectionInv, EventsOK
  <2>5. CASE events' = (events \o <<c>>) \o <<d, e>>
    <3>1. c \in Events /\ Rank(c) = 3 /\ Reach(pc) = 2
      BY <2>1, EventIs, Reaches
    <3> HIDE DEF c
    <3>2. Tells(events \o <<c>>, Said \union {c})
      BY <3>1, SaidSoFar, OneMore
    <3>3. {c} \in SUBSET Events /\ \A b \in {c} : Rank(b) = 3
      BY <3>1
    <3> QED
      BY <2>1, <2>2, <2>3, <2>4, <2>5, <3>2, <3>3, PairInv
  <2>6. CASE events' = (events \o <<>>) \o <<d, e>>
    <3> DEFINE P == {}
    <3>1. Tells(events, Said \union P) /\ P \in SUBSET Events /\ P = {}
      BY SaidSoFar
    <3> HIDE DEF P
    <3>2. events' = events \o <<d, e>>
      BY <2>6, <3>1, ConcatEmptySeq DEF Tells
    <3> QED
      BY <2>1, <2>2, <2>3, <2>4, <3>1, <3>2, PairInv
  <2> QED
    BY <2>1, <2>5, <2>6
<1> QED
  BY <1>1, <1>2, <1>3, <1>4

-----------------------------------------------------------------------------
(* The theorems.                                                           *)

LEMMA ConnectionInit == Init => ConnectionInv
<1> SUFFICES ASSUME Init PROVE ConnectionInv
  OBVIOUS
<1>1. events = <<>> /\ DOMAIN events = {} /\ events \in Seq(Events)
  BY EmptySeq DEF Init
<1>2. Said = {} /\ EventsOK
  BY <1>1 DEF Said, Told, EventsOK, Ordered
<1>3. delivered \in Seq(1..MaxItems) /\ answers \in Seq({"refusal", "upstream", "101", "gateway"})
  BY EmptySeq DEF Init
<1>4. TypeOK
  <2>1. pc \in Timed /\ form \in Forms /\ req \in Requests
    BY DEF Init, Timed, Forms, Requests
  <2>2. early \in 0..MaxItems
    BY BoundsAssumption DEF Init
  <2> QED
    BY <1>1, <1>3, <2>1, <2>2 DEF Init, TypeOK
<1>5. verdict \in Statuses
  BY DEF Init, Statuses, Requests
<1>6. PathInv /\ StoryInv /\ EndInv
  BY <1>2 DEF Init, PathInv, StoryInv, EndInv, Opening, Asking, Sent, Ended
<1> QED
  BY <1>4, <1>5, <1>6 DEF ConnectionInv

LEMMA ConnectionNext == ConnectionInv /\ [Next]_vars => ConnectionInv'
<1> SUFFICES ASSUME ConnectionInv, [Next]_vars PROVE ConnectionInv'
  OBVIOUS
<1>1. CASE Timeout
  BY <1>1, OpensInv, ReturnsInv, ForwardsInv, FinishesInv DEF Timeout
<1>2. CASE ClientTakes
  BY <1>2, OpensInv, ReturnsInv, ForwardsInv, FinishesInv DEF ClientTakes
<1>3. CASE PeerStep
  BY <1>3, OpensInv, GoesOnInv, ForwardsInv, FinishesInv DEF PeerStep
<1>4. CASE UNCHANGED vars
  <2>1. UNCHANGED <<pc, form, capture, early, delivered, client, req, upstream, answers, whole,
                    verdict, events>>
    BY <1>4 DEF vars
  <2>2. Said' = Said /\ EventsOK' = EventsOK
    BY <2>1, SaysNothing
  <2> QED
    BY <2>1, <2>2 DEF ConnectionInv, TypeOK, PathInv, StoryInv, EndInv
<1> QED
  BY <1>1, <1>2, <1>3, <1>4, DroppedInv DEF Next

\* The inductive invariant of a connection's task (handle_connection): what
\* client, upstream and log have had by each of its awaits.
THEOREM ConnectionInvariance == Spec => []ConnectionInv
BY ConnectionInit, ConnectionNext, PTL DEF Spec

\* The connection's variables keep their types.
THEOREM ConnectionTypes == Spec => []TypeOK
<1>1. ConnectionInv => TypeOK
  BY DEF ConnectionInv
<1> QED
  BY <1>1, ConnectionInvariance, PTL

\* A connection's events come in one order, however its handlers are taken.
THEOREM EventsInOrder == Spec => []LogOrder
<1>1. ConnectionInv => LogOrder
  BY DEF ConnectionInv, StoryInv, EventsOK, Ordered, Follows, LogOrder, Emitted
<1> QED
  BY <1>1, ConnectionInvariance, PTL

\* Only a connection that was lost before anything was done for it ends
\* without a proxy_request event.
THEOREM ConnectionIsLogged == Spec => []Logged
<1>1. ConnectionInv => Logged
  <2> SUFFICES ASSUME ConnectionInv, pc = "done", \A e \in Said : e.type # "proxy_request"
               PROVE  client = "down" /\ delivered = <<>> /\ upstream = "nothing"
                        /\ answers = <<>>
    BY DEF Logged, Emitted, Said, Told
  <2> QED
    BY DEF ConnectionInv, EndInv
<1> QED
  BY <1>1, ConnectionInvariance, PTL

\* A response logged as forwarded was forwarded, whole and alone.
THEOREM ForwardedWasForwarded == Spec => []ForwardedIsTrue
<1>1. ConnectionInv => ForwardedIsTrue
  <2>1. \A t : \A i \in Emitted(t) : events[i] \in Said /\ events[i].type = t
    BY DEF Emitted, Said, Told
  <2> QED
    BY <2>1 DEF ConnectionInv, StoryInv, ForwardedIsTrue
<1> QED
  BY <1>1, ConnectionInvariance, PTL

\* A request logged as refused has nothing upstream, and the refusal as its
\* only answer.
THEOREM RefusalsAreLocal == Spec => []RefusedStaysLocal
<1>1. ConnectionInv => RefusedStaysLocal
  <2>1. \A t : \A i \in Emitted(t) : events[i] \in Said /\ events[i].type = t
    BY DEF Emitted, Said, Told
  <2> QED
    BY <2>1 DEF ConnectionInv, StoryInv, RefusedStaysLocal
<1> QED
  BY <1>1, ConnectionInvariance, PTL

\* Whoever sent a request that could be read gets an answer, unless gone.
THEOREM ReadersAreAnswered == Spec => []Answered
<1>1. ConnectionInv => Answered
  BY DEF ConnectionInv, EndInv, Answered
<1> QED
  BY <1>1, ConnectionInvariance, PTL

\* A second head on the decrypted stream is the local 502 behind a response that
\* broke off, and never logged as a success.
THEOREM SecondAnswersAreGateways == Spec => []SecondAnswerIsGateway
<1>1. ConnectionInv => SecondAnswerIsGateway
  <2> SUFFICES ASSUME ConnectionInv, Len(answers) > 1
               PROVE  /\ answers \in {<<"upstream", "gateway">>, <<"101", "gateway">>}
                      /\ ~whole /\ upstream = "whole"
                      /\ \A i \in Emitted("mitm_response") : events[i].status = "error"
    BY DEF SecondAnswerIsGateway
  <2>1. answers \notin {<<>>, <<"refusal">>, <<"upstream">>, <<"101">>, <<"gateway">>}
    <3>1. /\ Len(<<>>) = 0 /\ Len(<<"refusal">>) = 1 /\ Len(<<"upstream">>) = 1
          /\ Len(<<"101">>) = 1 /\ Len(<<"gateway">>) = 1
      OBVIOUS
    <3>2. /\ answers # <<>> /\ answers # <<"refusal">> /\ answers # <<"upstream">>
          /\ answers # <<"101">> /\ answers # <<"gateway">>
      BY <3>1
    <3> QED
      BY <3>2
  <2>2. \A i \in Emitted("mitm_response") :
          events[i] \in Said /\ events[i].type = "mitm_response"
    BY DEF Emitted, Said, Told
  <2> QED
    BY <2>1, <2>2 DEF ConnectionInv, EndInv
<1> QED
  BY <1>1, ConnectionInvariance, PTL

=============================================================================
