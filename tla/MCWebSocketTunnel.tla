-------------------------- MODULE MCWebSocketTunnel -------------------------
(* An instance of WebSocketTunnel for TLC.                                 *)
EXTENDS WebSocketTunnel

Plain == [opcode |-> "text", fin |-> TRUE, rsv1 |-> FALSE, readable |-> TRUE,
          inflates |-> "short", final |-> FALSE, size |-> 2]
Deflated == [Plain EXCEPT !.rsv1 = TRUE]
Sized(size, frame) == [frame EXCEPT !.size = size]

\* Frames a client sends ahead of a compressed message: a larger one is over
\* the inspector's cap.
Kinds ==
  {Plain, Sized(1, [Plain EXCEPT !.opcode = "control"]), [Deflated EXCEPT !.inflates = "long"],
   [Deflated EXCEPT !.inflates = "bomb"], [Deflated EXCEPT !.final = TRUE],
   [Deflated EXCEPT !.opcode = "binary"],
   Sized(4, [Plain EXCEPT !.readable = FALSE])}
Fragments == <<[Deflated EXCEPT !.fin = FALSE],
               Sized(1, [Plain EXCEPT !.opcode = "continuation"])>>

Pair(request, response) ==
  [d \in Directions |-> IF d = "request" THEN request ELSE response]

World(requests, responses) ==
  [frames |-> Pair(requests, responses), early |-> Pair(0, 0),
   patient |-> Pair(FALSE, FALSE), capture |-> TRUE,
   offered |-> TRUE, accepted |-> {"deflate"},
   garble |-> [Deflated EXCEPT !.size = 1], drift |-> "garbage"]

\* Captured: two frames and a compressed message behind them, and nothing the
\* other way.
Captured ==
  LET before == Kinds \X {Plain, Sized(4, Plain), [Deflated EXCEPT !.inflates = "long"]}
      context == {<<{"deflate"}, "error">>, <<{"deflate"}, "garbage">>,
                  <<{"deflate", "client"}, "error">>}
  IN  {[World(frames \o <<Deflated>>, <<>>) EXCEPT
          !.early = Pair(early, 0), !.accepted = c[1], !.drift = c[2]] :
        frames \in before \union {Fragments}, early \in 0..2, c \in context}

\* Both ways: peers of either sort, captured or not, the first unit of the
\* upstream read with its 101 or not.
BothWays ==
  {[World(<<Plain, Plain>>, <<Plain, Plain>>) EXCEPT
      !.early = Pair(0, early), !.patient = patient, !.capture = capture,
      !.accepted = {}] :
    early \in 0..1, patient \in [Directions -> BOOLEAN], capture \in BOOLEAN}

MCWorlds == Captured \union BothWays

=============================================================================
