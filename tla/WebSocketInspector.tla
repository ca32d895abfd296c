------------------------- MODULE WebSocketInspector -------------------------
(***************************************************************************)
(* WebSocketFrameInspector (src/crates/marsala/src/proxy.rs): the parser   *)
(* and inflater that the capturing copy feeds with one direction's bytes.  *)
(* Operators on an inspector's state; WebSocketTunnel holds one for each   *)
(* direction.                                                              *)
(*                                                                         *)
(* A frame on the wire is a sequence of units: its header (with length and *)
(* mask) is the first, the others are payload, all of them [frame, part].  *)
(* A unit of payload that is taken for a header reads as data.garble.      *)
(***************************************************************************)
EXTENDS Naturals, Sequences, SequencesExt

CONSTANT
  MaxBuffer   \* MAX_WEBSOCKET_INSPECT_BUFFER_BYTES, in units

ASSUME MaxBufferAssumption == MaxBuffer \in Nat

Opcode == {"continuation", "text", "binary", "control"}

\* What a message inflates to: within the preview's cap, over it, or to
\* WEBSOCKET_DEFLATE_MAX_INFLATED_BYTES and more.
Inflated == {"short", "long", "bomb"}

\* readable: the part of the text a preview shows is whole UTF-8 characters.
\* final: the message's last block of data is marked as the last of the DEFLATE
\* stream (BFINAL, RFC 7692 section 7.2.3.4; in an earlier block it is not modelled).
Frame == [opcode : Opcode, fin : BOOLEAN, rsv1 : BOOLEAN, readable : BOOLEAN,
          inflates : Inflated, final : BOOLEAN, size : Nat \ {0}]

\* The units a frame or a sequence of frames is on the wire.
Units(k, frame) == [i \in 1..frame.size |-> [frame |-> k, part |-> i]]
Wire(frames) == FlattenSeq([k \in DOMAIN frames |-> Units(k, frames[k])])

\* The members of S up to n, in their order.
Ordered(n, S) == FlattenSeq([k \in 1..n |-> IF k \in S THEN <<k>> ELSE <<>>])

-----------------------------------------------------------------------------
(* WebSocketCompression.                                                   *)

\* from_handshake: what the upstream accepted ("deflate" and the parameters
\* "client", "server" for no_context_takeover) counts if the client offered it.
FromHandshake(offered, accepted) ==
  IF offered /\ "deflate" \in accepted THEN accepted ELSE {}

\* direction_no_context_takeover
NoContextTakeover(compression, direction) ==
  (IF direction = "request" THEN "client" ELSE "server") \in compression

-----------------------------------------------------------------------------
(* The inspector.  inflater.fed are the frames the decompressor has taken  *)
(* in since it was made, 0 for something that was no frame; over says that *)
(* its DEFLATE stream has ended.  data is what the bytes of the direction  *)
(* decide: its frames, its compression, the header a unit of payload makes *)
(* and what becomes of a payload that is inflated in a context that is not *)
(* its own.                                                                *)

NoInflater == [live |-> FALSE, over |-> FALSE, fed |-> <<>>]

New == [buffer |-> <<>>, inflater |-> NoInflater, reports |-> <<>>, lost |-> FALSE]

\* The frame a unit says it is the header of.
Header(data, unit) ==
  IF unit.part = 1 THEN data.frames[unit.frame] ELSE data.garble
Id(unit) == IF unit.part = 1 THEN unit.frame ELSE 0

\* The frames of the peer's compression context that frame k builds on.
Compressed(frames, k) ==
  \/ frames[k].rsv1
  \/ /\ frames[k].opcode = "continuation"
     /\ \E j \in 1..k - 1 : /\ frames[j].rsv1 /\ ~frames[j].fin
                            /\ \A i \in j + 1..k - 1 : ~frames[i].fin
Context(data, k) ==
  IF data.fresh THEN <<>>
  ELSE Ordered(k - 1, {j \in 1..k - 1 : Compressed(data.frames, j)})

\* Mutant: a message over the preview's cap ends the decompressor, too.
DropsLong(data, frame, fails) == fails \/ data.fresh \/ frame.inflates # "short"

\* The decompressor is dropped after an error, after a message that hits the
\* cap, and after each message without context takeover.
Drops(data, frame, fails) == fails \/ data.fresh \/ frame.inflates = "bomb"

\* Status::StreamEnd: the decompressor is kept when its stream has ended.
AtStreamEnd(data, inflater) == ~data.fresh /\ inflater.over

\* decode_permessage_deflate: the decompressor is made when there is none, or
\* for each message.  One at its stream's end takes nothing in and gives nothing
\* out, which is the empty text.
Inflate(data, inflater, k, frame) ==
  LET known == IF data.fresh \/ ~inflater.live THEN <<>> ELSE inflater.fed
      right == k # 0 /\ known = Context(data, k)
      fails == ~right /\ data.drift = "error"
  IN  IF AtStreamEnd(data, inflater)
      THEN [inflater |-> inflater, right |-> FALSE, status |-> "decoded"]
      ELSE [inflater |-> IF Drops(data, frame, fails) THEN NoInflater
                         ELSE [live |-> TRUE, over |-> frame.final, fed |-> Append(known, k)],
            right |-> right,
            status |-> IF fails THEN "compressed_preview_unavailable"
                       ELSE IF ~frame.readable THEN "decoded_non_utf8"
                       ELSE IF frame.inflates = "short" THEN "decoded"
                       ELSE "decoded_truncated"]

Report(k, status, right) == [frame |-> k, status |-> status, right |-> right]

\* text_preview and captured_text_preview.
TextReport(data, s, k, frame) ==
  IF ~(data.deflate /\ frame.rsv1)
  THEN [s EXCEPT !.reports = Append(@, Report(k,
          IF frame.readable THEN "available" ELSE "text_preview_unavailable", k # 0))]
  ELSE IF ~frame.fin
  THEN [s EXCEPT !.reports =
          Append(@, Report(k, "compressed_fragmented_preview_unavailable", k # 0))]
  ELSE LET result == Inflate(data, s.inflater, k, frame)
       IN  [s EXCEPT !.inflater = result.inflater,
                     !.reports = Append(@, Report(k, result.status, result.right))]

\* emit_frame
EmitFrame(data, s, k, frame) ==
  CASE frame.opcode = "text" -> TextReport(data, s, k, frame)
    [] frame.opcode = "binary" ->
         [s EXCEPT !.reports = Append(@, Report(k, "binary_skipped", k # 0))]
    [] OTHER -> s

\* try_pop_frame: nothing until the frame the buffer begins with is complete.
CanPop(data, s) ==
  s.buffer # <<>> /\ Len(s.buffer) >= Header(data, Head(s.buffer)).size

PopFrame(data, s) ==
  LET frame == Header(data, Head(s.buffer))
  IN  EmitFrame(data, [s EXCEPT !.buffer = SubSeq(@, frame.size + 1, Len(@))],
                Id(Head(s.buffer)), frame)

\* The loop of ingest.
Drain(data, s) ==
  LET after[n \in 0..Len(s.buffer)] ==
        IF n = 0 THEN s
        ELSE IF CanPop(data, after[n - 1]) THEN PopFrame(data, after[n - 1])
        ELSE after[n - 1]
  IN  after[Len(s.buffer)]

\* Mutant: the cap is looked at before the frames are taken out.
CapThenDrain(data, s, units) ==
  LET fed == [s EXCEPT !.buffer = @ \o units]
  IN  IF Len(fed.buffer) > MaxBuffer THEN [fed EXCEPT !.buffer = <<>>] ELSE Drain(data, fed)

\* Mutant: there is no cap.
DrainOnly(data, s, units) == Drain(data, [s EXCEPT !.buffer = @ \o units])

\* ingest: every complete frame is reported, and what is left is thrown away
\* if it is over the cap.
Ingest(data, s, units) ==
  LET rest == Drain(data, [s EXCEPT !.buffer = @ \o units])
  IN  IF Len(rest.buffer) > MaxBuffer
      THEN [rest EXCEPT !.buffer = <<>>, !.lost = TRUE]
      ELSE rest

=============================================================================
