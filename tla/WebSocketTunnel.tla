--------------------------- MODULE WebSocketTunnel --------------------------
(***************************************************************************)
(* The tunnel of an upgraded connection, from the 101 to the end of        *)
(* forward_mitm_websocket_upgrade (src/crates/marsala/src/proxy.rs): the   *)
(* capturing copy copy_bidirectional_with_websocket_capture, or            *)
(* io::copy_bidirectional when capture is off, between two TLS sessions.   *)
(*                                                                         *)
(* A direction's bytes go from the peer that sends them through a socket,  *)
(* the copy's buffer, the TLS session of the other side and its socket to  *)
(* the other peer: unsent, inbound, chunk, session, outbound, received.    *)
(* A write to a TLS session takes what the session has room for and sends  *)
(* what the socket has room for; what is then left waits in the session    *)
(* for the next write, flush or shutdown of it (tokio_rustls).             *)
(***************************************************************************)
EXTENDS WebSocketInspector

CONSTANTS
  Worlds,        \* the peers, the bytes they send, and world.early: how many of a
                 \* direction's units flush_buffered_reader_bytes wrote ahead
  MaxRead,       \* the copy's buffer, in units
  SocketRoom,    \* bound: units a socket holds
  SessionRoom    \* bound: units a TLS session holds

ASSUME RoomAssumption ==
  /\ MaxRead \in Nat \ {0} /\ SocketRoom \in Nat \ {0} /\ SessionRoom \in Nat \ {0}

VARIABLES
  world,      \* one of Worlds
  unsent, inbound, chunk, session, outbound, received,
  closed,     \* the peer that sends in the direction has closed it
  done,       \* downstream_done, upstream_done: the other side is shut down
  inspector,  \* the two WebSocketFrameInspectors
  ended       \* no, ok, error

vars == <<world, unsent, inbound, chunk, session, outbound, received, closed,
          done, inspector, ended>>

\* The client sends requests, the upstream responses.
Directions == {"request", "response"}
Other(d) == IF d = "request" THEN "response" ELSE "request"

\* The end of a direction.
Fin == [frame |-> 0, part |-> 0]

Least(m, n) == IF m < n THEN m ELSE n
Rest(s, n) == SubSeq(s, n + 1, Len(s))

\* What a peer sends are frames, and what is written ahead of it fits a socket.
ASSUME WorldsAssumption ==
  \A w \in Worlds : \A d \in Directions :
    /\ w.frames[d] \in Seq(Frame) /\ w.garble \in Frame
    /\ w.early[d] \in 0..Len(Wire(w.frames[d])) /\ w.early[d] <= SocketRoom

Data(d) ==
  LET compression == FromHandshake(world.offered, world.accepted)
  IN  [frames |-> world.frames[d],
       deflate |-> "deflate" \in compression,
       fresh |-> NoContextTakeover(compression, d),
       garble |-> world.garble, drift |-> world.drift]

\* What a peer that is patient writes, it writes before it reads.
Takes(d) == world.patient[Other(d)] => unsent[Other(d)] = <<>>

Init ==
  /\ world \in Worlds
  /\ unsent = [d \in Directions |-> Rest(Wire(world.frames[d]), world.early[d])]
  /\ outbound = [d \in Directions |-> SubSeq(Wire(world.frames[d]), 1, world.early[d])]
  /\ inbound = [d \in Directions |-> <<>>]
  /\ chunk = inbound /\ session = inbound /\ received = inbound
  /\ closed = [d \in Directions |-> FALSE] /\ done = closed
  /\ inspector = [d \in Directions |-> New]
  /\ ended = "no"

-----------------------------------------------------------------------------
(* The peers and the network.                                              *)

Send(d) ==
  /\ ended # "error" /\ unsent[d] # <<>> /\ Len(inbound[d]) < SocketRoom
  /\ inbound' = [inbound EXCEPT ![d] = Append(@, Head(unsent[d]))]
  /\ unsent' = [unsent EXCEPT ![d] = Tail(@)]
  /\ UNCHANGED <<world, chunk, session, outbound, received, closed, done,
                 inspector, ended>>

\* A peer may close when it has sent everything, or keep its side open.
Close(d) ==
  /\ ended # "error" /\ unsent[d] = <<>> /\ ~closed[d] /\ Len(inbound[d]) < SocketRoom
  /\ inbound' = [inbound EXCEPT ![d] = Append(@, Fin)]
  /\ closed' = [closed EXCEPT ![d] = TRUE]
  /\ UNCHANGED <<world, unsent, chunk, session, outbound, received, done,
                 inspector, ended>>

Receive(d) ==
  /\ ended # "error" /\ outbound[d] # <<>> /\ Takes(d)
  /\ received' = [received EXCEPT ![d] = Append(@, Head(outbound[d]))]
  /\ outbound' = [outbound EXCEPT ![d] = Tail(@)]
  /\ UNCHANGED <<world, unsent, inbound, chunk, session, closed, done, inspector,
                 ended>>

\* A read, write or shutdown fails: the copy returns the error, and the
\* connections are dropped with what is under way.
Fail ==
  /\ ended = "no" /\ ended' = "error"
  /\ UNCHANGED <<world, unsent, inbound, chunk, session, outbound, received, closed,
                 done, inspector>>

-----------------------------------------------------------------------------
(* The copy.                                                               *)

\* Mutant: the select goes on reading while a branch writes.
FreeAlways(d) == ended = "no"

\* The capturing copy reads when neither branch of its select is in a write;
\* copy_bidirectional has a buffer for each direction.
Free(d) ==
  /\ ended = "no"
  /\ IF world.capture THEN \A e \in Directions : chunk[e] = <<>> ELSE chunk[d] = <<>>

Inspect(d, units) ==
  IF world.capture
  THEN inspector' = [inspector EXCEPT ![d] = Ingest(Data(d), @, units)]
  ELSE UNCHANGED inspector

Read(d) ==
  /\ Free(d) /\ ~done[d]
  /\ inbound[d] # <<>> /\ Head(inbound[d]) # Fin
  /\ \E n \in 1..Least(MaxRead, Len(inbound[d])) :
       LET units == SubSeq(inbound[d], 1, n)
       IN  /\ Last(units) # Fin
           /\ Inspect(d, units)
           /\ chunk' = [chunk EXCEPT ![d] = units]
           /\ inbound' = [inbound EXCEPT ![d] = Rest(@, n)]
  /\ UNCHANGED <<world, unsent, session, outbound, received, closed, done, ended>>

\* A read of 0 bytes: the other side is shut down.
ReadEnd(d) ==
  /\ Free(d) /\ ~done[d]
  /\ inbound[d] # <<>> /\ Head(inbound[d]) = Fin
  /\ chunk' = [chunk EXCEPT ![d] = <<Fin>>]
  /\ inbound' = [inbound EXCEPT ![d] = Tail(@)]
  /\ UNCHANGED <<world, unsent, session, outbound, received, closed, done,
                 inspector, ended>>

\* The session sends what its socket takes of units.
Ship(d, units) ==
  LET n == Least(Len(units), SocketRoom - Len(outbound[d]))
  IN  /\ outbound' = [outbound EXCEPT ![d] = @ \o SubSeq(units, 1, n)]
      /\ session' = [session EXCEPT ![d] = Rest(units, n)]

\* A poll of write_all.
Write(d) ==
  /\ ended = "no" /\ chunk[d] # <<>> /\ chunk[d] # <<Fin>>
  /\ Len(session[d]) < SessionRoom \/ Len(outbound[d]) < SocketRoom
  /\ LET n == Least(Len(chunk[d]), SessionRoom - Len(session[d]))
     IN  /\ Ship(d, session[d] \o SubSeq(chunk[d], 1, n))
         /\ chunk' = [chunk EXCEPT ![d] = Rest(@, n)]
  /\ UNCHANGED <<world, unsent, inbound, received, closed, done, inspector, ended>>

\* Mutant: the end of one direction is taken for the end of the tunnel.
EndsWith(d) == TRUE

\* while !downstream_done || !upstream_done
EndsAfter(d) == done[Other(d)]

\* A session is flushed before it is shut down; copy_bidirectional flushes it
\* whenever it has nothing to write, the capturing copy does not.
Flush(d) ==
  /\ ended = "no" /\ session[d] # <<>> /\ Len(outbound[d]) < SocketRoom
  /\ chunk[d] = <<Fin>> \/ (~world.capture /\ chunk[d] = <<>>)
  /\ Ship(d, session[d])
  /\ UNCHANGED <<world, unsent, inbound, chunk, received, closed, done, inspector,
                 ended>>

Shutdown(d) ==
  /\ ended = "no" /\ chunk[d] = <<Fin>>
  /\ session[d] = <<>> /\ Len(outbound[d]) < SocketRoom
  /\ outbound' = [outbound EXCEPT ![d] = Append(@, Fin)]
  /\ chunk' = [chunk EXCEPT ![d] = <<>>]
  /\ done' = [done EXCEPT ![d] = TRUE]
  /\ ended' = IF EndsAfter(d) THEN "ok" ELSE "no"
  /\ UNCHANGED <<world, unsent, inbound, session, received, closed, inspector>>

-----------------------------------------------------------------------------
Progress ==
  \E d \in Directions :
    Send(d) \/ Receive(d) \/ Read(d) \/ ReadEnd(d) \/ Write(d) \/ Flush(d) \/ Shutdown(d)

Next == Progress \/ (\E d \in Directions : Close(d)) \/ Fail

\* Every step of Progress moves units forward, so that as long as one can be
\* taken one is: the peers send and (once they do) read, the copy is polled.
Spec == Init /\ [][Next]_vars /\ WF_vars(Progress)

-----------------------------------------------------------------------------
Sent(d) == Wire(world.frames[d]) \o (IF closed[d] THEN <<Fin>> ELSE <<>>)

TypeOK ==
  /\ world \in Worlds
  /\ \A d \in Directions :
       /\ Len(inbound[d]) <= SocketRoom /\ Len(outbound[d]) <= SocketRoom
       /\ Len(session[d]) <= SessionRoom /\ Len(chunk[d]) <= MaxRead
       /\ world.capture => Len(inspector[d].buffer) <= MaxBuffer
  /\ closed \in [Directions -> BOOLEAN] /\ done \in [Directions -> BOOLEAN]
  /\ ended \in {"no", "ok", "error"}

\* docs/planning/03_reconciled_plan.md: "Marsala preserves forwarded bytes".
\* Whether they are captured or not, whether they came before the tunnel did
\* or through it, a direction's bytes reach the other peer as they were sent:
\* in their order, none lost or repeated, the end behind the last of them.
Unchanged ==
  \A d \in Directions :
    FlattenSeq(<<received[d], outbound[d], session[d], chunk[d], inbound[d]>>)
      \o (IF closed[d] THEN <<>> ELSE unsent[d]) = Sent(d)

\* The inspector began at a frame's header and has thrown nothing away.
Aligned(d) ==
  /\ LET wire == Wire(world.frames[d])
     IN  world.early[d] = Len(wire) \/ wire[world.early[d] + 1].part = 1
  /\ ~inspector[d].lost

\* The frames the inspector has to report: text and binary ones behind those
\* that passed it by.
Passed(d) == {Wire(world.frames[d])[i].frame : i \in 1..world.early[d]}
Reportable(d) ==
  Ordered(Len(world.frames[d]),
          {k \in DOMAIN world.frames[d] :
             k \notin Passed(d) /\ world.frames[d][k].opcode \in {"text", "binary"}})

\* What is logged of a captured tunnel is what went through it: the text and
\* binary frames in their order, each of them once and, before the other peer
\* has the whole of it, at the latest; however the reads cut them up.  (An
\* inspector that begins inside a frame, or has met a frame over its cap, is
\* excepted: it reads payload as headers.)
ReportsAreFrames ==
  \A d \in Directions :
    LET reported == [i \in DOMAIN inspector[d].reports |-> inspector[d].reports[i].frame]
    IN  /\ ~world.capture => inspector[d] = New
        /\ world.capture /\ Aligned(d) =>
             /\ IsPrefix(reported, Reportable(d))
             /\ \A k \in ToSet(Reportable(d)) :
                  Last(Units(k, world.frames[d][k])) \in ToSet(received[d])
                    => k \in ToSet(reported)

\* The compressed messages before frame k were all given to the inflater, and
\* none of them hit its cap.
Fed(d, k) ==
  \A j \in 1..k - 1 :
    LET frame == world.frames[d][j]
    IN  Compressed(world.frames[d], j) =>
          /\ j \notin Passed(d)
          /\ frame.opcode = "text" /\ frame.fin /\ frame.inflates # "bomb"

\* Neither was the context of frame k kept from the inflater, nor its stream ended.
Undisturbed(d, k) ==
  \/ Data(d).fresh
  \/ /\ Fed(d, k)
     /\ \A j \in 1..k - 1 :
          Compressed(world.frames[d], j) => ~world.frames[d][j].final

\* docs/planning/03_reconciled_plan.md: "decodes bounded previews while
\* maintaining inflate context".  A compressed message is decoded, and what is
\* logged of it is what the peer compressed, over any number of earlier ones,
\* truncated previews among them.  The context is lost, and not got back, only
\* by what Undisturbed names: compressed frames that passed the inspector by,
\* that were binary or fragments, that inflated to the cap, or whose last block
\* ended the stream (the messages behind it are logged as decoded, and empty).
\* (As in ReportsAreFrames, an inspector that is not Aligned is excepted.)
DecodedIsTrue ==
  \A d \in Directions :
    world.capture /\ Aligned(d) =>
      \A i \in DOMAIN inspector[d].reports :
        LET r == inspector[d].reports[i]
        IN  /\ r.status = "compressed_preview_unavailable" => ~Undisturbed(d, r.frame)
            /\ Undisturbed(d, r.frame) => r.right

\* The same sentence of the plan, with no exception for a message that ends its
\* DEFLATE stream: what the inflater was given it remembers.
ContextMaintained ==
  \A d \in Directions :
    world.capture /\ Aligned(d) =>
      \A i \in DOMAIN inspector[d].reports :
        LET r == inspector[d].reports[i] IN Fed(d, r.frame) => r.right

\* The copy waits for a peer that does not read before it has written; or a
\* session of the capturing copy keeps what its socket once did not take.
HeldUp ==
  IF world.capture
  THEN \E d \in Directions : \/ chunk[d] # <<>> /\ ~Takes(d)
                             \/ chunk[d] = <<>> /\ session[d] # <<>>
  ELSE \A d \in Directions : ~Takes(d)

\* Unless the tunnel fails, everything that is sent arrives, and so does the
\* end of each direction while the other one goes on, but for HeldUp: without
\* capture only two peers that both write before they read stop each other;
\* with it one such peer is enough, or a session nobody flushes.
Arrives ==
  <>[](ended = "error" \/ HeldUp \/ \A d \in Directions : received[d] = Sent(d))

=============================================================================
