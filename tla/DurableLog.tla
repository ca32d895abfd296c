------------------------------ MODULE DurableLog ----------------------------
(***************************************************************************)
(* What the event log promises (event_log.rs), without its channel, task   *)
(* and handles: a life of the log takes records until it is closed, makes  *)
(* them durable one after another in the order it took them, and may say   *)
(* that it is settled only when all of them are.                           *)
(***************************************************************************)
EXTENDS Naturals, Sequences

CONSTANT Record

VARIABLES
  status,    \* down, open, closed, settled, broken
  accepted,  \* the records taken in this life
  durable    \* those of them that are on disk

vars == <<status, accepted, durable>>

Init == status = "down" /\ accepted = <<>> /\ durable = <<>>

\* A life begins; a disabled log begins closed.
Start ==
  /\ status = "down"
  /\ status' \in {"open", "closed"}
  /\ accepted' = <<>> /\ durable' = <<>>

Accept(r) ==
  /\ status = "open"
  /\ accepted' = Append(accepted, r)
  /\ UNCHANGED <<status, durable>>

\* The next record, and no other, becomes durable.
Persist ==
  /\ Len(durable) < Len(accepted)
  /\ durable' = Append(durable, accepted[Len(durable) + 1])

Write == status \in {"open", "closed"} /\ Persist /\ UNCHANGED <<status, accepted>>

Close == status = "open" /\ status' = "closed" /\ UNCHANGED <<accepted, durable>>

Settle ==
  /\ status = "closed" /\ durable = accepted
  /\ status' = "settled"
  /\ UNCHANGED <<accepted, durable>>

\* A write fails: the record it was writing may or may not have got through.
Break ==
  /\ status \in {"open", "closed"}
  /\ status' = "broken"
  /\ Persist \/ UNCHANGED durable
  /\ UNCHANGED accepted

Halt == status # "down" /\ status' = "down" /\ UNCHANGED <<accepted, durable>>

Next ==
  \/ Start \/ (\E r \in Record : Accept(r)) \/ Write \/ Close \/ Settle
  \/ Break \/ Halt

Spec == Init /\ [][Next]_vars
=============================================================================
