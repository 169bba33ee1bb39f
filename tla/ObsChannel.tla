----------------------------- MODULE ObsChannel -----------------------------
(***************************************************************************)
(* What the observation queue promises its two users (obs_queue.h): a FIFO *)
(* of at most Cap observations that forgets its oldest entry rather than   *)
(* grow, and hands out its oldest entries in chunks of at most ShipBatch.  *)
(***************************************************************************)
EXTENDS Integers, Sequences

CONSTANTS Cap, ShipBatch

VARIABLES
  pending,   \* the queued observations, oldest first
  published  \* how many were ever published

chanVars == <<pending, published>>

Init == pending = <<>> /\ published = 0

Newest(q) == IF Len(q) = Cap THEN Tail(q) ELSE q

Publish ==
  /\ published' = published + 1
  /\ pending' = Append(Newest(pending), published + 1)

Take ==
  /\ pending # <<>>
  /\ pending' = IF Len(pending) < ShipBatch
                THEN <<>>
                ELSE SubSeq(pending, ShipBatch + 1, Len(pending))
  /\ UNCHANGED published

Spec == Init /\ [][Publish \/ Take]_chanVars
=============================================================================
