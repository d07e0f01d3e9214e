----------------------------- MODULE MCPlayback -----------------------------
(***************************************************************************)
(* The playback scheduler on a small instance.  Four items against a queue *)
(* of two: one plays, two wait, and one is dropped.  Two epochs and one    *)
(* future cancellation are enough for an item to go stale in the queue,    *)
(* for a cancelled epoch to be enqueued again, and for the limit of        *)
(* cancelEpoch to be met.                                                  *)
(***************************************************************************)
EXTENDS Playback
=============================================================================
