--------------------------- MODULE MCRateLimiter ---------------------------
(***************************************************************************)
(* Four requests for one slot and a budget of two in a window of two       *)
(* ticks, cooldowns shorter than the window or as long: one request is     *)
(* always over the budget, and two wait for the slot.  A 503 is retried    *)
(* twice, within the tick and after one, as 500 ms and 1.5 s are short of  *)
(* a minute.                                                               *)
(***************************************************************************)
EXTENDS RateLimiter

CONSTANTS r1, r2, r3, r4
MCRequests == {r1, r2, r3, r4}
MCCooldowns == {1, 2}
MCRetryDelays == <<0, 1>>
=============================================================================
