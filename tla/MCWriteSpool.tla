---------------------------- MODULE MCWriteSpool ----------------------------
(***************************************************************************)
(* WriteSpool on a small instance: three calls of accept with two keys, so *)
(* that a key can be reused, any of them failing part way, two deaths in   *)
(* the middle of a recovery and an authority that once answers "not now".  *)
(***************************************************************************)
EXTENDS WriteSpool
=============================================================================
