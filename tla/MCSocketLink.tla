---------------------------- MODULE MCSocketLink ----------------------------
(***************************************************************************)
(* Two sockets (one that is being replaced, one that replaces it), two      *)
(* callers, one retry before the client gives up.                          *)
(***************************************************************************)
EXTENDS SocketLink

CONSTANTS s1, s2, c1, c2
MCSockets == {s1, s2}
MCCallers == {c1, c2}
=============================================================================
