----------------------------- MODULE WsSockets -----------------------------
(***************************************************************************)
(* What the two ends of a WebSocket link share: the sockets, and a value   *)
(* that stands for "undefined".                                            *)
(***************************************************************************)
EXTENDS FiniteSets

CONSTANTS Sockets, None

ASSUME SocketsAssumption == IsFiniteSet(Sockets) /\ None \notin Sockets
=============================================================================
