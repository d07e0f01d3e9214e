---------------------------- MODULE MCVoiceAvatar ----------------------------
(***************************************************************************)
(* Two /join commands, two channels, and names enough for the sessions and  *)
(* connections that can be referred to at once.                            *)
(***************************************************************************)
EXTENDS VoiceAvatar

CONSTANTS j1, j2, a, b, k1, k2, n1, n2
MCJoins == {j1, j2}
MCChannels == {a, b}
MCConns == {k1, k2}
MCSessions == {n1, n2}
=============================================================================
