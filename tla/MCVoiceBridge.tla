---------------------------- MODULE MCVoiceBridge ----------------------------
(***************************************************************************)
(* One member heard over two decoders and two SSRCs, one /join at a time,   *)
(* utterances of at most two packets, one speech.                          *)
(***************************************************************************)
EXTENDS VoiceBridge, TLC

CONSTANTS j1, a, k1, n1, n2, u1, d1, d2, h1, h2, x1, x2, g1, p1
MCJoins == {j1}
MCChannels == {a}
MCConns == {k1}
MCSessions == {n1, n2}
MCUsers == {u1}
MCDecoders == {d1, d2}
MCHandles == {h1, h2}
MCSsrcs == {x1, x2}
MCGenerations == {g1}
MCSpeeches == {p1}
Names == Permutations(MCDecoders) \cup Permutations(MCHandles) \cup Permutations(MCSsrcs)
           \cup Permutations(MCSessions)
=============================================================================
