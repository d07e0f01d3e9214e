--------------------------- MODULE MCConversation ---------------------------
(***************************************************************************)
(* The conversation on small instances: a few calls, a voice session and   *)
(* the one that follows it, replies of up to two chunks, one policy that   *)
(* rejects speech while busy beside one that interrupts, environments in   *)
(* which no call, or any call, may fail, and a voice service.              *)
(***************************************************************************)
EXTENDS ConversationController

In(policies, faults, bridges, calls, sessions) ==
  [policy : policies, faults : {faults}, bridge : bridges, calls : {calls}, sessions : {sessions}]

MCEnvironments ==
  LET both == {"half_duplex", "latest_wins"} IN
  In(both, {}, {"off"}, 3, 2) \cup In(both, {"asr", "quota"}, {"off"}, 2, 2)
    \cup In(both, {}, {"shadow", "active"}, 2, 2)
    \cup In({"half_duplex"}, {"quota"}, {"active"}, 2, 1)

\* For the counterexamples of README, section 5.
Faultless   == In({"half_duplex"}, {}, {"off"}, 2, 2)
LateAsr     == In({"half_duplex"}, {"asr"}, {"off"}, 3, 1)
Quota       == In({"half_duplex"}, {"quota"}, {"off"}, 2, 1)
LostService == In({"half_duplex"}, {}, {"active"}, 2, 1)
=============================================================================
