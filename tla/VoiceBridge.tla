----------------------------- MODULE VoiceBridge -----------------------------
(***************************************************************************)
(* VoiceCapture with the ModelBridge bound to it: frames, ends and aborts   *)
(* of the captures reach the bridge in the step that emits them.            *)
(***************************************************************************)
EXTENDS VoiceCapture, ModelBridge

\* Both know a member by the Discord user id.
ASSUME BindingAssumption == Users \subseteq Members

vars == <<sessionVars, captureVars, bridge>>

TypeOK == SessionTypeOK /\ CaptureTypeOK /\ BridgeTypeOK

Init == SessionInit /\ CaptureInit /\ BridgeInit

\* A source that is opened for u gets a generation no other source has.
Nameable(u, g) == g \notin DOMAIN bridge.sources \/ bridge.byMember[u] = g

\* pcmAbort for the room, and the captures, go with a torn down session.
EmitsTeardown(ok) ==
  IF session # None /\ session' = None
  THEN TearDown /\ bridge' = RoomAborted(bridge, ok)
  ELSE UNCHANGED <<captureVars, bridge>>

Command(j) ==
  \/ \E ch \in Channels, c \in Conns, ok \in BOOLEAN : JoinBegins(j, ch, c) /\ EmitsTeardown(ok)
  \/ \E s \in Sessions : /\ JoinReady(j, s) /\ \A u \in Users : <<u, s>> \notin fetching
                         /\ \A d \in Decoders : pipeline[d] # None => pipeline[d][2] # s
                         /\ UNCHANGED <<captureVars, bridge>>
  \/ JoinStarts(j) /\ UNCHANGED <<captureVars, bridge>>
  \/ \E ok \in BOOLEAN : JoinFails(j) /\ EmitsTeardown(ok)

Library(c, ok) ==
  \/ Connects(c) /\ UNCHANGED <<captureVars, bridge>>
  \/ Reconnects(c) /\ UNCHANGED <<captureVars, bridge>>
  \/ IsDestroyed(c) /\ EmitsTeardown(ok)
  \/ /\ Drops(c)
     /\ IF session # None /\ of[session].conn = c
        THEN DropBuffers /\ bridge' = RoomAborted(bridge, ok)
        ELSE UNCHANGED <<captureVars, bridge>>

Ends(ok) ==
  \/ Leave /\ EmitsTeardown(ok)
  \/ \E s \in Sessions : GivesUp(s) /\ EmitsTeardown(ok)

\* onPcmPacket(): an abort if the SSRC changed, the frame, and the end.
FrameTo(u, d, x, g, ok) ==
  LET moved == capture[u].ssrc # None /\ capture[u].ssrc # x
      before == IF moved THEN Aborted(bridge, {u}, ok) ELSE bridge
  IN Captured(before, u, <<d, x, era>>, g, ok)

Packet(u, d, x, g, ok) ==
  /\ Nameable(u, g)
  /\ \/ \E h \in Handles :
          PacketIsBuffered(d, u, x, h) /\ bridge' = FrameTo(u, d, x, g, ok)
     \/ \E long \in BOOLEAN :
          /\ PacketFillsBuffer(d, u, x, long)
          /\ bridge' = Finished(FrameTo(u, d, x, g, ok), u, said'.audio, ok)
  /\ UNCHANGED sessionVars

Silent(h, ok) ==
  /\ \E long \in BOOLEAN : SilenceDetected(h, long)
  /\ bridge' = IF capture[timers[h]] = None THEN bridge
               ELSE Finished(bridge, timers[h], said'.audio, ok)
  /\ UNCHANGED sessionVars

Closing(d, ok) ==
  /\ PipelineCloses(d)
  /\ bridge' = IF Retires(d) THEN Aborted(bridge, {pipeline[d][1]}, ok) ELSE bridge
  /\ UNCHANGED sessionVars

Speaking ==
  /\ \/ \E u \in Users, d \in Decoders :
          SpeakingStarts(u, d) \/ \E s \in Sessions : FetchReturns(u, s, d)
     \/ \E u \in Users : MemberIsFetched(u) \/ \E h \in Handles : SpeakingEnds(u, h)
  /\ UNCHANGED <<sessionVars, bridge>>

Next ==
  \/ \E j \in Joins : Command(j)
  \/ Speaking
  \/ \E ok \in BOOLEAN :
       \/ Ends(ok)
       \/ \E c \in Conns : Library(c, ok)
       \/ \E h \in Handles : Silent(h, ok)
       \/ \E d \in Decoders : Closing(d, ok)
       \/ \E u \in Users, d \in Decoders, x \in Ssrcs, g \in Generations : Packet(u, d, x, g, ok)
  \/ Service /\ UNCHANGED <<sessionVars, captureVars>>

Spec == Init /\ [][Next]_vars
=============================================================================
