----------------------------- MODULE VoiceAvatar -----------------------------
(***************************************************************************)
(* VoiceSessions with the AvatarPublisher bound to it: the publisher hears *)
(* sessionStart and sessionEnd in the step that emits them.                *)
(***************************************************************************)
EXTENDS VoiceSessions, AvatarPublisher, FiniteSets

avatarVars == <<sessionVars, publisherVars>>

AvatarTypeOK == SessionTypeOK /\ PublisherTypeOK

AvatarInit == SessionInit /\ PublisherInit

\* teardownSession() emits sessionEnd for the session it removes.
EmitsSessionEnd ==
  IF session # None /\ session' = None
  THEN SessionEnd(of[session].channel) ELSE UNCHANGED publisherVars

\* Bound: a join begins only if its session can still be numbered.
MayJoin == fresh + Cardinality({j \in Joins : join[j].pc # "idle"}) < MaxSession

AvatarCommand(j) ==
  \/ \E ch \in Channels, c \in Conns : MayJoin /\ JoinBegins(j, ch, c) /\ EmitsSessionEnd
  \/ \E s \in Sessions : JoinReady(j, s) /\ UNCHANGED publisherVars
  \/ JoinStarts(j) /\ SessionStart(join[j].channel)
  \/ JoinFails(j) /\ EmitsSessionEnd

AvatarLibrary(c) ==
  \/ Connects(c) /\ UNCHANGED publisherVars
  \/ Drops(c) /\ UNCHANGED publisherVars
  \/ Reconnects(c) /\ UNCHANGED publisherVars
  \/ IsDestroyed(c) /\ EmitsSessionEnd

AvatarNext ==
  \/ \E j \in Joins : AvatarCommand(j)
  \/ \E c \in Conns : AvatarLibrary(c)
  \/ \E s \in Sessions : GivesUp(s) /\ EmitsSessionEnd
  \/ Leave /\ EmitsSessionEnd
  \/ \E ch \in Channels : SetBehavior(ch) /\ UNCHANGED sessionVars
  \/ PublisherStep /\ UNCHANGED sessionVars

AvatarSpec == AvatarInit /\ [][AvatarNext]_avatarVars

\* The publisher's timers and its socket, and the relay, go on.
AvatarFairness ==
  /\ WF_avatarVars(RetryDue /\ UNCHANGED sessionVars)
  /\ WF_avatarVars(SocketOpens /\ UNCHANGED sessionVars)
  /\ WF_avatarVars(SocketCloses /\ UNCHANGED sessionVars)
  /\ WF_avatarVars(Result /\ UNCHANGED sessionVars)
  /\ WF_avatarVars(RelayReceives /\ UNCHANGED sessionVars)

AvatarFairSpec == AvatarSpec /\ AvatarFairness

-----------------------------------------------------------------------------
(* The avatar is shown in a channel only while the bot is in it or is about *)
(* to say that it is: sessionEnd takes back what sessionStart announced.    *)
AvatarFollowsSession ==
  avatar # Nobody =>
    \/ session # None /\ of[session].channel = avatar.channel
    \/ \E j \in Joins : join[j].pc # "idle"
=============================================================================
