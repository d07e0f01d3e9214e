---------------------------- MODULE VoiceCapture ----------------------------
(***************************************************************************)
(* Capturing what the members of a voice channel say (src/voice/            *)
(* voice-manager.ts): speaking bursts, the decoder pipeline of a member,    *)
(* packets, the finalize timer and the utterances that come out.           *)
(*                                                                         *)
(* A packet is known by where it came from: the decoder that produced it,   *)
(* the SSRC and the span between two disconnections.  Timers are handles;   *)
(* a timer knows the member only, as the closure in the code does.         *)
(***************************************************************************)
EXTENDS VoiceSessions, FiniteSets

CONSTANTS
  Users,
  Decoders,   \* names for decoder pipelines
  Handles,    \* names for finalize timers
  Ssrcs,
  MaxFrames   \* packets in the longest utterance (maxUtteranceMs)

VARIABLES
  capture,    \* captures.get(user)
  decoder,    \* decoders.get(user)
  pipeline,   \* the member and session of every decoder whose close is to come
  timers,     \* the member of every finalize timer that is armed
  fetching,   \* speaking bursts that wait for the member to be fetched
  era,        \* ghost: flips with every disconnection
  said        \* ghost: the member of the last utterance and where its packets came from

captureVars == <<capture, decoder, pipeline, timers, fetching, era, said>>

Origins == Decoders \X Ssrcs \X {0, 1}

Captures ==
  [state : {"idle", "speaking", "finalizing"}, started : BOOLEAN, audio : SUBSET Origins,
   frames : 0..MaxFrames, timer : Handles \cup {None}, ssrc : Ssrcs \cup {None}]

\* "undefined" is nothing else.
ASSUME CaptureAssumption ==
  /\ MaxFrames \in Nat \ {0}
  /\ None \notin Users \cup Sessions \cup Decoders \cup Ssrcs
  /\ None \notin Captures /\ None \notin Users \X Sessions

Blank == [state |-> "idle", started |-> FALSE, audio |-> {}, frames |-> 0,
          timer |-> None, ssrc |-> None]

CaptureTypeOK ==
  /\ capture \in [Users -> {None} \cup Captures]
  /\ decoder \in [Users -> Decoders \cup {None}]
  /\ pipeline \in [Decoders -> (Users \X Sessions) \cup {None}]
  /\ timers \in [Handles -> Users \cup {None}]
  /\ fetching \subseteq Users \X Sessions
  /\ era \in {0, 1} /\ said \in [user : Users \cup {None}, audio : SUBSET Origins]

Silence == [user |-> None, audio |-> {}]

CaptureInit ==
  /\ capture = [u \in Users |-> None] /\ decoder = [u \in Users |-> None]
  /\ pipeline = [d \in Decoders |-> None] /\ timers = [h \in Handles |-> None]
  /\ fetching = {} /\ era = 0 /\ said = Silence

-----------------------------------------------------------------------------
Cleared(h) == IF h = None THEN timers ELSE [timers EXCEPT ![h] = None]

UnusedHandle(h) == timers[h] = None /\ \A u \in Users : capture[u] = None \/ capture[u].timer # h

\* The rest of handleSpeakingStart(): the burst cancels a pending finalize,
\* and the member is subscribed to once.
Burst(u, d) ==
  LET c == IF capture[u] = None THEN Blank ELSE capture[u] IN
  /\ capture' = [capture EXCEPT ![u] =
       [c EXCEPT !.state = "speaking", !.started = TRUE, !.timer = None]]
  /\ timers' = Cleared(c.timer)
  /\ \/ decoder[u] # None /\ UNCHANGED <<decoder, pipeline>>
     \/ /\ decoder[u] = None /\ pipeline[d] = None
        /\ decoder' = [decoder EXCEPT ![u] = d]
        /\ pipeline' = [pipeline EXCEPT ![d] = <<u, session>>]

SpeakingStarts(u, d) ==
  /\ session # None /\ Burst(u, d) /\ UNCHANGED <<fetching, era, said>>

\* A member who is not cached is fetched first ...
MemberIsFetched(u) ==
  /\ session # None /\ fetching' = fetching \cup {<<u, session>>}
  /\ UNCHANGED <<capture, decoder, pipeline, timers, era, said>>

\* ... and by then the session may be another one.
FetchReturns(u, s, d) ==
  /\ <<u, s>> \in fetching /\ fetching' = fetching \ {<<u, s>>}
  /\ IF session = s THEN Burst(u, d) ELSE UNCHANGED <<capture, decoder, pipeline, timers>>
  /\ UNCHANGED <<era, said>>

\* scheduleFinalize() of capture c: its timer is replaced.
Rescheduled(u, c, h) ==
  /\ capture' = [capture EXCEPT ![u] = [c EXCEPT !.state = "finalizing", !.timer = h]]
  /\ timers' = [Cleared(c.timer) EXCEPT ![h] = u]

SpeakingEnds(u, h) ==
  /\ session # None /\ capture[u] # None /\ capture[u].state = "speaking"
  /\ UnusedHandle(h) /\ Rescheduled(u, capture[u], h)
  /\ UNCHANGED <<decoder, pipeline, fetching, era, said>>

\* finalizeUtterance() of capture c.  The buffer starts anew; what is too
\* short is noise, except that a buffer without a start is never too short.
Utters(c, long) == c.frames > 0 /\ (c.started => long)

Emptied(c) ==
  [c EXCEPT !.timer = None, !.state = "idle", !.audio = {}, !.frames = 0, !.started = FALSE]

\* A bug to compare with: what was heard on another SSRC stays in the buffer.
HeardAll(c, d, x) ==
  [c EXCEPT
     !.ssrc = x, !.audio = @ \cup {<<d, x, era>>}, !.frames = @ + 1,
     !.started = c.started \/ c.state = "idle",
     !.state = IF c.state = "idle" THEN "speaking" ELSE c.state]

\* What onPcmPacket() makes of capture c before the finalize decision.  Audio
\* of another SSRC is dropped, its start with it.
Heard(c, d, x) ==
  LET moved == c.ssrc # None /\ c.ssrc # x IN
  [c EXCEPT
     !.ssrc = x,
     !.audio = (IF moved THEN {} ELSE @) \cup {<<d, x, era>>},
     !.frames = (IF moved THEN 0 ELSE @) + 1,
     !.started = (c.started /\ ~moved) \/ c.state = "idle",
     !.state = IF c.state = "idle" THEN "speaking" ELSE c.state]

\* A packet is heard from the decoder that is the member's current one.
Hears(d, u) ==
  /\ pipeline[d] # None /\ pipeline[d][1] = u /\ decoder[u] = d
  /\ pipeline[d][2] = session /\ capture[u] # None

PacketIsBuffered(d, u, x, h) ==
  LET c == Heard(capture[u], d, x) IN
  /\ Hears(d, u) /\ c.frames < MaxFrames
  /\ UnusedHandle(h) /\ Rescheduled(u, c, h)
  /\ UNCHANGED <<decoder, pipeline, fetching, era, said>>

\* The longest utterance is finalized at once.  The timer that was armed is
\* forgotten here, not cleared.
PacketFillsBuffer(d, u, x, long) ==
  LET c == Heard(capture[u], d, x) IN
  /\ Hears(d, u) /\ c.frames = MaxFrames
  /\ capture' = [capture EXCEPT ![u] = Emptied(c)]
  /\ said' = IF Utters(c, long) THEN [user |-> u, audio |-> c.audio] ELSE Silence
  /\ UNCHANGED <<decoder, pipeline, timers, fetching, era>>

\* A finalize timer fires.
SilenceDetected(h, long) ==
  LET u == timers[h] IN
  /\ u # None /\ timers' = [timers EXCEPT ![h] = None]
  /\ IF capture[u] = None THEN UNCHANGED <<capture, said>>
     ELSE /\ capture' = [capture EXCEPT ![u] = Emptied(@)]
          /\ said' = IF Utters(capture[u], long)
                     THEN [user |-> u, audio |-> capture[u].audio] ELSE Silence
  /\ UNCHANGED <<decoder, pipeline, fetching, era>>

\* The decoder or its stream closes or fails: retireSource(), which resets
\* the member only for the decoder and the session that are current.
Retires(d) ==
  /\ pipeline[d] # None /\ decoder[pipeline[d][1]] = d /\ pipeline[d][2] = session

PipelineCloses(d) ==
  /\ pipeline[d] # None
  /\ LET u == pipeline[d][1] IN
     /\ decoder' = IF decoder[u] = d THEN [decoder EXCEPT ![u] = None] ELSE decoder
     /\ IF Retires(d) /\ capture[u] # None
        THEN capture' = [capture EXCEPT ![u] = Blank] /\ timers' = Cleared(capture[u].timer)
        ELSE UNCHANGED <<capture, timers>>
  /\ pipeline' = [pipeline EXCEPT ![d] = None]
  /\ UNCHANGED <<fetching, era, said>>

-----------------------------------------------------------------------------
(* What the session's events do to its captures.                           *)

\* A bug to compare with: what was buffered survives the disconnection.
KeepBuffers == era' = 1 - era /\ UNCHANGED <<capture, decoder, pipeline, timers, fetching, said>>

\* Disconnected: buffers are emptied; decoders and timers stay.  The code empties those of
\* its own session: with one join under way, these are all there are.
DropBuffers ==
  /\ capture' = [u \in Users |-> IF capture[u] = None THEN None
       ELSE [capture[u] EXCEPT !.audio = {}, !.frames = 0, !.started = FALSE]]
  /\ era' = 1 - era
  /\ UNCHANGED <<decoder, pipeline, timers, fetching, said>>

\* teardownSession(): every capture with its timer and every decoder goes;
\* the pipelines close later.
TearDown ==
  /\ timers' = [h \in Handles |->
       IF \E u \in Users : capture[u] # None /\ capture[u].timer = h THEN None ELSE timers[h]]
  /\ capture' = [u \in Users |-> None] /\ decoder' = [u \in Users |-> None]
  /\ UNCHANGED <<pipeline, fetching, era, said>>

-----------------------------------------------------------------------------
(* An utterance is one stretch of one member's voice: no packet of another  *)
(* pipeline, of another SSRC or from before a disconnection is in it.       *)
UtteranceIsOneStretch ==
  /\ Cardinality(said.audio) <= 1
  /\ \A u \in Users : capture[u] # None => Cardinality(capture[u].audio) <= 1

(* A packet restarts its member's finalize timer, so the only timer that    *)
(* can end an utterance is the one the last packet armed.                   *)
LastPacketEndsUtterance ==
  \A h \in Handles : timers[h] # None =>
    capture[timers[h]] # None /\ capture[timers[h]].timer = h

(* Noise is dropped: whatever is emitted as an utterance has a start its    *)
(* length was measured from.                                               *)
NoiseIsDropped ==
  \A u \in Users : capture[u] # None /\ capture[u].frames > 0 => capture[u].started
=============================================================================
