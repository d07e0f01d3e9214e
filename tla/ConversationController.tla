----------------------- MODULE ConversationController -----------------------
(***************************************************************************)
(* One guild's conversation, src/src/orchestration/: admission of finished *)
(* utterances, the collecting floor and its timer, the response that       *)
(* answers a flushed group, the quota notice, cancellation and the end of  *)
(* the voice session; and, where the voice service takes the decisions     *)
(* instead of the floor, its decisions, and the /voice-test command.       *)
(*                                                                         *)
(* JavaScript runs one continuation at a time, so an action is what runs   *)
(* between two awaits that reach the event loop: speech recognition, the   *)
(* model, synthesis, playback, the pause before a chunk and the floor      *)
(* timer.  The memory authorities are synchronous behind their promises    *)
(* (node:sqlite and fs *Sync calls), so awaiting them splits no action.    *)
(*                                                                         *)
(* Playback appears as what it promises (module Playback): an item is live *)
(* from its acceptance until it is heard, or cancelled with its epoch.     *)
(* A session is the record the registry holds; deleting it makes the next  *)
(* lookup create a fresh one, while continuations keep the old object.     *)
(***************************************************************************)
EXTENDS Integers, FiniteSets, Sequences

CONSTANTS
  MaxUtterances,       \* bound on calls, and so on responses
  MaxSessions,         \* bound on voice sessions
  MaxChunks,           \* bound on the chunks of a reply
  Environments         \* what a behaviour may start in, and its own bounds on calls and sessions

\* The input policy; which of "asr" (transcribe() may reject) and "quota" (the
\* model may answer 429) can happen; and the voice service: none, one that only
\* listens, or one that decides.
ASSUME ConversationAssumption ==
  /\ MaxUtterances \in Nat /\ MaxSessions \in Nat \ {0} /\ MaxChunks \in Nat \ {0}
  /\ Environments \subseteq
       [policy : {"half_duplex", "latest_wins", "barge_in"}, faults : SUBSET {"asr", "quota"},
        bridge : {"off", "shadow", "active"}, calls : 0..MaxUtterances, sessions : 1..MaxSessions]

VARIABLES
  env,                 \* the environment of this behaviour
  cur,                 \* the session the registry holds
  sess,                \* every session: phase, responseEpoch, owner, cooldown
  lost,                \* the voice service is gone
  authority,           \* modelAuthorities: the decision in force
  utt,                 \* handleUtterance, onModelDecision and testVoice calls
  floor,               \* the conversation floor and its timer
  resp,                \* generateAndSpeak and announceOneAtATime calls
  playback             \* the current scheduler: latestEpoch, cancelled epochs, live items

service == <<lost, authority>>
vars == <<env, cur, sess, service, utt, floor, resp, playback>>

Utterances == 1..MaxUtterances
Responses  == 1..MaxUtterances
Sessions   == 1..MaxSessions
Nobody     == 0

Phases == {"idle", "collecting", "thinking", "speaking", "disconnecting"}
Busy   == {"thinking", "speaking"}

LegalTransitions ==
  [idle          |-> {"collecting", "disconnecting"},
   collecting    |-> {"thinking", "idle", "disconnecting"},
   thinking      |-> {"speaking", "idle", "disconnecting"},
   speaking      |-> {"idle", "disconnecting"},
   disconnecting |-> {"idle"}]

FreshSession   == [phase |-> "idle", epoch |-> 0, owner |-> Nobody,
                   cooldown |-> FALSE, announced |-> FALSE]
FreshScheduler == [latest |-> 0, cancelled |-> {}, live |-> {}]
EmptyFloor(lease) == [group |-> {}, epoch |-> 0, timer |-> FALSE,
                      overflow |-> FALSE, lease |-> lease]
NoUtterance == [pc |-> "none", sess |-> 1, epoch |-> 0]
NoResponse  == [pc |-> "none", kind |-> "reply", sess |-> 1, epoch |-> 0, aborted |-> FALSE,
                source |-> "pull", chunk |-> "none", chunks |-> 0, group |-> {}, notice |-> 0]

\* What is left of a call that returned; its epoch is nobody's business any more.
Settled(u) == [pc |-> "done", sess |-> utt[u].sess, epoch |-> 0]
Ended == [NoResponse EXCEPT !.pc = "done"]

\* An epoch is bumped at most once per utterance, response, notice and session end.
Epochs == 0..(6 * MaxUtterances + MaxSessions)
ItemsOf(ids, kind) == {[of |-> kind, id |-> i] : i \in ids}
Items == ItemsOf(Responses, "chunk") \cup ItemsOf(Responses, "notice")
         \cup ItemsOf(Utterances, "cooldown")

\* Shape of the state; the floor's timer runs exactly while a group is collected.
TypeOK ==
  /\ env \in Environments /\ cur \in Sessions
  /\ sess \in [Sessions -> [phase : Phases, epoch : Epochs, owner : Responses \cup {Nobody},
                            cooldown : BOOLEAN, announced : BOOLEAN]]
  /\ lost \in BOOLEAN /\ authority \in Utterances \cup {Nobody}
  /\ utt \in [Utterances ->
       [pc : {"none", "asr", "authorizing", "noticeSynth", "noticeSounds", "floor", "done"},
        sess : Sessions, epoch : Epochs]]
  /\ floor \in [group : SUBSET Utterances, epoch : Epochs, timer : BOOLEAN,
                overflow : BOOLEAN, lease : BOOLEAN]
  /\ floor.timer <=> floor.group # {}
  /\ resp \in [Responses ->
       [pc : {"none", "pipeline", "noticeSynth", "noticeSounds", "done"},
        kind : {"reply", "oneAtATime", "test"}, sess : Sessions, epoch : Epochs, aborted : BOOLEAN,
        source : {"pull", "ready", "end", "failed", "limited"},
        chunk : {"none", "pausing", "sounding"}, chunks : 0..MaxChunks,
        group : SUBSET Utterances, notice : Epochs]]
  /\ playback.latest \in Epochs
  /\ playback.cancelled \subseteq Epochs
  /\ playback.live \subseteq Items

Init ==
  /\ env \in Environments
  /\ lost = FALSE /\ authority = Nobody
  /\ cur = 1
  /\ sess = [s \in Sessions |-> FreshSession]
  /\ utt = [u \in Utterances |-> NoUtterance]
  /\ floor = EmptyFloor(FALSE)
  /\ resp = [r \in Responses |-> NoResponse]
  /\ playback = FreshScheduler

-----------------------------------------------------------------------------
\* Sessions, playback and cancellation.

\* transitionGuildPhase: an illegal move is refused and the phase stays.
Move(session, next) ==
  IF next \in LegalTransitions[session.phase] THEN [session EXCEPT !.phase = next] ELSE session

Interrupting == env.policy # "half_duplex"

\* playAudioStream: whether the scheduler takes an item of this epoch.
Accepts(epoch) == epoch >= playback.latest /\ epoch \notin playback.cancelled
Enqueued(item, epoch) ==
  [latest |-> epoch, cancelled |-> {c \in playback.cancelled : c >= epoch},
   live |-> playback.live \cup {item}]

Stale(r) == sess[resp[r].sess].epoch # resp[r].epoch \/ resp[r].aborted

(***************************************************************************)
(* cancel(): the epoch moves first, which makes every continuation of the  *)
(* response stale; then its source is aborted and its audio stopped.       *)
(***************************************************************************)
Superseded(session) == [session EXCEPT !.epoch = @ + 1, !.owner = Nobody]
Cancelled(session) == Move(Superseded(session), "idle")
Aborted(owner) == [r \in Responses |-> IF r = owner THEN [resp[r] EXCEPT !.aborted = TRUE]
                                       ELSE resp[r]]
SilencedLater(epoch) ==                                               \* mutant
  [playback EXCEPT !.cancelled = IF epoch >= playback.latest THEN @ \cup {epoch} ELSE @]
Silenced(epoch) ==
  [playback EXCEPT !.live = {},
                   !.cancelled = IF epoch >= playback.latest THEN @ \cup {epoch} ELSE @]

\* The tail of a response's finally block: only the owning epoch frees the guild.
ReleaseAlways(session, epoch) == Move([session EXCEPT !.owner = Nobody], "idle")  \* mutant
ReleaseOwnerOnly(session, epoch) ==                                   \* mutant
  IF session.epoch = epoch THEN [session EXCEPT !.owner = Nobody] ELSE session
Release(session, epoch) ==
  IF session.epoch = epoch THEN Move([session EXCEPT !.owner = Nobody], "idle") ELSE session

-----------------------------------------------------------------------------
\* handleUtterance, up to speech recognition.

Rejected == env.policy = "half_duplex" /\ sess[cur].phase \in Busy

\* The service decides whom the bot answers (voiceModelActive).
Decides == env.bridge = "active"

\* Calls come one after the other.
Comes(u) ==
  /\ utt[u].pc = "none"
  /\ u <= env.calls
  /\ \A v \in Utterances : v < u => utt[v].pc # "none"

\* Under an interrupting policy the response in flight is torn down first.
Admit(u) ==
  /\ ~Decides /\ Comes(u)
  /\ \/ /\ Rejected
        /\ utt' = [utt EXCEPT ![u] = Settled(u)]
        /\ UNCHANGED <<sess, resp, playback>>
     \/ /\ ~Rejected
        /\ LET interrupts == Interrupting /\ sess[cur].phase \in Busy
               session    == IF interrupts THEN Cancelled(sess[cur]) ELSE sess[cur]
           IN /\ sess' = [sess EXCEPT ![cur] = IF session.phase = "idle"
                                               THEN Move(session, "collecting") ELSE session]
              /\ utt' = [utt EXCEPT ![u] = [pc |-> "asr", sess |-> cur, epoch |-> session.epoch]]
              /\ resp' = IF interrupts THEN Aborted(sess[cur].owner) ELSE resp
              /\ playback' = IF interrupts THEN Silenced(sess[cur].epoch) ELSE playback
  /\ UNCHANGED <<env, service, cur, floor>>

\* "idle" unless a group is still being collected: the common way out of a turn
\* that came to nothing.
IdleUnlessPending(session) == IF floor.timer THEN session ELSE Move(session, "idle")

\* The handler of an ASR rejection consults no epoch.
AsrFails(u) ==
  /\ "asr" \in env.faults
  /\ utt[u].pc = "asr"
  /\ utt' = [utt EXCEPT ![u] = Settled(u)]
  /\ sess' = [sess EXCEPT ![utt[u].sess] = IdleUnlessPending(@)]
  /\ UNCHANGED <<env, service, cur, floor, resp, playback>>

StillCurrent(u) == sess[utt[u].sess].epoch = utt[u].epoch

\* Cancelled while ASR was running: the transcript is dropped.
TranscriptStale(u) ==
  /\ utt[u].pc = "asr" /\ ~StillCurrent(u)
  /\ utt' = [utt EXCEPT ![u] = Settled(u)]
  /\ UNCHANGED <<env, service, cur, sess, floor, resp, playback>>

\* filterTranscript refuses it: filler, echo or duplicate.
TranscriptFiltered(u) ==
  /\ utt[u].pc = "asr" /\ StillCurrent(u)
  /\ utt' = [utt EXCEPT ![u] = Settled(u)]
  /\ sess' = [sess EXCEPT ![utt[u].sess] = IdleUnlessPending(@)]
  /\ UNCHANGED <<env, service, cur, floor, resp, playback>>

\* announceCooldown speaks at most once per prompt interval, under an epoch of its own.
Announcing(session) == [session EXCEPT !.announced = TRUE, !.epoch = @ + 1]

\* handleCooldownUtterance: no request is spent while the quota is exhausted.
TranscriptInCooldown(u) ==
  /\ utt[u].pc = "asr" /\ StillCurrent(u)
  /\ LET s == utt[u].sess IN
     /\ sess[s].cooldown
     /\ IF sess[s].announced
        THEN /\ sess' = [sess EXCEPT ![s] = Move(@, "idle")]
             /\ utt' = [utt EXCEPT ![u] = Settled(u)]
        ELSE /\ sess' = [sess EXCEPT ![s] = Announcing(@)]
             /\ utt' = [utt EXCEPT ![u].pc = "noticeSynth", ![u].epoch = sess[s].epoch + 1]
  /\ UNCHANGED <<env, service, cur, floor, resp, playback>>

-----------------------------------------------------------------------------
\* The conversation floor.  Its clock is abstracted: the lease of the last
\* speaker may or may not still hold, a group may or may not be too crowded.

FloorOpensUntimed(u) ==                                               \* mutant
  /\ floor.group = {}
  /\ floor' = [floor EXCEPT !.group = {u}, !.epoch = utt[u].epoch]
FloorOpens(u) ==
  /\ floor.group = {}
  /\ floor' = [floor EXCEPT !.group = {u}, !.epoch = utt[u].epoch, !.timer = TRUE]

FloorGrows(u) ==
  /\ floor.group # {} /\ floor.epoch = utt[u].epoch
  /\ \E crowded \in BOOLEAN :
       floor' = [floor EXCEPT !.group = @ \cup {u}, !.overflow = @ \/ crowded]

\* add() ignores it: the lease belongs to somebody else, or the group collected
\* so far belongs to another epoch.
FloorIgnores(u) ==
  \/ floor.group = {} /\ floor.lease
  \/ floor.group # {} /\ floor.epoch # utt[u].epoch

TranscriptAccepted(u) ==
  /\ utt[u].pc = "asr" /\ StillCurrent(u)
  /\ ~sess[utt[u].sess].cooldown
  /\ \/ /\ sess[cur].epoch = utt[u].epoch
        /\ FloorOpens(u) \/ FloorGrows(u)
        /\ utt' = [utt EXCEPT ![u].pc = "floor"]
        /\ UNCHANGED sess
     \/ /\ sess[cur].epoch # utt[u].epoch \/ FloorIgnores(u)
        /\ utt' = [utt EXCEPT ![u] = Settled(u)]
        /\ sess' = [sess EXCEPT ![utt[u].sess] = IdleUnlessPending(@)]
        /\ UNCHANGED floor
  /\ UNCHANGED <<env, service, cur, resp, playback>>

-----------------------------------------------------------------------------
\* The floor timer fires: onConversationGroup starts the response.

FreeResponse == CHOOSE r \in Responses : resp[r].pc = "none"
                                         /\ \A q \in Responses : q < r => resp[q].pc # "none"

\* generateAndSpeak, announceOneAtATime and testVoice take the guild alike:
\* from the session as it is by then, beside the responses as they are.
StartResponse(kind, group, session, others) ==
  LET r == FreeResponse
      epoch == session.epoch + 1
  IN /\ sess' = [sess EXCEPT ![cur] = [Move(session, "thinking") EXCEPT !.epoch = epoch, !.owner = r]]
     /\ resp' = [others EXCEPT ![r] = [NoResponse EXCEPT !.pc = "pipeline", !.kind = kind,
                                         !.sess = cur, !.epoch = epoch, !.group = group]]

Flush ==
  /\ floor.timer
  /\ utt' = [u \in Utterances |-> IF u \in floor.group THEN Settled(u)
                                  ELSE utt[u]]
  /\ IF floor.epoch # sess[cur].epoch
     THEN floor' = EmptyFloor(floor.lease) /\ UNCHANGED <<sess, resp>>
     ELSE /\ floor' = EmptyFloor(floor.lease \/ ~floor.overflow)
          /\ IF sess[cur].phase # "collecting"
             THEN UNCHANGED <<sess, resp>>
             ELSE StartResponse(IF floor.overflow THEN "oneAtATime" ELSE "reply",
                                floor.group, sess[cur], resp)
  /\ UNCHANGED <<env, service, cur, playback>>

-----------------------------------------------------------------------------
\* The voice service.  A decision that is not newer than the one in force is
\* ignored; the others supersede whatever the guild is doing.

\* onModelDecision: the guild is told to stop, or the utterance decided on comes
\* to nothing (there is none, or it is filtered), or it is answered.  It carries
\* its text, so it is not transcribed and does not wait on the floor.
Decide(u) ==
  /\ Decides /\ ~lost /\ Comes(u)
  /\ authority' = u
  /\ playback' = Silenced(sess[cur].epoch)
  /\ LET free     == Cancelled(sess[cur])
         admitted == Move(free, "collecting")
         others   == Aborted(sess[cur].owner)
     IN \/ /\ sess' = [sess EXCEPT ![cur] = free]
           /\ utt' = [utt EXCEPT ![u] = Settled(u)] /\ resp' = others
        \/ /\ free.cooldown /\ ~free.announced
           /\ sess' = [sess EXCEPT ![cur] = Announcing(admitted)]
           /\ utt' = [utt EXCEPT ![u] = [pc |-> "noticeSynth", sess |-> cur,
                                          epoch |-> admitted.epoch + 1]]
           /\ resp' = others
        \/ /\ ~free.cooldown
           /\ StartResponse("reply", {u}, admitted, others)
           /\ utt' = [utt EXCEPT ![u] = [Settled(u) EXCEPT !.sess = cur]]
  /\ UNCHANGED <<env, lost, cur, floor>>

\* The service is lost, and does not come back: every guild it decided for, or
\* was hearing or speaking in, is cancelled.
ServiceLost ==
  /\ Decides /\ ~lost
  /\ lost' = TRUE /\ authority' = Nobody
  /\ \/ /\ sess' = [sess EXCEPT ![cur] = Superseded(@)]
        /\ resp' = Aborted(sess[cur].owner) /\ playback' = Silenced(sess[cur].epoch)
     \/ authority = Nobody /\ UNCHANGED <<sess, resp, playback>>
  /\ UNCHANGED <<env, cur, utt, floor>>

\* roomReset: the room the service listens to begins anew.
RoomReset ==
  /\ Decides /\ ~lost /\ (authority # Nobody \/ sess[cur].owner # Nobody)
  /\ authority' = Nobody
  /\ sess' = [sess EXCEPT ![cur] = Cancelled(@)]
  /\ resp' = Aborted(sess[cur].owner) /\ playback' = Silenced(sess[cur].epoch)
  /\ UNCHANGED <<env, lost, cur, utt, floor>>

\* testVoice supersedes the response and asks the service to authorize the command.
TestVoice(u) ==
  /\ env.bridge # "off" /\ Comes(u)
  /\ sess' = [sess EXCEPT ![cur] = Cancelled(@)]
  /\ resp' = Aborted(sess[cur].owner) /\ playback' = Silenced(sess[cur].epoch)
  /\ utt' = [utt EXCEPT ![u] = [pc |-> "authorizing", sess |-> cur, epoch |-> sess[cur].epoch + 1]]
  /\ UNCHANGED <<env, service, cur, floor>>

\* It is authorized while nothing else has happened to the guild but speech that
\* was admitted, which it supersedes.
TestAuthorized(u) ==
  /\ utt[u].pc = "authorizing" /\ ~lost /\ StillCurrent(u)
  /\ StartResponse("test", {u}, Move(sess[cur], "collecting"), resp)
  /\ utt' = [utt EXCEPT ![u] = Settled(u)]
  /\ UNCHANGED <<env, service, cur, floor, playback>>

\* It is superseded, refused, or not answered in time.
TestRefused(u) ==
  /\ utt[u].pc = "authorizing"
  /\ utt' = [utt EXCEPT ![u] = Settled(u)]
  /\ UNCHANGED <<env, service, cur, sess, floor, resp, playback>>

-----------------------------------------------------------------------------
\* The response: a source of synthesized chunks with one chunk of lookahead
\* (runBoundedTtsPipeline) and the chunk being played.

Running(r) == resp[r].pc = "pipeline"

ChunkReady(r) ==
  /\ Running(r) /\ resp[r].source = "pull" /\ ~Stale(r)
  /\ resp[r].chunks < MaxChunks
  /\ resp' = [resp EXCEPT ![r].source = "ready", ![r].chunks = @ + 1]
  /\ UNCHANGED <<env, service, cur, sess, utt, floor, playback>>

SourceEnds(r) ==
  /\ Running(r) /\ resp[r].source = "pull" /\ ~Stale(r)
  /\ \E how \in {"end", "failed"} \cup (IF "quota" \in env.faults THEN {"limited"} ELSE {}) :
       /\ how # "failed" => resp[r].kind = "reply"
       /\ resp' = [resp EXCEPT ![r].source = how]
  /\ UNCHANGED <<env, service, cur, sess, utt, floor, playback>>

\* play() of the pipeline: the pause before the chunk begins, the source goes on.
StartChunk(r) ==
  /\ Running(r) /\ resp[r].source = "ready" /\ resp[r].chunk = "none" /\ ~Stale(r)
  /\ resp' = [resp EXCEPT ![r].chunk = "pausing",
                          ![r].source = IF resp[r].kind = "reply" THEN "pull" ELSE "end"]
  /\ UNCHANGED <<env, service, cur, sess, utt, floor, playback>>

\* playChunk after the pause: recheck, enter speaking, hand the audio over.
PlayChunk(r) ==
  /\ Running(r) /\ resp[r].chunk = "pausing"
  /\ IF Stale(r)
     THEN /\ resp' = [resp EXCEPT ![r].chunk = "none"]
          /\ UNCHANGED <<sess, playback>>
     ELSE /\ sess' = [sess EXCEPT ![resp[r].sess] = Move(@, "speaking")]
          /\ IF Accepts(resp[r].epoch)
             THEN /\ playback' = Enqueued([of |-> "chunk", id |-> r], resp[r].epoch)
                  /\ resp' = [resp EXCEPT ![r].chunk = "sounding"]
             ELSE resp' = [resp EXCEPT ![r].chunk = "none"] /\ UNCHANGED playback
  /\ UNCHANGED <<env, service, cur, utt, floor>>

\* The promise of the chunk has settled, heard or cancelled.
ChunkSettles(r) ==
  /\ resp[r].chunk = "sounding" /\ [of |-> "chunk", id |-> r] \notin playback.live
  /\ resp' = [resp EXCEPT ![r].chunk = "none"]
  /\ UNCHANGED <<env, service, cur, sess, utt, floor, playback>>

\* Source and audio are done and the response is still the owner: the exchange
\* is committed, unless the reply was blank or its durable trace failed, and
\* the guild is free.
Finish(r) ==
  /\ Running(r) /\ resp[r].source = "end" /\ resp[r].chunk = "none" /\ ~Stale(r)
  /\ sess' = [sess EXCEPT ![resp[r].sess] = Release(@, resp[r].epoch)]
  /\ resp' = [resp EXCEPT ![r] = Ended]
  /\ UNCHANGED <<env, service, cur, utt, floor, playback>>

\* The pipeline returns or throws without an answer to commit.
GiveUp(r) ==
  /\ Running(r) /\ resp[r].chunk = "none" /\ resp[r].source # "limited"
  /\ Stale(r) \/ resp[r].source = "failed"
  /\ sess' = [sess EXCEPT ![resp[r].sess] = Release(@, resp[r].epoch)]
  /\ resp' = [resp EXCEPT ![r] = Ended]
  /\ UNCHANGED <<env, service, cur, utt, floor, playback>>

\* handleGenerationError on a quota failure: arm the cooldown and announce it.
\* The announcement moves the epoch, so the finally block that follows it does
\* not recognise its own response any more.
QuotaExhausted(r) ==
  /\ Running(r) /\ resp[r].source = "limited" /\ resp[r].chunk = "none"
  /\ LET s == resp[r].sess
         armed == [sess[s] EXCEPT !.cooldown = TRUE]
     IN IF armed.announced
        THEN /\ sess' = [sess EXCEPT ![s] = Release(armed, resp[r].epoch)]
             /\ resp' = [resp EXCEPT ![r] = Ended]
        ELSE /\ sess' = [sess EXCEPT ![s] = Announcing(armed)]
             /\ resp' = [resp EXCEPT ![r].pc = "noticeSynth", ![r].aborted = TRUE,
                                     ![r].notice = armed.epoch + 1]
  /\ UNCHANGED <<env, service, cur, utt, floor, playback>>

-----------------------------------------------------------------------------
\* announceCooldown, after its synthesis: no epoch is consulted before it plays.

NoticeOfResponse(r) ==
  /\ resp[r].pc = "noticeSynth"
  /\ \/ /\ Accepts(resp[r].notice)
        /\ playback' = Enqueued([of |-> "notice", id |-> r], resp[r].notice)
        /\ resp' = [resp EXCEPT ![r].pc = "noticeSounds"]
        /\ UNCHANGED sess
     \/ /\ sess' = [sess EXCEPT ![resp[r].sess] = Release(@, resp[r].epoch)]
        /\ resp' = [resp EXCEPT ![r] = Ended]
        /\ UNCHANGED playback
  /\ UNCHANGED <<env, service, cur, utt, floor>>

NoticeOfResponseEnds(r) ==
  /\ resp[r].pc = "noticeSounds" /\ [of |-> "notice", id |-> r] \notin playback.live
  /\ sess' = [sess EXCEPT ![resp[r].sess] = Release(@, resp[r].epoch)]
  /\ resp' = [resp EXCEPT ![r] = Ended]
  /\ UNCHANGED <<env, service, cur, utt, floor, playback>>

NoticeOfUtterance(u) ==
  /\ utt[u].pc = "noticeSynth"
  /\ \/ /\ Accepts(utt[u].epoch)
        /\ playback' = Enqueued([of |-> "cooldown", id |-> u], utt[u].epoch)
        /\ utt' = [utt EXCEPT ![u].pc = "noticeSounds"]
        /\ UNCHANGED sess
     \/ /\ sess' = [sess EXCEPT ![utt[u].sess] = Move(@, "idle")]
        /\ utt' = [utt EXCEPT ![u] = Settled(u)]
        /\ UNCHANGED playback
  /\ UNCHANGED <<env, service, cur, floor, resp>>

NoticeOfUtteranceEnds(u) ==
  /\ utt[u].pc = "noticeSounds" /\ [of |-> "cooldown", id |-> u] \notin playback.live
  /\ sess' = [sess EXCEPT ![utt[u].sess] = Move(@, "idle")]
  /\ utt' = [utt EXCEPT ![u] = Settled(u)]
  /\ UNCHANGED <<env, service, cur, floor, resp, playback>>

-----------------------------------------------------------------------------
\* What happens around the controller.

\* An item reaches its end in the scheduler.
ItemEnds(item) ==
  /\ item \in playback.live
  /\ playback' = [playback EXCEPT !.live = @ \ {item}]
  /\ UNCHANGED <<env, service, cur, sess, utt, floor, resp>>

\* VoiceManager hears loud speech over live audio: it stops playback itself and
\* then tells the controller, which ignores it under half_duplex.
BargeIn ==
  /\ playback.live # {}
  /\ IF Interrupting
     THEN /\ sess' = [sess EXCEPT ![cur] = Cancelled(@)]
          /\ resp' = Aborted(sess[cur].owner)
          /\ playback' = Silenced(sess[cur].epoch)
     ELSE /\ playback' = [playback EXCEPT !.live = {}]
          /\ UNCHANGED <<sess, resp>>
  /\ UNCHANGED <<env, service, cur, utt, floor>>

\* onSessionEnd: cancel, and delete the session.  The scheduler goes with the
\* voice session; the floor and its timer stay.
SessionEnds ==
  /\ cur < env.sessions
  /\ cur' = cur + 1
  /\ sess' = [sess EXCEPT ![cur] = Superseded(Move(@, "disconnecting"))]
  /\ resp' = Aborted(sess[cur].owner)
  /\ playback' = FreshScheduler /\ authority' = Nobody
  /\ UNCHANGED <<env, lost, utt, floor>>

\* Time passes: the cooldown, or the interval between two notices, is over.
CooldownEnds(s) ==
  /\ sess[s].cooldown
  /\ sess' = [sess EXCEPT ![s].cooldown = FALSE]
  /\ UNCHANGED <<env, service, cur, utt, floor, resp, playback>>

PromptIntervalEnds(s) ==
  /\ sess[s].announced
  /\ sess' = [sess EXCEPT ![s].announced = FALSE]
  /\ UNCHANGED <<env, service, cur, utt, floor, resp, playback>>

-----------------------------------------------------------------------------
Transcribed(u) == AsrFails(u) \/ TranscriptStale(u) \/ TranscriptFiltered(u)
                  \/ TranscriptInCooldown(u) \/ TranscriptAccepted(u)
Answered(u) == TestAuthorized(u) \/ TestRefused(u)
Noticed(u) == NoticeOfUtterance(u) \/ NoticeOfUtteranceEnds(u)
Advance(r) == SourceEnds(r) \/ StartChunk(r) \/ PlayChunk(r) \/ ChunkSettles(r) \/ Finish(r)
              \/ GiveUp(r) \/ QuotaExhausted(r) \/ NoticeOfResponse(r) \/ NoticeOfResponseEnds(r)

Next ==
  \/ \E u \in Utterances : Admit(u) \/ Transcribed(u) \/ Noticed(u)
  \/ \E u \in Utterances : Decide(u) \/ TestVoice(u) \/ Answered(u)
  \/ RoomReset \/ ServiceLost
  \/ Flush
  \/ \E r \in Responses : ChunkReady(r) \/ Advance(r)
  \/ \E item \in Items : ItemEnds(item)
  \/ BargeIn
  \/ SessionEnds
  \/ \E s \in Sessions : CooldownEnds(s) \/ PromptIntervalEnds(s)

Spec == Init /\ [][Next]_vars

\* The event loop runs: while some issued call can settle (ASR answers, a reply
\* is finite, audio ends, timers fire), one does.  Nobody is obliged to speak,
\* to interrupt or to leave.
Progress ==
  \/ \E u \in Utterances : Transcribed(u) \/ Noticed(u) \/ Answered(u)
  \/ Flush
  \/ \E r \in Responses : ChunkReady(r) \/ Advance(r)
  \/ \E item \in Items : ItemEnds(item)

FairSpec == Spec /\ WF_vars(Progress)

-----------------------------------------------------------------------------
\* Properties.

Owns(r) == Running(r) /\ ~Stale(r) /\ resp[r].sess = cur

\* The phase tells the truth: the guild is thinking or speaking exactly while a
\* running response holds its epoch, and that response is the turn on record.
\* Neither can a superseded continuation free a busy guild, nor can a guild stay
\* busy on behalf of nobody.  A late ASR failure and the quota notice break it
\* (MCConversationAsr.cfg, MCConversationQuota.cfg), and a voice service that is
\* lost leaves the phase as it was, so it is claimed without them.
PhaseTellsOwner ==
  env.faults = {} /\ ~lost =>
    /\ sess[cur].phase \in Busy <=> \E r \in Responses : Owns(r)
    /\ \A r \in Responses : Owns(r) => sess[cur].owner = r

\* A cancelled response is silent in every environment; without faults, all that
\* is queued or audible belongs to the response that owns the guild.
StaleIsSilent ==
  \A r \in Responses : [of |-> "chunk", id |-> r] \in playback.live =>
    ~resp[r].aborted /\ (env.faults = {} => Owns(r))

\* A busy guild never acquires a second simultaneous response: of the responses
\* still running in a session at most one has not been cancelled.
OneResponse ==
  \A q, r \in Responses :
    /\ Running(q) /\ ~resp[q].aborted /\ resp[q].sess = cur
    /\ Running(r) /\ ~resp[r].aborted /\ resp[r].sess = cur
    => q = r

\* Every call comes to an end, whatever fails: no utterance stays in the
\* recogniser or on the floor for ever, and no response keeps running.  (Callers
\* are bounded, so once they stop everything settles at the same time.)
AllSettled ==
  /\ \A u \in Utterances : utt[u].pc \in {"none", "done"}
  /\ \A r \in Responses : resp[r].pc \in {"none", "done"}
CallsSettle == []<>AllSettled

\* Every response gives the guild back: it is never busy for ever.
GuildRecovers == []<>(sess[cur].phase \notin Busy)
GuildRecoversWithoutFaults == env.faults = {} /\ [](~lost) => GuildRecovers

\* A group of the current epoch is answered when its window closes.
FlushedIsAnswered ==
  [][floor.timer /\ ~floor'.timer /\ floor.epoch = sess[cur].epoch => resp' # resp]_vars

\* A group is answered in the voice session it was collected in.
AnsweredWhereSpoken ==
  \A r \in Responses : \A u \in resp[r].group : utt[u].sess = resp[r].sess
=============================================================================
