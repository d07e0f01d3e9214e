----------------------------- MODULE VoiceTrace -----------------------------
(***************************************************************************)
(* What the store knows of a spoken reply (src/memory/voice-memory-        *)
(* adapter.ts, driven by the conversation controller): the events of the   *)
(* utterances it answers, its generation, the segments that were played    *)
(* and the delivery of each.  One guild.                                   *)
(*                                                                         *)
(* The store is synchronous and its transactions follow each other in one  *)
(* turn of the event loop, so each call of the adapter is one step.  A     *)
(* call may still stop half-way: CONSTANT MaxMishaps bounds how often one of  *)
(* its transactions is rolled back or the process is killed between two.   *)
(* An error that a handler lets escape ends the process: nothing in the    *)
(* bot handles a rejected promise that nobody awaits.                      *)
(***************************************************************************)
EXTENDS Naturals, FiniteSets

CONSTANTS
  Utterances,   \* voice events
  Turns,        \* replies, each to one group of utterances
  MaxChunks,    \* chunks of a reply
  MaxMishaps,   \* bound on transactions that fail and kills of the process
  None

ASSUME VoiceTraceAssumption ==
  MaxChunks \in Nat \ {0} /\ MaxMishaps \in Nat /\ None \notin Utterances

VARIABLES
  strict,      \* runtime.health.state = 'durableActive': an error is rethrown, and context is used
  slow,        \* whether a reply may take longer than the five minutes its trace is kept
  up,          \* the process runs
  mishaps,
  newest,      \* the event that made logical_rooms.current_version, None if it is somebody else's
  said,        \* utterances that were taken up
  known,       \* the adapter's `events`
  floor,       \* utterances admitted and waiting for the window to close
  sources,     \* the sourceEventIds of each trace
  generation,  \* generation_attempt_records.current_state per turn
  traced,      \* the adapter's `generations`
  declared,    \* its trace.segments: chunks declared so far
  segments,    \* output_segment_records
  delivery,    \* delivery_attempt_records.current_state per chunk
  step,        \* where the controller is with each turn
  spoken,      \* the number of chunks the turn handed to playback
  aborted,     \* turns whose signal fired
  failed,      \* turns with a playbackTraceFailure
  committed,   \* turns whose exchange went into the history
  played,      \* ghost: chunks whose playback ran to its end
  expired      \* ghost: turns whose trace ran out

store   == <<newest, generation, segments, delivery>>
adapter == <<known, traced, declared, sources>>
control == <<said, floor, step, spoken, aborted, failed, committed, played>>
world   == <<strict, slow, expired>>
vars    == <<store, adapter, control, world, up, mishaps>>

Chunks == Turns \X (1..MaxChunks)

Generating == {"prepared", "running", "generated"}
Ended      == {"persisted", "failed", "cancelled"}

TypeOK ==
  /\ strict \in BOOLEAN /\ slow \in BOOLEAN /\ up \in BOOLEAN
  /\ newest \in Utterances \cup {None}
  /\ said \cup known \cup floor \subseteq Utterances /\ sources \in [Turns -> SUBSET Utterances]
  /\ generation \in [Turns -> {"none"} \cup Generating \cup Ended]
  /\ traced \cup aborted \cup failed \cup committed \cup expired \subseteq Turns
  /\ declared \cup segments \cup played \subseteq Chunks
  /\ delivery \in [Chunks -> {"none", "pending", "delivering", "unheard", "failed",
                              "interrupted", "unknownAfterCrash"}]
  /\ step \in [Turns -> {"new", "thinking", "playing", "over"}]
  /\ spoken \in [Turns -> 0..MaxChunks]

Init ==
  /\ strict \in BOOLEAN /\ slow \in BOOLEAN /\ up = TRUE /\ mishaps = 0
  /\ newest = None /\ said = {} /\ known = {} /\ floor = {} /\ sources = [t \in Turns |-> {}]
  /\ generation = [t \in Turns |-> "none"] /\ traced = {} /\ declared = {} /\ segments = {}
  /\ delivery = [c \in Chunks |-> "none"]
  /\ step = [t \in Turns |-> "new"] /\ spoken = [t \in Turns |-> 0]
  /\ aborted = {} /\ failed = {} /\ committed = {} /\ played = {} /\ expired = {}

-----------------------------------------------------------------------------
(* Crashes and mishaps.                                                    *)

\* The process ends: maps, timers and the controller's sessions are gone.
\* The next one finds deliveries in flight and classifies them before it serves.
Dies ==
  /\ up' = FALSE
  /\ known' = {} /\ traced' = {} /\ declared' = {} /\ sources' = [t \in Turns |-> {}] /\ floor' = {}
  /\ step' = [t \in Turns |-> IF step[t] = "new" THEN "new" ELSE "over"]
  /\ failed' = {} /\ aborted' = {}
  /\ UNCHANGED <<said, spoken, committed>>

Unreported == mishaps < MaxMishaps /\ mishaps' = mishaps + 1

Crash == up /\ Unreported /\ Dies /\ UNCHANGED <<store, world, played>>

Classified(d) ==
  [c \in Chunks |-> IF d[c] \in {"pending", "delivering"} THEN "unknownAfterCrash" ELSE d[c]]

Restart ==
  /\ ~up /\ up' = TRUE /\ delivery' = Classified(delivery)
  /\ UNCHANGED <<newest, generation, segments, adapter, control, world, mishaps>>

-----------------------------------------------------------------------------
(* Admission and the floor.                                                *)

Active == {t \in Turns : step[t] \in {"thinking", "playing"}} \ aborted

\* Nothing is admitted beside a response: an utterance that was in the
\* recogniser when one began is dropped before it is stored.
TakesUp(u) == up /\ Active = {} /\ u \notin said /\ said' = said \cup {u}

\* The floor may ignore what was stored.
Admit(u) ==
  /\ TakesUp(u) /\ newest' = u /\ known' = known \cup {u}
  /\ floor' \in {floor, floor \cup {u}}
  /\ UNCHANGED <<generation, segments, delivery, traced, declared, sources>>
  /\ UNCHANGED <<step, spoken, aborted, failed, committed, played, world, up, mishaps>>

AdmitFails(u) ==
  /\ up /\ Active = {} /\ u \notin said /\ Unreported
  /\ IF strict THEN Dies
     ELSE /\ said' = said \cup {u} /\ floor' = floor \cup {u}
          /\ UNCHANGED <<adapter, up, step, spoken, aborted, failed, committed>>
  /\ UNCHANGED <<store, played, world>>

\* A text message, or a voice of another physical room, bound to the same logical room.
OthersAppend ==
  /\ up /\ newest' = None
  /\ UNCHANGED <<generation, segments, delivery, adapter, control, world, up, mishaps>>

\* A group of a session that has ended, or one answered by the one-at-a-time notice.
GroupIsDropped ==
  /\ up /\ floor # {} /\ floor' = {}
  /\ UNCHANGED <<store, adapter, said, step, spoken, aborted, failed, committed, played, world, up, mishaps>>

\* Windows are seconds long; only a slow reply meets the timers of its events.
EventExpires(u) ==
  /\ u \in known \ floor /\ (slow \/ \A t \in Active : u \notin sources[t])
  /\ known' = known \ {u}
  /\ UNCHANGED <<store, traced, declared, sources, control, world, up, mishaps>>

-----------------------------------------------------------------------------
(* The reply.                                                              *)

GoTo(t, place) == step' = [step EXCEPT ![t] = place]

\* The version the generation is said to have seen must be the current one:
\* that of the context just read, or without context that of the newest source.
Observed ==
  floor \subseteq known /\ (strict \/ newest \in floor)

Takes(t) ==
  /\ up /\ step[t] = "new" /\ floor # {} /\ Active = {}
  /\ floor' = {}
  /\ UNCHANGED <<newest, segments, delivery, known, declared, said, spoken, aborted, failed, committed, played, world, up>>

\* generateAndSpeak(): prepareGeneration() and the compiled request.
Begin(t) ==
  /\ Takes(t) /\ Observed
  /\ generation' = [generation EXCEPT ![t] = "running"] /\ traced' = traced \cup {t}
  /\ sources' = [sources EXCEPT ![t] = floor]
  /\ GoTo(t, "thinking") /\ UNCHANGED mishaps

\* The error ends the reply, or it goes on without a trace.
BeginFails(t) ==
  /\ Takes(t) /\ UNCHANGED <<traced, sources>>
  /\ \/ ~Observed /\ UNCHANGED <<generation, mishaps>>
     \/ /\ Observed /\ Unreported
        /\ \E left \in {"none", "prepared"} : generation' = [generation EXCEPT ![t] = left]
  /\ GoTo(t, IF strict THEN "over" ELSE "thinking")

ChunkStarts(t) ==
  /\ up /\ step[t] = "thinking" /\ t \notin aborted /\ spoken[t] < MaxChunks
  /\ spoken' = [spoken EXCEPT ![t] = @ + 1] /\ GoTo(t, "playing")
  /\ UNCHANGED <<store, adapter, said, floor, aborted, failed, committed, played, world, up, mishaps>>

Chunk(t) == <<t, spoken[t]>>
DeclaredOf(t) == {c \in declared \cup {Chunk(t)} : c[1] = t}

\* A bug to compare with: what was handed to the player counts as heard.
OutcomeIfSubmitted(result) == IF result = "failed" THEN "failed" ELSE "unheard"

Outcome(result) == CASE result = "played" -> "unheard" [] result = "failed" -> "failed" [] OTHER -> "interrupted"

\* The playback promise of a chunk settles and recordPlayback() is called.
Settles(t, result) ==
  /\ up /\ step[t] = "playing" /\ (t \in aborted => result # "played")
  /\ played' = IF result = "played" THEN played \cup {Chunk(t)} ELSE played
  /\ GoTo(t, "thinking")
  /\ UNCHANGED <<newest, generation, known, traced, sources, said, floor, spoken, aborted, committed, world, up>>

ChunkEnds(t, result) ==
  /\ Settles(t, result)
  /\ IF t \in traced
     THEN /\ declared' = declared \cup {Chunk(t)}
          /\ segments' = segments \cup DeclaredOf(t)
          /\ delivery' = [delivery EXCEPT ![Chunk(t)] = Outcome(result)]
     ELSE UNCHANGED <<declared, segments, delivery>>
  /\ UNCHANGED <<failed, mishaps>>

\* A bug to compare with: the failure is not kept for the end of the reply.
RecordFailsQuietly(t, result) ==
  /\ t \in traced /\ Settles(t, result) /\ Unreported
  /\ declared' = declared \cup {Chunk(t)} /\ UNCHANGED <<segments, delivery, failed>>

\* One of its four transactions fails; the set stays declared.
RecordFails(t, result) ==
  /\ t \in traced /\ Settles(t, result) /\ Unreported
  /\ declared' = declared \cup {Chunk(t)}
  /\ \/ UNCHANGED <<segments, delivery>>
     \/ /\ segments' = segments \cup DeclaredOf(t)
        /\ \E left \in {"none", "pending", "delivering"} : delivery' = [delivery EXCEPT ![Chunk(t)] = left]
  /\ failed' = IF strict THEN failed \cup {t} ELSE failed

-----------------------------------------------------------------------------
(* The end of a generation: terminalGeneration().                          *)

Ending(turns) == {t \in turns \cap traced : generation[t] = "running"}

\* Those of the turns that are traced and running end; their traces are dropped.
Settle(turns, to) ==
  LET done == Ending(turns) IN
  /\ generation' = [t \in Turns |-> IF t \in done THEN to ELSE generation[t]]
  /\ traced' = traced \ done /\ declared' = {c \in declared : c[1] \notin done}
  /\ sources' = [t \in Turns |-> IF t \in done THEN {} ELSE sources[t]]

\* Their sources are forgotten with them.
Ends(turns, to) == Settle(turns, to) /\ known' = known \ UNION {sources[t] : t \in Ending(turns)}

\* The function returns: its signal and its failure go with it.
Over(t) == GoTo(t, "over") /\ aborted' = aborted \ {t} /\ failed' = failed \ {t}

beside == <<newest, segments, delivery, said, floor, spoken, played, up>>

\* The audio has drained: what could not be recorded fails the turn now.
Complete(t) ==
  /\ up /\ step[t] = "thinking" /\ t \notin aborted /\ Over(t)
  /\ Ends({t}, IF t \in failed THEN "failed" ELSE "persisted")
  /\ committed' = IF t \in failed THEN committed ELSE committed \cup {t}
  /\ UNCHANGED <<beside, world, mishaps>>

\* running -> generated -> persisted stops at the first or the second step; then
\* failGeneration() in the catch block succeeds, or throws because it finds 'generated'.
CompleteFails(t) ==
  /\ up /\ step[t] = "thinking" /\ t \in traced \ (aborted \cup failed) /\ Unreported
  /\ \/ /\ strict /\ Ends({t}, "failed") /\ Over(t)
        /\ UNCHANGED <<said, floor, spoken, committed, up>>
     \/ /\ strict /\ generation' = [generation EXCEPT ![t] = "generated"] /\ Dies
     \/ /\ ~strict /\ Over(t) /\ committed' = committed \cup {t}
        /\ \E left \in {"running", "generated"} : generation' = [generation EXCEPT ![t] = left]
        /\ UNCHANGED <<adapter, said, floor, spoken, up>>
  /\ UNCHANGED <<newest, segments, delivery, played, world>>

\* The model or the pipeline throws.
ReplyFails(t) ==
  /\ up /\ step[t] = "thinking" /\ t \notin aborted /\ Over(t)
  /\ Ends({t}, "failed")
  /\ UNCHANGED <<beside, committed, world, mishaps>>

\* The pipeline of an aborted reply throws, or returns and is found stale.
AbortedEnds(t) ==
  /\ up /\ step[t] = "thinking" /\ t \in aborted /\ Over(t)
  /\ Ends({t}, "cancelled") \/ UNCHANGED <<generation, adapter>>
  /\ UNCHANGED <<beside, committed, world, mishaps>>

\* cancel(): barge-in, a newer utterance, a voice test.
Cancel(t) ==
  /\ up /\ t \in Active
  /\ aborted' = aborted \cup {t} /\ Ends({t}, "cancelled")
  /\ UNCHANGED <<beside, step, failed, committed, world, mishaps>>

\* A bug to compare with: endSession() forgets the events before it looks for their generations.
EndSessionForgets ==
  /\ up /\ aborted' = aborted \cup Active
  /\ known' = {} /\ UNCHANGED <<generation, traced, declared, sources>>
  /\ UNCHANGED <<beside, step, failed, committed, world, mishaps>>

\* onSessionEnd(): the current reply is cancelled, then every generation one of
\* whose events is still known; the floor keeps its group.
SessionEnds ==
  /\ up /\ aborted' = aborted \cup Active
  /\ Settle(Active \cup {t \in Turns : sources[t] \cap known # {}}, "cancelled")
  /\ known' = {}
  /\ UNCHANGED <<beside, step, failed, committed, world, mishaps>>

\* The five minutes of a trace are over; the timer fires once.
TraceExpires(t) ==
  /\ t \in traced \ expired /\ (slow \/ t \notin Active)
  /\ expired' = expired \cup {t} /\ Ends({t}, "failed")
  /\ UNCHANGED <<newest, segments, delivery, control, strict, slow, up, mishaps>>

\* One of these calls finds the store failing: strict, the rejection is
\* nobody's and the process ends; otherwise the caller goes on and the trace stays.
EndIsLost(t) ==
  /\ up /\ t \in traced /\ Unreported
  /\ IF strict THEN Dies /\ UNCHANGED <<store, played, world>>
     ELSE /\ \/ step[t] = "thinking" /\ Over(t) /\ UNCHANGED expired
             \/ t \in Active /\ aborted' = aborted \cup {t} /\ UNCHANGED <<step, failed, expired>>
             \/ /\ t \notin expired /\ (slow \/ t \notin Active)
                /\ expired' = expired \cup {t} /\ UNCHANGED <<step, aborted, failed>>
          /\ UNCHANGED <<store, adapter, said, floor, spoken, committed, played, strict, slow, up>>

-----------------------------------------------------------------------------

Next ==
  \/ Crash \/ Restart \/ OthersAppend \/ GroupIsDropped \/ SessionEnds
  \/ \E u \in Utterances : Admit(u) \/ AdmitFails(u) \/ EventExpires(u)
  \/ \E t \in Turns :
       \/ Begin(t) \/ BeginFails(t) \/ ChunkStarts(t)
       \/ \E result \in {"played", "failed", "stopped"} : ChunkEnds(t, result) \/ RecordFails(t, result)
       \/ Complete(t) \/ CompleteFails(t) \/ ReplyFails(t) \/ AbortedEnds(t)
       \/ Cancel(t) \/ TraceExpires(t) \/ EndIsLost(t)

Spec == Init /\ [][Next]_vars

-----------------------------------------------------------------------------
(* Properties.                                                             *)

\* Only what was heard may enter a later prompt as the bot's words ("only
\* completed local playback can become voice context"), and while the store
\* works, all of it does: neither an event of somebody else nor a cancellation
\* between two chunks costs a reply what the room heard of it.
HeardIsRemembered ==
  /\ \A c \in Chunks : delivery[c] = "unheard" => c \in played /\ c \in segments
  /\ strict /\ mishaps = 0 => \A c \in played : delivery[c] = "unheard" \/ c[1] \in expired

\* In durableActive, an exchange enters the history only when its generation is
\* persisted and every chunk handed to playback has its segment and its outcome,
\* whichever of the transactions of the reply failed before.
CommittedIsRecorded ==
  strict => \A t \in committed \ expired :
    /\ generation[t] = "persisted"
    /\ \A i \in 1..spoken[t] : <<t, i>> \in segments /\ delivery[<<t, i>>] \in {"unheard", "failed", "interrupted"}

\* Unless the store failed, a reply that is over, however it ended (completed,
\* failed, superseded, cut off by the end of its session), leaves neither a
\* trace in memory nor a generation that looks alive in the store.
OverIsSettled ==
  mishaps = 0 => \A t \in Turns : step[t] = "over" => t \notin traced /\ generation[t] \notin Generating

\* What the type of a snapshot says of a shadow run: evidence, not a lock; an event
\* of somebody else between an utterance and its answer does not cost the record.
ShadowIsTraced ==
  mishaps = 0 => \A t \in Turns : spoken[t] > 0 => generation[t] # "none"

\* The same as CommittedIsRecorded for replies that outlive their trace.
SlowIsRecorded ==
  strict => \A t \in committed : generation[t] = "persisted"
=============================================================================
