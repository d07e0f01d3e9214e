# DC_BOT in TLA+

TLA+ models of the core of the DC_BOT Discord bot, TLC runs over small
instances, and TLAPS proofs. Source paths below are relative to the repository
(`src/...` is the bot, `packages/...` its workspace packages). `PROJECT.json`
holds the machine-readable side: components, runs, mutants, the map from
definitions to source lines, findings, hazards and theorems.

## 1. The system

The bot joins Discord voice channels, listens, answers with a language model
and speaks the answer; it also answers text mentions. One Node.js process, one
event loop: code between two `await`s runs undisturbed, and everything hard is
in what happens *between* two continuations. The memory store is SQLite through
a synchronous driver, and the spool uses the synchronous file API; awaiting
them splits nothing, but the process can be killed between any two transactions
or file operations.

| Component | Keeps | Operations | Hard because |
|---|---|---|---|
| playback scheduler (`src/voice/playback.ts`) | queue, active item, cancelled epochs, drain waiters | enqueue, cancelEpoch, stopAll, awaitDrained, dispose, player events | the player's Idle event comes late, and promises hang on it |
| conversation controller (`src/orchestration/conversation-controller.ts`, `conversation-state.ts`, `guild-session.ts`) | phase and epoch per guild, running responses | utterances, groups, responses, quota notice, barge-in, cancel, session end | each handler awaits recogniser, model, synthesis and playback, and may be superseded in any of them |
| conversation floor (`conversation-floor.ts`, `conversation-floor-coordinator.ts`) | pending group, timer | add, flush, clear | the timer outlives what armed it |
| sentence pipeline (`speech-chunker.ts`, `style-aware-speech-chunker.ts`, `tts-pipeline.ts`) | held text, buffers, style, a phrase sounding and one ahead | scan, tokenise, cut, synthesise, deliver in order | deltas cut anywhere; audio outlives cancellation |
| degraded write spool (`src/memory/write-spool.ts`, `spool-reconciliation.ts`) | spool, checkpoint and quarantine files | accept, recover, quarantine, compact | a crash between any two file operations |
| delivery lifecycle (`src/memory/text-memory-adapter.ts`, `delivery-reconciliation.ts`, `packages/memory-sqlite/src/repositories/deliveries.ts`, `reconciliation-queue.ts`) | one record per segment, one job per ambiguity | record, announce, send, store receipt; classify, enqueue, claim, decide, retry | a crash between a send and its receipt; leases |
| voice memory adapter (`src/memory/voice-memory-adapter.ts`, repositories of generations, segments, deliveries) | the trace of every spoken reply, its expiry timer | admit, begin, segment, submit, played, complete, endSession | a reply ends in many ways, and each writes in several transactions |
| mention responder (`src/orchestration/mention-responder.ts`) | a promise chain per room, its length, recent turns | respond | chains, a bound, a timeout, and a shared provider |
| rate limiter and Gemini provider (`src/providers/brain/rate-limiter.ts`, `gemini.ts`) | slots in use, history of acquisitions, cooldown, waiters | acquire, release, blockUntil, retry a 503 | cancellation while asleep; one wakeup per release; retries that pass the limiter by |
| intelligence worker and queue (`src/memory/intelligence-worker.ts`, `packages/memory-sqlite/src/reconciliation-queue.ts`) | jobs with leases | claim, run a model, write, succeed or retry | the lease may run out, and the member may forget, under the model call |
| privacy and deletion, backup (`packages/memory-sqlite/src/repositories/privacy.ts`, `derived-invalidation.ts`, `backup.ts`) | tombstones, obligations | remember, correct, forget, verify, back up, restore | what is derived, and what comes back |
| voice manager (`src/voice/voice-manager.ts`) | sessions, connections, captures, decoders, finalize timers | join, leave, reconnect, subscribe, finalize, tear down | awaits that outlive the connection |
| voice model bridge (`src/voice/model-bridge.ts`) | sources, speeches, the command in flight | frames, commands, speech, close | any write may close it, and callers wait |
| avatar publisher (`src/avatar/publisher.ts`) | state, outbox, update in flight, socket | publish, relay result, reconnect | lost and late results |
| better-ws, server SDK (`packages/better-ws`, `packages/server-sdk`) | connection epoch, handshake, heartbeat, peer registry | connect, ready, close, retry; accept, replace, check liveness | stale completions, half-open sockets, a peer that comes back |
| memory runtime (`src/memory/runtime.ts`, `feature-flags.ts`) | mode, health | open degraded or healthy, recover, reconcile | order of recovery steps at start |
| writer ownership, migrations (`packages/memory-sqlite`) | an exclusive lock, the schema version | acquire, release, migrate | two processes |
| synthesis cache (`src/providers/tts/tts-cache.ts`) | files and in-flight map | read, write, evict | two renames per entry |
| prompt, character, text filters, domain rules, configuration | nothing shared | pure functions | nothing a model checker adds |

How they interact: the voice manager hands utterances and barge-ins to the
controller, packets to the voice bridge, and session events to the avatar
publisher, which reports them to a relay. The controller puts transcripts on
the floor, and the floor's timer calls back with a group. The controller then
runs a response: the brain (behind the limiter, which mentions share) streams
text, the pipeline cuts and synthesises it, the controller enqueues the audio
in the guild's playback scheduler and waits for it to drain. The memory adapters
record what was said and sent. In degraded mode they write intents into the
spool instead, and the next healthy start replays them and reconciles
deliveries before it serves. The intelligence worker makes summaries and facts
of what is stored, and a member may have any of it forgotten.

What makes each correct: playback and its promises tell the truth about what was
heard; a guild has one response at a time and is free again after it; a
superseded response is silent; the text is spoken whole and its markup is not;
an acknowledged write survives; an outcome is never fabricated and never
forgotten; slots, budget and cooldown are respected and everybody who waits is
eventually answered; nothing new is made of what was forgotten; the current
session is the connected one; no stretch of voice is mixed with another; a
closed client stays closed and the newest connection of a peer wins.

## 2. What is modelled

One action per method, handler or continuation, unless said otherwise. An
`await` ends an action; what runs in one turn of the event loop is one action.
Definitions whose comment begins with *A bug to compare with* are not part of
the model: each is a variant of another definition that the properties tell
from it.

### `Playback`: the playback scheduler

`items`, `queue`, `active`, `status` (the promises), `latestEpoch`,
`cancelledEpochs`, drain waiters and `disposed` are the scheduler's fields; the
player (`player`, its owed Idle events) is the environment. Each method is one
action that includes the `pump()` it ends in: `Enqueue`, `CancelEpoch`,
`StopAll`, `AwaitDrained`, `Dispose`, and the events `OnIdle` and
`PlayerFails`. `Pump` is a function of the records it changes, so a call that
settles, pumps and notifies stays one step. A resource is `good`, cannot be
created, or cannot be played.

### `ConversationController`: controller, floor, session

One guild. An utterance is admitted, recognised (or fails, or is filtered, or
meets a quota cooldown), joins the floor; the window closes; the response
generates, its chunks arrive, playback drains, the `finally` block releases the
guild. Barge-in, cancellation, disconnect and a new voice session come in
between. Every utterance and response keeps the session it belongs to, as the
code's continuations keep the object. Where the voice service takes the
decisions (`active` mode), `Decide` is `onModelDecision`: it supersedes whatever
the guild is doing and, for a turn it takes, starts the response at once, for
its text is decided and no floor is involved; `RoomReset` and `ServiceLost` are
the other two events of the bridge. `TestVoice` is the `/voice-test` command,
which waits for an authorization before it takes the guild like a response. An
*environment* is the policy, what may fail and the mode, with bounds of its own
on calls and sessions. History, prompts and languages are abstracted.
`startPendingTurn` never has a turn to start: nothing sets `pendingTurn`.

### `Speech` and `TtsPipeline`: from the model's deltas to the speaker

A reply is a sequence of symbols, and buffers hold positions in it, so the
scanner (`scanSpeechStream`), the tokeniser and both chunkers are modelled by
what they do to positions: where text is cut, which style a phrase carries,
which pause precedes it. A letter stands for every character that may not be
parted from its neighbour, a hash for marks that open and close protected text.
`TtsPipeline` is `runBoundedTtsPipeline`: what `prepare()` is at, what sounds,
and what became of the audio of each phrase that was pulled. By itself it takes
a phrase whenever it pulls one; in `Speech`, which extends it, `TakePhrase` is
its `Pull` on a phrase the chunkers have yielded, `TextIsOver` its `TextEnds`,
and text moves only while it waits for more. Every step of `Speech` is a step of
the pipeline or leaves it alone.

### `WriteSpool` and `DeferredWrites`: the degraded write spool

The spool file is a sequence of lines (records, torn lines), with the checkpoint
and quarantine files beside it. A recovery is a sequence of file operations, one
action each, with a crash possible between any two; the store is an idempotent
set of applied keys. A record is refused for ever, for now, or accepted.
`DeferredWrites` is what all that promises: a queue that remembers what it
accepted and settles its records in order, each once. `LooksLikeAQueue` is the
refinement (`INSTANCE DeferredWrites WITH ...`): a record is the number of its
call of `accept`, and the line of those that wait is the set of the records that
can be read past the checkpoint and are not settled (`Unsettled`), least first.

### `Delivery`: text deliveries and their reconciliation

`record` and `evidence` are the row of `delivery_attempt_records`; `job` and
`attempts` the row of `worker_jobs` with the clock folded in (`leased` and
`expired`, `ready` and `later`). The live path is one turn at a time per
message: `RecordSegment`, `Announce`, `PlatformAccepts`, `SendResolves`,
`StoreReceipt`, or `SendRejects` and `FailSegment`; a lost write forgets the
turn, and ends it only in `durableActive` (`strict`). The pass is
`reconcileDeliveries` step by step: `Classify`, `Enqueue`, `Claim`, `Decide`,
`Finish`, `Retry`. `Crash` is enabled in every state of the process; a clean
stop is the same for the store. The append-only evidence records are left out:
nothing reads them back. The branches of `Decision` for a receipt and for an
error cannot be taken from any reachable state, because classification stores
`none` and every other path that has evidence has an outcome too; they are kept
because the code has them.

### `VoiceTrace`: what the store keeps of a spoken reply

Each call of the voice memory adapter, in the order the controller makes them,
is a step over the records behind it: the voice events, the generation, the
segments and their deliveries. A step can stop half-way, because one of its
transactions is rolled back or the process is killed between two (a *mishap*).
The expiry of a trace, the end of the session, barge-in and events of other
people interleave with the steps of two replies.

### `RateLimiter` and `MentionResponder`: text replies and the shared provider

`Check` is one turn of the loop in `acquire()`, atomic as in the code. Clock
readings are relative: ages in `history`, what is left in `blocked` and
`timer`. A request ends in `Release`, which arms a cooldown or not and releases
in the same continuation, as the `catch` and `finally` of `gemini.ts` do; an
aborted request arms none. `AbortBetween` says whether a signal may fire after a
waiter was let go and before it has checked again.

A 503 before the first token is retried inside the slot (`Unavailable`, then
`AskAgain` after the delay, or `Abandon` when the signal fires in it). A retry
calls upstream without asking the limiter: it enters no history and looks at no
cooldown. `sent` holds the calls each request has made, by their ages, and the
properties are stated of both: `requestsPerMinute` bounds *acquisitions*
(`Acquired`), and the calls upstream (`Upstream`) only together with the retries;
in a cooldown no slot is acquired, but a request that has one may call again.
Which tokens a call has yielded is abstracted: any call may end in a 503 that is
retried.

`MentionResponder` extends it with the mentions of rooms: `newest` is the
promise each room's next mention waits for, `pending` the count behind the busy
answer, `turns` the exchanges a room remembers. A mention is refused, or waits
for the one before, generates under a timeout that cancels it wherever it is,
and moves the room on. Voice turns take slots too.

What a prompt shows depends on the process (`promptUse`, chosen at the start).
Without durable context it is the room's recent turns when the generation
starts (`saw`). With it the recent turns are left out
(`mention-responder.ts:115`), and the prompt is made of a text that
`prepareForModel` read from the store *before* `respond()` queued the mention
(`Prepare`, `text`); a reply is in the store once its delivery is recorded
(`Deliver`). So a mention that waited is answered there without the reply made
meanwhile: `RepliesKnowEachOther` claims full knowledge of the replies before
only where prompts are made of recent turns, and of durable context only that
it holds no later reply and none of another room; section 5 has the
counterexample. The trimming of old turns, the retrieval that picks among the
stored replies (a text holds all of its room), and the text itself are
abstracted.

### `WsSockets`, `WsClient`, `WsServer`, `SocketLink`: the WebSocket stack

`WsClient` is the transport client with the protocol client on top, as the AIRI
adapter configures them: dial, epoch, handshake steps, heartbeat, reconnect
timers, `connect`, `ready`, `close`, and the shared connect promise. `WsServer`
is the peer registry with its liveness check and the adapter that maps raw
sockets to peers. `SocketLink` puts a network between them: dials that fail or
open late, closes seen by one end first, garbled frames, sockets that go mute
without either end being told. The retry count is a bound of the model: the
code's default is to retry for ever. A server hook that awaits between
`accept()` and its reply is not modelled.

### `VoiceSessions`, `AvatarPublisher`, `VoiceAvatar`: who is in which channel

`VoiceSessions` is joining, leaving and reconnecting for one guild, with the
Discord voice library (one live connection per guild, handed to every join) as
the environment. `AvatarPublisher` is the state, the outbox with one update in
flight and the socket that is dialled again. `VoiceAvatar` binds them: the
publisher hears `sessionStart` and `sessionEnd` in the step that emits them.

### `VoiceCapture`, `ModelBridge`, `VoiceBridge`: what members say

`VoiceCapture` extends `VoiceSessions` with speaking bursts, member lookups,
decoder pipelines, packets, finalize timers (as handles, which the code may
forget without clearing) and utterances. A packet is known by decoder, SSRC and
the span between two disconnections it came from, which is what the properties
compare. A disconnection empties every capture in the model and those of its own
session in the code (`voice-manager.ts:170`), which are all there are as long as
one join is under way. `ModelBridge` is the bridge's state as functions, for its handlers run
one after the other in one event; any control write may find the socket full and
close it. `VoiceBridge` composes them. The packet fence, the barge-in decision
and playback states are left out.

### `MemoryStore` and `Intelligence`: derived memory and forgetting

`MemoryStore` is the database of one room: messages, commands, facts, summaries
and reply segments made from them, tombstones with their obligations, jobs, one
backup and its restore. `Intelligence` is the worker over it: claim a job, read
the message, wait for the model, write, succeed or retry, with leases that run
out, deaths of the process, `/memory` commands and forget requests in between.
Episodes, derived repair, retention and export are left out. The worker is
modelled as the code is written; the production profile does not switch it on
(section 6).

## 3. Runs

| Run | Instance | Shows |
|---|---|---|
| `playback` | 4 items, 2 epochs, queue of 2, 1 future cancellation | agreement with the player, truthful promises (played means heard, pending means queued or active, nobody waits for nothing), cancelled stays silent, everything resolves |
| `conversation` | 2 chunks, 2 sessions, `half_duplex` and `latest_wins`: 3 utterances without faults; 2 with recogniser and quota faults; 2 calls beside a voice service that listens or decides; 2 where it decides and the quota fails (1 session, `half_duplex`) | the phase names the one response that owns the guild, stale responses are silent, calls end, the guild recovers where nothing faults and the service stays |
| `speech` | up to 3 deltas out of 12 that break words and tokens in the middle, small sizes | the text is spoken whole, once, in order, and no markup; directions part it; audio is accounted for |
| `spool` | 2 keys, 3 records, 1 failed operation, 2 crashes, 1 transient halt | no acknowledged write lost, the abstract queue is implemented, the spool is emptied |
| `delivery` | replies of 2 and 1 segments, 2 attempts, unbounded crashes while serving, 2 mishaps | nothing fabricated, no ambiguity without a job, outcomes final, ambiguity resolved |
| `voice_trace` | 2 utterances, 2 replies of up to 2 chunks, 1 mishap, symmetric | only what was heard counts as said, a committed exchange is recorded, a reply that is over leaves nothing running |
| `mentions` | 3 mentions of one room with 2 places, 1 voice turn, 1 slot, budget 1, window 2, cooldown of 1, 1 retry, with durable context and without | no slot and no place lost, no window over its budget of acquisitions, nor over these and their retries, replies know the ones before (with durable context: none but earlier ones), every mention is answered, everyone is served |
| `socket` | 2 sockets (used again), 2 callers, 1 retry | closed stays closed, no socket leaks, newest socket wins, callers are answered, a mute socket is noticed |
| `voice_avatar` | 2 joins under way, 2 channels, 2 connections, 2 sessions announced, 1 behaviour, 1 lost socket | the current session is connected, the relay sees every update in order and catches up |
| `voice_bridge` | 1 member, 1 join under way, 2 sessions, 2 decoders, 2 SSRCs, 2 timers, utterances of 2 packets, 1 speech, symmetric | an utterance and a stream are one voice, nobody waits for a closed bridge |
| `intelligence` | 1 message, 2 commands, 1 person, 2 values, 2 texts, 2 workers, one job type at a time, symmetric | obligations stay verified, one value per person, nothing begins to be made of a forgotten message |
| `forgotten_returns` | the same | the violation: a forgotten message comes back as a record |

`forgotten_returns` is described under `findings` in `PROJECT.json`, with the
lines of the repository it contradicts.

**Bounds.** Two of everything that can collide, and one more where order among
the others matters: three utterances (one responding, one collected, one in the
recogniser), two sessions (one left, one joined), four items (a full queue, an
active one, and one refused), three spooled records (consumed, torn, next),
two replies (one left in flight by a dead process, one of the live one), three
mentions and a voice turn on one slot (one holding, one waiting for the slot,
one waiting for the room, one refused). A retry is as long
as a tick, as 500 and 1500 ms are short of a minute. Two acquisitions of
different ages in one window, and two retries of each, are beyond that run; of
the limiter alone `MCRateLimiter.cfg` checks `BudgetKept` there (4 requests,
budget 2, window 2, cooldowns of 1 and 2, and 2 retries), and section 4 has it
for all. Sockets, sessions, connections,
decoders, timers and workers are *names*, used again as soon as nothing refers
to them, so that runs are unbounded in time although two at once are enough for
the stale one and the current one. A mishap of `Delivery` is a rolled-back
transaction, a lease that runs out in its holder's hands, or a crash in the
middle of a pass; two suffice for an exhausted retry and for a crash on top of a
failure. Its attempt counter saturates at `MaxAttempts`, with which alone it is
compared. One mishap of `VoiceTrace` is enough to leave each call half done; the
claims about completeness (`OverIsSettled`) are made where the store works. The
12 deltas of `speech` contain every symbol, every marker cut in two, and text on
either side of a direction; sizes of a few symbols make every cut happen. One
member suffices in `voice_bridge` because a member's capture and stream share
nothing with another's but the bridge itself, and one message in `intelligence`
because every lookup there is by message or by its author.

**Fairness.** Playback: a resource that plays ends, and a stop is answered by
Idle; both are the player's contract. Conversation: weak fairness of progress,
which is the event loop serving settled promises and timers; recognisers,
models and synthesis end or fail (their clients have timeouts). Spool: a
recovery that has begun goes on, closing ends, and a start is tried again and
again until one is not refused (strong fairness: a transient halt may intervene
each time but not for ever). Delivery: a pass goes on, a process that is down is
started, the clock runs; that passes recur at all is a premise of
`AmbiguityIsResolved`, not an assumption, because only a restart or the
operator's command runs one. Mentions: timers fire, settled promises are served,
the delay before a retry ends, a generation whose signal was aborted ends;
nothing else is assumed of the
provider, and `EveryoneIsServedInTurn` has its generations ending as a premise
where `EveryMentionIsAnswered` has none. What the event loop owes a request is one action (`Goes`,
`VoiceGoes`), as no two parts of it are enabled at once; requests are finitely
many, so both properties say that in the end nobody is left. Socket: the client's timers fire, a
dial ends (the transport has a timeout), a socket that one end has closed is
seen closed; messages and calls may stop. Avatar: the retry timer fires, a dial
ends, the socket and the relay carry and answer what they hold; losses are
bounded, or nothing would ever arrive. `speech`, `voice_trace`, `voice_bridge`
and `intelligence` state safety only and assume nothing.

`CHECK_DEADLOCK FALSE` stands where the system may really stop: everybody stops
talking, a reply is over, replies and joins are used up.

## 4. Proofs

All safety properties that the runs check, except what `speech` says of the text,
are theorems for all values of the constants, the refinement of `DeferredWrites` and the use
of the limiter by the responder among them. Each module proves `Init => IInv`,
`IInv /\ [Next]_vars => IInv'` (`StepKeepsIInv`, one lemma per action or kind of
action), hence `Spec => []IInv` (`Invariance`), and derives the rest. Every
`IInv` was checked by TLC on the instance of the run before it was proved.

**`PlaybackProofs`**: any number of items, epochs, queue depth, cancellations.
- `TypeCorrect` (`TypeOK`) and `AgreementHolds` (`PlayerAgreement`), from
  `IInv == TypeOK /\ Closed /\ PlayerAgreement`. Agreement alone is not
  inductive: after `dispose` the code no longer listens, so `Closed` must say
  that nothing is active then.
- `NothingIsForgotten` (`NothingForgotten`), from `FInv`: a call either finds the
  pump shut by something that will open it, or starts an item, or leaves nothing
  and calls `notifyDrained` (`EndInPumpForgetsNothing`). Waiters need not have
  work, for stale items are dropped without notice; the claim is that they are
  told before the scheduler falls silent.
- `CancelledStaysSilent` (`CancelledNeverActive`), `PlayedIsHeard` and
  `DisciplineHolds` (with the one above they are `PromisesHold`, of
  `PromisesAreTrue`), from `GInv` (`Honesty`), which adds the discipline of the
  queue and `Remembered`: `enqueue` prunes the set of cancelled epochs, so an epoch may be forgotten, but
  only when a later one has been enqueued, and then `isStale` rejects it by
  number.
- The loop of `pump()` is described once, branch by branch (`PumpOutcome`), and
  each action reduced to it (`PumpFacts`). `filter` is modelled by ranks (`Left`,
  `Rank`, `Without`) so that it can be reasoned about.

**`PlaybackProofs`, pipeline**: any number of phrases, any source of text.
- `TheAudioIsAccountedFor` (`AudioIsAccountedFor`) and `ThePhrasesSoundInOrder`,
  from `PipelineInv`. What the first says of the end holds only because it is
  known all along whose the audio of each phrase is: one phrase may sound
  (`Sounding`), nothing after it has been played, at most the last one is
  prepared or under way (`Held`), and what `prepare()` is at says which
  (`Ahead`). Audio that comes late can then be neither the one that sounds nor
  the one that a failing player must destroy.

**`ConversationProofs`**: any number of utterances, sessions, chunks.
- `ThePhaseTellsTheOwner` (`PhaseTellsOwner`) and `TheCancelledAreSilent`
  (`StaleIsSilent`). The code keeps no owner: who owns the guild follows from
  comparisons of epochs, so `IInv` says that a response holds its session's
  epoch exactly if it is the owner (`Turns`), that a call which is still current
  waits beside no response (`Waits`), that sessions to come are fresh (`ToCome`),
  and that what sounds is the owner's (`OwnersSound`). A response is begun for
  calls that are over, so one is always left to begin (`Counted`). All of that
  but types and counting is claimed where nothing faults (`env.faults = {}`), as
  the properties themselves are.
- `TypeOK` bounds the epochs of the instance; `Typed`, with any natural numbers,
  is what is proved.

**`WriteSpoolProofs`**: any number of records, failed calls, deaths, halts.
- `TypeCorrect`, `TheAckedAreKept` (`AckedIsKept`) and `NothingIsSilent`
  (`NothingRemovedSilently`). The lines are related to the checkpoint by
  `Position` (every line up to the checkpoint is over, and so are the line a
  recovery has just dealt with and the lines a compaction is about to drop), and
  `Torn` says why the exception of `AckedIsKept` is enough: a line that can be
  continued holds no acknowledged record that began it.
- `TheSpoolIsAQueue` (`LooksLikeAQueue`), the refinement of `DeferredWrites`:
  `StepIsQueued` maps every step to one of the queue or to a stutter. An append
  joins the line at its end or is lost as the queue allows (`WriteJoins`), a
  recovery takes or refuses the first of the line (`FirstInLine`, `ApplyTakes`,
  `RefuseTakes`), a compaction and the moves of the checkpoint are not seen
  (`SwapQuiet`, `QuietStep`). It rests on `IInv` and `InLine`: the lines hold
  the records in the order of the calls, a record that can be read began its
  line, an open tail is the work of the last call, and only what cannot be
  replayed is refused. That the line is a set spares it every induction over
  the file.

**`ReplyProofs`, deliveries**: any number of messages, segments, attempts, crashes.
- `TypeCorrect`, `DeliveredIsTrue` (`DeliveredWasAccepted`), `AnsweredStandsUp`
  (`AnsweredIsNotFailed`), `NothingAmbiguousIsForgotten` (`UnknownHasJob`), and
  the action property `FinalOutcomes` (`OutcomesAreFinal`).
- `IInv` follows the live path segment by segment: no record before `generated`
  comes to it (`Fresh`), no answer out of turn (`Unsent`), a stored receipt for
  every answer as long as the adapter knows the turn (`Receipts`, which is why
  `failed` never marks a delivered segment), evidence with the outcome it
  proves, and for an ambiguous delivery a job or a place in the enqueue loop.

**`ReplyProofs`, limiter and responder**: any requests, rooms, mentions, slots,
budget, window, cooldowns and retry delays.
- `LimiterInvariance`, `TheBudgetIsKept` (`BudgetKept`) and `TheCooldownIsKept`
  (`CooldownKept`) of the limiter alone. The loop looks at its own history and
  never at the calls, so `BudgetKept` is not inductive: `Remembered` says that
  each slot acquired in the window has an entry of its own in the history, of
  the age of its first call. Pruning may drop what has left the window
  (`PrunedCovers`), an acquisition extends both sides
  (`AcquisitionIsRemembered`), a retry changes neither (`AnotherCall`), and time
  keeps it (`AllGrowOlder`). Calls are bounded in number, not stopped: a request
  makes no more than its delays allow (`CallsInSlots`), and those that call in a
  window but acquired before it all had their slot at one moment, so they are no
  more than `maxConcurrent` (`Across`, `NobodyCrosses`, `TickCrosses`). Hence
  the bound in `BudgetKept`: the budget, and the retries of as many as it allows
  and of as many as there are slots (`CallsAreFew`). The list
  of waiters holds who waits, once (`Listed`), whether a waiter is let go or
  cancelled (`FirstLeaves`, `OneLeaves`).
- `MentionsUseTheLimiter`: `MentionSpec => LimiterSpec`. Every step of the
  composed module is a step of the limiter or none, so all of the above holds
  of the process with its rooms and voice turns (`TheResponderKeepsTheBudget`).
- `CountersStandForThings` (`CountersAreTrue`) and `RepliesAreMadeInOrder`
  (`RepliesKnowEachOther`). `InLine` is what the map of promises amounts to: who
  comes after an open mention of its room is queued behind an open one that is
  no earlier, and as long as one is open the room's entry names an open one. So
  who has its turn is foremost (`InLineIsForemost`), only one of a room is
  generated at a time, and what it saw when it began is still all there is when
  it ends (`UpToDate`, where prompts are made of recent turns). Of durable
  context `FromTheStore` says only that a text holds replies that were made
  before, in its room. All ways to be answered are one step for the room
  (`Answers`, `MentionKinds`).

**`VoiceTraceProofs`**: any number of utterances, replies, chunks, mishaps.
- `TypeCorrect`, `OnlyTheHeardIsRemembered` (`HeardIsRemembered`),
  `TheCommittedIsRecorded` (`CommittedIsRecorded`), `TheOverIsSettled`
  (`OverIsSettled`), from an invariant per reply: what an unbegun one has not
  left (`Unborn`), which chunk plays (`Playing`), when a reply that goes on must
  have its trace (`Runs`) and its chunks recorded (`Recorded`), and, without a
  mishap, that the adapter knows what the store calls alive (`Tidy`).

**`IntelligenceProofs`**: any messages, people, values, workers, restores.
- `TypeCorrect`, `DeletionVerifies` (`ObligationsVerify`), `NeverTwoValues`
  (`OneValuePerPerson`), `OnlyWhatWasUnderWay` (`NothingNewFromForgotten`).
- One database is `Sound`; the difficulty is the backup. It must be sound too,
  and `WithBackup` relates the two: what a restore could bring back alive and
  the authority has tombstoned by its source, is tombstoned itself; and what was
  ever leaked was leaked before the backup or is not in it.

**`SocketLinkProofs`**: any number of sockets, callers, retries.
- `TypeCorrect`, `NoReconnectAfterClose` (`ClosedStaysClosed`), `OneOpenSocket`
  (`NoLeakedSocket`), `TheNewestIsThePeer` (`NewestSocketWins`) and
  `ReadyAndRegistered` (`ReadyIsPrepared`, `PeerHasSocket`), from one invariant
  per end: `Connected`, `Retrying` (the handle names the only timer, and it runs
  only when the attempt before it is through), `ByHand`, `Prepared`; on the
  server, every older socket was retired when it was replaced.

**`VoiceProofs`, bridge**: any number of members, joins, sessions, decoders, SSRCs.
- `TypeCorrect`, `TheSessionIsConnected` (`CurrentIsConnected`) and
  `NobodyIsLeftWaiting` (`NobodyWaitsForClosedBridge`), whatever overlaps.
- `OneStretch` (`UtteranceIsOneStretch`) and `OneVoice` (`StreamIsOneVoice`)
  under the hypothesis `[]OneJoinAtATime`: no `/join` begins while another is
  under way. The hypothesis is needed (section 5). `Undivided` says that a join
  then never replaces a session, that the capture of a member holds packets of
  the decoder, SSRC and span the member has now, and that the member's source
  forwards exactly those.

**`VoiceProofs`, avatar**: any number of sessions, updates, sockets, losses.
- `TheAvatarIsConnected` (`CurrentIsConnected`) and `TheRelaySeesEveryUpdate`
  (`RelaySeesEveryUpdateInOrder`), from `AvatarInv`: the sessions' part of the
  bridge's invariant and `PublisherInv`. That one says that what the relay shows
  and what the outbox holds are one growing line (`Line`), that nothing of it is
  ahead of what the publisher has numbered (`Published`, `Behind`), and what an
  open socket can carry: the first of the outbox, or the answer to it, and
  nothing when no send is under way (`Carried`). The last is why the answer that
  removes an update is the answer to that update.

**Assumptions on the constants.** Bounds are natural numbers and limits of the
code positive (`PlaybackAssumption`, `ConversationAssumption`,
`WriteSpoolAssumption`, `DeliveryAssumption`, `VoiceTraceAssumption`,
`MaxAttempts` of `ClientAssumption`, `MaxFrames` of `CaptureAssumption`,
`BridgeAssumption`, `LimiterAssumption`, `MaxPending` of `MentionAssumption`).
Requests are finitely many and mentions among them, numbered in the order they
come; cooldowns and the retry delays are natural numbers (`LimiterAssumption`). The others say that names of different things differ:
`None` and `Absent` stand for `undefined` and are no user, session, timer or
generation; a message is not a record made from it (`StoreAssumption`), nor a
run of the worker (`IntelligenceAssumption`); and the members whose voice is
captured are among those the bridge knows (`BindingAssumption`). TLC evaluates
each of them in the run of its module.

**Only model-checked.** Liveness and whatever rests on `ENABLED`:
`EverythingResolves`, `CallsSettle`, `GuildRecoversWithoutFaults`,
`SpoolIsEmptied`, `AmbiguityIsResolved`, `CallersAreAnswered`,
`HalfOpenIsNoticed`, `RelayCatchesUp`, `EveryMentionIsAnswered`,
`EveryoneIsServedInTurn`. `SpokenIsTheText` and `DirectionsPartText` of `Speech`:
its scanner and chunkers are recursive operators over the text, and what they
compute for every text is an induction over data; for the same reason, that a
step of `Speech` is one of `TtsPipeline` is read off its actions and not proved.
Nor are the definitions of section 5 that hold and are named in no theorem.

## 5. Counterexamples to run by hand

Some things the code does not do, although a reader might expect it to. The
checks below are not among the runs; each ends in the counterexample named, and
the hazards in `PROJECT.json` refer to them. Where the first column names a
run's configuration, take a copy of it with `SPECIFICATION Spec` (for the avatar
`AvatarSpec`; the limiter's and the responder's as they are), without `SYMMETRY`, and with the definition of the second column as its only property.

| Command | Violated | The code |
|---|---|---|
| `tlc -config MCConversationAsr.cfg MCConversation` | `OneResponse` | `conversation-controller.ts:261`: a transcription that fails late frees the guild under the response that has begun |
| `tlc -config MCConversationLost.cfg MCConversation` | `FlushedIsAnswered` | `conversation-controller.ts:289`: a filtered transcript makes the guild idle while another utterance is still in the recogniser; that one joins the floor, and its group is dropped when the window closes on an idle guild |
| `tlc -config MCConversationQuota.cfg MCConversation` | `GuildRecovers` | `conversation-controller.ts:739`: the quota notice takes a new epoch inside the response, whose `finally` then frees nobody. With `Environments <- LostService` in the configuration: `:132` cancels with the reason `disconnect`, which moves the epoch and leaves the phase, and the guild stays busy until its session ends |
| `MCConversationLost.cfg` with INVARIANT | `AnsweredWhereSpoken` | `conversation-controller.ts:119`: epochs restart with a session while the floor lives on |
| `MCRateLimiter.cfg` with PROPERTY | `WaitEnds` | `rate-limiter.ts:112`: a release wakes one waiter; if that one is cancelled in a cooldown the others sleep beside a free slot. `LimiterTypeOK`, `SlotsAreHeld` and `CooldownKept` hold there |
| `MCRateLimiter.cfg` with INVARIANT | `CallsWithinBudget` | `gemini.ts:112`: the retries of a 503 are in no history, so a window may see more calls upstream than `requestsPerMinute` |
| `MCRateLimiter.cfg` with `MaxConcurrent = 2` and PROPERTY | `EveryCallerIsBlocked` | `gemini.ts:203` ("so *every* caller is blocked"): a request whose 503 is retried looks at no cooldown that another has armed. With one slot, the default of `GEMINI_MAX_CONCURRENT_REQUESTS`, nobody else can arm one, and it holds |
| `MCMentions.cfg` with INVARIANT | `DurableRepliesKnowEachOther` | `mention-responder.ts:115`, `airi-adapter.ts:324`: durable context is read before the mention gets in line, and lacks the replies made while it waited |
| `MCVoiceAvatar.cfg` with INVARIANT | `AvatarFollowsSession` | `voice-manager.ts:256`: a join that lost to another still emits `sessionStart` |
| `MCVoiceBridge.cfg` with INVARIANT | `LastPacketEndsUtterance` | `voice-manager.ts:540`: a full buffer drops the timer's handle without clearing it |
| `MCVoiceBridge.cfg` with INVARIANT | `NoiseIsDropped` | `voice-manager.ts`: after a reconnection packets reach a capture that was blanked and has no start, so its length is not measured |
| `MCVoiceBridge.cfg` with INVARIANT and a second join `j2` in `MCJoins` | `UtteranceIsOneStretch` | `voice-manager.ts:249`: of two overlapping `/join`s the second replaces the session of the first without tearing it down. When the decoder of the first closes (`:432`), its session is not the current one, so the decoder goes but what it had buffered stays, and the next decoder's packets are added to it; the same holds of the stream of the voice service |
| `MCIntelligence.cfg` with PROPERTY | `DeletedStaysDeleted` | `packages/memory-sqlite/src/backup.ts`: a restore applies the obligations of the store it replaces without recording them, so restoring the same backup once more brings the message back; `ObligationsVerify` holds, for nobody remembers the obligation |
| `MCWriteSpool.cfg` with INVARIANT | `AckedIsKeptWhateverIsTorn` | `write-spool.ts`: a record appended to a torn tail of an earlier process cannot be read back |
| `MCSocketLink.cfg` with PROPERTY | `StaleOpenIsHarmless` | `packages/better-ws/src/client/index.ts:495`: a superseded dial that opens late aborts the handshake of the connection that superseded it, which then fails |

Three more are definitions a configuration can name: `ShadowIsTraced` of
`VoiceTrace` (with `memory` in shadow, an event of somebody else between an
utterance and its answer costs the record of the reply, because a generation is
refused against a room version that has moved on), `SlowIsRecorded` of
`VoiceTrace` (a reply that outlives its five-minute trace is committed without
one) and `StyleIsInForce` of `Speech` (white space before a stage direction
marks the buffer as begun, and the text after it is spoken in the style before,
`style-aware-speech-chunker.ts:35`).

Others hold, and are kept as definitions because they say what a stronger
property implies or a helper relies on: `PeerHasSocket` (WsServer), `ReadyIsPrepared` (WsClient),
`AnsweredIsNotFailed` (Delivery), `NothingRemovedSilently` (WriteSpool),
`OneSummaryPerMessage` (Intelligence), and the `TypeOK` of every module.

## 6. Not modelled

- **Pure functions**: prompt and character compilation, transcript filters,
  domain validation, configuration and command parsing. They have no state and
  no interleaving; unit tests reach them.
- **Queries**: context assembly and retrieval depend on data the models
  abstract.
- **I/O without protocol**: speech recognition and synthesis calls, the WAV dump,
  health reports, logs.
- **Evaluations, scripts, the protocol's event types and generated code**: most
  of the repository's lines by count; they run beside the bot or declare types.
- **The synthesis cache**: two renames per entry, and a reader that finds half
  of a pair synthesises again.
- **Parts of modelled components**: see the notes under `components`. In short:
  the OpenAI provider (`openai.ts`), which calls its platform without the
  limiter; voice deliveries' poison
  payloads and redacted rows; episodes, derived repair, retention, export; the
  packet fence and the barge-in decision; better-ws requests, broadcast and
  codec.
- **Two processes on one store.** The models assume one at a time, which the
  writer lease gives a healthy process. A degraded one takes no lease
  (`src/memory/runtime.ts:156`) and may append to the spool while another
  compacts it.

Met while reading, and outside the models: a configured binding that is renamed
or whose channel moves makes the next start fail on the unique index of
`packages/memory-sqlite/src/schema/v3.ts:55`, because the new row is inserted
before the old one is retired; `validateRollback` (`src/memory/feature-flags.ts:230`)
is called by tests only; when the memory runtime cannot be made after the avatar
and the voice bridge have started (`src/index.ts:147`) both are left running; the
deployment profile refuses flag overrides and `src/index.ts` passes no
intelligence models, so the intelligence worker is dormant in production;
spooled messages are resolved against the bindings at the time of the replay.

## 7. What is left to prove

Liveness stays with TLC. Of safety, the text of `Speech` is left: that it is spoken
whole and once is an induction over the text for the scanner and one for each
chunker.

To run: `tlc -config MCPlayback.cfg MCPlayback.tla`, likewise for the others;
`tlapm PlaybackProofs.tla`, likewise for the other `...Proofs.tla`.
