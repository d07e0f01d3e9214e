-------------------------- MODULE MentionResponder --------------------------
(***************************************************************************)
(* Text replies: people mention the bot in rooms, and each room answers    *)
(* one mention at a time, so that a reply is made with the ones before it  *)
(* in view.  Rooms, and the voice turns of the same process, share the     *)
(* provider and its limiter.                                               *)
(*                                                                         *)
(* A room's replies are remembered in memory, or, where the durable memory *)
(* serves the prompts, in its store; then the text of a prompt is read     *)
(* from the store before the mention gets in line, and a reply is in it    *)
(* once the store knows of its delivery.                                   *)
(*                                                                         *)
(* A mention of a room waits for the promise of the one before it; the     *)
(* responder's timeout cancels a generation wherever it is, in the         *)
(* limiter's waits or at the provider, and moves the room on.              *)
(***************************************************************************)
EXTENDS RateLimiter

CONSTANTS
  Rooms,
  RoomOf,      \* the room of each mention, in the order they reach respond(); the other requests are voice turns
  MaxPending,  \* MAX_PENDING_PER_ROOM
  None

Mentions == DOMAIN RoomOf
Voice == Requests \ Mentions

ASSUME MentionAssumption ==
  /\ Requests \subseteq Nat /\ RoomOf \in Seq(Rooms) /\ Mentions \subseteq Requests
  /\ MaxPending \in Nat \ {0} /\ None \notin Mentions

VARIABLES
  promptUse, \* health.promptUseEnabled, of the process: prompts are made of durable context
  stored,   \* replies whose delivery the store knows
  text,     \* the replies in a mention's durable context
  stage,    \* of a mention: unasked, prepared, queued, generating, or how it was answered
  after,    \* the mention whose promise it waits for
  newest,   \* roomQueues: the promise the next mention of a room will wait for
  pending,  \* pendingByRoom
  turns,    \* recentTurns of each room, an exchange by its mention
  saw       \* the recent turns in a mention's prompt

queues   == <<after, newest, pending>>
store    == <<promptUse, stored, text>>
mentions == <<stage, queues, turns, saw, store>>

Answered == {"busy", "reply", "timeout", "limited", "thrown"}
Is(m, s) == stage[m] = s
Unanswered(room) == {m \in Mentions : RoomOf[m] = room /\ stage[m] \in {"queued", "generating"}}

MentionInit ==
  /\ LimiterInit
  /\ promptUse \in BOOLEAN /\ stored = {} /\ text = [m \in Mentions |-> {}]
  /\ stage = [m \in Mentions |-> "unasked"] /\ after = [m \in Mentions |-> None]
  /\ newest = [room \in Rooms |-> None] /\ pending = [room \in Rooms |-> 0]
  /\ turns = [room \in Rooms |-> << >>] /\ saw = [m \in Mentions |-> << >>]

-----------------------------------------------------------------------------
(* respond() and the promise it returns.                                   *)

\* admit() and prepareForModel(): the store is read for the prompt.
Prepare(m) ==
  /\ promptUse /\ Is(m, "unasked")
  /\ stage' = [stage EXCEPT ![m] = "prepared"]
  /\ text' = [text EXCEPT ![m] = {n \in stored : RoomOf[n] = RoomOf[m]}]
  /\ UNCHANGED <<queues, turns, saw, promptUse, stored, limiterVars>>

\* deliveredSegment(): a reply is with the platform, and the store has the receipt.
Deliver(m) ==
  /\ promptUse /\ Is(m, "reply") /\ m \notin stored
  /\ stored' = stored \cup {m}
  /\ UNCHANGED <<stage, queues, turns, saw, promptUse, text, limiterVars>>

Comes(m) ==
  /\ Is(m, IF promptUse THEN "prepared" ELSE "unasked")
  /\ \A n \in Mentions : n < m => stage[n] \notin {"unasked", "prepared"}

\* Too many are waiting: answered at once, without a place in the queue.
Busy(m) ==
  /\ Comes(m) /\ pending[RoomOf[m]] >= MaxPending
  /\ stage' = [stage EXCEPT ![m] = "busy"]
  /\ UNCHANGED <<queues, turns, saw, store, limiterVars>>

Queue(m) ==
  /\ Comes(m) /\ pending[RoomOf[m]] < MaxPending
  /\ stage' = [stage EXCEPT ![m] = "queued"]
  /\ after' = [after EXCEPT ![m] = newest[RoomOf[m]]]
  /\ newest' = [newest EXCEPT ![RoomOf[m]] = m]
  /\ pending' = [pending EXCEPT ![RoomOf[m]] = @ + 1]
  /\ UNCHANGED <<turns, saw, store, limiterVars>>

HasTurn(m) == Is(m, "queued") /\ (after[m] # None => stage[after[m]] \in Answered)

\* A bug to compare with: the entry of the room goes whoever is the last.
Cleared(m) == [newest EXCEPT ![RoomOf[m]] = None]

\* A room forgets its queue when the mention that settles is the last.
Trimmed(m) == [newest EXCEPT ![RoomOf[m]] = IF @ = m THEN None ELSE @]

\* A bug to compare with: only a reply gives the place back.
SettleReply(m, how) ==
  /\ stage' = [stage EXCEPT ![m] = how]
  /\ pending' = IF how = "reply" THEN [pending EXCEPT ![RoomOf[m]] = Less(@)] ELSE pending
  /\ newest' = Trimmed(m) /\ after' = after
  /\ turns' = IF how = "reply" THEN [turns EXCEPT ![RoomOf[m]] = Append(@, m)] ELSE turns

\* The promise of a mention settles.  Only a reply becomes part of the room.
Settle(m, how) ==
  /\ stage' = [stage EXCEPT ![m] = how]
  /\ pending' = [pending EXCEPT ![RoomOf[m]] = Less(@)]
  /\ newest' = Trimmed(m) /\ after' = after
  /\ turns' = IF how = "reply" THEN [turns EXCEPT ![RoomOf[m]] = Append(@, m)] ELSE turns

\* The durable context it must have is unavailable, or the provider refuses before it acquires.
Refuse(m) == HasTurn(m) /\ Settle(m, "thrown") /\ UNCHANGED <<saw, store, limiterVars>>

\* The prompt is compiled, without the room's turns where durable context takes their
\* place; the timeout is armed, and a slot asked for.
Generate(m) ==
  /\ HasTurn(m) /\ Check(m)
  /\ stage' = [stage EXCEPT ![m] = "generating"]
  /\ saw' = [saw EXCEPT ![m] = IF promptUse THEN << >> ELSE turns[RoomOf[m]]]
  /\ UNCHANGED <<queues, turns, store>>

\* acquire() goes on with another turn of its loop, or the provider with a retry.
GoOn(m) == Is(m, "generating") /\ (Check(m) \/ AskAgain(m)) /\ UNCHANGED mentions

BackOff(m) == Is(m, "generating") /\ Unavailable(m) /\ UNCHANGED mentions

\* The timeout: a mention that waits, for the limiter or for a retry, settles; one
\* that is generated is left to the provider.
TimeOut(m) ==
  /\ Is(m, "generating") /\ (Abort(m) \/ Abandon(m))
  /\ IF phase'[m] = "over" THEN Settle(m, "timeout") ELSE UNCHANGED <<stage, queues, turns>>
  /\ UNCHANGED <<saw, store>>

TimeOutSeen(m) ==
  Is(m, "generating") /\ CheckAborted(m) /\ Settle(m, "timeout") /\ UNCHANGED <<saw, store>>

\* The generation ends; after the timeout, however it ends, in the timeout's answer.
End(m) ==
  /\ Is(m, "generating")
  /\ \/ m \in aborted /\ EndCall(m, 0) /\ Settle(m, "timeout")
     \/ m \notin aborted /\ EndCall(m, 0) /\ \E how \in {"reply", "thrown"} : Settle(m, how)
     \/ m \notin aborted /\ \E d \in Cooldowns : EndCall(m, d) /\ Settle(m, "limited")
  /\ UNCHANGED <<saw, store>>

\* A voice turn uses the provider in its own way; it is cancelled at will.
VoiceTurn(r) ==
  /\ \/ Check(r) \/ CheckAborted(r) \/ Abort(r) \/ Release(r)
     \/ Unavailable(r) \/ AskAgain(r) \/ Abandon(r)
  /\ UNCHANGED mentions

Clock == Tick /\ UNCHANGED mentions

MentionDone ==
  /\ \A m \in Mentions : stage[m] \in Answered
  /\ Voice \subseteq At("over") /\ UNCHANGED <<limiterVars, mentions>>

MentionNext ==
  \/ \E m \in Mentions :
       \/ Prepare(m) \/ Busy(m) \/ Queue(m) \/ Refuse(m) \/ Generate(m) \/ GoOn(m) \/ BackOff(m)
       \/ TimeOut(m) \/ TimeOutSeen(m) \/ End(m) \/ Deliver(m)
  \/ \E r \in Voice : VoiceTurn(r)
  \/ Clock \/ MentionDone

MentionSpec == MentionInit /\ [][MentionNext]_<<limiterVars, mentions>>

\* What the event loop owes a request, at most one of these at a time: a turn it has, a
\* turn of the limiter's loop that is due, a retry, the end of a cancelled generation.
Goes(m) == Generate(m) \/ Refuse(m) \/ GoOn(m) \/ TimeOutSeen(m) \/ (m \in aborted /\ End(m))
VoiceGoes(r) ==
  /\ phase[r] # "new"
  /\ Check(r) \/ CheckAborted(r) \/ AskAgain(r) \/ (r \in aborted /\ Release(r))
  /\ UNCHANGED mentions

(***************************************************************************)
(* Timers and microtasks are served.  Nothing is assumed of the provider,  *)
(* except that a cancelled generation ends.                                *)
(***************************************************************************)
MentionFairness ==
  /\ WF_<<limiterVars, mentions>>(Clock)
  /\ \A m \in Mentions : WF_<<limiterVars, mentions>>(Goes(m)) /\ WF_<<limiterVars, mentions>>(TimeOut(m))
  /\ \A r \in Voice : WF_<<limiterVars, mentions>>(VoiceGoes(r))

MentionFairSpec == MentionSpec /\ MentionFairness

-----------------------------------------------------------------------------
\* Types of the responder's own state; the limiter's are its own.
MentionTypeOK ==
  /\ LimiterTypeOK
  /\ promptUse \in BOOLEAN /\ stored \subseteq Mentions /\ text \in [Mentions -> SUBSET Mentions]
  /\ stage \in [Mentions -> Answered \cup {"unasked", "prepared", "queued", "generating"}]
  /\ after \in [Mentions -> Mentions \cup {None}] /\ newest \in [Rooms -> Mentions \cup {None}]
  /\ pending \in [Rooms -> 0..MaxPending]
  /\ turns \in [Rooms -> Seq(Mentions)] /\ saw \in [Mentions -> Seq(Mentions)]

(***************************************************************************)
(* Both counters say what they stand for, however requests end: slots in   *)
(* use are held by generations that run, no more than maxConcurrent, and   *)
(* a room's pending count is the number of its mentions still unanswered.  *)
(***************************************************************************)
CountersAreTrue ==
  /\ SlotsAreHeld
  /\ \A room \in Rooms : pending[room] = Cardinality(Unanswered(room))

\* The replies of a room before its k-th.
Earlier(room, k) == SubSeq(turns[room], 1, k - 1)

(***************************************************************************)
(* "serializes same-room requests and preserves their history order",      *)
(* where prompts are made of recentTurns: each reply was made with exactly *)
(* the replies before it in its prompt, none made beside it, whatever      *)
(* failed, timed out or was turned away between.  Where they are made of   *)
(* durable context, only this: a reply knows none but earlier ones of its  *)
(* own room.                                                               *)
(***************************************************************************)
RepliesKnowEachOther ==
  \A room \in Rooms : \A k \in DOMAIN turns[room] :
    LET m == turns[room][k]
    IN  IF promptUse THEN text[m] \subseteq {turns[room][i] : i \in 1..(k - 1)}
                     ELSE saw[m] = Earlier(room, k)

(***************************************************************************)
(* The same of durable context.  It is not so: the context was read before *)
(* the mention got in line, and lacks the replies made while it waited.    *)
(***************************************************************************)
DurableRepliesKnowEachOther ==
  promptUse => \A room \in Rooms : \A k \in DOMAIN turns[room] :
                 text[turns[room][k]] = {turns[room][i] : i \in 1..(k - 1)}

(***************************************************************************)
(* Every mention that is queued is answered, although the provider may     *)
(* hang with every slot taken: timeouts free the room and the slots.       *)
(* Mentions are finitely many and answered once, so in the end none is     *)
(* left.                                                                   *)
(***************************************************************************)
EveryMentionIsAnswered ==
  <>[](\A room \in Rooms : Unanswered(room) = {})

(***************************************************************************)
(* As long as generations end and nobody cancels, every request gets its   *)
(* slot: cooldown, full window and wait for a release all end.             *)
(***************************************************************************)
GenerationsEnd == []<>(At("holding") = {})

EveryoneIsServedInTurn ==
  GenerationsEnd /\ [](aborted = {}) => <>[](At("new") \cup At("over") = Requests)
=============================================================================

