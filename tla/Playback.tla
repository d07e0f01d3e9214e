------------------------------ MODULE Playback ------------------------------
(***************************************************************************)
(* The per-guild playback scheduler, src/src/voice/playback.ts.            *)
(*                                                                         *)
(* Audio items are queued under the response epoch they belong to and are  *)
(* handed, one at a time, to an AudioPlayer.  The player is external: it   *)
(* is modelled from how the scheduler and adaptAudioPlayer use it.  stop() *)
(* answers at once, while the Idle event of the stopped resource arrives   *)
(* later, and that gap is what the scheduler has to survive.               *)
(*                                                                         *)
(* One action is one call of the scheduler or one event of the player, run *)
(* to completion: JavaScript does not interrupt either.  Promises are      *)
(* modelled by "status": an item is "pending" until its promise settles.   *)
(***************************************************************************)
EXTENDS Integers, Sequences, FiniteSets

CONSTANTS
  MaxItems,            \* bound on the items ever enqueued
  MaxEpoch,            \* bound on the response epochs callers use
  MaxQueueDepth,       \* MAX_QUEUE_DEPTH
  MaxFutureCancels     \* the 128 of cancelEpoch

ASSUME PlaybackAssumption ==
  /\ MaxItems \in Nat
  /\ MaxEpoch \in Nat
  /\ MaxQueueDepth \in Nat \ {0}
  /\ MaxFutureCancels \in Nat \ {0}

VARIABLES
  queue,               \* item ids waiting, in submission order
  active,              \* the item being played, or NoItem
  latestEpoch,         \* highest epoch ever enqueued
  cancelledEpochs,     \* epochs refused although not below latestEpoch
  drainWaiters,        \* epochs somebody awaits the drain of
  disposed,
  awaitingStopIdle,    \* a stopped resource has not reported Idle yet
  items,               \* what was enqueued: its epoch and how its resource behaves
  status,              \* the promise of every item
  player,              \* the AudioPlayer: its resource, and whether it is stopping
  heard,               \* history: items whose resource ran to its natural end
  cancelledEver        \* history: epochs some cancelEpoch call returned for

vars == <<queue, active, latestEpoch, cancelledEpochs, drainWaiters, disposed,
          awaitingStopIdle, items, status, player, heard, cancelledEver>>

Epochs == 0..MaxEpoch
Items  == 1..MaxItems
NoItem == 0
Idle   == [res |-> NoItem, stopping |-> FALSE]

Resources == {"good", "uncreatable", "unplayable"}   \* createResource throws, play throws
Statuses == {"pending", "played", "cancelled", "failed", "dropped"}

\* Shape of the state, and the two limits of the code: MAX_QUEUE_DEPTH items wait
\* and 128 future cancellations are remembered, whatever the callers do.
TypeOK ==
  /\ queue \in Seq(Items)
  /\ active \in Items \cup {NoItem}
  /\ latestEpoch \in Epochs
  /\ cancelledEpochs \subseteq Epochs
  /\ drainWaiters \subseteq Epochs
  /\ disposed \in BOOLEAN
  /\ awaitingStopIdle \in BOOLEAN
  /\ items \in Seq([epoch : Epochs, resource : Resources])
  /\ Len(items) <= MaxItems
  /\ status \in Seq(Statuses)
  /\ Len(status) = Len(items)
  /\ player \in [res : Items \cup {NoItem}, stopping : BOOLEAN]
  /\ heard \subseteq Items
  /\ cancelledEver \subseteq Epochs
  /\ Len(queue) <= MaxQueueDepth
  /\ Cardinality(cancelledEpochs) <= MaxFutureCancels

Init ==
  /\ queue = << >> /\ active = NoItem
  /\ latestEpoch = 0 /\ cancelledEpochs = {}
  /\ drainWaiters = {}
  /\ disposed = FALSE /\ awaitingStopIdle = FALSE
  /\ items = << >> /\ status = << >>
  /\ player = Idle
  /\ heard = {} /\ cancelledEver = {}

-----------------------------------------------------------------------------
\* Staleness and work, over the values a call has reached so far.

IsStale(epoch, latest, cancelled) == epoch < latest \/ epoch \in cancelled

\* What enqueue() forgets when the epoch advances: cancellations below it.
PrunedTooFar(cancelled, latest) == {c \in cancelled : c > latest}      \* mutant
Pruned(cancelled, latest) == {c \in cancelled : c >= latest}

InQueue(q) == {q[k] : k \in 1..Len(q)}

\* queue.filter(): the j-th item left is the one with j items left up to it.
\* (SelectSeq, in a form that can be reasoned about.)
Left(q, drop) == {k \in 1..Len(q) : q[k] \notin drop}
Rank(k, K)    == Cardinality({m \in K : m <= k})
Without(q, drop) ==
  [j \in 1..Cardinality(Left(q, drop)) |->
     q[CHOOSE k \in Left(q, drop) : Rank(k, Left(q, drop)) = j]]

HasWork(epoch, q, act, its) ==
  \/ act # NoItem /\ its[act].epoch = epoch
  \/ \E i \in InQueue(q) : its[i].epoch = epoch

SettleNothing(st, S, outcome) == st                                   \* mutant
Settle(st, S, outcome) == [i \in DOMAIN st |-> IF i \in S THEN outcome ELSE st[i]]

(***************************************************************************)
(* pump(): unless something is active or a stopped resource is still       *)
(* winding down, drop stale items, fail the items whose resource cannot be *)
(* created or played, and play the first one left.  "its", "latest" and    *)
(* "cancelled" are the values the caller has already written.              *)
(***************************************************************************)
Pump(q, st, act, waiting, plr, its, latest, cancelled) ==
  IF disposed \/ waiting \/ act # NoItem
  THEN [queue |-> q, status |-> st, active |-> act, player |-> plr, notified |-> FALSE]
  ELSE LET stale(i) == IsStale(its[i].epoch, latest, cancelled)
           playable == {k \in 1..Len(q) : ~stale(q[k]) /\ its[q[k]].resource = "good"}
           first    == IF playable = {} THEN Len(q) + 1
                       ELSE CHOOSE k \in playable : \A m \in playable : k <= m
           skipped  == {q[k] : k \in 1..(first - 1)}
           settled  == [i \in DOMAIN st |->
                          IF i \notin skipped THEN st[i]
                          ELSE IF stale(i) THEN "cancelled" ELSE "failed"]
       IN IF playable = {}
          THEN [queue |-> << >>, status |-> settled, active |-> NoItem,
                player |-> plr, notified |-> TRUE]
          ELSE [queue |-> SubSeq(q, first + 1, Len(q)), status |-> settled,
                active |-> q[first],
                player |-> [plr EXCEPT !.res = q[first]],
                notified |-> \E i \in skipped : ~stale(i) /\ its[i].resource = "unplayable"]

\* notifyDrained(): the waiters that remain, over the state the call ends in.
NobodyNotified(q, act, its) == drainWaiters                           \* mutant
StillWaiting(q, act, its) == {e \in drainWaiters : HasWork(e, q, act, its)}

\* The effect of a call that ends in pump(); notify says whether it also calls
\* notifyDrained, as pump does once the queue is empty or a play() has thrown.
EndInPump(p, notify, its) ==
  /\ queue' = p.queue /\ active' = p.active
  /\ status' = p.status /\ player' = p.player
  /\ drainWaiters' = IF notify \/ p.notified
                     THEN StillWaiting(p.queue, p.active, its)
                     ELSE drainWaiters

\* Whether an Idle is owed once a call has stopped the active item, or not.
StopForgotten(stop) == awaitingStopIdle                               \* mutant
IdleOwed(stop) == IF stop THEN player.res # NoItem ELSE awaitingStopIdle

(***************************************************************************)
(* cancel the queued items in "drop" and, if "stop", the active one:       *)
(* settleActive('cancelled') asks the player to stop and remembers that an *)
(* Idle is still owed.  Shared by cancelEpoch, stopAll and dispose.        *)
(***************************************************************************)
CancelWork(drop, stop, cancelled) ==
  LET keep    == Without(queue, drop)
      gone    == drop \cup (IF stop THEN {active} ELSE {})
      owed    == IdleOwed(stop)
      stopped == IF stop /\ player.res # NoItem THEN [player EXCEPT !.stopping = TRUE] ELSE player
      st      == Settle(status, gone, "cancelled")
      p == IF stop
           THEN Pump(keep, st, NoItem, owed, stopped, items, latestEpoch, cancelled)
           ELSE [queue |-> keep, status |-> st, active |-> active,
                 player |-> player, notified |-> FALSE]
  IN /\ awaitingStopIdle' = owed
     /\ EndInPump(p, TRUE, items)

-----------------------------------------------------------------------------
\* Calls of the scheduler.

Enqueue(epoch, resource) ==
  LET id        == Len(items) + 1
      its       == Append(items, [epoch |-> epoch, resource |-> resource])
      newer     == ~disposed /\ epoch > latestEpoch
      latest    == IF newer THEN epoch ELSE latestEpoch
      cancelled == IF newer THEN Pruned(cancelledEpochs, epoch) ELSE cancelledEpochs
      refused   == IF disposed \/ IsStale(epoch, latest, cancelled) THEN "cancelled"
                   ELSE IF Len(queue) >= MaxQueueDepth THEN "dropped"
                   ELSE "no"
  IN /\ Len(items) < MaxItems
     /\ items' = its
     /\ latestEpoch' = latest /\ cancelledEpochs' = cancelled
     /\ \/ /\ refused # "no"
           /\ status' = Append(status, refused)
           /\ UNCHANGED <<queue, active, player, drainWaiters>>
        \/ /\ refused = "no"
           /\ EndInPump(Pump(Append(queue, id), Append(status, "pending"), active,
                             awaitingStopIdle, player, its, latest, cancelled), FALSE, its)
     /\ UNCHANGED <<disposed, awaitingStopIdle, heard, cancelledEver>>

TooManyFutureCancels(epoch) ==
  /\ epoch >= latestEpoch
  /\ Cardinality(cancelledEpochs) >= MaxFutureCancels
  /\ epoch \notin cancelledEpochs

CancelEpoch(epoch) ==
  LET cancelled == IF epoch >= latestEpoch THEN cancelledEpochs \cup {epoch}
                   ELSE cancelledEpochs
  IN /\ ~TooManyFutureCancels(epoch)
     /\ cancelledEpochs' = cancelled
     /\ cancelledEver' = cancelledEver \cup {epoch}
     /\ CancelWork({i \in InQueue(queue) : items[i].epoch = epoch},
                   active # NoItem /\ items[active].epoch = epoch, cancelled)
     /\ UNCHANGED <<latestEpoch, disposed, items, heard>>

\* The call throws before it has changed anything.
CancelEpochThrows(epoch) == TooManyFutureCancels(epoch) /\ UNCHANGED vars

StopAll ==
  /\ CancelWork(InQueue(queue), active # NoItem, cancelledEpochs)
  /\ UNCHANGED <<latestEpoch, cancelledEpochs, disposed, items, heard, cancelledEver>>

\* awaitDrained resolves at once when there is no work, and registers otherwise.
AwaitDrained(epoch) ==
  /\ HasWork(epoch, queue, active, items)
  /\ drainWaiters' = drainWaiters \cup {epoch}
  /\ UNCHANGED <<queue, active, latestEpoch, cancelledEpochs, disposed, awaitingStopIdle,
                 items, status, player, heard, cancelledEver>>

\* dispose() raises "disposed" first, so its stopAll never starts a successor.
Dispose ==
  /\ ~disposed
  /\ disposed' = TRUE
  /\ queue' = << >> /\ active' = NoItem /\ drainWaiters' = {}
  /\ status' = Settle(status, InQueue(queue) \cup {active}, "cancelled")
  /\ awaitingStopIdle' = IdleOwed(active # NoItem)
  /\ player' = IF active # NoItem /\ player.res # NoItem
               THEN [player EXCEPT !.stopping = TRUE] ELSE player
  /\ UNCHANGED <<latestEpoch, cancelledEpochs, items, heard, cancelledEver>>

-----------------------------------------------------------------------------
\* Events of the player.  After dispose() nobody observes them.

\* The Idle owed by a stopped resource only reopens the pump.
ReopenWithoutPump ==                                                  \* mutant
  awaitingStopIdle' = FALSE /\ player' = Idle /\ UNCHANGED <<queue, active, status, drainWaiters>>
ReopenPump ==
  /\ awaitingStopIdle' = FALSE
  /\ EndInPump(Pump(queue, status, active, FALSE, Idle, items, latestEpoch, cancelledEpochs),
               FALSE, items)

\* onIdle(): any other Idle is the natural end of the active item.
OnIdle ==
  IF disposed
  THEN /\ player' = Idle
       /\ UNCHANGED <<queue, active, status, drainWaiters, awaitingStopIdle>>
  ELSE IF awaitingStopIdle
  THEN ReopenPump
  ELSE IF active = NoItem
  THEN /\ player' = Idle
       /\ UNCHANGED <<queue, active, status, drainWaiters, awaitingStopIdle>>
  ELSE /\ EndInPump(Pump(queue, Settle(status, {active}, "played"), NoItem, FALSE, Idle,
                         items, latestEpoch, cancelledEpochs), TRUE, items)
       /\ UNCHANGED awaitingStopIdle

\* The resource plays to its natural end.
PlayerFinishes ==
  /\ player.res # NoItem /\ ~player.stopping
  /\ heard' = heard \cup {player.res}
  /\ OnIdle
  /\ UNCHANGED <<latestEpoch, cancelledEpochs, disposed, items, cancelledEver>>

\* The Idle that follows stop(), once the silence padding has been sent.
PlayerStops ==
  /\ player.res # NoItem /\ player.stopping
  /\ OnIdle
  /\ UNCHANGED <<latestEpoch, cancelledEpochs, disposed, items, heard, cancelledEver>>

(***************************************************************************)
(* The resource fails.  The player reports the error first; it goes idle   *)
(* afterwards, unless the error handler has given it another resource.     *)
(***************************************************************************)
PlayerFails ==
  /\ player.res # NoItem
  /\ IF disposed \/ active = NoItem
     THEN OnIdle
     ELSE LET p == Pump(queue, Settle(status, {active}, "failed"), NoItem, awaitingStopIdle,
                        Idle, items, latestEpoch, cancelledEpochs)
          IN EndInPump(p, TRUE, items) /\ UNCHANGED awaitingStopIdle
  /\ UNCHANGED <<latestEpoch, cancelledEpochs, disposed, items, heard, cancelledEver>>

-----------------------------------------------------------------------------
Next ==
  \/ \E e \in Epochs, r \in Resources : Enqueue(e, r)
  \/ \E e \in Epochs : CancelEpoch(e) \/ CancelEpochThrows(e) \/ AwaitDrained(e)
  \/ StopAll
  \/ Dispose
  \/ PlayerFinishes
  \/ PlayerStops
  \/ PlayerFails

Spec == Init /\ [][Next]_vars

\* Audio is finite and stop() is answered: while the player holds a resource
\* some event of that resource eventually comes.
FairSpec == Spec /\ WF_vars(PlayerFinishes \/ PlayerStops \/ PlayerFails)
-----------------------------------------------------------------------------
\* Properties.

(***************************************************************************)
(* The scheduler and the player agree about what is playing.  pump() calls *)
(* play() only on a player that holds nothing, so no audible resource is   *)
(* ever replaced (the defect the module was written to remove), and a      *)
(* stopped resource is never mistaken for the active one.                  *)
(***************************************************************************)
PlayerAgreement ==
  /\ active # NoItem => player = [res |-> active, stopping |-> FALSE]
  /\ ~disposed =>
       /\ active = NoItem => player.stopping = awaitingStopIdle
       /\ active = NoItem /\ ~awaitingStopIdle => player.res = NoItem
       /\ awaitingStopIdle => active = NoItem /\ player.res # NoItem

\* A promise reports 'played' only for a resource that ran to its natural end:
\* the late Idle of a cancelled resource never settles its successor.
PlayedWasHeard == \A i \in DOMAIN status : status[i] = "played" => i \in heard

\* A cancelled response never sounds again: what is active belongs to no epoch
\* that cancelEpoch was ever called for, whatever was pruned from the set since.
CancelledNeverActive == active # NoItem => items[active].epoch \notin cancelledEver

\* Nothing is lost, duplicated or reordered: a promise is pending exactly while
\* its item is queued or active, the queue is in submission order, and whatever
\* waits was submitted after the item that is playing.
QueueDiscipline ==
  /\ \A i \in DOMAIN status :
       status[i] = "pending" <=> (i \in InQueue(queue) \/ (i = active /\ active # NoItem))
  /\ \A k \in 1..Len(queue) : queue[k] > active
  /\ \A j, k \in 1..Len(queue) : j < k => queue[j] < queue[k]

\* No call of pump() or notifyDrained() is forgotten: items wait only behind an
\* active item or the Idle a stopped one owes, and nobody awaits the drain of a
\* scheduler that has nothing left to do.
NothingForgotten ==
  active = NoItem =>
    /\ queue # << >> => awaitingStopIdle
    /\ drainWaiters # {} => queue # << >>

\* What a caller is told is true, whatever is cancelled and however late the player's
\* events come: a promise says 'played' of what was heard, is pending while its item
\* waits its turn or plays, and nobody is left waiting for something that is over.
PromisesAreTrue == PlayedWasHeard /\ QueueDiscipline /\ NothingForgotten

\* Every promise enqueue() returned settles and every awaitDrained() resolves,
\* whatever is cancelled, refused or failing meanwhile.  (The calls are bounded,
\* so once they stop everything is resolved at the same time.)
EverythingResolves ==
  []<>(drainWaiters = {} /\ \A i \in DOMAIN status : status[i] # "pending")
=============================================================================
