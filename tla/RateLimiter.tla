---------------------------- MODULE RateLimiter ----------------------------
(***************************************************************************)
(* The process-wide limiter in front of the brain provider, with the       *)
(* provider call around it: a request acquires a slot, generates, and      *)
(* releases the slot in a finally block, after arming the cooldown when    *)
(* the platform answered 429.  A 503 before the first token is tried again *)
(* after a delay, inside the slot and past the limiter: such a call is in  *)
(* no history and looks at no cooldown.                                    *)
(*                                                                         *)
(* acquire() is a loop that checks cooldown, request budget and            *)
(* concurrency in one go and otherwise sleeps on a timer or waits for a    *)
(* release.  The code between two awaits runs undisturbed, so a turn of    *)
(* the loop is one action.  Clock readings are kept relative to now: the   *)
(* history holds ages, the cooldown and the timers what is left of them.   *)
(***************************************************************************)
EXTENDS Naturals, Sequences, FiniteSets

CONSTANTS
  Requests,
  MaxConcurrent,      \* config().brain.maxConcurrentRequests
  RequestsPerMinute,  \* config().brain.requestsPerMinute
  Window,             \* RPM_WINDOW_MS, in ticks
  Cooldowns,          \* what a 429 may ask for, in ticks
  RetryDelays,        \* UNAVAILABLE_RETRY_DELAYS_MS, in ticks
  AbortBetween        \* whether a signal can fire between a release and the woken waiter's check

ASSUME LimiterAssumption ==
  /\ IsFiniteSet(Requests)
  /\ MaxConcurrent \in Nat \ {0} /\ RequestsPerMinute \in Nat \ {0}
  /\ Window \in Nat \ {0} /\ Cooldowns \subseteq Nat /\ RetryDelays \in Seq(Nat)
  /\ AbortBetween \in BOOLEAN

VARIABLES
  phase,     \* where each request is: new, sleeping, waiting, woken, holding, backoff or over
  timer,     \* what is left of its sleep, in the limiter or before a retry
  aborted,   \* requests whose signal has fired
  inFlight,
  history,   \* ages of the acquisitions the limiter remembers, oldest first
  blocked,   \* what is left of the cooldown
  waiters,   \* releaseWaiters
  sent       \* ages of the calls each request has made upstream, oldest first; ages stop at Window

limiterVars == <<phase, timer, aborted, inFlight, history, blocked, waiters, sent>>

At(p) == {r \in Requests : phase[r] = p}

\* Between acquire() and release(): in a call upstream, or in the delay before the next.
Slots == {r \in Requests : phase[r] \in {"holding", "backoff"}}

\* A bug to compare with: an acquisition leaves the window one tick early.
PrunedEarly(h) ==
  LET expired == {k \in 1..Len(h) : \A j \in 1..k : h[j] + 1 >= Window}
  IN  SubSeq(h, Cardinality(expired) + 1, Len(h))

\* while (history[0] <= cutoff) history.shift()
Pruned(h) ==
  LET expired == {k \in 1..Len(h) : \A j \in 1..k : h[j] >= Window}
  IN  SubSeq(h, Cardinality(expired) + 1, Len(h))

\* releaseWaiters.splice(releaseWaiters.indexOf(waiter), 1)
Without(q, r) ==
  IF \A k \in DOMAIN q : q[k] # r THEN q
  ELSE LET at == CHOOSE k \in DOMAIN q : q[k] = r
       IN  [k \in 1..(Len(q) - 1) |-> q[IF k < at THEN k ELSE k + 1]]

LimiterInit ==
  /\ phase = [r \in Requests |-> "new"] /\ timer = [r \in Requests |-> 0]
  /\ aborted = {} /\ inFlight = 0 /\ history = << >> /\ blocked = 0
  /\ waiters = << >> /\ sent = [r \in Requests |-> << >>]

-----------------------------------------------------------------------------
\* A turn of the loop is due: at the call, after a release, or when the timer has fired.
Due(r) == phase[r] \in {"new", "woken"} \/ (phase[r] = "sleeping" /\ timer[r] = 0)

SleepFor(r, ticks) ==
  /\ phase' = [phase EXCEPT ![r] = "sleeping"] /\ timer' = [timer EXCEPT ![r] = ticks]
  /\ UNCHANGED <<inFlight, waiters, sent>>

WaitForRelease(r) ==
  /\ phase' = [phase EXCEPT ![r] = "waiting"] /\ waiters' = Append(waiters, r)
  /\ UNCHANGED <<timer, inFlight, sent>>

\* generateContentStream(): one request to the platform.
Ask(r) ==
  /\ phase' = [phase EXCEPT ![r] = "holding"]
  /\ sent' = [sent EXCEPT ![r] = Append(@, 0)]

Own(r, h) ==
  /\ Ask(r)
  /\ inFlight' = inFlight + 1 /\ history' = Append(h, 0)
  /\ UNCHANGED <<timer, waiters>>

\* One turn of the loop in acquire().
Check(r) ==
  /\ Due(r) /\ r \notin aborted
  /\ LET h == Pruned(history)
     IN  \/ blocked > 0 /\ SleepFor(r, blocked) /\ history' = h
         \/ /\ blocked = 0 /\ Len(h) >= RequestsPerMinute
            /\ SleepFor(r, IF Window - h[1] > 1 THEN Window - h[1] ELSE 1) /\ history' = h
         \/ /\ blocked = 0 /\ Len(h) < RequestsPerMinute /\ inFlight >= MaxConcurrent
            /\ WaitForRelease(r) /\ history' = h
         \/ blocked = 0 /\ Len(h) < RequestsPerMinute /\ inFlight < MaxConcurrent /\ Own(r, h)
  /\ UNCHANGED <<aborted, blocked>>

\* The loop finds the signal fired.
CheckAborted(r) ==
  /\ Due(r) /\ r \in aborted
  /\ phase' = [phase EXCEPT ![r] = "over"]
  /\ UNCHANGED <<timer, aborted, inFlight, history, blocked, waiters, sent>>

\* A bug to compare with: who waits for a release does not hear the signal.
AbortUnheard(r) ==
  /\ r \notin aborted /\ phase[r] \notin {"over", "woken", "backoff"}
  /\ aborted' = aborted \cup {r}
  /\ phase' = IF phase[r] = "sleeping" THEN [phase EXCEPT ![r] = "over"] ELSE phase
  /\ timer' = [timer EXCEPT ![r] = 0]
  /\ UNCHANGED <<inFlight, history, blocked, waiters, sent>>

\* The signal fires.  A sleeper and a waiter reject at once, the waiter leaving
\* the list; a generation in progress ends in its own time.
Abort(r) ==
  /\ r \notin aborted /\ phase[r] \notin {"over", "backoff"}
  /\ phase[r] = "woken" => AbortBetween
  /\ aborted' = aborted \cup {r}
  /\ phase' = IF phase[r] \in {"sleeping", "waiting"} THEN [phase EXCEPT ![r] = "over"] ELSE phase
  /\ waiters' = Without(waiters, r) /\ timer' = [timer EXCEPT ![r] = 0]
  /\ UNCHANGED <<inFlight, history, blocked, sent>>

\* A bug to compare with: nobody is woken.
WakeNobody(r) == waiters' = waiters /\ phase' = [phase EXCEPT ![r] = "over"]

\* A bug to compare with: the slot is handed to the waiter without a check.
WakeOwner(r) ==
  IF waiters = << >>
    THEN waiters' = waiters /\ phase' = [phase EXCEPT ![r] = "over"]
    ELSE /\ waiters' = Tail(waiters)
         /\ phase' = [phase EXCEPT ![r] = "over", ![Head(waiters)] = "holding"]

\* One waiter, the oldest, is let go to check again.
Wake(r) ==
  IF waiters = << >>
    THEN waiters' = waiters /\ phase' = [phase EXCEPT ![r] = "over"]
    ELSE /\ waiters' = Tail(waiters)
         /\ phase' = [phase EXCEPT ![r] = "over", ![Head(waiters)] = "woken"]

\* A bug to compare with: the last answer wins.
ArmedAnew(d) == d

\* blockUntil(): never shortens a cooldown.
Armed(d) == IF d > blocked THEN d ELSE blocked

\* release(), in the provider's finally block: the count does not go below zero.
GiveBack(r) == inFlight' = (IF inFlight > 0 THEN inFlight - 1 ELSE 0) /\ Wake(r)

\* The generation ends, well or in failure; a 429 arms the cooldown first.
EndCall(r, d) ==
  /\ phase[r] = "holding"
  /\ blocked' = Armed(d)
  /\ GiveBack(r)
  /\ UNCHANGED <<timer, aborted, history, sent>>

\* An answer to a cancelled request is an abort, whatever it says.
Release(r) == \E d \in IF r \in aborted THEN {0} ELSE {0} \cup Cooldowns : EndCall(r, d)

\* A 503 before the first token: the request keeps its slot and sleeps.
Unavailable(r) ==
  /\ phase[r] = "holding" /\ r \notin aborted /\ Len(sent[r]) <= Len(RetryDelays)
  /\ phase' = [phase EXCEPT ![r] = "backoff"]
  /\ timer' = [timer EXCEPT ![r] = RetryDelays[Len(sent[r])]]
  /\ UNCHANGED <<aborted, inFlight, history, blocked, waiters, sent>>

\* The delay is over: the request calls again, and asks the limiter for nothing.
AskAgain(r) ==
  /\ phase[r] = "backoff" /\ timer[r] = 0
  /\ Ask(r)
  /\ UNCHANGED <<timer, aborted, inFlight, history, blocked, waiters>>

\* The signal fires in the delay, which rejects at once: the slot is free.
Abandon(r) ==
  /\ phase[r] = "backoff" /\ r \notin aborted
  /\ aborted' = aborted \cup {r} /\ timer' = [timer EXCEPT ![r] = 0]
  /\ GiveBack(r)
  /\ UNCHANGED <<history, blocked, sent>>

Older(h) == [k \in DOMAIN h |-> IF h[k] < Window THEN h[k] + 1 ELSE h[k]]
Less(n) == IF n > 0 THEN n - 1 ELSE 0

\* The calls of a request that has no slot are forgotten when the last leaves the window.
Aged(r) ==
  LET calls == Older(sent[r])
  IN  IF r \in Slots \/ \E k \in DOMAIN calls : calls[k] < Window THEN calls ELSE << >>

\* Time passes between tasks: a woken waiter has its turn before the next timer.
Tick ==
  /\ At("woken") = {}
  /\ \/ blocked > 0 \/ \E r \in Requests : timer[r] > 0
     \/ \E r \in Requests : \E k \in DOMAIN sent[r] : sent[r][k] < Window
  /\ blocked' = Less(blocked)
  /\ timer' = [r \in Requests |-> Less(timer[r])]
  /\ history' = Older(history)
  /\ sent' = [r \in Requests |-> Aged(r)]
  /\ UNCHANGED <<phase, aborted, inFlight, waiters>>

Done == At("over") = Requests /\ UNCHANGED limiterVars

LimiterNext ==
  \/ \E r \in Requests :
       \/ Check(r) \/ CheckAborted(r) \/ Abort(r) \/ Release(r)
       \/ Unavailable(r) \/ AskAgain(r) \/ Abandon(r)
  \/ Tick \/ Done

LimiterSpec == LimiterInit /\ [][LimiterNext]_limiterVars

(***************************************************************************)
(* The clock runs, timers and microtasks are served, generations end.      *)
(***************************************************************************)
LimiterFairness ==
  /\ WF_limiterVars(Tick)
  /\ \A r \in Requests :
       /\ WF_limiterVars(phase[r] # "new" /\ Check(r)) /\ WF_limiterVars(CheckAborted(r))
       /\ WF_limiterVars(Release(r)) /\ WF_limiterVars(AskAgain(r))

LimiterFairSpec == LimiterSpec /\ LimiterFairness

-----------------------------------------------------------------------------
\* Types; the waiters are the requests that wait, each once.
LimiterTypeOK ==
  /\ phase \in [Requests -> {"new", "sleeping", "waiting", "woken", "holding", "backoff", "over"}]
  /\ timer \in [Requests -> Nat] /\ aborted \in SUBSET Requests
  /\ inFlight \in Nat /\ blocked \in Nat
  /\ history \in Seq(0..Window) /\ sent \in [Requests -> Seq(0..Window)]
  /\ waiters \in Seq(Requests)
  /\ {waiters[k] : k \in DOMAIN waiters} = At("waiting")
  /\ Len(waiters) = Cardinality(At("waiting"))

(***************************************************************************)
(* Every slot that is counted is held by one request, and never more than  *)
(* maxConcurrent are: no cancellation, failure or wakeup loses a slot or   *)
(* gives it out twice.                                                     *)
(***************************************************************************)
SlotsAreHeld ==
  inFlight = Cardinality(Slots) /\ inFlight <= MaxConcurrent

\* The requests whose slot was acquired in the last window, and the calls made in it.
Acquired == {r \in Requests : sent[r] # << >> /\ sent[r][1] < Window}
Upstream ==
  {c \in Requests \X (1..(Len(RetryDelays) + 1)) : c[2] \in DOMAIN sent[c[1]] /\ sent[c[1]][c[2]] < Window}

(***************************************************************************)
(* No window of RPM_WINDOW_MS sees more than requestsPerMinute             *)
(* acquisitions, although requests prune the history at different times.   *)
(* What the platform sees is more, by the retries of a 503, which are not  *)
(* counted: as many again for each slot acquired in the window, and for    *)
(* each of the maxConcurrent that were held when it began.                 *)
(***************************************************************************)
BudgetKept ==
  /\ Cardinality(Acquired) <= RequestsPerMinute
  /\ Cardinality(Upstream) <= RequestsPerMinute + (RequestsPerMinute + MaxConcurrent) * Len(RetryDelays)

(***************************************************************************)
(* No slot is acquired in a cooldown: what goes upstream in one is the     *)
(* retry of a request that had its slot before.  Only the clock shortens a *)
(* cooldown: not a later answer that asks for less, and not a request that *)
(* ends well.                                                              *)
(***************************************************************************)
CooldownKept ==
  [][/\ blocked > 0 => /\ Slots' \subseteq Slots
                       /\ \A r \in Requests : Len(sent'[r]) > Len(sent[r]) => phase[r] = "backoff"
     /\ blocked' < blocked => blocked' = blocked - 1 /\ UNCHANGED phase]_limiterVars

\* The calls upstream keep the budget too.  They do not: a retry is not counted.
CallsWithinBudget == Cardinality(Upstream) <= RequestsPerMinute

(***************************************************************************)
(* "Arm the cooldown at the provider boundary so *every* caller is         *)
(* blocked" (gemini.ts): in a cooldown nothing goes upstream.  It does,    *)
(* when a request retries its 503.                                         *)
(***************************************************************************)
EveryCallerIsBlocked ==
  [][blocked > 0 => \A r \in Requests : Len(sent'[r]) <= Len(sent[r])]_limiterVars

(***************************************************************************)
(* As long as nobody cancels, every request gets its slot: sleeping behind *)
(* a cooldown or a full window and waiting for a release all end.          *)
(***************************************************************************)
EveryoneIsServed ==
  [](aborted = {}) => \A r \in Requests : phase[r] # "new" ~> phase[r] = "over"

(***************************************************************************)
(* "Wait until a request slot is free": a request does not wait for ever   *)
(* for a release, whatever becomes of the others.                          *)
(***************************************************************************)
WaitEnds ==
  \A r \in Requests : phase[r] = "waiting" ~> phase[r] # "waiting"
=============================================================================
