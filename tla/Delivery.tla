------------------------------ MODULE Delivery ------------------------------
(***************************************************************************)
(* Text replies on their way to Discord, and what is known of them after a *)
(* crash.  A reply is cut into segments; each segment has a durable        *)
(* delivery record that the live path moves from pending through           *)
(* delivering to delivered or failed.  The process may die between any two *)
(* transactions and between a send and its answer.  The next process,      *)
(* before it serves, classifies what its predecessor left in flight,       *)
(* enqueues one job per ambiguous delivery and drains the jobs.            *)
(*                                                                         *)
(* The store is synchronous (one transaction, one step).  The platform is  *)
(* the environment: it accepts a message at any time while a send is out,  *)
(* and a send may be reported as failed although it was accepted.          *)
(*                                                                         *)
(* Clock readings are reduced to what the queue compares: whether a lease  *)
(* has run out, whether a retry has come due.                              *)
(***************************************************************************)
EXTENDS Naturals, FiniteSets

CONSTANTS
  Turns,        \* messages that are answered, each once
  Chunks,       \* segments of each reply
  MaxAttempts,  \* policy.maxAttempts; the counter is only compared with it and saturates there
  MaxMishaps    \* bound on failed transactions, and on leases run out and crashes in the middle of a pass

ASSUME DeliveryAssumption ==
  /\ Chunks \in [Turns -> Nat \ {0}]
  /\ MaxAttempts \in Nat \ {0}
  /\ MaxMishaps \in Nat

VARIABLES
  strict,    \* runtime.health.state = 'durableActive': a lost write fails the turn
  record,    \* delivery_attempt_records.current_state per segment
  evidence,  \* its current_evidence_json: what proves the outcome
  job,       \* worker_jobs.status per segment, with the clock folded in
  attempts,  \* its attempt_count
  mode,      \* where the process is: down, in one of the steps of the pass, or serving
  todo,      \* segments the enqueue loop of the pass has still to visit
  claimed,   \* the segment whose job the pass holds
  step,      \* where each turn is in the live path
  at,        \* the segment it is at
  traced,    \* turns with an entry in the adapter's map
  ours,      \* turns begun in this process
  accepted,  \* segments the platform accepted
  answered,  \* segments whose send was answered with a message id
  mishaps

durable == <<strict, record, evidence, job, attempts>>
pass    == <<mode, todo, claimed>>
live    == <<step, at, traced, ours>>
world   == <<accepted, answered>>
vars    == <<durable, pass, live, world, mishaps>>

Segments == UNION {{t} \X (1..Chunks[t]) : t \in Turns}

States == {"pending", "delivering", "delivered", "failed", "unknownAfterCrash", "abandoned"}

\* The part of the transition table that text deliveries use.
LegalTransitions ==
  {<<"pending", "delivering">>, <<"pending", "failed">>, <<"pending", "unknownAfterCrash">>,
   <<"delivering", "delivered">>, <<"delivering", "failed">>, <<"delivering", "unknownAfterCrash">>,
   <<"failed", "delivering">>, <<"unknownAfterCrash", "delivered">>,
   <<"unknownAfterCrash", "failed">>, <<"unknownAfterCrash", "abandoned">>}

In(states) == {s \in Segments : record[s] \in states}

\* One UPDATE ... under the precondition that the record is where the caller
\* believes it is, that the step is legal, and that nothing is called delivered
\* without a message id.
Transition(s, from, to, proof) ==
  /\ record[s] = from
  /\ <<from, to>> \in LegalTransitions
  /\ to = "delivered" => proof = "messageId"
  /\ record' = [record EXCEPT ![s] = to]
  /\ evidence' = [evidence EXCEPT ![s] = proof]

\* A transaction that is rolled back.
Mishap == mishaps < MaxMishaps /\ mishaps' = mishaps + 1
Fails == Mishap

Init ==
  /\ strict \in BOOLEAN
  /\ record = [s \in Segments |-> "none"] /\ evidence = [s \in Segments |-> "none"]
  /\ job = [s \in Segments |-> "none"] /\ attempts = [s \in Segments |-> 0]
  /\ mode = "down" /\ todo = {} /\ claimed = {}
  /\ step = [t \in Turns |-> "new"] /\ at = [t \in Turns |-> 1]
  /\ traced = {} /\ ours = {} /\ accepted = {} /\ answered = {}
  /\ mishaps = 0

-----------------------------------------------------------------------------
(* The live path: the Discord handler and the text memory adapter.         *)

Serving == mode = "serving"
Here(t) == <<t, at[t]>>

GoTo(t, place, k) == step' = [step EXCEPT ![t] = place] /\ at' = [at EXCEPT ![t] = k]

\* A bug to compare with: the trace is kept until failed() has run.
RememberUntilSettled(t) == traced' = traced

\* record(): the turn is forgotten, whatever its deliveries say.
Forget(t) == traced' = traced \ {t}

\* The message was admitted and its generation begun; the reply is about to be recorded.
Begin(t) ==
  /\ Serving /\ step[t] = "new"
  /\ GoTo(t, "recording", 1)
  /\ traced' = traced \cup {t} /\ ours' = ours \cup {t}
  /\ UNCHANGED <<durable, pass, world, mishaps>>

\* generated(): one pending record per segment, each in its own transaction.
RecordSegment(t) ==
  /\ Serving /\ step[t] = "recording" /\ at[t] <= Chunks[t]
  /\ record' = [record EXCEPT ![Here(t)] = "pending"]
  /\ GoTo(t, "recording", at[t] + 1)
  /\ UNCHANGED <<strict, evidence, job, attempts, traced, ours, pass, world, mishaps>>

Recorded(t) ==
  /\ Serving /\ step[t] = "recording" /\ at[t] = Chunks[t] + 1
  /\ GoTo(t, "announcing", 1)
  /\ UNCHANGED <<durable, traced, ours, pass, world, mishaps>>

\* fail(): the turn is forgotten; in strict mode the error ends it, otherwise
\* the caller goes on without a record.
LostWrite(t, place, k) ==
  /\ Fails /\ Forget(t)
  /\ IF strict THEN GoTo(t, "over", 1) ELSE GoTo(t, place, k)
  /\ UNCHANGED <<durable, ours, pass, world>>

RecordingFails(t) ==
  Serving /\ step[t] = "recording" /\ LostWrite(t, "announcing", 1)

\* delivering(): pending -> delivering before the send; without a trace, nothing.
Announce(t) ==
  /\ Serving /\ step[t] = "announcing"
  /\ IF t \in traced THEN Transition(Here(t), "pending", "delivering", "none")
                     ELSE UNCHANGED <<record, evidence>>
  /\ GoTo(t, "sending", at[t])
  /\ UNCHANGED <<strict, job, attempts, traced, ours, pass, world, mishaps>>

AnnounceFails(t) ==
  Serving /\ step[t] = "announcing" /\ t \in traced /\ LostWrite(t, "sending", at[t])

\* The platform takes the message; the answer is still to come.
PlatformAccepts(t) ==
  /\ Serving /\ step[t] = "sending" /\ Here(t) \notin accepted
  /\ accepted' = accepted \cup {Here(t)}
  /\ UNCHANGED <<durable, pass, live, answered, mishaps>>

SendResolves(t) ==
  /\ Serving /\ step[t] = "sending" /\ Here(t) \in accepted
  /\ answered' = answered \cup {Here(t)}
  /\ GoTo(t, "answered", at[t])
  /\ UNCHANGED <<durable, pass, traced, ours, accepted, mishaps>>

\* A bug to compare with: the rejection is swallowed.
RejectionSwallowed(t) ==
  /\ Serving /\ step[t] = "sending"
  /\ GoTo(t, "answered", at[t])
  /\ UNCHANGED <<durable, pass, traced, ours, world, mishaps>>

\* The send is rejected: refused, or accepted and the answer lost.
SendRejects(t) ==
  /\ Serving /\ step[t] = "sending"
  /\ IF t \in traced THEN GoTo(t, "failing", 1) ELSE GoTo(t, "over", 1)
  /\ UNCHANGED <<durable, pass, traced, ours, world, mishaps>>

NextSegment(t) ==
  IF at[t] < Chunks[t] THEN GoTo(t, "announcing", at[t] + 1) ELSE GoTo(t, "over", 1)

\* deliveredSegment(): the receipt is stored; after the last one the trace goes.
StoreReceipt(t) ==
  /\ Serving /\ step[t] = "answered"
  /\ IF t \in traced THEN Transition(Here(t), "delivering", "delivered", "messageId")
                     ELSE UNCHANGED <<record, evidence>>
  /\ NextSegment(t)
  /\ IF at[t] < Chunks[t] THEN UNCHANGED traced ELSE Forget(t)
  /\ UNCHANGED <<strict, job, attempts, ours, pass, world, mishaps>>

\* The error reaches the handler's catch block: failed() runs, and settles
\* whatever the adapter still knows of the turn.
StoreReceiptFails(t) ==
  /\ Serving /\ step[t] = "answered" /\ t \in traced
  /\ Fails /\ Forget(t)
  /\ IF ~strict THEN NextSegment(t)
     ELSE IF t \in traced' THEN GoTo(t, "failing", 1) ELSE GoTo(t, "over", 1)
  /\ UNCHANGED <<durable, ours, pass, world>>

\* failed(): every delivery of the turn that is not delivered becomes failed, each
\* in its own transaction; one that is rolled back is skipped.
FailOne(t, written) ==
  /\ Serving /\ step[t] = "failing" /\ at[t] <= Chunks[t]
  /\ IF written /\ record[Here(t)] # "delivered"
       THEN Transition(Here(t), record[Here(t)], "failed", "error")
       ELSE UNCHANGED <<record, evidence>>
  /\ GoTo(t, "failing", at[t] + 1)
  /\ UNCHANGED <<strict, job, attempts, traced, ours, pass, world>>

FailSegment(t) == FailOne(t, TRUE) /\ UNCHANGED mishaps
FailSegmentFails(t) ==
  step[t] = "failing" /\ Here(t) \in In({"pending", "delivering"}) /\ FailOne(t, FALSE) /\ Fails

GivenUp(t) ==
  /\ Serving /\ step[t] = "failing" /\ at[t] = Chunks[t] + 1
  /\ GoTo(t, "over", 1) /\ Forget(t)
  /\ UNCHANGED <<durable, ours, pass, world, mishaps>>

-----------------------------------------------------------------------------
(* The pass: reconcileDeliveries(), at startup or on an operator's command, *)
(* always by the one process that owns the store.                          *)

InFlight == In({"pending", "delivering"})

Start ==
  /\ mode = "down" /\ mode' = "classifying"
  /\ UNCHANGED <<durable, todo, claimed, live, world, mishaps>>

\* A bug to compare with: one UPDATE over everything that was not delivered.
ClassifyAll(s) ==
  /\ mode = "classifying" /\ s \in In({"pending", "delivering", "failed"})
  /\ record' = [record EXCEPT ![s] = "unknownAfterCrash"]
  /\ evidence' = [evidence EXCEPT ![s] = "none"]
  /\ UNCHANGED <<strict, job, attempts, pass, live, world, mishaps>>

\* Step 1: what is still in flight belongs to a dead process.
Classify(s) ==
  /\ mode = "classifying" /\ s \in InFlight
  /\ Transition(s, record[s], "unknownAfterCrash", "none")
  /\ UNCHANGED <<strict, job, attempts, pass, live, world, mishaps>>

Classified ==
  /\ mode = "classifying" /\ InFlight = {}
  /\ mode' = "enqueueing" /\ todo' = In({"unknownAfterCrash"})
  /\ UNCHANGED <<durable, claimed, live, world, mishaps>>

\* Step 2: one job per ambiguous delivery; a job that exists, in whatever
\* status, is left as it is.
Enqueue(s) ==
  /\ mode = "enqueueing" /\ s \in todo
  /\ job' = [job EXCEPT ![s] = IF @ = "none" THEN "ready" ELSE @]
  /\ todo' = todo \ {s}
  /\ UNCHANGED <<strict, record, evidence, attempts, mode, claimed, live, world, mishaps>>

Enqueued ==
  /\ mode = "enqueueing" /\ todo = {}
  /\ mode' = "draining"
  /\ UNCHANGED <<durable, todo, claimed, live, world, mishaps>>

\* Step 3: claim what is ready and due, or whose lease has run out.
\* A bug to compare with: a job a dead process held is never taken over.
ReadyOnly == {s \in Segments : job[s] = "ready"}
Claimable == {s \in Segments : job[s] \in {"ready", "expired"}}

Claim(s) ==
  /\ mode = "draining" /\ s \in Claimable
  /\ job' = [job EXCEPT ![s] = "leased"]
  /\ attempts' = [attempts EXCEPT ![s] = IF @ < MaxAttempts THEN @ + 1 ELSE @]
  /\ claimed' = {s} /\ mode' = "deciding"
  /\ UNCHANGED <<strict, record, evidence, todo, live, world, mishaps>>

\* classifyCrashAmbiguity(): durable evidence only.
Decision(proof) ==
  CASE proof = "messageId" -> "delivered"
    [] proof = "error"     -> "failed"
    [] OTHER               -> "abandoned"

\* A bug to compare with: the job is completed first, the outcome stored after.
OutcomeLater(s) ==
  /\ mode = "deciding" /\ claimed = {s}
  /\ job' = [job EXCEPT ![s] = "succeeded"]
  /\ mode' = "finishing"
  /\ UNCHANGED <<strict, record, evidence, attempts, todo, claimed, live, world, mishaps>>

\* A delivery another path has resolved is left alone.
Decide(s) ==
  /\ mode = "deciding" /\ claimed = {s}
  /\ IF record[s] = "unknownAfterCrash"
       THEN Transition(s, "unknownAfterCrash", Decision(evidence[s]), evidence[s])
       ELSE UNCHANGED <<record, evidence>>
  /\ mode' = "finishing"
  /\ UNCHANGED <<strict, job, attempts, todo, claimed, live, world, mishaps>>

LetGo(status) ==
  /\ \E s \in claimed : job' = [job EXCEPT ![s] = status]
  /\ mode' = "draining" /\ claimed' = {}
  /\ UNCHANGED <<strict, record, evidence, attempts, todo, live, world>>

Holds(s) == claimed = {s} /\ job[s] = "leased"

\* succeed(), fenced by the lease.
Finish(s) ==
  mode = "finishing" /\ Holds(s) /\ LetGo("succeeded") /\ UNCHANGED mishaps

\* Whatever throws between claim and succeed, the retry below answers it: a
\* rolled back transaction, or a lease that ran out.
ResolutionFails ==
  /\ \/ mode \in {"deciding", "finishing"} /\ Fails
     \/ mode = "finishing" /\ (\E s \in claimed : job[s] # "leased") /\ UNCHANGED mishaps
  /\ mode' = "retrying"
  /\ UNCHANGED <<durable, todo, claimed, live, world>>

\* retry(): dead letter after the last attempt, else ready again, at once or after a delay.
Retry(s) ==
  /\ mode = "retrying" /\ Holds(s)
  /\ IF attempts[s] >= MaxAttempts
       THEN LetGo("deadLetter")
       ELSE \E status \in {"ready", "later"} : LetGo(status)
  /\ UNCHANGED mishaps

\* retry() throws as well: the lease was stale or the transaction was rolled back.
RetryFails ==
  /\ mode = "retrying"
  /\ \E s \in claimed : LetGo(job[s])
  /\ Fails \/ ((\E s \in claimed : ~Holds(s)) /\ UNCHANGED mishaps)

\* No job is due.  A starting bot goes on to serve, an operator's command ends.
Drained ==
  /\ mode = "draining" /\ Claimable = {}
  /\ mode' \in {"serving", "down"}
  /\ UNCHANGED <<durable, todo, claimed, live, world, mishaps>>

\* A transaction outside resolveJob fails: the store is closed and the start refused.
PassFails ==
  /\ mode \in {"classifying", "enqueueing", "draining"} /\ Fails
  /\ mode' = "down" /\ todo' = {}
  /\ UNCHANGED <<durable, claimed, live, world>>

\* The clock: a lease runs out, a retry comes due.
TimePasses(s) ==
  /\ job[s] \in {"leased", "later"}
  /\ job' = [job EXCEPT ![s] = IF @ = "leased" THEN "expired" ELSE "ready"]
  /\ IF s \in claimed THEN Mishap ELSE UNCHANGED mishaps
  /\ UNCHANGED <<strict, record, evidence, attempts, pass, live, world>>

\* The process dies, or is stopped: what was in memory is gone.
Crash ==
  /\ mode # "down" /\ mode' = "down"
  /\ IF Serving THEN UNCHANGED mishaps ELSE Mishap
  /\ todo' = {} /\ claimed' = {}
  /\ step' = [t \in Turns |-> IF step[t] = "new" THEN "new" ELSE "over"]
  /\ at' = [t \in Turns |-> 1] /\ traced' = {} /\ ours' = {}
  /\ UNCHANGED <<durable, world>>

Live(t) ==
  \/ Begin(t) \/ RecordSegment(t) \/ Recorded(t) \/ RecordingFails(t)
  \/ Announce(t) \/ AnnounceFails(t)
  \/ PlatformAccepts(t) \/ SendResolves(t) \/ SendRejects(t)
  \/ StoreReceipt(t) \/ StoreReceiptFails(t)
  \/ FailSegment(t) \/ FailSegmentFails(t) \/ GivenUp(t)

Pass ==
  \/ Start \/ Classified \/ Enqueued \/ Drained
  \/ ResolutionFails \/ RetryFails \/ PassFails
  \/ \E s \in Segments :
       Classify(s) \/ Enqueue(s) \/ Claim(s) \/ Decide(s) \/ Finish(s) \/ Retry(s)

Next ==
  \/ \E t \in Turns : Live(t)
  \/ Pass
  \/ \E s \in Segments : TimePasses(s)
  \/ Crash

Spec == Init /\ [][Next]_vars

(***************************************************************************)
(* A pass that has begun goes on, a process that is down is started again, *)
(* and the clock runs.                                                     *)
(***************************************************************************)
Fairness == WF_vars(Pass) /\ \A s \in Segments : WF_vars(TimePasses(s))

FairSpec == Spec /\ Fairness

-----------------------------------------------------------------------------
Modes == {"down", "classifying", "enqueueing", "draining", "deciding", "finishing", "retrying",
          "serving"}

\* Every variable has its type; a job is held only inside a resolution, and
\* evidence says what the record says.
TypeOK ==
  /\ strict \in BOOLEAN
  /\ record \in [Segments -> States \cup {"none"}]
  /\ evidence \in [Segments -> {"none", "messageId", "error"}]
  /\ job \in [Segments -> {"none", "ready", "later", "leased", "expired", "succeeded", "deadLetter"}]
  /\ attempts \in [Segments -> 0..MaxAttempts]
  /\ mode \in Modes /\ todo \in SUBSET Segments
  /\ claimed \in SUBSET Segments
  /\ claimed # {} <=> mode \in {"deciding", "finishing", "retrying"}
  /\ step \in [Turns -> {"new", "recording", "announcing", "sending", "answered", "failing", "over"}]
  /\ at \in [Turns -> Nat] /\ \A t \in Turns : at[t] \in 1..(Chunks[t] + 1)
  /\ traced \in SUBSET Turns /\ ours \in SUBSET Turns
  /\ accepted \in SUBSET Segments /\ answered \in SUBSET accepted
  /\ mishaps \in 0..MaxMishaps

(***************************************************************************)
(* Success is never fabricated: what the store calls delivered, and so     *)
(* lets into a later prompt, the platform accepted, however often the      *)
(* process died on the way and whatever the passes decided.                *)
(***************************************************************************)
DeliveredWasAccepted ==
  \A s \in Segments : record[s] = "delivered" => s \in accepted

(***************************************************************************)
(* A send that was answered with a message id is never recorded as failed, *)
(* although the receipt may not be storable and the handler's catch block  *)
(* runs failed() over the turn.                                            *)
(***************************************************************************)
AnsweredIsNotFailed ==
  \A s \in answered : record[s] # "failed"

(***************************************************************************)
(* Once the pass has got beyond its enqueue loop, an ambiguous delivery    *)
(* has a job that will be claimed or that an operator can see: none is     *)
(* unknown with its job completed or missing.                              *)
(***************************************************************************)
UnknownHasJob ==
  mode \in {"draining", "deciding", "finishing", "retrying", "serving"} =>
    \A s \in In({"unknownAfterCrash"}) : job[s] \notin {"none", "succeeded"}

(***************************************************************************)
(* Outcomes are final: what is delivered, failed or abandoned stays so,    *)
(* with its evidence, through every later crash, pass and repeated claim.  *)
(***************************************************************************)
OutcomesAreFinal ==
  [][\A s \in Segments :
       record[s] \in {"delivered", "failed", "abandoned"} =>
         record'[s] = record[s] /\ evidence'[s] = evidence[s]]_vars

(***************************************************************************)
(* If passes are run again and again, every ambiguous delivery is resolved *)
(* or handed to the operator as a dead letter.                             *)
(***************************************************************************)
AmbiguityIsResolved ==
  \A s \in Segments :
    []<>(mode = "down") =>
      (record[s] = "unknownAfterCrash" ~> (record[s] = "abandoned" \/ job[s] = "deadLetter"))
=============================================================================
