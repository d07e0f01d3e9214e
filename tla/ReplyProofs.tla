---------------------------- MODULE ReplyProofs ----------------------------
(***************************************************************************)
(* Proofs about the text replies.  First their deliveries, for every       *)
(* number of turns and of segments, and for any number of crashes, failed  *)
(* transactions and lapsed leases.  Then how they are made: the limiter in *)
(* front of the provider, for every set of requests, budget, window and    *)
(* cooldown, and the responder on top of it, for every number of mentions  *)
(* and rooms.  The two halves share no state.                              *)
(***************************************************************************)
EXTENDS Delivery, MentionResponder, SequenceTheorems, FiniteSetTheorems, TLAPS

-----------------------------------------------------------------------------
(* The inductive invariant.                                                *)

\* The live path runs only in a process that serves; a segment that is being
\* sent exists; and an answer the live path holds is one.
Placed(t) ==
  /\ mode # "serving" => step[t] \in {"new", "over"}
  /\ step[t] \in {"announcing", "sending", "answered"} => at[t] <= Chunks[t]
  /\ step[t] = "answered" => <<t, at[t]>> \in answered

\* What generated() has not come to yet has no record.
Fresh(t, k) ==
  step[t] = "new" \/ (step[t] = "recording" /\ k >= at[t]) => record[<<t, k>>] = "none"

\* Nothing is answered out of turn.
Unsent(t, k) ==
  \/ step[t] \in {"new", "recording"}
  \/ step[t] \in {"announcing", "sending"} /\ k >= at[t]
  \/ step[t] = "answered" /\ k > at[t]
  => <<t, k>> \notin answered

\* As long as the adapter knows the turn, every receipt so far is stored; so
\* failed() finds only deliveries that were never answered.
Receipts(t, k) ==
  /\ t \in traced /\ step[t] \in {"announcing", "sending", "answered"} /\ k < at[t]
       => record[<<t, k>>] = "delivered"
  /\ step[t] = "failing" /\ <<t, k>> \in answered => record[<<t, k>>] = "delivered"
  /\ step[t] \notin {"failing", "over"} => record[<<t, k>>] # "failed"

TurnOK(t) ==
  Placed(t) /\ \A k \in 1..Chunks[t] : Fresh(t, k) /\ Unsent(t, k) /\ Receipts(t, k)

\* Evidence is written together with the outcome it proves.
Evidence ==
  \A s \in Segments :
    /\ evidence[s] = "messageId" => record[s] = "delivered"
    /\ evidence[s] = "error" => record[s] = "failed"

\* The outcomes: what is delivered was answered, what was answered has not failed.
Outcomes ==
  /\ \A s \in Segments : record[s] = "delivered" => s \in answered
  /\ AnsweredIsNotFailed

\* A job exists for a delivery that was ambiguous once; it is completed when
\* the delivery is ambiguous no more; the enqueue loop visits what lacks one; and
\* one job is claimed at a time.
Jobs ==
  /\ \A s \in Segments :
       /\ job[s] # "none" => record[s] \in {"unknownAfterCrash", "delivered", "failed", "abandoned"}
       /\ job[s] = "succeeded" => record[s] # "unknownAfterCrash"
       /\ mode = "finishing" /\ s \in claimed => record[s] # "unknownAfterCrash"
       /\ record[s] = "unknownAfterCrash" /\ job[s] = "none" /\ mode \notin {"down", "classifying"}
            => mode = "enqueueing" /\ s \in todo
  /\ todo \subseteq In({"unknownAfterCrash"})
  /\ todo # {} => mode = "enqueueing"
  /\ \A c, d \in claimed : c = d

LiveOK == \A t \in Turns : TurnOK(t)

IInv == TypeOK /\ LiveOK /\ Evidence /\ Outcomes /\ Jobs

-----------------------------------------------------------------------------
(* Segments and places.                                                    *)

\* A segment is a turn and a number up to the number of its chunks.
LEMMA SegmentFacts ==
  /\ \A t \in Turns : \A k \in 1..Chunks[t] : <<t, k>> \in Segments
  /\ \A s \in Segments : \E t \in Turns : \E k \in 1..Chunks[t] : s = <<t, k>>
BY DEF Segments

\* The number of chunks is a positive natural number.
LEMMA ChunkFacts == \A t \in Turns : Chunks[t] \in Nat /\ Chunks[t] >= 1
BY DeliveryAssumption

-----------------------------------------------------------------------------
(* Type correctness.                                                       *)

Places == {"new", "recording", "announcing", "sending", "answered", "failing", "over"}

\* The variables of the live path, and the records with their evidence.
PathOK ==
  /\ step \in [Turns -> Places]
  /\ at \in [Turns -> Nat] /\ \A t \in Turns : at[t] \in 1..(Chunks[t] + 1)
RecordsOK ==
  /\ record \in [Segments -> States \cup {"none"}]
  /\ evidence \in [Segments -> {"none", "messageId", "error"}]

\* A turn may go to any place, with the number of one of its segments or the next.
LEMMA GoToKeepsTypes ==
  ASSUME TypeOK, NEW t \in Turns, NEW place \in Places, NEW k \in 1..(Chunks[t] + 1), GoTo(t, place, k)
  PROVE  PathOK'
BY ChunkFacts DEF TypeOK, PathOK, GoTo, Places

\* A legal transition leads to a state of the table.
LEMMA TransitionKeepsTypes ==
  ASSUME TypeOK, NEW s \in Segments, NEW from, NEW to,
         NEW proof \in {"none", "messageId", "error"}, Transition(s, from, to, proof)
  PROVE  RecordsOK'
<1>1. to \in States
  BY DEF Transition, LegalTransitions, States
<1> QED BY <1>1 DEF TypeOK, RecordsOK, Transition

\* A step of the live path changes the path, the records and the two sets of turns.
LEMMA LiveFrame ==
  ASSUME TypeOK, PathOK', RecordsOK', traced' \in SUBSET Turns, ours' \in SUBSET Turns,
         accepted' \in SUBSET Segments, answered' \in SUBSET accepted', mishaps' \in 0..MaxMishaps,
         UNCHANGED <<strict, job, attempts, pass>>
  PROVE  TypeOK'
BY DEF TypeOK, PathOK, RecordsOK, Places, pass

LEMMA LiveKeepsTypes ==
  ASSUME TypeOK, LiveOK, NEW t \in Turns, Live(t)
  PROVE  TypeOK'
<1> USE ChunkFacts DEF Serving, Here, Places
<1>a. /\ traced \in SUBSET Turns /\ ours \in SUBSET Turns /\ accepted \in SUBSET Segments
      /\ answered \in SUBSET accepted /\ mishaps \in 0..MaxMishaps /\ MaxMishaps \in Nat
      /\ Chunks[t] \in Nat /\ Chunks[t] >= 1 /\ at[t] \in 1..(Chunks[t] + 1) /\ step[t] \in Places
  BY DeliveryAssumption DEF TypeOK
<1>b. at[t] <= Chunks[t] => Here(t) \in Segments
  BY <1>a, SegmentFacts
<1>c. UNCHANGED <<record, evidence>> => RecordsOK'
  BY DEF TypeOK, RecordsOK
<1>d. UNCHANGED <<step, at>> => PathOK'
  BY DEF TypeOK, PathOK
<1>e. step[t] \in {"announcing", "sending", "answered"} => at[t] <= Chunks[t]
  BY DEF LiveOK, TurnOK, Placed
<1>f. \A place \in Places : \A k \in 1..(Chunks[t] + 1) : GoTo(t, place, k) => PathOK'
  BY GoToKeepsTypes
<1>g. at[t] <= Chunks[t] => at[t] + 1 \in 1..(Chunks[t] + 1)
  BY <1>a
<1>h. ASSUME NEW place \in Places, NEW k \in 1..(Chunks[t] + 1), LostWrite(t, place, k)
      PROVE  TypeOK'
  <2>1. PathOK'
    BY <1>a, <1>f, <1>h DEF LostWrite
  <2>2. mishaps' \in 0..MaxMishaps /\ traced' \in SUBSET Turns
    BY <1>a, <1>h DEF LostWrite, Fails, Mishap, Forget
  <2> QED BY <1>a, <1>c, <1>h, <2>1, <2>2, LiveFrame DEF LostWrite, durable, pass, world
<1>i. ASSUME NEW written, FailOne(t, written), mishaps' \in 0..MaxMishaps
      PROVE  TypeOK'
  <2>1. PathOK'
    BY <1>a, <1>f, <1>g, <1>i DEF FailOne
  <2>2. RecordsOK'
    BY <1>b, <1>c, <1>i, TransitionKeepsTypes DEF FailOne
  <2> QED BY <1>a, <1>i, <2>1, <2>2, LiveFrame DEF FailOne, world
<1>j. ASSUME NextSegment(t)
      PROVE  PathOK'
  BY <1>a, <1>f, <1>g, <1>j DEF NextSegment
<1>1. CASE Begin(t)
  BY <1>a, <1>c, <1>f, <1>1, LiveFrame DEF Begin, durable, world
<1>2. CASE RecordSegment(t)
  <2>1. RecordsOK'
    BY <1>2 DEF RecordSegment, RecordsOK, TypeOK, States
  <2> QED BY <1>a, <1>f, <1>g, <1>2, <2>1, LiveFrame DEF RecordSegment, world
<1>3. CASE Recorded(t)
  BY <1>a, <1>c, <1>f, <1>3, LiveFrame DEF Recorded, durable, world
<1>4. CASE RecordingFails(t)
  BY <1>a, <1>h, <1>4 DEF RecordingFails
<1>5. CASE Announce(t)
  <2>1. RecordsOK'
    BY <1>b, <1>c, <1>e, <1>5, TransitionKeepsTypes DEF Announce
  <2> QED BY <1>a, <1>f, <1>5, <2>1, LiveFrame DEF Announce, world
<1>6. CASE AnnounceFails(t)
  BY <1>a, <1>h, <1>6 DEF AnnounceFails
<1>7. CASE PlatformAccepts(t)
  BY <1>a, <1>b, <1>c, <1>d, <1>e, <1>7, LiveFrame DEF PlatformAccepts, durable, live
<1>8. CASE SendResolves(t)
  BY <1>a, <1>c, <1>f, <1>8, LiveFrame DEF SendResolves, durable
<1>9. CASE SendRejects(t)
  <2>1. PathOK'
    BY <1>a, <1>f, <1>9 DEF SendRejects
  <2> QED BY <1>a, <1>c, <1>9, <2>1, LiveFrame DEF SendRejects, durable, world
<1>10. CASE StoreReceipt(t)
  <2>1. RecordsOK'
    BY <1>b, <1>c, <1>e, <1>10, TransitionKeepsTypes DEF StoreReceipt
  <2>2. traced' \in SUBSET Turns
    BY <1>a, <1>10 DEF StoreReceipt, Forget
  <2> QED BY <1>a, <1>j, <1>10, <2>1, <2>2, LiveFrame DEF StoreReceipt, world
<1>11. CASE StoreReceiptFails(t)
  <2>1. PathOK'
    BY <1>a, <1>f, <1>j, <1>11 DEF StoreReceiptFails
  <2>2. traced' \in SUBSET Turns /\ mishaps' \in 0..MaxMishaps
    BY <1>a, <1>11 DEF StoreReceiptFails, Forget, Fails, Mishap
  <2> QED BY <1>a, <1>c, <1>11, <2>1, <2>2, LiveFrame DEF StoreReceiptFails, durable, world
<1>12. CASE FailSegment(t)
  BY <1>a, <1>i, <1>12 DEF FailSegment
<1>13. CASE FailSegmentFails(t)
  <2>1. mishaps' \in 0..MaxMishaps
    BY <1>a, <1>13 DEF FailSegmentFails, Fails, Mishap
  <2> QED BY <1>i, <1>13, <2>1 DEF FailSegmentFails
<1>14. CASE GivenUp(t)
  BY <1>a, <1>c, <1>f, <1>14, LiveFrame DEF GivenUp, Forget, durable, world
<1> QED BY <1>1, <1>2, <1>3, <1>4, <1>5, <1>6, <1>7, <1>8, <1>9, <1>10, <1>11, <1>12, <1>13, <1>14
        DEF Live

\* A step of the pass or of the clock; most of them concern one segment.
PassStep(s) ==
  \/ Start \/ Classified \/ Enqueued \/ Drained
  \/ ResolutionFails \/ RetryFails \/ PassFails
  \/ /\ s \in Segments
     /\ Classify(s) \/ Enqueue(s) \/ Claim(s) \/ Decide(s) \/ Finish(s) \/ Retry(s) \/ TimePasses(s)

\* The pass and the clock change the jobs, the mode and what it works on.
LEMMA PassKeepsTypes ==
  ASSUME TypeOK, NEW s, PassStep(s)
  PROVE  TypeOK'
<1> USE DeliveryAssumption DEF Modes
<1>a. ASSUME UNCHANGED <<durable, live, world>>, mode' \in Modes, todo' \in SUBSET Segments,
             claimed' \in SUBSET Segments, mishaps' \in 0..MaxMishaps,
             claimed' # {} <=> mode' \in {"deciding", "finishing", "retrying"}
      PROVE  TypeOK'
  BY <1>a DEF TypeOK, durable, live, world
<1>b. /\ mishaps \in 0..MaxMishaps /\ todo \in SUBSET Segments /\ claimed \in SUBSET Segments
      /\ claimed # {} <=> mode \in {"deciding", "finishing", "retrying"}
  BY DEF TypeOK
<1>c. Mishap => mishaps' \in 0..MaxMishaps
  BY <1>b DEF Mishap
<1>d. \A status \in {"ready", "later", "leased", "expired", "succeeded", "deadLetter"} :
        LetGo(status) /\ mishaps' \in 0..MaxMishaps => TypeOK'
  BY DEF LetGo, TypeOK, live, world
<1>1. CASE Start
  BY <1>1, <1>a, <1>b DEF Start
<1>2. CASE Classified
  BY <1>2, <1>a, <1>b DEF Classified, In
<1>3. CASE Enqueued
  BY <1>3, <1>a, <1>b DEF Enqueued
<1>4. CASE Drained
  BY <1>4, <1>a, <1>b DEF Drained
<1>5. CASE ResolutionFails
  BY <1>5, <1>a, <1>b, <1>c DEF ResolutionFails, Fails
<1>6. CASE RetryFails
  <2>1. mishaps' \in 0..MaxMishaps
    BY <1>6, <1>b, <1>c DEF RetryFails, Fails
  <2>2. PICK c \in claimed : LetGo(job[c])
    BY <1>6 DEF RetryFails
  <2>3. /\ \E d \in claimed : job' = [job EXCEPT ![d] = job[c]]
        /\ mode' = "draining" /\ claimed' = {}
        /\ UNCHANGED <<strict, record, evidence, attempts, todo, live, world>>
    BY <2>2 DEF LetGo
  <2> QED BY <1>b, <2>1, <2>3 DEF TypeOK, live, world
<1>7. CASE PassFails
  BY <1>7, <1>a, <1>b, <1>c DEF PassFails, Fails
<1>8. CASE s \in Segments /\ Classify(s)
  BY <1>8, TransitionKeepsTypes DEF Classify, TypeOK, RecordsOK, pass, live, world
<1>9. CASE s \in Segments /\ Enqueue(s)
  BY <1>9 DEF Enqueue, TypeOK, live, world
<1>10. CASE s \in Segments /\ Claim(s)
  <2>1. attempts' \in [Segments -> 0..MaxAttempts]
    BY <1>10 DEF Claim, TypeOK
  <2> QED BY <1>10, <2>1 DEF Claim, TypeOK, live, world
<1>11. CASE s \in Segments /\ Decide(s)
  <2>1. RecordsOK'
    BY <1>11, TransitionKeepsTypes DEF Decide, RecordsOK, TypeOK
  <2> QED BY <1>11, <2>1 DEF Decide, TypeOK, RecordsOK, live, world
<1>12. CASE s \in Segments /\ Finish(s)
  BY <1>12, <1>b, <1>d DEF Finish
<1>13. CASE s \in Segments /\ Retry(s)
  BY <1>13, <1>b, <1>d DEF Retry
<1>14. CASE s \in Segments /\ TimePasses(s)
  <2>1. job' \in [Segments -> {"none", "ready", "later", "leased", "expired", "succeeded", "deadLetter"}]
    BY <1>14 DEF TimePasses, TypeOK
  <2>2. mishaps' \in 0..MaxMishaps
    BY <1>14, <1>b, <1>c DEF TimePasses
  <2> QED BY <1>14, <2>1, <2>2 DEF TimePasses, TypeOK, pass, live, world
<1> QED BY <1>1, <1>2, <1>3, <1>4, <1>5, <1>6, <1>7, <1>8, <1>9, <1>10, <1>11, <1>12, <1>13, <1>14
        DEF PassStep

\* After a crash every turn that was begun is over.
LEMMA CrashKeepsTypes == TypeOK /\ Crash => TypeOK'
<1> SUFFICES ASSUME TypeOK, Crash PROVE TypeOK'
  OBVIOUS
<1>1. mishaps' \in 0..MaxMishaps
  BY DeliveryAssumption DEF Crash, Mishap, TypeOK
<1>2. PathOK'
  BY ChunkFacts DEF Crash, TypeOK, PathOK, Places
<1> QED BY <1>1, <1>2 DEF Crash, TypeOK, PathOK, Places, Modes, durable, world

-----------------------------------------------------------------------------
(* The live path: one turn at a time.                                      *)

LEMMA GoToMoves ==
  ASSUME TypeOK, NEW t \in Turns, NEW place, NEW k, GoTo(t, place, k)
  PROVE  /\ step'[t] = place /\ at'[t] = k
         /\ \A u \in Turns : u # t => step'[u] = step[u] /\ at'[u] = at[u]
BY DEF GoTo, TypeOK

LEMMA TransitionMoves ==
  ASSUME TypeOK, NEW s \in Segments, NEW from, NEW to, NEW proof, Transition(s, from, to, proof)
  PROVE  /\ record[s] = from /\ <<from, to>> \in LegalTransitions /\ record'[s] = to /\ evidence'[s] = proof
         /\ \A r \in Segments : r # s => record'[r] = record[r] /\ evidence'[r] = evidence[r]
BY DEF Transition, TypeOK

\* What one step of the live path may do, seen from its own turn: where it was,
\* where it goes, what becomes of the record of its segment, and of its trace.
Effect(t) ==
  LET s == Here(t) IN
  \/ /\ step[t] = "new" /\ step'[t] = "recording" /\ at'[t] = 1
     /\ UNCHANGED <<record, evidence, answered>>
  \/ /\ step[t] = "recording" /\ at[t] <= Chunks[t] /\ step'[t] = "recording" /\ at'[t] = at[t] + 1
     /\ record'[s] = "pending" /\ UNCHANGED <<evidence, answered>>
  \/ /\ step[t] = "recording" /\ step'[t] \in {"announcing", "over"} /\ at'[t] = 1
     /\ UNCHANGED <<record, evidence, answered>>
  \/ /\ step[t] = "announcing" /\ step'[t] = "sending" /\ at'[t] = at[t]
     /\ record[s] = "pending" /\ record'[s] = "delivering" /\ evidence'[s] = "none" /\ UNCHANGED answered
  \/ /\ step[t] \in {"announcing", "sending"} /\ step'[t] = "sending" /\ at'[t] = at[t]
     /\ UNCHANGED <<record, evidence, answered>>
  \/ /\ step[t] \in {"announcing", "sending", "answered"} /\ step'[t] = "over" /\ at'[t] = 1
     /\ UNCHANGED <<record, evidence, answered>>
  \/ /\ step[t] = "sending" /\ step'[t] = "answered" /\ at'[t] = at[t]
     /\ answered' = answered \cup {s} /\ UNCHANGED <<record, evidence>>
  \/ /\ step[t] = "sending" /\ t \in traced /\ step'[t] = "failing" /\ at'[t] = 1
     /\ UNCHANGED <<record, evidence, answered>>
  \/ /\ step[t] = "answered" /\ t \in traced
     /\ record[s] = "delivering" /\ record'[s] = "delivered" /\ evidence'[s] = "messageId"
     /\ UNCHANGED answered
     /\ step'[t] = "over" \/ (step'[t] = "announcing" /\ at'[t] = at[t] + 1 /\ at'[t] <= Chunks[t])
  \/ /\ step[t] = "answered" /\ t \notin traced' /\ UNCHANGED <<record, evidence, answered>>
     /\ step'[t] = "over" \/ (step'[t] = "announcing" /\ at'[t] = at[t] + 1 /\ at'[t] <= Chunks[t])
  \/ /\ step[t] = "failing" /\ at[t] <= Chunks[t] /\ step'[t] = "failing" /\ at'[t] = at[t] + 1
     /\ record[s] \in {"pending", "delivering", "unknownAfterCrash"} /\ record'[s] = "failed"
     /\ evidence'[s] = "error" /\ UNCHANGED answered
  \/ /\ step[t] = "failing" /\ step'[t] \in {"failing", "over"} /\ UNCHANGED <<record, evidence, answered>>

\* What a step of the live path leaves alone: the other turns, the other
\* segments, the jobs and the pass; a trace is made only when the turn begins.
Elsewhere(t) ==
  /\ mode = "serving" /\ UNCHANGED <<job, mode, todo, claimed>>
  /\ \A u \in Turns : u # t => step'[u] = step[u] /\ at'[u] = at[u] /\ (u \in traced' => u \in traced)
  /\ t \in traced' => t \in traced \/ step[t] = "new"
  /\ \A s \in Segments : s # Here(t) =>
       record'[s] = record[s] /\ evidence'[s] = evidence[s] /\ (s \in answered' => s \in answered)
  /\ answered \subseteq answered'

LEMMA LiveEffect ==
  ASSUME TypeOK, LiveOK, NEW t \in Turns, Live(t)
  PROVE  Effect(t) /\ Elsewhere(t)
<1> USE ChunkFacts DEF Serving
<1>b. at[t] <= Chunks[t] => Here(t) \in Segments
  BY SegmentFacts DEF TypeOK, Here
<1>e. step[t] \in {"announcing", "sending", "answered"} => at[t] <= Chunks[t]
  BY DEF LiveOK, TurnOK, Placed
<1>f. \A place, k : GoTo(t, place, k) =>
        /\ step'[t] = place /\ at'[t] = k
        /\ \A u \in Turns : u # t => step'[u] = step[u] /\ at'[u] = at[u]
  BY GoToMoves
<1>1. CASE Begin(t)
  BY <1>1, <1>f DEF Begin, durable, pass, world, Effect, Elsewhere
<1>2. CASE RecordSegment(t)
  <2>1. record' = [record EXCEPT ![Here(t)] = "pending"] /\ Here(t) \in Segments
    BY <1>2, <1>b DEF RecordSegment
  <2>2. record'[Here(t)] = "pending" /\ \A s \in Segments : s # Here(t) => record'[s] = record[s]
    BY <2>1 DEF TypeOK
  <2> QED BY <1>2, <1>f, <2>2 DEF RecordSegment, pass, world, Effect, Elsewhere
<1>3. CASE Recorded(t)
  BY <1>3, <1>f DEF Recorded, durable, pass, world, Effect, Elsewhere
<1>4. CASE RecordingFails(t)
  BY <1>4, <1>f DEF RecordingFails, LostWrite, Forget, durable, pass, world, Effect, Elsewhere
<1>5. CASE Announce(t)
  <2>1. CASE t \in traced
    <3>1. Transition(Here(t), "pending", "delivering", "none") /\ Here(t) \in Segments
      BY <1>5, <2>1, <1>b, <1>e DEF Announce
    <3>2. /\ record[Here(t)] = "pending" /\ record'[Here(t)] = "delivering" /\ evidence'[Here(t)] = "none"
          /\ \A r \in Segments : r # Here(t) => record'[r] = record[r] /\ evidence'[r] = evidence[r]
      BY <3>1, TransitionMoves
    <3> QED BY <1>5, <1>f, <3>2 DEF Announce, pass, world, Effect, Elsewhere
  <2>2. CASE t \notin traced
    BY <1>5, <1>f, <2>2 DEF Announce, pass, world, Effect, Elsewhere
  <2> QED BY <2>1, <2>2
<1>6. CASE AnnounceFails(t)
  BY <1>6, <1>f DEF AnnounceFails, LostWrite, Forget, durable, pass, world, Effect, Elsewhere
<1>7. CASE PlatformAccepts(t)
  BY <1>7 DEF PlatformAccepts, durable, pass, live, Effect, Elsewhere
<1>8. CASE SendResolves(t)
  BY <1>8, <1>f DEF SendResolves, durable, pass, Effect, Elsewhere
<1>9. CASE SendRejects(t)
  BY <1>9, <1>f DEF SendRejects, durable, pass, world, Effect, Elsewhere
<1>j. NextSegment(t) =>
        /\ step'[t] = "over" \/ (step'[t] = "announcing" /\ at'[t] = at[t] + 1 /\ at'[t] <= Chunks[t])
        /\ \A u \in Turns : u # t => step'[u] = step[u] /\ at'[u] = at[u]
  <2>1. at[t] \in Nat /\ Chunks[t] \in Nat
    BY DEF TypeOK
  <2> QED BY <1>f, <2>1 DEF NextSegment
<1>10. CASE StoreReceipt(t)
  <2>1. CASE t \in traced
    <3>1. Transition(Here(t), "delivering", "delivered", "messageId") /\ Here(t) \in Segments
      BY <1>10, <2>1, <1>b, <1>e DEF StoreReceipt
    <3>2. /\ record[Here(t)] = "delivering" /\ record'[Here(t)] = "delivered" /\ evidence'[Here(t)] = "messageId"
          /\ \A r \in Segments : r # Here(t) => record'[r] = record[r] /\ evidence'[r] = evidence[r]
      BY <3>1, TransitionMoves
    <3> QED BY <1>10, <1>j, <2>1, <3>2 DEF StoreReceipt, Forget, pass, world, Effect, Elsewhere
  <2>2. CASE t \notin traced
    BY <1>10, <1>j, <2>2 DEF StoreReceipt, Forget, pass, world, Effect, Elsewhere
  <2> QED BY <2>1, <2>2
<1>11. CASE StoreReceiptFails(t)
  <2>1. t \notin traced'
    BY <1>11 DEF StoreReceiptFails, Forget
  <2> QED BY <1>11, <1>f, <1>j, <2>1 DEF StoreReceiptFails, Forget, durable, pass, world, Effect, Elsewhere
<1>i. ASSUME NEW written, FailOne(t, written)
      PROVE  Effect(t) /\ Elsewhere(t)
  <2>1. CASE written /\ record[Here(t)] # "delivered"
    <3>1. Transition(Here(t), record[Here(t)], "failed", "error") /\ Here(t) \in Segments
      BY <1>i, <2>1, <1>b DEF FailOne
    <3>2. /\ <<record[Here(t)], "failed">> \in LegalTransitions
          /\ record'[Here(t)] = "failed" /\ evidence'[Here(t)] = "error"
          /\ \A r \in Segments : r # Here(t) => record'[r] = record[r] /\ evidence'[r] = evidence[r]
      BY <3>1, TransitionMoves
    <3>3. record[Here(t)] \in {"pending", "delivering", "unknownAfterCrash"}
      BY <3>2 DEF LegalTransitions
    <3> QED BY <1>i, <1>f, <3>2, <3>3 DEF FailOne, pass, world, Effect, Elsewhere
  <2>2. CASE ~(written /\ record[Here(t)] # "delivered")
    BY <1>i, <1>f, <2>2 DEF FailOne, pass, world, Effect, Elsewhere
  <2> QED BY <2>1, <2>2
<1>12. CASE FailSegment(t)
  BY <1>12, <1>i DEF FailSegment
<1>13. CASE FailSegmentFails(t)
  BY <1>13, <1>i DEF FailSegmentFails
<1>14. CASE GivenUp(t)
  BY <1>14, <1>f DEF GivenUp, Forget, durable, pass, world, Effect, Elsewhere
<1> QED BY <1>1, <1>2, <1>3, <1>4, <1>5, <1>6, <1>7, <1>8, <1>9, <1>10, <1>11, <1>12, <1>13, <1>14
        DEF Live

\* The turn that moves keeps its invariant, and so does every other one.
LEMMA LiveKeepsTurns ==
  ASSUME TypeOK, LiveOK, NEW t \in Turns, Live(t)
  PROVE  LiveOK'
<1> SUFFICES ASSUME NEW u \in Turns PROVE TurnOK(u)'
  BY DEF LiveOK
<1>a. TurnOK(t) /\ TurnOK(u) /\ Effect(t) /\ Elsewhere(t)
  BY LiveEffect DEF LiveOK
<1>b. Chunks[t] \in Nat /\ Chunks[u] \in Nat /\ at[t] \in Nat /\ at[t] >= 1
  BY ChunkFacts DEF TypeOK
<1>c. mode' = "serving"
  BY <1>a DEF Elsewhere
<1>1. CASE u = t
  <2> USE <1>a, <1>b, <1>c DEF Effect, Elsewhere, Here
  <2>1. Placed(t)'
    BY ChunkFacts DEF TurnOK, Placed
  <2>2. ASSUME NEW k \in 1..Chunks[t]
        PROVE  (Fresh(t, k) /\ Unsent(t, k) /\ Receipts(t, k))'
    <3>1. /\ k # at[t] => record'[<<t, k>>] = record[<<t, k>>] /\ (<<t, k>> \in answered' => <<t, k>> \in answered)
          /\ Fresh(t, k) /\ Unsent(t, k) /\ Receipts(t, k) /\ Placed(t)
      BY SegmentFacts DEF TurnOK
    <3>2. Fresh(t, k)'
      BY <3>1 DEF Fresh
    <3>3. Unsent(t, k)'
      BY <3>1 DEF Unsent, Placed
    <3>4. Receipts(t, k)'
      BY <3>1 DEF Receipts, Unsent, Placed, Fresh
    <3> QED BY <3>2, <3>3, <3>4
  <2> QED BY <1>1, <2>1, <2>2 DEF TurnOK
<1>2. CASE u # t
  <2>1. /\ step'[u] = step[u] /\ at'[u] = at[u] /\ (u \in traced' => u \in traced)
        /\ \A k \in 1..Chunks[u] : /\ record'[<<u, k>>] = record[<<u, k>>]
                                   /\ <<u, k>> \in answered' => <<u, k>> \in answered
        /\ answered \subseteq answered'
    BY <1>a, <1>2, SegmentFacts DEF Elsewhere, Here
  <2>2. Placed(u)'
    BY <1>a, <1>b, <1>c, <2>1 DEF TurnOK, Placed
  <2>3. \A k \in 1..Chunks[u] : (Fresh(u, k) /\ Unsent(u, k) /\ Receipts(u, k))'
    BY <1>a, <2>1 DEF TurnOK, Fresh, Unsent, Receipts
  <2> QED BY <2>2, <2>3 DEF TurnOK
<1> QED BY <1>1, <1>2

\* What a step of the live path may do to the record of a segment.
LEMMA LiveOnRecords ==
  ASSUME IInv, NEW t \in Turns, Live(t), NEW s \in Segments
  PROVE  \/ /\ UNCHANGED <<record[s], evidence[s]>>
            /\ s \in answered' => s \in answered \/ record[s] # "failed"
         \/ /\ \/ record[s] = "none" /\ record'[s] = "pending" /\ UNCHANGED evidence[s]
               \/ record[s] = "pending" /\ record'[s] = "delivering" /\ evidence'[s] = "none"
               \/ record[s] = "delivering" /\ record'[s] = "delivered" /\ evidence'[s] = "messageId" /\ s \in answered
               \/ /\ record[s] \in {"pending", "delivering", "unknownAfterCrash"}
                  /\ record'[s] = "failed" /\ evidence'[s] = "error" /\ s \notin answered
            /\ s \in answered' => s \in answered
<1>a. TurnOK(t) /\ Effect(t) /\ Elsewhere(t)
  BY LiveEffect DEF IInv, LiveOK
<1>1. CASE s # Here(t)
  BY <1>a, <1>1 DEF Elsewhere
<1>2. CASE s = Here(t)
  <2>1. PICK u \in Turns : \E k \in 1..Chunks[u] : s = <<u, k>>
    BY SegmentFacts
  <2>2. u = t /\ at[t] \in 1..Chunks[t]
    BY <1>2, <2>1 DEF Here
  <2>3. Fresh(t, at[t]) /\ Unsent(t, at[t]) /\ Receipts(t, at[t]) /\ Placed(t)
    BY <1>a, <2>1, <2>2 DEF TurnOK
  <2>4. at[t] >= at[t]
    BY <2>1, <2>2, ChunkFacts
  <2> QED BY <1>a, <1>2, <2>3, <2>4 DEF Effect, Here, Fresh, Unsent, Receipts, Placed
<1> QED BY <1>1, <1>2

LEMMA LiveKeepsTheRest ==
  ASSUME IInv, NEW t \in Turns, Live(t)
  PROVE  Evidence' /\ Outcomes' /\ Jobs'
<1>a. Elsewhere(t)
  BY LiveEffect DEF IInv
<1>1. Evidence'
  BY LiveOnRecords DEF IInv, Evidence
<1>2. Outcomes'
  <2>1. answered \subseteq answered' /\ answered' \subseteq Segments
    BY <1>a, LiveKeepsTypes DEF IInv, Elsewhere, TypeOK
  <2>2. \A r \in Segments : record'[r] = "delivered" => r \in answered'
    BY <2>1, LiveOnRecords DEF IInv, Outcomes
  <2>3. \A r \in Segments : r \in answered' => record'[r] # "failed"
    BY LiveOnRecords DEF IInv, Outcomes, AnsweredIsNotFailed
  <2> QED BY <2>1, <2>2, <2>3 DEF Outcomes, AnsweredIsNotFailed
<1>3. Jobs'
  <2>1. todo = {} /\ todo' = {} /\ mode = "serving" /\ mode' = "serving" /\ job' = job /\ claimed' = claimed
    BY <1>a DEF IInv, Jobs, Elsewhere
  <2> QED BY <2>1, LiveOnRecords DEF IInv, Jobs
<1> QED BY <1>1, <1>2, <1>3

-----------------------------------------------------------------------------
(* The pass, the clock and the crash.                                      *)

\* Evidence decides: an ambiguous delivery has none, so it is abandoned.
LEMMA DecidedIsAbandoned ==
  ASSUME IInv, NEW s \in Segments, Decide(s), record[s] = "unknownAfterCrash"
  PROVE  record'[s] = "abandoned" /\ evidence'[s] = "none" /\ evidence[s] = "none"
         /\ \A r \in Segments : r # s => record'[r] = record[r] /\ evidence'[r] = evidence[r]
<1>1. evidence[s] = "none"
  BY DEF IInv, TypeOK, Evidence
<1>2. Transition(s, "unknownAfterCrash", Decision(evidence[s]), evidence[s])
  BY DEF Decide
<1>3. Decision(evidence[s]) = "abandoned"
  BY <1>1 DEF Decision
<1> QED BY <1>1, <1>2, <1>3, TransitionMoves DEF IInv

\* What the pass may do to a record: flag what is in flight, abandon what is flagged.
LEMMA PassOnRecords ==
  ASSUME IInv, NEW s, PassStep(s)
  PROVE  /\ UNCHANGED <<live, world>>
         /\ mode # "serving" \/ UNCHANGED <<mode, record, evidence>>
         /\ \/ UNCHANGED <<record, evidence>>
            \/ /\ s \in Segments
               /\ \/ mode = "classifying" /\ record[s] \in {"pending", "delivering"} /\ record'[s] = "unknownAfterCrash"
                  \/ mode = "deciding" /\ record[s] = "unknownAfterCrash" /\ record'[s] = "abandoned"
               /\ evidence'[s] = "none"
               /\ \A r \in Segments : r # s => record'[r] = record[r] /\ evidence'[r] = evidence[r]
<1>1. CASE s \in Segments /\ Classify(s)
  <2>1. Transition(s, record[s], "unknownAfterCrash", "none")
    BY <1>1 DEF Classify
  <2>2. /\ record'[s] = "unknownAfterCrash" /\ evidence'[s] = "none"
        /\ \A r \in Segments : r # s => record'[r] = record[r] /\ evidence'[r] = evidence[r]
    BY <1>1, <2>1, TransitionMoves DEF IInv
  <2> QED BY <1>1, <2>2 DEF Classify, InFlight, In
<1>2. CASE s \in Segments /\ Decide(s)
  BY <1>2, DecidedIsAbandoned DEF Decide
<1>3. CASE \/ Start \/ Classified \/ Enqueued \/ Drained \/ PassFails \/ ResolutionFails
  BY <1>3 DEF Start, Classified, Enqueued, Drained, ResolutionFails, PassFails, durable
<1>4. CASE RetryFails \/ (s \in Segments /\ (Retry(s) \/ Finish(s)))
  BY <1>4 DEF RetryFails, Retry, Finish, LetGo
<1>5. CASE s \in Segments /\ (Enqueue(s) \/ Claim(s))
  BY <1>5 DEF Enqueue, Claim
<1>6. CASE s \in Segments /\ TimePasses(s)
  BY <1>6 DEF TimePasses, pass
<1> QED BY <1>1, <1>2, <1>3, <1>4, <1>5, <1>6 DEF PassStep

LEMMA PassKeepsTurns ==
  ASSUME IInv, NEW s, PassStep(s)
  PROVE  LiveOK'
<1> SUFFICES ASSUME NEW t \in Turns PROVE TurnOK(t)'
  BY DEF LiveOK
<1>1. TurnOK(t)
  BY DEF IInv, LiveOK
<1>2. UNCHANGED <<step, at, traced, answered>>
  BY PassOnRecords DEF live, world
<1>3. CASE UNCHANGED <<mode, record, evidence>>
  BY <1>1, <1>2, <1>3 DEF TurnOK, Placed, Fresh, Unsent, Receipts
<1>4. CASE mode # "serving"
  <2>1. step[t] \in {"new", "over"}
    BY <1>1, <1>4 DEF TurnOK, Placed
  <2>2. \A k \in 1..Chunks[t] : record[<<t, k>>] = "none" => record'[<<t, k>>] = "none"
    BY PassOnRecords, SegmentFacts
  <2> QED BY <1>1, <1>2, <2>1, <2>2 DEF TurnOK, Placed, Fresh, Unsent, Receipts
<1> QED BY <1>3, <1>4, PassOnRecords

LEMMA PassKeepsOutcomes ==
  ASSUME IInv, NEW s, PassStep(s)
  PROVE  Evidence' /\ Outcomes'
<1>1. answered' = answered /\ accepted' = accepted /\ answered \subseteq Segments
  BY PassOnRecords DEF world, IInv, TypeOK
<1>2. Evidence'
  BY PassOnRecords DEF IInv, Evidence
<1>3. Outcomes'
  BY <1>1, PassOnRecords DEF IInv, Outcomes, AnsweredIsNotFailed
<1> QED BY <1>2, <1>3

LEMMA PassKeepsJobs ==
  ASSUME IInv, NEW s, PassStep(s)
  PROVE  Jobs'
<1> USE DEF Jobs, IInv
<1>1. CASE Start
  BY <1>1 DEF Start, durable, In
<1>2. CASE Classified
  BY <1>2 DEF Classified, durable, In
<1>3. CASE Enqueued \/ Drained \/ ResolutionFails
  BY <1>3 DEF Enqueued, Drained, ResolutionFails, durable, In
<1>4. CASE PassFails
  BY <1>4 DEF PassFails, durable, In
<1>5. CASE s \in Segments /\ Classify(s)
  <2>1. /\ record[s] \in {"pending", "delivering"} /\ record'[s] = "unknownAfterCrash"
        /\ \A r \in Segments : r # s => record'[r] = record[r]
    <3>1. Transition(s, record[s], "unknownAfterCrash", "none")
      BY <1>5 DEF Classify
    <3> QED BY <1>5, <3>1, TransitionMoves DEF Classify, InFlight, In
  <2>2. mode = "classifying" /\ UNCHANGED <<job, mode, todo, claimed>>
    BY <1>5 DEF Classify, pass
  <2> QED BY <2>1, <2>2
<1>6. CASE s \in Segments /\ Enqueue(s)
  BY <1>6 DEF Enqueue, In, TypeOK
<1>7. CASE s \in Segments /\ Claim(s)
  BY <1>7 DEF Claim, Claimable, In, TypeOK
<1>8. CASE s \in Segments /\ Decide(s)
  BY <1>8, DecidedIsAbandoned DEF Decide, In
<1>9. CASE s \in Segments /\ (Finish(s) \/ Retry(s))
  BY <1>9 DEF Finish, Retry, Holds, LetGo, In, TypeOK
<1>10. CASE RetryFails
  <2>1. PICK c \in claimed : LetGo(job[c])
    BY <1>10 DEF RetryFails
  <2>2. PICK d \in claimed : job' = [job EXCEPT ![d] = job[c]]
    BY <2>1 DEF LetGo
  <2>3. mode = "retrying" /\ mode' = "draining" /\ UNCHANGED <<record, todo>>
    BY <1>10, <2>1 DEF RetryFails, LetGo
  <2>4. c = d /\ d \in Segments
    BY <2>1, <2>2 DEF TypeOK
  <2>5. job' = job /\ claimed' = {}
    BY <2>1, <2>2, <2>4 DEF LetGo, TypeOK
  <2> QED BY <2>3, <2>5 DEF In
<1>11. CASE s \in Segments /\ TimePasses(s)
  BY <1>11 DEF TimePasses, pass, In, TypeOK
<1> QED BY <1>1, <1>2, <1>3, <1>4, <1>5, <1>6, <1>7, <1>8, <1>9, <1>10, <1>11 DEF PassStep

\* A crash leaves the store and the world as they are, and no turn in progress.
LEMMA CrashKeepsIInv == IInv /\ Crash => IInv'
<1> SUFFICES ASSUME IInv, Crash PROVE IInv'
  OBVIOUS
<1>1. TypeOK'
  BY CrashKeepsTypes DEF IInv
<1>2. /\ UNCHANGED <<record, evidence, job, answered, accepted>>
      /\ mode' = "down" /\ todo' = {} /\ claimed' = {}
      /\ \A t \in Turns : step'[t] = IF step[t] = "new" THEN "new" ELSE "over"
  BY DEF Crash, durable, world
<1>3. LiveOK'
  BY <1>2 DEF IInv, LiveOK, TurnOK, Placed, Fresh, Unsent, Receipts
<1>4. Evidence' /\ Outcomes'
  BY <1>2 DEF IInv, Evidence, Outcomes, AnsweredIsNotFailed
<1>5. Jobs'
  BY <1>2 DEF IInv, Jobs, In
<1> QED BY <1>1, <1>3, <1>4, <1>5 DEF IInv

-----------------------------------------------------------------------------
(* The theorems.                                                           *)

\* Every step is one of the live path, of the pass or the clock, or a crash.
LEMMA StepKinds == Next => (\E t \in Turns : Live(t)) \/ (\E s : PassStep(s)) \/ Crash
BY DEF Next, Pass, PassStep

\* A new store satisfies the invariant.
LEMMA InitIInv == Init => IInv
<1> SUFFICES ASSUME Init PROVE IInv
  OBVIOUS
<1>1. TypeOK
  BY DeliveryAssumption, ChunkFacts DEF Init, TypeOK, Modes, States
<1>2. LiveOK
  BY SegmentFacts DEF Init, LiveOK, TurnOK, Placed, Fresh, Unsent, Receipts
<1>3. Evidence /\ Outcomes /\ Jobs
  BY DEF Init, Evidence, Outcomes, AnsweredIsNotFailed, Jobs, In
<1> QED BY <1>1, <1>2, <1>3 DEF IInv

\* The invariant is inductive.
THEOREM StepKeepsIInv == IInv /\ [Next]_vars => IInv'
<1> SUFFICES ASSUME IInv, [Next]_vars PROVE IInv'
  OBVIOUS
<1>1. ASSUME NEW t \in Turns, Live(t) PROVE IInv'
  BY <1>1, LiveKeepsTypes, LiveKeepsTurns, LiveKeepsTheRest DEF IInv
<1>2. ASSUME NEW s, PassStep(s) PROVE IInv'
  BY <1>2, PassKeepsTypes, PassKeepsTurns, PassKeepsOutcomes, PassKeepsJobs DEF IInv
<1>3. CASE UNCHANGED vars
  <2> USE <1>3 DEF vars, durable, pass, live, world
  <2>1. TypeOK'
    BY DEF IInv, TypeOK
  <2>2. LiveOK'
    BY DEF IInv, LiveOK, TurnOK, Placed, Fresh, Unsent, Receipts
  <2>3. Evidence' /\ Outcomes' /\ Jobs'
    BY DEF IInv, Evidence, Outcomes, AnsweredIsNotFailed, Jobs, In
  <2> QED BY <2>1, <2>2, <2>3 DEF IInv
<1> QED BY <1>1, <1>2, <1>3, StepKinds, CrashKeepsIInv

\* Whatever crashes, whatever transactions fail and however leases lapse, the
\* records, their evidence, their jobs and the live path fit together.
THEOREM Invariance == Spec => []IInv
BY InitIInv, StepKeepsIInv, PTL DEF Spec

\* Every variable has its type, and a job is held only inside a resolution.
THEOREM TypeCorrect == Spec => []TypeOK
<1>1. IInv => TypeOK
  BY DEF IInv
<1> QED BY <1>1, Invariance, PTL

\* Success is never fabricated: what the store calls delivered was accepted by
\* the platform, and even answered with a message id.
THEOREM DeliveredIsTrue == Spec => []DeliveredWasAccepted
<1>1. IInv => DeliveredWasAccepted
  BY DEF IInv, Outcomes, TypeOK, DeliveredWasAccepted
<1> QED BY <1>1, Invariance, PTL

\* Failure is not fabricated either: a send that was answered with a message id is
\* never recorded as failed, although its receipt may not have been storable.
THEOREM AnsweredStandsUp == Spec => []AnsweredIsNotFailed
<1>1. IInv => AnsweredIsNotFailed
  BY DEF IInv, Outcomes
<1> QED BY <1>1, Invariance, PTL

\* Beyond the enqueue loop no ambiguous delivery is without a job that will be
\* claimed or that an operator can see.
THEOREM NothingAmbiguousIsForgotten == Spec => []UnknownHasJob
<1>1. IInv => UnknownHasJob
  BY DEF IInv, Jobs, UnknownHasJob, In
<1> QED BY <1>1, Invariance, PTL

\* A step changes no outcome and none of its evidence.
LEMMA StepKeepsOutcomes ==
  ASSUME IInv, [Next]_vars, NEW s \in Segments, record[s] \in {"delivered", "failed", "abandoned"}
  PROVE  record'[s] = record[s] /\ evidence'[s] = evidence[s]
<1>1. ASSUME NEW t \in Turns, Live(t) PROVE record'[s] = record[s] /\ evidence'[s] = evidence[s]
  BY <1>1, LiveOnRecords
<1>2. ASSUME NEW r, PassStep(r) PROVE record'[s] = record[s] /\ evidence'[s] = evidence[s]
  BY <1>2, PassOnRecords
<1>3. CASE Crash \/ UNCHANGED vars
  BY <1>3 DEF Crash, vars, durable
<1> QED BY <1>1, <1>2, <1>3, StepKinds

\* Outcomes are final: what is delivered, failed or abandoned stays so, with its
\* evidence, through every later crash, pass and repeated claim.
THEOREM FinalOutcomes == Spec => OutcomesAreFinal
<1>1. IInv /\ [Next]_vars =>
        [\A s \in Segments :
           record[s] \in {"delivered", "failed", "abandoned"} =>
             record'[s] = record[s] /\ evidence'[s] = evidence[s]]_vars
  BY StepKeepsOutcomes
<1> QED BY <1>1, Invariance, PTL DEF Spec, OutcomesAreFinal

-----------------------------------------------------------------------------
(* The limiter: what it remembers, counts and lists.                       *)

Phases == {"new", "sleeping", "waiting", "woken", "holding", "backoff", "over"}

LimiterTypes ==
  /\ phase \in [Requests -> Phases] /\ timer \in [Requests -> Nat] /\ aborted \in SUBSET Requests
  /\ inFlight \in Nat /\ blocked \in Nat
  /\ history \in Seq(0..Window) /\ sent \in [Requests -> Seq(0..Window)]

\* Who waits for a release is in the list, once.
Listed(q, S) ==
  /\ q \in Seq(Requests) /\ \A i, k \in DOMAIN q : i # k => q[i] # q[k]
  /\ {q[k] : k \in DOMAIN q} = S /\ Len(q) = Cardinality(S)

\* Who has a slot has called, who has not had one has not, and nobody calls more often
\* than the delays allow.
CallsInSlots ==
  \A r \in Requests :
    /\ r \in Slots => sent[r] # << >>
    /\ phase[r] \in {"new", "sleeping", "waiting", "woken"} => sent[r] = << >>
    /\ Len(sent[r]) <= Len(RetryDelays) + 1
    /\ phase[r] = "backoff" => Len(sent[r]) <= Len(RetryDelays)

\* The requests whose first call is in the window.
Young(calls) == {r \in Requests : calls[r] # << >> /\ calls[r][1] < Window}

\* Each of them has an entry of the history of its own, of the age of that call.
Remembered(h, calls) ==
  \E f \in [Young(calls) -> DOMAIN h] :
    /\ \A r, o \in Young(calls) : f[r] = f[o] => r = o
    /\ \A r \in Young(calls) : h[f[r]] = calls[r][1]

\* The requests that had a slot when the x last ticks began and have had it, or called,
\* since: all of them had a slot at that moment.
Across(x) ==
  {r \in Requests : /\ sent[r] # << >> /\ sent[r][1] > x
                    /\ r \in Slots \/ \E k \in DOMAIN sent[r] : sent[r][k] <= x}

\* The inductive invariant of the limiter: besides what it promises, the list of
\* waiters is true, and what is remembered covers the slots acquired in the window.
\* BudgetKept alone is not inductive: the loop looks at the history, never at the
\* calls, and a retry looks at nothing.
LimiterInv ==
  /\ LimiterTypes /\ Listed(waiters, At("waiting"))
  /\ SlotsAreHeld /\ CallsInSlots
  /\ Remembered(history, sent) /\ Len(history) <= RequestsPerMinute
  /\ \A x \in 0..(Window - 1) : Cardinality(Across(x)) <= MaxConcurrent

-----------------------------------------------------------------------------
(* The responder.                                                          *)

Open(m) == stage[m] \in {"queued", "generating"}

\* Before respond() is called.
Outside == {"unasked", "prepared"}

MentionTypes ==
  /\ promptUse \in BOOLEAN /\ stored \in SUBSET Mentions /\ text \in [Mentions -> SUBSET Mentions]
  /\ stage \in [Mentions -> Answered \cup Outside \cup {"queued", "generating"}]
  /\ after \in [Mentions -> Mentions \cup {None}] /\ newest \in [Rooms -> Mentions \cup {None}]
  /\ pending \in [Rooms -> Nat]
  /\ turns \in [Rooms -> Seq(Mentions)] /\ saw \in [Mentions -> Seq(Mentions)]

\* Mentions come in order, and the count of a room is that of its open ones.
Counted ==
  /\ \A m, n \in Mentions : m < n /\ stage[n] \notin Outside => stage[m] \notin Outside
  /\ \A room \in Rooms : pending[room] = Cardinality(Unanswered(room)) /\ pending[room] <= MaxPending

\* Who came after an open mention of its room is queued behind an open one, which
\* is that or a later one.
BehindOpen(m, n) ==
  RoomOf[m] = RoomOf[n] /\ m < n /\ Open(m) /\ stage[n] \notin Outside \cup {"busy"} =>
    /\ stage[n] = "queued" /\ after[n] \in Mentions
    /\ m <= after[n] /\ RoomOf[after[n]] = RoomOf[n] /\ Open(after[n])

\* As long as a mention is open its room knows an open one to queue the next behind.
LastIsOpen(m) ==
  Open(m) => LET n == newest[RoomOf[m]]
             IN  n \in Mentions /\ m <= n /\ RoomOf[n] = RoomOf[m] /\ Open(n)

InLine == \A m \in Mentions : LastIsOpen(m) /\ \A n \in Mentions : BehindOpen(m, n)

\* While a mention is generated from the recent turns its prompt is up to date; what a
\* room remembers was answered, so no prompt of it is made again.
UpToDate ==
  /\ ~promptUse => \A m \in Mentions : stage[m] = "generating" => saw[m] = turns[RoomOf[m]]
  /\ \A room \in Rooms : \A k \in DOMAIN turns[room] : stage[turns[room][k]] = "reply"

\* The store knows of replies that were made, and so does a text read from it; nothing
\* is said of the replies that it lacks.
Heard(room) == {turns[room][k] : k \in DOMAIN turns[room]}

FromTheStore ==
  /\ \A m \in Mentions : /\ stage[m] = "reply" => m \in Heard(RoomOf[m])
                         /\ text[m] \subseteq Heard(RoomOf[m])
  /\ \A m \in stored : stage[m] = "reply"

\* The inductive invariant of the responder.
MentionInv == MentionTypes /\ Counted /\ InLine /\ UpToDate /\ FromTheStore /\ RepliesKnowEachOther

\* How many requests are in a phase is a number.
LEMMA AtFinite == ASSUME NEW p PROVE IsFiniteSet(At(p)) /\ Cardinality(At(p)) \in Nat
<1>1. At(p) \subseteq Requests /\ IsFiniteSet(Requests)
  BY LimiterAssumption DEF At
<1> QED BY <1>1, FS_Subset, FS_CardinalityType

\* One request moves from one phase to another.
LEMMA Moves ==
  ASSUME LimiterTypes, NEW r \in Requests, NEW p \in Phases, phase' = [phase EXCEPT ![r] = p]
  PROVE  /\ phase' \in [Requests -> Phases]
         /\ \A q : q # phase[r] /\ q # p => At(q)' = At(q)
         /\ p # phase[r] => /\ At(p)' = At(p) \cup {r} /\ r \notin At(p)
                            /\ \A q : q = phase[r] => At(q)' = At(q) \ {r} /\ r \in At(q)
<1>1. phase \in [Requests -> Phases]
  BY DEF LimiterTypes
<1>2. /\ phase' \in [Requests -> Phases] /\ phase'[r] = p
      /\ \A o \in Requests : o # r => phase'[o] = phase[o]
  BY <1>1
<1>3. ASSUME NEW q, q # phase[r], q # p PROVE At(q)' = At(q)
  BY <1>2, <1>3 DEF At
<1>4. ASSUME p # phase[r]
      PROVE  /\ At(p)' = At(p) \cup {r} /\ r \notin At(p)
             /\ \A q : q = phase[r] => At(q)' = At(q) \ {r} /\ r \in At(q)
  <2>1. At(p)' = At(p) \cup {r} /\ r \notin At(p)
    BY <1>2, <1>4 DEF At
  <2>2. r \in At(phase[r])
    BY DEF At
  <2>3. ASSUME NEW q, q = phase[r] PROVE At(q)' = At(q) \ {r}
    BY <1>2, <1>4, <2>3 DEF At
  <2> QED BY <2>1, <2>2, <2>3
<1> QED BY <1>2, <1>3, <1>4

-----------------------------------------------------------------------------
(* The list of those who wait.                                             *)

\* Who starts to wait is the last of the list.
LEMMA Joins ==
  ASSUME NEW q, NEW S, Listed(q, S), IsFiniteSet(S), NEW r \in Requests, r \notin S
  PROVE  Listed(Append(q, r), S \cup {r})
<1> DEFINE n == Append(q, r)
<1>1. /\ n \in Seq(Requests) /\ Len(n) = Len(q) + 1 /\ DOMAIN n = 1..(Len(q) + 1) /\ Len(q) \in Nat
      /\ DOMAIN q = 1..Len(q) /\ n[Len(q) + 1] = r /\ \A k \in 1..Len(q) : n[k] = q[k]
  BY AppendProperties DEF Listed
<1>2. Cardinality(S \cup {r}) = Cardinality(S) + 1
  BY FS_AddElement
<1> HIDE DEF n
<1>3. \A k \in DOMAIN n : (k \in DOMAIN q /\ n[k] = q[k]) \/ (k = Len(q) + 1 /\ n[k] = r)
  <2>1. ASSUME NEW k \in DOMAIN n, k # Len(q) + 1 PROVE k \in DOMAIN q /\ n[k] = q[k]
    <3>1. k \in 1..Len(q)
      BY <1>1, <2>1
    <3> QED BY <1>1, <3>1
  <2> QED BY <1>1, <2>1
<1>4. \A k \in DOMAIN q : q[k] \in S /\ q[k] # r
  BY DEF Listed
<1>5. \A i, k \in DOMAIN n : i # k => n[i] # n[k]
  BY <1>3, <1>4 DEF Listed
<1>6. {n[k] : k \in DOMAIN n} = S \cup {r}
  <2>1. \A k \in DOMAIN q : k \in DOMAIN n /\ n[k] = q[k]
    BY <1>1
  <2>2. Len(q) + 1 \in DOMAIN n
    BY <1>1
  <2> QED BY <1>1, <1>3, <2>1, <2>2 DEF Listed
<1>7. Listed(n, S \cup {r})
  BY <1>1, <1>2, <1>5, <1>6 DEF Listed
<1> QED BY <1>7 DEF n

\* release() takes the oldest waiter out of the list.
LEMMA FirstLeaves ==
  ASSUME NEW q, NEW S, Listed(q, S), IsFiniteSet(S), q # << >>
  PROVE  Head(q) \in S /\ Head(q) \in Requests /\ Listed(Tail(q), S \ {Head(q)})
<1> DEFINE n == Tail(q)
<1>1. /\ n \in Seq(Requests) /\ Len(n) = Len(q) - 1 /\ Len(q) \in Nat /\ Head(q) = q[1] /\ DOMAIN q = 1..Len(q)
      /\ DOMAIN n = 1..(Len(q) - 1) /\ 1 \in DOMAIN q /\ \A k \in 1..(Len(q) - 1) : n[k] = q[k + 1]
  BY HeadTailProperties DEF Listed
<1>2. Head(q) \in S /\ Head(q) \in Requests
  BY <1>1 DEF Listed
<1>3. Cardinality(S \ {Head(q)}) = Cardinality(S) - 1
  BY <1>2, FS_RemoveElement
<1> HIDE DEF n
<1>4. \A k \in DOMAIN n : k + 1 \in DOMAIN q /\ k + 1 # 1 /\ n[k] = q[k + 1]
  BY <1>1
<1>5. \A k \in DOMAIN q : k # 1 => k - 1 \in DOMAIN n /\ n[k - 1] = q[k]
  BY <1>1
<1>6. \A i, k \in DOMAIN n : i # k => i + 1 # k + 1
  BY <1>1
<1>7. \A i, k \in DOMAIN n : i # k => n[i] # n[k]
  BY <1>4, <1>6 DEF Listed
<1>8. {n[k] : k \in DOMAIN n} = S \ {Head(q)}
  <2>1. ASSUME NEW k \in DOMAIN n PROVE n[k] \in S \ {Head(q)}
    BY <1>1, <1>4 DEF Listed
  <2>2. ASSUME NEW x \in S \ {Head(q)} PROVE \E k \in DOMAIN n : n[k] = x
    <3>1. PICK k \in DOMAIN q : q[k] = x
      BY DEF Listed
    <3>2. k # 1
      BY <1>1, <3>1
    <3> QED BY <1>5, <3>1, <3>2
  <2> QED BY <2>1, <2>2
<1>9. Listed(n, S \ {Head(q)})
  BY <1>1, <1>3, <1>7, <1>8 DEF Listed
<1> QED BY <1>2, <1>9 DEF n

\* Where the entry at k of the shortened list was before.
Before(k, hole) == IF k < hole THEN k ELSE k + 1

\* Who is cancelled leaves the list wherever it stands; the rest keeps its order.
LEMMA OneLeaves ==
  ASSUME NEW q, NEW S, Listed(q, S), IsFiniteSet(S), NEW r
  PROVE  Listed(Without(q, r), S \ {r})
<1>1. /\ q \in Seq(Requests) /\ Len(q) \in Nat /\ DOMAIN q = 1..Len(q)
      /\ \A k \in DOMAIN q : q[k] \in Requests
  BY DEF Listed
<1>2. CASE \A k \in DOMAIN q : q[k] # r
  <2>1. Without(q, r) = q
    BY <1>2 DEF Without
  <2>2. r \notin S
    BY <1>2 DEF Listed
  <2>3. S \ {r} = S
    BY <2>2
  <2> QED BY <2>1, <2>3
<1>3. CASE ~\A k \in DOMAIN q : q[k] # r
  <2> DEFINE hole == CHOOSE k \in DOMAIN q : q[k] = r
             n == [k \in 1..(Len(q) - 1) |-> q[IF k < hole THEN k ELSE k + 1]]
  <2>1. Without(q, r) = n
    BY <1>3 DEF Without
  <2>2. hole \in DOMAIN q /\ q[hole] = r
    BY <1>3
  <2> HIDE DEF hole
  <2>3. /\ DOMAIN n = 1..(Len(q) - 1)
        /\ \A k \in DOMAIN n : n[k] = q[Before(k, hole)]
    BY DEF Before
  <2>4. \A k \in 1..(Len(q) - 1) : Before(k, hole) \in DOMAIN q /\ Before(k, hole) # hole
    BY <1>1, <2>2 DEF Before
  <2>5. \A i, k \in 1..(Len(q) - 1) : i # k => Before(i, hole) # Before(k, hole)
    BY <1>1, <2>2 DEF Before
  <2>6. \A k \in DOMAIN q : k # hole => \E i \in 1..(Len(q) - 1) : Before(i, hole) = k
    <3>1. SUFFICES ASSUME NEW k \in DOMAIN q, k # hole
                   PROVE  \E i \in 1..(Len(q) - 1) : Before(i, hole) = k
      OBVIOUS
    <3>2. CASE k < hole
      BY <1>1, <2>2, <3>2 DEF Before
    <3>3. CASE ~(k < hole)
      <4>1. k - 1 \in 1..(Len(q) - 1) /\ Before(k - 1, hole) = k
        BY <1>1, <2>2, <3>1, <3>3 DEF Before
      <4> QED BY <4>1
    <3> QED BY <3>2, <3>3
  <2>7. n \in Seq(Requests) /\ Len(n) = Len(q) - 1
    <3>1. Len(q) - 1 \in Nat
      BY <1>1, <2>2
    <3>2. \A k \in 1..(Len(q) - 1) : q[IF k < hole THEN k ELSE k + 1] \in Requests
      BY <1>1, <2>4 DEF Before
    <3> QED BY <3>1, <3>2, IsASeq
  <2> HIDE DEF n
  <2>8. \A i, k \in DOMAIN n : i # k => n[i] # n[k]
    <3>1. SUFFICES ASSUME NEW i \in DOMAIN n, NEW k \in DOMAIN n, i # k PROVE n[i] # n[k]
      OBVIOUS
    <3>2. /\ Before(i, hole) \in DOMAIN q /\ Before(k, hole) \in DOMAIN q
          /\ Before(i, hole) # Before(k, hole)
      BY <2>3, <2>4, <2>5, <3>1
    <3> QED BY <2>3, <3>2 DEF Listed
  <2>9. ASSUME NEW k \in DOMAIN n PROVE n[k] \in S \ {r}
    <3>1. Before(k, hole) \in DOMAIN q /\ Before(k, hole) # hole /\ n[k] = q[Before(k, hole)]
      BY <2>3, <2>4
    <3> QED BY <2>2, <3>1 DEF Listed
  <2>10. ASSUME NEW x \in S \ {r} PROVE \E k \in DOMAIN n : n[k] = x
    <3>1. PICK a \in DOMAIN q : q[a] = x
      BY DEF Listed
    <3>2. PICK i \in 1..(Len(q) - 1) : Before(i, hole) = a
      BY <2>2, <2>6, <3>1
    <3> QED BY <2>3, <3>1, <3>2
  <2>11. {n[k] : k \in DOMAIN n} = S \ {r}
    BY <2>9, <2>10
  <2>12. r \in S
    BY <2>2 DEF Listed
  <2>13. Cardinality(S \ {r}) = Cardinality(S) - 1
    BY <2>12, FS_RemoveElement
  <2> QED BY <2>1, <2>7, <2>8, <2>11, <2>13 DEF Listed
<1> QED BY <1>2, <1>3

-----------------------------------------------------------------------------
(* What is remembered and what is called.                                  *)

\* A nonempty set of naturals has a least element.
LEMMA LeastOf ==
  ASSUME NEW T \in SUBSET Nat, T # {}
  PROVE  \E k \in T : \A m \in T : k <= m
<1>1. PICK k \in T : \A m \in T : <<m, k>> \notin OpToRel(<, Nat)
  BY NatLessThanWellFounded, WFMin
<1>2. \A m \in T : ~(m < k)
  BY <1>1 DEF OpToRel
<1> QED BY <1>2

\* A set of positions that has all before each of its own is counted by its last.
LEMMA InitialSegment ==
  ASSUME NEW len \in Nat, NEW E \in SUBSET (1..len), \A k \in E : \A j \in 1..k : j \in E
  PROVE  Cardinality(E) \in 0..len /\ E = 1..Cardinality(E)
<1> DEFINE out == (1..(len + 1)) \ E
<1>1. out \in SUBSET Nat /\ len + 1 \in out
  OBVIOUS
<1>2. PICK m \in out : \A k \in out : m <= k
  BY <1>1, LeastOf
<1>3. \A k \in 1..(m - 1) : k \in E
  BY <1>2
<1>4. \A k \in E : k \in 1..(m - 1)
  BY <1>2
<1>5. E = 1..(m - 1)
  BY <1>3, <1>4
<1>6. m - 1 \in 0..len
  BY <1>2
<1>7. Cardinality(1..(m - 1)) = m - 1
  BY <1>6, FS_Interval
<1> QED BY <1>5, <1>6, <1>7

\* The entries of a sequence.
LEMMA Entries ==
  ASSUME NEW S, NEW q \in Seq(S)
  PROVE  Len(q) \in Nat /\ DOMAIN q = 1..Len(q) /\ \A k \in DOMAIN q : q[k] \in S
OBVIOUS

\* A history without its first n entries.
LEMMA Dropped ==
  ASSUME NEW S, NEW h \in Seq(S), NEW n \in 0..Len(h)
  PROVE  LET d == SubSeq(h, n + 1, Len(h))
         IN  /\ d \in Seq(S) /\ Len(d) = Len(h) - n /\ DOMAIN d = 1..(Len(h) - n)
             /\ \A k \in 1..(Len(h) - n) : n + k \in DOMAIN h /\ d[k] = h[n + k]
<1> DEFINE d == SubSeq(h, n + 1, Len(h))
<1>1. Len(h) \in Nat /\ DOMAIN h = 1..Len(h) /\ \A k \in DOMAIN h : h[k] \in S
  OBVIOUS
<1>2. /\ d \in Seq(S) /\ Len(d) = IF n + 1 <= Len(h) THEN Len(h) - (n + 1) + 1 ELSE 0
      /\ \A k \in 1..(Len(h) - (n + 1) + 1) : d[k] = h[n + 1 + k - 1]
  <2>1. \A k \in (n + 1)..Len(h) : h[k] \in S
    BY <1>1
  <2> QED BY <1>1, <2>1, SubSeqProperties
<1> HIDE DEF d
<1>3. Len(d) = Len(h) - n
  <2>1. CASE n = Len(h)
    BY <1>1, <1>2, <2>1
  <2>2. CASE n + 1 <= Len(h)
    BY <1>1, <1>2, <2>2
  <2>3. n = Len(h) \/ n + 1 <= Len(h)
    <3> DEFINE len == Len(h)
    <3>1. len \in Nat /\ n \in 0..len
      BY <1>1
    <3> HIDE DEF len
    <3>2. n = len \/ n + 1 <= len
      BY <3>1
    <3> QED BY <3>2 DEF len
  <2> QED BY <2>1, <2>2, <2>3
<1>4. DOMAIN d = 1..(Len(h) - n)
  BY <1>2, <1>3
<1>5. ASSUME NEW k \in 1..(Len(h) - n) PROVE n + k \in DOMAIN h /\ d[k] = h[n + k]
  <2>1. /\ n + k \in 1..Len(h) /\ k \in 1..(Len(h) - (n + 1) + 1)
        /\ n + 1 + k - 1 = n + k
    BY <1>1
  <2> QED BY <1>1, <1>2, <2>1
<1> QED BY <1>2, <1>3, <1>4, <1>5 DEF d

\* What is pruned has left the window: no call in it is forgotten.
LEMMA PrunedCovers ==
  ASSUME NEW h \in Seq(0..Window), NEW calls, Remembered(h, calls),
         \A r \in Young(calls) : calls[r][1] \in 0..Window
  PROVE  Pruned(h) \in Seq(0..Window) /\ Len(Pruned(h)) <= Len(h) /\ Remembered(Pruned(h), calls)
<1> DEFINE E == {k \in 1..Len(h) : \A j \in 1..k : h[j] >= Window}
           n == Cardinality(E)
           d == SubSeq(h, n + 1, Len(h))
           Y == Young(calls)
<1>1. Window \in Nat /\ Len(h) \in Nat /\ DOMAIN h = 1..Len(h) /\ \A k \in DOMAIN h : h[k] \in 0..Window
  BY Entries, LimiterAssumption
<1>2. n \in 0..Len(h) /\ E = 1..n
  <2>1. E \in SUBSET (1..Len(h)) /\ \A k \in E : \A j \in 1..k : j \in E
    BY <1>1
  <2> HIDE DEF E
  <2> QED BY <1>1, <2>1, InitialSegment
<1>3. \A k \in 1..n : h[k] >= Window
  BY <1>1, <1>2
<1>4. Pruned(h) = d
  BY DEF Pruned
<1> HIDE DEF E, n
<1>5. /\ d \in Seq(0..Window) /\ Len(d) = Len(h) - n /\ DOMAIN d = 1..(Len(h) - n)
      /\ \A k \in 1..(Len(h) - n) : n + k \in DOMAIN h /\ d[k] = h[n + k]
  BY <1>2, Dropped
<1> HIDE DEF d
<1>6. PICK f \in [Y -> DOMAIN h] :
        (\A r, o \in Y : f[r] = f[o] => r = o) /\ \A r \in Y : h[f[r]] = calls[r][1]
  BY DEF Remembered
<1>7. \A r \in Y : calls[r][1] < Window
  BY DEF Young
<1> HIDE DEF Y
<1>8. ASSUME NEW r \in Y PROVE f[r] - n \in 1..(Len(h) - n) /\ n + (f[r] - n) = f[r]
  <2>1. f[r] \in 1..Len(h) /\ h[f[r]] < Window /\ h[f[r]] \in 0..Window
    BY <1>1, <1>6, <1>7
  <2>2. f[r] \notin 1..n
    BY <1>1, <1>3, <2>1
  <2> QED BY <1>1, <1>2, <2>1, <2>2
<1> DEFINE g == [r \in Y |-> f[r] - n]
<1>9. g \in [Y -> DOMAIN d]
  BY <1>5, <1>8
<1>10. \A r, o \in Y : g[r] = g[o] => r = o
  <2>1. ASSUME NEW r \in Y, NEW o \in Y, g[r] = g[o] PROVE r = o
    <3>1. f[r] - n = f[o] - n /\ n + (f[r] - n) = f[r] /\ n + (f[o] - n) = f[o]
      BY <1>8, <2>1
    <3> QED BY <1>6, <3>1
  <2> QED BY <2>1
<1>11. \A r \in Y : d[g[r]] = calls[r][1]
  BY <1>5, <1>6, <1>8
<1>12. Remembered(d, calls)
  <2> HIDE DEF g
  <2> QED BY <1>9, <1>10, <1>11 DEF Remembered, Y
<1> QED BY <1>1, <1>2, <1>4, <1>5, <1>12

\* An acquisition is remembered.
LEMMA AcquisitionIsRemembered ==
  ASSUME NEW h \in Seq(0..Window), NEW calls \in [Requests -> Seq(0..Window)], Remembered(h, calls),
         NEW r \in Requests, calls[r] = << >>
  PROVE  /\ Append(h, 0) \in Seq(0..Window) /\ Len(Append(h, 0)) = Len(h) + 1
         /\ Remembered(Append(h, 0), [calls EXCEPT ![r] = Append(@, 0)])
<1> DEFINE g == Append(h, 0)
           new == [calls EXCEPT ![r] = Append(@, 0)]
           Y == Young(calls)
           Z == Young(new)
<1>1. Window \in Nat /\ Window >= 1 /\ 0 \in 0..Window /\ 0 < Window
  BY LimiterAssumption
<1>2. Len(h) \in Nat /\ DOMAIN h = 1..Len(h)
  BY Entries
<1>3. /\ g \in Seq(0..Window) /\ Len(g) = Len(h) + 1 /\ DOMAIN g = 1..(Len(h) + 1) /\ g[Len(h) + 1] = 0
      /\ \A k \in 1..Len(h) : g[k] = h[k]
  BY <1>1, <1>2, AppendProperties
<1>4. new[r] # << >> /\ new[r][1] = 0 /\ \A o \in Requests : o # r => new[o] = calls[o]
  <2>1. new[r] = Append(<< >>, 0)
    OBVIOUS
  <2>2. Append(<< >>, 0) = <<0>>
    OBVIOUS
  <2> QED BY <2>1, <2>2
<1> HIDE DEF g, new
<1>5. Z = Y \cup {r} /\ r \notin Y
  BY <1>1, <1>4 DEF Young
<1>6. PICK f \in [Y -> DOMAIN h] :
        (\A a, o \in Y : f[a] = f[o] => a = o) /\ \A a \in Y : h[f[a]] = calls[a][1]
  BY DEF Remembered
<1>7. Y \subseteq Requests
  BY DEF Young
<1> HIDE DEF Y, Z
<1> DEFINE e == [a \in Z |-> IF a = r THEN Len(h) + 1 ELSE f[a]]
<1>8. \A a \in Y : a # r /\ f[a] \in 1..Len(h) /\ f[a] # Len(h) + 1 /\ e[a] = f[a]
  BY <1>2, <1>5, <1>6
<1>9. e[r] = Len(h) + 1
  BY <1>5
<1>10. e \in [Z -> DOMAIN g]
  BY <1>2, <1>3, <1>5, <1>8
<1>11. \A a, o \in Z : e[a] = e[o] => a = o
  <2> HIDE DEF e
  <2> QED BY <1>5, <1>6, <1>8, <1>9
<1>12. \A a \in Z : g[e[a]] = new[a][1]
  <2> HIDE DEF e
  <2>1. \A a \in Y : g[e[a]] = new[a][1]
    BY <1>3, <1>4, <1>6, <1>7, <1>8
  <2> QED BY <1>3, <1>4, <1>5, <1>9, <2>1
<1>13. Remembered(g, new)
  <2> HIDE DEF e
  <2> QED BY <1>10, <1>11, <1>12 DEF Remembered, Z
<1> QED BY <1>3, <1>13 DEF g, new

\* A later call of a request makes it no younger.
LEMMA AnotherCall ==
  ASSUME NEW h, NEW calls \in [Requests -> Seq(0..Window)], Remembered(h, calls),
         NEW r \in Requests, calls[r] # << >>
  PROVE  Remembered(h, [calls EXCEPT ![r] = Append(@, 0)])
<1> DEFINE new == [calls EXCEPT ![r] = Append(@, 0)]
<1>1. calls[r] \in Seq(0..Window) /\ Len(calls[r]) \in Nat /\ Len(calls[r]) >= 1
  <2>1. calls[r] \in Seq(0..Window) /\ Len(calls[r]) \in Nat
    OBVIOUS
  <2>2. Len(calls[r]) # 0
    BY <2>1, EmptySeq
  <2> QED BY <2>1, <2>2
<1>2. new[r] = Append(calls[r], 0) /\ \A o \in Requests : o # r => new[o] = calls[o]
  OBVIOUS
<1>3. 0 \in 0..Window
  BY LimiterAssumption
<1>4. /\ Len(new[r]) = Len(calls[r]) + 1 /\ new[r][1] = calls[r][1] /\ new[r] \in Seq(0..Window)
  BY <1>1, <1>2, <1>3, AppendProperties
<1>5. new[r] # << >>
  BY <1>1, <1>4
<1> HIDE DEF new
<1>6. \A o \in Requests : (new[o] # << >> <=> calls[o] # << >>) /\ (calls[o] # << >> => new[o][1] = calls[o][1])
  BY <1>2, <1>4, <1>5
<1>7. Young(new) = Young(calls) /\ \A o \in Young(calls) : new[o][1] = calls[o][1]
  BY <1>6 DEF Young
<1>8. PICK f \in [Young(calls) -> DOMAIN h] :
        /\ \A a, o \in Young(calls) : f[a] = f[o] => a = o
        /\ \A a \in Young(calls) : h[f[a]] = calls[a][1]
  BY DEF Remembered
<1>9. /\ f \in [Young(new) -> DOMAIN h] /\ \A a, o \in Young(new) : f[a] = f[o] => a = o
      /\ \A a \in Young(new) : h[f[a]] = new[a][1]
  BY <1>7, <1>8
<1>10. Remembered(h, new)
  BY <1>9 DEF Remembered
<1> QED BY <1>10 DEF new


\* A sequence of ages a tick later.
LEMMA OlderAges ==
  ASSUME NEW h \in Seq(0..Window)
  PROVE  /\ Older(h) \in Seq(0..Window) /\ Len(Older(h)) = Len(h) /\ Len(h) \in Nat
         /\ DOMAIN Older(h) = DOMAIN h /\ DOMAIN h = 1..Len(h)
         /\ \A k \in DOMAIN h : /\ h[k] \in 0..Window
                                /\ Older(h)[k] = IF h[k] < Window THEN h[k] + 1 ELSE h[k]
<1> DEFINE g == Older(h)
<1>1. Window \in Nat /\ Window >= 1
  BY LimiterAssumption
<1>2. Len(h) \in Nat /\ DOMAIN h = 1..Len(h) /\ \A k \in DOMAIN h : h[k] \in 0..Window
  BY Entries
<1>3. g = [k \in 1..Len(h) |-> IF h[k] < Window THEN h[k] + 1 ELSE h[k]]
  BY <1>2 DEF Older
<1>4. \A k \in 1..Len(h) : (IF h[k] < Window THEN h[k] + 1 ELSE h[k]) \in 0..Window
  BY <1>1, <1>2
<1> HIDE DEF g
<1>5. g \in Seq(0..Window) /\ Len(g) = Len(h)
  BY <1>2, <1>3, <1>4, IsASeq
<1> QED BY <1>2, <1>3, <1>5 DEF g

\* What a tick makes of a request's calls: they are older, or, if it has no slot and
\* all have left the window, forgotten.
LEMMA AgedCalls ==
  ASSUME LimiterTypes, NEW r \in Requests
  PROVE  /\ Aged(r) \in Seq(0..Window) /\ Len(Aged(r)) <= Len(sent[r])
         /\ Aged(r) = Older(sent[r]) \/ Aged(r) = << >>
         /\ r \in Slots => Aged(r) = Older(sent[r])
         /\ sent[r] = << >> => Aged(r) = << >>
<1>1. sent[r] \in Seq(0..Window)
  BY DEF LimiterTypes
<1>2. Older(sent[r]) \in Seq(0..Window) /\ Len(Older(sent[r])) = Len(sent[r]) /\ Len(sent[r]) \in Nat
  BY <1>1, OlderAges
<1>3. << >> \in Seq(0..Window) /\ Len(<< >>) = 0
  OBVIOUS
<1>4. Aged(r) = Older(sent[r]) \/ Aged(r) = << >>
  BY DEF Aged
<1>5. r \in Slots => Aged(r) = Older(sent[r])
  BY DEF Aged
<1>6. ASSUME sent[r] = << >> PROVE Aged(r) = << >>
  <2>1. Len(Older(sent[r])) = 0
    BY <1>2, <1>6
  <2>2. Older(sent[r]) = << >>
    BY <1>2, <2>1, EmptySeq
  <2> QED BY <1>4, <2>2
<1>7. Aged(r) \in Seq(0..Window) /\ Len(Aged(r)) <= Len(sent[r])
  <2>1. CASE Aged(r) = Older(sent[r])
    BY <1>2, <2>1
  <2>2. CASE Aged(r) = << >>
    BY <1>2, <1>3, <2>2
  <2> QED BY <1>4, <2>1, <2>2
<1> QED BY <1>4, <1>5, <1>6, <1>7

\* A tick ages what is remembered and what is called alike; what is as old as the
\* window ages no more.
LEMMA AllGrowOlder ==
  ASSUME LimiterTypes, Remembered(history, sent)
  PROVE  Remembered(Older(history), [r \in Requests |-> Aged(r)])
<1> DEFINE new == [r \in Requests |-> Aged(r)]
           Y == Young(sent)
           Z == Young(new)
<1>1. history \in Seq(0..Window) /\ \A r \in Requests : sent[r] \in Seq(0..Window)
  BY DEF LimiterTypes
<1>2. Window \in Nat /\ Window >= 1
  BY LimiterAssumption
<1>3. ASSUME NEW r \in Z PROVE r \in Y /\ new[r][1] = sent[r][1] + 1
  <2>1. r \in Requests /\ Aged(r) # << >> /\ Aged(r)[1] < Window /\ new[r] = Aged(r)
    BY DEF Young
  <2>2. Aged(r) = Older(sent[r]) /\ sent[r] # << >>
    BY <2>1, AgedCalls
  <2>3. Len(sent[r]) # 0 /\ Len(sent[r]) \in Nat
    BY <1>1, <2>1, <2>2, EmptySeq
  <2>4. 1 \in DOMAIN sent[r]
    BY <1>1, <2>1, <2>3, OlderAges
  <2>5. sent[r][1] \in 0..Window /\ Older(sent[r])[1] = IF sent[r][1] < Window THEN sent[r][1] + 1 ELSE sent[r][1]
    BY <1>1, <2>1, <2>4, OlderAges
  <2>6. sent[r][1] < Window /\ Older(sent[r])[1] = sent[r][1] + 1
    BY <1>2, <2>1, <2>2, <2>5
  <2> QED BY <2>1, <2>2, <2>6 DEF Young
<1>4. PICK f \in [Y -> DOMAIN history] :
        (\A a, o \in Y : f[a] = f[o] => a = o) /\ \A a \in Y : history[f[a]] = sent[a][1]
  BY DEF Remembered
<1>5. \A a \in Y : sent[a][1] < Window
  BY DEF Young
<1> HIDE DEF Y, Z, new
<1> DEFINE e == [a \in Z |-> f[a]]
<1>6. e \in [Z -> DOMAIN Older(history)]
  BY <1>1, <1>3, <1>4, OlderAges
<1>7. \A a, o \in Z : e[a] = e[o] => a = o
  BY <1>3, <1>4
<1>8. \A a \in Z : Older(history)[e[a]] = new[a][1]
  <2>1. SUFFICES ASSUME NEW a \in Z PROVE Older(history)[f[a]] = new[a][1]
    OBVIOUS
  <2>2. a \in Y /\ new[a][1] = sent[a][1] + 1 /\ f[a] \in DOMAIN history /\ history[f[a]] = sent[a][1]
    BY <1>3, <1>4
  <2>3. history[f[a]] < Window
    BY <1>5, <2>2
  <2>4. Older(history)[f[a]] = history[f[a]] + 1
    BY <1>1, <2>2, <2>3, OlderAges
  <2> QED BY <2>2, <2>4
<1> HIDE DEF e
<1> QED BY <1>6, <1>7, <1>8 DEF Remembered, Z, new

-----------------------------------------------------------------------------
(* The slots.                                                              *)

\* How many slots are taken is a number.
LEMMA SlotsFinite == IsFiniteSet(Slots) /\ Cardinality(Slots) \in Nat
<1>1. Slots \subseteq Requests /\ IsFiniteSet(Requests)
  BY LimiterAssumption DEF Slots
<1> QED BY <1>1, FS_Subset, FS_CardinalityType

\* A request moves into a slot, stays in it, or is out of it.
LEMMA SlotMoves ==
  ASSUME LimiterTypes, NEW r \in Requests, NEW p \in Phases, phase' = [phase EXCEPT ![r] = p]
  PROVE  /\ p \in {"holding", "backoff"} => Slots' = Slots \cup {r}
         /\ p \notin {"holding", "backoff"} => Slots' = Slots \ {r}
<1>1. phase'[r] = p /\ \A o \in Requests : o # r => phase'[o] = phase[o]
  BY DEF LimiterTypes
<1> QED BY <1>1 DEF Slots

\* Who crosses a moment had a slot at it: no step but a tick adds one.
LEMMA NobodyCrosses ==
  ASSUME LimiterTypes, \A x \in 0..(Window - 1) : Cardinality(Across(x)) <= MaxConcurrent,
         \A r \in Requests :
           \/ sent'[r] = sent[r] /\ (r \in Slots' => r \in Slots)
           \/ sent'[r] # << >> /\ sent'[r][1] = 0
           \/ r \in Slots /\ sent[r] # << >> /\ sent'[r][1] = sent[r][1]
  PROVE  (\A x \in 0..(Window - 1) : Cardinality(Across(x)) <= MaxConcurrent)'
<1>1. SUFFICES ASSUME NEW x \in 0..(Window - 1) PROVE Cardinality(Across(x)') <= MaxConcurrent
  OBVIOUS
<1>2. Window \in Nat /\ MaxConcurrent \in Nat /\ ~(0 > x)
  BY LimiterAssumption
<1>3. Across(x)' \subseteq Across(x)
  <2>1. SUFFICES ASSUME NEW r \in Requests, r \in Across(x)' PROVE r \in Across(x)
    BY DEF Across
  <2>2. sent'[r] # << >> /\ sent'[r][1] > x /\ (r \in Slots' \/ \E k \in DOMAIN sent'[r] : sent'[r][k] <= x)
    BY <2>1 DEF Across
  <2>3. CASE sent'[r] = sent[r] /\ (r \in Slots' => r \in Slots)
    BY <2>2, <2>3 DEF Across
  <2>4. CASE r \in Slots /\ sent[r] # << >> /\ sent'[r][1] = sent[r][1]
    BY <2>2, <2>4 DEF Across
  <2> QED BY <1>2, <2>2, <2>3, <2>4
<1>4. IsFiniteSet(Across(x)) /\ Cardinality(Across(x)) <= MaxConcurrent
  <2>1. Across(x) \subseteq Requests /\ IsFiniteSet(Requests)
    BY LimiterAssumption DEF Across
  <2> QED BY <2>1, FS_Subset
<1>5. IsFiniteSet(Across(x)') /\ Cardinality(Across(x)') <= Cardinality(Across(x))
  BY <1>3, <1>4, FS_Subset
<1>6. Cardinality(Across(x)) \in Nat /\ Cardinality(Across(x)') \in Nat
  BY <1>4, <1>5, FS_CardinalityType
<1> QED BY <1>2, <1>4, <1>5, <1>6

\* A tick: those who cross it have a slot, and those who crossed an earlier moment go on.
LEMMA TickCrosses ==
  ASSUME LimiterTypes, SlotsAreHeld, \A x \in 0..(Window - 1) : Cardinality(Across(x)) <= MaxConcurrent,
         Tick
  PROVE  (\A x \in 0..(Window - 1) : Cardinality(Across(x)) <= MaxConcurrent)'
<1>1. SUFFICES ASSUME NEW x \in 0..(Window - 1) PROVE Cardinality(Across(x)') <= MaxConcurrent
  OBVIOUS
<1>2. Window \in Nat /\ Window >= 1 /\ MaxConcurrent \in Nat /\ x \in Nat /\ x < Window
  BY LimiterAssumption
<1>3. ASSUME NEW r \in Across(x)'
      PROVE  /\ r \in Requests /\ sent[r] # << >> /\ sent[r] \in Seq(0..Window)
             /\ sent'[r] = Older(sent[r]) /\ Older(sent[r])[1] > x
             /\ r \in Slots \/ \E k \in DOMAIN sent[r] : Older(sent[r])[k] <= x
  <2>1. r \in Requests /\ sent'[r] = Aged(r) /\ Slots' = Slots
    BY DEF Across, Tick, Slots
  <2>2. Aged(r) # << >> /\ Aged(r)[1] > x /\ (r \in Slots \/ \E k \in DOMAIN Aged(r) : Aged(r)[k] <= x)
    BY <2>1 DEF Across
  <2>3. sent[r] \in Seq(0..Window)
    BY <2>1 DEF LimiterTypes
  <2>4. Aged(r) = Older(sent[r]) /\ sent[r] # << >>
    BY <2>1, <2>2, AgedCalls
  <2>5. DOMAIN Older(sent[r]) = DOMAIN sent[r]
    BY <2>3, OlderAges
  <2> QED BY <2>1, <2>2, <2>3, <2>4, <2>5
<1>4. ASSUME NEW r \in Across(x)', NEW k \in DOMAIN sent[r]
      PROVE  /\ sent[r][k] \in 0..Window
             /\ Older(sent[r])[k] = IF sent[r][k] < Window THEN sent[r][k] + 1 ELSE sent[r][k]
  BY <1>3, OlderAges
<1>5. ASSUME NEW r \in Across(x)' PROVE 1 \in DOMAIN sent[r]
  <2>1. sent[r] \in Seq(0..Window) /\ sent[r] # << >>
    BY <1>3
  <2>2. Len(sent[r]) \in Nat /\ Len(sent[r]) # 0 /\ DOMAIN sent[r] = 1..Len(sent[r])
    BY <2>1, EmptySeq, Entries
  <2> QED BY <2>2
<1>6. CASE x = 0
  <2>1. Across(x)' \subseteq Slots
    <3>1. SUFFICES ASSUME NEW r \in Across(x)' PROVE r \in Slots
      OBVIOUS
    <3>2. \A k \in DOMAIN sent[r] : ~(Older(sent[r])[k] <= x)
      BY <1>2, <1>4, <1>6
    <3> QED BY <1>3, <3>2
  <2>2. Cardinality(Across(x)') <= Cardinality(Slots) /\ IsFiniteSet(Across(x)')
    BY <2>1, SlotsFinite, FS_Subset
  <2>3. Cardinality(Slots) <= MaxConcurrent /\ Cardinality(Slots) \in Nat /\ Cardinality(Across(x)') \in Nat
    BY <2>2, SlotsFinite, FS_CardinalityType DEF SlotsAreHeld
  <2> QED BY <1>2, <2>2, <2>3
<1>7. CASE x # 0
  <2>1. x - 1 \in 0..(Window - 1) /\ x - 1 \in Nat /\ x = (x - 1) + 1
    BY <1>2, <1>7
  <2>2. Across(x)' \subseteq Across(x - 1)
    <3>1. SUFFICES ASSUME NEW r \in Across(x)' PROVE r \in Across(x - 1)
      OBVIOUS
    <3>2. sent[r][1] > x - 1
      BY <1>2, <1>3, <1>4, <1>5, <2>1
    <3>3. r \in Slots \/ \E k \in DOMAIN sent[r] : sent[r][k] <= x - 1
      <4>1. ASSUME NEW k \in DOMAIN sent[r], Older(sent[r])[k] <= x PROVE sent[r][k] <= x - 1
        BY <1>2, <1>4, <2>1, <4>1
      <4> QED BY <1>3, <4>1
    <3> QED BY <1>3, <3>2, <3>3 DEF Across
  <2>3. IsFiniteSet(Across(x - 1))
    <3>1. Across(x - 1) \subseteq Requests /\ IsFiniteSet(Requests)
      BY LimiterAssumption DEF Across
    <3> QED BY <3>1, FS_Subset
  <2>4. Cardinality(Across(x)') <= Cardinality(Across(x - 1)) /\ IsFiniteSet(Across(x)')
    BY <2>2, <2>3, FS_Subset
  <2>5. /\ Cardinality(Across(x - 1)) \in Nat /\ Cardinality(Across(x)') \in Nat
        /\ Cardinality(Across(x - 1)) <= MaxConcurrent
    BY <2>1, <2>3, <2>4, FS_CardinalityType
  <2> QED BY <1>2, <2>4, <2>5
<1> QED BY <1>6, <1>7

-----------------------------------------------------------------------------
(* The steps of the limiter.                                               *)

\* A new limiter satisfies the invariant.
LEMMA LimiterStarts == LimiterInit => LimiterInv
<1> SUFFICES ASSUME LimiterInit PROVE LimiterInv
  OBVIOUS
<1>1. At("waiting") = {} /\ Slots = {} /\ Cardinality({}) = 0
  BY FS_EmptySet DEF LimiterInit, At, Slots
<1>2. LimiterTypes
  BY DEF LimiterInit, LimiterTypes, Phases
<1>3. Listed(waiters, At("waiting"))
  <2>1. waiters = << >> /\ Len(waiters) = 0 /\ waiters \in Seq(Requests) /\ DOMAIN waiters = {}
    BY DEF LimiterInit
  <2>2. {waiters[k] : k \in DOMAIN waiters} = {}
    BY <2>1
  <2> QED BY <1>1, <2>1, <2>2 DEF Listed
<1>4. SlotsAreHeld
  BY <1>1, LimiterAssumption DEF LimiterInit, SlotsAreHeld
<1>5. \A r \in Requests : sent[r] = << >>
  BY DEF LimiterInit
<1>6. CallsInSlots
  <2>1. Len(RetryDelays) \in Nat /\ Len(<< >>) = 0
    BY LimiterAssumption
  <2>2. \A r \in Requests : r \notin Slots /\ phase[r] # "backoff"
    BY <1>1 DEF LimiterInit
  <2> QED BY <1>5, <2>1, <2>2 DEF CallsInSlots
<1>7. Remembered(history, sent) /\ Len(history) <= RequestsPerMinute
  <2>1. Young(sent) = {}
    BY <1>5 DEF Young
  <2>2. history = << >> /\ Len(history) = 0 /\ RequestsPerMinute \in Nat
    BY LimiterAssumption DEF LimiterInit
  <2> DEFINE f == [r \in Young(sent) |-> 1]
  <2>3. f \in [Young(sent) -> DOMAIN history]
    BY <2>1
  <2>4. /\ \A r, o \in Young(sent) : f[r] = f[o] => r = o
        /\ \A r \in Young(sent) : history[f[r]] = sent[r][1]
    BY <2>1
  <2> HIDE DEF f
  <2>5. Remembered(history, sent)
    BY <2>3, <2>4 DEF Remembered
  <2> QED BY <2>2, <2>5
<1>8. \A x \in 0..(Window - 1) : Cardinality(Across(x)) <= MaxConcurrent
  <2>1. \A x \in 0..(Window - 1) : Across(x) = {}
    BY <1>5 DEF Across
  <2>2. MaxConcurrent \in Nat
    BY LimiterAssumption
  <2>3. ASSUME NEW x \in 0..(Window - 1) PROVE Cardinality(Across(x)) <= MaxConcurrent
    <3>1. Cardinality(Across(x)) = 0
      BY <1>1, <2>1
    <3> QED BY <2>2, <3>1
  <2> QED BY <2>3
<1> QED BY <1>2, <1>3, <1>4, <1>6, <1>7, <1>8 DEF LimiterInv

\* A step that makes no call and gives no slot keeps what is said of calls and windows,
\* if the history still covers them.
LEMMA NoCall ==
  ASSUME LimiterInv, sent' = sent, Slots' \subseteq Slots,
         \A r \in Requests :
           /\ phase'[r] \in {"new", "sleeping", "waiting", "woken"} =>
                phase[r] \in {"new", "sleeping", "waiting", "woken"}
           /\ phase'[r] = "backoff" => Len(sent[r]) <= Len(RetryDelays)
  PROVE  CallsInSlots' /\ (\A x \in 0..(Window - 1) : Cardinality(Across(x)) <= MaxConcurrent)'
<1>1. CallsInSlots'
  BY DEF LimiterInv, CallsInSlots
<1>2. (\A x \in 0..(Window - 1) : Cardinality(Across(x)) <= MaxConcurrent)'
  BY NobodyCrosses DEF LimiterInv
<1> QED BY <1>1, <1>2

\* A request moves to the back of the timers, of the waiters or among those who hold;
\* whatever it finds, the loop prunes first.
LEMMA CheckKeeps ==
  ASSUME LimiterInv, NEW r \in Requests, Check(r)
  PROVE  LimiterInv'
<1> DEFINE h == Pruned(history)
<1>1. LimiterTypes /\ phase[r] \in {"new", "woken", "sleeping"} /\ sent[r] = << >>
  BY DEF LimiterInv, Check, Due, CallsInSlots
<1>2. /\ Window \in Nat /\ Window >= 1 /\ RequestsPerMinute \in Nat /\ RequestsPerMinute >= 1
      /\ MaxConcurrent \in Nat
  BY LimiterAssumption
<1>3. h \in Seq(0..Window) /\ Len(h) <= Len(history) /\ Remembered(h, sent)
  <2>1. \A o \in Young(sent) : sent[o][1] \in 0..Window
    <3>1. SUFFICES ASSUME NEW o \in Young(sent) PROVE sent[o][1] \in 0..Window
      OBVIOUS
    <3>2. sent[o] \in Seq(0..Window) /\ sent[o] # << >>
      BY <1>1 DEF Young, LimiterTypes
    <3>3. Len(sent[o]) \in Nat /\ Len(sent[o]) # 0 /\ DOMAIN sent[o] = 1..Len(sent[o])
      BY <3>2, Entries, EmptySeq
    <3>4. 1 \in DOMAIN sent[o]
      BY <3>3
    <3> QED BY <3>2, <3>4, Entries
  <2>2. history \in Seq(0..Window) /\ Remembered(history, sent)
    BY <1>1 DEF LimiterInv, LimiterTypes
  <2> QED BY <2>1, <2>2, PrunedCovers
<1>4. Len(h) \in Nat /\ DOMAIN h = 1..Len(h) /\ (\A k \in DOMAIN h : h[k] \in 0..Window) /\ Len(history) \in Nat
  <2>1. history \in Seq(0..Window)
    BY <1>1 DEF LimiterTypes
  <2> QED BY <1>3, <2>1, Entries
<1>5. Len(h) <= RequestsPerMinute
  BY <1>2, <1>3, <1>4 DEF LimiterInv
<1>6. UNCHANGED <<aborted, blocked>>
  BY DEF Check
<1> HIDE DEF h
<1>7. ASSUME NEW ticks \in Nat, SleepFor(r, ticks), history' = h PROVE LimiterInv'
  <2>1. /\ phase' \in [Requests -> Phases] /\ phase'[r] = "sleeping"
        /\ \A o \in Requests : o # r => phase'[o] = phase[o]
        /\ At("waiting")' = At("waiting")
    BY <1>1, <1>7, Moves DEF SleepFor, Phases, LimiterTypes
  <2>2. Slots' = Slots
    BY <1>1, <2>1 DEF Slots
  <2>3. LimiterTypes'
    BY <1>1, <1>3, <1>6, <1>7, <2>1 DEF SleepFor, LimiterTypes
  <2>4. Listed(waiters, At("waiting"))' /\ SlotsAreHeld'
    BY <1>7, <2>1, <2>2 DEF SleepFor, LimiterInv, SlotsAreHeld
  <2>5. CallsInSlots' /\ (\A x \in 0..(Window - 1) : Cardinality(Across(x)) <= MaxConcurrent)'
    <3>1. sent' = sent /\ Slots' \subseteq Slots
      BY <1>7, <2>2 DEF SleepFor
    <3>2. \A o \in Requests :
            /\ phase'[o] \in {"new", "sleeping", "waiting", "woken"} =>
                 phase[o] \in {"new", "sleeping", "waiting", "woken"}
            /\ phase'[o] = "backoff" => Len(sent[o]) <= Len(RetryDelays)
      BY <1>1, <2>1 DEF LimiterInv, CallsInSlots
    <3> QED BY <3>1, <3>2, NoCall
  <2>6. Remembered(history, sent)' /\ (Len(history) <= RequestsPerMinute)'
    BY <1>3, <1>5, <1>7 DEF SleepFor
  <2> QED BY <2>3, <2>4, <2>5, <2>6 DEF LimiterInv
<1>8. ASSUME WaitForRelease(r), history' = h PROVE LimiterInv'
  <2>1. /\ phase' \in [Requests -> Phases] /\ phase'[r] = "waiting"
        /\ \A o \in Requests : o # r => phase'[o] = phase[o]
        /\ At("waiting")' = At("waiting") \cup {r} /\ r \notin At("waiting")
    BY <1>1, <1>8, Moves DEF WaitForRelease, Phases, LimiterTypes
  <2>2. Slots' = Slots
    BY <1>1, <2>1 DEF Slots
  <2>3. LimiterTypes'
    BY <1>1, <1>3, <1>6, <1>8, <2>1 DEF WaitForRelease, LimiterTypes
  <2>4. Listed(waiters, At("waiting"))'
    <3>1. Listed(Append(waiters, r), At("waiting") \cup {r})
      BY <2>1, AtFinite, Joins DEF LimiterInv
    <3> QED BY <1>8, <2>1, <3>1 DEF WaitForRelease
  <2>5. SlotsAreHeld'
    BY <1>8, <2>2 DEF WaitForRelease, LimiterInv, SlotsAreHeld
  <2>6. CallsInSlots' /\ (\A x \in 0..(Window - 1) : Cardinality(Across(x)) <= MaxConcurrent)'
    <3>1. sent' = sent /\ Slots' \subseteq Slots
      BY <1>8, <2>2 DEF WaitForRelease
    <3>2. \A o \in Requests :
            /\ phase'[o] \in {"new", "sleeping", "waiting", "woken"} =>
                 phase[o] \in {"new", "sleeping", "waiting", "woken"}
            /\ phase'[o] = "backoff" => Len(sent[o]) <= Len(RetryDelays)
      BY <1>1, <2>1 DEF LimiterInv, CallsInSlots
    <3> QED BY <3>1, <3>2, NoCall
  <2>7. Remembered(history, sent)' /\ (Len(history) <= RequestsPerMinute)'
    BY <1>3, <1>5, <1>8 DEF WaitForRelease
  <2> QED BY <2>3, <2>4, <2>5, <2>6, <2>7 DEF LimiterInv
<1>9. ASSUME Own(r, h), Len(h) < RequestsPerMinute, inFlight < MaxConcurrent PROVE LimiterInv'
  <2>1. /\ phase' = [phase EXCEPT ![r] = "holding"] /\ sent' = [sent EXCEPT ![r] = Append(@, 0)]
        /\ inFlight' = inFlight + 1 /\ history' = Append(h, 0) /\ UNCHANGED <<timer, waiters>>
    BY <1>9 DEF Own, Ask
  <2>2. /\ phase' \in [Requests -> Phases] /\ phase'[r] = "holding"
        /\ \A o \in Requests : o # r => phase'[o] = phase[o]
        /\ At("waiting")' = At("waiting")
    BY <1>1, <2>1, Moves DEF Phases, LimiterTypes
  <2>3. Slots' = Slots \cup {r} /\ r \notin Slots
    BY <1>1, <2>2 DEF Slots
  <2>4. sent'[r] = <<0>> /\ \A o \in Requests : o # r => sent'[o] = sent[o]
    BY <1>1, <2>1 DEF LimiterTypes
  <2>5. /\ Append(h, 0) \in Seq(0..Window) /\ Len(Append(h, 0)) = Len(h) + 1
        /\ Remembered(Append(h, 0), [sent EXCEPT ![r] = Append(@, 0)])
    BY <1>1, <1>3, AcquisitionIsRemembered DEF LimiterTypes
  <2>6. sent' \in [Requests -> Seq(0..Window)]
    <3>1. 0 \in 0..Window
      BY <1>2
    <3>2. <<0>> \in Seq(0..Window)
      BY <3>1
    <3> QED BY <1>1, <2>1, <2>4, <3>2 DEF LimiterTypes
  <2>7. LimiterTypes'
    BY <1>1, <1>6, <2>1, <2>2, <2>5, <2>6 DEF LimiterTypes
  <2>8. Listed(waiters, At("waiting"))'
    BY <2>1, <2>2 DEF LimiterInv
  <2>9. SlotsAreHeld'
    <3>1. Cardinality(Slots \cup {r}) = Cardinality(Slots) + 1
      BY <2>3, SlotsFinite, FS_AddElement
    <3>2. inFlight \in Nat /\ inFlight = Cardinality(Slots)
      BY <1>1 DEF LimiterTypes, LimiterInv, SlotsAreHeld
    <3>3. inFlight' = Cardinality(Slots') /\ inFlight' <= MaxConcurrent
      BY <1>2, <1>9, <2>1, <2>3, <3>1, <3>2
    <3> QED BY <3>3 DEF SlotsAreHeld
  <2>10. CallsInSlots'
    <3>1. Len(RetryDelays) \in Nat /\ Len(<<0>>) = 1 /\ <<0>> # << >>
      BY LimiterAssumption
    <3>2. \A o \in Requests : o # r => (o \in Slots' <=> o \in Slots)
      BY <2>3
    <3>3. ASSUME NEW o \in Requests, o # r
          PROVE  /\ o \in Slots' => sent'[o] # << >>
                 /\ phase'[o] \in {"new", "sleeping", "waiting", "woken"} => sent'[o] = << >>
                 /\ Len(sent'[o]) <= Len(RetryDelays) + 1
                 /\ phase'[o] = "backoff" => Len(sent'[o]) <= Len(RetryDelays)
      BY <2>2, <2>4, <3>2, <3>3 DEF LimiterInv, CallsInSlots
    <3>4. /\ sent'[r] # << >> /\ Len(sent'[r]) <= Len(RetryDelays) + 1
          /\ phase'[r] \notin {"new", "sleeping", "waiting", "woken", "backoff"}
      BY <2>2, <2>4, <3>1
    <3> QED BY <3>3, <3>4 DEF CallsInSlots
  <2>11. (\A x \in 0..(Window - 1) : Cardinality(Across(x)) <= MaxConcurrent)'
    <3>1. \A o \in Requests :
            \/ sent'[o] = sent[o] /\ (o \in Slots' => o \in Slots)
            \/ sent'[o] # << >> /\ sent'[o][1] = 0
      BY <2>3, <2>4
    <3> QED BY <1>1, <3>1, NobodyCrosses DEF LimiterInv
  <2>12. Remembered(history, sent)' /\ (Len(history) <= RequestsPerMinute)'
    BY <1>2, <1>4, <1>9, <2>1, <2>5
  <2> QED BY <2>7, <2>8, <2>9, <2>10, <2>11, <2>12 DEF LimiterInv
<1>10. \/ blocked > 0 /\ SleepFor(r, blocked) /\ history' = h
       \/ /\ blocked = 0 /\ Len(h) >= RequestsPerMinute
          /\ SleepFor(r, IF Window - h[1] > 1 THEN Window - h[1] ELSE 1) /\ history' = h
       \/ WaitForRelease(r) /\ history' = h
       \/ Len(h) < RequestsPerMinute /\ inFlight < MaxConcurrent /\ Own(r, h)
  BY DEF Check, h
<1>11. CASE blocked > 0 /\ SleepFor(r, blocked) /\ history' = h
  BY <1>1, <1>7, <1>11 DEF LimiterTypes
<1>12. CASE /\ blocked = 0 /\ Len(h) >= RequestsPerMinute
            /\ SleepFor(r, IF Window - h[1] > 1 THEN Window - h[1] ELSE 1) /\ history' = h
  <2>1. h[1] \in 0..Window
    BY <1>2, <1>4, <1>12
  <2>2. (IF Window - h[1] > 1 THEN Window - h[1] ELSE 1) \in Nat
    BY <1>2, <2>1
  <2> QED BY <1>7, <1>12, <2>2
<1> QED BY <1>8, <1>9, <1>10, <1>11, <1>12

\* A request that finds its signal fired neither waited nor held a slot.
LEMMA CheckAbortedKeeps ==
  ASSUME LimiterInv, NEW r \in Requests, CheckAborted(r)
  PROVE  LimiterInv'
<1>1. LimiterTypes /\ phase[r] \in {"new", "woken", "sleeping"}
  BY DEF LimiterInv, CheckAborted, Due
<1>2. /\ phase' \in [Requests -> Phases] /\ phase'[r] = "over"
      /\ \A o \in Requests : o # r => phase'[o] = phase[o]
      /\ At("waiting")' = At("waiting")
  BY <1>1, Moves DEF CheckAborted, Phases, LimiterTypes
<1>3. Slots' = Slots
  BY <1>1, <1>2 DEF Slots
<1>4. LimiterTypes'
  BY <1>1, <1>2 DEF CheckAborted, LimiterTypes
<1>5. CallsInSlots' /\ (\A x \in 0..(Window - 1) : Cardinality(Across(x)) <= MaxConcurrent)'
  <2>1. sent' = sent /\ Slots' \subseteq Slots
    BY <1>3 DEF CheckAborted
  <2>2. \A o \in Requests :
          /\ phase'[o] \in {"new", "sleeping", "waiting", "woken"} =>
               phase[o] \in {"new", "sleeping", "waiting", "woken"}
          /\ phase'[o] = "backoff" => Len(sent[o]) <= Len(RetryDelays)
    BY <1>2 DEF LimiterInv, CallsInSlots
  <2> QED BY <2>1, <2>2, NoCall
<1>6. SlotsAreHeld' /\ Remembered(history, sent)' /\ Listed(waiters, At("waiting"))'
  BY <1>2, <1>3 DEF CheckAborted, LimiterInv, SlotsAreHeld
<1> QED BY <1>4, <1>5, <1>6 DEF CheckAborted, LimiterInv

\* Who is cancelled while it waits leaves the list; who holds a slot keeps it.
LEMMA AbortKeeps ==
  ASSUME LimiterInv, NEW r \in Requests, Abort(r)
  PROVE  LimiterInv'
<1>1. LimiterTypes /\ phase[r] \in Phases
  BY DEF LimiterInv, LimiterTypes
<1>2. /\ phase' \in [Requests -> Phases] /\ Slots' = Slots
      /\ At("waiting")' = At("waiting") \ {r}
      /\ \A o \in Requests : phase'[o] = phase[o] \/ phase'[o] = "over"
  <2>1. CASE phase[r] \in {"sleeping", "waiting"}
    <3>1. phase' = [phase EXCEPT ![r] = "over"]
      BY <2>1 DEF Abort
    <3>2. phase' \in [Requests -> Phases] /\ phase'[r] = "over" /\ \A o \in Requests : o # r => phase'[o] = phase[o]
      BY <1>1, <3>1 DEF Phases, LimiterTypes
    <3>3. Slots' = Slots
      BY <2>1, <3>2 DEF Slots
    <3>4. At("waiting")' = At("waiting") \ {r}
      BY <3>2 DEF At
    <3> QED BY <3>2, <3>3, <3>4
  <2>2. CASE phase[r] \notin {"sleeping", "waiting"}
    <3>1. phase' = phase
      BY <2>2 DEF Abort
    <3>2. r \notin At("waiting")
      BY <2>2 DEF At
    <3> QED BY <1>1, <3>1, <3>2 DEF At, Slots, LimiterTypes
  <2> QED BY <2>1, <2>2
<1>3. LimiterTypes'
  BY <1>1, <1>2 DEF Abort, LimiterTypes
<1>4. Listed(waiters, At("waiting"))'
  <2>1. Listed(Without(waiters, r), At("waiting") \ {r})
    BY AtFinite, OneLeaves DEF LimiterInv
  <2> QED BY <1>2, <2>1 DEF Abort
<1>5. CallsInSlots' /\ (\A x \in 0..(Window - 1) : Cardinality(Across(x)) <= MaxConcurrent)'
  <2>1. sent' = sent /\ Slots' \subseteq Slots
    BY <1>2 DEF Abort
  <2>2. \A o \in Requests :
          /\ phase'[o] \in {"new", "sleeping", "waiting", "woken"} =>
               phase[o] \in {"new", "sleeping", "waiting", "woken"}
          /\ phase'[o] = "backoff" => Len(sent[o]) <= Len(RetryDelays)
    BY <1>2 DEF LimiterInv, CallsInSlots
  <2> QED BY <2>1, <2>2, NoCall
<1>6. SlotsAreHeld' /\ Remembered(history, sent)'
  BY <1>2 DEF Abort, LimiterInv, SlotsAreHeld
<1> QED BY <1>3, <1>4, <1>5, <1>6 DEF Abort, LimiterInv

\* A slot is given back once, and the oldest waiter may look again.
LEMMA GiveBackKeeps ==
  ASSUME LimiterInv, NEW r \in Requests, r \in Slots, GiveBack(r), UNCHANGED <<history, sent>>,
         timer' \in [Requests -> Nat], aborted' \in SUBSET Requests, blocked' \in Nat
  PROVE  LimiterInv' /\ phase'[r] = "over"
<1>1. LimiterTypes /\ phase[r] \in {"holding", "backoff"}
  BY DEF LimiterInv, Slots
<1>2. /\ phase' \in [Requests -> Phases] /\ phase'[r] = "over" /\ Slots' = Slots \ {r}
      /\ Listed(waiters', At("waiting")')
      /\ \A o \in Requests : \/ phase'[o] = phase[o] \/ phase'[o] = "over"
                             \/ phase[o] = "waiting" /\ phase'[o] = "woken"
  <2>1. CASE waiters = << >>
    <3>1. waiters' = waiters /\ phase' = [phase EXCEPT ![r] = "over"]
      BY <2>1 DEF GiveBack, Wake
    <3>2. phase' \in [Requests -> Phases] /\ phase'[r] = "over" /\ \A o \in Requests : o # r => phase'[o] = phase[o]
      BY <1>1, <3>1 DEF Phases, LimiterTypes
    <3>3. At("waiting")' = At("waiting") /\ Slots' = Slots \ {r}
      BY <1>1, <3>2 DEF At, Slots
    <3> QED BY <3>1, <3>2, <3>3 DEF LimiterInv
  <2>2. CASE waiters # << >>
    <3> DEFINE w == Head(waiters)
    <3>1. w \in At("waiting") /\ w \in Requests /\ Listed(Tail(waiters), At("waiting") \ {w})
      BY <2>2, AtFinite, FirstLeaves DEF LimiterInv
    <3>2. waiters' = Tail(waiters) /\ phase' = [phase EXCEPT ![r] = "over", ![w] = "woken"]
      BY <2>2 DEF GiveBack, Wake
    <3> HIDE DEF w
    <3>3. phase[w] = "waiting" /\ w # r
      BY <1>1, <3>1 DEF At
    <3>4. /\ phase' \in [Requests -> Phases] /\ phase'[r] = "over" /\ phase'[w] = "woken"
          /\ \A o \in Requests : o # r /\ o # w => phase'[o] = phase[o]
      BY <1>1, <3>1, <3>2, <3>3 DEF LimiterTypes, Phases
    <3>5. At("waiting")' = At("waiting") \ {w}
      BY <1>1, <3>3, <3>4 DEF At
    <3>6. Slots' = Slots \ {r}
      BY <1>1, <3>3, <3>4 DEF Slots
    <3> QED BY <3>1, <3>2, <3>3, <3>4, <3>5, <3>6
  <2> QED BY <2>1, <2>2
<1>3. Cardinality(Slots \ {r}) = Cardinality(Slots) - 1 /\ Cardinality(Slots) >= 1
  <2>1. Cardinality(Slots \ {r}) = Cardinality(Slots) - 1
    BY SlotsFinite, FS_RemoveElement
  <2>2. Cardinality(Slots \ {r}) \in Nat
    BY SlotsFinite, FS_RemoveElement, FS_CardinalityType
  <2> QED BY <2>1, <2>2, SlotsFinite
<1>4. /\ inFlight \in Nat /\ inFlight = Cardinality(Slots) /\ inFlight <= MaxConcurrent
      /\ inFlight' = IF inFlight > 0 THEN inFlight - 1 ELSE 0
  BY <1>1 DEF LimiterTypes, LimiterInv, SlotsAreHeld, GiveBack
<1>5. inFlight' \in Nat /\ inFlight' = Cardinality(Slots') /\ inFlight' <= MaxConcurrent
  <2>1. inFlight' = inFlight - 1 /\ inFlight >= 1
    BY <1>3, <1>4
  <2>2. inFlight' = Cardinality(Slots')
    BY <1>2, <1>3, <1>4, <2>1
  <2>3. MaxConcurrent \in Nat
    BY LimiterAssumption
  <2> QED BY <1>4, <2>1, <2>2, <2>3
<1>6. LimiterTypes'
  BY <1>1, <1>2, <1>5 DEF LimiterTypes
<1>7. SlotsAreHeld'
  BY <1>5 DEF SlotsAreHeld
<1>8. CallsInSlots' /\ (\A x \in 0..(Window - 1) : Cardinality(Across(x)) <= MaxConcurrent)'
  <2>1. sent' = sent /\ Slots' \subseteq Slots
    BY <1>2
  <2>2. \A o \in Requests :
          /\ phase'[o] \in {"new", "sleeping", "waiting", "woken"} =>
               phase[o] \in {"new", "sleeping", "waiting", "woken"}
          /\ phase'[o] = "backoff" => Len(sent[o]) <= Len(RetryDelays)
    BY <1>2 DEF LimiterInv, CallsInSlots
  <2> QED BY <2>1, <2>2, NoCall
<1> QED BY <1>2, <1>6, <1>7, <1>8 DEF LimiterInv

\* The generation ends; the cooldown is armed first.
LEMMA EndCallKeeps ==
  ASSUME LimiterInv, NEW r \in Requests, NEW d \in Nat, EndCall(r, d)
  PROVE  LimiterInv' /\ phase'[r] = "over"
<1>1. LimiterTypes
  BY DEF LimiterInv
<1>2. r \in Slots /\ GiveBack(r) /\ UNCHANGED <<timer, aborted, history, sent>>
  BY DEF EndCall, Slots
<1>3. timer' \in [Requests -> Nat] /\ aborted' \in SUBSET Requests /\ blocked' \in Nat
  BY <1>1, <1>2 DEF EndCall, Armed, LimiterTypes
<1> QED BY <1>2, <1>3, GiveBackKeeps

\* A request is cancelled in the delay before a retry.
LEMMA AbandonKeeps ==
  ASSUME LimiterInv, NEW r \in Requests, Abandon(r)
  PROVE  LimiterInv' /\ phase'[r] = "over"
<1>1. LimiterTypes
  BY DEF LimiterInv
<1>2. r \in Slots /\ GiveBack(r) /\ UNCHANGED <<history, blocked, sent>>
  BY DEF Abandon, Slots
<1>3. timer' \in [Requests -> Nat] /\ aborted' \in SUBSET Requests /\ blocked' \in Nat
  BY <1>1, <1>2 DEF Abandon, LimiterTypes
<1> QED BY <1>2, <1>3, GiveBackKeeps

\* A request that is refused with a 503 stays in its slot.
LEMMA UnavailableKeeps ==
  ASSUME LimiterInv, NEW r \in Requests, Unavailable(r)
  PROVE  LimiterInv'
<1>1. LimiterTypes /\ phase[r] = "holding" /\ r \in Slots
  BY DEF LimiterInv, Unavailable, Slots
<1>2. /\ phase' \in [Requests -> Phases] /\ phase'[r] = "backoff"
      /\ \A o \in Requests : o # r => phase'[o] = phase[o]
      /\ At("waiting")' = At("waiting")
  BY <1>1, Moves DEF Unavailable, Phases, LimiterTypes
<1>3. Slots' = Slots
  BY <1>1, <1>2 DEF Slots
<1>4. timer' \in [Requests -> Nat]
  <2>1. sent[r] # << >> /\ sent[r] \in Seq(0..Window)
    BY <1>1 DEF LimiterInv, CallsInSlots, LimiterTypes
  <2>2. Len(sent[r]) \in Nat /\ Len(sent[r]) # 0 /\ Len(sent[r]) <= Len(RetryDelays)
    BY <2>1, EmptySeq DEF Unavailable
  <2>3. RetryDelays \in Seq(Nat)
    BY LimiterAssumption
  <2>4. RetryDelays[Len(sent[r])] \in Nat
    BY <2>2, <2>3, Entries
  <2> QED BY <1>1, <2>4 DEF Unavailable, LimiterTypes
<1>5. LimiterTypes'
  BY <1>1, <1>2, <1>4 DEF Unavailable, LimiterTypes
<1>6. CallsInSlots' /\ (\A x \in 0..(Window - 1) : Cardinality(Across(x)) <= MaxConcurrent)'
  <2>1. sent' = sent /\ Slots' \subseteq Slots
    BY <1>3 DEF Unavailable
  <2>2. \A o \in Requests :
          /\ phase'[o] \in {"new", "sleeping", "waiting", "woken"} =>
               phase[o] \in {"new", "sleeping", "waiting", "woken"}
          /\ phase'[o] = "backoff" => Len(sent[o]) <= Len(RetryDelays)
    BY <1>2 DEF LimiterInv, CallsInSlots, Unavailable
  <2> QED BY <2>1, <2>2, NoCall
<1>7. SlotsAreHeld' /\ Remembered(history, sent)' /\ Listed(waiters, At("waiting"))'
  BY <1>2, <1>3 DEF Unavailable, LimiterInv, SlotsAreHeld
<1> QED BY <1>5, <1>6, <1>7 DEF Unavailable, LimiterInv

\* The retry is a call of a request that is covered, in a slot that is held.
LEMMA AskAgainKeeps ==
  ASSUME LimiterInv, NEW r \in Requests, AskAgain(r)
  PROVE  LimiterInv'
<1>1. LimiterTypes /\ phase[r] = "backoff" /\ r \in Slots
  BY DEF LimiterInv, AskAgain, Slots
<1>2. /\ phase' = [phase EXCEPT ![r] = "holding"] /\ sent' = [sent EXCEPT ![r] = Append(@, 0)]
      /\ UNCHANGED <<timer, aborted, inFlight, history, blocked, waiters>>
  BY DEF AskAgain, Ask
<1>3. /\ phase' \in [Requests -> Phases] /\ phase'[r] = "holding"
      /\ \A o \in Requests : o # r => phase'[o] = phase[o]
      /\ At("waiting")' = At("waiting")
  BY <1>1, <1>2, Moves DEF Phases, LimiterTypes
<1>4. Slots' = Slots
  BY <1>1, <1>3 DEF Slots
<1>5. /\ sent[r] \in Seq(0..Window) /\ sent[r] # << >> /\ Len(sent[r]) \in Nat /\ Len(sent[r]) >= 1
      /\ Len(sent[r]) <= Len(RetryDelays)
  <2>1. sent[r] \in Seq(0..Window) /\ sent[r] # << >> /\ Len(sent[r]) <= Len(RetryDelays)
    BY <1>1 DEF LimiterInv, CallsInSlots, LimiterTypes
  <2>2. Len(sent[r]) \in Nat /\ Len(sent[r]) # 0
    BY <2>1, EmptySeq
  <2> QED BY <2>1, <2>2
<1>6. /\ sent'[r] \in Seq(0..Window) /\ Len(sent'[r]) = Len(sent[r]) + 1
      /\ sent'[r][1] = sent[r][1] /\ sent'[r] # << >>
      /\ \A o \in Requests : o # r => sent'[o] = sent[o]
  <2>1. sent'[r] = Append(sent[r], 0) /\ \A o \in Requests : o # r => sent'[o] = sent[o]
    BY <1>1, <1>2 DEF LimiterTypes
  <2>2. 0 \in 0..Window
    BY LimiterAssumption
  <2>3. /\ Append(sent[r], 0) \in Seq(0..Window) /\ Len(Append(sent[r], 0)) = Len(sent[r]) + 1
        /\ Append(sent[r], 0)[1] = sent[r][1]
    BY <1>5, <2>2, AppendProperties
  <2>4. Append(sent[r], 0) # << >>
    BY <1>5, <2>3
  <2> QED BY <2>1, <2>3, <2>4
<1>7. sent' \in [Requests -> Seq(0..Window)]
  BY <1>1, <1>2, <1>6 DEF LimiterTypes
<1>8. LimiterTypes'
  BY <1>1, <1>2, <1>3, <1>7 DEF LimiterTypes
<1>9. CallsInSlots'
  <2>1. Len(RetryDelays) \in Nat
    BY LimiterAssumption
  <2>2. Len(sent'[r]) <= Len(RetryDelays) + 1
    BY <1>5, <1>6, <2>1
  <2> QED BY <1>3, <1>4, <1>6, <2>2 DEF LimiterInv, CallsInSlots
<1>10. (\A x \in 0..(Window - 1) : Cardinality(Across(x)) <= MaxConcurrent)'
  <2>1. \A o \in Requests :
          \/ sent'[o] = sent[o] /\ (o \in Slots' => o \in Slots)
          \/ o \in Slots /\ sent[o] # << >> /\ sent'[o][1] = sent[o][1]
    BY <1>1, <1>4, <1>5, <1>6
  <2> QED BY <1>1, <2>1, NobodyCrosses DEF LimiterInv
<1>11. Remembered(history, sent)'
  <2>1. Remembered(history, [sent EXCEPT ![r] = Append(@, 0)])
    BY <1>1, <1>5, AnotherCall DEF LimiterInv, LimiterTypes
  <2> QED BY <1>2, <2>1
<1>12. SlotsAreHeld' /\ Listed(waiters, At("waiting"))'
  BY <1>2, <1>3, <1>4 DEF LimiterInv, SlotsAreHeld
<1> QED BY <1>2, <1>8, <1>9, <1>10, <1>11, <1>12 DEF LimiterInv

\* Time changes what is remembered and called, and nobody's place.
LEMMA TickKeeps ==
  ASSUME LimiterInv, Tick
  PROVE  LimiterInv'
<1>1. LimiterTypes
  BY DEF LimiterInv
<1>2. At("waiting")' = At("waiting") /\ Slots' = Slots /\ phase' = phase
  BY DEF Tick, At, Slots
<1>3. timer' \in [Requests -> Nat] /\ blocked' \in Nat
  BY <1>1 DEF Tick, Less, LimiterTypes
<1>4. history' = Older(history) /\ sent' = [r \in Requests |-> Aged(r)]
  BY DEF Tick
<1>5. Older(history) \in Seq(0..Window) /\ Len(Older(history)) = Len(history)
  BY <1>1, OlderAges DEF LimiterTypes
<1>6. sent' \in [Requests -> Seq(0..Window)]
  BY <1>1, <1>4, AgedCalls
<1>7. LimiterTypes'
  BY <1>1, <1>3, <1>4, <1>5, <1>6 DEF Tick, LimiterTypes
<1>8. Remembered(history, sent)' /\ (Len(history) <= RequestsPerMinute)'
  BY <1>1, <1>4, <1>5, AllGrowOlder DEF LimiterInv
<1>9. Listed(waiters, At("waiting"))' /\ SlotsAreHeld'
  BY <1>2 DEF Tick, LimiterInv, SlotsAreHeld
<1>10. CallsInSlots'
  <2>1. SUFFICES ASSUME NEW r \in Requests
                 PROVE  /\ r \in Slots => sent'[r] # << >>
                        /\ phase[r] \in {"new", "sleeping", "waiting", "woken"} => sent'[r] = << >>
                        /\ Len(sent'[r]) <= Len(RetryDelays) + 1
                        /\ phase[r] = "backoff" => Len(sent'[r]) <= Len(RetryDelays)
    BY <1>2 DEF CallsInSlots
  <2>2. /\ r \in Slots => sent[r] # << >>
        /\ phase[r] \in {"new", "sleeping", "waiting", "woken"} => sent[r] = << >>
        /\ Len(sent[r]) <= Len(RetryDelays) + 1
        /\ phase[r] = "backoff" => Len(sent[r]) <= Len(RetryDelays)
    BY DEF LimiterInv, CallsInSlots
  <2>3. /\ sent'[r] = Aged(r) /\ Aged(r) \in Seq(0..Window) /\ Len(Aged(r)) <= Len(sent[r])
        /\ r \in Slots => Aged(r) = Older(sent[r])
        /\ sent[r] = << >> => Aged(r) = << >>
    BY <1>1, <1>4, AgedCalls
  <2>4. sent[r] \in Seq(0..Window)
    BY <1>1 DEF LimiterTypes
  <2>5. Len(sent[r]) \in Nat /\ Len(Aged(r)) \in Nat /\ Len(RetryDelays) \in Nat
    BY <2>3, <2>4, LimiterAssumption
  <2>6. ASSUME r \in Slots PROVE sent'[r] # << >>
    <3>1. Len(Older(sent[r])) = Len(sent[r]) /\ Len(sent[r]) # 0
      BY <2>2, <2>4, <2>6, OlderAges, EmptySeq
    <3>2. Len(sent'[r]) # 0
      BY <2>3, <2>6, <3>1
    <3> QED BY <3>2
  <2>7. Len(sent'[r]) <= Len(RetryDelays) + 1 /\ (phase[r] = "backoff" => Len(sent'[r]) <= Len(RetryDelays))
    BY <2>2, <2>3, <2>5
  <2> QED BY <2>2, <2>3, <2>6, <2>7
<1>11. (\A x \in 0..(Window - 1) : Cardinality(Across(x)) <= MaxConcurrent)'
  BY <1>1, TickCrosses DEF LimiterInv
<1> QED BY <1>7, <1>8, <1>9, <1>10, <1>11 DEF LimiterInv

\* The invariant of the limiter is inductive.
LEMMA LimiterStep == LimiterInv /\ [LimiterNext]_limiterVars => LimiterInv'
<1> SUFFICES ASSUME LimiterInv, [LimiterNext]_limiterVars PROVE LimiterInv'
  OBVIOUS
<1>1. ASSUME NEW r \in Requests, Release(r) PROVE LimiterInv'
  <2>1. PICK d \in (IF r \in aborted THEN {0} ELSE {0} \cup Cooldowns) : EndCall(r, d)
    BY <1>1 DEF Release
  <2>2. d \in Nat
    BY LimiterAssumption
  <2> QED BY <2>1, <2>2, EndCallKeeps
<1>2. CASE UNCHANGED limiterVars
  <2>1. At("waiting")' = At("waiting") /\ Slots' = Slots /\ \A x : Across(x)' = Across(x)
    BY <1>2 DEF limiterVars, At, Slots, Across
  <2> QED BY <1>2, <2>1 DEF limiterVars, LimiterInv, LimiterTypes, SlotsAreHeld, CallsInSlots
<1> QED BY <1>1, <1>2, CheckKeeps, CheckAbortedKeeps, AbortKeeps, UnavailableKeeps, AskAgainKeeps, AbandonKeeps,
           TickKeeps DEF LimiterNext, Done

\* Whatever requests, signals, answers, retries and ticks come in whatever order, the
\* limiter's counter, list and history are what they stand for (rate-limiter.ts): each
\* slot acquired in the window has an entry of its own.  The history says nothing of
\* the retries of a 503 (gemini.ts); of them, that a request makes no more than its
\* delays allow, and that those who cross a moment had a slot at it.
THEOREM LimiterInvariance == LimiterSpec => []LimiterInv
BY LimiterStarts, LimiterStep, PTL DEF LimiterSpec

\* Every variable of the limiter has its type, and its list holds who waits, once.
THEOREM LimiterTypeCorrect == LimiterSpec => []LimiterTypeOK
<1>1. LimiterInv => LimiterTypeOK
  BY DEF LimiterInv, LimiterTypes, Listed, LimiterTypeOK, Phases
<1> QED BY <1>1, LimiterInvariance, PTL

\* More of what is not less is not less.
LEMMA Multiples ==
  ASSUME NEW a \in Nat, NEW b \in Nat, NEW c \in Nat, a <= b
  PROVE  a * c <= b * c
<1>1. PICK d \in Nat : b = a + d
  <2>1. b - a \in Nat /\ b = a + (b - a)
    OBVIOUS
  <2> QED BY <2>1
<1>2. b * c = a * c + d * c
  BY <1>1
<1>3. d * c \in Nat /\ a * c \in Nat
  OBVIOUS
<1> QED BY <1>2, <1>3

\* The slots acquired in a window are within the budget, since each is remembered.
LEMMA AcquiredAreFew ==
  ASSUME LimiterInv
  PROVE  IsFiniteSet(Acquired) /\ Cardinality(Acquired) \in Nat /\ Cardinality(Acquired) <= RequestsPerMinute
<1> DEFINE Y == Young(sent)
<1>1. Acquired = Y
  BY DEF Acquired, Young
<1>2. PICK f \in [Y -> DOMAIN history] : \A r, o \in Y : f[r] = f[o] => r = o
  BY DEF LimiterInv, Remembered
<1>3. f \in Injection(Y, DOMAIN history)
  BY <1>2 DEF Injection, IsInjective
<1>4. Len(history) \in Nat /\ DOMAIN history = 1..Len(history) /\ RequestsPerMinute \in Nat
  <2>1. history \in Seq(0..Window)
    BY DEF LimiterInv, LimiterTypes
  <2> QED BY <2>1, Entries, LimiterAssumption
<1>5. IsFiniteSet(DOMAIN history) /\ Cardinality(DOMAIN history) = Len(history)
  <2>1. Cardinality(1..Len(history)) = Len(history) /\ IsFiniteSet(1..Len(history))
    BY <1>4, FS_Interval
  <2> QED BY <1>4, <2>1
<1> HIDE DEF Y
<1>6. IsFiniteSet(Y) /\ Cardinality(Y) <= Cardinality(DOMAIN history)
  BY <1>3, <1>5, FS_Injection
<1>7. Cardinality(Y) \in Nat
  BY <1>6, FS_CardinalityType
<1> QED BY <1>1, <1>4, <1>5, <1>6, <1>7 DEF LimiterInv

\* A call in the window is the first of a request whose slot was acquired in it, or a
\* retry of one, or of a request that had its slot when the window began.
LEMMA CallsAreFew ==
  ASSUME LimiterInv
  PROVE  Cardinality(Upstream) <= RequestsPerMinute + (RequestsPerMinute + MaxConcurrent) * Len(RetryDelays)
<1> DEFINE A == Acquired
           X == Across(Window - 1)
           n == Len(RetryDelays)
           first == A \X {1}
           later == (A \cup X) \X (2..(n + 1))
<1>1. /\ Window \in Nat /\ Window >= 1 /\ Window - 1 \in 0..(Window - 1) /\ n \in Nat
      /\ RequestsPerMinute \in Nat /\ MaxConcurrent \in Nat
  BY LimiterAssumption
<1>2. IsFiniteSet(A) /\ Cardinality(A) \in Nat /\ Cardinality(A) <= RequestsPerMinute
  BY AcquiredAreFew
<1>3. IsFiniteSet(X) /\ Cardinality(X) \in Nat /\ Cardinality(X) <= MaxConcurrent
  <2>1. X \subseteq Requests /\ IsFiniteSet(Requests)
    BY LimiterAssumption DEF Across
  <2> QED BY <1>1, <2>1, FS_Subset, FS_CardinalityType DEF LimiterInv
<1>4. Upstream \subseteq first \cup later
  <2>1. SUFFICES ASSUME NEW r \in Requests, NEW k \in 1..(n + 1),
                        k \in DOMAIN sent[r], sent[r][k] < Window
                 PROVE  <<r, k>> \in first \cup later
    BY DEF Upstream
  <2>2. sent[r] \in Seq(0..Window)
    BY DEF LimiterInv, LimiterTypes
  <2>3. sent[r] # << >> /\ sent[r][1] \in 0..Window /\ sent[r][k] \in 0..Window
    <3>1. Len(sent[r]) \in Nat /\ DOMAIN sent[r] = 1..Len(sent[r]) /\ \A i \in DOMAIN sent[r] : sent[r][i] \in 0..Window
      BY <2>2, Entries
    <3>2. 1 \in DOMAIN sent[r] /\ Len(sent[r]) # 0
      BY <2>1, <3>1
    <3> QED BY <2>1, <3>1, <3>2
  <2>4. CASE sent[r][1] < Window
    <3>1. r \in A
      BY <2>3, <2>4 DEF Acquired
    <3>2. k = 1 \/ k \in 2..(n + 1)
      BY <1>1
    <3> QED BY <3>1, <3>2
  <2>5. CASE ~(sent[r][1] < Window)
    <3>1. sent[r][1] > Window - 1 /\ sent[r][k] <= Window - 1 /\ k # 1
      BY <1>1, <2>1, <2>3, <2>5
    <3>2. r \in X
      BY <2>1, <2>3, <3>1 DEF Across
    <3>3. k \in 2..(n + 1)
      BY <1>1, <3>1
    <3> QED BY <3>2, <3>3
  <2> QED BY <2>4, <2>5
<1> HIDE DEF A, X, n
<1>5. IsFiniteSet(first) /\ Cardinality(first) = Cardinality(A)
  <2>1. IsFiniteSet({1}) /\ Cardinality({1}) = 1
    BY FS_Singleton
  <2>2. IsFiniteSet(first) /\ Cardinality(first) = Cardinality(A) * Cardinality({1})
    BY <1>2, <2>1, FS_Product
  <2>3. Cardinality(A) * Cardinality({1}) = Cardinality(A)
    BY <1>2, <2>1
  <2> QED BY <2>2, <2>3
<1>6. /\ IsFiniteSet(A \cup X) /\ Cardinality(A \cup X) \in Nat
      /\ Cardinality(A \cup X) <= RequestsPerMinute + MaxConcurrent
  <2>1. /\ IsFiniteSet(A \cup X)
        /\ Cardinality(A \cup X) = Cardinality(A) + Cardinality(X) - Cardinality(A \cap X)
    BY <1>2, <1>3, FS_Union
  <2>2. IsFiniteSet(A \cap X)
    BY <1>2, FS_Subset
  <2>3. Cardinality(A \cap X) \in Nat /\ Cardinality(A \cup X) \in Nat
    BY <2>1, <2>2, FS_CardinalityType
  <2> QED BY <1>1, <1>2, <1>3, <2>1, <2>3
<1>7. IsFiniteSet(2..(n + 1)) /\ Cardinality(2..(n + 1)) = n
  <2>1. 2 \in Int /\ n + 1 \in Int
    BY <1>1
  <2>2. IsFiniteSet(2..(n + 1)) /\ Cardinality(2..(n + 1)) = IF 2 > n + 1 THEN 0 ELSE (n + 1) - 2 + 1
    BY <2>1, FS_Interval
  <2> QED BY <1>1, <2>2
<1>8. IsFiniteSet(later) /\ Cardinality(later) = Cardinality(A \cup X) * n
  <2>1. IsFiniteSet(later) /\ Cardinality(later) = Cardinality(A \cup X) * Cardinality(2..(n + 1))
    BY <1>6, <1>7, FS_Product
  <2> QED BY <1>7, <2>1
<1>9. Cardinality(A \cup X) * n <= (RequestsPerMinute + MaxConcurrent) * n
  <2>1. RequestsPerMinute + MaxConcurrent \in Nat
    BY <1>1
  <2> QED BY <1>1, <1>6, <2>1, Multiples
<1> HIDE DEF first, later
<1>10. /\ IsFiniteSet(first \cup later)
       /\ Cardinality(first \cup later) = Cardinality(first) + Cardinality(later) - Cardinality(first \cap later)
  BY <1>5, <1>8, FS_Union
<1>11. Cardinality(first \cap later) \in Nat
  <2>1. IsFiniteSet(first \cap later)
    BY <1>5, FS_Subset
  <2> QED BY <2>1, FS_CardinalityType
<1>12. IsFiniteSet(Upstream) /\ Cardinality(Upstream) <= Cardinality(first \cup later)
  BY <1>4, <1>10, FS_Subset
<1>13. Cardinality(Upstream) \in Nat
  BY <1>12, FS_CardinalityType
<1> DEFINE more == (RequestsPerMinute + MaxConcurrent) * n
           some == Cardinality(A \cup X) * n
<1>14. more \in Nat /\ some \in Nat /\ some <= more
  <2>1. RequestsPerMinute + MaxConcurrent \in Nat
    BY <1>1
  <2>2. more \in Nat
    BY <1>1, <2>1
  <2>3. some \in Nat
    BY <1>1, <1>6
  <2> QED BY <1>9, <2>2, <2>3
<1>15. Cardinality(later) = some
  BY <1>8
<1> HIDE DEF more, some
<1>16. Cardinality(Upstream) <= RequestsPerMinute + more
  BY <1>1, <1>2, <1>5, <1>10, <1>11, <1>12, <1>13, <1>14, <1>15
<1> QED BY <1>16 DEF more, n

\* No window of RPM_WINDOW_MS sees more than requestsPerMinute acquisitions, although
\* each request prunes the history when it looks and sleeps on what it saw (acquire());
\* and no more calls upstream than these and the retries of a 503 that gemini.ts makes
\* for them, and for the requests whose slot was held when the window began.
THEOREM TheBudgetIsKept == LimiterSpec => []BudgetKept
<1>1. LimiterInv => BudgetKept
  BY AcquiredAreFew, CallsAreFew DEF BudgetKept
<1> QED BY <1>1, LimiterInvariance, PTL

\* Only the clock shortens a cooldown; who checks in one goes to sleep, and who calls
\* in one had its slot.
LEMMA StepKeepsCooldown ==
  ASSUME LimiterInv, LimiterNext
  PROVE  /\ blocked > 0 => /\ Slots' \subseteq Slots
                           /\ \A r \in Requests : Len(sent'[r]) > Len(sent[r]) => phase[r] = "backoff"
         /\ blocked' < blocked => blocked' = blocked - 1 /\ UNCHANGED phase
<1>1. LimiterTypes /\ blocked \in Nat /\ \A r \in Requests : Len(sent[r]) \in Nat
  BY DEF LimiterInv, LimiterTypes
<1>2. ASSUME sent' = sent PROVE \A r \in Requests : ~(Len(sent'[r]) > Len(sent[r]))
  BY <1>1, <1>2
<1>3. ASSUME NEW r \in Requests, Check(r), blocked > 0 PROVE Slots' \subseteq Slots /\ sent' = sent
  <2>1. SleepFor(r, blocked)
    BY <1>1, <1>3 DEF Check
  <2> QED BY <1>1, <2>1 DEF SleepFor, Slots, LimiterTypes
<1>4. ASSUME NEW r \in Requests, CheckAborted(r) \/ Abort(r) \/ Unavailable(r)
      PROVE  blocked' = blocked /\ Slots' \subseteq Slots /\ sent' = sent
  BY <1>1, <1>4 DEF CheckAborted, Abort, Unavailable, Slots, LimiterTypes
<1>5. ASSUME NEW r \in Requests, r \in Slots, GiveBack(r) PROVE Slots' \subseteq Slots
  BY <1>1, <1>5 DEF GiveBack, Wake, Slots, LimiterTypes
<1>6. ASSUME NEW r \in Requests, Release(r)
      PROVE  ~(blocked' < blocked) /\ Slots' \subseteq Slots /\ sent' = sent
  <2>1. PICK d \in (IF r \in aborted THEN {0} ELSE {0} \cup Cooldowns) : EndCall(r, d)
    BY <1>6 DEF Release
  <2>2. d \in Nat
    BY LimiterAssumption
  <2>3. ~(blocked' < blocked)
    BY <1>1, <2>1, <2>2 DEF EndCall, Armed
  <2>4. r \in Slots /\ GiveBack(r) /\ sent' = sent
    BY <2>1 DEF EndCall, Slots
  <2> QED BY <1>5, <2>3, <2>4
<1>7. ASSUME NEW r \in Requests, Abandon(r)
      PROVE  blocked' = blocked /\ Slots' \subseteq Slots /\ sent' = sent
  <2>1. r \in Slots /\ GiveBack(r) /\ blocked' = blocked /\ sent' = sent
    BY <1>7 DEF Abandon, Slots
  <2> QED BY <1>5, <2>1
<1>8. ASSUME NEW r \in Requests, AskAgain(r)
      PROVE  /\ blocked' = blocked /\ Slots' \subseteq Slots /\ phase[r] = "backoff"
             /\ \A o \in Requests : o # r => sent'[o] = sent[o]
  BY <1>1, <1>8 DEF AskAgain, Ask, Slots, LimiterTypes
<1>9. ASSUME Tick
      PROVE  /\ Slots' = Slots /\ blocked' = Less(blocked) /\ phase' = phase
             /\ \A r \in Requests : ~(Len(sent'[r]) > Len(sent[r]))
  <2>1. blocked' = Less(blocked) /\ phase' = phase /\ sent' = [r \in Requests |-> Aged(r)]
    BY <1>9 DEF Tick
  <2>2. \A r \in Requests : Aged(r) \in Seq(0..Window) /\ Len(Aged(r)) <= Len(sent[r])
    BY <1>1, AgedCalls
  <2>3. \A r \in Requests : Len(Aged(r)) \in Nat
    BY <2>2, Entries
  <2> QED BY <1>1, <2>1, <2>2, <2>3 DEF Slots
<1>10. CASE \E r \in Requests : Check(r)
  <2>1. PICK r \in Requests : Check(r)
    BY <1>10
  <2>2. blocked' = blocked
    BY <2>1 DEF Check
  <2> QED BY <1>1, <1>2, <1>3, <2>1, <2>2
<1>11. CASE \E r \in Requests : CheckAborted(r) \/ Abort(r) \/ Unavailable(r)
  BY <1>1, <1>2, <1>4, <1>11
<1>12. CASE \E r \in Requests : Release(r)
  BY <1>2, <1>6, <1>12
<1>13. CASE \E r \in Requests : Abandon(r)
  BY <1>1, <1>2, <1>7, <1>13
<1>14. CASE \E r \in Requests : AskAgain(r)
  <2>1. PICK r \in Requests : AskAgain(r)
    BY <1>14
  <2>2. /\ blocked' = blocked /\ Slots' \subseteq Slots /\ phase[r] = "backoff"
        /\ \A o \in Requests : o # r => sent'[o] = sent[o]
    BY <1>8, <2>1
  <2>3. \A o \in Requests : o # r => ~(Len(sent'[o]) > Len(sent[o]))
    BY <1>1, <2>2
  <2> QED BY <1>1, <2>2, <2>3
<1>15. CASE Tick
  BY <1>1, <1>9, <1>15 DEF Less
<1>16. CASE UNCHANGED limiterVars
  BY <1>1, <1>2, <1>16 DEF limiterVars, Slots
<1> QED BY <1>10, <1>11, <1>12, <1>13, <1>14, <1>15, <1>16 DEF LimiterNext, Done

\* In a cooldown no request acquires a slot, and one that calls has its slot from
\* before and retries a 503; no later answer shortens a cooldown (blockUntil()).
THEOREM TheCooldownIsKept == LimiterSpec => CooldownKept
<1>1. LimiterInv /\ [LimiterNext]_limiterVars =>
        [/\ blocked > 0 => /\ Slots' \subseteq Slots
                           /\ \A r \in Requests : Len(sent'[r]) > Len(sent[r]) => phase[r] = "backoff"
         /\ blocked' < blocked => blocked' = blocked - 1 /\ UNCHANGED phase]_limiterVars
  BY StepKeepsCooldown
<1> QED BY <1>1, LimiterInvariance, PTL DEF LimiterSpec, CooldownKept

-----------------------------------------------------------------------------
(* The responder uses the limiter as its specification says.               *)

\* One step of the limiter, or none: what every step of the responder contains.
LimiterPart == [LimiterNext]_limiterVars

\* Mentions are requests, numbered from 1, and each has a room.
LEMMA MentionsAreRequests ==
  /\ Mentions \subseteq Requests /\ Mentions = 1..Len(RoomOf) /\ Len(RoomOf) \in Nat /\ Mentions \subseteq Nat
  /\ IsFiniteSet(Mentions) /\ \A m \in Mentions : RoomOf[m] \in Rooms
<1>1. RoomOf \in Seq(Rooms) /\ Mentions \subseteq Requests /\ IsFiniteSet(Requests)
  BY MentionAssumption, LimiterAssumption
<1>2. Len(RoomOf) \in Nat /\ DOMAIN RoomOf = 1..Len(RoomOf) /\ \A m \in DOMAIN RoomOf : RoomOf[m] \in Rooms
  BY <1>1, Entries
<1>3. IsFiniteSet(Mentions)
  BY <1>1, FS_Subset
<1> QED BY <1>1, <1>2, <1>3 DEF Mentions

\* However the responder ends a call, it releases as the limiter expects.
LEMMA EndReleases ==
  ASSUME NEW r \in Requests, NEW d \in {0} \cup Cooldowns, r \in aborted => d = 0, EndCall(r, d)
  PROVE  Release(r)
BY DEF Release

\* Every step of the responder, of a voice turn or of the clock is one of the limiter,
\* or none.
LEMMA StepsOfTheLimiter == MentionNext => LimiterPart
<1> SUFFICES ASSUME MentionNext PROVE LimiterPart
  OBVIOUS
<1>1. ASSUME NEW m \in Mentions, Prepare(m) \/ Deliver(m) \/ Busy(m) \/ Queue(m) \/ Refuse(m)
      PROVE  UNCHANGED limiterVars
  BY <1>1 DEF Prepare, Deliver, Busy, Queue, Refuse
<1>2. ASSUME NEW m \in Mentions, Generate(m) \/ GoOn(m) PROVE Check(m) \/ AskAgain(m)
  BY <1>2 DEF Generate, GoOn
<1>3. ASSUME NEW m \in Mentions, TimeOut(m) PROVE Abort(m) \/ Abandon(m)
  BY <1>3 DEF TimeOut
<1>4. ASSUME NEW m \in Mentions, TimeOutSeen(m) PROVE CheckAborted(m)
  BY <1>4 DEF TimeOutSeen
<1>5. ASSUME NEW m \in Mentions, End(m) PROVE Release(m)
  BY <1>5, MentionsAreRequests, EndReleases DEF End
<1>6. ASSUME NEW m \in Mentions, BackOff(m) PROVE Unavailable(m)
  BY <1>6 DEF BackOff
<1>7. ASSUME NEW r \in Voice, VoiceTurn(r)
      PROVE  \/ Check(r) \/ CheckAborted(r) \/ Abort(r) \/ Release(r)
             \/ Unavailable(r) \/ AskAgain(r) \/ Abandon(r)
  BY <1>7 DEF VoiceTurn
<1>8. Voice \subseteq Requests /\ Mentions \subseteq Requests
  BY MentionsAreRequests DEF Voice
<1>9. CASE Clock
  BY <1>9 DEF Clock, LimiterPart, LimiterNext
<1>10. CASE MentionDone
  BY <1>10 DEF MentionDone, LimiterPart
<1>11. CASE \E m \in Mentions : Prepare(m) \/ Deliver(m) \/ Busy(m) \/ Queue(m) \/ Refuse(m)
  BY <1>1, <1>11 DEF LimiterPart
<1>12. CASE \E m \in Mentions : Generate(m) \/ GoOn(m) \/ BackOff(m) \/ TimeOut(m) \/ TimeOutSeen(m) \/ End(m)
  BY <1>2, <1>3, <1>4, <1>5, <1>6, <1>8, <1>12 DEF LimiterPart, LimiterNext
<1>13. CASE \E r \in Voice : VoiceTurn(r)
  BY <1>7, <1>8, <1>13 DEF LimiterPart, LimiterNext
<1> QED BY <1>9, <1>10, <1>11, <1>12, <1>13 DEF MentionNext

\* The responder, its timeouts and the voice turns beside it use the limiter in no way
\* that its own specification does not know: a refinement without a mapping, as the
\* composed module shares the limiter's variables.
THEOREM MentionsUseTheLimiter == MentionSpec => LimiterSpec
<1>1. MentionInit => LimiterInit
  BY DEF MentionInit
<1>2. [MentionNext]_<<limiterVars, mentions>> => [LimiterNext]_limiterVars
  BY StepsOfTheLimiter DEF LimiterPart
<1> QED BY <1>1, <1>2, PTL DEF MentionSpec, LimiterSpec

-----------------------------------------------------------------------------
(* The steps of the responder.                                             *)

\* An open mention with no other before it in its room.
Foremost(m) == Open(m) /\ \A n \in Mentions : RoomOf[n] = RoomOf[m] /\ n < m => ~Open(n)

\* What the actions do to the rooms: all answers after the queue are one.
Answers(m, how) ==
  /\ Foremost(m) /\ how \in Answered /\ (how = "reply" => Is(m, "generating"))
  /\ Settle(m, how) /\ UNCHANGED <<saw, store>>

Starts(m) ==
  /\ Foremost(m) /\ Is(m, "queued")
  /\ stage' = [stage EXCEPT ![m] = "generating"]
  /\ saw' = [saw EXCEPT ![m] = IF promptUse THEN << >> ELSE turns[RoomOf[m]]]
  /\ UNCHANGED <<queues, turns, store>>

\* Who has its turn, or is generated, has no open mention of its room before it.
LEMMA InLineIsForemost ==
  ASSUME MentionInv, NEW m \in Mentions, HasTurn(m) \/ Is(m, "generating")
  PROVE  Foremost(m)
<1>1. stage[m] \in {"queued", "generating"}
  BY DEF HasTurn, Is
<1>2. SUFFICES ASSUME NEW n \in Mentions, RoomOf[n] = RoomOf[m], n < m, Open(n) PROVE FALSE
  BY <1>1 DEF Foremost, Open
<1>3. BehindOpen(n, m)
  BY DEF MentionInv, InLine
<1>4. stage[m] = "queued" /\ after[m] \in Mentions /\ Open(after[m])
  BY <1>1, <1>2, <1>3 DEF BehindOpen, Outside
<1>5. after[m] # None
  BY <1>4, MentionAssumption
<1> QED BY <1>4, <1>5 DEF HasTurn, Is, Open, Answered

\* Six things happen to rooms: the store is read or learns of a reply, and a mention is
\* turned away, queues, starts or is answered.
LEMMA MentionKinds ==
  ASSUME MentionInv, MentionNext
  PROVE  \/ \E m \in Mentions : \/ Prepare(m) \/ Deliver(m) \/ Busy(m) \/ Queue(m) \/ Starts(m)
                               \/ \E how : Answers(m, how)
         \/ UNCHANGED mentions
<1>1. ASSUME NEW m \in Mentions, Refuse(m) PROVE Answers(m, "thrown")
  BY <1>1, InLineIsForemost DEF Refuse, Answers, Answered
<1>2. ASSUME NEW m \in Mentions, Generate(m) PROVE Starts(m)
  BY <1>2, InLineIsForemost DEF Generate, Starts, HasTurn
<1>3. ASSUME NEW m \in Mentions, GoOn(m) \/ BackOff(m) PROVE UNCHANGED mentions
  BY <1>3 DEF GoOn, BackOff
<1>4. ASSUME NEW m \in Mentions, TimeOut(m) PROVE Answers(m, "timeout") \/ UNCHANGED mentions
  BY <1>4, InLineIsForemost DEF TimeOut, Answers, Answered, mentions
<1>5. ASSUME NEW m \in Mentions, TimeOutSeen(m) PROVE Answers(m, "timeout")
  BY <1>5, InLineIsForemost DEF TimeOutSeen, Answers, Answered
<1>6. ASSUME NEW m \in Mentions, End(m) PROVE \E how : Answers(m, how)
  <2>1. Is(m, "generating") /\ UNCHANGED <<saw, store>> /\ \E how \in {"timeout", "reply", "thrown", "limited"} : Settle(m, how)
    BY <1>6 DEF End
  <2>2. PICK how \in {"timeout", "reply", "thrown", "limited"} : Settle(m, how)
    BY <2>1
  <2>3. Answers(m, how)
    BY <2>1, <2>2, InLineIsForemost DEF Answers, Answered
  <2> QED BY <2>3
<1>7. ASSUME NEW r \in Voice, VoiceTurn(r) PROVE UNCHANGED mentions
  BY <1>7 DEF VoiceTurn
<1>8. Clock \/ MentionDone => UNCHANGED mentions
  BY DEF Clock, MentionDone
<1>9. CASE \E m \in Mentions :
         \/ Prepare(m) \/ Busy(m) \/ Queue(m) \/ Refuse(m) \/ Generate(m) \/ GoOn(m) \/ BackOff(m)
         \/ TimeOut(m) \/ TimeOutSeen(m) \/ End(m) \/ Deliver(m)
  BY <1>1, <1>2, <1>3, <1>4, <1>5, <1>6, <1>9
<1> QED BY <1>7, <1>8, <1>9 DEF MentionNext

\* A room has finitely many open mentions.
LEMMA OpenOnes ==
  \A room \in Rooms : IsFiniteSet(Unanswered(room)) /\ Cardinality(Unanswered(room)) \in Nat
<1>1. \A room \in Rooms : Unanswered(room) \subseteq Mentions
  BY DEF Unanswered
<1> QED BY <1>1, MentionsAreRequests, FS_Subset, FS_CardinalityType

\* As long as no reply is added, a step that leaves the prompts of those that were made
\* alone, and takes texts and receipts of none but them, keeps what is said of replies.
LEMMA RepliesStay ==
  ASSUME MentionInv, UNCHANGED <<turns, promptUse>>,
         \A m \in Mentions : stage'[m] = "reply" <=> stage[m] = "reply",
         \A m \in Mentions : stage[m] = "reply" => saw'[m] = saw[m] /\ text'[m] = text[m],
         \A m \in Mentions : text'[m] \subseteq Heard(RoomOf[m]),
         \A m \in stored' : m \in Mentions /\ stage[m] = "reply"
  PROVE  FromTheStore' /\ RepliesKnowEachOther'
<1>1. \A room : Heard(room)' = Heard(room)
  BY DEF Heard
<1>2. FromTheStore'
  BY <1>1 DEF MentionInv, FromTheStore
<1>3. RepliesKnowEachOther'
  <2>1. SUFFICES ASSUME NEW room \in Rooms, NEW k \in DOMAIN turns[room]
                 PROVE  IF promptUse THEN text'[turns[room][k]] \subseteq {turns[room][i] : i \in 1..(k - 1)}
                                     ELSE saw'[turns[room][k]] = SubSeq(turns[room], 1, k - 1)
    BY DEF RepliesKnowEachOther, Earlier
  <2>2. turns[room][k] \in Mentions /\ stage[turns[room][k]] = "reply"
    BY Entries DEF MentionInv, UpToDate, MentionTypes
  <2>3. saw'[turns[room][k]] = saw[turns[room][k]] /\ text'[turns[room][k]] = text[turns[room][k]]
    BY <2>2
  <2>4. IF promptUse THEN text[turns[room][k]] \subseteq {turns[room][i] : i \in 1..(k - 1)}
                     ELSE saw[turns[room][k]] = SubSeq(turns[room], 1, k - 1)
    BY DEF MentionInv, RepliesKnowEachOther, Earlier
  <2> QED BY <2>3, <2>4
<1> QED BY <1>2, <1>3

\* The text of a prompt is read from the store.
LEMMA PrepareKeeps ==
  ASSUME MentionInv, NEW m \in Mentions, Prepare(m)
  PROVE  MentionInv'
<1>1. /\ MentionTypes /\ stage[m] = "unasked" /\ stage' = [stage EXCEPT ![m] = "prepared"]
      /\ text' = [text EXCEPT ![m] = {n \in stored : RoomOf[n] = RoomOf[m]}]
      /\ UNCHANGED <<after, newest, pending, turns, saw, promptUse, stored>>
  BY DEF MentionInv, Prepare, Is, queues
<1>2. /\ stage' \in [Mentions -> Answered \cup Outside \cup {"queued", "generating"}] /\ stage'[m] = "prepared"
      /\ \A n \in Mentions : n # m => stage'[n] = stage[n]
  BY <1>1 DEF MentionTypes, Outside
<1>3. /\ text' \in [Mentions -> SUBSET Mentions] /\ text'[m] = {n \in stored : RoomOf[n] = RoomOf[m]}
      /\ \A n \in Mentions : n # m => text'[n] = text[n]
  BY <1>1 DEF MentionTypes
<1>4. MentionTypes'
  BY <1>1, <1>2, <1>3 DEF MentionTypes
<1>5. \A n \in Mentions : (stage'[n] \in Outside <=> stage[n] \in Outside) /\ (Open(n)' <=> Open(n))
  BY <1>1, <1>2 DEF Outside, Open
<1>6. Counted'
  <2>1. \A room \in Rooms : Unanswered(room)' = Unanswered(room)
    BY <1>1, <1>2 DEF Unanswered
  <2> QED BY <1>1, <1>5, <2>1 DEF MentionInv, Counted
<1>7. InLine'
  <2>1. ASSUME NEW a \in Mentions PROVE LastIsOpen(a)'
    BY <1>1, <1>5 DEF MentionInv, InLine, LastIsOpen
  <2>2. ASSUME NEW a \in Mentions, NEW b \in Mentions PROVE BehindOpen(a, b)'
    <3>1. BehindOpen(a, b)
      BY DEF MentionInv, InLine
    <3>2. b # m => stage'[b] = stage[b]
      BY <1>2
    <3>3. stage'[m] \in Outside
      BY <1>2 DEF Outside
    <3> QED BY <1>1, <1>5, <3>1, <3>2, <3>3 DEF BehindOpen
  <2> QED BY <2>1, <2>2 DEF InLine
<1>8. UpToDate'
  <2>1. ASSUME ~promptUse, NEW a \in Mentions, stage'[a] = "generating" PROVE saw'[a] = turns'[RoomOf[a]]
    BY <1>1, <1>2, <2>1 DEF MentionInv, UpToDate
  <2>2. ASSUME NEW room \in Rooms, NEW k \in DOMAIN turns[room] PROVE stage'[turns[room][k]] = "reply"
    <3>1. stage[turns[room][k]] = "reply" /\ turns[room][k] \in Mentions
      BY Entries DEF MentionInv, UpToDate, MentionTypes
    <3> QED BY <1>1, <1>2, <3>1
  <2> QED BY <1>1, <2>1, <2>2 DEF UpToDate
<1>9. FromTheStore' /\ RepliesKnowEachOther'
  <2>1. \A n \in stored : n \in Mentions /\ stage[n] = "reply" /\ n \in Heard(RoomOf[n])
    BY <1>1 DEF MentionInv, FromTheStore, MentionTypes
  <2>2. \A n \in Mentions : text'[n] \subseteq Heard(RoomOf[n])
    <3>1. text'[m] \subseteq Heard(RoomOf[m])
      BY <1>3, <2>1
    <3> QED BY <1>3, <3>1 DEF MentionInv, FromTheStore
  <2>3. \A n \in Mentions : /\ stage'[n] = "reply" <=> stage[n] = "reply"
                            /\ stage[n] = "reply" => saw'[n] = saw[n] /\ text'[n] = text[n]
    BY <1>1, <1>2, <1>3
  <2>4. UNCHANGED <<turns, promptUse>> /\ \A n \in stored' : n \in Mentions /\ stage[n] = "reply"
    BY <1>1, <2>1
  <2> QED BY <2>2, <2>3, <2>4, RepliesStay
<1> QED BY <1>4, <1>6, <1>7, <1>8, <1>9 DEF MentionInv

\* The store learns of a reply that was made.
LEMMA DeliverKeeps ==
  ASSUME MentionInv, NEW m \in Mentions, Deliver(m)
  PROVE  MentionInv'
<1>1. /\ MentionTypes /\ stage[m] = "reply" /\ stored' = stored \cup {m}
      /\ UNCHANGED <<stage, after, newest, pending, turns, saw, promptUse, text>>
  BY DEF MentionInv, Deliver, Is, queues
<1>2. MentionTypes'
  BY <1>1 DEF MentionTypes
<1>3. Counted' /\ InLine' /\ UpToDate'
  <2>1. \A room \in Rooms : Unanswered(room)' = Unanswered(room)
    BY <1>1 DEF Unanswered
  <2> QED BY <1>1, <2>1 DEF MentionInv, Counted, InLine, LastIsOpen, BehindOpen, Open, UpToDate
<1>4. FromTheStore' /\ RepliesKnowEachOther'
  <2>1. \A n \in stored' : n \in Mentions /\ stage[n] = "reply"
    BY <1>1 DEF MentionInv, FromTheStore, MentionTypes
  <2>2. \A n \in Mentions : text'[n] \subseteq Heard(RoomOf[n])
    BY <1>1 DEF MentionInv, FromTheStore
  <2> QED BY <1>1, <2>1, <2>2, RepliesStay
<1> QED BY <1>2, <1>3, <1>4 DEF MentionInv

\* A mention that is turned away changes no queue.
LEMMA BusyKeeps ==
  ASSUME MentionInv, NEW m \in Mentions, Busy(m)
  PROVE  MentionInv'
<1>1. /\ MentionTypes /\ stage[m] \in Outside /\ stage' = [stage EXCEPT ![m] = "busy"]
      /\ UNCHANGED <<after, newest, pending, turns, saw, promptUse, stored, text>>
      /\ \A n \in Mentions : n < m => stage[n] \notin Outside
  BY DEF MentionInv, Busy, Comes, Is, queues, store, Outside
<1>2. /\ stage' \in [Mentions -> Answered \cup Outside \cup {"queued", "generating"}] /\ stage'[m] = "busy"
      /\ \A n \in Mentions : n # m => stage'[n] = stage[n]
  BY <1>1 DEF MentionTypes, Answered
<1>3. MentionTypes'
  BY <1>1, <1>2 DEF MentionTypes
<1>4. \A room \in Rooms : Unanswered(room)' = Unanswered(room)
  BY <1>1, <1>2 DEF Unanswered, Outside
<1>5. Counted'
  <2>1. ASSUME NEW a \in Mentions, NEW b \in Mentions, a < b, stage'[b] \notin Outside PROVE stage'[a] \notin Outside
    BY <1>1, <1>2, <2>1, MentionsAreRequests DEF MentionInv, Counted, Outside
  <2>2. ASSUME NEW room \in Rooms PROVE pending'[room] = Cardinality(Unanswered(room)') /\ pending'[room] <= MaxPending
    BY <1>1, <1>4 DEF MentionInv, Counted
  <2> QED BY <2>1, <2>2 DEF Counted
<1>6. \A n \in Mentions : Open(n)' <=> Open(n)
  BY <1>1, <1>2 DEF Open, Outside
<1>7. InLine'
  <2>1. ASSUME NEW a \in Mentions PROVE LastIsOpen(a)'
    BY <1>1, <1>6 DEF MentionInv, InLine, LastIsOpen
  <2>2. ASSUME NEW a \in Mentions, NEW b \in Mentions PROVE BehindOpen(a, b)'
    <3>1. BehindOpen(a, b)
      BY DEF MentionInv, InLine
    <3>2. b # m => stage'[b] = stage[b]
      BY <1>2
    <3> QED BY <1>1, <1>2, <1>6, <3>1, <3>2 DEF BehindOpen
  <2> QED BY <2>1, <2>2 DEF InLine
<1>8. UpToDate'
  <2>1. ASSUME ~promptUse, NEW a \in Mentions, stage'[a] = "generating" PROVE saw'[a] = turns'[RoomOf[a]]
    BY <1>1, <1>2, <2>1 DEF MentionInv, UpToDate
  <2>2. ASSUME NEW room \in Rooms, NEW k \in DOMAIN turns[room] PROVE stage'[turns[room][k]] = "reply"
    <3>1. stage[turns[room][k]] = "reply" /\ turns[room][k] \in Mentions
      BY Entries DEF MentionInv, UpToDate, MentionTypes
    <3> QED BY <1>1, <1>2, <3>1 DEF Outside
  <2> QED BY <1>1, <2>1, <2>2 DEF UpToDate
<1>9. FromTheStore' /\ RepliesKnowEachOther'
  <2>1. UNCHANGED <<turns, promptUse>> /\ \A n \in stored' : n \in Mentions /\ stage[n] = "reply"
    BY <1>1 DEF MentionInv, FromTheStore, MentionTypes
  <2>2. \A n \in Mentions : text'[n] \subseteq Heard(RoomOf[n])
    BY <1>1 DEF MentionInv, FromTheStore
  <2>3. \A n \in Mentions : /\ stage'[n] = "reply" <=> stage[n] = "reply"
                            /\ stage[n] = "reply" => saw'[n] = saw[n] /\ text'[n] = text[n]
    BY <1>1, <1>2 DEF Outside
  <2> QED BY <2>1, <2>2, <2>3, RepliesStay
<1> QED BY <1>3, <1>5, <1>7, <1>8, <1>9 DEF MentionInv

\* A mention queues behind the last open one of its room.
LEMMA QueueKeeps ==
  ASSUME MentionInv, NEW m \in Mentions, Queue(m)
  PROVE  MentionInv'
<1> DEFINE here == RoomOf[m]
<1>1. /\ MentionTypes /\ stage[m] \in Outside /\ stage' = [stage EXCEPT ![m] = "queued"]
      /\ after' = [after EXCEPT ![m] = newest[here]] /\ newest' = [newest EXCEPT ![here] = m]
      /\ pending' = [pending EXCEPT ![here] = @ + 1] /\ pending[here] < MaxPending
      /\ UNCHANGED <<turns, saw, promptUse, stored, text>>
      /\ \A n \in Mentions : n < m => stage[n] \notin Outside
  BY DEF MentionInv, Queue, Comes, Is, store, Outside
<1>2. /\ stage' \in [Mentions -> Answered \cup Outside \cup {"queued", "generating"}] /\ stage'[m] = "queued"
      /\ \A n \in Mentions : n # m => stage'[n] = stage[n]
  BY <1>1 DEF MentionTypes
<1>3. here \in Rooms /\ \A n \in Mentions : RoomOf[n] \in Rooms
  BY MentionsAreRequests
<1> HIDE DEF here
<1>4. /\ after' \in [Mentions -> Mentions \cup {None}] /\ after'[m] = newest[here]
      /\ \A n \in Mentions : n # m => after'[n] = after[n]
  BY <1>1, <1>3 DEF MentionTypes
<1>5. /\ newest' \in [Rooms -> Mentions \cup {None}] /\ newest'[here] = m
      /\ \A room \in Rooms : room # here => newest'[room] = newest[room]
  BY <1>1, <1>3 DEF MentionTypes
<1>6. /\ pending' \in [Rooms -> Nat] /\ pending'[here] = pending[here] + 1
      /\ \A room \in Rooms : room # here => pending'[room] = pending[room]
  BY <1>1, <1>3 DEF MentionTypes
<1>7. MentionTypes'
  BY <1>1, <1>2, <1>4, <1>5, <1>6 DEF MentionTypes
<1>8. \A n \in Mentions : m < n => stage[n] \in Outside
  BY <1>1 DEF MentionInv, Counted
<1>9. Counted'
  <2>1. ASSUME NEW a \in Mentions, NEW b \in Mentions, a < b, stage'[b] \notin Outside PROVE stage'[a] \notin Outside
    BY <1>1, <1>2, <2>1, MentionsAreRequests DEF MentionInv, Counted, Outside
  <2>2. ASSUME NEW room \in Rooms, room # here PROVE Unanswered(room)' = Unanswered(room)
    BY <1>1, <1>2, <2>2 DEF Unanswered, here
  <2>3. Unanswered(here)' = Unanswered(here) \cup {m} /\ m \notin Unanswered(here)
    BY <1>1, <1>2 DEF Unanswered, here, Outside
  <2>4. Cardinality(Unanswered(here) \cup {m}) = Cardinality(Unanswered(here)) + 1
    BY <1>3, <2>3, OpenOnes, FS_AddElement
  <2>5. pending[here] \in Nat /\ MaxPending \in Nat
    BY <1>1, <1>3, MentionAssumption DEF MentionTypes
  <2>6. ASSUME NEW room \in Rooms PROVE pending'[room] = Cardinality(Unanswered(room)') /\ pending'[room] <= MaxPending
    <3>1. CASE room = here
      <4>1. pending[here] = Cardinality(Unanswered(here)) /\ Unanswered(room)' = Unanswered(here) \cup {m}
        BY <1>3, <2>3, <3>1 DEF MentionInv, Counted
      <4>2. pending'[room] = pending[here] + 1
        BY <1>6, <3>1
      <4>3. pending'[room] <= MaxPending
        BY <1>1, <2>5, <4>2
      <4> QED BY <2>4, <4>1, <4>2, <4>3
    <3>2. CASE room # here
      BY <1>6, <2>2, <3>2 DEF MentionInv, Counted
    <3> QED BY <3>1, <3>2
  <2> QED BY <2>1, <2>6 DEF Counted
<1>10. /\ Open(m)' /\ ~Open(m) /\ \A n \in Mentions : n # m => (Open(n)' <=> Open(n))
  BY <1>1, <1>2 DEF Open, Outside
<1>11. \A n \in Mentions : Open(n)' => n <= m
  BY <1>8, <1>10, MentionsAreRequests DEF Open, Outside
<1>12. ASSUME NEW a \in Mentions PROVE LastIsOpen(a)'
  <2>1. SUFFICES ASSUME Open(a)'
                 PROVE  /\ newest'[RoomOf[a]] \in Mentions /\ a <= newest'[RoomOf[a]]
                        /\ RoomOf[newest'[RoomOf[a]]] = RoomOf[a] /\ stage'[newest'[RoomOf[a]]] \in {"queued", "generating"}
    BY DEF LastIsOpen, Open
  <2>2. CASE RoomOf[a] = here
    <3>1. newest'[RoomOf[a]] = m /\ RoomOf[m] = RoomOf[a]
      BY <1>5, <2>2 DEF here
    <3> QED BY <1>2, <1>11, <2>1, <3>1
  <2>3. CASE RoomOf[a] # here
    <3>1. a # m /\ Open(a)
      BY <1>10, <2>1, <2>3 DEF here
    <3>2. LET n == newest[RoomOf[a]] IN n \in Mentions /\ a <= n /\ RoomOf[n] = RoomOf[a] /\ Open(n)
      BY <3>1 DEF MentionInv, InLine, LastIsOpen
    <3>3. newest'[RoomOf[a]] = newest[RoomOf[a]]
      BY <1>3, <1>5, <2>3
    <3>4. newest[RoomOf[a]] # m
      BY <1>10, <3>2
    <3> QED BY <1>2, <3>2, <3>3, <3>4 DEF Open
  <2> QED BY <2>2, <2>3
<1>13. ASSUME NEW a \in Mentions, NEW b \in Mentions PROVE BehindOpen(a, b)'
  <2>1. SUFFICES ASSUME RoomOf[a] = RoomOf[b], a < b, Open(a)', stage'[b] \notin Outside \cup {"busy"}
                 PROVE  /\ stage'[b] = "queued" /\ after'[b] \in Mentions
                        /\ a <= after'[b] /\ RoomOf[after'[b]] = RoomOf[b] /\ stage'[after'[b]] \in {"queued", "generating"}
    BY DEF BehindOpen, Open
  <2>2. a # m
    <3>1. a = m => b # m /\ stage[b] \in Outside
      BY <1>8, <2>1, MentionsAreRequests
    <3> QED BY <1>2, <2>1, <3>1
  <2>3. Open(a)
    BY <1>10, <2>1, <2>2
  <2>4. CASE b = m
    <3>1. LET n == newest[RoomOf[a]] IN n \in Mentions /\ a <= n /\ RoomOf[n] = RoomOf[a] /\ Open(n)
      BY <2>3 DEF MentionInv, InLine, LastIsOpen
    <3>2. after'[b] = newest[RoomOf[a]]
      BY <1>4, <2>1, <2>4 DEF here
    <3>3. newest[RoomOf[a]] # m
      BY <1>10, <3>1
    <3> QED BY <1>2, <2>1, <2>4, <3>1, <3>2, <3>3 DEF Open
  <2>5. CASE b # m
    <3>1. stage[b] = "queued" /\ after[b] \in Mentions /\ a <= after[b] /\ RoomOf[after[b]] = RoomOf[b] /\ Open(after[b])
      BY <1>2, <2>1, <2>3, <2>5 DEF MentionInv, InLine, BehindOpen
    <3>2. after'[b] = after[b] /\ stage'[b] = stage[b] /\ after[b] # m
      BY <1>2, <1>4, <1>10, <2>5, <3>1
    <3> QED BY <1>2, <3>1, <3>2 DEF Open
  <2> QED BY <2>4, <2>5
<1>14. InLine'
  BY <1>12, <1>13 DEF InLine
<1>15. UpToDate'
  <2>1. ASSUME ~promptUse, NEW a \in Mentions, stage'[a] = "generating" PROVE saw'[a] = turns'[RoomOf[a]]
    BY <1>1, <1>2, <2>1 DEF MentionInv, UpToDate
  <2>2. ASSUME NEW room \in Rooms, NEW k \in DOMAIN turns[room] PROVE stage'[turns[room][k]] = "reply"
    <3>1. stage[turns[room][k]] = "reply" /\ turns[room][k] \in Mentions
      BY Entries DEF MentionInv, UpToDate, MentionTypes
    <3> QED BY <1>1, <1>2, <3>1 DEF Outside
  <2> QED BY <1>1, <2>1, <2>2 DEF UpToDate
<1>16. FromTheStore' /\ RepliesKnowEachOther'
  <2>1. UNCHANGED <<turns, promptUse>> /\ \A n \in stored' : n \in Mentions /\ stage[n] = "reply"
    BY <1>1 DEF MentionInv, FromTheStore, MentionTypes
  <2>2. \A n \in Mentions : text'[n] \subseteq Heard(RoomOf[n])
    BY <1>1 DEF MentionInv, FromTheStore
  <2>3. \A n \in Mentions : /\ stage'[n] = "reply" <=> stage[n] = "reply"
                            /\ stage[n] = "reply" => saw'[n] = saw[n] /\ text'[n] = text[n]
    BY <1>1, <1>2 DEF Outside
  <2> QED BY <2>1, <2>2, <2>3, RepliesStay
<1> QED BY <1>7, <1>9, <1>14, <1>15, <1>16 DEF MentionInv

\* Only the foremost mention of a room starts; the recent turns it sees are all there are.
LEMMA StartsKeeps ==
  ASSUME MentionInv, NEW m \in Mentions, Starts(m)
  PROVE  MentionInv'
<1>1. /\ MentionTypes /\ Foremost(m) /\ stage[m] = "queued" /\ stage' = [stage EXCEPT ![m] = "generating"]
      /\ saw' = [saw EXCEPT ![m] = IF promptUse THEN << >> ELSE turns[RoomOf[m]]]
      /\ UNCHANGED <<after, newest, pending, turns, promptUse, stored, text>>
  BY DEF MentionInv, Starts, Is, queues, store
<1>2. /\ stage' \in [Mentions -> Answered \cup Outside \cup {"queued", "generating"}] /\ stage'[m] = "generating"
      /\ \A n \in Mentions : n # m => stage'[n] = stage[n]
  BY <1>1 DEF MentionTypes
<1>3. RoomOf[m] \in Rooms
  BY MentionsAreRequests
<1>4. /\ saw' \in [Mentions -> Seq(Mentions)] /\ (~promptUse => saw'[m] = turns[RoomOf[m]])
      /\ \A n \in Mentions : n # m => saw'[n] = saw[n]
  BY <1>1, <1>3 DEF MentionTypes
<1>5. MentionTypes'
  BY <1>1, <1>2, <1>4 DEF MentionTypes
<1>6. \A room \in Rooms : Unanswered(room)' = Unanswered(room)
  BY <1>1, <1>2 DEF Unanswered
<1>7. Counted'
  <2>1. ASSUME NEW a \in Mentions, NEW b \in Mentions, a < b, stage'[b] \notin Outside PROVE stage'[a] \notin Outside
    BY <1>1, <1>2, <2>1 DEF MentionInv, Counted, Outside
  <2>2. ASSUME NEW room \in Rooms PROVE pending'[room] = Cardinality(Unanswered(room)') /\ pending'[room] <= MaxPending
    BY <1>1, <1>6 DEF MentionInv, Counted
  <2> QED BY <2>1, <2>2 DEF Counted
<1>8. \A n \in Mentions : Open(n)' <=> Open(n)
  BY <1>1, <1>2 DEF Open
<1>9. InLine'
  <2>1. ASSUME NEW a \in Mentions PROVE LastIsOpen(a)'
    BY <1>1, <1>8 DEF MentionInv, InLine, LastIsOpen
  <2>2. ASSUME NEW a \in Mentions, NEW b \in Mentions PROVE BehindOpen(a, b)'
    <3>1. BehindOpen(a, b)
      BY DEF MentionInv, InLine
    <3>2. b # m => stage'[b] = stage[b]
      BY <1>2
    <3>3. b = m /\ RoomOf[a] = RoomOf[b] /\ a < b => ~Open(a)
      BY <1>1 DEF Foremost
    <3> QED BY <1>1, <1>8, <3>1, <3>2, <3>3 DEF BehindOpen
  <2> QED BY <2>1, <2>2 DEF InLine
<1>10. ASSUME NEW room \in Rooms, NEW k \in DOMAIN turns[room]
       PROVE  turns[room][k] \in Mentions /\ stage[turns[room][k]] = "reply" /\ turns[room][k] # m
  BY <1>1, Entries DEF MentionInv, UpToDate, MentionTypes
<1>11. UpToDate'
  <2>1. ASSUME ~promptUse, NEW a \in Mentions, stage'[a] = "generating" PROVE saw'[a] = turns'[RoomOf[a]]
    BY <1>1, <1>2, <1>4, <2>1 DEF MentionInv, UpToDate
  <2>2. ASSUME NEW room \in Rooms, NEW k \in DOMAIN turns[room] PROVE stage'[turns[room][k]] = "reply"
    BY <1>2, <1>10
  <2> QED BY <1>1, <2>1, <2>2 DEF UpToDate
<1>12. FromTheStore' /\ RepliesKnowEachOther'
  <2>1. UNCHANGED <<turns, promptUse>> /\ \A n \in stored' : n \in Mentions /\ stage[n] = "reply"
    BY <1>1 DEF MentionInv, FromTheStore, MentionTypes
  <2>2. \A n \in Mentions : text'[n] \subseteq Heard(RoomOf[n])
    BY <1>1 DEF MentionInv, FromTheStore
  <2>3. \A n \in Mentions : /\ stage'[n] = "reply" <=> stage[n] = "reply"
                            /\ stage[n] = "reply" => saw'[n] = saw[n] /\ text'[n] = text[n]
    BY <1>1, <1>2, <1>4
  <2> QED BY <2>1, <2>2, <2>3, RepliesStay
<1> QED BY <1>5, <1>7, <1>9, <1>11, <1>12 DEF MentionInv

\* What is appended changes nothing before it.
LEMMA PartOfAppend ==
  ASSUME NEW S, NEW q \in Seq(S), NEW x \in S, NEW k \in 1..(Len(q) + 1)
  PROVE  SubSeq(Append(q, x), 1, k - 1) = SubSeq(q, 1, k - 1)
<1> DEFINE a == Append(q, x)
           b == SubSeq(a, 1, k - 1)
           c == SubSeq(q, 1, k - 1)
<1>1. Len(q) \in Nat /\ DOMAIN q = 1..Len(q) /\ \A i \in DOMAIN q : q[i] \in S
  BY Entries
<1>2. a \in Seq(S) /\ Len(a) = Len(q) + 1 /\ \A i \in 1..Len(q) : a[i] = q[i]
  BY <1>1, AppendProperties
<1>3. k - 1 \in Nat /\ k - 1 <= Len(q) /\ 1..(k - 1) \subseteq 1..Len(q) /\ (k - 1) - 1 + 1 = k - 1
  <2> DEFINE len == Len(q)
  <2>1. len \in Nat /\ k \in 1..(len + 1)
    BY <1>1
  <2> HIDE DEF len
  <2>2. k - 1 \in Nat /\ k - 1 <= len /\ 1..(k - 1) \subseteq 1..len /\ (k - 1) - 1 + 1 = k - 1
    BY <2>1
  <2> QED BY <2>2 DEF len
<1> HIDE DEF a
<1>4. \A i \in 1..(k - 1) : a[i] \in S /\ q[i] \in S /\ a[i] = q[i]
  BY <1>1, <1>2, <1>3
<1>5. /\ b \in Seq(S) /\ Len(b) = IF 1 <= k - 1 THEN (k - 1) - 1 + 1 ELSE 0
      /\ \A i \in 1..((k - 1) - 1 + 1) : b[i] = a[1 + i - 1]
  BY <1>3, <1>4, SubSeqProperties
<1>6. /\ c \in Seq(S) /\ Len(c) = IF 1 <= k - 1 THEN (k - 1) - 1 + 1 ELSE 0
      /\ \A i \in 1..((k - 1) - 1 + 1) : c[i] = q[1 + i - 1]
  BY <1>3, <1>4, SubSeqProperties
<1> HIDE DEF b, c
<1>7. Len(b) = k - 1 /\ Len(c) = k - 1
  BY <1>3, <1>5, <1>6
<1>8. \A i \in 1..(k - 1) : b[i] = c[i]
  <2>1. ASSUME NEW i \in 1..(k - 1) PROVE b[i] = c[i]
    <3>1. 1 + i - 1 = i /\ i \in 1..((k - 1) - 1 + 1)
      BY <1>3
    <3> QED BY <1>4, <1>5, <1>6, <3>1
  <2> QED BY <2>1
<1>9. b = c
  BY <1>5, <1>6, <1>7, <1>8, SeqEqual
<1> QED BY <1>9 DEF a, b, c

\* The foremost mention is answered: nobody waits behind it for one before it, and
\* nobody else of its room is being generated, so no prompt grows old.
LEMMA AnswersKeeps ==
  ASSUME MentionInv, NEW m \in Mentions, NEW how, Answers(m, how)
  PROVE  MentionInv'
<1> DEFINE here == RoomOf[m]
<1>1. /\ MentionTypes /\ Foremost(m) /\ Open(m) /\ how \in Answered /\ stage' = [stage EXCEPT ![m] = how]
      /\ pending' = [pending EXCEPT ![here] = Less(@)] /\ newest' = [newest EXCEPT ![here] = IF @ = m THEN None ELSE @]
      /\ after' = after /\ UNCHANGED <<saw, promptUse, stored, text>>
      /\ turns' = IF how = "reply" THEN [turns EXCEPT ![here] = Append(@, m)] ELSE turns
      /\ how = "reply" => stage[m] = "generating"
  BY DEF MentionInv, Answers, Foremost, Settle, Trimmed, Is, store
<1>2. /\ stage' \in [Mentions -> Answered \cup Outside \cup {"queued", "generating"}] /\ stage'[m] = how
      /\ \A n \in Mentions : n # m => stage'[n] = stage[n]
  BY <1>1 DEF MentionTypes
<1>3. here \in Rooms /\ \A n \in Mentions : RoomOf[n] \in Rooms
  BY MentionsAreRequests
<1>4. how \notin Outside \cup {"queued", "generating"}
  BY <1>1 DEF Answered, Outside
<1>5. \A n \in Mentions : RoomOf[n] = here /\ n < m => ~Open(n)
  BY <1>1 DEF Foremost
<1>6. /\ turns' \in [Rooms -> Seq(Mentions)]
      /\ \A room \in Rooms : room # here => turns'[room] = turns[room]
      /\ turns'[here] = IF how = "reply" THEN Append(turns[here], m) ELSE turns[here]
  <2>1. turns \in [Rooms -> Seq(Mentions)] /\ turns[here] \in Seq(Mentions)
    BY <1>1, <1>3 DEF MentionTypes
  <2>2. Append(turns[here], m) \in Seq(Mentions)
    BY <2>1, AppendProperties
  <2> HIDE DEF here
  <2>3. CASE how = "reply"
    BY <1>1, <1>3, <2>1, <2>2, <2>3
  <2>4. CASE how # "reply"
    BY <1>1, <1>3, <2>1, <2>4
  <2> QED BY <2>3, <2>4
<1> HIDE DEF here
<1>7. /\ newest' \in [Rooms -> Mentions \cup {None}]
      /\ \A room \in Rooms : newest[room] # m => newest'[room] = newest[room]
  BY <1>1, <1>3 DEF MentionTypes
<1>8. /\ pending' \in [Rooms -> Nat] /\ pending'[here] = Less(pending[here])
      /\ \A room \in Rooms : room # here => pending'[room] = pending[room]
  <2>1. pending \in [Rooms -> Nat] /\ Less(pending[here]) \in Nat
    BY <1>1, <1>3 DEF MentionTypes, Less
  <2> QED BY <1>1, <1>3, <2>1
<1>9. MentionTypes'
  BY <1>1, <1>2, <1>6, <1>7, <1>8 DEF MentionTypes
<1>10. Counted'
  <2>1. ASSUME NEW a \in Mentions, NEW b \in Mentions, a < b, stage'[b] \notin Outside PROVE stage'[a] \notin Outside
    BY <1>1, <1>2, <1>4, <2>1 DEF MentionInv, Counted, Open, Outside
  <2>2. ASSUME NEW room \in Rooms, room # here PROVE Unanswered(room)' = Unanswered(room)
    BY <1>1, <1>2, <2>2 DEF Unanswered, here
  <2>3. Unanswered(here)' = Unanswered(here) \ {m} /\ m \in Unanswered(here)
    BY <1>1, <1>2, <1>4 DEF Unanswered, here, Open
  <2>4. /\ Cardinality(Unanswered(here) \ {m}) = Cardinality(Unanswered(here)) - 1
        /\ Cardinality(Unanswered(here) \ {m}) \in Nat
    BY <1>3, <2>3, OpenOnes, FS_RemoveElement, FS_CardinalityType
  <2>5. pending[here] \in Nat /\ MaxPending \in Nat /\ pending[here] = Cardinality(Unanswered(here)) /\ pending[here] <= MaxPending
    BY <1>1, <1>3, MentionAssumption DEF MentionTypes, MentionInv, Counted
  <2>6. ASSUME NEW room \in Rooms PROVE pending'[room] = Cardinality(Unanswered(room)') /\ pending'[room] <= MaxPending
    <3>1. CASE room = here
      <4>1. Unanswered(room)' = Unanswered(here) \ {m}
        BY <2>3, <3>1
      <4>2. pending'[room] = pending[here] - 1
        BY <1>8, <2>4, <2>5, <3>1 DEF Less
      <4>3. pending'[room] <= MaxPending
        BY <2>5, <4>2
      <4> QED BY <2>4, <2>5, <4>1, <4>2, <4>3
    <3>2. CASE room # here
      BY <1>8, <2>2, <3>2 DEF MentionInv, Counted
    <3> QED BY <3>1, <3>2
  <2> QED BY <2>1, <2>6 DEF Counted
<1>11. /\ ~Open(m)' /\ \A n \in Mentions : n # m => (Open(n)' <=> Open(n))
  BY <1>2, <1>4 DEF Open
<1>12. ASSUME NEW a \in Mentions PROVE LastIsOpen(a)'
  <2>1. SUFFICES ASSUME Open(a)'
                 PROVE  /\ newest'[RoomOf[a]] \in Mentions /\ a <= newest'[RoomOf[a]]
                        /\ RoomOf[newest'[RoomOf[a]]] = RoomOf[a]
                        /\ stage'[newest'[RoomOf[a]]] \in {"queued", "generating"}
    BY DEF LastIsOpen, Open
  <2>2. a # m /\ Open(a)
    BY <1>11, <2>1
  <2>3. LET n == newest[RoomOf[a]] IN n \in Mentions /\ a <= n /\ RoomOf[n] = RoomOf[a] /\ Open(n)
    BY <2>2 DEF MentionInv, InLine, LastIsOpen
  <2>4. newest[RoomOf[a]] # m
    <3>1. SUFFICES ASSUME newest[RoomOf[a]] = m PROVE FALSE
      OBVIOUS
    <3>2. RoomOf[a] = here /\ a <= m
      BY <2>3, <3>1 DEF here
    <3>3. a < m
      BY <2>2, <3>2, MentionsAreRequests
    <3> QED BY <1>5, <2>2, <3>2, <3>3
  <2>5. newest'[RoomOf[a]] = newest[RoomOf[a]]
    BY <1>3, <1>7, <2>4
  <2> QED BY <1>2, <2>3, <2>4, <2>5 DEF Open
<1>13. ASSUME NEW a \in Mentions, NEW b \in Mentions PROVE BehindOpen(a, b)'
  <2>1. SUFFICES ASSUME RoomOf[a] = RoomOf[b], a < b, Open(a)', stage'[b] \notin Outside \cup {"busy"}
                 PROVE  /\ stage'[b] = "queued" /\ after'[b] \in Mentions
                        /\ a <= after'[b] /\ RoomOf[after'[b]] = RoomOf[b]
                        /\ stage'[after'[b]] \in {"queued", "generating"}
    BY DEF BehindOpen, Open
  <2>2. a # m /\ Open(a)
    BY <1>11, <2>1
  <2>3. b # m
    BY <1>5, <2>1, <2>2 DEF here
  <2>4. stage[b] = "queued" /\ after[b] \in Mentions /\ a <= after[b] /\ RoomOf[after[b]] = RoomOf[b] /\ Open(after[b])
    BY <1>2, <2>1, <2>2, <2>3 DEF MentionInv, InLine, BehindOpen
  <2>5. after[b] # m
    <3>1. SUFFICES ASSUME after[b] = m PROVE FALSE
      OBVIOUS
    <3>2. RoomOf[a] = here /\ a <= m
      BY <2>1, <2>4, <3>1 DEF here
    <3>3. a < m
      BY <2>2, <3>2, MentionsAreRequests
    <3> QED BY <1>5, <2>2, <3>2, <3>3
  <2>6. after'[b] = after[b] /\ stage'[b] = stage[b]
    BY <1>1, <1>2, <2>3
  <2> QED BY <1>2, <2>4, <2>5, <2>6 DEF Open
<1>14. InLine'
  BY <1>12, <1>13 DEF InLine
<1>15. ASSUME NEW room \in Rooms, NEW k \in DOMAIN turns[room]
       PROVE  turns[room][k] \in Mentions /\ stage[turns[room][k]] = "reply" /\ turns[room][k] # m
  BY <1>1, Entries DEF MentionInv, UpToDate, MentionTypes, Open
<1>16. how = "reply" =>
         /\ turns[here] \in Seq(Mentions) /\ Len(turns[here]) \in Nat /\ DOMAIN turns[here] = 1..Len(turns[here])
         /\ DOMAIN turns'[here] = 1..(Len(turns[here]) + 1) /\ turns'[here][Len(turns[here]) + 1] = m
         /\ \A k \in 1..Len(turns[here]) : turns'[here][k] = turns[here][k]
  <2>1. turns[here] \in Seq(Mentions)
    BY <1>1, <1>3 DEF MentionTypes
  <2>2. Len(turns[here]) \in Nat /\ DOMAIN turns[here] = 1..Len(turns[here])
    BY <2>1, Entries
  <2>3. /\ DOMAIN Append(turns[here], m) = 1..(Len(turns[here]) + 1)
        /\ Append(turns[here], m)[Len(turns[here]) + 1] = m
        /\ \A k \in 1..Len(turns[here]) : Append(turns[here], m)[k] = turns[here][k]
    BY <2>1, <2>2, AppendProperties
  <2> QED BY <1>6, <2>1, <2>2, <2>3
<1>17. UpToDate'
  <2>1. ASSUME ~promptUse, NEW a \in Mentions, stage'[a] = "generating" PROVE saw'[a] = turns'[RoomOf[a]]
    <3>1. a # m /\ stage[a] = "generating" /\ saw[a] = turns[RoomOf[a]] /\ Open(a)
      BY <1>2, <1>4, <2>1 DEF MentionInv, UpToDate, Open
    <3>2. CASE RoomOf[a] # here \/ how # "reply"
      BY <1>1, <1>3, <1>6, <3>1, <3>2
    <3>3. CASE RoomOf[a] = here /\ how = "reply"
      <4>1. a < m \/ m < a
        BY <3>1, MentionsAreRequests
      <4>2. ~(a < m)
        BY <1>5, <3>1, <3>3
      <4>3. ~(m < a)
        <5>1. BehindOpen(m, a)
          BY DEF MentionInv, InLine
        <5> QED BY <1>1, <3>1, <3>3, <5>1 DEF BehindOpen, Outside, here
      <4> QED BY <4>1, <4>2, <4>3
    <3> QED BY <3>2, <3>3
  <2>2. ASSUME NEW room \in Rooms, NEW k \in DOMAIN turns'[room] PROVE stage'[turns'[room][k]] = "reply"
    <3>1. CASE turns'[room] = turns[room]
      BY <1>2, <1>15, <3>1
    <3>2. CASE turns'[room] # turns[room]
      <4>1. room = here /\ how = "reply"
        BY <1>6, <3>2
      <4>2. CASE k = Len(turns[here]) + 1
        BY <1>2, <1>16, <4>1, <4>2
      <4>3. CASE k # Len(turns[here]) + 1
        <5>1. k \in DOMAIN turns[here] /\ turns'[here][k] = turns[here][k]
          BY <1>16, <4>1, <4>3
        <5> QED BY <1>2, <1>15, <4>1, <5>1
      <4> QED BY <4>2, <4>3
    <3> QED BY <3>1, <3>2
  <2> QED BY <1>1, <2>1, <2>2 DEF UpToDate
<1>18. RepliesKnowEachOther'
  <2>1. SUFFICES ASSUME NEW room \in Rooms, NEW k \in DOMAIN turns'[room]
                 PROVE  IF promptUse THEN text[turns'[room][k]] \subseteq {turns'[room][i] : i \in 1..(k - 1)}
                                     ELSE saw[turns'[room][k]] = SubSeq(turns'[room], 1, k - 1)
    BY <1>1 DEF RepliesKnowEachOther, Earlier
  <2>2. CASE turns'[room] = turns[room]
    <3>1. k \in DOMAIN turns[room]
      BY <2>1, <2>2
    <3>2. IF promptUse THEN text[turns[room][k]] \subseteq {turns[room][i] : i \in 1..(k - 1)}
                       ELSE saw[turns[room][k]] = SubSeq(turns[room], 1, k - 1)
      BY <3>1 DEF MentionInv, RepliesKnowEachOther, Earlier
    <3> QED BY <2>2, <3>2
  <2>3. CASE turns'[room] # turns[room]
    <3> DEFINE old == turns[here]
               new == turns'[here]
    <3>1. room = here /\ how = "reply" /\ new = Append(old, m) /\ old \in Seq(Mentions) /\ Len(old) \in Nat
      BY <1>6, <1>16, <2>3
    <3>2. k \in 1..(Len(old) + 1)
      BY <1>16, <2>1, <3>1
    <3>3. SubSeq(new, 1, k - 1) = SubSeq(old, 1, k - 1)
      BY <3>1, <3>2, PartOfAppend
    <3>4. k - 1 \in 0..Len(old) /\ {new[i] : i \in 1..(k - 1)} = {old[i] : i \in 1..(k - 1)}
      <4>1. k - 1 \in 0..Len(old) /\ \A i \in 1..(k - 1) : new[i] = old[i]
        BY <1>16, <3>1, <3>2
      <4> QED BY <4>1
    <3>5. CASE k = Len(old) + 1
      <4>1. SubSeq(old, 1, k - 1) = old
        BY <3>1, <3>5, SubSeqFull
      <4>2. new[k] = m /\ (~promptUse => saw[m] = old)
        BY <1>1, <1>16, <3>1, <3>5 DEF MentionInv, UpToDate, here
      <4>3. {old[i] : i \in 1..(k - 1)} = Heard(here)
        BY <1>16, <3>1, <3>5 DEF Heard
      <4>4. text[m] \subseteq {old[i] : i \in 1..(k - 1)}
        BY <4>3 DEF MentionInv, FromTheStore, here
      <4> QED BY <3>1, <3>3, <3>4, <4>1, <4>2, <4>4
    <3>6. CASE k # Len(old) + 1
      <4>1. k \in DOMAIN old /\ new[k] = old[k]
        BY <1>16, <3>1, <3>2, <3>6
      <4>2. IF promptUse THEN text[old[k]] \subseteq {old[i] : i \in 1..(k - 1)}
                         ELSE saw[old[k]] = SubSeq(old, 1, k - 1)
        BY <1>3, <4>1 DEF MentionInv, RepliesKnowEachOther, Earlier
      <4> QED BY <3>1, <3>3, <3>4, <4>1, <4>2
    <3> QED BY <3>5, <3>6
  <2> QED BY <2>2, <2>3
<1>19. FromTheStore'
  <2>1. \A room \in Rooms : Heard(room) \subseteq Heard(room)'
    <3>1. SUFFICES ASSUME NEW room \in Rooms, NEW k \in DOMAIN turns[room]
                   PROVE  \E i \in DOMAIN turns'[room] : turns'[room][i] = turns[room][k]
      BY DEF Heard
    <3>2. CASE turns'[room] = turns[room]
      BY <3>2
    <3>3. CASE turns'[room] # turns[room]
      <4>1. room = here /\ how = "reply"
        BY <1>6, <3>3
      <4>2. k \in DOMAIN turns'[room] /\ turns'[room][k] = turns[room][k]
        BY <1>16, <4>1
      <4> QED BY <4>2
    <3> QED BY <3>2, <3>3
  <2>2. how = "reply" => m \in Heard(here)'
    <3>1. SUFFICES ASSUME how = "reply" PROVE \E i \in DOMAIN turns'[here] : turns'[here][i] = m
      BY DEF Heard
    <3>2. Len(turns[here]) + 1 \in DOMAIN turns'[here] /\ turns'[here][Len(turns[here]) + 1] = m
      BY <1>16, <3>1
    <3> QED BY <3>2
  <2>3. ASSUME NEW a \in Mentions, stage'[a] = "reply" PROVE a \in Heard(RoomOf[a])'
    <3>1. CASE a = m
      BY <1>2, <2>2, <2>3, <3>1 DEF here
    <3>2. CASE a # m
      BY <1>2, <1>3, <2>1, <2>3, <3>2 DEF MentionInv, FromTheStore
    <3> QED BY <3>1, <3>2
  <2>4. \A a \in Mentions : text'[a] \subseteq Heard(RoomOf[a])'
    BY <1>1, <1>3, <2>1 DEF MentionInv, FromTheStore
  <2>5. ASSUME NEW a \in stored' PROVE stage'[a] = "reply"
    <3>1. a \in Mentions /\ stage[a] = "reply" /\ a # m
      BY <1>1, <2>5 DEF MentionInv, FromTheStore, MentionTypes, Open
    <3> QED BY <1>2, <3>1
  <2> QED BY <2>3, <2>4, <2>5 DEF FromTheStore
<1> QED BY <1>9, <1>10, <1>14, <1>17, <1>18, <1>19 DEF MentionInv

\* Before the first mention the invariant holds.
LEMMA MentionStarts == MentionInit => MentionInv
<1> SUFFICES ASSUME MentionInit PROVE MentionInv
  OBVIOUS
<1>1. MentionTypes
  BY DEF MentionInit, MentionTypes, Outside
<1>2. \A n \in Mentions : stage[n] = "unasked"
  BY DEF MentionInit
<1>3. Counted
  <2>1. \A room \in Rooms : Unanswered(room) = {}
    BY <1>2 DEF Unanswered
  <2>2. Cardinality({}) = 0 /\ MaxPending \in Nat /\ \A room \in Rooms : pending[room] = 0
    BY FS_EmptySet, MentionAssumption DEF MentionInit
  <2> QED BY <1>2, <2>1, <2>2 DEF Counted, Outside
<1>4. InLine
  BY <1>2 DEF InLine, LastIsOpen, BehindOpen, Open
<1>5. \A room \in Rooms : DOMAIN turns[room] = {}
  BY DEF MentionInit
<1>6. UpToDate /\ RepliesKnowEachOther
  BY <1>2, <1>5 DEF UpToDate, RepliesKnowEachOther
<1>7. FromTheStore
  BY <1>2 DEF FromTheStore, MentionInit
<1> QED BY <1>1, <1>3, <1>4, <1>6, <1>7 DEF MentionInv

\* The invariant of the responder is inductive by itself.
LEMMA MentionStep == MentionInv /\ [MentionNext]_<<limiterVars, mentions>> => MentionInv'
<1> SUFFICES ASSUME MentionInv, [MentionNext]_<<limiterVars, mentions>> PROVE MentionInv'
  OBVIOUS
<1>1. CASE UNCHANGED mentions
  <2>1. UNCHANGED <<stage, after, newest, pending, turns, saw, promptUse, stored, text>>
    BY <1>1 DEF mentions, queues, store
  <2>2. \A room \in Rooms : Unanswered(room)' = Unanswered(room)
    BY <2>1 DEF Unanswered
  <2>3. MentionTypes' /\ UpToDate'
    BY <2>1 DEF MentionInv, MentionTypes, UpToDate
  <2>4. FromTheStore' /\ RepliesKnowEachOther'
    <3>1. \A m \in stored' : m \in Mentions /\ stage[m] = "reply"
      BY <2>1 DEF MentionInv, FromTheStore, MentionTypes
    <3>2. \A m \in Mentions : text'[m] \subseteq Heard(RoomOf[m])
      BY <2>1 DEF MentionInv, FromTheStore
    <3> QED BY <2>1, <3>1, <3>2, RepliesStay
  <2>5. Counted'
    BY <2>1, <2>2 DEF MentionInv, Counted
  <2>6. InLine'
    BY <2>1 DEF MentionInv, InLine, LastIsOpen, BehindOpen, Open
  <2> QED BY <2>3, <2>4, <2>5, <2>6 DEF MentionInv
<1> QED BY <1>1, MentionKinds, PrepareKeeps, DeliverKeeps, BusyKeeps, QueueKeeps, StartsKeeps, AnswersKeeps

\* Limiter and rooms fit together in every state of the responder: who is open stands
\* in line; where prompts are made of recentTurns, who is generated has them all in
\* its prompt; where they are made of durable context, no more is said of a text than
\* that the replies in it were made before, in its room (mention-responder.ts).
THEOREM MentionInvariance == MentionSpec => [](LimiterInv /\ MentionInv)
<1>1. MentionSpec => []LimiterInv
  BY MentionsUseTheLimiter, LimiterInvariance, PTL
<1>2. MentionSpec => []MentionInv
  BY MentionStarts, MentionStep, PTL DEF MentionSpec
<1> QED BY <1>1, <1>2, PTL

\* Every variable of the responder has its type; no room has more than
\* MAX_PENDING_PER_ROOM mentions pending.
THEOREM MentionTypeCorrect == MentionSpec => []MentionTypeOK
<1>1. MentionInv /\ LimiterTypeOK => MentionTypeOK
  BY MentionAssumption DEF MentionInv, MentionTypes, Outside, Counted, MentionTypeOK
<1> QED BY <1>1, MentionInvariance, MentionsUseTheLimiter, LimiterTypeCorrect, PTL

\* However requests end, the slots in use are held by generations that run, and the
\* pending count of a room is that of its unanswered mentions (pendingByRoom).
THEOREM CountersStandForThings == MentionSpec => []CountersAreTrue
<1>1. LimiterInv /\ MentionInv => CountersAreTrue
  BY DEF LimiterInv, MentionInv, Counted, CountersAreTrue
<1> QED BY <1>1, MentionInvariance, PTL

\* Where prompts are made of recentTurns, each reply was made with exactly the replies
\* before it in its prompt, whatever failed, timed out or was turned away between
\* (roomQueues).  In a process that makes them of durable context the prompt may lack
\* replies made while the mention waited (airi-adapter.ts reads the context before
\* respond()); there the theorem says only that a text holds none but earlier replies
\* of its room.
THEOREM RepliesAreMadeInOrder == MentionSpec => []RepliesKnowEachOther
<1>1. MentionInv => RepliesKnowEachOther
  BY DEF MentionInv
<1> QED BY <1>1, MentionInvariance, PTL

\* The budget and the cooldown bound the acquisitions of rooms and voice turns together:
\* they share one limiter, and no timeout or failure of one gets around it.  The
\* retries of a 503 come on top, and only they: in a cooldown nothing else goes
\* upstream, and in a window no more of them than the slots acquired in it, or held
\* when it began, allow.
THEOREM TheResponderKeepsTheBudget == MentionSpec => []BudgetKept /\ CooldownKept
BY MentionsUseTheLimiter, TheBudgetIsKept, TheCooldownIsKept, PTL

=============================================================================
