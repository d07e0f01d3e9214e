---------------------------- MODULE Intelligence ----------------------------
(***************************************************************************)
(* Summaries and facts made from messages (src/memory/intelligence-worker.ts*)
(* over memory-sqlite's reconciliation queue): durable jobs with leases,    *)
(* workers that wait for a model between reading a message and writing what *)
(* was made of it, deaths of the process, commands and forget requests in   *)
(* between, and the operator who backs up and restores while the bot is     *)
(* stopped, for the writer lease admits one process at a time.             *)
(*                                                                         *)
(* What runs between two awaits is one step.  A lease without a holder has  *)
(* expired.  Backoff and attempts are not counted: a job that waits may be  *)
(* claimed at any time, and one that fails waits again or is given up.     *)
(***************************************************************************)
EXTENDS MemoryStore

CONSTANTS
  Runs,      \* names for calls of runMemoryIntelligenceWorkerOnce()
  FlagSets   \* the settings of the feature flags: sets of job types

ASSUME IntelligenceAssumption == FlagSets \subseteq SUBSET JobTypes /\ Runs \cap Messages = {}

VARIABLES
  flags,      \* the job types that are switched on
  up,         \* the bot runs, and owns the authority
  run,        \* the job a run waits for the model with
  fenced,     \* ghost: runs and turns that were under way at a forget of their source
  leaked      \* ghost: records those have written since

vars == <<db, backup, turns, flags, up, run, fenced, leaked>>

Jobs == JobTypes \X Messages

TypeOK ==
  /\ db.event \in [Events -> {"absent", "live", "redacted"}]
  /\ db.gone \cup db.old \subseteq db.stored /\ db.stored \subseteq Records
  /\ db.tombs \subseteq Events \cup Records
  /\ db.job \in [Jobs -> [status : {"none", "ready", "leased", "succeeded", "dead_letter"},
                          holder : Runs \cup {None}]]
  /\ turns \subseteq Messages /\ flags \in FlagSets /\ up \in BOOLEAN /\ run \in [Runs -> Jobs \cup {None}]
  /\ fenced \subseteq Runs \cup Messages /\ leaked \subseteq Records

Init ==
  /\ StoreInit /\ flags \in FlagSets /\ up = FALSE
  /\ run = [r \in Runs |-> None] /\ fenced = {} /\ leaked = {}

-----------------------------------------------------------------------------
(* The queue, as functions on the database.                                *)

Claimable(d, j) ==
  d.job[j].status = "ready" \/ (d.job[j].status = "leased" /\ d.job[j].holder = None)

Leased(d, j, r) == [d EXCEPT !.job[j] = [status |-> "leased", holder |-> r]]

Holds(d, j, r) == d.job[j].status = "leased" /\ d.job[j].holder = r

Ended(d, j, status) == [d EXCEPT !.job[j] = [status |-> status, holder |-> None]]

\* succeed() and retry() throw when the lease is stale, and change nothing.
Succeeded(d, j, r) == IF Holds(d, j, r) THEN Ended(d, j, "succeeded") ELSE d

Retried(d, j, r) ==
  IF Holds(d, j, r) THEN {Ended(d, j, "dead_letter"), Ended(d, j, "ready")} ELSE {d}

-----------------------------------------------------------------------------
(* The bot's life.                                                         *)

Starts ==
  ~up /\ up' = TRUE /\ UNCHANGED <<flags, db, backup, turns, run, fenced, leaked>>

\* What the process held in memory is gone with it.
Gone ==
  /\ up' = FALSE /\ turns' = {} /\ run' = [r \in Runs |-> None] /\ fenced' = {}

Stops == up /\ Gone /\ UNCHANGED <<flags, db, backup, leaked>>

\* Each of the job rows is written by itself; the process can die between.
Appends(e) ==
  /\ up /\ db.event[e] = "absent"
  /\ \E queued \in SUBSET flags :
       /\ "memory_summary_v1" \in flags /\ "memory_extraction_v1" \in queued
            => "memory_summary_v1" \in queued
       /\ db' = [db EXCEPT !.event[e] = "live",
                           !.job = [j \in Jobs |-> IF j[1] \in queued /\ j[2] = e
                                      THEN [NoJob EXCEPT !.status = "ready"] ELSE @[j]]]
       /\ IF queued = flags THEN turns' = turns \cup {e} /\ UNCHANGED <<up, run, fenced>>
          ELSE Gone
  /\ UNCHANGED <<flags, backup, leaked>>

\* A command stores its event and then its fact; the process can die between.
Commanded(c, d) ==
  \/ db' = d /\ UNCHANGED <<up, turns, run, fenced>>
  \/ db' = [db EXCEPT !.event[c] = "live"] /\ Gone

Remembers(c, v) ==
  /\ up /\ db.event[c] = "absent" /\ Remembered(db, c, v) # db
  /\ Commanded(c, Remembered(db, c, v))
  /\ UNCHANGED <<flags, backup, leaked>>

Corrects(c, f, v) ==
  /\ up /\ db.event[c] = "absent" /\ f \in FactsOf(db, Author[c])
  /\ Commanded(c, Corrected(db, c, f, v))
  /\ UNCHANGED <<flags, backup, leaked>>

Forgets(p) ==
  /\ up /\ db' = Forgotten(db, p) /\ db' # db
  /\ LET es == ForgottenEvents(db, p) IN
       fenced' = fenced \cup (turns \cap es)
                        \cup {r \in Runs : run[r] # None /\ run[r][2] \in es}
  /\ UNCHANGED <<flags, backup, turns, up, run, leaked>>

Replies ==
  /\ up
  /\ \E e \in Messages :
       \/ EndsTurn(e) /\ fenced' = fenced \ {e} /\ UNCHANGED leaked
       \/ /\ Says(e)
          /\ leaked' = leaked \cup (IF e \in fenced THEN db'.stored \ db.stored ELSE {})
          /\ UNCHANGED fenced
  /\ UNCHANGED <<flags, backup, up, run>>

-----------------------------------------------------------------------------
(* runMemoryIntelligenceWorkerOnce().                                      *)

\* A bug to compare with: a redacted message is read as well.
ReadableAnyhow(d, e) == d.event[e] # "absent"

\* getForLogical() does not return a redacted message.
Readable(d, e) == d.event[e] = "live"

\* The claim, and what follows before the model is asked: without its
\* message a summary fails, and an extraction abstains.
Claims(r, j) ==
  /\ up /\ run[r] = None /\ Claimable(db, j)
  /\ LET d == Leased(db, j, r) IN
       \/ Readable(d, j[2]) /\ db' = d /\ run' = [run EXCEPT ![r] = j]
       \/ /\ ~Readable(d, j[2]) /\ UNCHANGED run
          /\ db' \in IF j[1] = "memory_summary_v1" THEN Retried(d, j, r) ELSE {Succeeded(d, j, r)}
  /\ fenced' = fenced \ {r} /\ UNCHANGED <<flags, backup, turns, up, leaked>>

\* A bug to compare with: a tombstoned summary is not looked at.
OtherLiveSummary(d, e, t) == \E r \in Live(d) : r[1] = "summary" /\ r[2] = e /\ r[3] # t

\* A summary with another text than the stored one conflicts with it.
OtherSummary(d, e, t) == \E r \in d.stored : r[1] = "summary" /\ r[2] = e /\ r[3] # t

\* Another value than a current one, of anybody in the room.
Contradicts(d, v) == \E r \in CurrentFacts(d) : r[3] # v

\* A bug to compare with: what is current is not looked at.
NoContradiction(d, e, v) ==
  IF \E r \in CurrentFacts(d) : r[3] = v THEN d ELSE Created(d, Fact(e, v))

\* executeExtraction() with one candidate.  A contradiction is left for the
\* operator to review, in a job no worker claims.
Extracted(d, e, v) ==
  IF Contradicts(d, v) \/ \E r \in CurrentFacts(d) : r[3] = v THEN d ELSE Created(d, Fact(e, v))

Written(d, j, answer) ==
  IF j[1] = "memory_summary_v1" THEN Created(d, Summary(j[2], answer))
  ELSE Extracted(d, j[2], answer)

Refused(d, j, answer) == j[1] = "memory_summary_v1" /\ OtherSummary(d, j[2], answer)

\* What becomes of the database, the process dying after the write or not.
Outcome(d, j, r, answer, dies) ==
  LET w == Written(d, j, answer) IN IF dies THEN w ELSE Succeeded(w, j, r)

\* The model answers.  Whether the lease still holds matters only to the job.
Answers(r, answer, dies) ==
  LET j == run[r] IN
  /\ up /\ j # None
  /\ answer \in IF j[1] = "memory_summary_v1" THEN Texts ELSE Values
  /\ ~Refused(db, j, answer) /\ db' = Outcome(db, j, r, answer, dies)
  /\ IF dies THEN Gone
     ELSE /\ run' = [run EXCEPT ![r] = None] /\ fenced' = fenced \ {r}
          /\ UNCHANGED <<up, turns>>
  /\ leaked' = leaked \cup (IF r \in fenced THEN db'.stored \ db.stored ELSE {})
  /\ UNCHANGED <<backup, flags>>

\* It abstains, fails, or says what conflicts with what is stored (the
\* summary, or the review that an earlier answer left).
Ends(r) ==
  LET j == run[r] IN
  /\ up /\ j # None
  /\ db' \in {Succeeded(db, j, r)} \cup Retried(db, j, r)
  /\ run' = [run EXCEPT ![r] = None] /\ fenced' = fenced \ {r}
  /\ UNCHANGED <<flags, backup, turns, up, leaked>>

LeaseExpires(j) ==
  /\ db.job[j].holder # None /\ db' = [db EXCEPT !.job[j].holder = None]
  /\ UNCHANGED <<flags, backup, turns, up, run, fenced, leaked>>

Operator == ~up /\ (Backs \/ Restores) /\ UNCHANGED <<flags, up, run, fenced, leaked>>

-----------------------------------------------------------------------------
Next ==
  \/ Starts \/ Stops \/ Replies \/ Operator
  \/ \E e \in Messages : Appends(e)
  \/ \E c \in Commands, v \in Values :
       Remembers(c, v) \/ \E f \in CurrentFacts(db) : Corrects(c, f, v)
  \/ \E p \in Persons : Forgets(p)
  \/ \E r \in Runs :
       \/ Ends(r) \/ \E j \in Jobs : Claims(r, j)
       \/ \E answer \in Values \cup Texts, dies \in BOOLEAN : Answers(r, answer, dies)
  \/ \E j \in Jobs : LeaseExpires(j)

Spec == Init /\ [][Next]_vars

-----------------------------------------------------------------------------
(* A summary is made once for its message: a job that is done twice, after   *)
(* its lease ran out or after the process died, leaves the first text.      *)
OneSummaryPerMessage ==
  \A e \in Messages : Cardinality({t \in Texts : Summary(e, t) \in db.stored}) <= 1

(* What is made of a message is made by a worker or a reply that had begun   *)
(* before the message was forgotten: nothing that begins later gets at it.  *)
NothingNewFromForgotten ==
  \A r \in Live(db) : db.event[r[2]] = "redacted" => r \in leaked

(* "deleted content cannot reappear through search, layered context, export,*)
(* or output history": no live record has a forgotten message as its source.*)
ForgottenStaysForgotten == \A r \in Live(db) : db.event[r[2]] # "redacted"
=============================================================================
