---------------------------- MODULE MemoryStore ----------------------------
(***************************************************************************)
(* What the memory database holds of one room and how it is forgotten       *)
(* (packages/memory-sqlite: events, memories, summaries, outputs, privacy,  *)
(* derived invalidation, backup): messages and commands, the records        *)
(* derived from them, forget requests, one backup and its restore.         *)
(*                                                                         *)
(* A derived record is <<kind, source, content>>: its identity is the       *)
(* stable id the code hashes from the same parts.  All facts are about one  *)
(* predicate; episodes behave as facts without a conflict check and are     *)
(* left out.                                                               *)
(***************************************************************************)
EXTENDS Naturals, FiniteSets

CONSTANTS
  Messages,    \* events of members
  Commands,    \* events that /memory commands append
  Persons,
  Author,      \* who sent an event
  Values,      \* what a fact can say
  Texts,       \* what a summary can say
  None

Events == Messages \cup Commands
JobTypes == {"memory_summary_v1", "memory_extraction_v1"}

Fact(e, v) == <<"fact", e, v>>
Summary(e, t) == <<"summary", e, t>>
Segment(e) == <<"segment", e, None>>
Records == {Fact(e, v) : e \in Events, v \in Values}
             \cup {Summary(e, t) : e \in Messages, t \in Texts}
             \cup {Segment(e) : e \in Messages}

\* Events and what is derived from them are kept in different tables.
ASSUME StoreAssumption ==
  Author \in [Events -> Persons] /\ Events \cap Records = {}

VARIABLES
  db,       \* the authority
  backup,   \* the published backup, or None
  turns     \* messages the voice adapter holds for a reply

NoJob == [status |-> "none", holder |-> None]

StoreInit ==
  /\ db = [event |-> [e \in Events |-> "absent"],
           stored |-> {}, gone |-> {}, old |-> {},   \* gone: tombstoned or emptied; old: superseded
           tombs |-> {},                             \* targets of completed forget requests
           job |-> [j \in JobTypes \X Messages |-> NoJob]]
  /\ backup = None /\ turns = {}

-----------------------------------------------------------------------------
Live(d) == d.stored \ d.gone
CurrentFacts(d) == {r \in Live(d) \ d.old : r[1] = "fact"}
FactsOf(d, p) == {r \in CurrentFacts(d) : Author[r[2]] = p}

\* A bug to compare with: what was tombstoned is created anew.
Recreated(d, r) == [d EXCEPT !.stored = @ \cup {r}, !.gone = @ \ {r}]

\* Creating a record whose identity exists returns what exists, whatever
\* became of it.
Created(d, r) == [d EXCEPT !.stored = @ \cup {r}]

\* The event of a command and the fact it states, of predicate and scope alike.
Stated(d, c, v) == [Created(d, Fact(c, v)) EXCEPT !.event[c] = "live"]

\* remember: refused while the person has another value, and nothing new is
\* stored when it is known already.
Remembered(d, c, v) ==
  LET mine == FactsOf(d, Author[c]) IN IF mine = {} THEN Stated(d, c, v) ELSE d

\* correct: the fact is superseded by the command's.
Corrected(d, c, f, v) == [Stated(d, c, v) EXCEPT !.old = @ \cup {f}]

-----------------------------------------------------------------------------
(* Forgetting one person in the room.                                      *)

ForgottenEvents(d, p) == {e \in Events : d.event[e] = "live" /\ Author[e] = p}

\* The planner's closure: the person's facts, and whatever has a source
\* among the events that are not redacted yet.
Derived(d, p) ==
  {r \in Live(d) : r[2] \in ForgottenEvents(d, p) \/ (r[1] = "fact" /\ Author[r[2]] = p)}

\* What the database does not hold is passed over.
Removed(d, targets) ==
  [d EXCEPT !.event = [e \in Events |-> IF e \in targets /\ @[e] # "absent" THEN "redacted" ELSE @[e]],
            !.gone = @ \cup (targets \cap d.stored)]

Targets(d, p) == ForgottenEvents(d, p) \cup Derived(d, p)

Forgotten(d, p) == [Removed(d, Targets(d, p)) EXCEPT !.tombs = @ \cup Targets(d, p)]

-----------------------------------------------------------------------------
(* The replies of the voice adapter, which holds a message from its append  *)
(* until the turn it causes has ended, redacted meanwhile or not: what is   *)
(* heard is stored as an output segment of the message's generation.       *)

Says(e) ==
  /\ e \in turns /\ db' = Created(db, Segment(e)) /\ db' # db /\ UNCHANGED turns

EndsTurn(e) == e \in turns /\ turns' = turns \ {e} /\ UNCHANGED db

-----------------------------------------------------------------------------
(* The operator's commands, with the bot stopped.                          *)

Backs == backup = None /\ backup' = db /\ UNCHANGED <<db, turns>>

\* restore, and the restored file put in the authority's place.  The
\* obligations come from the authority that is replaced; they are applied to
\* the restored one but not recorded in it.
Restores ==
  /\ backup # None /\ db' = Removed(backup, db.tombs) /\ UNCHANGED <<backup, turns>>

-----------------------------------------------------------------------------
TombIsVerified(d, t) == IF t \in Events THEN d.event[t] = "redacted" ELSE t \in d.gone

(* verify-deletion finds every completed obligation of the authority, and   *)
(* of its backup, still verified: nothing the store does later puts back     *)
(* what a completed forget request removed.                                *)
ObligationsVerify ==
  /\ \A t \in db.tombs : TombIsVerified(db, t)
  /\ backup # None => \A t \in backup.tombs : TombIsVerified(backup, t)

(* A person has one current value of a predicate in a room: a second one    *)
(* becomes a correction, is refused or waits for review, whichever of a      *)
(* command and an extraction that was under way came first.                *)
OneValuePerPerson == \A p \in Persons : Cardinality(FactsOf(db, p)) <= 1

(* "deleted content cannot reappear": what was redacted, tombstoned or       *)
(* emptied stays so, also in a database that was restored from a backup     *)
(* taken before.                                                           *)
DeletedStaysDeleted ==
  [][\A e \in Events : db.event[e] = "redacted" => db'.event[e] # "live"]_<<db, backup, turns>>
=============================================================================
