------------------------- MODULE IntelligenceProofs -------------------------
(***************************************************************************)
(* Proofs about the memory of one room: for all messages, commands and      *)
(* members, any number of runs of the worker at once, any number of deaths  *)
(* of the process, forget requests and restores.                           *)
(***************************************************************************)
EXTENDS Intelligence, FiniteSetTheorems, TLAPS

-----------------------------------------------------------------------------
(* The inductive invariant: what holds of one database, authority or backup. *)

Databases ==
  [event : [Events -> {"absent", "live", "redacted"}],
   stored : SUBSET Records, gone : SUBSET Records, old : SUBSET Records,
   tombs : SUBSET (Events \cup Records),
   job : [Jobs -> [status : {"none", "ready", "leased", "succeeded", "dead_letter"},
                   holder : Runs \cup {None}]]]

\* What is derived was derived from an event the database has.
Sourced(d) == \A r \in d.stored : d.event[r[2]] # "absent"

\* Nothing is tombstoned or emptied but with its source.
GoneWithSource(d) == d.gone \cup d.old \subseteq d.stored /\ \A r \in d.gone : d.event[r[2]] = "redacted"

Verified(d) == \A t \in d.tombs : TombIsVerified(d, t)

\* At most one current value per person.
OneValue(d) == \A f, g \in CurrentFacts(d) : Author[f[2]] = Author[g[2]] => f = g

\* What lives on after its source was forgotten was under way at that time.
OnlyLeaks(d, leaks) == \A r \in Live(d) : d.event[r[2]] = "redacted" => r \in leaks

Sound(d, leaks) ==
  d \in Databases /\ Sourced(d) /\ GoneWithSource(d) /\ Verified(d) /\ OneValue(d) /\ OnlyLeaks(d, leaks)

(* And what holds between the two: the obligations of the authority reach   *)
(* everything a restore could bring back.                                  *)

\* The backup is a part of what the authority stores; what was ever leaked was
\* leaked before the backup, or is not in it.
WithBackup ==
  /\ backup.stored \subseteq db.stored
  /\ \A r \in leaked \cap backup.stored : backup.event[r[2]] = "redacted"
  /\ \A r \in Live(backup) : backup.event[r[2]] = "live" /\ r[2] \in db.tombs => r \in db.tombs
  /\ \A r \in db.tombs \cap backup.stored : r[2] \in db.tombs \/ backup.event[r[2]] = "redacted"

WithoutBackup == \A r \in leaked : db.event[r[2]] = "redacted"

\* What the process holds in memory: only of events the authority has, and marked
\* as soon as they are forgotten.
InMemory ==
  /\ turns \subseteq Messages /\ run \in [Runs -> Jobs \cup {None}] /\ flags \in FlagSets /\ up \in BOOLEAN
  /\ leaked \subseteq Records /\ fenced \subseteq turns \cup {r \in Runs : run[r] # None}
  /\ ~up => turns = {} /\ run = [r \in Runs |-> None]
  /\ \A e \in turns : db.event[e] # "absent" /\ (e \in fenced <=> db.event[e] = "redacted")
  /\ \A r \in Runs : run[r] # None =>
       db.event[run[r][2]] # "absent" /\ (r \in fenced <=> db.event[run[r][2]] = "redacted")

IInv ==
  /\ Sound(db, leaked) /\ InMemory
  /\ IF backup = None THEN WithoutBackup ELSE Sound(backup, leaked) /\ WithBackup

-----------------------------------------------------------------------------
(* Records, and the operations on a database field by field.               *)

\* A record names its source, an event; the three kinds are different.
LEMMA RecordFacts ==
  /\ \A r \in Records : r[2] \in Events
  /\ \A e \in Events, v \in Values : Fact(e, v) \in Records /\ Fact(e, v)[1] = "fact" /\ Fact(e, v)[2] = e
  /\ \A e \in Messages, t \in Texts :
       Summary(e, t) \in Records /\ Summary(e, t)[1] = "summary" /\ Summary(e, t)[2] = e
  /\ \A e \in Messages : Segment(e) \in Records /\ Segment(e)[1] = "segment" /\ Segment(e)[2] = e
BY DEF Records, Fact, Summary, Segment, Events

\* Two databases that differ in their jobs only.
Alike(d, c) ==
  /\ c \in Databases
  /\ c.event = d.event /\ c.stored = d.stored /\ c.gone = d.gone /\ c.old = d.old /\ c.tombs = d.tombs

LEMMA AlikeSound ==
  ASSUME NEW d, NEW c, NEW leaks, Sound(d, leaks), Alike(d, c)
  PROVE  Sound(c, leaks)
BY DEF Sound, Alike, Sourced, GoneWithSource, Verified, TombIsVerified, OneValue, OnlyLeaks, CurrentFacts, Live

\* Creating adds one record and changes nothing else.
LEMMA CreatedFields ==
  ASSUME NEW d \in Databases, NEW r \in Records
  PROVE  /\ Created(d, r) \in Databases
         /\ Created(d, r).stored = d.stored \cup {r}
         /\ Created(d, r).event = d.event /\ Created(d, r).gone = d.gone /\ Created(d, r).old = d.old
         /\ Created(d, r).tombs = d.tombs /\ Created(d, r).job = d.job
BY DEF Created, Databases

\* What the queue does to a database concerns its jobs only.
LEMMA JobsOnly ==
  ASSUME NEW d \in Databases, NEW j \in Jobs, NEW r \in Runs
  PROVE  /\ Alike(d, Leased(d, j, r))
         /\ \A status \in {"succeeded", "dead_letter", "ready"} : Alike(d, Ended(d, j, status))
         /\ Alike(d, Succeeded(d, j, r))
         /\ \A c \in Retried(d, j, r) : Alike(d, c)
<1>1. \A job \in [status : {"none", "ready", "leased", "succeeded", "dead_letter"}, holder : Runs \cup {None}] :
        Alike(d, [d EXCEPT !.job[j] = job])
  BY DEF Alike, Databases
<1>2. Alike(d, d)
  BY DEF Alike
<1>3. Alike(d, Leased(d, j, r))
  BY <1>1 DEF Leased
<1>4. \A status \in {"succeeded", "dead_letter", "ready"} : Alike(d, Ended(d, j, status))
  BY <1>1 DEF Ended
<1> QED BY <1>2, <1>3, <1>4 DEF Succeeded, Retried

\* What may be created: something of an event the database has, leaked if that
\* was forgotten; and a fact only of a person without a current one.
LEMMA CreatedSound ==
  ASSUME NEW d, NEW leaks, NEW more, leaks \subseteq more, Sound(d, leaks),
         NEW r \in Records, d.event[r[2]] # "absent",
         d.event[r[2]] = "redacted" /\ r \notin d.stored => r \in more,
         r[1] = "fact" => \A f \in CurrentFacts(d) : Author[f[2]] # Author[r[2]]
  PROVE  Sound(Created(d, r), more)
<1> DEFINE c == Created(d, r)
<1>1. /\ c \in Databases /\ c.stored = d.stored \cup {r} /\ c.event = d.event /\ c.gone = d.gone
      /\ c.old = d.old /\ c.tombs = d.tombs
  BY CreatedFields DEF Sound
<1> HIDE DEF c
<1>2. Sourced(c) /\ GoneWithSource(c) /\ Verified(c)
  BY <1>1 DEF Sound, Sourced, GoneWithSource, Verified, TombIsVerified
<1>3. OneValue(c)
  BY <1>1 DEF Sound, OneValue, CurrentFacts, Live
<1>4. OnlyLeaks(c, more)
  BY <1>1 DEF Sound, OnlyLeaks, Live
<1> QED BY <1>1, <1>2, <1>3, <1>4 DEF Sound, c

\* An event the database did not have becomes live; jobs may come with it.
LEMMA LiveEventSound ==
  ASSUME NEW d, NEW c, NEW leaks, Sound(d, leaks), NEW e \in Events, d.event[e] = "absent", c \in Databases,
         c.event = [d.event EXCEPT ![e] = "live"], c.stored = d.stored, c.gone = d.gone, c.old = d.old, c.tombs = d.tombs
  PROVE  Sound(c, leaks)
<1>1. /\ c.event[e] = "live" /\ \A x \in Events : x # e => c.event[x] = d.event[x]
      /\ \A r \in Records : r[2] \in Events
      /\ d.stored \subseteq Records /\ d.gone \subseteq d.stored /\ d.old \subseteq d.stored
  BY RecordFacts DEF Sound, GoneWithSource, Databases
<1>2. \A r \in d.stored : r[2] # e /\ c.event[r[2]] = d.event[r[2]]
  BY <1>1 DEF Sound, Sourced
<1>3. Sourced(c) /\ GoneWithSource(c) /\ OnlyLeaks(c, leaks)
  BY <1>1, <1>2 DEF Sound, Sourced, GoneWithSource, OnlyLeaks, Live
<1>4. Verified(c)
  BY <1>1 DEF Sound, Verified, TombIsVerified
<1>5. OneValue(c)
  BY DEF Sound, OneValue, CurrentFacts, Live
<1> QED BY <1>3, <1>4, <1>5 DEF Sound

\* The event of a command, and the fact it states with it.
Begun(d, c) == [d EXCEPT !.event[c] = "live"]

LEMMA BegunFields ==
  ASSUME NEW d \in Databases, NEW c \in Events
  PROVE  /\ Begun(d, c) \in Databases /\ Begun(d, c).event = [d.event EXCEPT ![c] = "live"]
         /\ Begun(d, c).stored = d.stored /\ Begun(d, c).gone = d.gone /\ Begun(d, c).old = d.old
         /\ Begun(d, c).tombs = d.tombs
BY DEF Begun, Databases

LEMMA StatedFields ==
  ASSUME NEW d \in Databases, NEW c \in Events, NEW v \in Values
  PROVE  /\ Stated(d, c, v) = Created(Begun(d, c), Fact(c, v)) /\ Stated(d, c, v) \in Databases
         /\ Stated(d, c, v).event = [d.event EXCEPT ![c] = "live"]
         /\ Stated(d, c, v).stored = d.stored \cup {Fact(c, v)}
         /\ Stated(d, c, v).gone = d.gone /\ Stated(d, c, v).old = d.old /\ Stated(d, c, v).tombs = d.tombs
<1>1. Fact(c, v) \in Records
  BY RecordFacts
<1>2. Stated(d, c, v) = Created(Begun(d, c), Fact(c, v))
  BY DEF Stated, Created, Begun, Databases
<1> DEFINE b == Begun(d, c)
<1>3. /\ b \in Databases /\ b.event = [d.event EXCEPT ![c] = "live"]
      /\ b.stored = d.stored /\ b.gone = d.gone /\ b.old = d.old /\ b.tombs = d.tombs
  BY BegunFields
<1> HIDE DEF b
<1>4. /\ Created(b, Fact(c, v)) \in Databases /\ Created(b, Fact(c, v)).stored = b.stored \cup {Fact(c, v)}
      /\ Created(b, Fact(c, v)).event = b.event /\ Created(b, Fact(c, v)).gone = b.gone
      /\ Created(b, Fact(c, v)).old = b.old /\ Created(b, Fact(c, v)).tombs = b.tombs
  BY <1>1, <1>3, CreatedFields
<1>5. Stated(d, c, v) = Created(b, Fact(c, v))
  BY <1>2 DEF b
<1> QED BY <1>2, <1>3, <1>4, <1>5

\* remember and correct: sound because a person's other value stops it, or is
\* superseded by the command's.
LEMMA CommandsSound ==
  ASSUME NEW d, NEW leaks, Sound(d, leaks), NEW c \in Events, d.event[c] = "absent", NEW v \in Values
  PROVE  /\ Sound(Begun(d, c), leaks)
         /\ Sound(Remembered(d, c, v), leaks)
         /\ \A f \in FactsOf(d, Author[c]) : Sound(Corrected(d, c, f, v), leaks)
<1> DEFINE b == Begun(d, c)
           s == Stated(d, c, v)
<1>1. /\ d \in Databases /\ b \in Databases /\ s \in Databases /\ s = Created(b, Fact(c, v))
      /\ b.event = [d.event EXCEPT ![c] = "live"]
      /\ b.stored = d.stored /\ b.gone = d.gone /\ b.old = d.old /\ b.tombs = d.tombs
      /\ s.stored = d.stored \cup {Fact(c, v)} /\ s.event = b.event /\ s.gone = d.gone /\ s.old = d.old
      /\ s.tombs = d.tombs
  BY StatedFields, BegunFields DEF Sound
<1>2. /\ Fact(c, v) \in Records /\ Fact(c, v)[1] = "fact" /\ Fact(c, v)[2] = c
      /\ b.event[c] = "live"
  BY <1>1, RecordFacts DEF Databases
<1>3. /\ d.gone \subseteq d.stored /\ d.old \subseteq d.stored /\ \A r \in d.stored : r \in Records /\ r[2] \in Events
      /\ \A r \in d.stored : d.event[r[2]] # "absent" /\ r[2] # c
      /\ \A e \in Events : e # c => s.event[e] = d.event[e]
      /\ s.event[c] = "live"
  BY <1>1, RecordFacts DEF Sound, GoneWithSource, Sourced, Databases
<1> HIDE DEF b, s
<1>4. Sound(b, leaks)
  BY <1>1, LiveEventSound
<1>5. CurrentFacts(b) = CurrentFacts(d)
  BY <1>1 DEF CurrentFacts, Live
<1>6. Sound(Remembered(d, c, v), leaks)
  <2>1. CASE FactsOf(d, Author[c]) = {}
    <3>1. \A f \in CurrentFacts(b) : Author[f[2]] # Author[c]
      BY <1>5, <2>1 DEF FactsOf
    <3>2. Sound(s, leaks)
      BY <1>1, <1>2, <1>4, <3>1, CreatedSound
    <3> QED BY <2>1, <3>2 DEF Remembered, s
  <2>2. CASE FactsOf(d, Author[c]) # {}
    BY <2>2 DEF Remembered
  <2> QED BY <2>1, <2>2
<1>7. ASSUME NEW f \in FactsOf(d, Author[c]) PROVE Sound(Corrected(d, c, f, v), leaks)
  <2> DEFINE k == Corrected(d, c, f, v)
  <2>1. f \in d.stored /\ f \in Records /\ f \in CurrentFacts(d) /\ Author[f[2]] = Author[c]
    BY <1>3 DEF FactsOf, CurrentFacts, Live
  <2>2. /\ k \in Databases /\ k.event = s.event /\ k.stored = s.stored /\ k.gone = s.gone /\ k.tombs = s.tombs
        /\ k.old = s.old \cup {f}
    BY <1>1, <2>1 DEF Corrected, s, Databases
  <2> HIDE DEF k
  <2>3. Sourced(k)
    BY <1>1, <1>2, <1>3, <2>2 DEF Sourced
  <2>4. GoneWithSource(k)
    BY <1>1, <1>2, <1>3, <2>1, <2>2 DEF Sound, GoneWithSource
  <2>5. Verified(k)
    BY <1>1, <1>3, <2>2 DEF Sound, Verified, TombIsVerified
  <2>6. OnlyLeaks(k, leaks)
    BY <1>1, <1>2, <1>3, <2>2 DEF Sound, OnlyLeaks, Live
  <2>7. \A g \in CurrentFacts(k) : g = Fact(c, v) \/ (g \in CurrentFacts(d) /\ g # f)
    BY <1>1, <2>2 DEF CurrentFacts, Live
  <2>8. \A g \in CurrentFacts(d) : g # f => Author[g[2]] # Author[c]
    BY <2>1 DEF Sound, OneValue
  <2>9. OneValue(k)
    BY <1>2, <2>7, <2>8 DEF OneValue, Sound
  <2> QED BY <2>2, <2>3, <2>4, <2>5, <2>6, <2>9 DEF Sound, k
<1> QED BY <1>4, <1>6, <1>7 DEF b

\* A command adds at most its event, its fact, and what that fact supersedes.
LEMMA CommandsFields ==
  ASSUME NEW d \in Databases, NEW c \in Events, NEW v \in Values, NEW n,
         n \in {Begun(d, c), Remembered(d, c, v)} \cup {Corrected(d, c, f, v) : f \in Records}
  PROVE  /\ d.stored \subseteq n.stored /\ n.stored \subseteq d.stored \cup {Fact(c, v)}
         /\ n.tombs = d.tombs
         /\ n.event \in {d.event, [d.event EXCEPT ![c] = "live"]}
<1>1. CASE n = Begun(d, c)
  BY <1>1, BegunFields
<1>2. /\ Stated(d, c, v).event = [d.event EXCEPT ![c] = "live"] /\ Stated(d, c, v).tombs = d.tombs
      /\ Stated(d, c, v).stored = d.stored \cup {Fact(c, v)} /\ Stated(d, c, v) \in Databases
  BY StatedFields
<1>3. CASE n = Remembered(d, c, v)
  <2>1. Remembered(d, c, v) = Stated(d, c, v) \/ Remembered(d, c, v) = d
    BY DEF Remembered
  <2> QED BY <1>2, <1>3, <2>1
<1>4. CASE \E f \in Records : n = Corrected(d, c, f, v)
  <2>1. PICK f \in Records : n = [Stated(d, c, v) EXCEPT !.old = @ \cup {f}]
    BY <1>4 DEF Corrected
  <2>2. n.event = Stated(d, c, v).event /\ n.stored = Stated(d, c, v).stored /\ n.tombs = Stated(d, c, v).tombs
    BY <1>2, <2>1 DEF Databases
  <2> QED BY <1>2, <2>2
<1> QED BY <1>1, <1>3, <1>4

\* Removing redacts the events a database has and tombstones its records.
LEMMA RemovedFields ==
  ASSUME NEW d \in Databases, NEW targets
  PROVE  /\ Removed(d, targets) \in Databases
         /\ \A e \in Events :
              Removed(d, targets).event[e] = IF e \in targets /\ d.event[e] # "absent" THEN "redacted" ELSE d.event[e]
         /\ Removed(d, targets).gone = d.gone \cup (targets \cap d.stored)
         /\ Removed(d, targets).stored = d.stored /\ Removed(d, targets).old = d.old
         /\ Removed(d, targets).tombs = d.tombs
<1>1. targets \cap d.stored \subseteq Records
  BY DEF Databases
<1>2. [e \in Events |-> IF e \in targets /\ d.event[e] # "absent" THEN "redacted" ELSE d.event[e]]
        \in [Events -> {"absent", "live", "redacted"}]
  BY DEF Databases
<1> QED BY <1>1, <1>2 DEF Removed, Databases

\* Removing keeps what was sound: it takes the records it tombstones with their
\* sources, and leaves none of a source it redacts.
LEMMA RemovedSound ==
  ASSUME NEW d, NEW leaks, Sound(d, leaks), NEW targets,
         \A r \in targets \cap d.stored : r[2] \in targets \/ d.event[r[2]] = "redacted",
         \A r \in Live(d) : d.event[r[2]] = "live" /\ r[2] \in targets => r \in targets
  PROVE  Sound(Removed(d, targets), leaks)
<1> DEFINE n == Removed(d, targets)
<1>1. d \in Databases
  BY DEF Sound
<1>2. /\ n \in Databases
      /\ \A e \in Events : n.event[e] = IF e \in targets /\ d.event[e] # "absent" THEN "redacted" ELSE d.event[e]
      /\ n.gone = d.gone \cup (targets \cap d.stored)
      /\ n.stored = d.stored /\ n.old = d.old /\ n.tombs = d.tombs
  BY <1>1, RemovedFields
<1>3. /\ d.gone \subseteq d.stored /\ d.old \subseteq d.stored
      /\ \A r \in d.stored : r \in Records /\ r[2] \in Events /\ d.event[r[2]] \in {"live", "redacted"}
      /\ \A r \in d.gone : d.event[r[2]] = "redacted"
  BY <1>1, RecordFacts DEF Sound, GoneWithSource, Sourced, Databases
<1> HIDE DEF n
<1>4. Sourced(n)
  BY <1>2, <1>3 DEF Sourced
<1>5. GoneWithSource(n)
  BY <1>2, <1>3 DEF GoneWithSource
<1>6. Verified(n)
  BY <1>2 DEF Sound, Verified, TombIsVerified
<1>7. OneValue(n)
  <2>1. CurrentFacts(n) \subseteq CurrentFacts(d)
    BY <1>2 DEF CurrentFacts, Live
  <2> QED BY <2>1 DEF Sound, OneValue
<1>8. OnlyLeaks(n, leaks)
  <2>1. ASSUME NEW r \in Live(n), n.event[r[2]] = "redacted" PROVE r \in leaks
    <3>1. r \in Live(d) /\ r \notin targets /\ r \in d.stored
      BY <1>2 DEF Live
    <3>2. d.event[r[2]] = "redacted"
      BY <1>2, <1>3, <2>1, <3>1
    <3> QED BY <3>1, <3>2 DEF Sound, OnlyLeaks
  <2> QED BY <2>1 DEF OnlyLeaks
<1> QED BY <1>2, <1>4, <1>5, <1>6, <1>7, <1>8 DEF Sound, n

\* What a person's forget request closes over.
LEMMA TargetsFacts ==
  ASSUME NEW d, NEW leaks, Sound(d, leaks), NEW p
  PROVE  /\ \A e \in Events : e \in Targets(d, p) <=> e \in ForgottenEvents(d, p)
         /\ \A e \in ForgottenEvents(d, p) : e \in Events /\ d.event[e] = "live"
         /\ \A r \in Records : r \in Targets(d, p) <=> r \in Derived(d, p)
         /\ \A r \in Derived(d, p) :
              r \in Live(d) /\ r \in d.stored /\ r \in Records
                /\ (r[2] \in ForgottenEvents(d, p) \/ d.event[r[2]] = "redacted")
         /\ \A r \in Live(d) : r[2] \in ForgottenEvents(d, p) => r \in Derived(d, p)
         /\ Targets(d, p) \subseteq Events \cup Records
<1>1. \A r \in d.stored : r \in Records /\ r \notin Events /\ r[2] \in Events /\ d.event[r[2]] \in {"live", "redacted"}
  BY RecordFacts, StoreAssumption DEF Sound, Sourced, Databases
<1>2. \A e \in Events : e \notin Records
  BY StoreAssumption
<1> QED BY <1>1, <1>2 DEF Targets, ForgottenEvents, Derived, Live

LEMMA ForgottenFields ==
  ASSUME NEW d, NEW leaks, Sound(d, leaks), NEW p
  PROVE  /\ Forgotten(d, p) \in Databases
         /\ \A e \in Events :
              Forgotten(d, p).event[e] = IF e \in ForgottenEvents(d, p) THEN "redacted" ELSE d.event[e]
         /\ Forgotten(d, p).stored = d.stored /\ Forgotten(d, p).gone = Removed(d, Targets(d, p)).gone
         /\ Forgotten(d, p).old = d.old
         /\ Forgotten(d, p).tombs = d.tombs \cup Targets(d, p)
         /\ Forgotten(d, p).event = Removed(d, Targets(d, p)).event
<1> DEFINE n == Removed(d, Targets(d, p))
<1>1. d \in Databases
  BY DEF Sound
<1>2. /\ n \in Databases
      /\ \A e \in Events : n.event[e] = IF e \in Targets(d, p) /\ d.event[e] # "absent" THEN "redacted" ELSE d.event[e]
      /\ n.stored = d.stored /\ n.old = d.old /\ n.tombs = d.tombs
  BY <1>1, RemovedFields
<1>3. /\ \A e \in Events : e \in Targets(d, p) <=> e \in ForgottenEvents(d, p)
      /\ \A e \in ForgottenEvents(d, p) : d.event[e] = "live"
      /\ Targets(d, p) \subseteq Events \cup Records
  BY TargetsFacts
<1>4. Forgotten(d, p) = [n EXCEPT !.tombs = @ \cup Targets(d, p)]
  BY DEF Forgotten
<1> HIDE DEF n
<1>5. /\ Forgotten(d, p) \in Databases
      /\ Forgotten(d, p).event = n.event /\ Forgotten(d, p).stored = n.stored /\ Forgotten(d, p).gone = n.gone
      /\ Forgotten(d, p).old = n.old /\ Forgotten(d, p).tombs = n.tombs \cup Targets(d, p)
  BY <1>2, <1>3, <1>4 DEF Databases
<1> QED BY <1>2, <1>3, <1>5 DEF n

LEMMA ForgottenSound ==
  ASSUME NEW d, NEW leaks, Sound(d, leaks), NEW p
  PROVE  Sound(Forgotten(d, p), leaks)
<1> DEFINE n == Removed(d, Targets(d, p))
           k == Forgotten(d, p)
<1>1. /\ \A e \in Events : e \in Targets(d, p) <=> e \in ForgottenEvents(d, p)
      /\ \A e \in ForgottenEvents(d, p) : e \in Events /\ d.event[e] = "live"
      /\ \A r \in Records : r \in Targets(d, p) <=> r \in Derived(d, p)
      /\ \A r \in Derived(d, p) : r \in Live(d) /\ r \in d.stored /\ r \in Records
                                    /\ (r[2] \in ForgottenEvents(d, p) \/ d.event[r[2]] = "redacted")
      /\ \A r \in Live(d) : r[2] \in ForgottenEvents(d, p) => r \in Derived(d, p)
      /\ Targets(d, p) \subseteq Events \cup Records
  BY TargetsFacts
<1>2. /\ d \in Databases /\ \A r \in Records : r[2] \in Events /\ r \notin Events
      /\ d.stored \subseteq Records
  BY RecordFacts, StoreAssumption DEF Sound, Databases
<1>3. Sound(n, leaks)
  <2>1. \A r \in Targets(d, p) \cap d.stored : r[2] \in Targets(d, p) \/ d.event[r[2]] = "redacted"
    BY <1>1, <1>2
  <2>2. \A r \in Live(d) : d.event[r[2]] = "live" /\ r[2] \in Targets(d, p) => r \in Targets(d, p)
    BY <1>1, <1>2 DEF Live
  <2> QED BY <2>1, <2>2, RemovedSound
<1>4. /\ k \in Databases /\ k.event = n.event /\ k.stored = d.stored /\ k.gone = n.gone /\ k.old = d.old
      /\ k.tombs = d.tombs \cup Targets(d, p)
      /\ \A e \in Events : k.event[e] = IF e \in ForgottenEvents(d, p) THEN "redacted" ELSE d.event[e]
  BY ForgottenFields
<1>5. /\ n.stored = d.stored /\ n.old = d.old /\ n.tombs = d.tombs /\ n.gone = d.gone \cup (Targets(d, p) \cap d.stored)
  BY <1>2, RemovedFields
<1> HIDE DEF n, k
<1>6. Sourced(k) /\ GoneWithSource(k) /\ OneValue(k) /\ OnlyLeaks(k, leaks)
  BY <1>3, <1>4, <1>5 DEF Sound, Sourced, GoneWithSource, OneValue, OnlyLeaks, CurrentFacts, Live
<1>7. Verified(k)
  <2>1. \A t \in d.tombs : TombIsVerified(k, t)
    BY <1>3, <1>4, <1>5 DEF Sound, Verified, TombIsVerified
  <2>2. \A t \in Targets(d, p) : TombIsVerified(k, t)
    BY <1>1, <1>2, <1>4, <1>5 DEF TombIsVerified
  <2> QED BY <1>4, <2>1, <2>2 DEF Verified
<1> QED BY <1>4, <1>6, <1>7 DEF Sound, k

-----------------------------------------------------------------------------
(* What a step leaves of the rest of the invariant.                        *)

\* More may be leaked.
LEMMA MoreLeaks ==
  ASSUME NEW d, NEW leaks, NEW more, leaks \subseteq more, Sound(d, leaks)
  PROVE  Sound(d, more)
BY DEF Sound, OnlyLeaks

\* The bot's steps store more and redact more; what they leak is new, so that
\* no backup has it.
LEMMA GrowthKeepsBackup ==
  ASSUME IInv, backup' = backup, db.stored \subseteq db'.stored, db'.tombs = db.tombs, leaked \subseteq leaked',
         \A e \in Events : db.event[e] = "redacted" => db'.event[e] = "redacted",
         \A r \in leaked' \ leaked : r \in Records /\ r \notin db.stored /\ db'.event[r[2]] = "redacted"
  PROVE  IF backup' = None THEN WithoutBackup' ELSE Sound(backup', leaked') /\ WithBackup'
<1>1. CASE backup = None
  <2>1. \A r \in leaked : db.event[r[2]] = "redacted" /\ r[2] \in Events
    BY <1>1, RecordFacts DEF IInv, WithoutBackup, InMemory
  <2>2. WithoutBackup'
    BY <2>1 DEF WithoutBackup
  <2> QED BY <1>1, <2>2
<1>2. CASE backup # None
  <2>1. Sound(backup, leaked) /\ WithBackup
    BY <1>2 DEF IInv
  <2>2. Sound(backup', leaked')
    BY <2>1, MoreLeaks
  <2>3. WithBackup'
    BY <2>1 DEF WithBackup
  <2> QED BY <1>2, <2>2, <2>3
<1> QED BY <1>1, <1>2

\* The process has died.
LEMMA GoneRemembersNothing ==
  ASSUME Gone, flags' = flags, flags \in FlagSets, leaked' \subseteq Records
  PROVE  InMemory'
BY DEF Gone, InMemory

\* The events the process is at work on stay what they were.
LEMMA SameMemory ==
  ASSUME IInv, up' = up, flags' = flags, leaked' \subseteq Records,
         \A e \in Events : db.event[e] # "absent" => db'.event[e] = db.event[e],
         turns' \subseteq turns, \A e \in turns' : e \in fenced' <=> e \in fenced,
         run' \in [Runs -> Jobs \cup {None}],
         \A r \in Runs : run'[r] # None => run'[r] = run[r] /\ (r \in fenced' <=> r \in fenced),
         fenced' \subseteq turns' \cup {r \in Runs : run'[r] # None}
  PROVE  InMemory'
<1>1. \A e \in turns : e \in Events
  BY DEF IInv, InMemory, Events
<1>2. \A r \in Runs : run[r] # None => run[r][2] \in Events
  BY DEF IInv, InMemory, Jobs, Events
<1>3. ~up' => turns' = {} /\ run' = [r \in Runs |-> None]
  BY DEF IInv, InMemory
<1>4. \A e \in turns' : db'.event[e] # "absent" /\ (e \in fenced' <=> db'.event[e] = "redacted")
  BY <1>1 DEF IInv, InMemory
<1>5. \A r \in Runs : run'[r] # None =>
        db'.event[run'[r][2]] # "absent" /\ (r \in fenced' <=> db'.event[run'[r][2]] = "redacted")
  BY <1>2 DEF IInv, InMemory
<1> QED BY <1>3, <1>4, <1>5 DEF IInv, InMemory

\* A step of the queue.
LEMMA QueueSteps ==
  ASSUME IInv, Alike(db, db'), backup' = backup, leaked' = leaked
  PROVE  Sound(db', leaked') /\ (IF backup' = None THEN WithoutBackup' ELSE Sound(backup', leaked') /\ WithBackup')
<1>1. Sound(db', leaked')
  BY AlikeSound DEF IInv
<1> QED BY <1>1, GrowthKeepsBackup DEF Alike

\* The obligations of a sound database reach all that it could bring back.
LEMMA OwnObligations ==
  ASSUME NEW d, NEW leaks, Sound(d, leaks)
  PROVE  /\ \A r \in Live(d) : ~(d.event[r[2]] = "live" /\ r[2] \in d.tombs)
         /\ \A r \in d.tombs \cap d.stored : d.event[r[2]] = "redacted"
<1>1. d.stored \subseteq Records /\ \A r \in Records : r[2] \in Events /\ r \notin Events
  BY RecordFacts, StoreAssumption DEF Sound, Databases
<1>2. ASSUME NEW r \in Live(d), r[2] \in d.tombs PROVE d.event[r[2]] # "live"
  BY <1>1, <1>2 DEF Sound, Verified, TombIsVerified, Live
<1>3. ASSUME NEW r \in d.tombs \cap d.stored PROVE d.event[r[2]] = "redacted"
  <2>1. r \in d.gone
    BY <1>1 DEF Sound, Verified, TombIsVerified
  <2> QED BY <2>1 DEF Sound, GoneWithSource
<1> QED BY <1>2, <1>3

-----------------------------------------------------------------------------
(* The operator's commands.                                                *)

LEMMA OperatorKeeps == IInv /\ Operator => IInv'
<1> SUFFICES ASSUME IInv, Operator PROVE IInv'
  OBVIOUS
<1>1. ~up /\ turns = {} /\ (\A r \in Runs : run[r] = None) /\ fenced = {}
  BY DEF IInv, InMemory, Operator
<1>2. UNCHANGED <<flags, up, run, fenced, leaked, turns>>
  BY DEF Operator, Backs, Restores
<1>3. InMemory'
  BY <1>1, <1>2 DEF IInv, InMemory
<1>4. CASE Backs
  <2>1. backup = None /\ backup' = db /\ db' = db /\ Sound(db, leaked) /\ WithoutBackup
    BY <1>4 DEF Backs, IInv
  <2>2. Sound(db', leaked') /\ Sound(backup', leaked') /\ WithoutBackup'
    BY <1>2, <2>1 DEF WithoutBackup
  <2>3. WithBackup'
    BY <1>2, <2>1, OwnObligations DEF WithBackup, WithoutBackup
  <2> QED BY <1>3, <2>2, <2>3 DEF IInv
<1>5. CASE Restores
  <2>1. backup # None /\ db' = Removed(backup, db.tombs) /\ backup' = backup
    BY <1>5 DEF Restores
  <2>2. Sound(backup, leaked) /\ WithBackup
    BY <2>1 DEF IInv
  <2>3. Sound(db', leaked')
    BY <1>2, <2>1, <2>2, RemovedSound DEF WithBackup
  <2>4. db'.stored = backup.stored /\ db'.tombs = backup.tombs
    BY <2>1, <2>2, RemovedFields DEF Sound
  <2>5. WithBackup'
    BY <1>2, <2>1, <2>2, <2>4, OwnObligations DEF WithBackup
  <2> QED BY <1>2, <1>3, <2>1, <2>2, <2>3, <2>5 DEF IInv
<1> QED BY <1>4, <1>5 DEF Operator

-----------------------------------------------------------------------------
(* A forget request.                                                       *)

LEMMA ForgetsKeeps == ASSUME IInv, NEW p \in Persons, Forgets(p) PROVE IInv'
<1> DEFINE F == ForgottenEvents(db, p)
           T == Targets(db, p)
<1>1. /\ up /\ db' = Forgotten(db, p) /\ UNCHANGED <<flags, backup, turns, up, run, leaked>>
      /\ fenced' = fenced \cup (turns \cap F) \cup {r \in Runs : run[r] # None /\ run[r][2] \in F}
  BY DEF Forgets
<1>2. Sound(db, leaked)
  BY DEF IInv
<1>3. /\ \A e \in Events : e \in T <=> e \in F
      /\ \A e \in F : e \in Events /\ db.event[e] = "live"
      /\ \A r \in Records : r \in T <=> r \in Derived(db, p)
      /\ \A r \in Derived(db, p) : r \in Live(db) /\ r \in db.stored /\ r \in Records
                                     /\ (r[2] \in F \/ db.event[r[2]] = "redacted")
      /\ \A r \in Live(db) : r[2] \in F => r \in Derived(db, p)
  BY <1>2, TargetsFacts
<1>4. /\ \A e \in Events : db'.event[e] = IF e \in F THEN "redacted" ELSE db.event[e]
      /\ db'.stored = db.stored /\ db'.tombs = db.tombs \cup T
  BY <1>1, <1>2, ForgottenFields
<1>5. Sound(db', leaked')
  BY <1>1, <1>2, ForgottenSound
<1>6. \A r \in Records : r[2] \in Events
  BY RecordFacts
<1> HIDE DEF F, T
<1>7. InMemory'
  <2>1. ASSUME NEW e \in turns PROVE db'.event[e] # "absent" /\ (e \in fenced' <=> db'.event[e] = "redacted")
    <3>1. e \in Events /\ e \notin Runs
      BY IntelligenceAssumption DEF IInv, InMemory, Events
    <3> QED BY <1>1, <1>3, <1>4, <3>1 DEF IInv, InMemory
  <2>2. ASSUME NEW r \in Runs, run[r] # None
        PROVE  db'.event[run[r][2]] # "absent" /\ (r \in fenced' <=> db'.event[run[r][2]] = "redacted")
    <3>1. run[r][2] \in Events /\ r \notin turns
      BY <2>2, IntelligenceAssumption DEF IInv, InMemory, Jobs, Events
    <3> QED BY <1>1, <1>3, <1>4, <2>2, <3>1 DEF IInv, InMemory
  <2>3. fenced' \subseteq turns \cup {r \in Runs : run[r] # None}
    BY <1>1 DEF IInv, InMemory
  <2> QED BY <1>1, <2>1, <2>2, <2>3 DEF IInv, InMemory
<1>8. CASE backup = None
  <2>1. WithoutBackup'
    BY <1>1, <1>4, <1>6, <1>8 DEF IInv, InMemory, WithoutBackup
  <2> QED BY <1>1, <1>5, <1>7, <1>8, <2>1 DEF IInv
<1>9. CASE backup # None
  <2>1. Sound(backup, leaked) /\ WithBackup
    BY <1>9 DEF IInv
  <2>2. \A r \in backup.stored : r \in db.stored /\ r \in Records /\ r[2] \in Events
    BY <1>2, <1>6, <2>1 DEF WithBackup, Sound, Databases
  <2>3. ASSUME NEW r \in Live(backup), backup.event[r[2]] = "live", r[2] \in db'.tombs PROVE r \in db'.tombs
    <3>1. r \in backup.stored
      BY DEF Live
    <3>2. CASE r[2] \in db.tombs
      BY <1>4, <2>1, <2>3, <3>2 DEF WithBackup
    <3>3. CASE r[2] \in F
      <4>1. r \in Live(db)
        BY <1>2, <1>3, <2>2, <3>1, <3>3 DEF Sound, GoneWithSource, Live
      <4> QED BY <1>3, <1>4, <2>2, <3>1, <3>3, <4>1
    <3> QED BY <1>3, <1>4, <2>2, <2>3, <3>1, <3>2, <3>3
  <2>4. ASSUME NEW r \in db'.tombs \cap backup.stored PROVE r[2] \in db'.tombs \/ backup.event[r[2]] = "redacted"
    <3>1. CASE r \in db.tombs
      BY <1>4, <2>1, <3>1 DEF WithBackup
    <3>2. CASE r \in Derived(db, p) /\ r[2] \in F
      BY <1>3, <1>4, <3>2
    <3>3. CASE r \in Derived(db, p) /\ db.event[r[2]] = "redacted"
      <4>1. r \in leaked
        BY <1>2, <1>3, <3>3 DEF Sound, OnlyLeaks
      <4> QED BY <2>1, <4>1 DEF WithBackup
    <3> QED BY <1>3, <1>4, <2>2, <3>1, <3>2, <3>3
  <2>5. WithBackup'
    BY <1>1, <1>4, <2>1, <2>3, <2>4 DEF WithBackup
  <2> QED BY <1>1, <1>5, <1>7, <1>9, <2>1, <2>5 DEF IInv
<1> QED BY <1>8, <1>9

-----------------------------------------------------------------------------
(* The bot's steps.                                                        *)

\* A step that stores at most one record of an event the process is at work on,
\* of which it knows whether it was forgotten meanwhile.
LEMMA StoringKeeps ==
  ASSUME IInv, NEW d, Sound(d, leaked'), Alike(d, db'), backup' = backup,
         d.event = db.event, d.tombs = db.tombs,
         NEW e \in Events, NEW marked \in BOOLEAN, marked <=> db.event[e] = "redacted",
         db.stored \subseteq d.stored, \A r \in d.stored \ db.stored : r \in Records /\ r[2] = e,
         leaked' = leaked \cup (IF marked THEN db'.stored \ db.stored ELSE {})
  PROVE  /\ Sound(db', leaked') /\ leaked' \subseteq Records
         /\ IF backup' = None THEN WithoutBackup' ELSE Sound(backup', leaked') /\ WithBackup'
<1>1. Sound(db', leaked')
  BY AlikeSound
<1>2. /\ db'.stored = d.stored /\ db'.event = db.event /\ db'.tombs = db.tombs
      /\ leaked \subseteq leaked' /\ leaked \subseteq Records
      /\ \A r \in leaked' \ leaked : r \in Records /\ r \notin db.stored /\ db'.event[r[2]] = "redacted"
  BY DEF Alike, IInv, InMemory
<1> QED BY <1>1, <1>2, GrowthKeepsBackup

LEMMA StartsKeeps == IInv /\ Starts => IInv'
BY DEF IInv, Starts, InMemory, WithBackup, WithoutBackup

LEMMA StopsKeeps == IInv /\ Stops => IInv'
<1> SUFFICES ASSUME IInv, Stops PROVE IInv'
  OBVIOUS
<1>1. Gone /\ UNCHANGED <<flags, db, backup, leaked>>
  BY DEF Stops
<1>2. InMemory'
  BY <1>1, GoneRemembersNothing DEF IInv, InMemory
<1> QED BY <1>1, <1>2 DEF IInv, WithBackup, WithoutBackup

LEMMA RepliesKeeps == IInv /\ Replies => IInv'
<1> SUFFICES ASSUME IInv, up, UNCHANGED <<flags, backup, up, run>>,
                    NEW e \in Messages,
                    \/ EndsTurn(e) /\ fenced' = fenced \ {e} /\ UNCHANGED leaked
                    \/ /\ Says(e) /\ UNCHANGED fenced
                       /\ leaked' = leaked \cup (IF e \in fenced THEN db'.stored \ db.stored ELSE {})
             PROVE  IInv'
  BY DEF Replies
<1>1. e \in turns /\ e \in Events /\ e \notin Runs
  BY IntelligenceAssumption DEF EndsTurn, Says, Events
<1>2. /\ turns \subseteq Messages /\ run \in [Runs -> Jobs \cup {None}] /\ leaked \subseteq Records
      /\ fenced \subseteq turns \cup {r \in Runs : run[r] # None}
      /\ db.event[e] # "absent" /\ (e \in fenced <=> db.event[e] = "redacted")
      /\ db \in Databases /\ Sound(db, leaked)
  BY <1>1 DEF IInv, InMemory, Sound
<1>3. CASE EndsTurn(e) /\ fenced' = fenced \ {e} /\ UNCHANGED leaked
  <2>1. turns' = turns \ {e} /\ db' = db
    BY <1>3 DEF EndsTurn
  <2>2. InMemory'
    BY <1>1, <1>2, <1>3, <2>1, SameMemory
  <2> QED BY <1>3, <2>1, <2>2 DEF IInv, WithBackup, WithoutBackup
<1>4. CASE /\ Says(e) /\ UNCHANGED fenced
           /\ leaked' = leaked \cup (IF e \in fenced THEN db'.stored \ db.stored ELSE {})
  <2>1. db' = Created(db, Segment(e)) /\ turns' = turns
    BY <1>4 DEF Says
  <2>2. Segment(e) \in Records /\ Segment(e)[1] = "segment" /\ Segment(e)[2] = e
    BY RecordFacts
  <2>3. /\ db' \in Databases /\ db'.stored = db.stored \cup {Segment(e)}
        /\ db'.event = db.event /\ db'.tombs = db.tombs
    BY <1>2, <2>1, <2>2, CreatedFields
  <2>4. Sound(db', leaked')
    BY <1>2, <1>4, <2>1, <2>2, <2>3, CreatedSound
  <2>5. Alike(db', db')
    BY <2>3 DEF Alike
  <2>6. /\ leaked' \subseteq Records
        /\ IF backup' = None THEN WithoutBackup' ELSE Sound(backup', leaked') /\ WithBackup'
    <3> DEFINE marked == e \in fenced
    <3>1. marked \in BOOLEAN /\ (marked <=> db.event[e] = "redacted")
      BY <1>2
    <3>2. leaked' = leaked \cup (IF marked THEN db'.stored \ db.stored ELSE {})
      BY <1>4
    <3> HIDE DEF marked
    <3> QED BY <1>1, <2>2, <2>3, <2>4, <2>5, <3>1, <3>2, StoringKeeps
  <2>7. InMemory'
    BY <1>2, <1>4, <2>1, <2>3, <2>6, SameMemory
  <2> QED BY <2>4, <2>6, <2>7 DEF IInv
<1> QED BY <1>3, <1>4

LEMMA AppendsKeeps == ASSUME IInv, NEW e \in Messages, Appends(e) PROVE IInv'
<1>1. PICK queued \in SUBSET flags :
        /\ db' = [db EXCEPT !.event[e] = "live",
                            !.job = [j \in Jobs |-> IF j[1] \in queued /\ j[2] = e
                                       THEN [NoJob EXCEPT !.status = "ready"] ELSE @[j]]]
        /\ IF queued = flags THEN turns' = turns \cup {e} /\ UNCHANGED <<up, run, fenced>> ELSE Gone
  BY DEF Appends
<1>2. /\ up /\ db.event[e] = "absent" /\ UNCHANGED <<flags, backup, leaked>> /\ e \in Events
  BY DEF Appends, Events
<1>3. db \in Databases /\ Sound(db, leaked) /\ leaked \subseteq Records /\ flags \in FlagSets
  BY DEF IInv, Sound, InMemory
<1>4. /\ db' \in Databases /\ db'.event = [db.event EXCEPT ![e] = "live"]
      /\ db'.stored = db.stored /\ db'.gone = db.gone /\ db'.old = db.old /\ db'.tombs = db.tombs
  BY <1>1, <1>2, <1>3 DEF Databases, NoJob
<1>5. /\ db'.event[e] = "live" /\ \A x \in Events : x # e => db'.event[x] = db.event[x]
  BY <1>2, <1>3, <1>4 DEF Databases
<1>6. Sound(db', leaked')
  BY <1>2, <1>3, <1>4, LiveEventSound
<1>7. IF backup' = None THEN WithoutBackup' ELSE Sound(backup', leaked') /\ WithBackup'
  BY <1>2, <1>4, <1>5, GrowthKeepsBackup
<1>8. CASE queued = flags
  <2>1. turns' = turns \cup {e} /\ UNCHANGED <<up, run, fenced>>
    BY <1>1, <1>8
  <2>2. e \notin fenced
    BY <1>2, IntelligenceAssumption DEF IInv, InMemory
  <2>3. \A x \in turns : x \in Events
    BY DEF IInv, InMemory, Events
  <2>4. \A r \in Runs : run[r] # None => run[r][2] \in Events
    BY DEF IInv, InMemory, Jobs, Events
  <2>5. InMemory'
    BY <1>2, <1>5, <2>1, <2>2, <2>3, <2>4 DEF IInv, InMemory
  <2> QED BY <1>6, <1>7, <2>5 DEF IInv
<1>9. CASE queued # flags
  <2>1. InMemory'
    BY <1>1, <1>2, <1>3, <1>9, GoneRemembersNothing
  <2> QED BY <1>6, <1>7, <2>1 DEF IInv
<1> QED BY <1>8, <1>9

\* A command stores its event and fact, or the process dies when it has stored
\* the event.
LEMMA CommandsKeep ==
  ASSUME IInv, up, NEW c \in Events, db.event[c] = "absent", NEW v \in Values,
         NEW d, d \in {Remembered(db, c, v)} \cup {Corrected(db, c, f, v) : f \in FactsOf(db, Author[c])},
         Commanded(c, d), UNCHANGED <<flags, backup, leaked>>
  PROVE  IInv'
<1>1. /\ Sound(db, leaked) /\ db \in Databases /\ leaked \subseteq Records /\ flags \in FlagSets
      /\ run \in [Runs -> Jobs \cup {None}] /\ fenced \subseteq turns \cup {r \in Runs : run[r] # None}
  BY DEF IInv, Sound, InMemory
<1>2. FactsOf(db, Author[c]) \subseteq Records
  BY <1>1 DEF FactsOf, CurrentFacts, Live, Databases
<1>3. db' = d \/ db' = Begun(db, c)
  BY DEF Commanded, Begun
<1>4. Sound(db', leaked')
  BY <1>1, <1>3, CommandsSound
<1>5. /\ db.stored \subseteq db'.stored /\ db'.tombs = db.tombs
      /\ db'.event = db.event \/ db'.event = [db.event EXCEPT ![c] = "live"]
  BY <1>1, <1>2, <1>3, CommandsFields
<1>6. \A e \in Events : db.event[e] # "absent" => db'.event[e] = db.event[e]
  BY <1>1, <1>5 DEF Databases
<1>7. IF backup' = None THEN WithoutBackup' ELSE Sound(backup', leaked') /\ WithBackup'
  BY <1>5, <1>6, GrowthKeepsBackup
<1>8. InMemory'
  BY <1>1, <1>6, SameMemory, GoneRemembersNothing DEF Commanded
<1> QED BY <1>4, <1>7, <1>8 DEF IInv

\* A run works on a job of its message; it is marked as soon as that is forgotten.
LEMMA RunFacts ==
  ASSUME IInv, NEW r \in Runs, run[r] # None
  PROVE  /\ run[r] \in Jobs /\ run[r][2] \in Messages /\ run[r][2] \in Events
         /\ db.event[run[r][2]] # "absent" /\ (r \in fenced <=> db.event[run[r][2]] = "redacted")
BY DEF IInv, InMemory, Jobs, Events

\* A run that leaves its job.
LEMMA RunLeaves ==
  ASSUME IInv, NEW r \in Runs, run' = [run EXCEPT ![r] = None], fenced' = fenced \ {r},
         db'.event = db.event, UNCHANGED <<up, turns, flags>>, leaked' \subseteq Records
  PROVE  InMemory'
<1>1. /\ run \in [Runs -> Jobs \cup {None}] /\ turns \subseteq Messages
      /\ fenced \subseteq turns \cup {x \in Runs : run[x] # None}
  BY DEF IInv, InMemory
<1>2. /\ run' \in [Runs -> Jobs \cup {None}]
      /\ \A x \in Runs : run'[x] # None => x # r /\ run'[x] = run[x]
      /\ \A x \in Runs : x # r => run'[x] = run[x]
  BY <1>1
<1>3. r \notin turns
  BY <1>1, IntelligenceAssumption
<1>4. \A x \in turns' : x \in fenced' <=> x \in fenced
  BY <1>3
<1>5. fenced' \subseteq turns' \cup {x \in Runs : run'[x] # None}
  BY <1>1, <1>2
<1> QED BY <1>2, <1>4, <1>5, SameMemory

LEMMA ClaimsKeeps == ASSUME IInv, NEW r \in Runs, NEW j \in Jobs, Claims(r, j) PROVE IInv'
<1> DEFINE d == Leased(db, j, r)
<1>1. /\ run[r] = None /\ fenced' = fenced \ {r} /\ UNCHANGED <<flags, backup, turns, up, leaked>>
      /\ \/ Readable(d, j[2]) /\ db' = d /\ run' = [run EXCEPT ![r] = j]
         \/ /\ ~Readable(d, j[2]) /\ UNCHANGED run
            /\ db' \in IF j[1] = "memory_summary_v1" THEN Retried(d, j, r) ELSE {Succeeded(d, j, r)}
  BY DEF Claims
<1>2. /\ Sound(db, leaked) /\ db \in Databases /\ run \in [Runs -> Jobs \cup {None}] /\ up
      /\ fenced \subseteq turns \cup {x \in Runs : run[x] # None}
      /\ turns \subseteq Messages /\ leaked \subseteq Records
  BY DEF IInv, Sound, InMemory, Claims
<1>3. Alike(db, d)
  BY <1>2, JobsOnly
<1>4. Alike(d, Succeeded(d, j, r)) /\ \A c \in Retried(d, j, r) : Alike(d, c)
  BY <1>3, JobsOnly DEF Alike
<1> HIDE DEF d
<1>5. Alike(db, db')
  BY <1>1, <1>3, <1>4 DEF Alike
<1>6. Sound(db', leaked') /\ (IF backup' = None THEN WithoutBackup' ELSE Sound(backup', leaked') /\ WithBackup')
  BY <1>1, <1>5, QueueSteps
<1>7. r \notin turns /\ r \notin fenced /\ fenced' = fenced
  BY <1>1, <1>2, IntelligenceAssumption
<1>8. CASE UNCHANGED run
  BY <1>1, <1>2, <1>5, <1>6, <1>7, <1>8, SameMemory DEF Alike, IInv
<1>9. CASE Readable(d, j[2]) /\ run' = [run EXCEPT ![r] = j]
  <2>1. db.event[j[2]] = "live" /\ db'.event = db.event
    BY <1>3, <1>5, <1>9 DEF Readable, Alike
  <2>2. run' \in [Runs -> Jobs \cup {None}] /\ run'[r] = j /\ \A x \in Runs : x # r => run'[x] = run[x]
    BY <1>2, <1>9
  <2>3. \A x \in Runs : run'[x] # None =>
          db'.event[run'[x][2]] # "absent" /\ (x \in fenced' <=> db'.event[run'[x][2]] = "redacted")
    BY <1>7, <2>1, <2>2, RunFacts
  <2>4. fenced' \subseteq turns' \cup {x \in Runs : run'[x] # None}
    BY <1>1, <1>2, <1>7, <2>2
  <2>5. InMemory'
    BY <1>1, <1>2, <1>7, <2>1, <2>2, <2>3, <2>4 DEF IInv, InMemory
  <2> QED BY <1>6, <2>5 DEF IInv
<1> QED BY <1>1, <1>8, <1>9

LEMMA EndsKeeps == ASSUME IInv, NEW r \in Runs, Ends(r) PROVE IInv'
<1>1. /\ run[r] # None /\ db' \in {Succeeded(db, run[r], r)} \cup Retried(db, run[r], r)
      /\ run' = [run EXCEPT ![r] = None] /\ fenced' = fenced \ {r}
      /\ UNCHANGED <<flags, backup, turns, up, leaked>>
  BY DEF Ends
<1>2. run[r] \in Jobs
  BY <1>1, RunFacts
<1>3. Alike(db, db')
  BY <1>1, <1>2, JobsOnly DEF IInv, Sound
<1>4. Sound(db', leaked') /\ (IF backup' = None THEN WithoutBackup' ELSE Sound(backup', leaked') /\ WithBackup')
  BY <1>1, <1>3, QueueSteps
<1>5. InMemory'
  BY <1>1, <1>3, RunLeaves DEF Alike, IInv, InMemory
<1> QED BY <1>4, <1>5 DEF IInv

LEMMA LeaseExpiresKeeps == ASSUME IInv, NEW j \in Jobs, LeaseExpires(j) PROVE IInv'
<1>1. db' = [db EXCEPT !.job[j].holder = None] /\ UNCHANGED <<flags, backup, turns, up, run, fenced, leaked>>
  BY DEF LeaseExpires
<1>2. Alike(db, db')
  <2>1. db \in Databases /\ db.job[j] \in [status : {"none", "ready", "leased", "succeeded", "dead_letter"},
                                          holder : Runs \cup {None}]
    BY DEF IInv, Sound, Databases
  <2>2. db' = [db EXCEPT !.job = [db.job EXCEPT ![j] = [status |-> db.job[j].status, holder |-> None]]]
    <3>1. [db.job[j] EXCEPT !.holder = None] = [status |-> db.job[j].status, holder |-> None]
      BY <2>1
    <3>2. [db.job EXCEPT ![j].holder = None] = [db.job EXCEPT ![j] = [status |-> db.job[j].status, holder |-> None]]
      BY <3>1
    <3> QED BY <1>1, <3>2
  <2>3. [db.job EXCEPT ![j] = [status |-> db.job[j].status, holder |-> None]]
          \in [Jobs -> [status : {"none", "ready", "leased", "succeeded", "dead_letter"}, holder : Runs \cup {None}]]
    BY <2>1 DEF Databases
  <2> QED BY <2>1, <2>2, <2>3 DEF Alike, Databases
<1>3. Sound(db', leaked') /\ (IF backup' = None THEN WithoutBackup' ELSE Sound(backup', leaked') /\ WithBackup')
  BY <1>1, <1>2, QueueSteps
<1>4. InMemory'
  BY <1>1, <1>2 DEF Alike, IInv, InMemory
<1> QED BY <1>3, <1>4 DEF IInv

\* What an answer makes of the database: at most one record of the run's message.
LEMMA WrittenFacts ==
  ASSUME NEW d, NEW leaks, NEW more, leaks \subseteq more, Sound(d, leaks), NEW j \in Jobs, d.event[j[2]] # "absent",
         NEW answer, answer \in IF j[1] = "memory_summary_v1" THEN Texts ELSE Values,
         d.event[j[2]] = "redacted" => Written(d, j, answer).stored \ d.stored \subseteq more
  PROVE  /\ Sound(Written(d, j, answer), more)
         /\ d.stored \subseteq Written(d, j, answer).stored
         /\ Written(d, j, answer).event = d.event /\ Written(d, j, answer).tombs = d.tombs
         /\ \A r \in Written(d, j, answer).stored \ d.stored : r \in Records /\ r[2] = j[2]
<1>1. d \in Databases /\ j[2] \in Messages /\ j[2] \in Events
  BY DEF Sound, Jobs, Events
<1>2. ASSUME NEW s \in Records, s[2] = j[2], Written(d, j, answer) = Created(d, s),
             s[1] = "fact" => CurrentFacts(d) = {}
      PROVE  /\ Sound(Written(d, j, answer), more)
             /\ Written(d, j, answer).stored = d.stored \cup {s}
             /\ Written(d, j, answer).event = d.event /\ Written(d, j, answer).tombs = d.tombs
  <2>1. Created(d, s).stored = d.stored \cup {s} /\ Created(d, s).event = d.event /\ Created(d, s).tombs = d.tombs
    BY <1>1, CreatedFields
  <2>2. Sound(Created(d, s), more)
    BY <1>1, <1>2, <2>1, CreatedSound
  <2> QED BY <1>2, <2>1, <2>2
<1>3. CASE j[1] = "memory_summary_v1"
  <2>1. Written(d, j, answer) = Created(d, Summary(j[2], answer))
    BY <1>3 DEF Written
  <2>2. /\ Summary(j[2], answer) \in Records /\ Summary(j[2], answer)[1] = "summary"
        /\ Summary(j[2], answer)[2] = j[2]
    BY <1>1, <1>3, RecordFacts
  <2> QED BY <1>2, <2>1, <2>2
<1>4. CASE j[1] # "memory_summary_v1" /\ CurrentFacts(d) = {}
  <2>1. Written(d, j, answer) = Created(d, Fact(j[2], answer))
    BY <1>4 DEF Written, Extracted, Contradicts
  <2>2. Fact(j[2], answer) \in Records /\ Fact(j[2], answer)[2] = j[2]
    BY <1>1, <1>4, RecordFacts
  <2> QED BY <1>2, <1>4, <2>1, <2>2
<1>5. CASE j[1] # "memory_summary_v1" /\ CurrentFacts(d) # {}
  <2>1. Written(d, j, answer) = d
    BY <1>5 DEF Written, Extracted, Contradicts
  <2> QED BY <2>1, MoreLeaks
<1> QED BY <1>3, <1>4, <1>5

LEMMA AnswersKeeps ==
  ASSUME IInv, NEW r \in Runs, NEW answer, NEW dies \in BOOLEAN, Answers(r, answer, dies) PROVE IInv'
<1> DEFINE j == run[r]
           w == Written(db, j, answer)
<1>1. /\ up /\ j # None /\ answer \in IF j[1] = "memory_summary_v1" THEN Texts ELSE Values
      /\ db' = IF dies THEN w ELSE Succeeded(w, j, r)
      /\ IF dies THEN Gone
         ELSE run' = [run EXCEPT ![r] = None] /\ fenced' = fenced \ {r} /\ UNCHANGED <<up, turns>>
      /\ leaked' = leaked \cup (IF r \in fenced THEN db'.stored \ db.stored ELSE {})
      /\ UNCHANGED <<backup, flags>>
  BY DEF Answers, Outcome
<1>2. /\ j \in Jobs /\ j[2] \in Events /\ db.event[j[2]] # "absent"
      /\ (r \in fenced <=> db.event[j[2]] = "redacted")
  BY <1>1, RunFacts
<1>3. Sound(db, leaked) /\ flags \in FlagSets /\ leaked \subseteq leaked'
  BY <1>1 DEF IInv, InMemory
<1> HIDE DEF j
<1>4. \/ Succeeded(w, j, r) = w
      \/ Succeeded(w, j, r) = [w EXCEPT !.job[j] = [status |-> "succeeded", holder |-> None]]
  BY DEF Succeeded, Ended
<1>5. w \in Databases
  <2>1. Sound(w, leaked \cup w.stored)
    BY <1>1, <1>2, <1>3, WrittenFacts
  <2> QED BY <2>1 DEF Sound
<1> HIDE DEF w
<1>6. Alike(w, db')
  BY <1>1, <1>2, <1>5, JobsOnly DEF Alike
<1>7. db'.stored = w.stored
  BY <1>6 DEF Alike
<1>8. /\ Sound(w, leaked') /\ db.stored \subseteq w.stored /\ w.event = db.event /\ w.tombs = db.tombs
      /\ \A x \in w.stored \ db.stored : x \in Records /\ x[2] = j[2]
  <2>1. db.event[j[2]] = "redacted" => w.stored \ db.stored \subseteq leaked'
    BY <1>1, <1>2, <1>7
  <2>2. answer \in IF j[1] = "memory_summary_v1" THEN Texts ELSE Values
    BY <1>1
  <2>3. ASSUME NEW more, leaked \subseteq more, db.event[j[2]] = "redacted" => w.stored \ db.stored \subseteq more
        PROVE  /\ Sound(w, more) /\ db.stored \subseteq w.stored /\ w.event = db.event /\ w.tombs = db.tombs
               /\ \A x \in w.stored \ db.stored : x \in Records /\ x[2] = j[2]
    <3>1. db.event[j[2]] = "redacted" => Written(db, j, answer).stored \ db.stored \subseteq more
      BY <2>3 DEF w
    <3>2. /\ Sound(Written(db, j, answer), more)
          /\ db.stored \subseteq Written(db, j, answer).stored
          /\ Written(db, j, answer).event = db.event /\ Written(db, j, answer).tombs = db.tombs
          /\ \A x \in Written(db, j, answer).stored \ db.stored : x \in Records /\ x[2] = j[2]
      BY <1>2, <1>3, <2>2, <2>3, <3>1, WrittenFacts
    <3> QED BY <3>2 DEF w
  <2> QED BY <1>3, <2>1, <2>3
<1>9. /\ Sound(db', leaked') /\ leaked' \subseteq Records
      /\ IF backup' = None THEN WithoutBackup' ELSE Sound(backup', leaked') /\ WithBackup'
  <2> DEFINE marked == r \in fenced
  <2>1. marked \in BOOLEAN /\ (marked <=> db.event[j[2]] = "redacted")
    BY <1>2
  <2>2. leaked' = leaked \cup (IF marked THEN db'.stored \ db.stored ELSE {})
    BY <1>1
  <2> HIDE DEF marked
  <2> QED BY <1>1, <1>2, <1>6, <1>8, <2>1, <2>2, StoringKeeps
<1>10. InMemory'
  <2>1. CASE dies
    BY <1>1, <1>3, <1>9, <2>1, GoneRemembersNothing
  <2>2. CASE ~dies
    <3>1. db'.event = db.event
      BY <1>6, <1>8 DEF Alike
    <3> QED BY <1>1, <1>9, <2>2, <3>1, RunLeaves
  <2> QED BY <2>1, <2>2
<1> QED BY <1>9, <1>10 DEF IInv

-----------------------------------------------------------------------------
LEMMA InitSound == Init => IInv
<1> SUFFICES ASSUME Init PROVE IInv
  OBVIOUS
<1>1. db = [event |-> [e \in Events |-> "absent"], stored |-> {}, gone |-> {}, old |-> {}, tombs |-> {},
            job |-> [j \in Jobs |-> NoJob]]
  BY DEF Init, StoreInit, Jobs
<1>2. NoJob \in [status : {"none", "ready", "leased", "succeeded", "dead_letter"}, holder : Runs \cup {None}]
  BY DEF NoJob
<1>3. db \in Databases
  BY <1>1, <1>2 DEF Databases
<1>4. Sound(db, leaked)
  BY <1>1, <1>3 DEF Sound, Sourced, GoneWithSource, Verified, OneValue, OnlyLeaks, CurrentFacts, Live
<1> QED BY <1>4 DEF Init, StoreInit, IInv, InMemory, WithoutBackup

\* Every step of the bot, of the workers and of the operator keeps the invariant.
THEOREM StepKeepsIInv == IInv /\ [Next]_vars => IInv'
<1> SUFFICES ASSUME IInv, [Next]_vars PROVE IInv'
  OBVIOUS
<1>1. CASE Starts
  BY <1>1, StartsKeeps
<1>2. CASE Stops
  BY <1>2, StopsKeeps
<1>3. CASE Replies
  BY <1>3, RepliesKeeps
<1>4. CASE Operator
  BY <1>4, OperatorKeeps
<1>5. ASSUME NEW e \in Messages, Appends(e) PROVE IInv'
  BY <1>5, AppendsKeeps
<1>6. ASSUME NEW c \in Commands, NEW v \in Values, Remembers(c, v) PROVE IInv'
  BY <1>6, CommandsKeep DEF Remembers, Events
<1>7. ASSUME NEW c \in Commands, NEW v \in Values, NEW f \in CurrentFacts(db), Corrects(c, f, v) PROVE IInv'
  BY <1>7, CommandsKeep DEF Corrects, Events
<1>8. ASSUME NEW p \in Persons, Forgets(p) PROVE IInv'
  BY <1>8, ForgetsKeeps
<1>9. ASSUME NEW r \in Runs, Ends(r) PROVE IInv'
  BY <1>9, EndsKeeps
<1>10. ASSUME NEW r \in Runs, NEW j \in Jobs, Claims(r, j) PROVE IInv'
  BY <1>10, ClaimsKeeps
<1>11. ASSUME NEW r \in Runs, NEW answer \in Values \cup Texts, NEW dies \in BOOLEAN, Answers(r, answer, dies)
       PROVE  IInv'
  BY <1>11, AnswersKeeps
<1>12. ASSUME NEW j \in Jobs, LeaseExpires(j) PROVE IInv'
  BY <1>12, LeaseExpiresKeeps
<1>13. CASE UNCHANGED vars
  BY <1>13 DEF vars, IInv, InMemory, WithBackup, WithoutBackup
<1> QED BY <1>1, <1>2, <1>3, <1>4, <1>5, <1>6, <1>7, <1>8, <1>9, <1>10, <1>11, <1>12, <1>13 DEF Next

THEOREM Invariance == Spec => []IInv
BY InitSound, StepKeepsIInv, PTL DEF Spec

-----------------------------------------------------------------------------
(* What follows.                                                           *)

\* The database, the queue and what the process holds in memory keep their
\* types: nothing is tombstoned or superseded that is not stored.
THEOREM TypeCorrect == Spec => []TypeOK
<1>1. IInv => TypeOK
  BY DEF IInv, Sound, GoneWithSource, Databases, InMemory, TypeOK
<1> QED BY <1>1, Invariance, PTL

\* "verify-deletion": what a completed forget request removed stays removed,
\* in the authority and in its backup, whatever workers, replies, commands and
\* restores come later.
THEOREM DeletionVerifies == Spec => []ObligationsVerify
<1>1. IInv => ObligationsVerify
  BY DEF IInv, Sound, Verified, ObligationsVerify
<1> QED BY <1>1, Invariance, PTL

\* A person never has two current values of a predicate, whichever of the
\* commands and the extractions that are under way comes first.
THEOREM NeverTwoValues == Spec => []OneValuePerPerson
<1>1. ASSUME IInv, NEW p \in Persons PROVE Cardinality(FactsOf(db, p)) <= 1
  <2>1. \A f, g \in FactsOf(db, p) : f = g
    BY <1>1 DEF IInv, Sound, OneValue, FactsOf
  <2>2. CASE FactsOf(db, p) = {}
    BY <2>2, FS_EmptySet
  <2>3. CASE FactsOf(db, p) # {}
    <3>1. PICK f \in FactsOf(db, p) : FactsOf(db, p) = {f}
      BY <2>1, <2>3
    <3> QED BY <3>1, FS_Singleton
  <2> QED BY <2>2, <2>3
<1>2. IInv => OneValuePerPerson
  BY <1>1 DEF OneValuePerPerson
<1> QED BY <1>2, Invariance, PTL

\* Of a forgotten message nothing lives on but what a worker or a reply wrote
\* that was under way when it was forgotten.
THEOREM OnlyWhatWasUnderWay == Spec => []NothingNewFromForgotten
<1>1. IInv => NothingNewFromForgotten
  BY DEF IInv, Sound, OnlyLeaks, NothingNewFromForgotten
<1> QED BY <1>1, Invariance, PTL
=============================================================================
