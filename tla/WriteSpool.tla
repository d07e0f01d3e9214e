----------------------------- MODULE WriteSpool -----------------------------
(***************************************************************************)
(* The write spool of the degraded memory posture and its recovery:        *)
(* src/src/memory/write-spool.ts, spool-reconciliation.ts and the two      *)
(* startup paths of runtime.ts that use them.                              *)
(*                                                                         *)
(* A degraded process only appends to pending.ndjson.  A healthy process   *)
(* replays the pending lines into the authority when it starts, compacts   *)
(* the file and then serves.  Every call of the file system is a step of   *)
(* its own, so that the process may die between any two of them.  What     *)
(* survives is the disk: "file", "openTail", "checkpoint", "evidence" and  *)
(* the authority's database.                                               *)
(*                                                                         *)
(* One process at a time owns the directory.  While a process is healthy   *)
(* its in-memory entries are the lines of the file and its consumedLines   *)
(* is the checkpoint's, so neither is a variable.                          *)
(***************************************************************************)
EXTENDS Integers, Sequences, FiniteSets, FiniteSetsExt

CONSTANTS
  Keys,                \* idempotency keys of the intents callers defer
  MaxRecords,          \* bound on the calls of accept
  MaxFailures,         \* bound on the calls of accept that fail
  MaxCrashes,          \* bound on deaths in the middle of a recovery
  MaxHalts             \* bound on the times the authority answers "not now"

ASSUME WriteSpoolAssumption ==
  /\ Keys # {}
  /\ MaxRecords \in Nat /\ MaxFailures \in Nat
  /\ MaxCrashes \in Nat /\ MaxHalts \in Nat

VARIABLES
  file,                \* the lines of pending.ndjson
  openTail,            \* its last line has no newline yet
  checkpoint,          \* applied.json
  evidence,            \* quarantine.ndjson
  authority,           \* the records the authority committed, in commit order
  mode,                \* what the process is doing
  at,                  \* the line a recovery is working on
  highest,             \* highestSequence of the process
  records,             \* history: what accept was called with and answered, and
                       \* whether its bytes began a line of their own
  crashes, halts

vars == <<file, openTail, checkpoint, evidence, authority, mode, at, highest,
          records, crashes, halts>>

Records == 1..MaxRecords
\* Bytes of a record that an append leaves in the file.  "unterminated" lacks
\* nothing but the newline.
Extents == {"nothing", "part", "unterminated", "whole"}
Reasons == {"unreadable", "unreplayable"}
Healthy == {"replaying", "committed", "evidenced", "compacting", "swapping", "serving"}

\* Shape of the state.  The checkpoint never claims more lines than there are.
TypeOK ==
  /\ file \in Seq([recs : SUBSET Records, ok : BOOLEAN])
  /\ \A k \in DOMAIN file : file[k].ok => Cardinality(file[k].recs) = 1
  /\ openTail \in BOOLEAN
  /\ checkpoint \in [consumed : 0..Len(file), highest : 0..MaxRecords]
  /\ evidence \subseteq (Records \X Reasons)
  /\ authority \in Seq(Records)
  /\ mode \in Healthy \cup {"down", "degraded"}
  /\ at \in 0..(Len(file) + 1)
  /\ highest \in 0..MaxRecords
  /\ records \in Seq([key : Keys, sequence : Records, replayable : BOOLEAN,
                      acked : BOOLEAN, alone : BOOLEAN])
  /\ Len(records) <= MaxRecords
  /\ crashes \in 0..MaxCrashes /\ halts \in 0..MaxHalts

Init ==
  /\ file = << >> /\ openTail = FALSE
  /\ checkpoint = [consumed |-> 0, highest |-> 0]
  /\ evidence = {} /\ authority = << >>
  /\ mode = "down" /\ at = 0 /\ highest = 0
  /\ records = << >>
  /\ crashes = 0 /\ halts = 0

-----------------------------------------------------------------------------
\* Opening the spool and accepting a write.

Readable == {file[k].recs : k \in {j \in DOMAIN file : file[j].ok}}

OpenedHighest ==
  Max({checkpoint.highest} \cup {records[r].sequence : r \in UNION Readable})

\* Appending record id to the file.  O_APPEND continues an unterminated line,
\* and two records in one line are no JSON.
Appended(id, extent) ==
  IF extent = "nothing" THEN file
  ELSE IF openTail
       THEN [file EXCEPT ![Len(file)] = [recs |-> @.recs \cup {id}, ok |-> FALSE]]
       ELSE Append(file, [recs |-> {id}, ok |-> extent # "part"])

Write(key, replayable, extent, acked) ==
  /\ mode = "degraded"
  /\ Len(records) < MaxRecords
  /\ highest' = highest + 1
  /\ records' = Append(records, [key |-> key, sequence |-> highest + 1,
                                 replayable |-> replayable, acked |-> acked,
                                 alone |-> ~openTail])
  /\ file' = Appended(Len(records) + 1, extent)
  /\ openTail' = IF extent = "nothing" THEN openTail ELSE extent # "whole"
  /\ UNCHANGED <<checkpoint, evidence, authority, mode, at, crashes, halts>>

\* accept: the record is on the device when the caller hears of it.
Accept(key, replayable) == Write(key, replayable, "whole", TRUE)

\* writeSync or fsyncSync throws, or the process dies in accept (Close follows).
AcceptFails(key, replayable) ==
  /\ Cardinality({r \in DOMAIN records : ~records[r].acked}) < MaxFailures
  /\ \E extent \in Extents : Write(key, replayable, extent, FALSE)

StartDegraded ==
  /\ mode = "down"
  /\ mode' = "degraded"
  /\ highest' = OpenedHighest
  /\ UNCHANGED <<file, openTail, checkpoint, evidence, authority, at, records, crashes, halts>>

\* Leaving the degraded or the serving state, by close() or by dying.
Close ==
  /\ mode \in {"degraded", "serving"}
  /\ mode' = "down" /\ at' = 0 /\ highest' = 0
  /\ UNCHANGED <<file, openTail, checkpoint, evidence, authority, records, crashes, halts>>

-----------------------------------------------------------------------------
\* Recovery: replayDeferredWrites, then compact.

StartHealthy ==
  /\ mode = "down"
  /\ mode' = "replaying"
  /\ highest' = OpenedHighest
  /\ at' = checkpoint.consumed + 1
  /\ UNCHANGED <<file, openTail, checkpoint, evidence, authority, records, crashes, halts>>

Offered == mode = "replaying" /\ at <= Len(file)
Record == CHOOSE r \in file[at].recs : TRUE
CommittedKeys == {records[authority[k]].key : k \in DOMAIN authority}

SkipUnreadable ==                                                     \* mutant
  /\ Offered /\ ~file[at].ok
  /\ mode' = "evidenced"
  /\ UNCHANGED <<file, openTail, checkpoint, evidence, authority, at, highest, records, crashes, halts>>
QuarantineUnreadable ==
  /\ Offered /\ ~file[at].ok
  /\ evidence' = evidence \cup (file[at].recs \X {"unreadable"})
  /\ mode' = "evidenced"
  /\ UNCHANGED <<file, openTail, checkpoint, authority, at, highest, records, crashes, halts>>

\* The authority commits the record, or recognises its idempotency key.
Apply ==
  /\ Offered /\ file[at].ok /\ records[Record].replayable
  /\ authority' = IF records[Record].key \in CommittedKeys THEN authority
                  ELSE Append(authority, Record)
  /\ mode' = "committed"
  /\ UNCHANGED <<file, openTail, checkpoint, evidence, at, highest, records, crashes, halts>>

\* A refusal that would be repeated on every future pass.
Refuse ==
  /\ Offered /\ file[at].ok /\ ~records[Record].replayable
  /\ evidence' = evidence \cup {<<Record, "unreplayable">>}
  /\ mode' = "evidenced"
  /\ UNCHANGED <<file, openTail, checkpoint, authority, at, highest, records, crashes, halts>>

\* writeCheckpoint, of consume and of quarantine.
ConsumeNothing(line) == UNCHANGED checkpoint                          \* mutant
WriteCheckpoint(line) == checkpoint' = [consumed |-> line, highest |-> highest]

Consume ==
  /\ mode \in {"committed", "evidenced"}
  /\ WriteCheckpoint(at)
  /\ mode' = "replaying" /\ at' = at + 1
  /\ UNCHANGED <<file, openTail, evidence, authority, highest, records, crashes, halts>>

\* The pass is over; compact() has nothing to do when nothing was consumed.
EndPass == mode' = IF checkpoint.consumed = 0 THEN "serving" ELSE "compacting"

ReplayEnds ==
  /\ mode = "replaying" /\ at > Len(file)
  /\ EndPass
  /\ UNCHANGED <<file, openTail, checkpoint, evidence, authority, at, highest,
                 records, crashes, halts>>

\* The store did not accept the record yet: the pass stops at it.
SkipIt ==                                                             \* mutant
  /\ Offered /\ file[at].ok /\ halts < MaxHalts /\ halts' = halts + 1
  /\ at' = at + 1
  /\ UNCHANGED <<file, openTail, checkpoint, evidence, authority, mode, highest, records, crashes>>
Halt ==
  /\ Offered /\ file[at].ok
  /\ halts < MaxHalts /\ halts' = halts + 1
  /\ EndPass
  /\ UNCHANGED <<file, openTail, checkpoint, evidence, authority, at, highest,
                 records, crashes>>

\* compact(): the survivors are written aside, the checkpoint drops to zero
\* while the full file is still in place, and then the files are swapped.
CompactWithoutReset ==                                                \* mutant
  /\ mode = "compacting"
  /\ at' = checkpoint.consumed
  /\ mode' = "swapping"
  /\ UNCHANGED <<file, openTail, checkpoint, evidence, authority, highest, records, crashes, halts>>
ResetCheckpoint ==
  /\ mode = "compacting"
  /\ WriteCheckpoint(0)
  /\ at' = checkpoint.consumed
  /\ mode' = "swapping"
  /\ UNCHANGED <<file, openTail, evidence, authority, highest, records, crashes, halts>>

SwapFiles ==
  /\ mode = "swapping"
  /\ file' = SubSeq(file, at + 1, Len(file))
  /\ openTail' = FALSE
  /\ at' = 0 /\ mode' = "serving"
  /\ UNCHANGED <<checkpoint, evidence, authority, highest, records, crashes, halts>>

\* The process dies during a recovery, or a call of the spool throws and the
\* startup is given up.
Crash ==
  /\ mode \in Healthy \ {"serving"}
  /\ crashes < MaxCrashes /\ crashes' = crashes + 1
  /\ mode' = "down" /\ at' = 0 /\ highest' = 0
  /\ UNCHANGED <<file, openTail, checkpoint, evidence, authority, records, halts>>

-----------------------------------------------------------------------------
Recovering ==
  \/ QuarantineUnreadable \/ Apply \/ Refuse \/ Consume \/ ReplayEnds
  \/ ResetCheckpoint \/ SwapFiles

Next ==
  \/ \E k \in Keys, replayable \in BOOLEAN : Accept(k, replayable) \/ AcceptFails(k, replayable)
  \/ StartDegraded \/ StartHealthy \/ Close
  \/ Recovering \/ Halt \/ Crash

Spec == Init /\ [][Next]_vars

\* The operator always restarts the bot sooner or later, and not forever in the
\* degraded posture; a startup that is under way goes on.
FairSpec == Spec /\ WF_vars(Recovering) /\ WF_vars(Close) /\ SF_vars(StartHealthy)
-----------------------------------------------------------------------------
\* Properties.

Pending == UNION {file[k].recs : k \in {j \in DOMAIN file : j > checkpoint.consumed}}
PendingReadable ==
  UNION {file[k].recs : k \in {j \in DOMAIN file : j > checkpoint.consumed /\ file[j].ok}}
Committed(r) == records[r].key \in CommittedKeys
Refused(r) == <<r, "unreplayable">> \in evidence
Written == UNION {file[k].recs : k \in DOMAIN file}

(***************************************************************************)
(* What the acknowledgement promises: wherever the process dies, a write   *)
(* that accept returned for is still offered to the authority, or the      *)
(* authority has it, or has refused it for good.  Except for the record    *)
(* whose line was begun by a torn one, see AckedIsKeptWhateverIsTorn.      *)
(***************************************************************************)
AckedIsKept ==
  \A r \in DOMAIN records :
    records[r].acked /\ records[r].alone =>
      r \in PendingReadable \/ Committed(r) \/ Refused(r)

(***************************************************************************)
(* The same of every acknowledged write.  write-spool.ts promises it       *)
(* ("the acknowledgement the caller passes on must already be backed by    *)
(* bytes on disk"); a torn tail left by an earlier process breaks it.      *)
(***************************************************************************)
AckedIsKeptWhateverIsTorn ==
  \A r \in DOMAIN records :
    records[r].acked => r \in PendingReadable \/ Committed(r) \/ Refused(r)

\* Nothing leaves the spool silently: the bytes the checkpoint passes over have
\* reached the authority, or the quarantine says that they have not.  (Bytes
\* appended later to a consumed torn line are passed over unseen; they are the
\* same record that AckedIsKept leaves out.)
NothingRemovedSilently ==
  \A k \in 1..checkpoint.consumed : \A r \in file[k].recs :
    records[r].alone =>
      Committed(r) \/ \E why \in Reasons : <<r, why>> \in evidence

\* The readable records past the checkpoint that the authority has not settled.
Settled(r) == Refused(r) \/ (records[r].replayable /\ Committed(r))
Unsettled == {r \in PendingReadable : ~Settled(r)}

\* What the queue knows of a call of accept, and the calls it has given up.
Calls ==
  [r \in DOMAIN records |-> [key |-> records[r].key, replayable |-> records[r].replayable,
                            acked |-> records[r].acked]]
GivenUp == {r \in DOMAIN records : Refused(r)}

Promise ==
  INSTANCE DeferredWrites WITH
    records <- Calls, pending <- Unsettled, committed <- authority, refused <- GivenUp

(***************************************************************************)
(* The spool is a queue: whatever the order of appends, deaths, passes and *)
(* compactions, to its callers and to the authority it looks like records  *)
(* waiting in line, each taken or refused once, by its turn.               *)
(***************************************************************************)
LooksLikeAQueue == Promise!Spec

\* No refusal and no crash wedges recovery: restarted often enough, the bot
\* leaves no user content in the spool.
SpoolIsEmptied == []<>(file = << >>)
=============================================================================
