--------------------------- MODULE WriteSpoolProofs ---------------------------
(***************************************************************************)
(* Proofs about the write spool, for any number of records, of failed      *)
(* calls, of deaths in the middle of a recovery and of answers "not now".  *)
(***************************************************************************)
EXTENDS WriteSpool, SequenceTheorems, FiniteSetTheorems, NaturalsInduction, TLAPS

-----------------------------------------------------------------------------
(* The inductive invariant.                                                *)

Line == [recs : SUBSET Records, ok : BOOLEAN]
Entry == [key : Keys, sequence : Records, replayable : BOOLEAN, acked : BOOLEAN, alone : BOOLEAN]

Typed ==
  /\ file \in Seq(Line) /\ openTail \in BOOLEAN
  /\ checkpoint \in [consumed : Nat, highest : Nat] /\ checkpoint.consumed <= Len(file)
  /\ evidence \subseteq (Records \X Reasons)
  /\ authority \in Seq(Records) /\ mode \in Healthy \cup {"down", "degraded"} /\ at \in Nat /\ highest \in Nat
  /\ records \in Seq(Entry) /\ Len(records) <= MaxRecords
  /\ crashes \in 0..MaxCrashes /\ halts \in 0..MaxHalts

\* Lines, the authority and the numbers speak of records that accept was called with.
Referring ==
  /\ \A k \in DOMAIN file : file[k].recs \subseteq DOMAIN records
  /\ \A k \in DOMAIN file : file[k].ok => \E r \in DOMAIN records : file[k].recs = {r}
  /\ \A k \in DOMAIN authority : authority[k] \in DOMAIN records
  /\ \A r \in DOMAIN records : records[r].sequence <= Len(records)
  /\ checkpoint.highest <= Len(records) /\ highest <= Len(records)

\* An append goes on with the last line only where no acknowledged record
\* begins it.
Torn ==
  openTail => /\ Len(file) > 0
              /\ \A r \in file[Len(file)].recs : ~(records[r].acked /\ records[r].alone)

\* What is over for all records of a line.
Told(r) == records[r].alone => Committed(r) \/ \E why \in Reasons : <<r, why>> \in evidence
Passed(k) == \A r \in file[k].recs : (file[k].ok => Settled(r)) /\ Told(r)

\* The checkpoint passes over lines that are over; so do the line a recovery
\* has just dealt with, and the lines a compaction is about to drop.
Position ==
  /\ \A k \in 1..checkpoint.consumed : Passed(k)
  /\ mode \in {"down", "degraded"} => at = 0
  /\ mode \in {"replaying", "committed", "evidenced"} => at = checkpoint.consumed + 1
  /\ mode \in {"committed", "evidenced"} => at <= Len(file) /\ Passed(at)
  /\ mode = "swapping" => checkpoint.consumed = 0 /\ at <= Len(file) /\ \A k \in 1..at : Passed(k)
  /\ at <= Len(file) + 1

Waits(r) == \E k \in DOMAIN file : k > checkpoint.consumed /\ file[k].ok /\ r \in file[k].recs
Acknowledged == \A r \in DOMAIN records : records[r].acked /\ records[r].alone => Waits(r) \/ Settled(r)

IInv == Typed /\ Referring /\ Torn /\ Position /\ Acknowledged

\* What the queue rests on: the lines hold the records in their order, a record
\* that can be read began its line, an open tail is the work of the last call,
\* and only what cannot be replayed is refused.
InLine ==
  /\ \A j, k \in DOMAIN file : j < k => \A r \in file[j].recs, q \in file[k].recs : r < q
  /\ \A k \in DOMAIN file : file[k].ok => \A r \in file[k].recs : records[r].alone
  /\ openTail => records # << >> /\ ~records[Len(records)].acked
  /\ \A r \in Records : <<r, "unreplayable">> \in evidence => r \in DOMAIN records /\ ~records[r].replayable

-----------------------------------------------------------------------------
(* The operators.                                                          *)

LEMMA Greatest ==
  ASSUME NEW n \in Nat, NEW S \in SUBSET (0..n), S # {}
  PROVE  Max(S) \in S
<1> DEFINE T == {k \in Nat : \E x \in S : k = n - x}
<1>1. T \in SUBSET Nat /\ T # {}
  <2>1. PICK z \in S : z \in 0..n
    OBVIOUS
  <2>2. n - z \in T
    BY <2>1
  <2> QED BY <2>2
<1>2. PICK k \in T : \A m \in T : <<m, k>> \notin OpToRel(<, Nat)
  BY <1>1, NatLessThanWellFounded, WFMin
<1>3. \A m \in T : ~(m < k)
  BY <1>1, <1>2 DEF OpToRel
<1>4. PICK x \in S : k = n - x
  OBVIOUS
<1>5. \A y \in S : n - y \in T /\ y \in 0..n
  OBVIOUS
<1> HIDE DEF T
<1>6. ASSUME NEW y \in S PROVE x >= y
  <2>1. ~(n - y < n - x) /\ y \in 0..n /\ x \in 0..n
    BY <1>3, <1>4, <1>5
  <2> QED BY <2>1
<1> QED BY <1>4, <1>6 DEF Max

\* What the spool knows of numbers when it is opened.
LEMMA OpenedFacts == ASSUME Typed, Referring PROVE OpenedHighest \in 0..Len(records)
<1> DEFINE S == {checkpoint.highest} \cup {records[r].sequence : r \in UNION Readable}
<1>1. UNION Readable \subseteq DOMAIN records
  BY DEF Readable, Referring
<1>2. \A r \in DOMAIN records : records[r].sequence \in 0..Len(records)
  <2>1. \A r \in DOMAIN records : records[r] \in Entry
    BY DEF Typed
  <2>2. MaxRecords \in Nat /\ Len(records) \in Nat
    BY WriteSpoolAssumption DEF Typed
  <2>3. \A r \in DOMAIN records : records[r].sequence \in 1..MaxRecords
    BY <2>1 DEF Entry, Records
  <2> QED BY <2>2, <2>3 DEF Referring
<1>3. checkpoint.highest \in 0..Len(records) /\ Len(records) \in Nat
  BY DEF Typed, Referring
<1>4. S \in SUBSET (0..Len(records)) /\ S # {}
  BY <1>1, <1>2, <1>3
<1> HIDE DEF S
<1>5. Max(S) \in S
  BY <1>3, <1>4, Greatest
<1> QED BY <1>4, <1>5 DEF OpenedHighest, S

\* What is over stays over.
LEMMA SettledStays ==
  ASSUME Referring, NEW r \in DOMAIN records,
         \A q \in DOMAIN records : records'[q] = records[q],
         \A k \in DOMAIN authority : k \in DOMAIN authority' /\ authority'[k] = authority[k],
         evidence \subseteq evidence'
  PROVE  (Settled(r) => Settled(r)') /\ (Told(r) => Told(r)')
<1>1. CommittedKeys \subseteq CommittedKeys'
  BY DEF CommittedKeys, Referring
<1>2. Committed(r) => Committed(r)'
  BY <1>1 DEF Committed
<1> QED BY <1>2 DEF Settled, Told, Refused

\* A line that stays what it was.
LEMMA PassedStays ==
  ASSUME Referring, NEW k \in DOMAIN file, NEW j, file'[j] = file[k],
         \A q \in DOMAIN records : records'[q] = records[q],
         \A i \in DOMAIN authority : i \in DOMAIN authority' /\ authority'[i] = authority[i],
         evidence \subseteq evidence', Passed(k)
  PROVE  Passed(j)'
<1>1. file[k].recs \subseteq DOMAIN records
  BY DEF Referring
<1> QED BY <1>1, SettledStays DEF Passed

-----------------------------------------------------------------------------
(* A step that writes no line: the records that wait go on waiting, or are *)
(* over.                                                                   *)

LEMMA SameFileStep ==
  ASSUME IInv, Typed', UNCHANGED <<file, openTail, records>>,
         \A i \in DOMAIN authority' : authority'[i] \in DOMAIN records,
         \A i \in DOMAIN authority : i \in DOMAIN authority' /\ authority'[i] = authority[i],
         evidence \subseteq evidence',
         checkpoint'.highest <= Len(records), highest' <= Len(records),
         \/ checkpoint'.consumed <= checkpoint.consumed
         \/ checkpoint'.consumed = at /\ mode \in {"committed", "evidenced"},
         mode' \in {"down", "degraded"} => at' = 0,
         mode' \in {"replaying", "committed", "evidenced"} => at' = checkpoint'.consumed + 1,
         mode' \in {"committed", "evidenced"} => at' <= Len(file) /\ Passed(at)',
         mode' = "swapping" => checkpoint'.consumed = 0 /\ at' <= checkpoint.consumed,
         at' <= Len(file) + 1
  PROVE  IInv'
<1>1. Referring'
  BY DEF IInv, Referring
<1>2. Torn'
  BY DEF IInv, Torn
<1>3. DOMAIN file = 1..Len(file) /\ Len(file) \in Nat /\ checkpoint.consumed \in Nat /\ checkpoint'.consumed \in Nat /\ at \in Nat
      /\ checkpoint.consumed <= Len(file) /\ at' \in Nat
  BY DEF IInv, Typed
<1>4. \A k \in DOMAIN file : Passed(k) => Passed(k)'
  BY PassedStays DEF IInv
<1>5. \A k \in 1..checkpoint'.consumed : k \in DOMAIN file /\ Passed(k)
  <2>1. CASE checkpoint'.consumed <= checkpoint.consumed
    BY <1>3, <2>1 DEF IInv, Position
  <2>2. CASE checkpoint'.consumed = at /\ mode \in {"committed", "evidenced"}
    BY <1>3, <2>2 DEF IInv, Position
  <2> QED BY <2>1, <2>2
<1>6. \A k \in 1..checkpoint.consumed : k \in DOMAIN file /\ Passed(k)
  BY <1>3 DEF IInv, Position
<1>7. Position'
  <2>1. \A k \in 1..checkpoint'.consumed : Passed(k)'
    BY <1>4, <1>5
  <2>2. mode' = "swapping" => /\ checkpoint'.consumed = 0 /\ at' <= Len(file)
                              /\ \A k \in 1..at' : Passed(k)'
    <3>1. ASSUME mode' = "swapping", NEW k \in 1..at' PROVE k \in 1..checkpoint.consumed
      BY <1>3, <3>1
    <3> QED BY <1>3, <1>4, <1>6, <3>1
  <2> QED BY <2>1, <2>2 DEF Position
<1>8. Acknowledged'
  <2>1. SUFFICES ASSUME NEW r \in DOMAIN records, records[r].acked, records[r].alone
                 PROVE  Waits(r)' \/ Settled(r)'
    BY DEF Acknowledged
  <2>2. CASE Settled(r)
    BY <2>2, SettledStays DEF IInv
  <2>3. CASE Waits(r)
    <3>1. PICK k \in DOMAIN file : k > checkpoint.consumed /\ file[k].ok /\ r \in file[k].recs
      BY <2>3 DEF Waits
    <3>2. CASE k > checkpoint'.consumed
      BY <3>1, <3>2 DEF Waits
    <3>3. CASE ~(k > checkpoint'.consumed)
      <4>1. k \in 1..checkpoint'.consumed
        BY <1>3, <3>3
      <4> QED BY <1>5, <3>1, <4>1, SettledStays DEF Passed, IInv
    <3> QED BY <3>2, <3>3
  <2> QED BY <2>1, <2>2, <2>3 DEF IInv, Acknowledged
<1> QED BY <1>1, <1>2, <1>7, <1>8 DEF IInv

-----------------------------------------------------------------------------
(* The steps.                                                              *)

LEMMA Bounds ==
  ASSUME Typed
  PROVE  /\ Len(file) \in Nat /\ DOMAIN file = 1..Len(file) /\ Len(records) \in Nat /\ DOMAIN records = 1..Len(records)
         /\ checkpoint.consumed \in Nat /\ checkpoint.highest \in Nat /\ at \in Nat /\ highest \in Nat
         /\ MaxRecords \in Nat /\ DOMAIN records \subseteq Records
BY WriteSpoolAssumption DEF Typed, Records

\* Only the mode moves, and with it where a recovery is.
LEMMA StartStep == ASSUME IInv, StartDegraded \/ StartHealthy \/ Close \/ Crash PROVE IInv'
<1>1. /\ UNCHANGED <<file, openTail, checkpoint, evidence, authority, records>>
      /\ highest' \in {0, OpenedHighest} /\ mode' \in {"down", "degraded", "replaying"}
      /\ mode' \in {"down", "degraded"} => at' = 0
      /\ mode' = "replaying" => at' = checkpoint.consumed + 1
  BY DEF StartDegraded, StartHealthy, Close, Crash, IInv, Position
<1>2. crashes' \in 0..MaxCrashes /\ halts' \in 0..MaxHalts
  BY WriteSpoolAssumption DEF StartDegraded, StartHealthy, Close, Crash, IInv, Typed
<1>3. highest' \in 0..Len(records)
  BY <1>1, OpenedFacts, Bounds DEF IInv
<1>4. at' \in Nat /\ at' <= Len(file) + 1
  BY <1>1, Bounds DEF IInv, Typed, Position
<1>5. Typed'
  BY <1>1, <1>2, <1>3, <1>4, Bounds DEF IInv, Typed, Healthy
<1>6. /\ \A i \in DOMAIN authority' : authority'[i] \in DOMAIN records
      /\ \A i \in DOMAIN authority : i \in DOMAIN authority' /\ authority'[i] = authority[i]
      /\ checkpoint'.highest <= Len(records) /\ highest' <= Len(records)
      /\ checkpoint'.consumed <= checkpoint.consumed
  BY <1>1, <1>3, Bounds DEF IInv, Referring
<1> QED BY <1>1, <1>4, <1>5, <1>6, SameFileStep

LEMMA RecordFacts ==
  ASSUME IInv, Offered, file[at].ok
  PROVE  /\ at \in DOMAIN file /\ at = checkpoint.consumed + 1 /\ Record \in DOMAIN records /\ file[at].recs = {Record}
<1>1. at \in DOMAIN file /\ at = checkpoint.consumed + 1
  BY Bounds DEF IInv, Position, Offered
<1>2. PICK r \in DOMAIN records : file[at].recs = {r}
  BY <1>1 DEF IInv, Referring
<1> QED BY <1>1, <1>2 DEF Record

LEMMA QuarantineKept == ASSUME IInv, QuarantineUnreadable PROVE IInv'
<1>1. /\ Offered /\ ~file[at].ok /\ evidence' = evidence \cup (file[at].recs \X {"unreadable"}) /\ mode' = "evidenced"
      /\ UNCHANGED <<file, openTail, checkpoint, authority, at, highest, records, crashes, halts>>
  BY DEF QuarantineUnreadable
<1>2. at \in DOMAIN file /\ at = checkpoint.consumed + 1 /\ at <= Len(file) /\ file[at].recs \subseteq DOMAIN records
  BY <1>1, Bounds DEF IInv, Position, Offered, Referring
<1>3. evidence' \subseteq (Records \X Reasons)
  BY <1>1, <1>2, Bounds DEF IInv, Typed, Reasons
<1>4. Passed(at)'
  BY <1>1 DEF Passed, Told, Reasons
<1>5. Typed'
  BY <1>1, <1>3 DEF IInv, Typed, Healthy
<1>6. /\ \A i \in DOMAIN authority' : authority'[i] \in DOMAIN records
      /\ \A i \in DOMAIN authority : i \in DOMAIN authority' /\ authority'[i] = authority[i]
      /\ checkpoint'.highest <= Len(records) /\ highest' <= Len(records)
      /\ checkpoint'.consumed <= checkpoint.consumed
  BY <1>1, Bounds DEF IInv, Referring
<1>7. evidence \subseteq evidence' /\ at' = checkpoint'.consumed + 1 /\ at' <= Len(file) /\ at' <= Len(file) + 1
  BY <1>1, <1>2, Bounds
<1> QED BY <1>1, <1>4, <1>5, <1>6, <1>7, SameFileStep

LEMMA ApplyKept == ASSUME IInv, Apply PROVE IInv'
<1>1. /\ Offered /\ file[at].ok /\ records[Record].replayable /\ mode' = "committed"
      /\ authority' = IF records[Record].key \in CommittedKeys THEN authority ELSE Append(authority, Record)
      /\ UNCHANGED <<file, openTail, checkpoint, evidence, at, highest, records, crashes, halts>>
  BY DEF Apply
<1>2. PICK rec \in DOMAIN records :
        /\ at \in DOMAIN file /\ at = checkpoint.consumed + 1 /\ Record = rec /\ file[at].recs = {rec}
        /\ at <= Len(file) /\ rec \in Records
  BY <1>1, RecordFacts, Bounds DEF IInv, Offered
<1>3. /\ authority' \in Seq(Records)
      /\ \A i \in DOMAIN authority : i \in DOMAIN authority' /\ authority'[i] = authority[i]
      /\ \A i \in DOMAIN authority' : authority'[i] \in DOMAIN records
      /\ records[rec].key \in CommittedKeys \/ \E i \in DOMAIN authority' : authority'[i] = rec
  <2>1. CASE records[rec].key \in CommittedKeys
    BY <1>1, <1>2, <2>1 DEF IInv, Typed, Referring
  <2>2. CASE records[rec].key \notin CommittedKeys
    <3>1. authority' = Append(authority, rec) /\ authority \in Seq(Records)
      BY <1>1, <1>2, <2>2 DEF IInv, Typed
    <3>2. /\ authority' \in Seq(Records) /\ DOMAIN authority' = 1..(Len(authority) + 1)
          /\ \A i \in 1..Len(authority) : authority'[i] = authority[i]
          /\ authority'[Len(authority) + 1] = rec /\ DOMAIN authority = 1..Len(authority) /\ Len(authority) \in Nat
      BY <1>2, <3>1, AppendProperties
    <3>3. \A i \in DOMAIN authority' : i \in DOMAIN authority \/ i = Len(authority) + 1
      BY <3>2
    <3> QED BY <1>2, <3>2, <3>3 DEF IInv, Referring
  <2> QED BY <2>1, <2>2
<1>4. Passed(at)'
  <2>1. Committed(rec)'
    <3>1. CASE records[rec].key \in CommittedKeys
      BY <1>1, <3>1 DEF Committed, CommittedKeys
    <3>2. CASE \E i \in DOMAIN authority' : authority'[i] = rec
      BY <1>1, <3>2 DEF Committed, CommittedKeys
    <3> QED BY <1>3, <3>1, <3>2
  <2> QED BY <1>1, <1>2, <2>1 DEF Passed, Settled, Told
<1>5. Typed'
  BY <1>1, <1>3 DEF IInv, Typed, Healthy
<1>6. /\ \A i \in DOMAIN authority' : authority'[i] \in DOMAIN records
      /\ \A i \in DOMAIN authority : i \in DOMAIN authority' /\ authority'[i] = authority[i]
      /\ checkpoint'.highest <= Len(records) /\ highest' <= Len(records)
      /\ checkpoint'.consumed <= checkpoint.consumed
  BY <1>1, <1>3, Bounds DEF IInv, Referring
<1> QED BY <1>1, <1>2, <1>4, <1>5, <1>6, Bounds, SameFileStep

LEMMA RefuseKept == ASSUME IInv, Refuse PROVE IInv'
<1>1. /\ Offered /\ file[at].ok /\ evidence' = evidence \cup {<<Record, "unreplayable">>} /\ mode' = "evidenced"
      /\ UNCHANGED <<file, openTail, checkpoint, authority, at, highest, records, crashes, halts>>
  BY DEF Refuse
<1>2. at \in DOMAIN file /\ at = checkpoint.consumed + 1 /\ Record \in DOMAIN records /\ file[at].recs = {Record}
      /\ at <= Len(file) /\ Record \in Records
  BY <1>1, RecordFacts, Bounds DEF IInv, Offered
<1>3. evidence' \subseteq (Records \X Reasons)
  BY <1>1, <1>2 DEF IInv, Typed, Reasons
<1>4. Passed(at)'
  BY <1>1, <1>2 DEF Passed, Settled, Told, Refused, Reasons
<1>5. Typed'
  BY <1>1, <1>3 DEF IInv, Typed, Healthy
<1>6. /\ \A i \in DOMAIN authority' : authority'[i] \in DOMAIN records
      /\ \A i \in DOMAIN authority : i \in DOMAIN authority' /\ authority'[i] = authority[i]
      /\ checkpoint'.highest <= Len(records) /\ highest' <= Len(records)
      /\ checkpoint'.consumed <= checkpoint.consumed
  BY <1>1, Bounds DEF IInv, Referring
<1>7. evidence \subseteq evidence' /\ at' = checkpoint'.consumed + 1 /\ at' <= Len(file) /\ at' <= Len(file) + 1
  BY <1>1, <1>2, Bounds
<1> QED BY <1>1, <1>4, <1>5, <1>6, <1>7, SameFileStep

LEMMA ConsumeKept == ASSUME IInv, Consume PROVE IInv'
<1>1. /\ mode \in {"committed", "evidenced"} /\ checkpoint' = [consumed |-> at, highest |-> highest]
      /\ mode' = "replaying" /\ at' = at + 1
      /\ UNCHANGED <<file, openTail, evidence, authority, highest, records, crashes, halts>>
  BY DEF Consume, WriteCheckpoint
<1>2. at <= Len(file)
  BY <1>1 DEF IInv, Position
<1>3. Typed'
  BY <1>1, <1>2, Bounds DEF IInv, Typed, Healthy
<1>4. /\ \A i \in DOMAIN authority' : authority'[i] \in DOMAIN records
      /\ \A i \in DOMAIN authority : i \in DOMAIN authority' /\ authority'[i] = authority[i]
      /\ checkpoint'.highest <= Len(records) /\ highest' <= Len(records)
  BY <1>1, Bounds DEF IInv, Referring
<1>5. checkpoint'.consumed = at /\ at' = checkpoint'.consumed + 1 /\ at' <= Len(file) + 1
  BY <1>1, <1>2, Bounds DEF IInv
<1> QED BY <1>1, <1>3, <1>4, <1>5, SameFileStep

LEMMA PassEnds == ASSUME IInv, ReplayEnds \/ Halt PROVE IInv'
<1>1. /\ mode' \in {"serving", "compacting"} /\ halts' \in 0..MaxHalts
      /\ UNCHANGED <<file, openTail, checkpoint, evidence, authority, at, highest, records, crashes>>
  BY WriteSpoolAssumption DEF ReplayEnds, Halt, EndPass, IInv, Typed
<1>2. Typed'
  BY <1>1 DEF IInv, Typed, Healthy
<1>3. at <= Len(file) + 1 /\ checkpoint.highest <= Len(records) /\ highest <= Len(records)
  BY DEF IInv, Position, Referring
<1>4. /\ \A i \in DOMAIN authority' : authority'[i] \in DOMAIN records
      /\ \A i \in DOMAIN authority : i \in DOMAIN authority' /\ authority'[i] = authority[i]
      /\ checkpoint'.highest <= Len(records) /\ highest' <= Len(records)
      /\ checkpoint'.consumed <= checkpoint.consumed
  BY <1>1, Bounds DEF IInv, Referring
<1> QED BY <1>1, <1>2, <1>3, <1>4, SameFileStep

LEMMA ResetKept == ASSUME IInv, ResetCheckpoint PROVE IInv'
<1>1. /\ checkpoint' = [consumed |-> 0, highest |-> highest] /\ at' = checkpoint.consumed /\ mode' = "swapping"
      /\ UNCHANGED <<file, openTail, evidence, authority, highest, records, crashes, halts>>
  BY DEF ResetCheckpoint, WriteCheckpoint
<1>2. Typed'
  BY <1>1, Bounds DEF IInv, Typed, Healthy
<1>3. at' <= Len(file) + 1 /\ highest <= Len(records) /\ checkpoint'.consumed <= checkpoint.consumed
  BY <1>1, Bounds DEF IInv, Typed, Referring
<1>4. /\ \A i \in DOMAIN authority' : authority'[i] \in DOMAIN records
      /\ \A i \in DOMAIN authority : i \in DOMAIN authority' /\ authority'[i] = authority[i]
      /\ checkpoint'.highest <= Len(records) /\ highest' <= Len(records)
      /\ checkpoint'.consumed <= checkpoint.consumed
  BY <1>1, Bounds DEF IInv, Referring
<1>5. at' <= checkpoint.consumed /\ checkpoint'.consumed = 0
  BY <1>1, Bounds DEF IInv
<1> QED BY <1>1, <1>2, <1>3, <1>4, <1>5, SameFileStep

\* The consumed lines go, and the others move up.
LEMMA SwapFacts ==
  ASSUME IInv, SwapFiles
  PROVE  /\ checkpoint.consumed = 0 /\ at \in 0..Len(file) /\ (\A k \in 1..at : Passed(k)) /\ Len(file) \in Nat
         /\ file' \in Seq(Line) /\ Len(file') = Len(file) - at /\ DOMAIN file' = 1..(Len(file) - at)
         /\ \A k \in 1..(Len(file) - at) : file'[k] = file[k + at]
<1>1. mode = "swapping" /\ file' = SubSeq(file, at + 1, Len(file))
  BY DEF SwapFiles
<1>2. /\ checkpoint.consumed = 0 /\ at \in 0..Len(file) /\ (\A k \in 1..at : Passed(k)) /\ file \in Seq(Line)
      /\ Len(file) \in Nat
  BY <1>1, Bounds DEF IInv, Position, Typed
<1>3. \A i \in (at + 1)..Len(file) : file[i] \in Line
  BY <1>2
<1>4. /\ SubSeq(file, at + 1, Len(file)) \in Seq(Line)
      /\ Len(SubSeq(file, at + 1, Len(file))) = IF at + 1 <= Len(file) THEN Len(file) - (at + 1) + 1 ELSE 0
      /\ \A k \in 1..(Len(file) - (at + 1) + 1) : SubSeq(file, at + 1, Len(file))[k] = file[at + 1 + k - 1]
  BY <1>2, <1>3, SubSeqProperties
<1>5. Len(file') = Len(file) - at
  BY <1>1, <1>2, <1>4
<1>6. DOMAIN file' = 1..Len(file')
  BY <1>1, <1>4
<1> QED BY <1>1, <1>2, <1>4, <1>5, <1>6

LEMMA SwapKept == ASSUME IInv, SwapFiles PROVE IInv'
<1>1. /\ openTail' = FALSE /\ at' = 0 /\ mode' = "serving"
      /\ UNCHANGED <<checkpoint, evidence, authority, highest, records, crashes, halts>>
  BY DEF SwapFiles
<1>2. checkpoint.consumed = 0 /\ at \in 0..Len(file) /\ (\A k \in 1..at : Passed(k)) /\ Len(file) \in Nat
  BY SwapFacts
<1>3. /\ file' \in Seq(Line) /\ Len(file') = Len(file) - at /\ DOMAIN file' = 1..(Len(file) - at)
      /\ \A k \in 1..(Len(file) - at) : file'[k] = file[k + at]
  BY SwapFacts
<1>4. Typed'
  <2>1. checkpoint' \in [consumed : Nat, highest : Nat] /\ checkpoint'.consumed = 0 /\ at' = 0 /\ openTail' = FALSE
    BY <1>1, <1>2 DEF IInv, Typed
  <2>2. checkpoint'.consumed <= Len(file')
    BY <1>2, <1>3, <2>1
  <2>3. /\ evidence' \subseteq (Records \X Reasons) /\ authority' \in Seq(Records) /\ highest' \in Nat
        /\ records' \in Seq(Entry) /\ Len(records') <= MaxRecords
        /\ crashes' \in 0..MaxCrashes /\ halts' \in 0..MaxHalts
    BY <1>1 DEF IInv, Typed
  <2> QED BY <1>1, <1>3, <2>1, <2>2, <2>3 DEF Typed, Healthy
<1>5. Referring'
  <2>1. \A k \in DOMAIN file' : k + at \in DOMAIN file /\ file'[k] = file[k + at]
    BY <1>2, <1>3
  <2> QED BY <1>1, <2>1 DEF IInv, Referring
<1>6. Torn' /\ Position'
  <2>1. Torn'
    BY <1>1 DEF Torn
  <2>2. checkpoint'.consumed = 0 /\ at' <= Len(file') + 1
    BY <1>1, <1>2, <1>3
  <2>3. \A k \in 1..checkpoint'.consumed : Passed(k)'
    BY <2>2
  <2> QED BY <1>1, <2>1, <2>2, <2>3 DEF Position
<1>7. Acknowledged'
  <2>1. SUFFICES ASSUME NEW r \in DOMAIN records, records[r].acked, records[r].alone
                 PROVE  Waits(r)' \/ Settled(r)'
    BY <1>1 DEF Acknowledged
  <2>2. Settled(r) => Settled(r)'
    BY <1>1, SettledStays DEF IInv
  <2>3. CASE Waits(r)
    <3>1. PICK k \in DOMAIN file : file[k].ok /\ r \in file[k].recs
      BY <2>3 DEF Waits
    <3>2. CASE k <= at
      BY <1>2, <2>2, <3>1, <3>2 DEF Passed
    <3>3. CASE ~(k <= at)
      <4>1. k - at \in DOMAIN file' /\ k - at > 0 /\ file'[k - at] = file[k]
        BY <1>2, <1>3, <3>3
      <4> QED BY <1>1, <1>2, <3>1, <4>1 DEF Waits
    <3> QED BY <3>2, <3>3
  <2> QED BY <2>1, <2>2, <2>3 DEF IInv, Acknowledged
<1> QED BY <1>4, <1>5, <1>6, <1>7 DEF IInv

LEMMA SameLines ==
  ASSUME NEW f \in Seq(Line), NEW x \in Line
  PROVE  /\ Append(f, x) \in Seq(Line) /\ Len(Append(f, x)) = Len(f) + 1 /\ Append(f, x)[Len(f) + 1] = x
         /\ \A k \in 1..Len(f) : Append(f, x)[k] = f[k]
         /\ DOMAIN Append(f, x) = 1..(Len(f) + 1)
BY AppendProperties

\* The bytes of one record reach the file, all of them, some or none: the file is
\* as it was, or its torn last line goes on and is read no more, or the record has
\* a line of its own.
NoLine == file' = file /\ openTail' = openTail
SameLine(id) ==
  /\ openTail /\ Len(file) \in DOMAIN file /\ file' \in Seq(Line) /\ Len(file') = Len(file) /\ DOMAIN file' = DOMAIN file
  /\ file'[Len(file)].recs = file[Len(file)].recs \cup {id} /\ file'[Len(file)].ok = FALSE
  /\ \A k \in DOMAIN file \ {Len(file)} : file'[k] = file[k]
OwnLine(id, ok) ==
  /\ ~openTail /\ file' \in Seq(Line) /\ Len(file') = Len(file) + 1 /\ DOMAIN file' = DOMAIN file \cup {Len(file) + 1}
  /\ file'[Len(file) + 1].recs = {id} /\ file'[Len(file) + 1].ok = ok
  /\ \A k \in DOMAIN file : file'[k] = file[k]

Wrote(id, key, replayable, extent, acked) ==
  /\ id = Len(records) + 1 /\ id \notin DOMAIN records /\ highest' \in Nat /\ highest' <= id
  /\ records' \in Seq(Entry) /\ Len(records') = id /\ DOMAIN records' = DOMAIN records \cup {id}
  /\ (\A r \in DOMAIN records : records'[r] = records[r])
  /\ records'[id].key = key /\ records'[id].sequence = highest' /\ records'[id].replayable = replayable
  /\ records'[id].acked = acked /\ records'[id].alone = ~openTail
  /\ \/ NoLine /\ ~acked
     \/ SameLine(id) /\ openTail' = (extent # "whole")
     \/ OwnLine(id, extent # "part") /\ openTail' = (extent # "whole")

LEMMA WriteFacts ==
  ASSUME IInv, NEW key \in Keys, NEW replayable \in BOOLEAN, NEW extent \in Extents, NEW acked \in BOOLEAN,
         Write(key, replayable, extent, acked), acked => extent = "whole"
  PROVE  \E id \in Records : Wrote(id, key, replayable, extent, acked)
<1> DEFINE e == [key |-> key, sequence |-> highest + 1, replayable |-> replayable, acked |-> acked, alone |-> ~openTail]
<1>1. /\ Len(records) < MaxRecords /\ highest' = highest + 1
      /\ records' = Append(records, e) /\ file' = Appended(Len(records) + 1, extent)
      /\ openTail' = (IF extent = "nothing" THEN openTail ELSE extent # "whole")
  BY DEF Write
<1>2. PICK id \in Records :
        /\ id = Len(records) + 1 /\ id \notin DOMAIN records
        /\ highest + 1 \in Records /\ highest + 1 \in Nat /\ highest + 1 <= id
  <2>1. highest <= Len(records)
    BY DEF IInv, Referring
  <2>2. /\ Len(records) + 1 \in Records /\ Len(records) + 1 \notin DOMAIN records
        /\ highest + 1 \in Records /\ highest + 1 \in Nat /\ highest + 1 <= Len(records) + 1
    BY <1>1, <2>1, Bounds DEF IInv, Records
  <2> QED BY <2>2
<1>3. openTail \in BOOLEAN /\ records \in Seq(Entry) /\ file \in Seq(Line)
  BY DEF IInv, Typed
<1>4. /\ e \in Entry /\ e.key = key /\ e.sequence = highest + 1 /\ e.replayable = replayable
      /\ e.acked = acked /\ e.alone = ~openTail
  BY <1>2, <1>3 DEF Entry
<1> HIDE DEF e
<1>5. /\ records' \in Seq(Entry) /\ Len(records') = id /\ DOMAIN records' = DOMAIN records \cup {id}
      /\ records'[id] = e /\ \A r \in DOMAIN records : records'[r] = records[r]
  <2>1. /\ Append(records, e) \in Seq(Entry) /\ Len(Append(records, e)) = Len(records) + 1
        /\ Append(records, e)[Len(records) + 1] = e
        /\ (\A r \in 1..Len(records) : Append(records, e)[r] = records[r])
        /\ DOMAIN Append(records, e) = 1..(Len(records) + 1)
    BY <1>3, <1>4, AppendProperties
  <2> QED BY <1>1, <1>2, <2>1, Bounds DEF IInv
<1>6. \/ NoLine /\ ~acked
      \/ SameLine(id) /\ openTail' = (extent # "whole")
      \/ OwnLine(id, extent # "part") /\ openTail' = (extent # "whole")
  <2>1. CASE extent = "nothing"
    <3>1. file' = file /\ openTail' = openTail
      BY <1>1, <2>1 DEF Appended
    <3> QED BY <2>1, <3>1 DEF NoLine
  <2>2. CASE extent # "nothing" /\ openTail
    <3> DEFINE n == Len(file)
               x == [recs |-> file[n].recs \cup {id}, ok |-> FALSE]
    <3>1. n > 0 /\ n \in DOMAIN file /\ file[n] \in Line
      BY <1>3, <2>2, Bounds DEF IInv, Torn
    <3>2. x \in Line /\ x.recs = file[n].recs \cup {id} /\ x.ok = FALSE
      BY <1>2, <3>1 DEF Line
    <3>3. file' = [file EXCEPT ![n] = x]
      BY <1>1, <1>2, <2>2 DEF Appended
    <3> HIDE DEF x
    <3>4. file' \in Seq(Line) /\ Len(file') = Len(file) /\ DOMAIN file' = DOMAIN file /\ file'[n] = x
          /\ \A k \in DOMAIN file \ {n} : file'[k] = file[k]
      BY <1>3, <3>1, <3>2, <3>3, ExceptSeq
    <3>5. SameLine(id)
      BY <2>2, <3>1, <3>2, <3>4 DEF SameLine
    <3>6. openTail' = (extent # "whole")
      BY <1>1, <2>2
    <3> QED BY <3>5, <3>6
  <2>3. CASE extent # "nothing" /\ ~openTail
    <3> DEFINE x == [recs |-> {id}, ok |-> extent # "part"]
    <3>1. x \in Line /\ x.recs = {id} /\ x.ok = (extent # "part")
      BY <1>2 DEF Line
    <3>2. file' = Append(file, x)
      BY <1>1, <1>2, <2>3 DEF Appended
    <3> HIDE DEF x
    <3>3. /\ file' \in Seq(Line) /\ Len(file') = Len(file) + 1 /\ DOMAIN file' = DOMAIN file \cup {Len(file) + 1}
          /\ file'[Len(file) + 1] = x /\ \A k \in DOMAIN file : file'[k] = file[k]
      BY <1>3, <3>1, <3>2, SameLines, Bounds DEF IInv
    <3>4. OwnLine(id, extent # "part")
      BY <2>3, <3>1, <3>3 DEF OwnLine
    <3>5. openTail' = (extent # "whole")
      BY <1>1, <2>3
    <3> QED BY <3>4, <3>5
  <2> QED BY <1>3, <2>1, <2>2, <2>3
<1>7. Wrote(id, key, replayable, extent, acked)
  BY <1>1, <1>2, <1>4, <1>5, <1>6 DEF Wrote
<1> QED BY <1>7

LEMMA WriteKept ==
  ASSUME IInv, NEW key \in Keys, NEW replayable \in BOOLEAN, NEW extent \in Extents, NEW acked \in BOOLEAN,
         Write(key, replayable, extent, acked), acked => extent = "whole"
  PROVE  IInv'
<1>1. mode = "degraded" /\ UNCHANGED <<checkpoint, evidence, authority, mode, at, crashes, halts>>
  BY DEF Write
<1>0. PICK id \in Records : Wrote(id, key, replayable, extent, acked)
  BY WriteFacts
<1>2. /\ id = Len(records) + 1 /\ id \notin DOMAIN records /\ highest' \in Nat /\ highest' <= id
      /\ records' \in Seq(Entry) /\ Len(records') = id /\ DOMAIN records' = DOMAIN records \cup {id}
      /\ (\A r \in DOMAIN records : records'[r] = records[r])
      /\ records'[id].key = key /\ records'[id].sequence = highest' /\ records'[id].replayable = replayable
      /\ records'[id].acked = acked /\ records'[id].alone = ~openTail
      /\ \/ NoLine /\ ~acked
         \/ SameLine(id) /\ openTail' = (extent # "whole")
         \/ OwnLine(id, extent # "part") /\ openTail' = (extent # "whole")
  BY <1>0 DEF Wrote
<1>3. file \in Seq(Line) /\ at = 0 /\ checkpoint.consumed <= Len(file) /\ openTail \in BOOLEAN
  BY <1>1 DEF IInv, Typed, Position
<1>4. \A r \in DOMAIN records : (Settled(r) => Settled(r)') /\ (Told(r) => Told(r)')
  BY <1>1, <1>2, SettledStays DEF IInv
<1>5. /\ \A r \in DOMAIN records' : records'[r].sequence <= Len(records')
      /\ checkpoint'.highest <= Len(records') /\ highest' <= Len(records')
  <2>1. ASSUME NEW r \in DOMAIN records PROVE records'[r].sequence <= id
    <3>1. records[r].sequence <= Len(records) /\ records'[r] = records[r] /\ records[r] \in Entry
      BY <1>2, <2>1 DEF IInv, Referring, Typed
    <3>2. records[r].sequence \in Int
      BY <3>1 DEF Entry, Records
    <3> QED BY <1>2, <3>1, <3>2, Bounds DEF IInv
  <2>2. checkpoint.highest <= id
    BY <1>2, Bounds DEF IInv, Referring
  <2> QED BY <1>1, <1>2, <2>1, <2>2
\* What no case has to look at.
<1>6. /\ checkpoint' \in [consumed : Nat, highest : Nat] /\ checkpoint' = checkpoint
      /\ evidence' \subseteq (Records \X Reasons)
      /\ authority' \in Seq(Records) /\ mode' \in Healthy \cup {"down", "degraded"} /\ at' \in Nat /\ highest' \in Nat
      /\ records' \in Seq(Entry) /\ Len(records') <= MaxRecords
      /\ crashes' \in 0..MaxCrashes /\ halts' \in 0..MaxHalts
      /\ openTail' \in BOOLEAN
  <2>1. Len(records') <= MaxRecords
    BY <1>2, Bounds DEF IInv, Records
  <2>2. openTail' \in BOOLEAN
    BY <1>2, <1>3 DEF NoLine
  <2> QED BY <1>1, <1>2, <2>1, <2>2 DEF IInv, Typed
<1>7. \A k \in DOMAIN authority' : authority'[k] \in DOMAIN records'
  BY <1>1, <1>2 DEF IInv, Referring
\* Nothing of it.
<1>8. CASE NoLine /\ ~acked
  <2>1. file' = file /\ openTail' = openTail
    BY <1>8 DEF NoLine
  <2>2. Typed'
    BY <1>3, <1>6, <2>1 DEF Typed
  <2>3. Referring'
    BY <1>2, <1>5, <1>7, <2>1 DEF IInv, Referring
  <2>4. Torn'
    BY <1>2, <2>1, Bounds DEF IInv, Torn, Referring
  <2>5. Position'
    <3>1. \A k \in DOMAIN file : Passed(k) => Passed(k)'
      BY <1>1, <1>2, <2>1, PassedStays DEF IInv
    <3> QED BY <1>1, <1>3, <2>1, <3>1, Bounds DEF IInv, Position
  <2>6. Acknowledged'
    <3>1. \A r \in DOMAIN records : Waits(r) => Waits(r)'
      BY <1>1, <2>1 DEF Waits
    <3> QED BY <1>2, <1>4, <1>8, <3>1 DEF IInv, Acknowledged
  <2> QED BY <2>2, <2>3, <2>4, <2>5, <2>6 DEF IInv
\* The last line was torn.
<1>9. CASE SameLine(id) /\ openTail' = (extent # "whole")
  <2> DEFINE n == Len(file)
  <2>1. openTail /\ n \in DOMAIN file /\ file' \in Seq(Line) /\ Len(file') = Len(file) /\ DOMAIN file' = DOMAIN file
        /\ file'[n].recs = file[n].recs \cup {id} /\ file'[n].ok = FALSE
        /\ \A k \in DOMAIN file \ {n} : file'[k] = file[k]
    BY <1>9 DEF SameLine
  <2>2. n > 0 /\ file[n].recs \subseteq DOMAIN records /\ \A r \in file[n].recs : ~(records[r].acked /\ records[r].alone)
    BY <2>1, Bounds DEF IInv, Torn, Referring
  <2>3. ~records'[id].alone
    BY <1>2, <2>1
  <2>4. Typed'
    BY <1>3, <1>6, <2>1 DEF Typed
  <2>5. Referring'
    <3>1. \A k \in DOMAIN file' : file'[k].recs \subseteq DOMAIN records'
      BY <1>2, <2>1, <2>2 DEF IInv, Referring
    <3>2. \A k \in DOMAIN file' : file'[k].ok => \E r \in DOMAIN records' : file'[k].recs = {r}
      BY <1>2, <2>1 DEF IInv, Referring
    <3> QED BY <1>5, <1>7, <3>1, <3>2 DEF Referring
  <2>6. Torn'
    <3>1. \A r \in file'[n].recs : ~(records'[r].acked /\ records'[r].alone)
      BY <1>2, <2>1, <2>2, <2>3
    <3> QED BY <2>1, <2>2, <3>1 DEF Torn
  <2>7. Position'
    <3>1. ASSUME NEW k \in 1..checkpoint.consumed PROVE Passed(k)'
      <4>1. k \in DOMAIN file /\ Passed(k)
        BY <1>3, Bounds DEF IInv, Position
      <4>2. CASE k # n
        <5>1. file'[k] = file[k]
          BY <2>1, <4>1, <4>2
        <5> QED BY <1>1, <1>2, <4>1, <5>1, PassedStays DEF IInv
      <4>3. CASE k = n
        <5>1. Told(id)'
          BY <2>3 DEF Told
        <5>2. \A r \in file[n].recs : Told(r)'
          BY <1>4, <2>2, <4>1, <4>3 DEF Passed
        <5>3. \A r \in file'[k].recs : Told(r)'
          BY <2>1, <4>3, <5>1, <5>2
        <5> QED BY <2>1, <4>3, <5>3 DEF Passed
      <4> QED BY <4>2, <4>3
    <3> QED BY <1>1, <1>3, <2>1, <3>1, Bounds DEF IInv, Position
  <2>8. Acknowledged'
    <3>1. ASSUME NEW r \in DOMAIN records, records[r].acked, records[r].alone, Waits(r) PROVE Waits(r)'
      <4>1. PICK k \in DOMAIN file : k > checkpoint.consumed /\ file[k].ok /\ r \in file[k].recs
        BY <3>1 DEF Waits
      <4>2. file'[k] = file[k]
        BY <2>1, <2>2, <3>1, <4>1
      <4> QED BY <1>1, <2>1, <4>1, <4>2 DEF Waits
    <3> QED BY <1>2, <1>4, <2>3, <3>1 DEF IInv, Acknowledged
  <2> QED BY <2>4, <2>5, <2>6, <2>7, <2>8 DEF IInv
\* It begins a line of its own.
<1>10. CASE OwnLine(id, extent # "part") /\ openTail' = (extent # "whole")
  <2> DEFINE n == Len(file) + 1
  <2>1. /\ ~openTail /\ file' \in Seq(Line) /\ Len(file') = n /\ DOMAIN file' = DOMAIN file \cup {n}
        /\ file'[n].recs = {id} /\ file'[n].ok = (extent # "part")
        /\ \A k \in DOMAIN file : file'[k] = file[k]
    BY <1>10 DEF OwnLine
  <2>2. Typed'
    <3>1. checkpoint'.consumed <= Len(file')
      BY <1>3, <1>6, <2>1, Bounds DEF IInv
    <3> QED BY <1>6, <2>1, <3>1 DEF Typed
  <2>3. Referring'
    <3>1. \A k \in DOMAIN file' : file'[k].recs \subseteq DOMAIN records'
      BY <1>2, <2>1 DEF IInv, Referring
    <3>2. \A k \in DOMAIN file' : file'[k].ok => \E r \in DOMAIN records' : file'[k].recs = {r}
      BY <1>2, <2>1 DEF IInv, Referring
    <3> QED BY <1>5, <1>7, <3>1, <3>2 DEF Referring
  <2>4. Torn'
    <3>1. openTail' => ~acked
      BY <1>10
    <3> QED BY <1>2, <2>1, <3>1, Bounds DEF IInv, Torn
  <2>5. Position'
    <3>1. ASSUME NEW k \in 1..checkpoint.consumed PROVE Passed(k)'
      <4>1. k \in DOMAIN file /\ Passed(k)
        BY <1>3, Bounds DEF IInv, Position
      <4>2. file'[k] = file[k]
        BY <2>1, <4>1
      <4> QED BY <1>1, <1>2, <4>1, <4>2, PassedStays DEF IInv
    <3> QED BY <1>1, <1>3, <2>1, <3>1, Bounds DEF IInv, Position
  <2>6. Acknowledged'
    <3>1. ASSUME NEW r \in DOMAIN records, Waits(r) PROVE Waits(r)'
      <4>1. PICK k \in DOMAIN file : k > checkpoint.consumed /\ file[k].ok /\ r \in file[k].recs
        BY <3>1 DEF Waits
      <4> QED BY <1>1, <2>1, <4>1 DEF Waits
    <3>2. acked => Waits(id)'
      <4>1. acked => file'[n].ok /\ id \in file'[n].recs
        BY <2>1
      <4>2. n > checkpoint'.consumed /\ n \in DOMAIN file'
        BY <1>3, <1>6, <2>1, Bounds DEF IInv
      <4> HIDE DEF n
      <4> QED BY <4>1, <4>2 DEF Waits
    <3>3. ASSUME NEW r \in DOMAIN records', records'[r].acked, records'[r].alone PROVE Waits(r)' \/ Settled(r)'
      <4>1. CASE r = id
        BY <1>2, <3>2, <3>3, <4>1
      <4>2. CASE r \in DOMAIN records
        <5>1. records[r].acked /\ records[r].alone
          BY <1>2, <3>3, <4>2
        <5> QED BY <1>4, <3>1, <4>2, <5>1 DEF IInv, Acknowledged
      <4> QED BY <1>2, <4>1, <4>2
    <3> QED BY <3>3 DEF Acknowledged
  <2> QED BY <2>2, <2>3, <2>4, <2>5, <2>6 DEF IInv
<1> QED BY <1>2, <1>8, <1>9, <1>10

LEMMA AcceptKept == ASSUME IInv, NEW k \in Keys, NEW replayable \in BOOLEAN, Accept(k, replayable) PROVE IInv'
BY WriteKept DEF Accept, Extents

LEMMA AcceptFailsKept == ASSUME IInv, NEW k \in Keys, NEW replayable \in BOOLEAN, AcceptFails(k, replayable) PROVE IInv'
<1>1. PICK extent \in Extents : Write(k, replayable, extent, FALSE)
  BY DEF AcceptFails
<1> QED BY <1>1, WriteKept

-----------------------------------------------------------------------------
(* The theorems.                                                           *)

LEMMA InitIInv == Init => IInv
<1> SUFFICES ASSUME Init PROVE IInv
  OBVIOUS
<1>1. Typed
  <2>1. << >> \in Seq(Line) /\ << >> \in Seq(Entry) /\ << >> \in Seq(Records)
    OBVIOUS
  <2>2. /\ checkpoint \in [consumed : Nat, highest : Nat] /\ checkpoint.consumed <= Len(file)
        /\ openTail \in BOOLEAN /\ at \in Nat /\ highest \in Nat
    <3>1. checkpoint = [consumed |-> 0, highest |-> 0] /\ Len(file) = 0
      BY DEF Init
    <3>2. checkpoint \in [consumed : Nat, highest : Nat] /\ checkpoint.consumed <= Len(file)
      BY <3>1
    <3>3. openTail \in BOOLEAN
      BY Zenon DEF Init
    <3>4. at \in Nat /\ highest \in Nat
      BY DEF Init
    <3> QED BY <3>2, <3>3, <3>4
  <2>4. evidence \subseteq (Records \X Reasons) /\ mode \in Healthy \cup {"down", "degraded"}
    BY DEF Init
  <2>3. Len(records) <= MaxRecords /\ crashes \in 0..MaxCrashes /\ halts \in 0..MaxHalts
    BY WriteSpoolAssumption DEF Init
  <2> QED BY <2>1, <2>2, <2>3, <2>4 DEF Init, Typed
<1>2. Referring /\ Torn /\ Position /\ Acknowledged
  BY DEF Init, Referring, Torn, Position, Acknowledged, Healthy
<1> QED BY <1>1, <1>2 DEF IInv

LEMMA StutterKept == ASSUME IInv, UNCHANGED vars PROVE IInv'
<1>1. Typed'
  BY DEF IInv, Typed, vars
<1>2. Referring' /\ Torn'
  BY DEF IInv, Referring, Torn, vars
<1>3. Position'
  <2>1. \A k \in DOMAIN file : Passed(k) => Passed(k)'
    BY PassedStays DEF IInv, vars
  <2> QED BY <2>1, Bounds DEF IInv, Typed, Position, vars
<1>4. Acknowledged'
  BY DEF IInv, Acknowledged, Waits, Settled, Committed, CommittedKeys, Refused, vars
<1> QED BY <1>1, <1>2, <1>3, <1>4 DEF IInv

\* Every call of the file system, every answer of the authority and every death
\* keeps the spool in order.
THEOREM StepKeepsIInv == IInv /\ [Next]_vars => IInv'
<1> SUFFICES ASSUME IInv, [Next]_vars PROVE IInv'
  OBVIOUS
<1>1. ASSUME NEW k \in Keys, NEW replayable \in BOOLEAN, Accept(k, replayable) \/ AcceptFails(k, replayable) PROVE IInv'
  BY <1>1, AcceptKept, AcceptFailsKept
<1>2. CASE StartDegraded \/ StartHealthy \/ Close \/ Crash
  BY <1>2, StartStep
<1>3. CASE QuarantineUnreadable
  BY <1>3, QuarantineKept
<1>4. CASE Apply
  BY <1>4, ApplyKept
<1>5. CASE Refuse
  BY <1>5, RefuseKept
<1>6. CASE Consume
  BY <1>6, ConsumeKept
<1>7. CASE ReplayEnds \/ Halt
  BY <1>7, PassEnds
<1>8. CASE ResetCheckpoint
  BY <1>8, ResetKept
<1>9. CASE SwapFiles
  BY <1>9, SwapKept
<1>10. CASE UNCHANGED vars
  BY <1>10, StutterKept
<1> QED BY <1>1, <1>2, <1>3, <1>4, <1>5, <1>6, <1>7, <1>8, <1>9, <1>10 DEF Next, Recovering

THEOREM Invariance == Spec => []IInv
<1>1. Init => IInv
  BY InitIInv
<1>2. IInv /\ [Next]_vars => IInv'
  BY StepKeepsIInv
<1> QED BY <1>1, <1>2, PTL DEF Spec

\* The state of the spool has its shape: a readable line holds one record, and
\* neither the checkpoint nor a recovery runs ahead of the file.
THEOREM TypeCorrect == Spec => []TypeOK
<1>1. IInv => TypeOK
  <2> SUFFICES ASSUME IInv PROVE TypeOK
    OBVIOUS
  <2>1. \A k \in DOMAIN file : file[k].ok => Cardinality(file[k].recs) = 1
    <3>1. ASSUME NEW k \in DOMAIN file, file[k].ok PROVE Cardinality(file[k].recs) = 1
      <4>1. PICK r \in DOMAIN records : file[k].recs = {r}
        BY <3>1 DEF IInv, Referring
      <4> QED BY <4>1, FS_Singleton
    <3> QED BY <3>1
  <2>2. checkpoint.highest \in 0..MaxRecords /\ highest \in 0..MaxRecords /\ at \in 0..(Len(file) + 1)
        /\ checkpoint.consumed \in 0..Len(file)
    BY Bounds DEF IInv, Typed, Referring, Position
  <2>3. checkpoint \in [consumed : 0..Len(file), highest : 0..MaxRecords]
    BY <2>2 DEF IInv, Typed
  <2>4. records \in Seq([key : Keys, sequence : Records, replayable : BOOLEAN, acked : BOOLEAN, alone : BOOLEAN])
    BY DEF IInv, Typed, Entry
  <2>5. file \in Seq([recs : SUBSET Records, ok : BOOLEAN])
    BY DEF IInv, Typed, Line
  <2>6. /\ openTail \in BOOLEAN /\ evidence \subseteq (Records \X Reasons) /\ authority \in Seq(Records)
        /\ mode \in Healthy \cup {"down", "degraded"} /\ Len(records) <= MaxRecords
        /\ crashes \in 0..MaxCrashes /\ halts \in 0..MaxHalts
    BY DEF IInv, Typed
  <2> QED BY <2>1, <2>2, <2>3, <2>4, <2>5, <2>6 DEF TypeOK
<1> QED BY <1>1, Invariance, PTL

\* The acknowledgement: wherever the process dies, in an append or in any call
\* of a recovery, a write accept returned for whose line nothing torn began is
\* still offered to the authority, or the authority has it or has refused it.
THEOREM TheAckedAreKept == Spec => []AckedIsKept
<1>1. IInv => AckedIsKept
  <2> SUFFICES ASSUME IInv, NEW r \in DOMAIN records, records[r].acked, records[r].alone
               PROVE  r \in PendingReadable \/ Committed(r) \/ Refused(r)
    BY DEF AckedIsKept
  <2>1. Waits(r) => r \in PendingReadable
    BY DEF Waits, PendingReadable
  <2> QED BY <2>1 DEF IInv, Acknowledged, Settled
<1> QED BY <1>1, Invariance, PTL

\* No silence: what the checkpoint has passed over reached the authority, or is
\* in the quarantine's file with the reason.
THEOREM NothingIsSilent == Spec => []NothingRemovedSilently
<1>1. IInv => NothingRemovedSilently
  BY DEF IInv, Position, Passed, Told, NothingRemovedSilently
<1> QED BY <1>1, Invariance, PTL

-----------------------------------------------------------------------------
(* The queue.  Who waits in line, and what settles a record.               *)

\* Nothing else changes who waits.
LEMMA UnsettledFacts ==
  /\ \A r : r \in Unsettled <=> Waits(r) /\ ~Settled(r)
  /\ \A r : r \in Unsettled' <=> Waits(r)' /\ ~Settled(r)'
<1>1. \A r : r \in PendingReadable <=> Waits(r)
  BY DEF PendingReadable, Waits
<1>2. \A r : r \in PendingReadable' <=> Waits(r)'
  BY DEF PendingReadable, Waits
<1> QED BY <1>1, <1>2 DEF Unsettled

\* A recovery has dealt with all lines up to the checkpoint, so moving it
\* moves nobody out of the line, or back into it.
LEMMA QuietStep ==
  ASSUME IInv, IInv', UNCHANGED <<file, records, authority>>,
         \A r \in DOMAIN records : Refused(r)' <=> Refused(r)
  PROVE  UNCHANGED Promise!vars
<1>1. \A r \in DOMAIN records : Settled(r)' <=> Settled(r)
  BY DEF Settled, Committed, CommittedKeys
<1>2. \A k \in DOMAIN file : file[k].recs \subseteq DOMAIN records
  BY DEF IInv, Referring
<1>3. \A k \in DOMAIN file : \A r \in file[k].recs :
        file[k].ok /\ (k <= checkpoint.consumed \/ k <= checkpoint'.consumed) => Settled(r)
  <2> SUFFICES ASSUME NEW k \in DOMAIN file, NEW r \in file[k].recs, file[k].ok,
                      k <= checkpoint.consumed \/ k <= checkpoint'.consumed
               PROVE  Settled(r)
    OBVIOUS
  <2>1. checkpoint.consumed \in Nat /\ checkpoint'.consumed \in Nat /\ DOMAIN file = 1..Len(file) /\ Len(file) \in Nat
    BY DEF IInv, Typed
  <2>2. CASE k <= checkpoint.consumed
    <3>1. Passed(k)
      BY <2>1, <2>2 DEF IInv, Position
    <3> QED BY <3>1 DEF Passed
  <2>3. CASE k <= checkpoint'.consumed
    <3>1. Passed(k)'
      BY <2>1, <2>3 DEF IInv, Position
    <3> QED BY <1>1, <1>2, <3>1 DEF Passed
  <2> QED BY <2>2, <2>3
<1>4. ASSUME NEW r PROVE r \in Unsettled' <=> r \in Unsettled
  <2>1. Waits(r) /\ ~Settled(r) => Waits(r)' /\ ~Settled(r)'
    <3> SUFFICES ASSUME Waits(r), ~Settled(r) PROVE Waits(r)' /\ ~Settled(r)'
      OBVIOUS
    <3>1. PICK k \in DOMAIN file : k > checkpoint.consumed /\ file[k].ok /\ r \in file[k].recs
      BY DEF Waits
    <3>2. k > checkpoint'.consumed
      <4>1. ~(k <= checkpoint'.consumed)
        BY <1>3, <3>1
      <4>2. k \in Int /\ checkpoint'.consumed \in Int
        BY DEF IInv, Typed
      <4> QED BY <4>1, <4>2
    <3> QED BY <1>1, <1>2, <3>1, <3>2 DEF Waits
  <2>2. Waits(r)' /\ ~Settled(r)' => Waits(r) /\ ~Settled(r)
    <3> SUFFICES ASSUME Waits(r)', ~Settled(r)' PROVE Waits(r) /\ ~Settled(r)
      OBVIOUS
    <3>1. PICK k \in DOMAIN file : k > checkpoint'.consumed /\ file[k].ok /\ r \in file[k].recs
      BY DEF Waits
    <3>2. ~Settled(r)
      BY <1>1, <1>2, <3>1
    <3>3. k > checkpoint.consumed
      <4>1. ~(k <= checkpoint.consumed)
        BY <1>3, <3>1, <3>2
      <4>2. k \in Int /\ checkpoint.consumed \in Int
        BY DEF IInv, Typed
      <4> QED BY <4>1, <4>2
    <3> QED BY <3>1, <3>2, <3>3 DEF Waits
  <2> QED BY <2>1, <2>2, UnsettledFacts
<1>5. Unsettled' = Unsettled
  BY <1>4 DEF Unsettled
<1>6. Calls' = Calls /\ GivenUp' = GivenUp
  BY DEF Calls, GivenUp
<1> QED BY <1>5, <1>6 DEF Promise!vars

LEMMA SwapQuiet == ASSUME IInv, SwapFiles PROVE UNCHANGED Promise!vars
<1>1. UNCHANGED <<checkpoint, evidence, authority, records>>
  BY DEF SwapFiles
<1>2. checkpoint.consumed = 0 /\ at \in 0..Len(file) /\ (\A k \in 1..at : Passed(k)) /\ Len(file) \in Nat
      /\ DOMAIN file' = 1..(Len(file) - at) /\ (\A k \in 1..(Len(file) - at) : file'[k] = file[k + at])
      /\ DOMAIN file = 1..Len(file)
  BY SwapFacts, Bounds DEF IInv
<1>3. \A r : Settled(r)' <=> Settled(r)
  BY <1>1 DEF Settled, Committed, CommittedKeys, Refused
<1>4. ASSUME NEW r PROVE r \in Unsettled' <=> r \in Unsettled
  <2>1. Waits(r) /\ ~Settled(r) => Waits(r)'
    <3> SUFFICES ASSUME Waits(r), ~Settled(r) PROVE Waits(r)'
      OBVIOUS
    <3>1. PICK k \in DOMAIN file : k > checkpoint.consumed /\ file[k].ok /\ r \in file[k].recs
      BY DEF Waits
    <3>2. ~(k \in 1..at)
      BY <1>2, <3>1 DEF Passed
    <3>3. k - at \in DOMAIN file' /\ k - at > 0 /\ file'[k - at] = file[k]
      BY <1>2, <3>2
    <3> QED BY <1>1, <1>2, <3>1, <3>3 DEF Waits
  <2>2. Waits(r)' => Waits(r)
    <3> SUFFICES ASSUME Waits(r)' PROVE Waits(r)
      OBVIOUS
    <3>1. PICK k \in DOMAIN file' : file'[k].ok /\ r \in file'[k].recs
      BY DEF Waits
    <3>2. k + at \in DOMAIN file /\ k + at > 0 /\ file[k + at] = file'[k]
      BY <1>2
    <3> QED BY <1>2, <3>1, <3>2 DEF Waits
  <2> QED BY <1>3, <2>1, <2>2, UnsettledFacts
<1>5. Unsettled' = Unsettled
  BY <1>4 DEF Unsettled
<1>6. Calls' = Calls /\ GivenUp' = GivenUp
  BY <1>1 DEF Calls, GivenUp, Refused
<1> QED BY <1>1, <1>5, <1>6 DEF Promise!vars

\* The line a recovery is at is the first that waits.
LEMMA FirstInLine ==
  ASSUME IInv, InLine, Offered, file[at].ok, NEW rec, file[at].recs = {rec}, ~Settled(rec)
  PROVE  Promise!First(rec)
<1>1. at \in DOMAIN file /\ at = checkpoint.consumed + 1
  BY RecordFacts
<1>2. Waits(rec)
  BY <1>1, Bounds DEF Waits, IInv
<1>3. rec \in DOMAIN records
  BY <1>1 DEF IInv, Referring
<1>4. ASSUME NEW r \in Unsettled PROVE rec <= r
  <2>1. PICK k \in DOMAIN file : k > checkpoint.consumed /\ file[k].ok /\ r \in file[k].recs
    BY <1>4, UnsettledFacts DEF Waits
  <2>2. r \in DOMAIN records
    BY <2>1 DEF IInv, Referring
  <2>3. k = at \/ at < k
    BY <1>1, <2>1, Bounds DEF IInv
  <2>4. r = rec \/ rec < r
    BY <1>1, <2>1, <2>3 DEF InLine
  <2> QED BY <1>3, <2>2, <2>4, Bounds DEF IInv
<1> QED BY <1>2, <1>4, UnsettledFacts DEF Promise!First

\* What the queue calls a committed key is one.
LEMMA SameKeys == ASSUME Referring PROVE Promise!CommittedKeys = CommittedKeys
<1>1. \A k \in DOMAIN authority : Calls[authority[k]].key = records[authority[k]].key
  BY DEF Referring, Calls
<1> QED BY <1>1 DEF Promise!CommittedKeys, CommittedKeys

\* A call is what accept was called with, and whether it returned.
LEMMA CallFacts ==
  \A r \in DOMAIN records :
    /\ Calls[r].key = records[r].key /\ (Calls[r].replayable = records[r].replayable)
    /\ (Calls[r].acked = records[r].acked)
BY DEF Calls

\* The authority takes the first of the line, and with it all of its key; or it
\* knew the key, and the record waited no more.
LEMMA ApplyTakes ==
  ASSUME IInv, IInv', InLine, Apply
  PROVE  UNCHANGED Promise!vars \/ \E record \in Unsettled : Promise!Commits(record)
<1>1. /\ Offered /\ file[at].ok /\ records[Record].replayable
      /\ authority' = IF records[Record].key \in CommittedKeys THEN authority ELSE Append(authority, Record)
      /\ UNCHANGED <<file, checkpoint, evidence, records>>
  BY DEF Apply
<1>2. CASE records[Record].key \in CommittedKeys
  <2>1. authority' = authority
    BY <1>1, <1>2
  <2> QED BY <1>1, <2>1, QuietStep DEF Refused
<1>3. CASE records[Record].key \notin CommittedKeys
  <2>1. PICK rec \in DOMAIN records : Record = rec /\ file[at].recs = {rec} /\ rec \in Records
    BY <1>1, RecordFacts, Bounds DEF IInv
  <2>2. records[rec].replayable /\ authority' = Append(authority, rec) /\ records[rec].key \notin CommittedKeys
    BY <1>1, <1>3, <2>1
  <2>3. rec \in Records /\ <<rec, "unreplayable">> \notin evidence
    BY <2>1, <2>2 DEF InLine
  <2>4. ~Settled(rec)
    BY <2>2, <2>3 DEF Settled, Refused, Committed
  <2>5. Promise!First(rec)
    BY <1>1, <2>1, <2>4, FirstInLine
  <2>6. CommittedKeys' = CommittedKeys \cup {records[rec].key}
    <3>1. authority \in Seq(Records)
      BY DEF IInv, Typed
    <3>2. /\ DOMAIN authority' = 1..(Len(authority) + 1) /\ authority'[Len(authority) + 1] = rec
          /\ \A i \in 1..Len(authority) : authority'[i] = authority[i]
          /\ DOMAIN authority = 1..Len(authority) /\ Len(authority) \in Nat
      BY <2>1, <2>2, <3>1, AppendProperties
    <3>3. \A i \in DOMAIN authority' : i \in DOMAIN authority \/ i = Len(authority) + 1
      BY <3>2
    <3>4. Len(authority) + 1 \in DOMAIN authority' /\ \A i \in DOMAIN authority : i \in DOMAIN authority' /\ authority'[i] = authority[i]
      BY <3>2
    <3>5. ASSUME NEW key, key \in CommittedKeys' PROVE key \in CommittedKeys \/ key = records[rec].key
      <4>1. PICK i \in DOMAIN authority' : key = records[authority'[i]].key
        BY <1>1, <3>5 DEF CommittedKeys
      <4>2. CASE i \in DOMAIN authority
        BY <3>4, <4>1, <4>2 DEF CommittedKeys
      <4>3. CASE i = Len(authority) + 1
        BY <3>2, <4>1, <4>3
      <4> QED BY <3>3, <4>2, <4>3
    <3>6. ASSUME NEW key \in CommittedKeys PROVE key \in CommittedKeys'
      <4>1. PICK i \in DOMAIN authority : key = records[authority[i]].key
        BY <3>6 DEF CommittedKeys
      <4> QED BY <1>1, <3>4, <4>1 DEF CommittedKeys
    <3>7. records[rec].key \in CommittedKeys'
      BY <1>1, <3>2, <3>4 DEF CommittedKeys
    <3> QED BY <3>5, <3>6, <3>7
  <2>7. \A r : Waits(r)' <=> Waits(r)
    BY <1>1 DEF Waits
  <2>8. \A r : Settled(r)' <=> Settled(r) \/ (records[r].replayable /\ records[r].key = records[rec].key)
    BY <1>1, <2>6 DEF Settled, Refused, Committed
  <2>9. \A r \in Unsettled : r \in DOMAIN records
    BY UnsettledFacts DEF Waits, IInv, Referring
  <2>10. Unsettled' = {r \in Unsettled : ~Calls[r].replayable \/ Calls[r].key # Calls[rec].key}
    <3>1. ASSUME NEW r
          PROVE  r \in Unsettled' <=> r \in Unsettled /\ (~Calls[r].replayable \/ Calls[r].key # Calls[rec].key)
      <4>1. r \in Unsettled' <=> r \in Unsettled /\ ~(records[r].replayable /\ records[r].key = records[rec].key)
        BY <2>7, <2>8, UnsettledFacts
      <4> QED BY <2>1, <2>9, <4>1, CallFacts
    <3> QED BY <3>1
  <2>11. Calls' = Calls /\ GivenUp' = GivenUp
    BY <1>1 DEF Calls, GivenUp, Refused
  <2>12. Calls[rec].replayable
    BY <2>1, <2>2, CallFacts
  <2> QED BY <2>2, <2>5, <2>10, <2>11, <2>12 DEF Promise!Commits, Promise!First
<1> QED BY <1>2, <1>3

\* The authority refuses the first of the line, or has refused it before.
LEMMA RefuseTakes ==
  ASSUME IInv, IInv', InLine, Refuse
  PROVE  UNCHANGED Promise!vars \/ \E record \in Unsettled : Promise!Refuses(record)
<1>1. /\ Offered /\ file[at].ok /\ ~records[Record].replayable
      /\ evidence' = evidence \cup {<<Record, "unreplayable">>}
      /\ UNCHANGED <<file, checkpoint, authority, records>>
  BY DEF Refuse
<1>2. PICK rec \in DOMAIN records : Record = rec /\ file[at].recs = {rec} /\ rec \in Records
  BY <1>1, RecordFacts, Bounds DEF IInv
<1>3. \A r : Refused(r)' <=> Refused(r) \/ r = rec
  BY <1>1, <1>2 DEF Refused
<1>4. CASE Refused(rec)
  BY <1>1, <1>3, <1>4, QuietStep
<1>5. CASE ~Refused(rec)
  <2>1. ~Settled(rec)
    BY <1>1, <1>2, <1>5 DEF Settled
  <2>2. Promise!First(rec)
    BY <1>1, <1>2, <2>1, FirstInLine
  <2>3. \A r : (Waits(r)' <=> Waits(r)) /\ (Settled(r)' <=> Settled(r) \/ r = rec)
    BY <1>1, <1>3 DEF Waits, Settled, Committed, CommittedKeys
  <2>4. Unsettled' = Unsettled \ {rec}
    <3>1. ASSUME NEW r PROVE r \in Unsettled' <=> r \in Unsettled /\ r # rec
      BY <2>3, UnsettledFacts
    <3> QED BY <3>1
  <2>5. Calls' = Calls /\ GivenUp' = GivenUp \cup {rec}
    BY <1>1, <1>2, <1>3 DEF Calls, GivenUp
  <2>6. ~Calls[rec].replayable
    BY <1>1, <1>2, CallFacts
  <2> QED BY <1>1, <2>2, <2>4, <2>5, <2>6 DEF Promise!Refuses, Promise!First
<1> QED BY <1>4, <1>5

\* There are as many calls as records.
LEMMA CallsLength ==
  ASSUME Typed
  PROVE  Calls \in Seq([key : Keys, replayable : BOOLEAN, acked : BOOLEAN]) /\ Len(Calls) = Len(records)
<1> DEFINE Shape == [key : Keys, replayable : BOOLEAN, acked : BOOLEAN]
<1>1. \A r \in DOMAIN records : records[r] \in Entry
  BY DEF Typed
<1>2. \A r \in DOMAIN records : [key |-> records[r].key, replayable |-> records[r].replayable, acked |-> records[r].acked] \in Shape
  BY <1>1 DEF Entry
<1>3. Len(records) \in Nat /\ DOMAIN records = 1..Len(records)
  BY Bounds
<1>4. Calls \in [1..Len(records) -> Shape]
  BY <1>2, <1>3 DEF Calls
<1> HIDE DEF Shape
<1>5. Calls \in Seq(Shape) /\ Len(Calls) = Len(records)
  BY <1>3, <1>4
<1> QED BY <1>5 DEF Shape

\* What was called before looks as it did, and the new call is at the end.
LEMMA WriteCalls ==
  ASSUME IInv, InLine, NEW id \in Records, NEW key \in Keys, NEW replayable \in BOOLEAN, NEW extent, NEW acked \in BOOLEAN,
         Wrote(id, key, replayable, extent, acked), UNCHANGED <<checkpoint, evidence, authority>>
  PROVE  /\ Calls' = Append(Calls, [key |-> key, replayable |-> replayable, acked |-> acked]) /\ Len(Calls) + 1 = id
         /\ GivenUp' = GivenUp
         /\ \A r \in DOMAIN records : Settled(r)' <=> Settled(r)
         /\ Settled(id)' <=> replayable /\ key \in CommittedKeys
<1> DEFINE Shape == [key : Keys, replayable : BOOLEAN, acked : BOOLEAN]
           x == [key |-> key, replayable |-> replayable, acked |-> acked]
<1>1. /\ id = Len(records) + 1 /\ id \notin DOMAIN records /\ records' \in Seq(Entry) /\ Len(records') = id
      /\ DOMAIN records' = DOMAIN records \cup {id} /\ (\A r \in DOMAIN records : records'[r] = records[r])
      /\ records'[id].key = key /\ records'[id].replayable = replayable /\ records'[id].acked = acked
  BY DEF Wrote
<1>2. records \in Seq(Entry) /\ Len(records) \in Nat /\ DOMAIN records = 1..Len(records)
  BY Bounds DEF IInv, Typed
<1>3. Calls \in Seq(Shape) /\ Len(Calls) = Len(records)
  BY CallsLength DEF IInv
<1>4. Calls' \in Seq(Shape) /\ Len(Calls') = id
  <2>1. DOMAIN records' = 1..id /\ id \in Nat
    BY <1>1, <1>2
  <2>2. \A r \in 1..id : records'[r] \in Entry
    BY <1>1, <2>1
  <2>3. \A r \in 1..id : [key |-> records'[r].key, replayable |-> records'[r].replayable, acked |-> records'[r].acked] \in Shape
    BY <2>2 DEF Entry
  <2>4. Calls' \in [1..id -> Shape]
    BY <2>1, <2>3 DEF Calls
  <2> HIDE DEF Shape
  <2> QED BY <2>1, <2>4
<1>5. Calls' = Append(Calls, x)
  <2>1. x \in Shape
    OBVIOUS
  <2>2. \A r \in DOMAIN records : Calls'[r] = Calls[r]
    BY <1>1 DEF Calls
  <2>3. Calls'[id] = x
    BY <1>1 DEF Calls
  <2> HIDE DEF Shape, x
  <2>4. /\ Append(Calls, x) \in Seq(Shape) /\ Len(Append(Calls, x)) = Len(Calls) + 1 /\ Append(Calls, x)[Len(Calls) + 1] = x
        /\ \A i \in 1..Len(Calls) : Append(Calls, x)[i] = Calls[i]
    BY <1>3, <2>1, AppendProperties
  <2>5. Len(Append(Calls, x)) = Len(Calls')
    BY <1>1, <1>3, <1>4, <2>4
  <2>6. \A i \in 1..Len(Calls') : Calls'[i] = Append(Calls, x)[i]
    <3>1. \A i \in 1..Len(Calls') : i = id \/ i \in 1..Len(Calls)
      BY <1>1, <1>2, <1>3, <1>4
    <3> QED BY <1>1, <1>2, <1>3, <2>2, <2>3, <2>4, <3>1
  <2> QED BY <1>4, <2>4, <2>5, <2>6, SeqEqual
<1>6. ~Refused(id)'
  BY <1>1 DEF Refused, InLine
<1>7. GivenUp' = GivenUp
  BY <1>1, <1>6 DEF GivenUp, Refused
<1>8. CommittedKeys' = CommittedKeys
  BY <1>1 DEF CommittedKeys, IInv, Referring
<1>9. \A r \in DOMAIN records : Settled(r)' <=> Settled(r)
  BY <1>1, <1>8 DEF Settled, Refused, Committed
<1>10. Settled(id)' <=> replayable /\ key \in CommittedKeys
  BY <1>1, <1>6, <1>8 DEF Settled, Committed
<1> QED BY <1>1, <1>3, <1>5, <1>7, <1>9, <1>10

\* Where the bytes of a call end up decides who waits after it: the record joins
\* the end of the line, or is known already, or is lost, and with it perhaps the
\* torn one before it.
LEMMA WriteJoins ==
  ASSUME IInv, InLine, NEW key \in Keys, NEW replayable \in BOOLEAN, NEW extent \in Extents, NEW acked \in BOOLEAN,
         Write(key, replayable, extent, acked), acked => extent = "whole"
  PROVE  Promise!Accepts
<1>1. UNCHANGED <<checkpoint, evidence, authority>>
  BY DEF Write
<1>2. PICK id \in Records : Wrote(id, key, replayable, extent, acked)
  BY WriteFacts
<1>3. /\ id = Len(records) + 1 /\ id \notin DOMAIN records
      /\ \/ NoLine /\ ~acked
         \/ SameLine(id) /\ openTail' = (extent # "whole")
         \/ OwnLine(id, extent # "part") /\ openTail' = (extent # "whole")
  BY <1>2 DEF Wrote
<1> DEFINE x == [key |-> key, replayable |-> replayable, acked |-> acked]
<1>4. /\ Calls' = Append(Calls, x) /\ Len(Calls) + 1 = id /\ GivenUp' = GivenUp
      /\ (\A r \in DOMAIN records : Settled(r)' <=> Settled(r))
      /\ (Settled(id)' <=> replayable /\ key \in CommittedKeys)
  BY <1>1, <1>2, WriteCalls
<1>5. /\ x \in [key : Keys, replayable : BOOLEAN, acked : BOOLEAN]
      /\ x.key = key /\ (x.replayable = replayable) /\ (x.acked = acked)
  OBVIOUS
<1> HIDE DEF x
<1>6. \A k \in DOMAIN file : file[k].recs \subseteq DOMAIN records
  BY DEF IInv, Referring
<1>7. Promise!Keeps(x) \/ ((Promise!LastFailed \/ ~acked) /\ Promise!Loses)
  <2>1. CASE NoLine /\ ~acked
    <3>1. \A r : r \in Unsettled' <=> r \in Unsettled
      BY <1>1, <1>4, <1>6, <2>1, UnsettledFacts DEF Waits, NoLine
    <3>2. Unsettled' = Unsettled
      BY <3>1
    <3> QED BY <2>1, <3>2 DEF Promise!Loses
  <2>2. CASE SameLine(id)
    <3> DEFINE n == Len(file)
    <3>1. /\ openTail /\ n \in DOMAIN file /\ DOMAIN file' = DOMAIN file /\ file'[n].ok = FALSE
          /\ \A k \in DOMAIN file \ {n} : file'[k] = file[k]
      BY <2>2 DEF SameLine
    <3>2. Promise!LastFailed
      <4>1. records # << >> /\ ~records[Len(records)].acked /\ Len(records) \in DOMAIN records
        BY <3>1, Bounds DEF InLine, IInv
      <4>2. Len(Calls) = Len(records) /\ Len(records) \in DOMAIN Calls
        BY <1>3, <1>4, <4>1, Bounds, CallsLength DEF Calls, IInv
      <4>3. Calls # << >>
        BY <4>2
      <4> QED BY <4>1, <4>2, <4>3, CallFacts DEF Promise!LastFailed
    <3>3. \A r : r \in Unsettled' <=> r \in Unsettled /\ \E k \in DOMAIN file \ {n} : k > checkpoint.consumed /\ file[k].ok /\ r \in file[k].recs
      BY <1>1, <1>4, <1>6, <3>1, UnsettledFacts DEF Waits
    <3> HIDE DEF n
    <3>4. CASE \E q \in file[n].recs : q \in Unsettled /\ file[n].ok
      <4>1. PICK q \in file[n].recs : q \in Unsettled /\ file[n].ok
        BY <3>4
      <4>2. file[n].recs = {q} /\ q \in DOMAIN records
        BY <1>6, <3>1, <4>1 DEF IInv, Referring
      <4>3. ~records[q].acked
        BY <3>1, <4>1 DEF IInv, Torn, InLine, n
      <4>4. \A k \in DOMAIN file \ {n} : k < n
        BY Bounds DEF IInv, n
      <4>5. \A k \in DOMAIN file \ {n} : \A r \in file[k].recs : r < q /\ r \in DOMAIN records
        BY <1>6, <3>1, <4>1, <4>4 DEF InLine
      <4>6. \A r \in Unsettled : r = q \/ \E k \in DOMAIN file \ {n} : k > checkpoint.consumed /\ file[k].ok /\ r \in file[k].recs
        BY <4>2, UnsettledFacts DEF Waits
      <4>7. \A r \in Unsettled : r <= q
        BY <4>2, <4>5, <4>6, Bounds DEF IInv
      <4>8. \A k \in DOMAIN file \ {n} : q \notin file[k].recs
        BY <4>2, <4>5, Bounds DEF IInv
      <4>9. Unsettled' = Unsettled \ {q}
        BY <3>3, <4>6, <4>8
      <4>10. ~Calls[q].acked
        BY <4>2, <4>3, CallFacts
      <4> QED BY <3>2, <4>1, <4>7, <4>9, <4>10 DEF Promise!Loses
    <3>5. CASE ~\E q \in file[n].recs : q \in Unsettled /\ file[n].ok
      <4>1. \A r \in Unsettled : \E k \in DOMAIN file \ {n} : k > checkpoint.consumed /\ file[k].ok /\ r \in file[k].recs
        BY <3>5, UnsettledFacts DEF Waits
      <4>2. Unsettled' = Unsettled
        BY <3>3, <4>1
      <4> QED BY <3>2, <4>2 DEF Promise!Loses
    <3> QED BY <3>4, <3>5
  <2>3. CASE OwnLine(id, extent # "part") /\ openTail' = (extent # "whole")
    <3> DEFINE n == Len(file) + 1
    <3>1. /\ DOMAIN file' = DOMAIN file \cup {n} /\ file'[n].recs = {id} /\ file'[n].ok = (extent # "part")
          /\ \A k \in DOMAIN file : file'[k] = file[k]
      BY <2>3 DEF OwnLine
    <3>2. n > checkpoint'.consumed /\ n \notin DOMAIN file
      BY <1>1, Bounds DEF IInv, Typed
    <3> HIDE DEF n
    <3>3. id \notin Unsettled
      BY <1>3, <1>6, UnsettledFacts DEF Waits
    <3>4. \A r : Waits(r)' <=> Waits(r) \/ (r = id /\ extent # "part")
      BY <1>1, <3>1, <3>2 DEF Waits
    <3>5. \A r : Waits(r) => r \in DOMAIN records
      BY <1>6 DEF Waits
    <3>6. \A r : r \in Unsettled' <=> r \in Unsettled \/ (r = id /\ extent # "part" /\ ~(replayable /\ key \in CommittedKeys))
      BY <1>3, <1>4, <3>4, <3>5, UnsettledFacts
    <3>7. Promise!Known(x) <=> replayable /\ key \in CommittedKeys
      BY <1>5, SameKeys DEF IInv, Promise!Known
    <3>8. CASE extent = "part"
      <4>1. Unsettled' = Unsettled /\ ~acked
        BY <3>6, <3>8
      <4> QED BY <4>1 DEF Promise!Loses
    <3>9. CASE extent # "part" /\ Promise!Known(x)
      <4>1. Unsettled' = Unsettled
        BY <3>6, <3>7, <3>9
      <4> QED BY <3>9, <4>1 DEF Promise!Keeps
    <3>10. CASE extent # "part" /\ ~Promise!Known(x)
      <4>1. Unsettled' = Unsettled \cup {Len(Calls) + 1}
        BY <1>4, <3>6, <3>7, <3>10
      <4> QED BY <3>10, <4>1 DEF Promise!Keeps
    <3> QED BY <3>8, <3>9, <3>10
  <2> QED BY <1>3, <2>1, <2>2, <2>3
<1> QED BY <1>1, <1>4, <1>5, <1>7 DEF Promise!Accepts

-----------------------------------------------------------------------------
(* The lines stay in order.                                                *)

LEMMA WriteInLine ==
  ASSUME IInv, InLine, NEW key \in Keys, NEW replayable \in BOOLEAN, NEW extent \in Extents, NEW acked \in BOOLEAN,
         Write(key, replayable, extent, acked), acked => extent = "whole"
  PROVE  InLine'
<1>1. UNCHANGED evidence
  BY DEF Write
<1>2. PICK id \in Records : Wrote(id, key, replayable, extent, acked)
  BY WriteFacts
<1>3. /\ id = Len(records) + 1 /\ id \notin DOMAIN records /\ Len(records') = id /\ DOMAIN records' = DOMAIN records \cup {id}
      /\ (\A r \in DOMAIN records : records'[r] = records[r]) /\ records'[id].acked = acked
      /\ (records'[id].alone = ~openTail)
      /\ \/ NoLine /\ ~acked
         \/ SameLine(id) /\ openTail' = (extent # "whole")
         \/ OwnLine(id, extent # "part") /\ openTail' = (extent # "whole")
  BY <1>2 DEF Wrote
<1>4. (\A k \in DOMAIN file : file[k].recs \subseteq DOMAIN records) /\ (\A r \in DOMAIN records : r < id)
  BY <1>3, Bounds DEF IInv, Referring
<1>5. \A r \in Records : <<r, "unreplayable">> \in evidence' => r \in DOMAIN records' /\ ~records'[r].replayable
  BY <1>1, <1>3 DEF InLine
<1>6. openTail' => records' # << >> /\ ~records'[Len(records')].acked
  <2>1. id \in DOMAIN records'
    BY <1>3
  <2>2. records' # << >>
    BY <2>1
  <2>3. openTail' => ~acked
    BY <1>3 DEF NoLine
  <2> QED BY <1>3, <2>2, <2>3
<1>7. CASE NoLine
  BY <1>3, <1>4, <1>5, <1>6, <1>7 DEF InLine, NoLine
<1>8. CASE SameLine(id)
  <2> DEFINE n == Len(file)
  <2>1. /\ n \in DOMAIN file /\ DOMAIN file' = DOMAIN file
        /\ file'[n].recs = file[n].recs \cup {id} /\ file'[n].ok = FALSE
        /\ \A k \in DOMAIN file \ {n} : file'[k] = file[k]
    BY <1>8 DEF SameLine
  <2>2. \A k \in DOMAIN file : ~(n < k)
    BY Bounds DEF IInv
  <2> HIDE DEF n
  <2>3. ASSUME NEW j \in DOMAIN file', NEW k \in DOMAIN file', j < k, NEW r \in file'[j].recs, NEW q \in file'[k].recs
        PROVE  r < q
    <3>1. j # n /\ file'[j] = file[j] /\ j \in DOMAIN file /\ k \in DOMAIN file
      BY <2>1, <2>2, <2>3
    <3>2. q \in file[k].recs \/ q = id
      BY <2>1, <2>3
    <3> QED BY <1>4, <2>3, <3>1, <3>2 DEF InLine
  <2>4. ASSUME NEW k \in DOMAIN file', file'[k].ok, NEW r \in file'[k].recs PROVE records'[r].alone
    <3>1. k # n /\ file'[k] = file[k] /\ k \in DOMAIN file
      BY <2>1, <2>4
    <3> QED BY <1>3, <1>4, <2>4, <3>1 DEF InLine
  <2> QED BY <1>5, <1>6, <2>3, <2>4 DEF InLine
<1>9. CASE OwnLine(id, extent # "part")
  <2> DEFINE n == Len(file) + 1
  <2>1. /\ ~openTail /\ DOMAIN file' = DOMAIN file \cup {n} /\ file'[n].recs = {id}
        /\ \A k \in DOMAIN file : file'[k] = file[k]
    BY <1>9 DEF OwnLine
  <2>2. (\A k \in DOMAIN file : ~(n < k)) /\ ~(n < n) /\ n \notin DOMAIN file
    BY Bounds DEF IInv
  <2> HIDE DEF n
  <2>3. ASSUME NEW j \in DOMAIN file', NEW k \in DOMAIN file', j < k, NEW r \in file'[j].recs, NEW q \in file'[k].recs
        PROVE  r < q
    <3>1. j \in DOMAIN file /\ file'[j] = file[j]
      BY <2>1, <2>2, <2>3
    <3>2. CASE k \in DOMAIN file
      BY <2>1, <2>3, <3>1, <3>2 DEF InLine
    <3>3. CASE k = n
      BY <1>4, <2>1, <2>3, <3>1, <3>3
    <3> QED BY <2>1, <3>2, <3>3
  <2>4. ASSUME NEW k \in DOMAIN file', file'[k].ok, NEW r \in file'[k].recs PROVE records'[r].alone
    <3>1. CASE k \in DOMAIN file
      BY <1>3, <1>4, <2>1, <2>4, <3>1 DEF InLine
    <3>2. CASE k = n
      BY <1>3, <2>1, <2>4, <3>2
    <3> QED BY <2>1, <3>1, <3>2
  <2> QED BY <1>5, <1>6, <2>3, <2>4 DEF InLine
<1> QED BY <1>3, <1>7, <1>8, <1>9

LEMMA SwapInLine == ASSUME IInv, InLine, SwapFiles PROVE InLine'
<1>1. openTail' = FALSE /\ UNCHANGED <<evidence, records>>
  BY DEF SwapFiles
<1>2. /\ at \in 0..Len(file) /\ Len(file) \in Nat /\ DOMAIN file' = 1..(Len(file) - at) /\ DOMAIN file = 1..Len(file)
      /\ \A k \in 1..(Len(file) - at) : file'[k] = file[k + at]
  BY SwapFacts, Bounds DEF IInv
<1>3. \A k \in DOMAIN file' : k + at \in DOMAIN file /\ file'[k] = file[k + at]
  BY <1>2
<1>4. ASSUME NEW j \in DOMAIN file', NEW k \in DOMAIN file', j < k PROVE j + at < k + at
  BY <1>2, <1>4
<1> QED BY <1>1, <1>3, <1>4 DEF InLine

\* The steps that write no line refuse only what cannot be replayed.
LEMMA QuietInLine ==
  ASSUME IInv, InLine, UNCHANGED <<file, openTail, records>>,
         \A r \in Records : Refused(r)' => Refused(r) \/ (r \in DOMAIN records /\ ~records[r].replayable)
  PROVE  InLine'
BY DEF InLine, Refused

-----------------------------------------------------------------------------
(* The refinement.                                                         *)

Queued == IInv /\ InLine

QueueNext ==
  \/ Promise!Accepts
  \/ \E record \in Unsettled : Promise!Commits(record) \/ Promise!Refuses(record)
  \/ UNCHANGED Promise!vars

\* Every step is a step of the queue, or the queue does not see it.
LEMMA StepIsQueued == ASSUME Queued, [Next]_vars PROVE Queued' /\ QueueNext
<1>1. IInv /\ InLine /\ IInv'
  BY StepKeepsIInv DEF Queued
<1> SUFFICES InLine' /\ QueueNext
  BY <1>1 DEF Queued
<1>2. ASSUME NEW k \in Keys, NEW replayable \in BOOLEAN, Accept(k, replayable) PROVE InLine' /\ Promise!Accepts
  BY <1>1, <1>2, WriteInLine, WriteJoins DEF Accept, Extents
<1>3. ASSUME NEW k \in Keys, NEW replayable \in BOOLEAN, AcceptFails(k, replayable) PROVE InLine' /\ Promise!Accepts
  <2>1. PICK extent \in Extents : Write(k, replayable, extent, FALSE)
    BY <1>3 DEF AcceptFails
  <2> QED BY <1>1, <2>1, WriteInLine, WriteJoins
<1>4. CASE StartDegraded \/ StartHealthy \/ Close \/ Crash \/ Consume \/ ReplayEnds \/ Halt \/ ResetCheckpoint \/ UNCHANGED vars
  <2>1. UNCHANGED <<file, openTail, records, authority, evidence>>
    BY <1>4 DEF StartDegraded, StartHealthy, Close, Crash, Consume, ReplayEnds, Halt, ResetCheckpoint, vars
  <2>2. \A r : Refused(r)' <=> Refused(r)
    BY <2>1 DEF Refused
  <2> QED BY <1>1, <2>1, <2>2, QuietInLine, QuietStep DEF QueueNext
<1>5. CASE QuarantineUnreadable
  <2>1. UNCHANGED <<file, openTail, records, authority>> /\ evidence' = evidence \cup (file[at].recs \X {"unreadable"})
    BY <1>5 DEF QuarantineUnreadable
  <2>2. \A r : Refused(r)' <=> Refused(r)
    BY <2>1 DEF Refused
  <2> QED BY <1>1, <2>1, <2>2, QuietInLine, QuietStep DEF QueueNext
<1>6. CASE Apply
  <2>1. UNCHANGED <<file, openTail, records, evidence>>
    BY <1>6 DEF Apply
  <2>2. \A r : Refused(r)' <=> Refused(r)
    BY <2>1 DEF Refused
  <2>3. InLine'
    BY <1>1, <2>1, <2>2, QuietInLine
  <2> QED BY <1>1, <1>6, <2>3, ApplyTakes DEF QueueNext
<1>7. CASE Refuse
  <2>1. /\ UNCHANGED <<file, openTail, records>> /\ evidence' = evidence \cup {<<Record, "unreplayable">>}
        /\ Offered /\ file[at].ok /\ ~records[Record].replayable
    BY <1>7 DEF Refuse
  <2>2. Record \in DOMAIN records
    BY <1>1, <2>1, RecordFacts
  <2>3. \A r \in Records : Refused(r)' => Refused(r) \/ (r \in DOMAIN records /\ ~records[r].replayable)
    BY <2>1, <2>2 DEF Refused
  <2>4. InLine'
    BY <1>1, <2>1, <2>3, QuietInLine
  <2> QED BY <1>1, <1>7, <2>4, RefuseTakes DEF QueueNext
<1>8. CASE SwapFiles
  BY <1>1, <1>8, SwapInLine, SwapQuiet DEF QueueNext
<1> QED BY <1>2, <1>3, <1>4, <1>5, <1>6, <1>7, <1>8 DEF Next, Recovering, QueueNext

\* The spool is a queue: whatever the order of appends, deaths, passes and
\* compactions, every behaviour of it is one of DeferredWrites, where records wait
\* in line and are taken or refused once, the first of the line first.
THEOREM TheSpoolIsAQueue == Spec => LooksLikeAQueue
<1>1. Init => Queued /\ Promise!Init
  <2> SUFFICES ASSUME Init PROVE Queued /\ Promise!Init
    OBVIOUS
  <2>1. InLine
    BY DEF Init, InLine
  <2>2. file = << >> /\ records = << >> /\ authority = << >> /\ evidence = {}
    BY DEF Init
  <2>3. Unsettled = {} /\ GivenUp = {} /\ Calls = << >>
    <3>1. \A r : r \notin Unsettled
      BY <2>2, UnsettledFacts DEF Waits
    <3>2. GivenUp = {}
      BY <2>2 DEF GivenUp
    <3>3. Calls = << >>
      BY <2>2 DEF Calls
    <3> QED BY <3>1, <3>2, <3>3
  <2> QED BY <2>1, <2>2, <2>3, InitIInv DEF Queued, Promise!Init
<1>2. Queued /\ [Next]_vars => Queued' /\ [Promise!Next]_(Promise!vars)
  BY StepIsQueued DEF QueueNext, Promise!Next
<1> QED BY <1>1, <1>2, PTL DEF Spec, LooksLikeAQueue, Promise!Spec

=============================================================================
