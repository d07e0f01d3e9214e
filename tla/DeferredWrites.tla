--------------------------- MODULE DeferredWrites ---------------------------
(***************************************************************************)
(* What the write spool promises its callers and the authority, without    *)
(* files, checkpoints or processes: a queue that remembers what it accepts *)
(* and settles its records in order, each once.  A record is the number of *)
(* its call of accept, so the line of those that wait is a set of numbers, *)
(* and the first of the line is the least.                                 *)
(*                                                                         *)
(* The one thing it cannot promise is what write-spool.ts does not keep    *)
(* either: a record accepted right after a write that failed part way may  *)
(* be lost together with it.                                              *)
(***************************************************************************)
EXTENDS Sequences, Naturals

CONSTANT Keys

VARIABLES
  records,      \* what accept was called with, and whether it returned
  pending,      \* the records still to be offered to the authority, least first
  committed,    \* the records the authority took, in order
  refused       \* the records it refused for good

vars == <<records, pending, committed, refused>>

Init == records = << >> /\ pending = {} /\ committed = << >> /\ refused = {}

-----------------------------------------------------------------------------
CommittedKeys == {records[committed[k]].key : k \in DOMAIN committed}

\* An intent the authority has already is answered by its idempotency key.
Known(record) == record.replayable /\ record.key \in CommittedKeys

Keeps(record) ==
  pending' = IF Known(record) THEN pending ELSE pending \cup {Len(records) + 1}

\* The record is lost, and with it perhaps the torn one before it.
Loses ==
  \/ pending' = pending
  \/ \E last \in pending :
       /\ \A r \in pending : r <= last
       /\ ~records[last].acked /\ pending' = pending \ {last}

LastFailed == records # << >> /\ ~records[Len(records)].acked

Accepts ==
  \E record \in [key : Keys, replayable : BOOLEAN, acked : BOOLEAN] :
    /\ records' = Append(records, record)
    /\ Keeps(record) \/ ((LastFailed \/ ~record.acked) /\ Loses)
    /\ UNCHANGED <<committed, refused>>

First(record) == record \in pending /\ \A r \in pending : record <= r

\* What else waits with its idempotency key is answered by it.
Commits(record) ==
  /\ First(record) /\ records[record].replayable
  /\ committed' = Append(committed, record)
  /\ pending' = {r \in pending : ~records[r].replayable \/ records[r].key # records[record].key}
  /\ UNCHANGED <<records, refused>>

Refuses(record) ==
  /\ First(record) /\ ~records[record].replayable
  /\ refused' = refused \cup {record} /\ pending' = pending \ {record}
  /\ UNCHANGED <<records, committed>>

Next == Accepts \/ \E record \in pending : Commits(record) \/ Refuses(record)

Spec == Init /\ [][Next]_vars
=============================================================================
