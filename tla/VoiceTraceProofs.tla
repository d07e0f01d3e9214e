-------------------------- MODULE VoiceTraceProofs --------------------------
(***************************************************************************)
(* Proofs about what the store knows of a spoken reply, for every set of   *)
(* utterances and replies, every number of chunks and of mishaps.          *)
(***************************************************************************)
EXTENDS VoiceTrace, TLAPS

-----------------------------------------------------------------------------
(* The inductive invariant, turn by turn.                                  *)

Speaking(t) == step[t] \in {"thinking", "playing"}

\* A turn that was not begun has left nothing anywhere.
Unborn(t) ==
  step[t] = "new" =>
    generation[t] = "none" /\ t \notin traced \cup aborted \cup committed /\ spoken[t] = 0

\* The chunk that plays is the last one handed over, and it was not heard yet.
Playing(t) ==
  /\ step[t] = "playing" => spoken[t] >= 1
  /\ \A i \in 1..MaxChunks :
       <<t, i>> \in played => i <= spoken[t] /\ (step[t] = "playing" => i # spoken[t])

\* Only what speaks can be aborted; what is committed is over.
Ordered(t) ==
  /\ t \in aborted => Speaking(t)
  /\ t \in committed => step[t] = "over"

\* In durableActive a reply that goes on has its trace, unless that ran out.
Runs(t) ==
  strict /\ Speaking(t) /\ t \notin aborted \cup expired => t \in traced /\ generation[t] = "running"

Written(c) == c \in segments /\ delivery[c] \in {"unheard", "failed", "interrupted"}

\* And unless it is marked as failed, every chunk that ended is recorded.
Recorded(t) ==
  strict /\ Speaking(t) /\ t \notin aborted \cup expired \cup failed =>
    \A i \in 1..spoken[t] : (step[t] = "playing" /\ i = spoken[t]) \/ Written(<<t, i>>)

\* While the store works, what the adapter knows is what the store calls alive,
\* and only replies that go on are known.
Tidy(t) ==
  mishaps = 0 =>
    /\ generation[t] \in Generating => t \in traced
    /\ t \in traced => generation[t] = "running" /\ Speaking(t) /\ t \notin aborted

TurnOK(t) == Unborn(t) /\ Playing(t) /\ Ordered(t) /\ Runs(t) /\ Recorded(t) /\ Tidy(t)

IInv ==
  /\ TypeOK /\ mishaps \in 0..MaxMishaps
  /\ \A t \in Turns : TurnOK(t)
  /\ HeardIsRemembered /\ CommittedIsRecorded

-----------------------------------------------------------------------------
(* What the operations that several actions share do.                      *)

\* terminalGeneration(): the traced and running turns among those given end, and
\* their traces are dropped; the others are left as they are.
LEMMA SettleEnds ==
  ASSUME TypeOK, NEW turns \in SUBSET Turns, NEW to \in Ended, Settle(turns, to)
  PROVE  /\ generation' \in [Turns -> {"none"} \cup Generating \cup Ended]
         /\ traced' \subseteq traced /\ declared' \subseteq declared
         /\ sources' \in [Turns -> SUBSET Utterances]
         /\ \A u \in Turns :
              IF u \in turns /\ u \in traced /\ generation[u] = "running"
              THEN generation'[u] = to /\ u \notin traced'
              ELSE generation'[u] = generation[u] /\ (u \in traced' <=> u \in traced)
<1> DEFINE done == Ending(turns)
<1>1. /\ generation' = [t \in Turns |-> IF t \in done THEN to ELSE generation[t]]
      /\ traced' = traced \ done /\ declared' = {c \in declared : c[1] \notin done}
      /\ sources' = [t \in Turns |-> IF t \in done THEN {} ELSE sources[t]]
  BY Zenon DEF Settle
<1>2. \A u \in Turns : u \in done <=> u \in turns /\ u \in traced /\ generation[u] = "running"
  BY DEF Ending
<1> HIDE DEF done
<1>3. generation' \in [Turns -> {"none"} \cup Generating \cup Ended]
  BY <1>1 DEF TypeOK
<1>4. sources' \in [Turns -> SUBSET Utterances]
  BY <1>1 DEF TypeOK
<1> QED BY <1>1, <1>2, <1>3, <1>4

\* An end forgets the sources of the turns with them; it makes none known.
LEMMA EndsEnds ==
  ASSUME TypeOK, NEW turns \in SUBSET Turns, NEW to \in Ended, Ends(turns, to)
  PROVE  Settle(turns, to) /\ known' \subseteq known
BY DEF Ends

\* A process that ends keeps what turns were committed, and no turn that goes on.
LEMMA DiesEnds ==
  ASSUME TypeOK, Dies
  PROVE  /\ up' = FALSE /\ known' = {} /\ traced' = {} /\ declared' = {} /\ floor' = {}
         /\ sources' \in [Turns -> SUBSET Utterances] /\ step' \in [Turns -> {"new", "thinking", "playing", "over"}]
         /\ failed' = {} /\ aborted' = {} /\ UNCHANGED <<said, spoken, committed>>
         /\ \A u \in Turns : step'[u] \in {"new", "over"} /\ (step'[u] = "new" <=> step[u] = "new")
BY DEF Dies, TypeOK

\* A mishap is counted.
LEMMA MishapsCount ==
  ASSUME mishaps \in 0..MaxMishaps, Unreported
  PROVE  mishaps' \in 0..MaxMishaps /\ mishaps' # 0
BY VoiceTraceAssumption DEF Unreported

-----------------------------------------------------------------------------
(* Type correctness.                                                       *)

StoreOK ==
  /\ newest \in Utterances \cup {None}
  /\ generation \in [Turns -> {"none"} \cup Generating \cup Ended]
  /\ segments \subseteq Chunks
  /\ delivery \in [Chunks -> {"none", "pending", "delivering", "unheard", "failed",
                              "interrupted", "unknownAfterCrash"}]
AdapterOK ==
  /\ known \subseteq Utterances /\ traced \subseteq Turns /\ declared \subseteq Chunks
  /\ sources \in [Turns -> SUBSET Utterances]
ControlOK ==
  /\ said \subseteq Utterances /\ floor \subseteq Utterances
  /\ aborted \subseteq Turns /\ failed \subseteq Turns /\ committed \subseteq Turns
  /\ played \subseteq Chunks
  /\ step \in [Turns -> {"new", "thinking", "playing", "over"}]
  /\ spoken \in [Turns -> 0..MaxChunks]
WorldOK == strict \in BOOLEAN /\ slow \in BOOLEAN /\ up \in BOOLEAN /\ expired \subseteq Turns

\* The type invariant, by the groups of variables that actions change together.
LEMMA TypesByGroup == TypeOK <=> StoreOK /\ AdapterOK /\ ControlOK /\ WorldOK
BY DEF TypeOK, StoreOK, AdapterOK, ControlOK, WorldOK

LEMMA UnchangedGroups ==
  ASSUME TypeOK
  PROVE  /\ UNCHANGED store => StoreOK'
         /\ UNCHANGED adapter => AdapterOK'
         /\ UNCHANGED control => ControlOK'
         /\ UNCHANGED <<world, up>> => WorldOK'
BY TypesByGroup DEF StoreOK, AdapterOK, ControlOK, WorldOK, store, adapter, control, world

\* Where an action leaves the controller: one turn moves, its sets stay sets of turns.
LEMMA GoToMoves ==
  ASSUME TypeOK, NEW t \in Turns, NEW place, GoTo(t, place)
  PROVE  /\ step'[t] = place /\ \A u \in Turns : u # t => step'[u] = step[u]
         /\ place \in {"new", "thinking", "playing", "over"} =>
              step' \in [Turns -> {"new", "thinking", "playing", "over"}]
BY DEF GoTo, TypeOK

\* The chunk that plays is a chunk.
LEMMA PlayingChunk ==
  ASSUME IInv, NEW t \in Turns, step[t] = "playing"
  PROVE  Chunk(t) \in Chunks /\ DeclaredOf(t) \subseteq Chunks /\ Chunk(t) \in DeclaredOf(t)
<1>1. spoken[t] \in 1..MaxChunks
  BY VoiceTraceAssumption DEF IInv, TypeOK, TurnOK, Playing
<1>2. Chunk(t) \in Chunks /\ Chunk(t)[1] = t
  BY <1>1 DEF Chunk, Chunks
<1> QED BY <1>2 DEF DeclaredOf, IInv, TypeOK

LEMMA SettlesMoves ==
  ASSUME IInv, NEW t \in Turns, NEW result, Settles(t, result)
  PROVE  /\ up /\ step[t] = "playing" /\ (t \in aborted => result # "played")
         /\ step'[t] = "thinking" /\ \A u \in Turns : u # t => step'[u] = step[u]
         /\ played' = IF result = "played" THEN played \cup {Chunk(t)} ELSE played
         /\ UNCHANGED <<newest, generation, known, traced, sources, said, floor, spoken, aborted, committed,
                        strict, slow, expired, up>>
         /\ WorldOK' /\ (failed' \subseteq Turns => ControlOK') /\ (declared' \subseteq Chunks => AdapterOK')
<1>1. TypeOK /\ StoreOK /\ AdapterOK /\ ControlOK /\ WorldOK
  BY TypesByGroup DEF IInv
<1>2. /\ up /\ step[t] = "playing" /\ (t \in aborted => result # "played") /\ GoTo(t, "thinking")
      /\ played' = IF result = "played" THEN played \cup {Chunk(t)} ELSE played
      /\ UNCHANGED <<newest, generation, known, traced, sources, said, floor, spoken, aborted, committed,
                     strict, slow, expired, up>>
  BY DEF Settles, world
<1>3. played' \subseteq Chunks
  BY <1>1, <1>2, PlayingChunk DEF ControlOK
<1> QED BY <1>1, <1>2, <1>3, GoToMoves DEF AdapterOK, ControlOK, WorldOK

LEMMA OverEnds ==
  ASSUME TypeOK, NEW t \in Turns, Over(t)
  PROVE  /\ step'[t] = "over" /\ \A u \in Turns : u # t => step'[u] = step[u]
         /\ step' \in [Turns -> {"new", "thinking", "playing", "over"}]
         /\ aborted' = aborted \ {t} /\ failed' = failed \ {t}
BY GoToMoves DEF Over

LEMMA StepKeepsTypes ==
  ASSUME IInv, Next
  PROVE  TypeOK' /\ mishaps' \in 0..MaxMishaps
<1>a. TypeOK /\ StoreOK /\ AdapterOK /\ ControlOK /\ WorldOK /\ mishaps \in 0..MaxMishaps
  BY TypesByGroup DEF IInv
<1>b. /\ UNCHANGED store => StoreOK'
      /\ UNCHANGED adapter => AdapterOK'
      /\ UNCHANGED control => ControlOK'
      /\ UNCHANGED <<world, up>> => WorldOK'
  BY <1>a, UnchangedGroups
<1>c. Unreported => mishaps' \in 0..MaxMishaps
  BY <1>a, MishapsCount
<1>d. Dies => AdapterOK' /\ (played' = played => ControlOK') /\ (UNCHANGED world => WorldOK')
  BY <1>a, DiesEnds DEF AdapterOK, ControlOK, WorldOK, world
<1>e. StoreOK' /\ AdapterOK' /\ ControlOK' /\ WorldOK' => TypeOK'
  BY DEF TypeOK, StoreOK, AdapterOK, ControlOK, WorldOK
<1>f. ASSUME NEW turns \in SUBSET Turns, NEW to \in Ended, Settle(turns, to), known' \subseteq known
      PROVE  AdapterOK' /\ (UNCHANGED <<newest, segments, delivery>> => StoreOK')
  BY <1>a, <1>f, SettleEnds DEF AdapterOK, StoreOK
<1>1. CASE Crash
  BY <1>1, <1>b, <1>c, <1>d, <1>e DEF Crash
<1>2. CASE Restart
  <2>1. StoreOK'
    BY <1>a, <1>2 DEF Restart, Classified, StoreOK
  <2>2. WorldOK'
    BY <1>a, <1>2 DEF Restart, WorldOK, world
  <2> QED BY <1>a, <1>b, <1>e, <1>2, <2>1, <2>2 DEF Restart
<1>3. CASE OthersAppend
  <2>1. StoreOK'
    BY <1>a, <1>3 DEF OthersAppend, StoreOK
  <2> QED BY <1>a, <1>b, <1>e, <1>3, <2>1 DEF OthersAppend
<1>4. CASE GroupIsDropped
  <2>1. ControlOK'
    BY <1>a, <1>4 DEF GroupIsDropped, ControlOK
  <2> QED BY <1>a, <1>b, <1>e, <1>4, <2>1 DEF GroupIsDropped
<1>5. CASE SessionEnds
  <2>1. AdapterOK' /\ StoreOK'
    BY <1>f, <1>5 DEF SessionEnds, beside, Ended, Active
  <2>2. ControlOK'
    BY <1>a, <1>5 DEF SessionEnds, beside, ControlOK, Active
  <2> QED BY <1>a, <1>b, <1>e, <1>5, <2>1, <2>2 DEF SessionEnds, beside
<1>6. ASSUME NEW u \in Utterances, Admit(u) PROVE TypeOK' /\ mishaps' \in 0..MaxMishaps
  <2>1. StoreOK' /\ AdapterOK' /\ ControlOK'
    BY <1>a, <1>6 DEF Admit, TakesUp, StoreOK, AdapterOK, ControlOK
  <2> QED BY <1>a, <1>b, <1>e, <1>6, <2>1 DEF Admit
<1>7. ASSUME NEW u \in Utterances, AdmitFails(u) PROVE TypeOK' /\ mishaps' \in 0..MaxMishaps
  <2>1. CASE strict
    BY <1>b, <1>c, <1>d, <1>e, <1>7, <2>1 DEF AdmitFails
  <2>2. CASE ~strict
    <3>1. ControlOK'
      BY <1>a, <1>7, <2>2 DEF AdmitFails, ControlOK
    <3> QED BY <1>a, <1>b, <1>c, <1>e, <1>7, <2>2, <3>1 DEF AdmitFails
  <2> QED BY <2>1, <2>2
<1>8. ASSUME NEW u \in Utterances, EventExpires(u) PROVE TypeOK' /\ mishaps' \in 0..MaxMishaps
  <2>1. AdapterOK'
    BY <1>a, <1>8 DEF EventExpires, AdapterOK
  <2> QED BY <1>a, <1>b, <1>e, <1>8, <2>1 DEF EventExpires
<1>9. ASSUME NEW t \in Turns, Begin(t) PROVE TypeOK' /\ mishaps' \in 0..MaxMishaps
  <2>1. StoreOK' /\ AdapterOK'
    BY <1>a, <1>9 DEF Begin, Takes, StoreOK, AdapterOK, ControlOK, Generating
  <2>2. ControlOK'
    BY <1>a, <1>9, GoToMoves DEF Begin, Takes, ControlOK
  <2> QED BY <1>a, <1>b, <1>e, <1>9, <2>1, <2>2 DEF Begin, Takes
<1>10. ASSUME NEW t \in Turns, BeginFails(t) PROVE TypeOK' /\ mishaps' \in 0..MaxMishaps
  <2>1. StoreOK' /\ AdapterOK' /\ mishaps' \in 0..MaxMishaps
    BY <1>a, <1>c, <1>10 DEF BeginFails, Takes, StoreOK, AdapterOK, Generating
  <2>2. ControlOK'
    BY <1>a, <1>10, GoToMoves DEF BeginFails, Takes, ControlOK
  <2> QED BY <1>a, <1>b, <1>e, <1>10, <2>1, <2>2 DEF BeginFails, Takes
<1>11. ASSUME NEW t \in Turns, ChunkStarts(t) PROVE TypeOK' /\ mishaps' \in 0..MaxMishaps
  <2>1. spoken' \in [Turns -> 0..MaxChunks]
    BY <1>a, <1>11, VoiceTraceAssumption DEF ChunkStarts, ControlOK
  <2>2. ControlOK'
    BY <1>a, <1>11, <2>1, GoToMoves DEF ChunkStarts, ControlOK
  <2> QED BY <1>a, <1>b, <1>e, <1>11, <2>2 DEF ChunkStarts
<1>12. ASSUME NEW t \in Turns, NEW result \in {"played", "failed", "stopped"}, ChunkEnds(t, result)
       PROVE  TypeOK' /\ mishaps' \in 0..MaxMishaps
  <2>1. Settles(t, result) /\ step[t] = "playing" /\ UNCHANGED <<newest, generation>>
    BY <1>12, SettlesMoves DEF ChunkEnds
  <2>2. StoreOK' /\ declared' \subseteq Chunks
    BY <1>a, <1>12, <2>1, PlayingChunk DEF ChunkEnds, StoreOK, AdapterOK, Outcome
  <2> QED BY <1>a, <1>e, <1>12, <2>1, <2>2, SettlesMoves DEF ChunkEnds, ControlOK
<1>13. ASSUME NEW t \in Turns, NEW result \in {"played", "failed", "stopped"}, RecordFails(t, result)
       PROVE  TypeOK' /\ mishaps' \in 0..MaxMishaps
  <2>1. Settles(t, result) /\ step[t] = "playing" /\ UNCHANGED <<newest, generation>>
    BY <1>13, SettlesMoves DEF RecordFails
  <2>2. StoreOK' /\ declared' \subseteq Chunks /\ failed' \subseteq Turns
    BY <1>a, <1>13, <2>1, PlayingChunk DEF RecordFails, StoreOK, AdapterOK, ControlOK
  <2> QED BY <1>a, <1>c, <1>e, <1>13, <2>1, <2>2, SettlesMoves DEF RecordFails
<1>g. ASSUME NEW t \in Turns, Over(t), committed' \subseteq Turns, UNCHANGED <<said, floor, spoken, played>>
      PROVE  ControlOK'
  BY <1>a, <1>g, OverEnds DEF ControlOK
<1>14. ASSUME NEW t \in Turns, Complete(t) PROVE TypeOK' /\ mishaps' \in 0..MaxMishaps
  <2>1. StoreOK' /\ AdapterOK'
    BY <1>a, <1>f, <1>14, EndsEnds DEF Complete, beside, Ended
  <2>2. ControlOK'
    BY <1>a, <1>g, <1>14 DEF Complete, beside, ControlOK
  <2> QED BY <1>a, <1>b, <1>e, <1>14, <2>1, <2>2 DEF Complete, beside
<1>15. ASSUME NEW t \in Turns, CompleteFails(t) PROVE TypeOK' /\ mishaps' \in 0..MaxMishaps
  <2>1. Unreported /\ UNCHANGED <<newest, segments, delivery, played, world>> /\ mishaps' \in 0..MaxMishaps
    BY <1>15, <1>c DEF CompleteFails
  <2>2. CASE strict /\ Ends({t}, "failed") /\ Over(t) /\ UNCHANGED <<said, floor, spoken, committed, up>>
    <3>1. StoreOK' /\ AdapterOK'
      BY <1>a, <1>f, <2>1, <2>2, EndsEnds DEF Ended
    <3>2. ControlOK'
      BY <1>a, <1>g, <2>1, <2>2 DEF ControlOK
    <3> QED BY <1>b, <1>e, <2>1, <2>2, <3>1, <3>2
  <2>3. CASE strict /\ generation' = [generation EXCEPT ![t] = "generated"] /\ Dies
    <3>1. StoreOK'
      BY <1>a, <2>1, <2>3 DEF StoreOK, Generating
    <3> QED BY <1>d, <1>e, <2>1, <2>3, <3>1
  <2>4. CASE /\ ~strict /\ Over(t) /\ committed' = committed \cup {t}
             /\ \E left \in {"running", "generated"} : generation' = [generation EXCEPT ![t] = left]
             /\ UNCHANGED <<adapter, said, floor, spoken, up>>
    <3>1. StoreOK'
      BY <1>a, <2>1, <2>4 DEF StoreOK, Generating
    <3>2. ControlOK'
      BY <1>a, <1>g, <2>1, <2>4 DEF ControlOK
    <3> QED BY <1>b, <1>e, <2>1, <2>4, <3>1, <3>2
  <2> QED BY <1>15, <2>2, <2>3, <2>4 DEF CompleteFails
<1>16. ASSUME NEW t \in Turns, ReplyFails(t) PROVE TypeOK' /\ mishaps' \in 0..MaxMishaps
  <2>1. StoreOK' /\ AdapterOK'
    BY <1>a, <1>f, <1>16, EndsEnds DEF ReplyFails, beside, Ended
  <2>2. ControlOK'
    BY <1>a, <1>g, <1>16 DEF ReplyFails, beside, ControlOK
  <2> QED BY <1>a, <1>b, <1>e, <1>16, <2>1, <2>2 DEF ReplyFails, beside
<1>17. ASSUME NEW t \in Turns, AbortedEnds(t) PROVE TypeOK' /\ mishaps' \in 0..MaxMishaps
  <2>1. StoreOK' /\ AdapterOK'
    BY <1>a, <1>b, <1>f, <1>17, EndsEnds DEF AbortedEnds, beside, Ended, store
  <2>2. ControlOK'
    BY <1>a, <1>g, <1>17 DEF AbortedEnds, beside, ControlOK
  <2> QED BY <1>a, <1>b, <1>e, <1>17, <2>1, <2>2 DEF AbortedEnds, beside
<1>18. ASSUME NEW t \in Turns, Cancel(t) PROVE TypeOK' /\ mishaps' \in 0..MaxMishaps
  <2>1. StoreOK' /\ AdapterOK'
    BY <1>a, <1>f, <1>18, EndsEnds DEF Cancel, beside, Ended
  <2>2. ControlOK'
    BY <1>a, <1>18 DEF Cancel, beside, ControlOK
  <2> QED BY <1>a, <1>b, <1>e, <1>18, <2>1, <2>2 DEF Cancel, beside
<1>19. ASSUME NEW t \in Turns, TraceExpires(t) PROVE TypeOK' /\ mishaps' \in 0..MaxMishaps
  <2>1. StoreOK' /\ AdapterOK'
    BY <1>a, <1>f, <1>19, EndsEnds DEF TraceExpires, Ended
  <2>2. WorldOK'
    BY <1>a, <1>19 DEF TraceExpires, WorldOK
  <2> QED BY <1>a, <1>b, <1>e, <1>19, <2>1, <2>2 DEF TraceExpires
<1>20. ASSUME NEW t \in Turns, EndIsLost(t) PROVE TypeOK' /\ mishaps' \in 0..MaxMishaps
  <2>1. CASE strict
    BY <1>b, <1>c, <1>d, <1>e, <1>20, <2>1 DEF EndIsLost
  <2>2. CASE ~strict
    <3>1. /\ ControlOK' \/ UNCHANGED control
          /\ WorldOK'
      <4>1. UNCHANGED <<store, adapter, said, floor, spoken, committed, played, strict, slow, up>>
        BY <1>20, <2>2 DEF EndIsLost
      <4>2. CASE step[t] = "thinking" /\ Over(t) /\ UNCHANGED expired
        BY <1>a, <1>g, <4>1, <4>2 DEF ControlOK, WorldOK
      <4>3. CASE t \in Active /\ aborted' = aborted \cup {t} /\ UNCHANGED <<step, failed, expired>>
        BY <1>a, <4>1, <4>3 DEF ControlOK, WorldOK
      <4>4. CASE expired' = expired \cup {t} /\ UNCHANGED <<step, aborted, failed>>
        BY <1>a, <4>1, <4>4 DEF ControlOK, WorldOK
      <4> QED BY <1>20, <2>2, <4>2, <4>3, <4>4 DEF EndIsLost
    <3> QED BY <1>b, <1>c, <1>e, <1>20, <2>2, <3>1 DEF EndIsLost
  <2> QED BY <2>1, <2>2
<1> QED BY <1>1, <1>2, <1>3, <1>4, <1>5, <1>6, <1>7, <1>8, <1>9, <1>10, <1>11, <1>12, <1>13, <1>14, <1>15,
           <1>16, <1>17, <1>18, <1>19, <1>20 DEF Next

-----------------------------------------------------------------------------
(* The turns.                                                              *)

\* The mishaps are counted up, so a step after which there was none had none before.
LEMMA MishapsGrow == ASSUME IInv, Next PROVE mishaps' = 0 => mishaps = 0
<1>1. Unreported => mishaps' # 0
  BY MishapsCount DEF IInv
<1>2. CASE UNCHANGED mishaps
  BY <1>2
<1>3. CASE Unreported
  BY <1>1, <1>3
<1> QED
  BY <1>2, <1>3 DEF Next, Crash, Restart, OthersAppend, GroupIsDropped, SessionEnds, Admit, AdmitFails, EventExpires,
      Begin, BeginFails, Takes, ChunkStarts, ChunkEnds, RecordFails, Complete, CompleteFails, ReplyFails, AbortedEnds,
      Cancel, TraceExpires, EndIsLost

\* A turn whose state a step leaves alone: the store may only know more of its chunks.
Still(u) ==
  /\ step'[u] = step[u] /\ generation'[u] = generation[u] /\ spoken'[u] = spoken[u]
  /\ u \in traced' <=> u \in traced
  /\ u \in aborted' <=> u \in aborted
  /\ u \in committed' <=> u \in committed
  /\ u \in failed => u \in failed'
  /\ u \in expired => u \in expired'
  /\ \A i \in 1..MaxChunks :
       /\ <<u, i>> \in played' => <<u, i>> \in played
       /\ Written(<<u, i>>) => Written(<<u, i>>)'

LEMMA StillKeepsTurn ==
  ASSUME IInv, NEW u \in Turns, Still(u), UNCHANGED strict, mishaps' = 0 => mishaps = 0
  PROVE  TurnOK(u)'
<1>a. TurnOK(u) /\ spoken[u] \in 0..MaxChunks /\ MaxChunks \in Nat
  BY VoiceTraceAssumption DEF IInv, TypeOK
<1>b. \A i \in 1..spoken[u] : i \in 1..MaxChunks
  BY <1>a
<1>1. Unborn(u)' /\ Playing(u)' /\ Ordered(u)' /\ Runs(u)' /\ Tidy(u)'
  BY <1>a DEF Still, TurnOK, Unborn, Playing, Ordered, Runs, Tidy, Speaking
<1>2. Recorded(u)'
  BY <1>a, <1>b DEF Still, TurnOK, Recorded, Speaking
<1> QED BY <1>1, <1>2 DEF TurnOK

\* The death of the process ends the turns it had.
LEMMA DiesKeepsTurns ==
  ASSUME IInv, Dies, mishaps' # 0, UNCHANGED <<strict, played>>,
         NEW u \in Turns, step[u] = "new" => generation'[u] = generation[u]
  PROVE  TurnOK(u)'
<1>a. TurnOK(u)
  BY DEF IInv
<1>b. /\ u \notin traced' /\ u \notin aborted' /\ step'[u] \in {"new", "over"} /\ (step'[u] = "new" <=> step[u] = "new")
      /\ spoken' = spoken /\ committed' = committed
  BY DiesEnds DEF IInv
<1>1. Unborn(u)' /\ Playing(u)' /\ Ordered(u)' /\ Runs(u)' /\ Tidy(u)' /\ Recorded(u)'
  BY <1>a, <1>b DEF TurnOK, Unborn, Playing, Ordered, Runs, Tidy, Recorded, Speaking
<1> QED BY <1>1 DEF TurnOK

\* A turn that is over, with nothing left of it in the store that looks alive, or
\* after a mishap.
LEMMA OverKeepsTurn ==
  ASSUME IInv, NEW t \in Turns, Over(t), UNCHANGED <<spoken, played>>,
         mishaps' = 0 => t \notin traced' /\ generation'[t] \notin Generating
  PROVE  TurnOK(t)'
<1>1. TurnOK(t) /\ step'[t] = "over" /\ t \notin aborted'
  BY OverEnds DEF IInv
<1> QED BY <1>1 DEF TurnOK, Unborn, Playing, Ordered, Runs, Tidy, Recorded, Speaking

\* A step of Next keeps the invariant of every turn.
LEMMA StepKeepsTurn ==
  ASSUME IInv, Next, NEW u \in Turns
  PROVE  TurnOK(u)'
<1>a. TypeOK /\ TurnOK(u) /\ (mishaps' = 0 => mishaps = 0) /\ (Unreported => mishaps' # 0)
  BY MishapsGrow, MishapsCount DEF IInv
<1>b. UNCHANGED strict /\ Still(u) => TurnOK(u)'
  BY <1>a, StillKeepsTurn
<1>c. Dies /\ mishaps' # 0 /\ UNCHANGED <<strict, played>> /\ (step[u] = "new" => generation'[u] = generation[u])
        => TurnOK(u)'
  BY DiesKeepsTurns
<1>d. /\ spoken[u] \in 0..MaxChunks /\ MaxChunks \in Nat
      /\ step[u] \in {"new", "thinking", "playing", "over"}
      /\ generation[u] \in {"none"} \cup Generating \cup Ended
  BY <1>a, VoiceTraceAssumption DEF TypeOK
<1>1. CASE Crash
  BY <1>1, <1>a, <1>c DEF Crash, store, world
<1>2. CASE Restart
  <2>1. \A c \in Chunks : Written(c) => Written(c)'
    BY <1>2, <1>a DEF Restart, Classified, Written, TypeOK
  <2>2. Still(u)
    BY <1>2, <2>1 DEF Restart, Still, adapter, control, world, Chunks
  <2> QED BY <1>2, <1>b, <2>2 DEF Restart, world
<1>3. CASE OthersAppend \/ GroupIsDropped
  BY <1>3, <1>b DEF OthersAppend, GroupIsDropped, Still, Written, store, adapter, control, world
<1>4. CASE SessionEnds
  <2>1. /\ aborted' = aborted \cup Active
        /\ Settle(Active \cup {t \in Turns : sources[t] \cap known # {}}, "cancelled")
        /\ UNCHANGED <<beside, step, failed, committed, world, mishaps>>
    BY <1>4 DEF SessionEnds
  <2>2. Active \cup {t \in Turns : sources[t] \cap known # {}} \in SUBSET Turns /\ "cancelled" \in Ended
    BY DEF Active, Ended
  <2>3. /\ u \in traced' => u \in traced
        /\ u \in traced' => u \notin Active \/ generation[u] # "running"
        /\ \/ generation'[u] = generation[u] /\ (u \in traced' <=> u \in traced)
           \/ u \in traced /\ generation[u] = "running" /\ generation'[u] = "cancelled" /\ u \notin traced'
    BY <1>a, <2>1, <2>2, SettleEnds
  <2>4. (u \in Active <=> Speaking(u) /\ u \notin aborted) /\ (u \in aborted' <=> u \in aborted \/ u \in Active)
    BY <2>1 DEF Active, Speaking
  <2>5. Unborn(u)' /\ Playing(u)' /\ Ordered(u)' /\ Runs(u)' /\ Recorded(u)' /\ Tidy(u)'
    BY <1>a, <2>1, <2>3, <2>4 DEF TurnOK, Unborn, Playing, Ordered, Runs, Recorded, Tidy, Speaking, Generating,
       beside, world
  <2> QED BY <2>5 DEF TurnOK
<1>5. ASSUME NEW v \in Utterances, Admit(v) \/ EventExpires(v) PROVE TurnOK(u)'
  BY <1>5, <1>b DEF Admit, EventExpires, Still, Written, store, control, world
<1>6. ASSUME NEW v \in Utterances, AdmitFails(v) PROVE TurnOK(u)'
  <2>1. CASE strict
    BY <1>6, <1>a, <1>c, <2>1 DEF AdmitFails, store, world
  <2>2. CASE ~strict
    BY <1>6, <1>b, <2>2 DEF AdmitFails, Still, Written, store, adapter, world
  <2> QED BY <2>1, <2>2
<1>7. ASSUME NEW t \in Turns, Begin(t) PROVE TurnOK(u)'
  <2>1. step[t] = "new" /\ step'[t] = "thinking" /\ \A v \in Turns : v # t => step'[v] = step[v]
    BY <1>7, <1>a, GoToMoves DEF Begin, Takes
  <2>2. /\ generation'[t] = "running" /\ \A v \in Turns : v # t => generation'[v] = generation[v]
        /\ traced' = traced \cup {t}
    BY <1>7, <1>a DEF Begin, TypeOK
  <2>3. UNCHANGED <<segments, delivery, spoken, aborted, failed, committed, played, strict, expired, mishaps>>
    BY <1>7 DEF Begin, Takes, world
  <2>4. CASE u = t
    BY <1>a, <1>d, <2>1, <2>2, <2>3, <2>4
       DEF TurnOK, Unborn, Playing, Ordered, Runs, Recorded, Tidy, Speaking, Generating
  <2>5. CASE u # t
    BY <1>b, <2>1, <2>2, <2>3, <2>5 DEF Still, Written
  <2> QED BY <2>4, <2>5
<1>8. ASSUME NEW t \in Turns, BeginFails(t) PROVE TurnOK(u)'
  <2>1. /\ step[t] = "new" /\ step'[t] = (IF strict THEN "over" ELSE "thinking")
        /\ \A v \in Turns : v # t => step'[v] = step[v]
    BY <1>8, <1>a, GoToMoves DEF BeginFails, Takes
  <2>2. /\ UNCHANGED generation \/ Unreported
        /\ \A v \in Turns : v # t => generation'[v] = generation[v]
    BY <1>8, <1>a DEF BeginFails, TypeOK
  <2>3. UNCHANGED <<traced, segments, delivery, spoken, aborted, failed, committed, played, strict, expired>>
    BY <1>8 DEF BeginFails, Takes, world
  <2>4. CASE u = t
    BY <1>a, <1>d, <2>1, <2>2, <2>3, <2>4
       DEF TurnOK, Unborn, Playing, Ordered, Runs, Recorded, Tidy, Speaking, Generating
  <2>5. CASE u # t
    BY <1>b, <2>1, <2>2, <2>3, <2>5 DEF Still, Written
  <2> QED BY <2>4, <2>5
<1>9. ASSUME NEW t \in Turns, ChunkStarts(t) PROVE TurnOK(u)'
  <2>1. /\ step[t] = "thinking" /\ spoken[t] < MaxChunks /\ step'[t] = "playing"
        /\ \A v \in Turns : v # t => step'[v] = step[v]
    BY <1>9, <1>a, GoToMoves DEF ChunkStarts
  <2>2. spoken'[t] = spoken[t] + 1 /\ \A v \in Turns : v # t => spoken'[v] = spoken[v]
    BY <1>9, <1>a DEF ChunkStarts, TypeOK
  <2>3. UNCHANGED <<generation, traced, segments, delivery, aborted, failed, committed, played, strict, expired, mishaps>>
    BY <1>9 DEF ChunkStarts, store, adapter, world
  <2>4. CASE u = t
    <3>1. Unborn(t)' /\ Ordered(t)' /\ Runs(t)' /\ Tidy(t)'
      BY <1>a, <1>d, <2>1, <2>2, <2>3, <2>4 DEF TurnOK, Unborn, Ordered, Runs, Tidy, Speaking
    <3>2. Playing(t)'
      BY <1>a, <1>d, <2>1, <2>2, <2>3, <2>4 DEF TurnOK, Playing
    <3>3. \A i \in 1..spoken'[t] : i \in 1..spoken[t] \/ i = spoken'[t]
      BY <1>d, <2>2, <2>4
    <3>4. Recorded(t)'
      BY <1>a, <2>1, <2>3, <2>4, <3>3 DEF TurnOK, Recorded, Speaking, Written
    <3> QED BY <2>4, <3>1, <3>2, <3>4 DEF TurnOK
  <2>5. CASE u # t
    BY <1>b, <2>1, <2>2, <2>3, <2>5 DEF Still, Written
  <2> QED BY <2>4, <2>5
<1>e. ASSUME NEW t \in Turns, NEW result, Settles(t, result),
             segments \subseteq segments', \A c \in Chunks : c # Chunk(t) => delivery'[c] = delivery[c],
             \/ failed' = failed /\ (t \in traced => Written(Chunk(t))')
             \/ mishaps' # 0 /\ failed \subseteq failed' /\ t \in traced /\ (strict => t \in failed'),
             failed \subseteq failed'
      PROVE  TurnOK(u)'
  <2>1. /\ step[t] = "playing" /\ step'[t] = "thinking" /\ \A v \in Turns : v # t => step'[v] = step[v]
        /\ played' = IF result = "played" THEN played \cup {Chunk(t)} ELSE played
        /\ UNCHANGED <<generation, traced, spoken, aborted, committed, strict, expired>>
    BY <1>e, SettlesMoves
  <2>2. \A v \in Turns : \A i \in 1..MaxChunks :
          <<v, i>> # Chunk(t) => /\ <<v, i>> \in played' => <<v, i>> \in played
                                 /\ Written(<<v, i>>) => Written(<<v, i>>)'
    BY <1>e, <2>1 DEF Written, Chunks
  <2>3. CASE u = t
    <3>1. Unborn(t)' /\ Ordered(t)' /\ Runs(t)' /\ Tidy(t)'
      BY <1>a, <2>1, <2>3 DEF TurnOK, Unborn, Ordered, Runs, Tidy, Speaking
    <3>2. Playing(t)'
      BY <1>a, <1>d, <2>1, <2>2, <2>3 DEF TurnOK, Playing, Chunk
    <3>3. ASSUME strict', Speaking(t)', t \notin (aborted \cup expired \cup failed)', NEW i \in 1..spoken'[t]
          PROVE  Written(<<t, i>>)'
      <4>1. t \in traced
        BY <1>a, <2>1, <2>3, <3>3 DEF TurnOK, Runs, Speaking
      <4>2. Written(Chunk(t))'
        BY <1>e, <2>1, <3>3, <4>1
      <4>3. i # spoken[t] => Written(<<t, i>>)
        BY <1>a, <1>e, <2>1, <2>3, <3>3 DEF TurnOK, Recorded, Speaking
      <4>4. i \in 1..MaxChunks /\ spoken' = spoken
        BY <1>d, <2>1, <2>3
      <4>5. i = spoken[t] => <<t, i>> = Chunk(t)'
        BY <4>4 DEF Chunk
      <4>6. i # spoken[t] => <<t, i>> # Chunk(t)
        BY DEF Chunk
      <4> QED BY <2>2, <4>2, <4>3, <4>4, <4>5, <4>6
    <3>4. Recorded(t)'
      BY <3>3, <2>1 DEF Recorded
    <3> QED BY <2>3, <3>1, <3>2, <3>4 DEF TurnOK
  <2>4. CASE u # t
    BY <1>b, <1>e, <2>1, <2>2, <2>4 DEF Still, Chunk
  <2> QED BY <2>3, <2>4
<1>10. ASSUME NEW t \in Turns, NEW result \in {"played", "failed", "stopped"}, ChunkEnds(t, result)
       PROVE  TurnOK(u)'
  <2>1. Settles(t, result) /\ failed' = failed /\ Chunk(t) \in Chunks /\ Chunk(t) \in DeclaredOf(t)
    BY <1>10, SettlesMoves, PlayingChunk DEF ChunkEnds
  <2>2. CASE t \in traced
    <3>1. segments' = segments \cup DeclaredOf(t) /\ delivery' = [delivery EXCEPT ![Chunk(t)] = Outcome(result)]
      BY <1>10, <2>2 DEF ChunkEnds
    <3>2. Chunk(t)' = Chunk(t)
      BY <2>1, SettlesMoves DEF Chunk
    <3>3. delivery'[Chunk(t)] = Outcome(result) /\ \A c \in Chunks : c # Chunk(t) => delivery'[c] = delivery[c]
      BY <1>a, <2>1, <3>1 DEF TypeOK
    <3>4. Written(Chunk(t))'
      BY <2>1, <3>1, <3>2, <3>3 DEF Written, Outcome
    <3> QED BY <1>e, <2>1, <3>1, <3>3, <3>4
  <2>3. CASE t \notin traced
    BY <1>10, <1>e, <2>1, <2>3 DEF ChunkEnds
  <2> QED BY <2>2, <2>3
<1>11. ASSUME NEW t \in Turns, NEW result \in {"played", "failed", "stopped"}, RecordFails(t, result)
       PROVE  TurnOK(u)'
  <2>1. Settles(t, result) /\ mishaps' # 0 /\ t \in traced /\ failed \subseteq failed' /\ (strict => t \in failed')
    BY <1>11, <1>a DEF RecordFails
  <2>2. segments \subseteq segments' /\ \A c \in Chunks : c # Chunk(t) => delivery'[c] = delivery[c]
    BY <1>11, <1>a DEF RecordFails, TypeOK
  <2> QED BY <1>e, <2>1, <2>2
<1>f. ASSUME NEW t \in Turns, Over(t), UNCHANGED <<segments, delivery, spoken, played, strict, expired>>,
             committed' \in {committed, committed \cup {t}},
             \A v \in Turns : v # t => generation'[v] = generation[v] /\ (v \in traced' <=> v \in traced),
             mishaps' = 0 => t \notin traced' /\ generation'[t] \notin Generating
      PROVE  TurnOK(u)'
  <2>1. CASE u = t
    BY <1>f, <2>1, OverKeepsTurn
  <2>2. CASE u # t
    BY <1>a, <1>b, <1>f, <2>2, OverEnds DEF Still, Written
  <2> QED BY <2>1, <2>2
<1>g. ASSUME NEW t \in Turns, NEW to \in Ended, Ends({t}, to)
      PROVE  /\ \A v \in Turns : v # t => generation'[v] = generation[v] /\ (v \in traced' <=> v \in traced)
             /\ mishaps' = 0 => t \notin traced' /\ generation'[t] \notin Generating
             /\ \/ generation'[t] = generation[t] /\ (t \in traced' <=> t \in traced)
                \/ t \in traced /\ generation[t] = "running" /\ generation'[t] = to /\ t \notin traced'
  <2>1. Settle({t}, to)
    BY <1>a, <1>g, EndsEnds
  <2>2. \A v \in Turns :
          IF v = t /\ v \in traced /\ generation[v] = "running"
          THEN generation'[v] = to /\ v \notin traced'
          ELSE generation'[v] = generation[v] /\ (v \in traced' <=> v \in traced)
    <3>1. \A v \in Turns :
            IF v \in {t} /\ v \in traced /\ generation[v] = "running"
            THEN generation'[v] = to /\ v \notin traced'
            ELSE generation'[v] = generation[v] /\ (v \in traced' <=> v \in traced)
      BY <1>a, <2>1, {t} \in SUBSET Turns, SettleEnds, Zenon
    <3> QED BY <3>1
  <2>3. Tidy(t)
    BY DEF IInv, TurnOK
  <2>4. to \notin Generating
    BY DEF Generating, Ended
  <2> QED BY <1>a, <2>2, <2>3, <2>4 DEF Tidy
<1>12. ASSUME NEW t \in Turns, Complete(t) \/ ReplyFails(t) PROVE TurnOK(u)'
  <2>1. \E to \in Ended : Ends({t}, to)
    BY <1>12 DEF Complete, ReplyFails, Ended
  <2> QED BY <1>12, <1>f, <1>g, <2>1 DEF Complete, ReplyFails, beside, world
<1>13. ASSUME NEW t \in Turns, CompleteFails(t) PROVE TurnOK(u)'
  <2>1. /\ step[t] = "thinking" /\ mishaps' # 0 /\ UNCHANGED <<segments, delivery, played, strict, expired>>
    BY <1>13, <1>a DEF CompleteFails, world
  <2>2. CASE strict /\ Ends({t}, "failed") /\ Over(t) /\ UNCHANGED <<said, floor, spoken, committed, up>>
    BY <1>f, <1>g, <2>1, <2>2 DEF Ended
  <2>3. CASE strict /\ generation' = [generation EXCEPT ![t] = "generated"] /\ Dies
    <3>1. step[u] = "new" => generation'[u] = generation[u]
      BY <1>a, <2>1, <2>3 DEF TypeOK
    <3> QED BY <1>c, <2>1, <2>3, <3>1
  <2>4. CASE /\ ~strict /\ Over(t) /\ committed' = committed \cup {t}
             /\ \E left \in {"running", "generated"} : generation' = [generation EXCEPT ![t] = left]
             /\ UNCHANGED <<adapter, said, floor, spoken, up>>
    <3>1. \A v \in Turns : v # t => generation'[v] = generation[v]
      BY <1>a, <2>4 DEF TypeOK
    <3> QED BY <1>f, <2>1, <2>4, <3>1 DEF adapter
  <2> QED BY <1>13, <2>2, <2>3, <2>4 DEF CompleteFails
<1>14. ASSUME NEW t \in Turns, AbortedEnds(t) PROVE TurnOK(u)'
  <2>1. CASE Ends({t}, "cancelled")
    BY <1>14, <1>f, <1>g, <2>1 DEF AbortedEnds, beside, world, Ended
  <2>2. CASE UNCHANGED <<generation, adapter>>
    <3>1. mishaps' = 0 => t \notin traced' /\ generation'[t] \notin Generating
      BY <1>14, <1>a, <2>2 DEF AbortedEnds, IInv, TurnOK, Tidy, adapter
    <3> QED BY <1>14, <1>f, <2>2, <3>1 DEF AbortedEnds, beside, adapter, world
  <2> QED BY <1>14, <2>1, <2>2 DEF AbortedEnds
<1>15. ASSUME NEW t \in Turns, Cancel(t) PROVE TurnOK(u)'
  <2>1. /\ t \in Active /\ aborted' = aborted \cup {t} /\ Ends({t}, "cancelled") /\ "cancelled" \in Ended
        /\ UNCHANGED <<segments, delivery, spoken, played, step, failed, committed, strict, expired, mishaps>>
    BY <1>15 DEF Cancel, beside, world, Ended
  <2>2. CASE u = t
    <3>1. Speaking(t)
      BY <2>1 DEF Active, Speaking
    <3> QED BY <1>a, <1>g, <2>1, <2>2, <3>1
            DEF TurnOK, Unborn, Playing, Ordered, Runs, Recorded, Tidy, Speaking, Generating
  <2>3. CASE u # t
    BY <1>b, <1>g, <2>1, <2>3 DEF Still, Written
  <2> QED BY <2>2, <2>3
<1>16. ASSUME NEW t \in Turns, TraceExpires(t) PROVE TurnOK(u)'
  <2>1. /\ expired' = expired \cup {t} /\ Ends({t}, "failed") /\ "failed" \in Ended
        /\ UNCHANGED <<segments, delivery, spoken, played, step, aborted, failed, committed, strict, mishaps>>
    BY <1>16 DEF TraceExpires, control, Ended
  <2>2. CASE u = t
    BY <1>a, <1>g, <2>1, <2>2 DEF TurnOK, Unborn, Playing, Ordered, Runs, Recorded, Tidy, Speaking, Generating
  <2>3. CASE u # t
    BY <1>b, <1>g, <2>1, <2>3 DEF Still, Written
  <2> QED BY <2>2, <2>3
<1>17. ASSUME NEW t \in Turns, EndIsLost(t) PROVE TurnOK(u)'
  <2>1. mishaps' # 0 /\ t \in traced
    BY <1>17, <1>a DEF EndIsLost
  <2>2. CASE strict
    BY <1>17, <1>c, <2>1, <2>2 DEF EndIsLost, store, world
  <2>3. CASE ~strict
    <3>1. UNCHANGED <<store, adapter, said, floor, spoken, committed, played, strict, slow, up>>
      BY <1>17, <2>3 DEF EndIsLost
    <3>2. CASE step[t] = "thinking" /\ Over(t) /\ UNCHANGED expired
      BY <1>f, <2>1, <3>1, <3>2 DEF store, adapter
    <3>3. CASE t \in Active /\ aborted' = aborted \cup {t} /\ UNCHANGED <<step, failed, expired>>
      BY <1>a, <2>1, <2>3, <3>1, <3>3
         DEF TurnOK, Unborn, Playing, Ordered, Runs, Recorded, Tidy, Speaking, Active, store, adapter
    <3>4. CASE expired' = expired \cup {t} /\ UNCHANGED <<step, aborted, failed>>
      BY <1>b, <3>1, <3>4 DEF Still, Written, store, adapter
    <3> QED BY <1>17, <2>3, <3>2, <3>3, <3>4 DEF EndIsLost
  <2> QED BY <2>2, <2>3
<1> QED BY <1>1, <1>2, <1>3, <1>4, <1>5, <1>6, <1>7, <1>8, <1>9, <1>10, <1>11, <1>12, <1>13, <1>14, <1>15,
           <1>16, <1>17 DEF Next

-----------------------------------------------------------------------------
(* What was heard.                                                         *)

\* Only the end of a chunk concerns what was heard; a restart flags what was in flight.
LEMMA PlaybackKinds ==
  ASSUME IInv, Next
  PROVE  /\ strict' = strict /\ expired \subseteq expired'
         /\ \/ UNCHANGED <<segments, played>> /\ delivery' \in {delivery, Classified(delivery)}
            \/ \E t \in Turns, result \in {"played", "failed", "stopped"} : ChunkEnds(t, result) \/ RecordFails(t, result)
<1>1. ASSUME NEW t \in Turns, NEW result \in {"played", "failed", "stopped"},
             ChunkEnds(t, result) \/ RecordFails(t, result)
      PROVE  strict' = strict /\ expired' = expired
  BY <1>1 DEF ChunkEnds, RecordFails, Settles, world
<1>2. CASE Crash \/ Restart \/ OthersAppend \/ GroupIsDropped \/ SessionEnds
  BY <1>2 DEF Crash, Restart, OthersAppend, GroupIsDropped, SessionEnds, store, control, world, beside
<1>3. ASSUME NEW u \in Utterances, Admit(u) \/ AdmitFails(u) \/ EventExpires(u)
      PROVE  strict' = strict /\ expired' = expired /\ UNCHANGED <<segments, played, delivery>>
  BY <1>3 DEF Admit, AdmitFails, EventExpires, store, control, world
<1>4. ASSUME NEW t \in Turns, Begin(t) \/ BeginFails(t) \/ ChunkStarts(t)
      PROVE  strict' = strict /\ expired' = expired /\ UNCHANGED <<segments, played, delivery>>
  BY <1>4 DEF Begin, BeginFails, Takes, ChunkStarts, store, world
<1>5. ASSUME NEW t \in Turns,
             Complete(t) \/ CompleteFails(t) \/ ReplyFails(t) \/ AbortedEnds(t) \/ Cancel(t)
      PROVE  strict' = strict /\ expired' = expired /\ UNCHANGED <<segments, played, delivery>>
  BY <1>5 DEF Complete, CompleteFails, ReplyFails, AbortedEnds, Cancel, beside, world
<1>6. ASSUME NEW t \in Turns, TraceExpires(t) \/ EndIsLost(t)
      PROVE  strict' = strict /\ expired \subseteq expired' /\ UNCHANGED <<segments, played, delivery>>
  BY <1>6 DEF TraceExpires, EndIsLost, store, control, world
<1> QED BY <1>1, <1>2, <1>3, <1>4, <1>5, <1>6 DEF Next

\* What the end of a chunk does to the store, by whether the adapter knows the turn
\* and whether a transaction fails.
LEMMA ChunkEffect ==
  ASSUME IInv, NEW t \in Turns, NEW result \in {"played", "failed", "stopped"},
         ChunkEnds(t, result) \/ RecordFails(t, result)
  PROVE  /\ step[t] = "playing" /\ (t \in aborted => result # "played")
         /\ Chunk(t) \in Chunks /\ Chunk(t)[1] = t /\ Chunk(t) \notin played
         /\ played' = IF result = "played" THEN played \cup {Chunk(t)} ELSE played
         /\ committed' = committed /\ segments \subseteq segments'
         /\ \A c \in Chunks : c # Chunk(t) => delivery'[c] = delivery[c]
         /\ \/ /\ t \in traced /\ Chunk(t) \in segments'
               /\ delivery'[Chunk(t)] = Outcome(result)
            \/ t \notin traced /\ UNCHANGED <<segments, delivery>>
            \/ mishaps' # 0 /\ delivery'[Chunk(t)] \in {delivery[Chunk(t)], "none", "pending", "delivering"}
<1>a. Settles(t, result) /\ TypeOK /\ mishaps \in 0..MaxMishaps /\ TurnOK(t) /\ step[t] = "playing"
  BY SettlesMoves DEF ChunkEnds, RecordFails, IInv
<1>b. Chunk(t) \in Chunks /\ Chunk(t) \in DeclaredOf(t) /\ Chunk(t)[1] = t
  BY <1>a, PlayingChunk DEF Chunk
<1>c. Chunk(t) \notin played
  <2>1. spoken[t] \in 1..MaxChunks
    BY <1>a, VoiceTraceAssumption DEF TypeOK, TurnOK, Playing
  <2> QED BY <1>a, <2>1 DEF TurnOK, Playing, Chunk
<1>1. CASE ChunkEnds(t, result) /\ t \in traced
  <2>1. segments' = segments \cup DeclaredOf(t) /\ delivery' = [delivery EXCEPT ![Chunk(t)] = Outcome(result)]
    BY <1>1 DEF ChunkEnds
  <2>2. delivery'[Chunk(t)] = Outcome(result) /\ \A c \in Chunks : c # Chunk(t) => delivery'[c] = delivery[c]
    BY <1>a, <1>b, <2>1 DEF TypeOK
  <2> QED BY <1>1, <1>a, <1>b, <1>c, <2>1, <2>2, SettlesMoves
<1>2. CASE ChunkEnds(t, result) /\ t \notin traced
  <2>1. UNCHANGED <<segments, delivery>>
    BY <1>2 DEF ChunkEnds
  <2> QED BY <1>2, <1>a, <1>b, <1>c, <2>1, SettlesMoves
<1>3. CASE RecordFails(t, result)
  <2>1. mishaps' # 0
    BY <1>a, <1>3, MishapsCount DEF RecordFails
  <2>2. segments \subseteq segments'
    BY <1>3 DEF RecordFails
  <2>3. delivery' = delivery
        \/ \E left \in {"none", "pending", "delivering"} : delivery' = [delivery EXCEPT ![Chunk(t)] = left]
    BY <1>3 DEF RecordFails
  <2>4. /\ delivery'[Chunk(t)] \in {delivery[Chunk(t)], "none", "pending", "delivering"}
        /\ \A c \in Chunks : c # Chunk(t) => delivery'[c] = delivery[c]
    BY <1>a, <1>b, <2>3 DEF TypeOK
  <2> QED BY <1>3, <1>a, <1>b, <1>c, <2>1, <2>2, <2>4, SettlesMoves
<1> QED BY <1>1, <1>2, <1>3

LEMMA StepKeepsHeard ==
  ASSUME IInv, Next
  PROVE  HeardIsRemembered'
<1>a. HeardIsRemembered /\ TypeOK /\ (mishaps' = 0 => mishaps = 0) /\ strict' = strict /\ expired \subseteq expired'
  BY MishapsGrow, PlaybackKinds DEF IInv
<1>1. CASE UNCHANGED <<segments, played>> /\ delivery' \in {delivery, Classified(delivery)}
  <2>1. \A c \in Chunks : delivery'[c] = "unheard" <=> delivery[c] = "unheard"
    BY <1>a, <1>1 DEF Classified, TypeOK
  <2>2. played \subseteq Chunks
    BY <1>a DEF TypeOK
  <2> QED BY <1>a, <1>1, <2>1, <2>2 DEF HeardIsRemembered
<1>2. ASSUME NEW t \in Turns, NEW result \in {"played", "failed", "stopped"},
             ChunkEnds(t, result) \/ RecordFails(t, result)
      PROVE  HeardIsRemembered'
  <2>e. /\ step[t] = "playing" /\ (t \in aborted => result # "played")
        /\ Chunk(t) \in Chunks /\ Chunk(t)[1] = t /\ Chunk(t) \notin played
        /\ played' = IF result = "played" THEN played \cup {Chunk(t)} ELSE played
        /\ segments \subseteq segments'
        /\ \A c \in Chunks : c # Chunk(t) => delivery'[c] = delivery[c]
        /\ \/ t \in traced /\ Chunk(t) \in segments' /\ delivery'[Chunk(t)] = Outcome(result)
           \/ t \notin traced /\ UNCHANGED <<segments, delivery>>
           \/ mishaps' # 0 /\ delivery'[Chunk(t)] \in {delivery[Chunk(t)], "none", "pending", "delivering"}
    BY <1>2, ChunkEffect
  <2>o. Outcome(result) = "unheard" <=> result = "played"
    BY DEF Outcome
  <2>1. ASSUME NEW c \in Chunks, delivery'[c] = "unheard" PROVE c \in played' /\ c \in segments'
    BY <1>a, <2>1, <2>e, <2>o DEF HeardIsRemembered
  <2>2. ASSUME strict', mishaps' = 0, NEW c \in played' PROVE delivery'[c] = "unheard" \/ c[1] \in expired'
    <3>1. CASE c = Chunk(t)
      <4>1. result = "played" /\ t \notin aborted
        BY <2>2, <2>e, <3>1
      <4>2. t \notin traced => t \in expired
        BY <1>a, <2>2, <2>e, <4>1 DEF IInv, TurnOK, Runs, Speaking
      <4> QED BY <1>a, <2>2, <2>e, <2>o, <3>1, <4>1, <4>2
    <3>2. CASE c # Chunk(t)
      <4>1. c \in played /\ c \in Chunks
        BY <1>a, <2>2, <2>e, <3>2 DEF TypeOK
      <4> QED BY <1>a, <2>2, <2>e, <3>2, <4>1 DEF HeardIsRemembered
    <3> QED BY <3>1, <3>2
  <2> QED BY <2>1, <2>2 DEF HeardIsRemembered
<1> QED BY <1>1, <1>2, PlaybackKinds

-----------------------------------------------------------------------------
(* What was committed.                                                     *)

\* Who commits: a reply that is complete; after a failure only without durableActive.
LEMMA WhoCommits ==
  ASSUME IInv, Next, strict
  PROVE  committed' = committed \/ \E t \in Turns : Complete(t)
<1>1. CASE Crash \/ Restart \/ OthersAppend \/ GroupIsDropped \/ SessionEnds
  BY <1>1 DEF Crash, Restart, OthersAppend, GroupIsDropped, SessionEnds, control, Dies
<1>2. ASSUME NEW u \in Utterances, Admit(u) \/ AdmitFails(u) \/ EventExpires(u) PROVE committed' = committed
  BY <1>2 DEF Admit, AdmitFails, EventExpires, control, Dies
<1>3. ASSUME NEW t \in Turns, Begin(t) \/ BeginFails(t) \/ ChunkStarts(t) PROVE committed' = committed
  BY <1>3 DEF Begin, BeginFails, Takes, ChunkStarts
<1>4. ASSUME NEW t \in Turns, NEW result, ChunkEnds(t, result) \/ RecordFails(t, result) PROVE committed' = committed
  BY <1>4 DEF ChunkEnds, RecordFails, Settles
<1>5. ASSUME NEW t \in Turns, CompleteFails(t) \/ ReplyFails(t) \/ AbortedEnds(t) \/ Cancel(t)
      PROVE  committed' = committed
  BY <1>5 DEF CompleteFails, ReplyFails, AbortedEnds, Cancel, Dies
<1>6. ASSUME NEW t \in Turns, TraceExpires(t) \/ EndIsLost(t) PROVE committed' = committed
  BY <1>6 DEF TraceExpires, EndIsLost, control, Dies
<1> QED BY <1>1, <1>2, <1>3, <1>4, <1>5, <1>6 DEF Next

\* A generation that is persisted stays so.
LEMMA PersistedIsFinal ==
  ASSUME IInv, Next, strict, NEW u \in Turns, u \in committed, generation[u] = "persisted"
  PROVE  generation'[u] = "persisted"
<1>a. TypeOK /\ step[u] = "over"
  BY DEF IInv, TurnOK, Ordered
<1>b. ASSUME NEW turns \in SUBSET Turns, NEW to \in Ended, Settle(turns, to) PROVE generation'[u] = "persisted"
  BY <1>a, <1>b, SettleEnds
<1>c. ASSUME NEW t \in Turns, NEW to \in Ended, Ends({t}, to) PROVE generation'[u] = "persisted"
  BY <1>a, <1>b, <1>c, EndsEnds
<1>1. CASE Crash \/ Restart \/ OthersAppend \/ GroupIsDropped
  BY <1>1 DEF Crash, Restart, OthersAppend, GroupIsDropped, store
<1>2. CASE SessionEnds
  <2>1. Active \cup {t \in Turns : sources[t] \cap known # {}} \in SUBSET Turns /\ "cancelled" \in Ended
    BY DEF Active, Ended
  <2> QED BY <1>2, <1>b, <2>1 DEF SessionEnds
<1>3. ASSUME NEW v \in Utterances, Admit(v) \/ AdmitFails(v) \/ EventExpires(v) PROVE generation' = generation
  BY <1>3 DEF Admit, AdmitFails, EventExpires, store
<1>4. ASSUME NEW t \in Turns, Begin(t) \/ BeginFails(t) PROVE generation'[u] = "persisted"
  <2>1. u # t
    BY <1>a, <1>4 DEF Begin, BeginFails, Takes
  <2> QED BY <1>a, <1>4, <2>1 DEF Begin, BeginFails, TypeOK
<1>5. ASSUME NEW t \in Turns, NEW result, ChunkStarts(t) \/ ChunkEnds(t, result) \/ RecordFails(t, result)
      PROVE  generation' = generation
  BY <1>5 DEF ChunkStarts, ChunkEnds, RecordFails, Settles, store
<1>6. ASSUME NEW t \in Turns, Complete(t) \/ ReplyFails(t) \/ Cancel(t) \/ TraceExpires(t)
      PROVE  generation'[u] = "persisted"
  BY <1>6, <1>c DEF Complete, ReplyFails, Cancel, TraceExpires, Ended
<1>7. ASSUME NEW t \in Turns, CompleteFails(t) PROVE generation'[u] = "persisted"
  <2>1. u # t
    BY <1>a, <1>7 DEF CompleteFails
  <2>2. Ends({t}, "failed") \/ \E left : generation' = [generation EXCEPT ![t] = left]
    BY <1>7 DEF CompleteFails
  <2> QED BY <1>a, <1>c, <2>1, <2>2 DEF TypeOK, Ended
<1>8. ASSUME NEW t \in Turns, AbortedEnds(t) PROVE generation'[u] = "persisted"
  BY <1>8, <1>c DEF AbortedEnds, Ended
<1>9. ASSUME NEW t \in Turns, EndIsLost(t) PROVE generation' = generation
  BY <1>9 DEF EndIsLost, store
<1> QED BY <1>1, <1>2, <1>3, <1>4, <1>5, <1>6, <1>7, <1>8, <1>9 DEF Next

\* Only a reply that goes on hands another chunk to playback.
LEMMA OverSaysNothing ==
  ASSUME IInv, Next, NEW u \in Turns, step[u] = "over"
  PROVE  spoken'[u] = spoken[u]
<1>1. CASE Crash \/ Restart \/ OthersAppend \/ GroupIsDropped \/ SessionEnds
  BY <1>1 DEF Crash, Restart, OthersAppend, GroupIsDropped, SessionEnds, control, Dies, beside
<1>2. ASSUME NEW v \in Utterances, Admit(v) \/ AdmitFails(v) \/ EventExpires(v) PROVE spoken' = spoken
  BY <1>2 DEF Admit, AdmitFails, EventExpires, control, Dies
<1>3. ASSUME NEW t \in Turns, Begin(t) \/ BeginFails(t) PROVE spoken' = spoken
  BY <1>3 DEF Begin, BeginFails, Takes
<1>4. ASSUME NEW t \in Turns, ChunkStarts(t) PROVE spoken'[u] = spoken[u]
  BY <1>4 DEF ChunkStarts, IInv, TypeOK
<1>5. ASSUME NEW t \in Turns, NEW result, ChunkEnds(t, result) \/ RecordFails(t, result) PROVE spoken' = spoken
  BY <1>5 DEF ChunkEnds, RecordFails, Settles
<1>6. ASSUME NEW t \in Turns,
             Complete(t) \/ CompleteFails(t) \/ ReplyFails(t) \/ AbortedEnds(t) \/ Cancel(t)
      PROVE  spoken' = spoken
  BY <1>6 DEF Complete, CompleteFails, ReplyFails, AbortedEnds, Cancel, Dies, beside
<1>7. ASSUME NEW t \in Turns, TraceExpires(t) \/ EndIsLost(t) PROVE spoken' = spoken
  BY <1>7 DEF TraceExpires, EndIsLost, control, Dies
<1> QED BY <1>1, <1>2, <1>3, <1>4, <1>5, <1>6, <1>7 DEF Next

LEMMA StepKeepsCommitted ==
  ASSUME IInv, Next
  PROVE  CommittedIsRecorded'
<1> SUFFICES ASSUME strict', NEW u \in committed', u \notin expired'
             PROVE  /\ generation'[u] = "persisted"
                    /\ \A i \in 1..spoken'[u] : Written(<<u, i>>)'
  BY DEF CommittedIsRecorded, Written
<1>a. TypeOK /\ strict /\ expired \subseteq expired'
  BY PlaybackKinds DEF IInv
<1>1. CASE u \in committed
  <2>1. u \in Turns /\ u \notin expired
    BY <1>a, <1>1 DEF TypeOK
  <2>2. /\ TurnOK(u) /\ step[u] = "over" /\ generation[u] = "persisted"
        /\ \A i \in 1..spoken[u] : Written(<<u, i>>)
    BY <1>a, <1>1, <2>1 DEF IInv, TurnOK, Ordered, CommittedIsRecorded, Written
  <2>3. generation'[u] = "persisted" /\ spoken'[u] = spoken[u]
    BY <1>a, <1>1, <2>1, <2>2, PersistedIsFinal, OverSaysNothing
  <2>4. ASSUME NEW i \in 1..spoken[u] PROVE Written(<<u, i>>)'
    <3>1. <<u, i>> \in Chunks /\ Written(<<u, i>>)
      BY <1>a, <2>1, <2>2, VoiceTraceAssumption DEF TypeOK, Chunks
    <3>2. CASE UNCHANGED <<segments, played>> /\ delivery' \in {delivery, Classified(delivery)}
      BY <1>a, <3>1, <3>2 DEF Written, Classified, TypeOK
    <3>3. ASSUME NEW t \in Turns, NEW result \in {"played", "failed", "stopped"},
                 ChunkEnds(t, result) \/ RecordFails(t, result)
          PROVE  Written(<<u, i>>)'
      <4>1. step[t] = "playing" /\ Chunk(t)[1] = t /\ segments \subseteq segments'
            /\ \A c \in Chunks : c # Chunk(t) => delivery'[c] = delivery[c]
        BY <3>3, ChunkEffect
      <4>2. <<u, i>> # Chunk(t)
        BY <2>2, <4>1 DEF Chunk
      <4> QED BY <3>1, <4>1, <4>2 DEF Written
    <3> QED BY <3>2, <3>3, PlaybackKinds
  <2> QED BY <2>3, <2>4
<1>2. CASE u \notin committed
  <2>1. PICK t \in Turns : Complete(t)
    BY <1>a, <1>2, WhoCommits
  <2>2. u = t /\ t \notin failed
    BY <1>2, <2>1 DEF Complete
  <2>3. /\ step[t] = "thinking" /\ t \notin aborted /\ Ends({t}, "persisted") /\ "persisted" \in Ended
        /\ UNCHANGED <<segments, delivery, spoken, expired>>
    BY <2>1, <2>2 DEF Complete, beside, world, Ended
  <2>4. t \notin aborted \cup expired \cup failed
    BY <2>2, <2>3
  <2>5. t \in traced /\ generation[t] = "running" /\ \A i \in 1..spoken[t] : Written(<<t, i>>)
    BY <1>a, <2>3, <2>4 DEF IInv, TurnOK, Runs, Recorded, Speaking
  <2>6. generation'[t] = "persisted"
    <3>1. Settle({t}, "persisted") /\ {t} \in SUBSET Turns /\ t \in {t}
      BY <1>a, <2>3, EndsEnds
    <3> QED BY <1>a, <2>3, <2>5, <3>1, SettleEnds
  <2> QED BY <2>2, <2>3, <2>5, <2>6 DEF Written
<1> QED BY <1>1, <1>2

-----------------------------------------------------------------------------
(* The theorems.                                                           *)

\* A new process over an empty store satisfies the invariant.
LEMMA InitIInv == Init => IInv
<1> SUFFICES ASSUME Init PROVE IInv
  OBVIOUS
<1>1. TypeOK /\ mishaps \in 0..MaxMishaps
  BY VoiceTraceAssumption DEF Init, TypeOK
<1>2. ASSUME NEW t \in Turns PROVE TurnOK(t)
  BY DEF Init, TurnOK, Unborn, Playing, Ordered, Runs, Recorded, Tidy, Speaking, Generating
<1>3. HeardIsRemembered /\ CommittedIsRecorded
  BY DEF Init, HeardIsRemembered, CommittedIsRecorded
<1> QED BY <1>1, <1>2, <1>3 DEF IInv

\* The invariant is inductive.
THEOREM StepKeepsIInv == IInv /\ [Next]_vars => IInv'
<1> SUFFICES ASSUME IInv, [Next]_vars PROVE IInv'
  OBVIOUS
<1>1. CASE Next
  BY <1>1, StepKeepsTypes, StepKeepsTurn, StepKeepsHeard, StepKeepsCommitted DEF IInv
<1>2. CASE UNCHANGED vars
  <2> USE <1>2 DEF vars, store, adapter, control, world
  <2>1. TypeOK' /\ mishaps' \in 0..MaxMishaps
    BY DEF IInv, TypeOK
  <2>2. ASSUME NEW t \in Turns PROVE TurnOK(t)'
    BY DEF IInv, TurnOK, Unborn, Playing, Ordered, Runs, Recorded, Tidy, Speaking, Written
  <2>3. HeardIsRemembered' /\ CommittedIsRecorded'
    BY DEF IInv, HeardIsRemembered, CommittedIsRecorded
  <2> QED BY <2>1, <2>2, <2>3 DEF IInv
<1> QED BY <1>1, <1>2

\* The adapter, the controller and the store agree on every reply, whatever fails.
THEOREM Invariance == Spec => []IInv
BY InitIInv, StepKeepsIInv, PTL DEF Spec

\* Every variable has its type.
THEOREM TypeCorrect == Spec => []TypeOK
<1>1. IInv => TypeOK
  BY DEF IInv
<1> QED BY <1>1, Invariance, PTL

\* Only completed playback becomes context, and while the store works all of it does.
THEOREM OnlyTheHeardIsRemembered == Spec => []HeardIsRemembered
<1>1. IInv => HeardIsRemembered
  BY DEF IInv
<1> QED BY <1>1, Invariance, PTL

\* In durableActive an exchange is committed only with its generation persisted and
\* every chunk that was handed to playback recorded with its outcome.
THEOREM TheCommittedIsRecorded == Spec => []CommittedIsRecorded
<1>1. IInv => CommittedIsRecorded
  BY DEF IInv
<1> QED BY <1>1, Invariance, PTL

\* Unless the store failed, a reply that is over leaves no trace in memory and no
\* generation that looks alive, however it ended.
THEOREM TheOverIsSettled == Spec => []OverIsSettled
<1>1. IInv => OverIsSettled
  BY DEF IInv, TurnOK, Tidy, Speaking, OverIsSettled
<1> QED BY <1>1, Invariance, PTL

=============================================================================
