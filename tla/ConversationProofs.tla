------------------------- MODULE ConversationProofs -------------------------
(***************************************************************************)
(* Proofs about one guild's conversation, for any number of calls, voice    *)
(* sessions and chunks, every policy, with and without a voice service.    *)
(***************************************************************************)
EXTENDS ConversationController, FiniteSetTheorems, TLAPS

-----------------------------------------------------------------------------
(* The inductive invariant.  Epochs are any numbers here: what bounds them *)
(* is how often the guild is spoken to.                                    *)

SessionRecord == [phase : Phases, epoch : Nat, owner : Responses \cup {Nobody},
                  cooldown : BOOLEAN, announced : BOOLEAN]
Call == [pc : {"none", "asr", "authorizing", "noticeSynth", "noticeSounds", "floor", "done"},
         sess : Sessions, epoch : Nat]
Floor == [group : SUBSET Utterances, epoch : Nat, timer : BOOLEAN, overflow : BOOLEAN, lease : BOOLEAN]
Response == [pc : {"none", "pipeline", "noticeSynth", "noticeSounds", "done"},
             kind : {"reply", "oneAtATime", "test"}, sess : Sessions, epoch : Nat, aborted : BOOLEAN,
             source : {"pull", "ready", "end", "failed", "limited"},
             chunk : {"none", "pausing", "sounding"}, chunks : 0..MaxChunks,
             group : SUBSET Utterances, notice : Nat]
Scheduler == [latest : Nat, cancelled : SUBSET Nat, live : SUBSET Items]

Typed ==
  /\ env \in Environments /\ cur \in Sessions /\ lost \in BOOLEAN
  /\ authority \in Utterances \cup {Nobody}
  /\ sess \in [Sessions -> SessionRecord] /\ utt \in [Utterances -> Call]
  /\ floor \in Floor /\ (floor.timer <=> floor.group # {})
  /\ resp \in [Responses -> Response] /\ playback \in Scheduler

\* A response is begun for calls that are over then, so there is one left for
\* every call that is not.
Begun == {r \in Responses : resp[r].pc # "none"}
Over == {u \in Utterances : utt[u].pc = "done"}
Counted == Cardinality(Begun) <= Cardinality(Over) /\ \A u \in floor.group : utt[u].pc = "floor"

\* What sounds is a chunk of a response that runs and was not cancelled.
Chunk(r) == [of |-> "chunk", id |-> r]
Sounding == \A r \in Responses : Chunk(r) \in playback.live =>
              Running(r) /\ resp[r].chunk = "sounding" /\ ~resp[r].aborted

-----------------------------------------------------------------------------
(* The rest is claimed where neither the recogniser nor the model fails.   *)

\* Nothing announces a cooldown.
Plain ==
  /\ \A s \in Sessions : ~sess[s].cooldown
  /\ \A u \in Utterances : utt[u].pc \notin {"noticeSynth", "noticeSounds"}
  /\ \A r \in Responses : resp[r].pc \notin {"noticeSynth", "noticeSounds"} /\ resp[r].source # "limited"

\* The owner on record is a response that holds the epoch of the current
\* session, and whoever holds the epoch of its session is the owner.
Turns ==
  /\ \A s \in Sessions : sess[s].owner # Nobody =>
       /\ s = cur /\ sess[s].phase \in Busy /\ Running(sess[s].owner)
       /\ resp[sess[s].owner].sess = s /\ resp[sess[s].owner].epoch = sess[s].epoch
       /\ ~resp[sess[s].owner].aborted
  /\ \A r \in Responses : Running(r) =>
       /\ resp[r].epoch <= sess[resp[r].sess].epoch
       /\ resp[r].epoch = sess[resp[r].sess].epoch => sess[resp[r].sess].owner = r

\* A call that is current waits beside no response.
Waits ==
  \A u \in Utterances : utt[u].pc \in {"asr", "authorizing"} =>
    /\ utt[u].epoch <= sess[utt[u].sess].epoch
    /\ StillCurrent(u) => sess[utt[u].sess].owner = Nobody
    /\ StillCurrent(u) /\ utt[u].pc = "authorizing" => utt[u].sess = cur

\* Sessions to come are fresh, and the one that is current is not being left.
ToCome ==
  /\ \A s \in Sessions : s > cur => sess[s].phase = "idle" /\ sess[s].owner = Nobody
  /\ sess[cur].phase # "disconnecting"

\* What sounds is the owner's.
OwnersSound == \A r \in Responses : Chunk(r) \in playback.live => sess[cur].owner = r

\* Unless the voice service is lost, a busy guild has an owner.
BusyIsOwned == lost \/ (sess[cur].phase \in Busy => sess[cur].owner # Nobody)

Faultless == Plain /\ Turns /\ Waits /\ ToCome /\ OwnersSound /\ BusyIsOwned

IInv == Typed /\ Counted /\ Sounding /\ (env.faults = {} => Faultless)

-----------------------------------------------------------------------------
(* The operators.                                                          *)

LEMMA Numbers ==
  /\ Utterances \subseteq Nat \ {0} /\ Responses = Utterances /\ Nobody \notin Responses
  /\ Sessions \subseteq Nat \ {0} /\ 1 \in Sessions /\ Nobody = 0
  /\ IsFiniteSet(Utterances) /\ Cardinality(Utterances) = MaxUtterances /\ MaxUtterances \in Nat
<1>1. MaxUtterances \in Nat /\ MaxSessions \in Nat \ {0}
  BY ConversationAssumption
<1>2. IsFiniteSet(1..MaxUtterances) /\ Cardinality(1..MaxUtterances) = MaxUtterances
  BY <1>1, FS_Interval
<1> QED BY <1>1, <1>2 DEF Utterances, Responses, Sessions, Nobody

LEMMA MoveFacts ==
  ASSUME NEW x \in SessionRecord, NEW p \in Phases
  PROVE  LET n == Move(x, p) IN
         /\ n \in SessionRecord /\ n.epoch = x.epoch /\ n.owner = x.owner /\ n.cooldown = x.cooldown
         /\ n.phase \in {x.phase, p}
         /\ p = "idle" => n.phase \notin Busy
         /\ p = "collecting" => (n.phase \in Busy <=> x.phase \in Busy) /\ (x.phase = "idle" => n.phase = p)
         /\ p = "thinking" /\ x.phase = "collecting" => n.phase = p
         /\ p = "speaking" /\ x.phase \in Busy => n.phase \in Busy
<1> DEFINE y == [x EXCEPT !.phase = p]
<1>1. /\ y \in SessionRecord /\ y.phase = p /\ y.epoch = x.epoch /\ y.owner = x.owner /\ y.cooldown = x.cooldown
      /\ x.phase \in Phases
  BY DEF SessionRecord
<1>2. Move(x, p) = IF p \in LegalTransitions[x.phase] THEN y ELSE x
  BY DEF Move
<1> HIDE DEF y
<1> QED BY <1>1, <1>2 DEF LegalTransitions, Phases, Busy

\* The epoch moves, and the owner with it or not.
Moved(x, e, o) == [x EXCEPT !.epoch = e, !.owner = o]

LEMMA MovedFacts ==
  ASSUME NEW x \in SessionRecord, NEW e \in Nat, NEW o \in Responses \cup {Nobody}
  PROVE  LET n == Moved(x, e, o) IN
         /\ n \in SessionRecord /\ n.phase = x.phase /\ n.epoch = e /\ n.owner = o /\ n.cooldown = x.cooldown
<1> DEFINE O == Responses \cup {Nobody}
<1>1. o \in O /\ SessionRecord = [phase : Phases, epoch : Nat, owner : O, cooldown : BOOLEAN, announced : BOOLEAN]
  BY DEF SessionRecord
<1> HIDE DEF O
<1> QED BY <1>1 DEF Moved

LEMMA CancelledFacts ==
  ASSUME NEW x \in SessionRecord
  PROVE  LET n == Cancelled(x) IN
         /\ n \in SessionRecord /\ n.epoch = x.epoch + 1 /\ n.owner = Nobody /\ n.cooldown = x.cooldown
         /\ n.phase = "idle"
<1> DEFINE y == Moved(x, x.epoch + 1, Nobody)
<1>1. /\ y \in SessionRecord /\ y.phase = x.phase /\ y.epoch = x.epoch + 1 /\ y.owner = Nobody
      /\ y.cooldown = x.cooldown
  <2>1. x.epoch + 1 \in Nat
    BY DEF SessionRecord
  <2> QED BY <2>1, MovedFacts
<1>2. Cancelled(x) = Move(y, "idle")
  BY DEF Cancelled, Superseded, Moved
<1> HIDE DEF y
<1>3. Move(y, "idle").phase = "idle"
  <2>1. y.phase \in Phases
    BY <1>1 DEF SessionRecord
  <2>2. "idle" \in LegalTransitions[y.phase] \/ y.phase = "idle"
    BY <2>1 DEF LegalTransitions, Phases
  <2> QED BY <1>1, <2>2 DEF Move, SessionRecord
<1> QED BY <1>1, <1>2, <1>3, MoveFacts DEF Phases

\* A response that ends frees the guild if it holds the epoch.
LEMMA ReleaseFacts ==
  ASSUME NEW x \in SessionRecord, NEW e \in Nat
  PROVE  LET n == Release(x, e) IN
         /\ n \in SessionRecord /\ n.epoch = x.epoch /\ n.cooldown = x.cooldown
         /\ x.epoch # e => n = x
         /\ x.epoch = e => n.owner = Nobody /\ n.phase \notin Busy
         /\ n.phase \in {x.phase, "idle"}
<1> DEFINE y == [x EXCEPT !.owner = Nobody]
<1>1. y \in SessionRecord /\ y.epoch = x.epoch /\ y.owner = Nobody /\ y.cooldown = x.cooldown /\ y.phase = x.phase
  BY DEF SessionRecord
<1>2. Release(x, e) = IF x.epoch = e THEN Move(y, "idle") ELSE x
  BY DEF Release
<1> HIDE DEF y
<1> QED BY <1>1, <1>2, MoveFacts DEF Phases

LEMMA AnnouncingFacts ==
  ASSUME NEW x \in SessionRecord
  PROVE  Announcing(x) \in SessionRecord
<1> DEFINE O == Responses \cup {Nobody}
<1>1. /\ x \in [phase : Phases, epoch : Nat, owner : O, cooldown : BOOLEAN, announced : BOOLEAN]
      /\ SessionRecord = [phase : Phases, epoch : Nat, owner : O, cooldown : BOOLEAN, announced : BOOLEAN]
  BY DEF SessionRecord
<1> HIDE DEF O
<1>2. x.epoch + 1 \in Nat
  BY <1>1
<1>3. [x EXCEPT !.announced = TRUE, !.epoch = x.epoch + 1]
        \in [phase : Phases, epoch : Nat, owner : O, cooldown : BOOLEAN, announced : BOOLEAN]
  BY <1>1, <1>2
<1> QED BY <1>1, <1>3 DEF Announcing

\* Nobody else is aborted, and nothing else of who is.
LEMMA AbortedFacts ==
  ASSUME Typed, NEW o \in Responses \cup {Nobody}
  PROVE  /\ Aborted(o) \in [Responses -> Response]
         /\ \A r \in Responses : /\ Aborted(o)[r].pc = resp[r].pc /\ Aborted(o)[r].sess = resp[r].sess
                                 /\ Aborted(o)[r].epoch = resp[r].epoch /\ Aborted(o)[r].source = resp[r].source
                                 /\ Aborted(o)[r].aborted = (resp[r].aborted \/ r = o)
<1> DEFINE y(r) == [resp[r] EXCEPT !.aborted = TRUE]
<1>1. ASSUME NEW r \in Responses
      PROVE  /\ y(r) \in Response /\ y(r).pc = resp[r].pc /\ y(r).sess = resp[r].sess /\ y(r).epoch = resp[r].epoch
             /\ y(r).source = resp[r].source /\ y(r).aborted = TRUE
             /\ resp[r] \in Response /\ resp[r].aborted \in BOOLEAN
  BY DEF Typed, Response
<1>2. Aborted(o) = [r \in Responses |-> IF r = o THEN y(r) ELSE resp[r]]
  BY DEF Aborted
<1> HIDE DEF y
<1> QED BY <1>1, <1>2

LEMMA SilencedFacts ==
  ASSUME Typed, NEW e \in Nat
  PROVE  Silenced(e) \in Scheduler /\ Silenced(e).live = {}
<1> DEFINE c == IF e >= playback.latest THEN playback.cancelled \cup {e} ELSE playback.cancelled
           C == SUBSET Nat
           L == SUBSET Items
<1>1. c \in C /\ playback \in [latest : Nat, cancelled : C, live : L] /\ {} \in L
  BY DEF Typed, Scheduler
<1>2. Silenced(e) = [playback EXCEPT !.live = {}, !.cancelled = c]
  BY DEF Silenced
<1> HIDE DEF c, C, L
<1>3. Silenced(e) \in [latest : Nat, cancelled : C, live : L] /\ Silenced(e).live = {}
  BY <1>1, <1>2
<1> QED BY <1>3 DEF Scheduler, C, L

LEMMA SettledFacts ==
  ASSUME Typed, NEW u \in Utterances
  PROVE  Settled(u) \in Call /\ Settled(u).pc = "done" /\ Settled(u).sess = utt[u].sess
BY DEF Typed, Settled, Call

LEMMA EndedFacts == Ended \in Response /\ Ended.pc = "done" /\ ~Ended.aborted /\ Ended.source # "limited"
                    /\ Ended.chunk = "none"
<1>1. /\ NoResponse \in Response /\ NoResponse.source = "pull" /\ NoResponse.chunk = "none"
      /\ NoResponse.aborted = FALSE
  BY Numbers, ConversationAssumption DEF NoResponse, Response
<1> QED BY <1>1 DEF Ended, Response

-----------------------------------------------------------------------------
(* Responses are as many as calls.                                         *)

LEMMA LeastElement ==
  ASSUME NEW T \in SUBSET Nat, T # {}
  PROVE  \E k \in T : \A m \in T : k <= m
<1>1. PICK k \in T : \A m \in T : <<m, k>> \notin OpToRel(<, Nat)
  BY NatLessThanWellFounded, WFMin
<1>2. \A m \in T : ~(m < k)
  BY <1>1 DEF OpToRel
<1> QED BY <1>2

LEMMA Finite ==
  /\ IsFiniteSet(Begun) /\ Cardinality(Begun) \in Nat
  /\ IsFiniteSet(Over) /\ Cardinality(Over) \in Nat
<1>1. Begun \in SUBSET Utterances /\ Over \in SUBSET Utterances
  BY Numbers DEF Begun, Over
<1> QED BY <1>1, Numbers, FS_Subset, FS_CardinalityType

\* While a call is not over there is a response that was not begun.
LEMMA FreeFacts ==
  ASSUME Counted, NEW u \in Utterances, utt[u].pc # "done"
  PROVE  FreeResponse \in Responses /\ resp[FreeResponse].pc = "none"
<1> DEFINE T == {r \in Responses : resp[r].pc = "none"}
<1>1. T # {}
  <2>1. SUFFICES ASSUME T = {}
                 PROVE  FALSE
    OBVIOUS
  <2>2. Cardinality(Begun) = MaxUtterances
    <3>1. Begun = Utterances
      BY <2>1, Numbers DEF Begun
    <3> QED BY <3>1, Numbers
  <2>3. Over \in SUBSET Utterances /\ Over # Utterances
    BY DEF Over
  <2>4. Cardinality(Over) <= MaxUtterances /\ Cardinality(Over) # MaxUtterances
    BY <2>3, Numbers, FS_Subset
  <2> QED BY <2>2, <2>4, Numbers, Finite DEF Counted
<1>2. T \in SUBSET Nat
  BY Numbers
<1>3. PICK k \in T : \A m \in T : k <= m
  BY <1>1, <1>2, LeastElement
<1>4. \A q \in Responses : q < k => resp[q].pc # "none"
  BY <1>2, <1>3, Numbers
<1> QED BY <1>3, <1>4 DEF FreeResponse

LEMMA CountKept ==
  ASSUME Counted, \A r \in Responses : resp'[r].pc # "none" => resp[r].pc # "none",
         \A u \in Utterances : utt[u].pc = "done" => utt'[u].pc = "done"
  PROVE  Cardinality(Begun') <= Cardinality(Over')
<1>1. Begun' \in SUBSET Begun /\ Over \in SUBSET Over' /\ Over' \in SUBSET Utterances
  BY DEF Begun, Over
<1>2. IsFiniteSet(Over') /\ Cardinality(Over') \in Nat /\ IsFiniteSet(Begun') /\ Cardinality(Begun') \in Nat
  BY <1>1, Numbers, Finite, FS_Subset, FS_CardinalityType
<1>3. Cardinality(Begun') <= Cardinality(Begun) /\ Cardinality(Over) <= Cardinality(Over')
  BY <1>1, <1>2, Finite, FS_Subset
<1> QED BY <1>2, <1>3, Finite DEF Counted

LEMMA CountGrows ==
  ASSUME Counted, NEW b \in Responses, NEW v \in Utterances, utt[v].pc # "done", utt'[v].pc = "done",
         \A r \in Responses \ {b} : resp'[r].pc # "none" => resp[r].pc # "none",
         \A u \in Utterances : utt[u].pc = "done" => utt'[u].pc = "done"
  PROVE  Cardinality(Begun') <= Cardinality(Over')
<1>1. Begun' \in SUBSET (Begun \cup {b}) /\ Over \cup {v} \in SUBSET Over' /\ Over' \in SUBSET Utterances
  BY DEF Begun, Over
<1>2. IsFiniteSet(Begun \cup {b}) /\ Cardinality(Begun \cup {b}) <= Cardinality(Begun) + 1
  <2>1. /\ IsFiniteSet(Begun \cup {b})
        /\ Cardinality(Begun \cup {b}) = IF b \in Begun THEN Cardinality(Begun) ELSE Cardinality(Begun) + 1
    BY Finite, FS_AddElement
  <2> QED BY <2>1, Finite
<1>3. v \notin Over /\ Cardinality(Over \cup {v}) = Cardinality(Over) + 1
  BY Finite, FS_AddElement DEF Over
<1>4. IsFiniteSet(Over') /\ Cardinality(Over') \in Nat /\ Cardinality(Over \cup {v}) <= Cardinality(Over')
  BY <1>1, Numbers, FS_Subset, FS_CardinalityType
<1>5. IsFiniteSet(Begun') /\ Cardinality(Begun') \in Nat /\ Cardinality(Begun') <= Cardinality(Begun \cup {b})
      /\ Cardinality(Begun \cup {b}) \in Nat
  BY <1>1, <1>2, FS_Subset, FS_CardinalityType
<1> QED BY <1>2, <1>3, <1>4, <1>5, Finite DEF Counted

-----------------------------------------------------------------------------
(* Kinds of steps.                                                         *)

\* Where nothing fails the turns stay as they are: a call that begins to wait
\* is of the current epoch, beside no response.
Undisturbed ==
  /\ \A r \in Responses : resp'[r].source # "limited"
  /\ \A s \in Sessions :
       /\ sess'[s].epoch = sess[s].epoch /\ sess'[s].owner = sess[s].owner /\ ~sess'[s].cooldown
       /\ sess[s].owner # Nobody => sess'[s].phase \in Busy
       /\ s > cur => sess'[s].phase = "idle"
  /\ sess'[cur].phase \in Busy => sess[cur].phase \in Busy
  /\ sess[cur].phase # "disconnecting" => sess'[cur].phase # "disconnecting"
  /\ \A u \in Utterances :
       /\ utt'[u].pc \notin {"noticeSynth", "noticeSounds"}
       /\ utt'[u].pc \in {"asr", "authorizing"} =>
            utt'[u] = utt[u] \/ (utt'[u].sess = cur /\ utt'[u].epoch = sess[cur].epoch /\ sess[cur].owner = Nobody)

LEMMA SteadyStep ==
  ASSUME IInv, Typed', Counted', UNCHANGED <<env, cur>>, lost => lost',
         \A r \in Responses : /\ resp'[r].pc = resp[r].pc /\ resp'[r].sess = resp[r].sess
                              /\ resp'[r].epoch = resp[r].epoch /\ resp'[r].aborted = resp[r].aborted,
         \A r \in Responses : Chunk(r) \in playback'.live =>
           \/ Chunk(r) \in playback.live /\ resp'[r].chunk = resp[r].chunk
           \/ /\ Running(r) /\ resp'[r].chunk = "sounding" /\ ~resp[r].aborted
              /\ env.faults = {} => sess[cur].owner = r,
         env.faults = {} => Undisturbed
  PROVE  IInv'
<1>1. Sounding'
  BY DEF IInv, Sounding, Running, Chunk
<1>2. ASSUME env.faults = {}
      PROVE  Faultless'
  <2>1. Undisturbed /\ Faultless
    BY <1>2 DEF IInv
  <2>2. Plain'
    BY <2>1 DEF Faultless, Plain, Undisturbed
  <2>3. Turns'
    <3>1. \A r \in Responses : resp[r].sess \in Sessions
      BY DEF IInv, Typed, Response
    <3>2. ASSUME NEW r \in Responses, Running(r)'
          PROVE  /\ resp'[r].epoch <= sess'[resp'[r].sess].epoch
                 /\ resp'[r].epoch = sess'[resp'[r].sess].epoch => sess'[resp'[r].sess].owner = r
      BY <2>1, <3>1, <3>2 DEF Faultless, Turns, Undisturbed, Running
    <3>3. ASSUME NEW s \in Sessions, sess'[s].owner # Nobody
          PROVE  /\ s = cur /\ sess'[s].phase \in Busy /\ resp'[sess'[s].owner].pc = "pipeline"
                 /\ resp'[sess'[s].owner].sess = s /\ resp'[sess'[s].owner].epoch = sess'[s].epoch
                 /\ ~resp'[sess'[s].owner].aborted
      <4>1. sess'[s].owner = sess[s].owner /\ sess[s].owner \in Responses
        BY <2>1, <3>3 DEF Undisturbed, IInv, Typed, SessionRecord
      <4> QED BY <2>1, <3>3, <4>1 DEF Faultless, Turns, Undisturbed, Running
    <3> QED BY <3>2, <3>3 DEF Turns, Running
  <2>4. Waits'
    <3>1. ASSUME NEW u \in Utterances, utt'[u].pc \in {"asr", "authorizing"}
          PROVE  /\ utt'[u].epoch <= sess'[utt'[u].sess].epoch
                 /\ StillCurrent(u)' => sess'[utt'[u].sess].owner = Nobody
                 /\ StillCurrent(u)' /\ utt'[u].pc = "authorizing" => utt'[u].sess = cur'
      <4>1. utt'[u].sess \in Sessions
        BY DEF Typed, Call
      <4>2. CASE utt'[u] = utt[u]
        BY <2>1, <3>1, <4>1, <4>2 DEF Faultless, Waits, Undisturbed, StillCurrent
      <4>3. CASE utt'[u].sess = cur /\ utt'[u].epoch = sess[cur].epoch /\ sess[cur].owner = Nobody
        BY <2>1, <4>1, <4>3 DEF Undisturbed, StillCurrent, IInv, Typed, SessionRecord
      <4> QED BY <2>1, <3>1, <4>2, <4>3 DEF Undisturbed
    <3> QED BY <3>1 DEF Waits
  <2>5. ToCome' /\ BusyIsOwned'
    BY <2>1 DEF Faultless, ToCome, BusyIsOwned, Undisturbed, IInv, Typed
  <2>6. OwnersSound'
    BY <1>2, <2>1 DEF Faultless, OwnersSound, Undisturbed, Chunk, IInv, Typed
  <2> QED BY <2>2, <2>3, <2>4, <2>5, <2>6 DEF Faultless
<1> QED BY <1>1, <1>2 DEF IInv

\* The guild is taken from whoever has it: the epoch moves, the owner is
\* aborted and what sounds is stopped, in one step.
LEMMA CancelStep ==
  ASSUME IInv, Typed', Counted', env' = env, cur' \in {cur, cur + 1}, lost => lost',
         resp' = Aborted(sess[cur].owner), playback'.live = {},
         sess'[cur].epoch = sess[cur].epoch + 1, sess'[cur].owner = Nobody,
         sess'[cur].cooldown = sess[cur].cooldown,
         lost' \/ cur' # cur \/ sess'[cur].phase \notin Busy,
         cur' # cur \/ sess'[cur].phase \in {"idle", "collecting", sess[cur].phase},
         \A s \in Sessions \ {cur} : sess'[s] = sess[s],
         env.faults = {} => \A u \in Utterances :
           /\ utt'[u].pc \notin {"noticeSynth", "noticeSounds"}
           /\ utt'[u].pc \in {"asr", "authorizing"} =>
                utt'[u] = utt[u] \/ (utt'[u].sess = cur /\ cur' = cur /\ utt'[u].epoch = sess[cur].epoch + 1)
  PROVE  IInv'
<1>0. sess[cur].owner \in Responses \cup {Nobody} /\ cur \in Nat
  BY Numbers DEF IInv, Typed, SessionRecord
<1>1. \A r \in Responses : /\ resp'[r].pc = resp[r].pc /\ resp'[r].sess = resp[r].sess
                           /\ resp'[r].epoch = resp[r].epoch /\ resp'[r].source = resp[r].source
  BY <1>0, AbortedFacts DEF IInv
<1>2. Sounding'
  BY DEF Sounding
<1>3. ASSUME env.faults = {}
      PROVE  Faultless'
  <2>1. Faultless
    BY <1>3 DEF IInv
  <2>2. Plain'
    <3>1. \A s \in Sessions : ~sess'[s].cooldown
      BY <2>1 DEF Faultless, Plain, IInv, Typed
    <3> QED BY <1>1, <1>3, <2>1, <3>1 DEF Faultless, Plain
  <2>3. \A s \in Sessions : sess'[s].owner = Nobody
    BY <2>1 DEF Faultless, Turns
  <2>4. \A s \in Sessions : sess'[s].epoch \in Nat /\ sess[s].epoch \in Nat /\ sess'[s].epoch = IF s = cur THEN sess[s].epoch + 1 ELSE sess[s].epoch
    BY DEF IInv, Typed, SessionRecord
  <2>5. Turns'
    <3>1. ASSUME NEW r \in Responses, Running(r)'
          PROVE  resp'[r].epoch < sess'[resp'[r].sess].epoch
      <4>1. Running(r) /\ resp[r].sess \in Sessions /\ resp[r].epoch \in Nat
        BY <1>1, <3>1 DEF Running, IInv, Typed, Response
      <4>2. resp[r].epoch <= sess[resp[r].sess].epoch
        BY <2>1, <4>1 DEF Faultless, Turns
      <4>3. resp[r].epoch = sess[resp[r].sess].epoch => resp[r].sess = cur
        BY <2>1, <4>1, Numbers DEF Faultless, Turns
      <4> QED BY <1>1, <2>4, <4>1, <4>2, <4>3
    <3>2. \A r \in Responses : Running(r)' => resp'[r].epoch \in Nat /\ sess'[resp'[r].sess].epoch \in Nat
      BY <2>4 DEF Typed, Response
    <3> QED BY <2>3, <3>1, <3>2 DEF Turns
  <2>6. Waits'
    <3>1. ASSUME NEW u \in Utterances, utt'[u].pc \in {"asr", "authorizing"}
          PROVE  /\ utt'[u].epoch <= sess'[utt'[u].sess].epoch
                 /\ StillCurrent(u)' /\ utt'[u].pc = "authorizing" => utt'[u].sess = cur'
      <4>1. utt'[u].sess \in Sessions /\ utt'[u].epoch \in Nat /\ cur \in Sessions
        BY DEF Typed, Call, IInv
      <4>2. CASE utt'[u] = utt[u]
        <5>1. utt[u].epoch <= sess[utt[u].sess].epoch /\ (StillCurrent(u) /\ utt[u].pc = "authorizing" => utt[u].sess = cur)
          BY <2>1, <3>1, <4>2 DEF Faultless, Waits
        <5> QED BY <2>4, <4>1, <4>2, <5>1 DEF StillCurrent
      <4>3. CASE utt'[u].sess = cur /\ cur' = cur /\ utt'[u].epoch = sess[cur].epoch + 1
        BY <2>4, <4>1, <4>3
      <4> QED BY <1>3, <3>1, <4>2, <4>3
    <3>2. \A u \in Utterances : utt'[u].sess \in Sessions
      BY DEF Typed, Call
    <3> QED BY <2>3, <3>1, <3>2 DEF Waits
  <2>7. ToCome'
    <3>1. ASSUME NEW s \in Sessions, s > cur'
          PROVE  s \in Sessions \ {cur} /\ s > cur
      BY <1>0, <3>1, Numbers
    <3>2. sess'[cur'].phase # "disconnecting"
      <4>1. CASE cur' = cur
        BY <2>1, <4>1 DEF Faultless, ToCome
      <4>2. CASE cur' # cur
        BY <1>0, <2>1, <4>2 DEF Faultless, ToCome, Typed
      <4> QED BY <4>1, <4>2
    <3> QED BY <2>1, <3>1, <3>2 DEF Faultless, ToCome
  <2>8. OwnersSound'
    BY DEF OwnersSound
  <2>9. BusyIsOwned'
    <3>1. cur' # cur => sess'[cur'].phase = "idle"
      BY <1>0, <2>1 DEF Faultless, ToCome, Typed
    <3> QED BY <3>1 DEF BusyIsOwned, Busy
  <2> QED BY <2>2, <2>5, <2>6, <2>7, <2>8, <2>9 DEF Faultless
<1> QED BY <1>2, <1>3 DEF IInv

LEMMA StartFacts ==
  ASSUME Typed, Counted, NEW v \in Utterances, utt[v].pc # "done",
         NEW x \in SessionRecord, NEW others \in [Responses -> Response],
         NEW kind \in {"reply", "oneAtATime", "test"}, NEW group \in SUBSET Utterances,
         StartResponse(kind, group, x, others)
  PROVE  LET r == FreeResponse IN
         /\ r \in Responses /\ resp[r].pc = "none"
         /\ sess' \in [Sessions -> SessionRecord] /\ resp' \in [Responses -> Response]
         /\ \A s \in Sessions \ {cur} : sess'[s] = sess[s]
         /\ sess'[cur].epoch = x.epoch + 1 /\ sess'[cur].owner = r /\ sess'[cur].cooldown = x.cooldown
         /\ x.phase = "collecting" => sess'[cur].phase \in Busy
         /\ \A q \in Responses \ {r} : resp'[q] = others[q]
         /\ resp'[r].pc = "pipeline" /\ resp'[r].sess = cur /\ resp'[r].epoch = x.epoch + 1
         /\ ~resp'[r].aborted /\ resp'[r].source # "limited"
<1> DEFINE r == FreeResponse
           e == x.epoch + 1
           m == Move(x, "thinking")
           y == [NoResponse EXCEPT !.pc = "pipeline", !.kind = kind, !.sess = cur, !.epoch = e, !.group = group]
<1>1. r \in Responses /\ resp[r].pc = "none" /\ cur \in Sessions /\ e \in Nat
  BY FreeFacts DEF Typed, SessionRecord
<1>2. sess' = [sess EXCEPT ![cur] = Moved(m, e, r)] /\ resp' = [others EXCEPT ![r] = y]
  BY DEF StartResponse, Moved
<1>3. m \in SessionRecord /\ m.cooldown = x.cooldown /\ (x.phase = "collecting" => m.phase = "thinking")
  BY MoveFacts DEF Phases
<1> HIDE DEF r, e, m
<1>4. /\ Moved(m, e, r) \in SessionRecord /\ Moved(m, e, r).epoch = e /\ Moved(m, e, r).owner = r
      /\ Moved(m, e, r).cooldown = m.cooldown /\ Moved(m, e, r).phase = m.phase
  BY <1>1, <1>3, MovedFacts
<1>5. /\ y \in Response /\ y.pc = "pipeline" /\ y.sess = cur /\ y.epoch = e /\ y.aborted = FALSE /\ y.source = "pull"
  <2> DEFINE S == Sessions
             G == SUBSET Utterances
             C == 0..MaxChunks
             P == {"none", "pipeline", "noticeSynth", "noticeSounds", "done"}
             K == {"reply", "oneAtATime", "test"}
             R == [pc : P, kind : K, sess : S, epoch : Nat, aborted : BOOLEAN,
                   source : {"pull", "ready", "end", "failed", "limited"},
                   chunk : {"none", "pausing", "sounding"}, chunks : C, group : G, notice : Nat]
  <2>1. /\ R = Response /\ NoResponse \in R /\ cur \in S /\ group \in G /\ kind \in K /\ "pipeline" \in P
        /\ NoResponse.aborted = FALSE /\ NoResponse.source = "pull"
    BY <1>1, Numbers, ConversationAssumption DEF NoResponse, Response
  <2> HIDE DEF S, G, C, P, K
  <2>2. NoResponse = [pc |-> NoResponse.pc, kind |-> NoResponse.kind, sess |-> NoResponse.sess,
                      epoch |-> NoResponse.epoch, aborted |-> NoResponse.aborted, source |-> NoResponse.source,
                      chunk |-> NoResponse.chunk, chunks |-> NoResponse.chunks, group |-> NoResponse.group,
                      notice |-> NoResponse.notice]
    BY DEF NoResponse
  <2>3. \A n \in R : LET y1 == [n EXCEPT !.pc = "pipeline", !.kind = kind, !.sess = cur, !.epoch = e, !.group = group]
                     IN /\ y1 \in R /\ y1.pc = "pipeline" /\ y1.sess = cur /\ y1.epoch = e
                        /\ y1.aborted = n.aborted /\ y1.source = n.source
    BY <1>1, <2>1
  <2> QED BY <2>1, <2>3
<1> HIDE DEF y
<1> QED BY <1>1, <1>2, <1>3, <1>4, <1>5 DEF Typed, Busy, r, e

\* The guild is taken by a response to a call that is over with it.
LEMMA StartStep ==
  ASSUME IInv, NEW v \in Utterances, utt[v].pc # "done", utt'[v].pc = "done",
         NEW x \in SessionRecord, NEW others \in [Responses -> Response],
         NEW kind \in {"reply", "oneAtATime", "test"}, NEW group \in SUBSET Utterances,
         StartResponse(kind, group, x, others), UNCHANGED <<env, cur, lost>>,
         authority' \in Utterances \cup {Nobody}, utt' \in [Utterances -> Call], playback' \in Scheduler,
         floor' \in Floor, floor'.timer <=> floor'.group # {}, \A u \in floor'.group : utt'[u].pc = "floor",
         \A u \in Utterances : utt[u].pc = "done" => utt'[u].pc = "done",
         x.epoch >= sess[cur].epoch,
         \A r \in Responses : /\ others[r].pc = resp[r].pc /\ others[r].sess = resp[r].sess
                              /\ others[r].epoch = resp[r].epoch /\ others[r].source = resp[r].source,
         (others = resp /\ playback' = playback) \/ playback'.live = {},
         env.faults = {} =>
           /\ x.phase = "collecting" /\ ~x.cooldown /\ (playback'.live = {} \/ sess[cur].owner = Nobody)
           /\ \A u \in Utterances : utt'[u] = utt[u] \/ utt'[u].pc = "done"
  PROVE  IInv'
<1> DEFINE b == FreeResponse
<1>1. /\ b \in Responses /\ resp[b].pc = "none"
      /\ sess' \in [Sessions -> SessionRecord] /\ resp' \in [Responses -> Response]
      /\ \A s \in Sessions \ {cur} : sess'[s] = sess[s]
      /\ sess'[cur].epoch = x.epoch + 1 /\ sess'[cur].owner = b /\ sess'[cur].cooldown = x.cooldown
      /\ x.phase = "collecting" => sess'[cur].phase \in Busy
      /\ \A q \in Responses \ {b} : resp'[q] = others[q]
      /\ resp'[b].pc = "pipeline" /\ resp'[b].sess = cur /\ resp'[b].epoch = x.epoch + 1
      /\ ~resp'[b].aborted /\ resp'[b].source # "limited"
  BY StartFacts DEF IInv
<1> HIDE DEF b
<1>2. Typed'
  BY <1>1 DEF IInv, Typed
<1>3. Counted'
  <2>1. \A r \in Responses \ {b} : resp'[r].pc # "none" => resp[r].pc # "none"
    BY <1>1
  <2> QED BY <1>1, <2>1, CountGrows DEF IInv, Counted
<1>4. Sounding'
  BY <1>1 DEF IInv, Sounding, Running, Chunk
<1>5. ASSUME env.faults = {}
      PROVE  Faultless'
  <2>1. Faultless /\ x.phase = "collecting" /\ ~x.cooldown /\ cur \in Sessions
    BY <1>5 DEF IInv, Typed
  <2>2. Plain'
    BY <1>1, <1>5, <2>1 DEF Faultless, Plain
  <2>3. /\ x.epoch \in Nat /\ sess[cur].epoch \in Nat /\ \A s \in Sessions \ {cur} : sess[s].owner = Nobody
    BY <2>1 DEF Faultless, Turns, IInv, Typed, SessionRecord
  <2>4. Turns'
    <3>1. ASSUME NEW s \in Sessions, sess'[s].owner # Nobody
          PROVE  /\ s = cur /\ sess'[s].phase \in Busy /\ resp'[sess'[s].owner].pc = "pipeline"
                 /\ resp'[sess'[s].owner].sess = s /\ resp'[sess'[s].owner].epoch = sess'[s].epoch
                 /\ ~resp'[sess'[s].owner].aborted
      BY <1>1, <2>1, <2>3, <3>1
    <3>2. ASSUME NEW r \in Responses, resp'[r].pc = "pipeline"
          PROVE  /\ resp'[r].epoch <= sess'[resp'[r].sess].epoch
                 /\ resp'[r].epoch = sess'[resp'[r].sess].epoch => sess'[resp'[r].sess].owner = r
      <4>1. CASE r = b
        BY <1>1, <2>3, <4>1
      <4>2. CASE r # b
        <5>1. /\ resp'[r].epoch = resp[r].epoch /\ resp'[r].sess = resp[r].sess /\ resp[r].pc = "pipeline"
              /\ resp[r].sess \in Sessions /\ resp[r].epoch \in Nat
          BY <1>1, <3>2, <4>2 DEF IInv, Typed, Response
        <5>2. /\ resp[r].epoch <= sess[resp[r].sess].epoch
              /\ resp[r].epoch = sess[resp[r].sess].epoch => sess[resp[r].sess].owner = r
          BY <2>1, <5>1 DEF Faultless, Turns, Running
        <5>3. CASE resp[r].sess = cur
          BY <1>1, <2>3, <5>1, <5>2, <5>3
        <5>4. CASE resp[r].sess # cur
          <6>1. sess[resp[r].sess].owner = Nobody /\ sess'[resp[r].sess] = sess[resp[r].sess] /\ r # Nobody
            BY <1>1, <2>3, <5>1, <5>4, Numbers
          <6> QED BY <5>1, <5>2, <6>1
        <5> QED BY <5>3, <5>4
      <4> QED BY <4>1, <4>2
    <3> QED BY <1>1, <3>1, <3>2 DEF Turns, Running
  <2>5. Waits'
    <3>1. ASSUME NEW u \in Utterances, utt'[u].pc \in {"asr", "authorizing"}
          PROVE  /\ utt'[u].epoch <= sess'[utt'[u].sess].epoch
                 /\ StillCurrent(u)' => sess'[utt'[u].sess].owner = Nobody
                 /\ StillCurrent(u)' /\ utt'[u].pc = "authorizing" => utt'[u].sess = cur'
      <4>1. utt'[u] = utt[u] /\ utt[u].sess \in Sessions /\ utt[u].epoch \in Nat
        BY <1>5, <3>1 DEF IInv, Typed, Call
      <4>2. /\ utt[u].epoch <= sess[utt[u].sess].epoch
            /\ StillCurrent(u) /\ utt[u].pc = "authorizing" => utt[u].sess = cur
            /\ StillCurrent(u) => sess[utt[u].sess].owner = Nobody
        BY <2>1, <3>1, <4>1 DEF Faultless, Waits
      <4>3. CASE utt[u].sess = cur
        BY <1>1, <2>3, <4>1, <4>2, <4>3 DEF StillCurrent
      <4>4. CASE utt[u].sess # cur
        BY <1>1, <2>3, <4>1, <4>2, <4>4 DEF StillCurrent
      <4> QED BY <4>3, <4>4
    <3> QED BY <3>1 DEF Waits
  <2>6. ToCome'
    <3>1. ASSUME NEW s \in Sessions, s > cur
          PROVE  s \in Sessions \ {cur}
      BY <2>1, <3>1, Numbers
    <3>2. sess'[cur].phase # "disconnecting"
      BY <1>1, <2>1 DEF Busy
    <3> QED BY <1>1, <2>1, <3>1, <3>2 DEF Faultless, ToCome
  <2>7. OwnersSound'
    BY <1>5, <2>1, Numbers DEF Faultless, OwnersSound, Chunk
  <2>8. BusyIsOwned'
    BY <1>1, Numbers DEF BusyIsOwned
  <2> QED BY <2>2, <2>4, <2>5, <2>6, <2>7, <2>8 DEF Faultless
<1> QED BY <1>2, <1>3, <1>4, <1>5 DEF IInv

\* A response ends: its finally block frees the guild if it is the owner.
LEMMA EndStep ==
  ASSUME IInv, NEW r \in Responses, resp[r].pc \notin {"none", "done"}, resp[r].chunk = "none" \/ ~Running(r),
         sess' = [sess EXCEPT ![resp[r].sess] = Release(@, resp[r].epoch)],
         resp' = [resp EXCEPT ![r] = Ended],
         UNCHANGED <<env, service, cur, utt, floor, playback>>
  PROVE  IInv'
<1> DEFINE z == resp[r].sess
           e == resp[r].epoch
<1>1. z \in Sessions /\ e \in Nat /\ sess[z] \in SessionRecord /\ cur \in Sessions
  BY DEF IInv, Typed, Response
<1>2. /\ Release(sess[z], e) \in SessionRecord /\ Release(sess[z], e).epoch = sess[z].epoch
      /\ Release(sess[z], e).cooldown = sess[z].cooldown
      /\ sess[z].epoch # e => Release(sess[z], e) = sess[z]
      /\ sess[z].epoch = e => Release(sess[z], e).owner = Nobody /\ Release(sess[z], e).phase \notin Busy
      /\ Release(sess[z], e).phase \in {sess[z].phase, "idle"}
  BY <1>1, ReleaseFacts
<1>3. /\ sess' \in [Sessions -> SessionRecord]
      /\ \A s \in Sessions : /\ sess'[s].epoch = sess[s].epoch /\ sess'[s].cooldown = sess[s].cooldown
                             /\ (s # z \/ sess[s].epoch # e) => sess'[s] = sess[s]
      /\ sess[z].epoch = e => sess'[z].owner = Nobody /\ sess'[z].phase \notin Busy
      /\ sess'[z].phase \in {sess[z].phase, "idle"}
  BY <1>1, <1>2 DEF IInv, Typed
<1>4. resp' \in [Responses -> Response] /\ resp'[r] = Ended /\ \A q \in Responses \ {r} : resp'[q] = resp[q]
  BY EndedFacts DEF IInv, Typed
<1>5. Typed'
  BY <1>3, <1>4 DEF IInv, Typed, service
<1>6. Counted'
  <2>1. \A q \in Responses : resp'[q].pc # "none" => resp[q].pc # "none"
    BY <1>4
  <2> QED BY <2>1, CountKept DEF IInv, Counted
<1>7. Sounding'
  BY <1>4 DEF IInv, Sounding, Running, Chunk
<1>8. ASSUME env.faults = {}
      PROVE  Faultless'
  <2>1. Faultless
    BY <1>8 DEF IInv
  <2>2. Plain'
    BY <1>3, <1>4, <2>1, EndedFacts DEF Faultless, Plain
  <2>3. Running(r) /\ Chunk(r) \notin playback.live
    BY <2>1 DEF Faultless, Plain, IInv, Typed, Response, Running, Sounding
  \* The session it holds the epoch of is the current one, and becomes free;
  \* otherwise nothing happens to the sessions.
  <2>4. /\ z # cur => sess' = sess /\ sess[z].epoch # e
        /\ \A s \in Sessions \ {cur} : sess'[s] = sess[s]
        /\ sess[z].epoch = e => z = cur /\ sess[cur].owner = r
        /\ sess[z].epoch # e => sess' = sess /\ \A s \in Sessions : sess[s].owner # r
    <3>1. sess[z].epoch = e => sess[z].owner = r /\ z = cur
      BY <1>1, <2>1, <2>3, Numbers DEF Faultless, Turns
    <3>2. sess[z].epoch # e => sess' = sess
      BY <1>3 DEF IInv, Typed
    <3>3. \A s \in Sessions : sess[s].owner = r => sess[z].epoch = e
      BY <1>1, <2>1, Numbers DEF Faultless, Turns
    <3> QED BY <1>1, <1>3, <3>1, <3>2, <3>3
  <2>5. CASE sess[z].epoch = e
    <3>1. \A s \in Sessions : sess'[s].owner = Nobody
      BY <1>3, <2>1, <2>4, <2>5 DEF Faultless, Turns
    <3>2. Turns'
      <4>1. ASSUME NEW q \in Responses, resp'[q].pc = "pipeline"
            PROVE  /\ resp'[q].epoch <= sess'[resp'[q].sess].epoch
                   /\ resp'[q].epoch # sess'[resp'[q].sess].epoch
        <5>1. q # r /\ resp'[q] = resp[q] /\ resp[q].sess \in Sessions
          BY <1>4, <4>1, EndedFacts DEF IInv, Typed, Response
        <5>2. /\ resp[q].epoch <= sess[resp[q].sess].epoch
              /\ resp[q].epoch = sess[resp[q].sess].epoch => sess[resp[q].sess].owner = q
          BY <2>1, <4>1, <5>1 DEF Faultless, Turns, Running
        <5>3. sess[resp[q].sess].owner # q
          <6>1. sess[resp[q].sess].owner # Nobody => resp[q].sess = cur
            BY <2>1, <5>1 DEF Faultless, Turns
          <6> QED BY <2>4, <2>5, <5>1, <6>1, Numbers
        <5> QED BY <1>3, <5>1, <5>2, <5>3
      <4> QED BY <3>1, <4>1 DEF Turns, Running
    <3>3. Waits'
      <4>1. \A u \in Utterances : utt[u].sess \in Sessions
        BY DEF IInv, Typed, Call
      <4> QED BY <1>3, <2>1, <3>1, <4>1 DEF Faultless, Waits, StillCurrent
    <3>4. ToCome'
      BY <1>1, <1>3, <2>1, <2>4, <2>5, <3>1, Numbers DEF Faultless, ToCome
    <3>5. OwnersSound'
      BY <2>1, <2>3, <2>4, <2>5 DEF Faultless, OwnersSound, Chunk
    <3>6. BusyIsOwned'
      BY <1>3, <2>4, <2>5 DEF BusyIsOwned
    <3> QED BY <2>2, <3>2, <3>3, <3>4, <3>5, <3>6 DEF Faultless
  <2>6. CASE sess[z].epoch # e
    <3>1. sess' = sess /\ (\A s \in Sessions : sess[s].owner # r)
      BY <2>4, <2>6
    <3>2. Turns'
      <4>1. ASSUME NEW q \in Responses, resp'[q].pc = "pipeline"
            PROVE  /\ resp'[q].epoch <= sess'[resp'[q].sess].epoch
                   /\ resp'[q].epoch = sess'[resp'[q].sess].epoch => sess'[resp'[q].sess].owner = q
        <5>1. q # r /\ resp'[q] = resp[q]
          BY <1>4, <4>1, EndedFacts
        <5> QED BY <2>1, <3>1, <4>1, <5>1 DEF Faultless, Turns, Running
      <4>2. ASSUME NEW s \in Sessions, sess[s].owner # Nobody
            PROVE  resp'[sess[s].owner] = resp[sess[s].owner]
        BY <1>4, <3>1, <4>2 DEF IInv, Typed, SessionRecord
      <4>3. ASSUME NEW s \in Sessions, sess[s].owner # Nobody
            PROVE  /\ s = cur /\ sess[s].phase \in Busy /\ resp[sess[s].owner].pc = "pipeline"
                   /\ resp[sess[s].owner].sess = s /\ resp[sess[s].owner].epoch = sess[s].epoch
                   /\ ~resp[sess[s].owner].aborted
        BY <2>1, <4>3 DEF Faultless, Turns, Running
      <4> QED BY <3>1, <4>1, <4>2, <4>3 DEF Turns, Running
    <3>3. Waits' /\ ToCome' /\ OwnersSound' /\ BusyIsOwned'
      BY <2>1, <3>1 DEF Faultless, Waits, ToCome, OwnersSound, BusyIsOwned, StillCurrent, Chunk, service
    <3> QED BY <2>2, <3>2, <3>3 DEF Faultless
  <2> QED BY <2>5, <2>6
<1> QED BY <1>5, <1>6, <1>7, <1>8 DEF IInv

\* Where something may fail only the shapes and the silence are claimed.
LEMMA FaultStep ==
  ASSUME IInv, Typed', Counted', env' = env, env.faults # {},
         \A r \in Responses : Chunk(r) \in playback'.live =>
           /\ Chunk(r) \in playback.live
           /\ Running(r) => resp'[r].pc = "pipeline" /\ resp'[r].chunk = resp[r].chunk /\ resp'[r].aborted = resp[r].aborted
  PROVE  IInv'
<1>1. Sounding'
  BY DEF IInv, Sounding, Running, Chunk
<1> QED BY <1>1 DEF IInv

-----------------------------------------------------------------------------
(* The calls.                                                              *)

\* What a call becomes, and what its session does.
LEMMA CallKept ==
  ASSUME IInv, NEW u \in Utterances, utt[u].pc # "done", NEW c \in Call, utt' = [utt EXCEPT ![u] = c],
         \A r \in Responses : resp'[r].pc # "none" => resp[r].pc # "none",
         floor' = floor, utt[u].pc # "floor"
  PROVE  utt' \in [Utterances -> Call] /\ utt'[u] = c /\ (\A v \in Utterances \ {u} : utt'[v] = utt[v]) /\ Counted'
<1>1. utt' \in [Utterances -> Call] /\ utt'[u] = c /\ \A v \in Utterances \ {u} : utt'[v] = utt[v]
  BY DEF IInv, Typed
<1>2. Cardinality(Begun') <= Cardinality(Over')
  BY <1>1, CountKept DEF IInv
<1>3. \A v \in floor'.group : utt'[v].pc = "floor"
  <2>1. floor.group \subseteq Utterances /\ (\A v \in floor.group : utt[v].pc = "floor")
    BY DEF IInv, Typed, Floor, Counted
  <2> QED BY <1>1, <2>1
<1> QED BY <1>1, <1>2, <1>3 DEF Counted

\* A call that comes to nothing leaves the guild idle, or as it is.
LEMMA ComesToNothing ==
  ASSUME IInv, NEW u \in Utterances, utt[u].pc \in {"none", "asr", "authorizing"},
         utt' = [utt EXCEPT ![u] = Settled(u)],
         UNCHANGED <<env, service, cur, floor, resp, playback>>,
         \/ sess' = sess
         \/ utt[u].pc = "asr" /\ (env.faults = {} => StillCurrent(u))
            /\ sess' = [sess EXCEPT ![utt[u].sess] = IdleUnlessPending(@)]
  PROVE  IInv'
<1>1. Settled(u) \in Call /\ Settled(u).pc = "done"
  BY SettledFacts DEF IInv
<1>2. utt' \in [Utterances -> Call] /\ utt'[u] = Settled(u) /\ (\A v \in Utterances \ {u} : utt'[v] = utt[v]) /\ Counted'
  BY <1>1, CallKept
<1> DEFINE s == utt[u].sess
<1>3. /\ s \in Sessions /\ sess[s] \in SessionRecord /\ cur \in Sessions
      /\ IdleUnlessPending(sess[s]) = sess[s] \/ IdleUnlessPending(sess[s]) = Move(sess[s], "idle")
  BY DEF IInv, Typed, Call, IdleUnlessPending
<1>4. LET n == Move(sess[s], "idle") IN
      n \in SessionRecord /\ n.epoch = sess[s].epoch /\ n.owner = sess[s].owner /\ n.cooldown = sess[s].cooldown
      /\ n.phase \notin Busy /\ n.phase \in {sess[s].phase, "idle"}
  BY <1>3, MoveFacts DEF Phases
<1>5. /\ sess' \in [Sessions -> SessionRecord]
      /\ \A t \in Sessions : /\ sess'[t].epoch = sess[t].epoch /\ sess'[t].owner = sess[t].owner
                             /\ sess'[t].cooldown = sess[t].cooldown
                             /\ sess'[t].phase \in {sess[t].phase, "idle"}
                             /\ sess'[t] # sess[t] => t = s /\ sess'[t].phase \notin Busy
                                                      /\ (env.faults = {} => utt[u].pc = "asr" /\ StillCurrent(u))
  BY <1>3, <1>4 DEF IInv, Typed
<1>6. Typed'
  BY <1>2, <1>5 DEF IInv, Typed, service
<1>7. ASSUME env.faults = {}
      PROVE  Undisturbed
  <2>1. Faultless
    BY <1>7 DEF IInv
  <2>2. \A t \in Sessions : sess'[t] # sess[t] => sess[t].owner = Nobody
    BY <1>5, <1>7, <2>1 DEF Faultless, Waits, StillCurrent
  <2>3. \A t \in Sessions : t > cur => sess'[t].phase = "idle"
    <3>1. ASSUME NEW t \in Sessions, t > cur, sess'[t] # sess[t]
          PROVE  sess'[t].phase = "idle"
      <4>1. t = s /\ sess[s].phase = "idle" /\ sess' = [sess EXCEPT ![s] = IdleUnlessPending(@)]
        BY <1>5, <2>1, <3>1 DEF Faultless, ToCome
      <4>2. Move(sess[s], "idle") = sess[s]
        BY <4>1 DEF Move, LegalTransitions
      <4> QED BY <1>3, <3>1, <4>1, <4>2 DEF IInv, Typed
    <3> QED BY <2>1, <3>1 DEF Faultless, ToCome
  <2>4. \A t \in Sessions : sess[t].owner # Nobody => sess'[t].phase \in Busy
    BY <2>1, <2>2 DEF Faultless, Turns
  <2>5. /\ sess'[cur].phase \in Busy => sess[cur].phase \in Busy
        /\ sess[cur].phase # "disconnecting" => sess'[cur].phase # "disconnecting"
    BY <1>3, <1>5
  <2>6. \A v \in Utterances : /\ utt'[v].pc \notin {"noticeSynth", "noticeSounds"}
                              /\ utt'[v].pc \in {"asr", "authorizing"} => utt'[v] = utt[v]
    BY <1>1, <1>2, <2>1 DEF Faultless, Plain
  <2>7. /\ \A r \in Responses : resp'[r].source # "limited"
        /\ \A t \in Sessions : /\ sess'[t].epoch = sess[t].epoch /\ sess'[t].owner = sess[t].owner
                               /\ ~sess'[t].cooldown
    BY <1>5, <2>1 DEF Faultless, Plain
  <2>8. \A t \in Sessions :
          /\ sess'[t].epoch = sess[t].epoch /\ sess'[t].owner = sess[t].owner /\ ~sess'[t].cooldown
          /\ sess[t].owner # Nobody => sess'[t].phase \in Busy
          /\ t > cur => sess'[t].phase = "idle"
    BY <2>3, <2>4, <2>7
  <2>9. \A v \in Utterances :
          /\ utt'[v].pc \notin {"noticeSynth", "noticeSounds"}
          /\ utt'[v].pc \in {"asr", "authorizing"} =>
               utt'[v] = utt[v] \/ (utt'[v].sess = cur /\ utt'[v].epoch = sess[cur].epoch /\ sess[cur].owner = Nobody)
    BY <2>6
  <2> QED BY <2>5, <2>7, <2>8, <2>9, Zenon DEF Undisturbed
<1> QED BY <1>2, <1>6, <1>7, SteadyStep DEF service

LEMMA StaleKept == ASSUME IInv, NEW u \in Utterances, TranscriptStale(u) PROVE IInv'
BY ComesToNothing DEF TranscriptStale, service

LEMMA FilteredKept == ASSUME IInv, NEW u \in Utterances, TranscriptFiltered(u) PROVE IInv'
BY ComesToNothing DEF TranscriptFiltered

LEMMA AsrFailsKept == ASSUME IInv, NEW u \in Utterances, AsrFails(u) PROVE IInv'
<1>1. env.faults # {}
  BY DEF AsrFails
<1> QED BY <1>1, ComesToNothing DEF AsrFails

LEMMA RefusedKept == ASSUME IInv, NEW u \in Utterances, TestRefused(u) PROVE IInv'
BY ComesToNothing DEF TestRefused, service

\* Notices and the cooldown: the shapes alone.
LEMMA CooldownKept == ASSUME IInv, NEW u \in Utterances, TranscriptInCooldown(u) PROVE IInv'
<1> DEFINE s == utt[u].sess
           n == [utt[u] EXCEPT !.pc = "noticeSynth", !.epoch = sess[s].epoch + 1]
<1>1. /\ s \in Sessions /\ sess[s] \in SessionRecord /\ utt[u] \in Call /\ utt[u].pc = "asr"
      /\ sess[s].cooldown /\ UNCHANGED <<env, cur, lost, authority, floor, resp, playback>>
  BY DEF TranscriptInCooldown, IInv, Typed, Call, service
<1>2. env.faults # {}
  BY <1>1 DEF IInv, Faultless, Plain
<1>3. /\ Settled(u) \in Call /\ n \in Call
      /\ Move(sess[s], "idle") \in SessionRecord /\ Announcing(sess[s]) \in SessionRecord
  <2>1. sess[s].epoch + 1 \in Nat
    BY <1>1 DEF SessionRecord
  <2>2. n \in Call
    BY <1>1, <2>1 DEF Call
  <2> QED BY <1>1, <2>2, SettledFacts, MoveFacts, AnnouncingFacts DEF IInv, Phases
<1>4. PICK c \in Call, m \in SessionRecord : utt' = [utt EXCEPT ![u] = c] /\ sess' = [sess EXCEPT ![s] = m]
  <2>1. CASE sess[s].announced
    BY <1>3, <2>1 DEF TranscriptInCooldown
  <2>2. CASE ~sess[s].announced
    <3>1. utt' = [utt EXCEPT ![u] = n] /\ sess' = [sess EXCEPT ![s] = Announcing(sess[s])]
      BY <1>1, <2>2 DEF TranscriptInCooldown, IInv, Typed
    <3> QED BY <1>3, <3>1
  <2> QED BY <2>1, <2>2
<1>5. Counted' /\ Typed'
  <2>1. utt' \in [Utterances -> Call] /\ Counted'
    BY <1>1, <1>4, CallKept
  <2> QED BY <1>1, <1>4, <2>1 DEF IInv, Typed
<1> QED BY <1>1, <1>2, <1>5, FaultStep DEF Running

LEMMA EnqueuedFacts ==
  ASSUME Typed, NEW item \in Items, NEW e \in Nat
  PROVE  LET q == Enqueued(item, e) IN
         /\ q \in Scheduler /\ q.live = playback.live \cup {item}
<1> DEFINE C == {c \in playback.cancelled : c >= e}
           L == playback.live \cup {item}
           SC == SUBSET Nat
           SL == SUBSET Items
<1>1. C \in SC /\ L \in SL /\ Scheduler = [latest : Nat, cancelled : SC, live : SL]
  BY DEF Typed, Scheduler
<1>2. Enqueued(item, e) = [latest |-> e, cancelled |-> C, live |-> L]
  BY DEF Enqueued
<1> HIDE DEF C, SC, SL
<1> QED BY <1>1, <1>2

LEMMA ItemFacts ==
  /\ \A r \in Responses : Chunk(r) \in Items /\ [of |-> "notice", id |-> r] \in Items
  /\ \A u \in Utterances : [of |-> "cooldown", id |-> u] \in Items
  /\ \A r : \A k : k # "chunk" => \A i : Chunk(r) # [of |-> k, id |-> i]
  /\ \A q, r : Chunk(q) = Chunk(r) => q = r
BY DEF Items, ItemsOf, Chunk

LEMMA UtteranceNoticeKept == ASSUME IInv, NEW u \in Utterances, Noticed(u) PROVE IInv'
<1> DEFINE s == utt[u].sess
           n == [utt[u] EXCEPT !.pc = "noticeSounds"]
<1>1. /\ s \in Sessions /\ sess[s] \in SessionRecord /\ utt[u] \in Call
      /\ utt[u].pc \in {"noticeSynth", "noticeSounds"}
      /\ UNCHANGED <<env, cur, lost, authority, floor, resp>>
  BY DEF Noticed, NoticeOfUtterance, NoticeOfUtteranceEnds, IInv, Typed, Call, service
<1>2. env.faults # {}
  BY <1>1 DEF IInv, Faultless, Plain
<1>3. /\ Settled(u) \in Call /\ n \in Call
      /\ Move(sess[s], "idle") \in SessionRecord
  <2>2. n \in Call
    BY <1>1 DEF Call
  <2> QED BY <1>1, <2>2, SettledFacts, MoveFacts DEF IInv, Phases
<1>4. PICK c \in Call, m \in SessionRecord : utt' = [utt EXCEPT ![u] = c] /\ sess' = [sess EXCEPT ![s] = m]
  <2>1. \/ utt' = [utt EXCEPT ![u] = n] /\ sess' = [sess EXCEPT ![s] = sess[s]]
        \/ utt' = [utt EXCEPT ![u] = Settled(u)] /\ sess' = [sess EXCEPT ![s] = Move(sess[s], "idle")]
    BY <1>1 DEF Noticed, NoticeOfUtterance, NoticeOfUtteranceEnds, IInv, Typed
  <2> QED BY <1>1, <1>3, <2>1
<1>5. playback' \in Scheduler /\ \A r \in Responses : Chunk(r) \in playback'.live => Chunk(r) \in playback.live
  <2>1. CASE playback' = playback
    BY <2>1 DEF IInv, Typed
  <2>2. CASE playback' = Enqueued([of |-> "cooldown", id |-> u], utt[u].epoch)
    <3>1. utt[u].epoch \in Nat
      BY <1>1 DEF Call
    <3>2. playback' \in Scheduler /\ playback'.live = playback.live \cup {[of |-> "cooldown", id |-> u]}
      BY <2>2, <3>1, EnqueuedFacts, ItemFacts DEF IInv
    <3> QED BY <3>2, ItemFacts
  <2> QED BY <2>1, <2>2 DEF Noticed, NoticeOfUtterance, NoticeOfUtteranceEnds
<1>6. Counted' /\ Typed'
  <2>1. utt' \in [Utterances -> Call] /\ Counted'
    BY <1>1, <1>4, CallKept
  <2> QED BY <1>1, <1>4, <1>5, <2>1 DEF IInv, Typed
<1> QED BY <1>1, <1>2, <1>5, <1>6, FaultStep DEF Running

-----------------------------------------------------------------------------
(* Admission, the floor and the voice service.                             *)

LEMMA AdmitKept == ASSUME IInv, NEW u \in Utterances, Admit(u) PROVE IInv'
<1>1. /\ utt[u].pc = "none" /\ UNCHANGED <<env, cur, lost, authority, floor>>
      /\ cur \in Sessions /\ sess[cur] \in SessionRecord /\ sess[cur].owner \in Responses \cup {Nobody}
      /\ sess[cur].epoch \in Nat
  BY DEF Admit, Comes, IInv, Typed, SessionRecord, service
<1>2. CASE Rejected
  BY <1>1, <1>2, ComesToNothing DEF Admit, service
<1> DEFINE interrupts == Interrupting /\ sess[cur].phase \in Busy
           x == IF interrupts THEN Cancelled(sess[cur]) ELSE sess[cur]
           n == IF x.phase = "idle" THEN Move(x, "collecting") ELSE x
           c == [pc |-> "asr", sess |-> cur, epoch |-> x.epoch]
<1>3. CASE ~Rejected
  <2>1. /\ sess' = [sess EXCEPT ![cur] = n] /\ utt' = [utt EXCEPT ![u] = c]
        /\ resp' = IF interrupts THEN Aborted(sess[cur].owner) ELSE resp
        /\ playback' = IF interrupts THEN Silenced(sess[cur].epoch) ELSE playback
    BY <1>3 DEF Admit
  <2>2. /\ x \in SessionRecord /\ x.cooldown = sess[cur].cooldown
        /\ interrupts => x.epoch = sess[cur].epoch + 1 /\ x.owner = Nobody /\ x.phase = "idle"
        /\ ~interrupts => x = sess[cur] /\ sess[cur].phase \notin Busy
    BY <1>1, <1>3, CancelledFacts DEF Rejected, Interrupting, IInv, Typed
  <2>3. /\ n \in SessionRecord /\ n.epoch = x.epoch /\ n.owner = x.owner /\ n.cooldown = x.cooldown
        /\ n.phase \notin Busy /\ n.phase \in {x.phase, "collecting"}
  <3> HIDE DEF x
  <3>1. CASE x.phase = "idle"
    BY <2>2, <3>1, MoveFacts DEF Phases, Busy
  <3>2. CASE x.phase # "idle"
    BY <2>2, <3>2 DEF Busy
  <3> QED BY <3>1, <3>2
  <2> HIDE DEF x, n, interrupts
  <2>4. c \in Call /\ c.pc = "asr" /\ c.sess = cur /\ c.epoch = x.epoch
    BY <1>1, <2>2 DEF Call, SessionRecord
  <2> HIDE DEF c
  <2>5. resp' \in [Responses -> Response] /\ playback' \in Scheduler
        /\ \A r \in Responses : resp'[r].pc = resp[r].pc
    BY <1>1, <2>1, AbortedFacts, SilencedFacts DEF IInv, Typed
  <2>6. /\ utt' \in [Utterances -> Call] /\ utt'[u] = c /\ Counted'
        /\ \A v \in Utterances \ {u} : utt'[v] = utt[v]
    BY <1>1, <2>1, <2>4, <2>5, CallKept
  <2>7. sess' \in [Sessions -> SessionRecord] /\ sess'[cur] = n /\ \A s \in Sessions \ {cur} : sess'[s] = sess[s]
    BY <1>1, <2>1, <2>3 DEF IInv, Typed
  <2>8. Typed'
    BY <1>1, <2>5, <2>6, <2>7 DEF IInv, Typed
  <2>9. env.faults = {} => \A v \in Utterances : utt[v].pc \notin {"noticeSynth", "noticeSounds"}
    BY DEF IInv, Faultless, Plain
  <2>10. CASE interrupts
    <3>1. \A v \in Utterances : env.faults = {} =>
            /\ utt'[v].pc \notin {"noticeSynth", "noticeSounds"}
            /\ utt'[v].pc \in {"asr", "authorizing"} =>
                 utt'[v] = utt[v] \/ (utt'[v].sess = cur /\ cur' = cur /\ utt'[v].epoch = sess[cur].epoch + 1)
      BY <1>1, <2>2, <2>4, <2>6, <2>9, <2>10
    <3>2. resp' = Aborted(sess[cur].owner) /\ playback'.live = {}
      BY <1>1, <2>1, <2>10, SilencedFacts DEF IInv
    <3> QED BY <1>1, <2>2, <2>3, <2>6, <2>7, <2>8, <2>10, <3>1, <3>2, CancelStep
  <2>11. CASE ~interrupts
    <3>1. ASSUME env.faults = {}
          PROVE  Undisturbed
      <4>1. Faultless
        BY <3>1 DEF IInv
      <4>2. sess[cur].owner = Nobody /\ resp' = resp
        BY <1>1, <2>1, <2>2, <2>11, <4>1 DEF Faultless, Turns
      <4>3. \A s \in Sessions :
              /\ sess'[s].epoch = sess[s].epoch /\ sess'[s].owner = sess[s].owner /\ ~sess'[s].cooldown
              /\ sess[s].owner # Nobody => sess'[s].phase \in Busy
              /\ s > cur => sess'[s].phase = "idle"
        <5>1. /\ \A s \in Sessions : sess'[s].epoch = sess[s].epoch /\ sess'[s].owner = sess[s].owner
              /\ \A s \in Sessions : ~sess'[s].cooldown
          BY <2>2, <2>3, <2>7, <2>11, <4>1 DEF Faultless, Plain
        <5>2. \A s \in Sessions : sess[s].owner # Nobody => s # cur /\ sess[s].phase \in Busy
          BY <4>1, <4>2 DEF Faultless, Turns
        <5>3. \A s \in Sessions : s > cur => s # cur /\ sess[s].phase = "idle"
          BY <1>1, <4>1, Numbers DEF Faultless, ToCome
        <5> QED BY <2>7, <5>1, <5>2, <5>3
      <4>4. \A v \in Utterances :
              /\ utt'[v].pc \notin {"noticeSynth", "noticeSounds"}
              /\ utt'[v].pc \in {"asr", "authorizing"} =>
                   utt'[v] = utt[v] \/ (utt'[v].sess = cur /\ utt'[v].epoch = sess[cur].epoch /\ sess[cur].owner = Nobody)
        BY <2>2, <2>4, <2>6, <2>9, <2>11, <3>1, <4>2
      <4>5. \A r \in Responses : resp'[r].source # "limited"
        BY <4>1, <4>2 DEF Faultless, Plain
      <4>6. /\ sess'[cur].phase \in Busy => sess[cur].phase \in Busy
            /\ sess[cur].phase # "disconnecting" => sess'[cur].phase # "disconnecting"
        BY <2>2, <2>3, <2>7, <2>11
      <4> QED BY <4>3, <4>4, <4>5, <4>6, Zenon DEF Undisturbed
    <3> QED BY <1>1, <2>1, <2>6, <2>8, <2>11, <3>1, SteadyStep
  <2> QED BY <2>10, <2>11
<1> QED BY <1>2, <1>3

LEMMA AcceptedKept == ASSUME IInv, NEW u \in Utterances, TranscriptAccepted(u) PROVE IInv'
<1>1. /\ utt[u].pc = "asr" /\ StillCurrent(u) /\ UNCHANGED <<env, cur, lost, authority, resp, playback>>
      /\ floor \in Floor /\ (floor.timer <=> floor.group # {}) /\ utt[u] \in Call /\ utt[u].epoch \in Nat
  BY DEF TranscriptAccepted, IInv, Typed, Call, service
<1>2. CASE utt' = [utt EXCEPT ![u] = Settled(u)] /\ sess' = [sess EXCEPT ![utt[u].sess] = IdleUnlessPending(@)]
           /\ UNCHANGED floor
  BY <1>1, <1>2, ComesToNothing DEF service
<1>3. CASE (FloorOpens(u) \/ FloorGrows(u)) /\ utt' = [utt EXCEPT ![u].pc = "floor"] /\ sess' = sess
  <2> DEFINE c == [utt[u] EXCEPT !.pc = "floor"]
             G == SUBSET Utterances
             F == [group : G, epoch : Nat, timer : BOOLEAN, overflow : BOOLEAN, lease : BOOLEAN]
  <2>1. c \in Call /\ c.pc = "floor" /\ utt' = [utt EXCEPT ![u] = c]
    BY <1>1, <1>3 DEF Call, IInv, Typed
  <2> HIDE DEF c
  <2>2. /\ utt' \in [Utterances -> Call] /\ utt'[u] = c /\ \A v \in Utterances \ {u} : utt'[v] = utt[v]
    BY <2>1 DEF IInv, Typed
  <2>3. floor \in F /\ F = Floor /\ {u} \in G /\ floor.group \cup {u} \in G /\ {u} # {} /\ floor.group \cup {u} # {}
    BY <1>1 DEF Floor
  <2> HIDE DEF G
  <2>4. /\ floor' \in Floor /\ floor'.group \in {{u}, floor.group \cup {u}} /\ floor'.timer = TRUE
    <3>1. CASE FloorOpens(u)
      <4>1. floor' = [floor EXCEPT !.group = {u}, !.epoch = utt[u].epoch, !.timer = TRUE]
        BY <3>1 DEF FloorOpens
      <4> QED BY <1>1, <2>3, <4>1
    <3>2. CASE FloorGrows(u)
      <4>1. PICK b \in BOOLEAN : floor' = [floor EXCEPT !.group = floor.group \cup {u}, !.overflow = b]
        <5>1. PICK crowded \in BOOLEAN : floor' = [floor EXCEPT !.group = @ \cup {u}, !.overflow = @ \/ crowded]
          BY <3>2 DEF FloorGrows
        <5>2. floor.overflow \/ crowded \in BOOLEAN
          OBVIOUS
        <5> QED BY <5>1, <5>2
      <4>2. floor.timer = TRUE
        BY <1>1, <2>3, <3>2 DEF FloorGrows
      <4>3. floor' \in F /\ floor'.group = floor.group \cup {u} /\ floor'.timer = floor.timer
        BY <2>3, <4>1
      <4> QED BY <2>3, <4>2, <4>3
    <3> QED BY <1>3, <3>1, <3>2
  <2>5. floor'.group # {} /\ \A v \in floor'.group : v \in Utterances /\ utt'[v].pc = "floor"
    <3>1. \A v \in floor.group : v \in Utterances /\ utt[v].pc = "floor"
      BY DEF IInv, Counted, Typed, Floor
    <3> QED BY <2>1, <2>2, <2>4, <3>1
  <2>6. Counted'
    <3>1. Cardinality(Begun') <= Cardinality(Over')
      BY <1>1, <2>1, <2>2, CountKept DEF IInv
    <3> QED BY <2>5, <3>1 DEF Counted
  <2>7. Typed'
    BY <1>1, <1>3, <2>2, <2>4, <2>5 DEF IInv, Typed
  <2>8. ASSUME env.faults = {}
        PROVE  Undisturbed
    <3>1. Faultless
      BY <2>8 DEF IInv
    <3>2. /\ \A r \in Responses : resp'[r].source # "limited"
          /\ \A s \in Sessions :
               /\ sess'[s].epoch = sess[s].epoch /\ sess'[s].owner = sess[s].owner /\ ~sess'[s].cooldown
               /\ sess[s].owner # Nobody => sess'[s].phase \in Busy
               /\ s > cur => sess'[s].phase = "idle"
          /\ sess'[cur].phase \in Busy => sess[cur].phase \in Busy
          /\ sess[cur].phase # "disconnecting" => sess'[cur].phase # "disconnecting"
      BY <1>1, <1>3, <3>1 DEF Faultless, Plain, Turns, ToCome
    <3>3. \A v \in Utterances :
            /\ utt'[v].pc \notin {"noticeSynth", "noticeSounds"}
            /\ utt'[v].pc \in {"asr", "authorizing"} =>
                 utt'[v] = utt[v] \/ (utt'[v].sess = cur /\ utt'[v].epoch = sess[cur].epoch /\ sess[cur].owner = Nobody)
      BY <2>1, <2>2, <3>1 DEF Faultless, Plain
    <3> QED BY <3>2, <3>3, Zenon DEF Undisturbed
  <2> QED BY <1>1, <2>6, <2>7, <2>8, SteadyStep
<1> QED BY <1>2, <1>3 DEF TranscriptAccepted

\* The group that was collected is over, and the floor empty.
LEMMA FlushFacts ==
  ASSUME IInv, Flush
  PROVE  /\ utt' \in [Utterances -> Call]
         /\ \A u \in Utterances : utt'[u] = utt[u] \/ utt'[u].pc = "done"
         /\ floor' \in Floor /\ floor'.group = {} /\ floor'.timer = FALSE
         /\ \E v \in Utterances : utt[v].pc # "done" /\ utt'[v].pc = "done"
<1>1. \A u \in Utterances : Settled(u) \in Call /\ Settled(u).pc = "done"
  BY SettledFacts DEF IInv
<1>2. utt' = [u \in Utterances |-> IF u \in floor.group THEN Settled(u) ELSE utt[u]]
  BY DEF Flush
<1>3. /\ floor \in Floor /\ floor.group \in SUBSET Utterances /\ floor.group # {}
      /\ \A v \in floor.group : utt[v].pc = "floor"
  BY DEF Flush, IInv, Typed, Counted, Floor
<1>4. PICK v \in Utterances : v \in floor.group
  BY <1>3
<1>5. utt' \in [Utterances -> Call] /\ \A u \in Utterances : utt'[u] = utt[u] \/ utt'[u].pc = "done"
  BY <1>1, <1>2 DEF IInv, Typed
<1>6. utt[v].pc # "done" /\ utt'[v].pc = "done"
  BY <1>1, <1>2, <1>3, <1>4
<1>7. floor' \in Floor /\ floor'.group = {} /\ floor'.timer = FALSE
  <2>1. PICK b \in BOOLEAN : floor' = EmptyFloor(b)
    <3>1. floor.lease \in BOOLEAN /\ (floor.lease \/ ~floor.overflow) \in BOOLEAN
      BY <1>3 DEF Floor
    <3> QED BY <3>1 DEF Flush
  <2>2. EmptyFloor(b) \in Floor
    BY DEF EmptyFloor, Floor
  <2> QED BY <2>1, <2>2 DEF EmptyFloor
<1> QED BY <1>5, <1>6, <1>7

LEMMA FlushKept == ASSUME IInv, Flush PROVE IInv'
<1>1. /\ utt' \in [Utterances -> Call]
      /\ \A u \in Utterances : utt'[u] = utt[u] \/ utt'[u].pc = "done"
      /\ floor' \in Floor /\ floor'.group = {} /\ floor'.timer = FALSE
  BY FlushFacts
<1>2. PICK v \in Utterances : utt[v].pc # "done" /\ utt'[v].pc = "done"
  BY FlushFacts
<1>3. UNCHANGED <<env, cur, lost, authority, playback>> /\ sess[cur] \in SessionRecord
  BY DEF Flush, IInv, Typed, service
<1>4. CASE UNCHANGED <<sess, resp>>
  <2>1. Counted' /\ Typed'
    <3>1. Cardinality(Begun') <= Cardinality(Over')
      BY <1>1, <1>4, CountKept DEF IInv
    <3> QED BY <1>1, <1>3, <1>4, <3>1 DEF Counted, IInv, Typed
  <2>2. ASSUME env.faults = {}
        PROVE  Undisturbed
    <3>1. Faultless
      BY <2>2 DEF IInv
    <3>2. /\ \A r \in Responses : resp'[r].source # "limited"
          /\ \A s \in Sessions :
               /\ sess'[s].epoch = sess[s].epoch /\ sess'[s].owner = sess[s].owner /\ ~sess'[s].cooldown
               /\ sess[s].owner # Nobody => sess'[s].phase \in Busy
               /\ s > cur => sess'[s].phase = "idle"
          /\ sess'[cur].phase \in Busy => sess[cur].phase \in Busy
          /\ sess[cur].phase # "disconnecting" => sess'[cur].phase # "disconnecting"
      BY <1>3, <1>4, <3>1 DEF Faultless, Plain, Turns, ToCome
    <3>3. \A u \in Utterances :
            /\ utt'[u].pc \notin {"noticeSynth", "noticeSounds"}
            /\ utt'[u].pc \in {"asr", "authorizing"} =>
                 utt'[u] = utt[u] \/ (utt'[u].sess = cur /\ utt'[u].epoch = sess[cur].epoch /\ sess[cur].owner = Nobody)
      BY <1>1, <3>1 DEF Faultless, Plain
    <3> QED BY <3>2, <3>3, Zenon DEF Undisturbed
  <2> QED BY <1>3, <1>4, <2>1, <2>2, SteadyStep
<1>5. CASE sess[cur].phase = "collecting"
           /\ StartResponse(IF floor.overflow THEN "oneAtATime" ELSE "reply", floor.group, sess[cur], resp)
  <2>1. PICK kind \in {"reply", "oneAtATime", "test"} : StartResponse(kind, floor.group, sess[cur], resp)
    BY <1>5
  <2>2. floor.group \in SUBSET Utterances /\ resp \in [Responses -> Response] /\ playback' \in Scheduler
        /\ authority' \in Utterances \cup {Nobody} /\ sess[cur].epoch \in Nat /\ cur \in Sessions
    BY <1>3 DEF IInv, Typed, Floor, SessionRecord
  <2>3. env.faults = {} => ~sess[cur].cooldown /\ sess[cur].owner = Nobody
    BY <1>5, <2>2 DEF IInv, Faultless, Plain, Turns, Busy
  <2> QED BY <1>1, <1>2, <1>3, <1>5, <2>1, <2>2, <2>3, StartStep
<1> QED BY <1>4, <1>5 DEF Flush

\* cancel(), whatever the call that supersedes the guild does for itself.
LEMMA CancelledKept ==
  ASSUME IInv, UNCHANGED <<env, cur, floor>>, lost => lost', lost' \in BOOLEAN,
         authority' \in Utterances \cup {Nobody},
         sess' = [sess EXCEPT ![cur] = Cancelled(@)],
         resp' = Aborted(sess[cur].owner), playback' = Silenced(sess[cur].epoch),
         \/ utt' = utt
         \/ \E u \in Utterances : \E c \in Call :
              /\ utt[u].pc = "none" /\ utt' = [utt EXCEPT ![u] = c]
              /\ \/ c.pc = "done"
                 \/ c.pc = "authorizing" /\ c.sess = cur /\ c.epoch = sess[cur].epoch + 1
  PROVE  IInv'
<1>1. /\ cur \in Sessions /\ sess[cur] \in SessionRecord /\ sess[cur].owner \in Responses \cup {Nobody}
      /\ sess[cur].epoch \in Nat
  BY DEF IInv, Typed, SessionRecord
<1>2. /\ Cancelled(sess[cur]) \in SessionRecord /\ Cancelled(sess[cur]).epoch = sess[cur].epoch + 1
      /\ Cancelled(sess[cur]).owner = Nobody /\ Cancelled(sess[cur]).cooldown = sess[cur].cooldown
      /\ Cancelled(sess[cur]).phase = "idle"
  BY <1>1, CancelledFacts
<1>3. resp' \in [Responses -> Response] /\ (\A r \in Responses : resp'[r].pc = resp[r].pc)
      /\ playback' \in Scheduler /\ playback'.live = {}
  BY <1>1, AbortedFacts, SilencedFacts DEF IInv
<1>4. /\ utt' \in [Utterances -> Call] /\ Counted'
      /\ \A v \in Utterances :
           \/ utt'[v] = utt[v] \/ utt'[v].pc = "done"
           \/ utt'[v].pc = "authorizing" /\ utt'[v].sess = cur /\ utt'[v].epoch = sess[cur].epoch + 1
  <2>1. CASE utt' = utt
    <3>1. Cardinality(Begun') <= Cardinality(Over')
      BY <1>3, <2>1, CountKept DEF IInv
    <3> QED BY <2>1, <3>1 DEF IInv, Typed, Counted
  <2>2. ASSUME NEW u \in Utterances, NEW c \in Call, utt[u].pc = "none", utt' = [utt EXCEPT ![u] = c],
               c.pc = "done" \/ (c.pc = "authorizing" /\ c.sess = cur /\ c.epoch = sess[cur].epoch + 1)
        PROVE  /\ utt' \in [Utterances -> Call] /\ Counted' /\ utt'[u] = c
               /\ \A v \in Utterances \ {u} : utt'[v] = utt[v]
    BY <1>3, <2>2, CallKept
  <2> QED BY <2>1, <2>2
<1>5. sess' \in [Sessions -> SessionRecord] /\ sess'[cur] = Cancelled(sess[cur])
      /\ \A s \in Sessions \ {cur} : sess'[s] = sess[s]
  BY <1>1, <1>2 DEF IInv, Typed
<1>6. Typed'
  BY <1>3, <1>4, <1>5 DEF IInv, Typed
<1>7. env.faults = {} => \A v \in Utterances :
        /\ utt'[v].pc \notin {"noticeSynth", "noticeSounds"}
        /\ utt'[v].pc \in {"asr", "authorizing"} =>
             utt'[v] = utt[v] \/ (utt'[v].sess = cur /\ cur' = cur /\ utt'[v].epoch = sess[cur].epoch + 1)
  BY <1>4 DEF IInv, Faultless, Plain
<1>8. /\ lost' \/ cur' # cur \/ sess'[cur].phase \notin Busy
      /\ cur' # cur \/ sess'[cur].phase \in {"idle", "collecting", sess[cur].phase}
  BY <1>2, <1>5 DEF Busy
<1> QED BY <1>2, <1>3, <1>4, <1>5, <1>6, <1>7, <1>8, CancelStep

LEMMA RoomResetKept == ASSUME IInv, RoomReset PROVE IInv'
BY CancelledKept DEF RoomReset, IInv, Typed

LEMMA TestVoiceKept == ASSUME IInv, NEW u \in Utterances, TestVoice(u) PROVE IInv'
<1> DEFINE c == [pc |-> "authorizing", sess |-> cur, epoch |-> sess[cur].epoch + 1]
<1>1. c \in Call
  BY DEF IInv, Typed, SessionRecord, Call
<1>2. utt[u].pc = "none" /\ utt' = [utt EXCEPT ![u] = c] /\ c.pc = "authorizing" /\ c.sess = cur
      /\ c.epoch = sess[cur].epoch + 1
  BY DEF TestVoice, Comes
<1> HIDE DEF c
<1> QED BY <1>1, <1>2, CancelledKept DEF TestVoice, service, IInv, Typed

\* Something stops sounding, and nothing else happens.
LEMMA PlaybackOnly ==
  ASSUME IInv, playback' \in Scheduler, playback'.live \subseteq playback.live,
         UNCHANGED <<sess, resp, utt, floor, env, cur, lost, authority>>
  PROVE  IInv'
<1>1. Typed' /\ Counted'
  BY DEF IInv, Typed, Counted, Begun, Over
<1>2. ASSUME env.faults = {}
      PROVE  Undisturbed
  <2>1. Faultless
    BY <1>2 DEF IInv
  <2> QED BY <2>1 DEF Faultless, Plain, Turns, ToCome, Undisturbed
<1> QED BY <1>1, <1>2, SteadyStep

LEMMA BargeInKept == ASSUME IInv, BargeIn PROVE IInv'
<1>1. CASE Interrupting
  BY <1>1, CancelledKept DEF BargeIn, service, IInv, Typed
<1>2. CASE ~Interrupting
  <2>1. playback' = [playback EXCEPT !.live = {}] /\ UNCHANGED <<sess, resp, utt, floor, env, cur, lost, authority>>
    BY <1>2 DEF BargeIn, service
  <2>2. playback' \in Scheduler /\ playback'.live = {}
    <3> DEFINE C == SUBSET Nat
               L == SUBSET Items
    <3>1. playback \in [latest : Nat, cancelled : C, live : L] /\ {} \in L
          /\ Scheduler = [latest : Nat, cancelled : C, live : L]
      BY DEF IInv, Typed, Scheduler
    <3> HIDE DEF C, L
    <3> QED BY <2>1, <3>1
  <2> QED BY <2>1, <2>2, PlaybackOnly
<1> QED BY <1>1, <1>2

LEMMA DecideKept == ASSUME IInv, NEW u \in Utterances, Decide(u) PROVE IInv'
<1> DEFINE x == Cancelled(sess[cur])
           y == Move(x, "collecting")
           others == Aborted(sess[cur].owner)
<1>1. /\ cur \in Sessions /\ sess[cur] \in SessionRecord /\ sess[cur].owner \in Responses \cup {Nobody}
      /\ sess[cur].epoch \in Nat /\ utt[u].pc = "none" /\ ~lost
      /\ authority' = u /\ playback' = Silenced(sess[cur].epoch) /\ UNCHANGED <<env, cur, lost, floor>>
  BY DEF Decide, Comes, IInv, Typed, SessionRecord
<1>2. /\ x \in SessionRecord /\ x.epoch = sess[cur].epoch + 1 /\ x.cooldown = sess[cur].cooldown /\ x.phase = "idle"
  BY <1>1, CancelledFacts
<1>3. /\ y \in SessionRecord /\ y.epoch = x.epoch /\ y.cooldown = x.cooldown /\ y.phase = "collecting"
  <2> HIDE DEF x
  <2> QED BY <1>2, MoveFacts DEF Phases
<1>4. /\ others \in [Responses -> Response]
      /\ \A r \in Responses : /\ others[r].pc = resp[r].pc /\ others[r].sess = resp[r].sess
                              /\ others[r].epoch = resp[r].epoch /\ others[r].source = resp[r].source
  BY <1>1, AbortedFacts DEF IInv
<1>5. playback' \in Scheduler /\ playback'.live = {}
  BY <1>1, SilencedFacts DEF IInv
<1>6. \/ /\ sess' = [sess EXCEPT ![cur] = x]
         /\ utt' = [utt EXCEPT ![u] = Settled(u)] /\ resp' = others
      \/ /\ x.cooldown
         /\ sess' = [sess EXCEPT ![cur] = Announcing(y)]
         /\ utt' = [utt EXCEPT ![u] = [pc |-> "noticeSynth", sess |-> cur, epoch |-> y.epoch + 1]]
         /\ resp' = others
      \/ /\ ~x.cooldown
         /\ StartResponse("reply", {u}, y, others)
         /\ utt' = [utt EXCEPT ![u] = [Settled(u) EXCEPT !.sess = cur]]
  BY DEF Decide
<1>7. Settled(u) \in Call /\ Settled(u).pc = "done"
  BY SettledFacts DEF IInv
<1>8. CASE /\ sess' = [sess EXCEPT ![cur] = x]
           /\ utt' = [utt EXCEPT ![u] = Settled(u)] /\ resp' = others
  BY <1>1, <1>7, <1>8, CancelledKept DEF IInv, Typed
<1> HIDE DEF x, y, others
<1>9. CASE /\ x.cooldown
           /\ sess' = [sess EXCEPT ![cur] = Announcing(y)]
           /\ utt' = [utt EXCEPT ![u] = [pc |-> "noticeSynth", sess |-> cur, epoch |-> y.epoch + 1]]
           /\ resp' = others
  <2> DEFINE c == [pc |-> "noticeSynth", sess |-> cur, epoch |-> y.epoch + 1]
  <2>1. c \in Call /\ Announcing(y) \in SessionRecord
    BY <1>1, <1>2, <1>3, AnnouncingFacts DEF Call
  <2>2. utt' = [utt EXCEPT ![u] = c]
    BY <1>9
  <2> HIDE DEF c
  <2>3. utt' \in [Utterances -> Call] /\ Counted'
    BY <1>1, <1>4, <1>9, <2>1, <2>2, CallKept
  <2>4. Typed'
    BY <1>1, <1>4, <1>5, <1>9, <2>1, <2>3 DEF IInv, Typed
  <2>5. env.faults # {}
    BY <1>1, <1>2, <1>9 DEF IInv, Faultless, Plain
  <2> QED BY <1>1, <1>5, <2>3, <2>4, <2>5, FaultStep
<1>10. CASE /\ ~x.cooldown
            /\ StartResponse("reply", {u}, y, others)
            /\ utt' = [utt EXCEPT ![u] = [Settled(u) EXCEPT !.sess = cur]]
  <2> DEFINE c == [Settled(u) EXCEPT !.sess = cur]
  <2>1. c \in Call /\ c.pc = "done"
    BY <1>1, <1>7 DEF Call
  <2>2. utt' = [utt EXCEPT ![u] = c]
    BY <1>10
  <2> HIDE DEF c
  <2>3. utt' \in [Utterances -> Call] /\ utt'[u] = c /\ \A v \in Utterances \ {u} : utt'[v] = utt[v]
    BY <2>1, <2>2 DEF IInv, Typed
  <2>4. /\ floor' \in Floor /\ (floor'.timer <=> floor'.group # {}) /\ \A v \in floor'.group : utt'[v].pc = "floor"
    <3>1. floor.group \subseteq Utterances /\ \A v \in floor.group : utt[v].pc = "floor"
      BY DEF IInv, Typed, Floor, Counted
    <3> QED BY <1>1, <2>3, <3>1 DEF IInv, Typed
  <2>5. /\ \A v \in Utterances : utt[v].pc = "done" => utt'[v].pc = "done"
        /\ \A v \in Utterances : utt'[v] = utt[v] \/ utt'[v].pc = "done"
        /\ utt[u].pc # "done" /\ utt'[u].pc = "done"
    BY <1>1, <2>1, <2>3
  <2>6. {u} \in SUBSET Utterances /\ authority' \in Utterances \cup {Nobody} /\ y.epoch >= sess[cur].epoch
    BY <1>1, <1>2, <1>3
  <2> QED BY <1>1, <1>3, <1>2, <1>4, <1>5, <1>10, <2>3, <2>4, <2>5, <2>6, StartStep
<1> QED BY <1>6, <1>8, <1>9, <1>10

LEMMA TestAuthorizedKept == ASSUME IInv, NEW u \in Utterances, TestAuthorized(u) PROVE IInv'
<1> DEFINE y == Move(sess[cur], "collecting")
<1>1. /\ cur \in Sessions /\ sess[cur] \in SessionRecord /\ sess[cur].epoch \in Nat /\ sess[cur].phase \in Phases
      /\ utt[u].pc = "authorizing" /\ ~lost /\ StillCurrent(u)
      /\ StartResponse("test", {u}, y, resp) /\ utt' = [utt EXCEPT ![u] = Settled(u)]
      /\ UNCHANGED <<env, cur, lost, authority, floor, playback>>
  BY DEF TestAuthorized, IInv, Typed, SessionRecord, service
<1>2. /\ y \in SessionRecord /\ y.epoch = sess[cur].epoch /\ y.cooldown = sess[cur].cooldown
      /\ y.phase \in {sess[cur].phase, "collecting"} /\ (sess[cur].phase = "idle" => y.phase = "collecting")
  BY <1>1, MoveFacts DEF Phases
<1>3. env.faults = {} => y.phase = "collecting" /\ ~y.cooldown /\ sess[cur].owner = Nobody
  <2>1. ASSUME env.faults = {}
        PROVE  y.phase = "collecting" /\ ~y.cooldown /\ sess[cur].owner = Nobody
    <3>1. Faultless
      BY <2>1 DEF IInv
    <3>2. sess[cur].owner = Nobody
      BY <1>1, <3>1 DEF Faultless, Waits
    <3>3. sess[cur].phase \notin Busy /\ sess[cur].phase # "disconnecting"
      BY <1>1, <3>1, <3>2 DEF Faultless, BusyIsOwned, ToCome
    <3> QED BY <1>1, <1>2, <3>1, <3>2, <3>3 DEF Faultless, Plain, Phases, Busy
  <2> QED BY <2>1
<1> HIDE DEF y
<1>4. Settled(u) \in Call /\ Settled(u).pc = "done"
  BY SettledFacts DEF IInv
<1>5. utt' \in [Utterances -> Call] /\ utt'[u] = Settled(u) /\ \A v \in Utterances \ {u} : utt'[v] = utt[v]
  BY <1>1, <1>4 DEF IInv, Typed
<1>6. /\ floor' \in Floor /\ (floor'.timer <=> floor'.group # {}) /\ \A v \in floor'.group : utt'[v].pc = "floor"
  <2>1. floor.group \subseteq Utterances /\ \A v \in floor.group : utt[v].pc = "floor"
    BY DEF IInv, Typed, Floor, Counted
  <2> QED BY <1>1, <1>5, <2>1 DEF IInv, Typed
<1>7. /\ \A v \in Utterances : utt[v].pc = "done" => utt'[v].pc = "done"
      /\ \A v \in Utterances : utt'[v] = utt[v] \/ utt'[v].pc = "done"
      /\ utt[u].pc # "done" /\ utt'[u].pc = "done"
  BY <1>1, <1>4, <1>5
<1>8. /\ {u} \in SUBSET Utterances /\ authority' \in Utterances \cup {Nobody} /\ y.epoch >= sess[cur].epoch
      /\ resp \in [Responses -> Response] /\ playback' \in Scheduler
  BY <1>1, <1>2 DEF IInv, Typed
<1> QED BY <1>1, <1>2, <1>3, <1>5, <1>6, <1>7, <1>8, StartStep

LEMMA ServiceLostKept == ASSUME IInv, ServiceLost PROVE IInv'
<1>1. /\ cur \in Sessions /\ sess[cur] \in SessionRecord /\ sess[cur].owner \in Responses \cup {Nobody}
      /\ sess[cur].epoch \in Nat /\ ~lost /\ lost' = TRUE /\ authority' = Nobody /\ UNCHANGED <<env, cur, utt, floor>>
  BY DEF ServiceLost, IInv, Typed, SessionRecord
<1>2. CASE UNCHANGED <<sess, resp, playback>>
  <2>1. Typed' /\ Counted'
    BY <1>1, <1>2 DEF IInv, Typed, Counted, Begun, Over
  <2>2. ASSUME env.faults = {}
        PROVE  Undisturbed
    <3>1. Faultless
      BY <2>2 DEF IInv
    <3> QED BY <1>1, <1>2, <3>1 DEF Faultless, Plain, Turns, ToCome, Undisturbed
  <2> QED BY <1>1, <1>2, <2>1, <2>2, SteadyStep
<1>3. CASE /\ sess' = [sess EXCEPT ![cur] = Superseded(@)]
           /\ resp' = Aborted(sess[cur].owner) /\ playback' = Silenced(sess[cur].epoch)
  <2> DEFINE n == Moved(sess[cur], sess[cur].epoch + 1, Nobody)
  <2>1. n \in SessionRecord /\ n.phase = sess[cur].phase /\ n.epoch = sess[cur].epoch + 1 /\ n.owner = Nobody
        /\ n.cooldown = sess[cur].cooldown
    <3>1. sess[cur].epoch + 1 \in Nat /\ Nobody \in Responses \cup {Nobody}
      BY <1>1
    <3> QED BY <1>1, <3>1, MovedFacts
  <2>2. sess' = [sess EXCEPT ![cur] = n]
    <3>1. n = Superseded(sess[cur])
      BY DEF Moved, Superseded
    <3> QED BY <1>3, <3>1
  <2> HIDE DEF n
  <2>3. sess' \in [Sessions -> SessionRecord] /\ sess'[cur] = n /\ \A s \in Sessions \ {cur} : sess'[s] = sess[s]
    BY <1>1, <2>1, <2>2 DEF IInv, Typed
  <2>4. resp' \in [Responses -> Response] /\ (\A r \in Responses : resp'[r].pc = resp[r].pc)
        /\ playback' \in Scheduler /\ playback'.live = {}
    BY <1>1, <1>3, AbortedFacts, SilencedFacts DEF IInv
  <2>5. Typed'
    BY <1>1, <2>3, <2>4 DEF IInv, Typed
  <2>6. Counted'
    <3>1. Cardinality(Begun') <= Cardinality(Over')
      BY <1>1, <2>4, CountKept DEF IInv
    <3> QED BY <1>1, <3>1 DEF IInv, Counted
  <2>7. env.faults = {} => \A v \in Utterances :
          /\ utt'[v].pc \notin {"noticeSynth", "noticeSounds"}
          /\ utt'[v].pc \in {"asr", "authorizing"} =>
               utt'[v] = utt[v] \/ (utt'[v].sess = cur /\ cur' = cur /\ utt'[v].epoch = sess[cur].epoch + 1)
    BY <1>1 DEF IInv, Faultless, Plain
  <2> QED BY <1>1, <1>3, <2>1, <2>3, <2>4, <2>5, <2>6, <2>7, CancelStep
<1> QED BY <1>2, <1>3 DEF ServiceLost

LEMMA SessionEndsKept == ASSUME IInv, SessionEnds PROVE IInv'
<1> DEFINE m == Move(sess[cur], "disconnecting")
           n == Superseded(m)
<1>1. /\ cur \in Sessions /\ sess[cur] \in SessionRecord /\ sess[cur].owner \in Responses \cup {Nobody}
      /\ sess[cur].epoch \in Nat /\ authority' = Nobody /\ UNCHANGED <<env, utt, floor, lost>>
      /\ sess' = [sess EXCEPT ![cur] = n] /\ resp' = Aborted(sess[cur].owner) /\ playback' = FreshScheduler
  BY DEF SessionEnds, IInv, Typed, SessionRecord
<1>2. cur' \in Sessions /\ cur' = cur + 1
  <2>1. env.sessions \in 1..MaxSessions /\ cur < env.sessions
    BY ConversationAssumption DEF SessionEnds, IInv, Typed
  <2> QED BY <1>1, <2>1, ConversationAssumption DEF SessionEnds, Sessions
<1>3. n \in SessionRecord /\ n.epoch = sess[cur].epoch + 1 /\ n.owner = Nobody /\ n.cooldown = sess[cur].cooldown
  <2>1. m \in SessionRecord /\ m.epoch = sess[cur].epoch /\ m.cooldown = sess[cur].cooldown
    BY <1>1, MoveFacts DEF Phases
  <2> HIDE DEF m
  <2>2. n = Moved(m, m.epoch + 1, Nobody) /\ m.epoch + 1 \in Nat /\ Nobody \in Responses \cup {Nobody}
    BY <1>1, <2>1 DEF Superseded, Moved
  <2> HIDE DEF n
  <2> QED BY <2>1, <2>2, MovedFacts
<1> HIDE DEF n
<1>4. sess' \in [Sessions -> SessionRecord] /\ sess'[cur] = n /\ \A s \in Sessions \ {cur} : sess'[s] = sess[s]
  BY <1>1, <1>3 DEF IInv, Typed
<1>5. resp' \in [Responses -> Response] /\ (\A r \in Responses : resp'[r].pc = resp[r].pc)
  BY <1>1, AbortedFacts DEF IInv
<1>6. playback' \in Scheduler /\ playback'.live = {}
  BY <1>1 DEF FreshScheduler, Scheduler
<1>7. Typed'
  BY <1>1, <1>2, <1>4, <1>5, <1>6 DEF IInv, Typed
<1>8. Counted'
  <2>1. Cardinality(Begun') <= Cardinality(Over')
    BY <1>1, <1>5, CountKept DEF IInv
  <2> QED BY <1>1, <2>1 DEF IInv, Counted
<1>9. env.faults = {} => \A v \in Utterances :
        /\ utt'[v].pc \notin {"noticeSynth", "noticeSounds"}
        /\ utt'[v].pc \in {"asr", "authorizing"} =>
             utt'[v] = utt[v] \/ (utt'[v].sess = cur /\ cur' = cur /\ utt'[v].epoch = sess[cur].epoch + 1)
  BY <1>1 DEF IInv, Faultless, Plain
<1>10. cur' # cur /\ cur' \in {cur, cur + 1}
  BY <1>1, <1>2, Numbers
<1> QED BY <1>1, <1>3, <1>4, <1>6, <1>7, <1>8, <1>9, <1>10, CancelStep

LEMMA ItemEndsKept == ASSUME IInv, NEW item, ItemEnds(item) PROVE IInv'
<1> DEFINE L == playback.live \ {item}
           C == SUBSET Nat
           S == SUBSET Items
<1>1. playback \in [latest : Nat, cancelled : C, live : S] /\ L \in S
      /\ Scheduler = [latest : Nat, cancelled : C, live : S]
  BY DEF IInv, Typed, Scheduler
<1>2. playback' = [playback EXCEPT !.live = L] /\ UNCHANGED <<sess, resp, utt, floor, env, cur, lost, authority>>
  BY DEF ItemEnds, service
<1> HIDE DEF C, S
<1>3. playback' \in Scheduler /\ playback'.live = L
  BY <1>1, <1>2
<1> QED BY <1>2, <1>3, PlaybackOnly

\* Time passes where a cooldown or an interval between notices runs.
LEMMA TimeKept ==
  ASSUME IInv, NEW s \in Sessions, CooldownEnds(s) \/ PromptIntervalEnds(s) PROVE IInv'
<1>1. PICK n \in SessionRecord :
        /\ sess' = [sess EXCEPT ![s] = n]
        /\ n.phase = sess[s].phase /\ n.epoch = sess[s].epoch /\ n.owner = sess[s].owner
        /\ n.cooldown \in {FALSE, sess[s].cooldown}
  <2>1. sess[s] \in SessionRecord
    BY DEF IInv, Typed
  <2>2. CASE CooldownEnds(s)
    <3> DEFINE n == [sess[s] EXCEPT !.cooldown = FALSE]
    <3>1. sess' = [sess EXCEPT ![s] = n]
      BY <2>2 DEF CooldownEnds, IInv, Typed
    <3>2. /\ n \in SessionRecord /\ n.phase = sess[s].phase /\ n.epoch = sess[s].epoch /\ n.owner = sess[s].owner
          /\ n.cooldown = FALSE
      BY <2>1 DEF SessionRecord
    <3> HIDE DEF n
    <3> QED BY <3>1, <3>2
  <2>3. CASE PromptIntervalEnds(s)
    <3> DEFINE n == [sess[s] EXCEPT !.announced = FALSE]
    <3>1. sess' = [sess EXCEPT ![s] = n]
      BY <2>3 DEF PromptIntervalEnds, IInv, Typed
    <3>2. /\ n \in SessionRecord /\ n.phase = sess[s].phase /\ n.epoch = sess[s].epoch /\ n.owner = sess[s].owner
          /\ n.cooldown = sess[s].cooldown
      BY <2>1 DEF SessionRecord
    <3> HIDE DEF n
    <3> QED BY <3>1, <3>2
  <2> QED BY <2>2, <2>3
<1>2. UNCHANGED <<env, cur, lost, authority, utt, floor, resp, playback>>
  BY DEF CooldownEnds, PromptIntervalEnds, service
<1>3. sess' \in [Sessions -> SessionRecord] /\ \A t \in Sessions :
        /\ sess'[t].phase = sess[t].phase /\ sess'[t].epoch = sess[t].epoch /\ sess'[t].owner = sess[t].owner
        /\ sess'[t].cooldown \in {FALSE, sess[t].cooldown}
  BY <1>1 DEF IInv, Typed
<1>4. Typed' /\ Counted'
  BY <1>2, <1>3 DEF IInv, Typed, Counted, Begun, Over
<1>5. ASSUME env.faults = {}
      PROVE  Undisturbed
  <2>1. Faultless /\ cur \in Sessions
    BY <1>5 DEF IInv, Typed
  <2>2. \A t \in Sessions : ~sess'[t].cooldown
    BY <1>3, <2>1 DEF Faultless, Plain
  <2>3. /\ \A r \in Responses : resp'[r].source # "limited"
        /\ \A v \in Utterances : utt'[v] = utt[v] /\ utt[v].pc \notin {"noticeSynth", "noticeSounds"}
    BY <1>2, <2>1 DEF Faultless, Plain
  <2> QED BY <1>3, <2>1, <2>2, <2>3 DEF Faultless, Turns, ToCome, Undisturbed
<1> QED BY <1>2, <1>4, <1>5, SteadyStep

-----------------------------------------------------------------------------
(* Responses.                                                              *)

LEMMA FinishKept == ASSUME IInv, NEW r \in Responses, Finish(r) PROVE IInv'
BY EndStep DEF Finish, Running

LEMMA GiveUpKept == ASSUME IInv, NEW r \in Responses, GiveUp(r) PROVE IInv'
BY EndStep DEF GiveUp, Running

\* Something of a response that stays what it is.
LEMMA RespKept ==
  ASSUME IInv, NEW r \in Responses, NEW n \in Response, resp' = [resp EXCEPT ![r] = n], n.pc = resp[r].pc,
         n.sess = resp[r].sess, n.epoch = resp[r].epoch, n.aborted = resp[r].aborted,
         n.source = "limited" => env.faults # {},
         UNCHANGED <<env, cur, lost, authority, utt, floor>>,
         sess' \in [Sessions -> SessionRecord], playback' \in Scheduler,
         \/ sess' = sess
         \/ /\ \A s \in Sessions :
                 /\ sess'[s].epoch = sess[s].epoch /\ sess'[s].owner = sess[s].owner
                 /\ sess'[s].cooldown = sess[s].cooldown
            /\ env.faults = {} =>
                 /\ \A s \in Sessions \ {cur} : sess'[s] = sess[s]
                 /\ sess[cur].phase \in Busy /\ sess'[cur].phase \in Busy,
         \A q \in Responses : Chunk(q) \in playback'.live =>
           \/ Chunk(q) \in playback.live /\ (q = r => n.chunk = resp[r].chunk)
           \/ /\ q = r /\ Running(r) /\ n.chunk = "sounding" /\ ~resp[r].aborted
              /\ env.faults = {} => sess[cur].owner = r
  PROVE  IInv'
<1>1. resp' \in [Responses -> Response] /\ resp'[r] = n /\ \A q \in Responses \ {r} : resp'[q] = resp[q]
  BY DEF IInv, Typed
<1>2. Typed'
  BY <1>1 DEF IInv, Typed
<1>3. Counted'
  <2>1. Cardinality(Begun') <= Cardinality(Over')
    BY <1>1, CountKept DEF IInv
  <2> QED BY <2>1 DEF IInv, Counted
<1>4. ASSUME env.faults = {}
      PROVE  Undisturbed
  <2>1. Faultless /\ cur \in Sessions /\ cur \in Nat
    BY <1>4, Numbers DEF IInv, Typed
  <2>2. /\ \A q \in Responses : resp'[q].source # "limited"
        /\ \A v \in Utterances : utt'[v] = utt[v] /\ utt[v].pc \notin {"noticeSynth", "noticeSounds"}
    BY <1>1, <1>4, <2>1 DEF Faultless, Plain
  <2>3. \A s \in Sessions :
          /\ sess'[s].epoch = sess[s].epoch /\ sess'[s].owner = sess[s].owner /\ ~sess'[s].cooldown
          /\ sess[s].owner # Nobody => sess'[s].phase \in Busy
          /\ s > cur => sess'[s].phase = "idle"
    <3>1. ASSUME NEW s \in Sessions
          PROVE  /\ sess'[s].epoch = sess[s].epoch /\ sess'[s].owner = sess[s].owner /\ ~sess'[s].cooldown
                 /\ sess'[s] = sess[s] \/ (s = cur /\ sess'[s].phase \in Busy)
      BY <1>4, <2>1 DEF Faultless, Plain
    <3>2. \A s \in Sessions : (sess[s].owner # Nobody => sess[s].phase \in Busy) /\ (s > cur => s # cur /\ sess[s].phase = "idle")
      BY <2>1, Numbers DEF Faultless, Turns, ToCome
    <3> QED BY <3>1, <3>2
  <2>4. /\ sess'[cur].phase \in Busy => sess[cur].phase \in Busy
        /\ sess[cur].phase # "disconnecting" => sess'[cur].phase # "disconnecting"
    BY <1>4, <2>1 DEF Busy
  <2> QED BY <2>2, <2>3, <2>4 DEF Undisturbed
<1>5. \A q \in Responses : /\ resp'[q].pc = resp[q].pc /\ resp'[q].sess = resp[q].sess
                           /\ resp'[q].epoch = resp[q].epoch /\ resp'[q].aborted = resp[q].aborted
  BY <1>1
<1>6. \A q \in Responses : Chunk(q) \in playback'.live =>
        \/ Chunk(q) \in playback.live /\ resp'[q].chunk = resp[q].chunk
        \/ /\ Running(q) /\ resp'[q].chunk = "sounding" /\ ~resp[q].aborted
           /\ env.faults = {} => sess[cur].owner = q
  BY <1>1
<1> QED BY <1>2, <1>3, <1>4, <1>5, <1>6, SteadyStep

LEMMA ChunkReadyKept == ASSUME IInv, NEW r \in Responses, ChunkReady(r) PROVE IInv'
<1> DEFINE n == [resp[r] EXCEPT !.source = "ready", !.chunks = @ + 1]
           C == 0..MaxChunks
           G == SUBSET Utterances
<1>1. /\ resp[r] \in [pc : {"none", "pipeline", "noticeSynth", "noticeSounds", "done"},
                      kind : {"reply", "oneAtATime", "test"}, sess : Sessions, epoch : Nat, aborted : BOOLEAN,
                      source : {"pull", "ready", "end", "failed", "limited"},
                      chunk : {"none", "pausing", "sounding"}, chunks : C, group : G, notice : Nat]
      /\ resp[r].chunks + 1 \in C
  BY ConversationAssumption DEF ChunkReady, IInv, Typed, Response
<1>2. resp' = [resp EXCEPT ![r] = n]
  BY DEF ChunkReady, IInv, Typed
<1> HIDE DEF C, G
<1>3. /\ n \in [pc : {"none", "pipeline", "noticeSynth", "noticeSounds", "done"},
                      kind : {"reply", "oneAtATime", "test"}, sess : Sessions, epoch : Nat, aborted : BOOLEAN,
                      source : {"pull", "ready", "end", "failed", "limited"},
                      chunk : {"none", "pausing", "sounding"}, chunks : C, group : G, notice : Nat]
      /\ n.pc = resp[r].pc /\ n.sess = resp[r].sess /\ n.epoch = resp[r].epoch /\ n.aborted = resp[r].aborted
      /\ n.chunk = resp[r].chunk /\ n.source # "limited"
  BY <1>1
<1> HIDE DEF n
<1>4. n \in Response
  BY <1>3 DEF Response, C, G
<1>5. UNCHANGED <<env, cur, lost, authority, utt, floor, sess, playback>>
  BY DEF ChunkReady, service
<1>6. sess' \in [Sessions -> SessionRecord] /\ playback' \in Scheduler
  BY <1>5 DEF IInv, Typed
<1> QED BY <1>2, <1>3, <1>4, <1>5, <1>6, RespKept

\* The source and the chunk of a response.
Advanced(x, src, ch) == [x EXCEPT !.source = src, !.chunk = ch]

LEMMA RespFacts ==
  ASSUME NEW x \in Response, NEW src \in {"pull", "ready", "end", "failed", "limited"},
         NEW ch \in {"none", "pausing", "sounding"}
  PROVE  LET n == Advanced(x, src, ch) IN
         /\ n \in Response /\ n.pc = x.pc /\ n.sess = x.sess /\ n.epoch = x.epoch /\ n.aborted = x.aborted
         /\ n.source = src /\ n.chunk = ch
<1> DEFINE C == 0..MaxChunks
           G == SUBSET Utterances
           R == [pc : {"none", "pipeline", "noticeSynth", "noticeSounds", "done"},
                 kind : {"reply", "oneAtATime", "test"}, sess : Sessions, epoch : Nat, aborted : BOOLEAN,
                 source : {"pull", "ready", "end", "failed", "limited"},
                 chunk : {"none", "pausing", "sounding"}, chunks : C, group : G, notice : Nat]
<1>1. x \in R /\ R = Response
  BY DEF Response
<1> HIDE DEF C, G
<1> QED BY <1>1 DEF Advanced

LEMMA UpdatedFacts ==
  ASSUME IInv, NEW r \in Responses
  PROVE  /\ resp[r] \in Response /\ resp[r].source \in {"pull", "ready", "end", "failed", "limited"}
         /\ resp[r].chunk \in {"none", "pausing", "sounding"}
         /\ \A src : [resp EXCEPT ![r].source = src]
                       = [resp EXCEPT ![r] = Advanced(resp[r], src, resp[r].chunk)]
         /\ \A ch : [resp EXCEPT ![r].chunk = ch]
                       = [resp EXCEPT ![r] = Advanced(resp[r], resp[r].source, ch)]
<1>1. resp \in [Responses -> Response] /\ resp[r] \in Response
  BY DEF IInv, Typed
<1>2. /\ resp[r].source \in {"pull", "ready", "end", "failed", "limited"}
      /\ resp[r].chunk \in {"none", "pausing", "sounding"}
  BY <1>1 DEF Response
<1>3. \A src : [resp[r] EXCEPT !.source = src] = Advanced(resp[r], src, resp[r].chunk)
  BY <1>1 DEF Response, Advanced
<1>4. \A ch : [resp[r] EXCEPT !.chunk = ch] = Advanced(resp[r], resp[r].source, ch)
  BY <1>1 DEF Response, Advanced
<1>5. \A src : [resp EXCEPT ![r].source = src]
                = [resp EXCEPT ![r] = Advanced(resp[r], src, resp[r].chunk)]
  <2>1. \A src : [resp EXCEPT ![r].source = src] = [resp EXCEPT ![r] = [resp[r] EXCEPT !.source = src]]
    BY <1>1
  <2> QED BY <1>3, <2>1
<1>6. \A ch : [resp EXCEPT ![r].chunk = ch]
                = [resp EXCEPT ![r] = Advanced(resp[r], resp[r].source, ch)]
  <2>1. \A ch : [resp EXCEPT ![r].chunk = ch] = [resp EXCEPT ![r] = [resp[r] EXCEPT !.chunk = ch]]
    BY <1>1
  <2> QED BY <1>4, <2>1
<1> QED BY <1>1, <1>2, <1>5, <1>6

LEMMA SourceEndsKept == ASSUME IInv, NEW r \in Responses, SourceEnds(r) PROVE IInv'
<1>1. UNCHANGED <<env, cur, lost, authority, utt, floor, sess, playback>>
  BY DEF SourceEnds, service
<1>2. PICK how \in {"end", "failed", "limited"} :
        resp' = [resp EXCEPT ![r].source = how] /\ (how = "limited" => env.faults # {})
  BY DEF SourceEnds
<1> DEFINE n == Advanced(resp[r], how, resp[r].chunk)
<1>3. resp' = [resp EXCEPT ![r] = n]
  <2>1. [resp EXCEPT ![r].source = how] = [resp EXCEPT ![r] = Advanced(resp[r], how, resp[r].chunk)]
    BY UpdatedFacts
  <2> QED BY <1>2, <2>1
<1>4. /\ n \in Response /\ n.pc = resp[r].pc /\ n.sess = resp[r].sess /\ n.epoch = resp[r].epoch
      /\ n.aborted = resp[r].aborted /\ n.source = how /\ n.chunk = resp[r].chunk
  BY UpdatedFacts, RespFacts
<1> HIDE DEF n
<1>5. sess' \in [Sessions -> SessionRecord] /\ playback' \in Scheduler
  BY <1>1 DEF IInv, Typed
<1> QED BY <1>1, <1>2, <1>3, <1>4, <1>5, RespKept

LEMMA StartChunkKept == ASSUME IInv, NEW r \in Responses, StartChunk(r) PROVE IInv'
<1>1. UNCHANGED <<env, cur, lost, authority, utt, floor, sess, playback>> /\ Running(r) /\ resp[r].chunk = "none"
  BY DEF StartChunk, service
<1>2. PICK src \in {"pull", "end"} : resp' = [resp EXCEPT ![r].chunk = "pausing", ![r].source = src]
  BY DEF StartChunk
<1> DEFINE n == Advanced(resp[r], src, "pausing")
<1>3. resp' = [resp EXCEPT ![r] = n]
  <2> DEFINE a == [resp[r] EXCEPT !.chunk = "pausing", !.source = src]
  <2>1. resp \in [Responses -> Response] /\ resp[r] \in Response
    BY DEF IInv, Typed
  <2>2. [resp EXCEPT ![r].chunk = "pausing", ![r].source = src] = [resp EXCEPT ![r] = a]
    BY <2>1
  <2>3. a = n
    BY <2>1 DEF Response, Advanced
  <2> HIDE DEF a, n
  <2> QED BY <1>2, <2>2, <2>3
<1>4. /\ n \in Response /\ n.pc = resp[r].pc /\ n.sess = resp[r].sess /\ n.epoch = resp[r].epoch
      /\ n.aborted = resp[r].aborted /\ n.source = src
  BY UpdatedFacts, RespFacts
<1> HIDE DEF n
<1>5. sess' \in [Sessions -> SessionRecord] /\ playback' \in Scheduler
  BY <1>1 DEF IInv, Typed
<1>6. Chunk(r) \notin playback.live
  BY <1>1 DEF IInv, Sounding
<1> QED BY <1>1, <1>2, <1>3, <1>4, <1>5, <1>6, RespKept

LEMMA ChunkSettlesKept == ASSUME IInv, NEW r \in Responses, ChunkSettles(r) PROVE IInv'
<1>1. UNCHANGED <<env, cur, lost, authority, utt, floor, sess, playback>> /\ Chunk(r) \notin playback.live
      /\ resp' = [resp EXCEPT ![r].chunk = "none"]
  BY DEF ChunkSettles, service, Chunk
<1> DEFINE n == Advanced(resp[r], resp[r].source, "none")
<1>2. resp' = [resp EXCEPT ![r] = n]
  BY <1>1, UpdatedFacts
<1>3. /\ n \in Response /\ n.pc = resp[r].pc /\ n.sess = resp[r].sess /\ n.epoch = resp[r].epoch
      /\ n.aborted = resp[r].aborted /\ n.source = resp[r].source
  BY UpdatedFacts, RespFacts
<1> HIDE DEF n
<1>4. (sess' \in [Sessions -> SessionRecord] /\ playback' \in Scheduler) /\ (resp[r].source = "limited" => env.faults # {})
  BY <1>1 DEF IInv, Typed, Faultless, Plain
<1> QED BY <1>1, <1>2, <1>3, <1>4, RespKept

\* Whoever is not stale is the owner.
LEMMA OwnerFacts ==
  ASSUME IInv, NEW r \in Responses, Running(r), ~Stale(r), env.faults = {}
  PROVE  resp[r].sess = cur /\ sess[cur].owner = r /\ sess[cur].phase \in Busy /\ resp[r].epoch = sess[cur].epoch
<1>1. Faultless /\ resp[r].sess \in Sessions /\ resp[r].epoch = sess[resp[r].sess].epoch
  BY DEF IInv, Typed, Response, Stale
<1>2. sess[resp[r].sess].owner = r /\ r # Nobody
  BY <1>1, Numbers DEF Faultless, Turns
<1>3. resp[r].sess = cur /\ sess[resp[r].sess].phase \in Busy
  BY <1>1, <1>2 DEF Faultless, Turns
<1> QED BY <1>1, <1>2, <1>3

LEMMA PlayChunkKept == ASSUME IInv, NEW r \in Responses, PlayChunk(r) PROVE IInv'
<1>1. UNCHANGED <<env, cur, lost, authority, utt, floor>> /\ Running(r) /\ resp[r].chunk = "pausing"
      /\ Chunk(r) \notin playback.live
  BY DEF PlayChunk, service, IInv, Sounding
<1>2. /\ resp[r].source = "limited" => env.faults # {}
      /\ resp[r].sess \in Sessions /\ resp[r].epoch \in Nat /\ resp[r].aborted \in BOOLEAN
  BY DEF IInv, Typed, Response, Faultless, Plain
<1> DEFINE n(ch) == Advanced(resp[r], resp[r].source, ch)
           z == resp[r].sess
<1>3. \A ch \in {"none", "sounding"} :
        /\ n(ch) \in Response /\ n(ch).pc = resp[r].pc /\ n(ch).sess = resp[r].sess /\ n(ch).epoch = resp[r].epoch
        /\ n(ch).aborted = resp[r].aborted /\ n(ch).source = resp[r].source /\ n(ch).chunk = ch
  BY UpdatedFacts, RespFacts
<1>4. \A ch \in {"none", "sounding"} : [resp EXCEPT ![r].chunk = ch] = [resp EXCEPT ![r] = n(ch)]
  BY UpdatedFacts
<1> HIDE DEF n
<1>5. CASE Stale(r)
  <2>1. resp' = [resp EXCEPT ![r] = n("none")] /\ UNCHANGED <<sess, playback>>
    BY <1>4, <1>5 DEF PlayChunk
  <2>2. sess' \in [Sessions -> SessionRecord] /\ playback' \in Scheduler
    BY <2>1 DEF IInv, Typed
  <2> QED BY <1>1, <1>2, <1>3, <2>1, <2>2, RespKept
<1>6. CASE ~Stale(r)
  <2>1. /\ sess' = [sess EXCEPT ![z] = Move(sess[z], "speaking")]
        /\ \/ /\ playback' = Enqueued(Chunk(r), resp[r].epoch)
              /\ resp' = [resp EXCEPT ![r] = n("sounding")]
           \/ resp' = [resp EXCEPT ![r] = n("none")] /\ playback' = playback
    BY <1>4, <1>6 DEF PlayChunk, Chunk
  <2>2. LET m == Move(sess[z], "speaking") IN
        /\ m \in SessionRecord /\ m.epoch = sess[z].epoch /\ m.owner = sess[z].owner /\ m.cooldown = sess[z].cooldown
        /\ sess[z].phase \in Busy => m.phase \in Busy
    BY <1>2, MoveFacts DEF IInv, Typed, Phases
  <2>3. /\ sess' \in [Sessions -> SessionRecord]
        /\ \A s \in Sessions :
             /\ sess'[s].epoch = sess[s].epoch /\ sess'[s].owner = sess[s].owner
             /\ sess'[s].cooldown = sess[s].cooldown /\ (s # z => sess'[s] = sess[s])
        /\ sess[z].phase \in Busy => sess'[z].phase \in Busy
    BY <1>2, <2>1, <2>2 DEF IInv, Typed
  <2>4. env.faults = {} => z = cur /\ sess[cur].owner = r /\ sess[cur].phase \in Busy
    BY <1>1, <1>6, OwnerFacts
  <2>5. env.faults = {} =>
          /\ \A s \in Sessions \ {cur} : sess'[s] = sess[s]
          /\ sess[cur].phase \in Busy /\ sess'[cur].phase \in Busy
    BY <2>3, <2>4
  <2>6. ~resp[r].aborted
    BY <1>6 DEF Stale
  <2>7. CASE resp' = [resp EXCEPT ![r] = n("none")] /\ playback' = playback
    <3>1. playback' \in Scheduler
      BY <2>7 DEF IInv, Typed
    <3> QED BY <1>1, <1>2, <1>3, <2>3, <2>5, <2>7, <3>1, RespKept
  <2>8. CASE playback' = Enqueued(Chunk(r), resp[r].epoch) /\ resp' = [resp EXCEPT ![r] = n("sounding")]
    <3>1. playback' \in Scheduler /\ playback'.live = playback.live \cup {Chunk(r)}
      BY <1>2, <2>8, EnqueuedFacts, ItemFacts DEF IInv
    <3>2. \A q \in Responses : Chunk(q) \in playback'.live => q = r \/ (Chunk(q) \in playback.live /\ q # r)
      BY <3>1, ItemFacts
    <3> QED BY <1>1, <1>2, <1>3, <2>3, <2>4, <2>5, <2>6, <2>8, <3>1, <3>2, RespKept
  <2> QED BY <2>1, <2>7, <2>8
<1> QED BY <1>5, <1>6

\* Where something may fail: a response leaves its pipeline.
LEMMA FaultEnds ==
  ASSUME IInv, env.faults # {}, NEW r \in Responses, NEW m \in Response, NEW s \in Sessions, NEW x \in SessionRecord,
         resp[r].pc # "none", m.pc # "pipeline", Running(r) => resp[r].chunk = "none",
         resp' = [resp EXCEPT ![r] = m], sess' = [sess EXCEPT ![s] = x],
         UNCHANGED <<env, cur, lost, authority, utt, floor>>, playback' \in Scheduler,
         \A q \in Responses : Chunk(q) \in playback'.live => Chunk(q) \in playback.live
  PROVE  IInv'
<1>1. resp' \in [Responses -> Response] /\ resp'[r] = m /\ \A q \in Responses \ {r} : resp'[q] = resp[q]
  BY DEF IInv, Typed
<1>2. sess' \in [Sessions -> SessionRecord]
  BY DEF IInv, Typed
<1>3. Typed'
  BY <1>1, <1>2 DEF IInv, Typed
<1>4. Counted'
  <2>1. Cardinality(Begun') <= Cardinality(Over')
    BY <1>1, CountKept DEF IInv
  <2> QED BY <2>1 DEF IInv, Counted
<1>5. \A q \in Responses : Chunk(q) \in playback'.live => q # r
  BY DEF IInv, Sounding, Running
<1>6. \A q \in Responses : Chunk(q) \in playback'.live =>
        /\ Chunk(q) \in playback.live
        /\ Running(q) => resp'[q].pc = "pipeline" /\ resp'[q].chunk = resp[q].chunk /\ resp'[q].aborted = resp[q].aborted
  BY <1>1, <1>5 DEF Running
<1> QED BY <1>3, <1>4, <1>6, FaultStep

LEMMA QuotaKept == ASSUME IInv, NEW r \in Responses, QuotaExhausted(r) PROVE IInv'
<1> DEFINE s == resp[r].sess
           armed == [sess[s] EXCEPT !.cooldown = TRUE]
           n == [resp[r] EXCEPT !.pc = "noticeSynth", !.aborted = TRUE, !.notice = armed.epoch + 1]
<1>1. /\ UNCHANGED <<env, cur, lost, authority, utt, floor, playback>> /\ s \in Sessions /\ resp[r].epoch \in Nat
      /\ sess[s] \in SessionRecord /\ resp[r] \in Response /\ resp[r].pc = "pipeline" /\ resp[r].chunk = "none"
      /\ env.faults # {}
  BY DEF QuotaExhausted, IInv, Typed, Response, service, Running, Faultless, Plain
<1>2. armed \in SessionRecord /\ armed.epoch \in Nat
  BY <1>1 DEF SessionRecord
<1>3. Release(armed, resp[r].epoch) \in SessionRecord /\ Announcing(armed) \in SessionRecord
  BY <1>1, <1>2, ReleaseFacts, AnnouncingFacts
<1>4. n \in Response /\ n.pc = "noticeSynth"
  <2> DEFINE C == 0..MaxChunks
             G == SUBSET Utterances
             e == armed.epoch + 1
             R == [pc : {"none", "pipeline", "noticeSynth", "noticeSounds", "done"},
                   kind : {"reply", "oneAtATime", "test"}, sess : Sessions, epoch : Nat, aborted : BOOLEAN,
                   source : {"pull", "ready", "end", "failed", "limited"},
                   chunk : {"none", "pausing", "sounding"}, chunks : C, group : G, notice : Nat]
  <2>1. resp[r] \in R /\ R = Response /\ e \in Nat
    BY <1>1, <1>2 DEF Response
  <2>2. n = [resp[r] EXCEPT !.pc = "noticeSynth", !.aborted = TRUE, !.notice = e]
    OBVIOUS
  <2> HIDE DEF C, G, e, n
  <2>3. n \in R /\ n.pc = "noticeSynth"
    BY <2>1, <2>2
  <2> QED BY <2>1, <2>3
<1>5. \/ /\ sess' = [sess EXCEPT ![s] = Release(armed, resp[r].epoch)]
         /\ resp' = [resp EXCEPT ![r] = Ended]
      \/ /\ sess' = [sess EXCEPT ![s] = Announcing(armed)]
         /\ resp' = [resp EXCEPT ![r].pc = "noticeSynth", ![r].aborted = TRUE, ![r].notice = armed.epoch + 1]
  BY DEF QuotaExhausted
<1>6. [resp EXCEPT ![r].pc = "noticeSynth", ![r].aborted = TRUE, ![r].notice = armed.epoch + 1]
        = [resp EXCEPT ![r] = n]
  <2> DEFINE e == armed.epoch + 1
  <2> HIDE DEF e
  <2>1. [resp EXCEPT ![r].pc = "noticeSynth", ![r].aborted = TRUE, ![r].notice = e]
          = [resp EXCEPT ![r] = [resp[r] EXCEPT !.pc = "noticeSynth", !.aborted = TRUE, !.notice = e]]
    BY DEF IInv, Typed
  <2> QED BY <2>1 DEF e
<1> HIDE DEF armed, n
<1>7. playback' \in Scheduler /\ playback' = playback
  BY <1>1 DEF IInv, Typed
<1>8. CASE /\ sess' = [sess EXCEPT ![s] = Release(armed, resp[r].epoch)]
           /\ resp' = [resp EXCEPT ![r] = Ended]
  <2>1. Ended \in Response /\ Ended.pc # "pipeline"
    BY EndedFacts
  <2> QED BY <1>1, <1>3, <1>7, <1>8, <2>1, FaultEnds
<1>9. CASE /\ sess' = [sess EXCEPT ![s] = Announcing(armed)]
           /\ resp' = [resp EXCEPT ![r] = n]
  BY <1>1, <1>3, <1>4, <1>7, <1>9, FaultEnds
<1> QED BY <1>5, <1>6, <1>8, <1>9

LEMMA ResponseNoticeKept ==
  ASSUME IInv, NEW r \in Responses, NoticeOfResponse(r) \/ NoticeOfResponseEnds(r) PROVE IInv'
<1> DEFINE s == resp[r].sess
           n == [resp[r] EXCEPT !.pc = "noticeSounds"]
<1>1. /\ UNCHANGED <<env, cur, lost, authority, utt, floor>> /\ s \in Sessions /\ resp[r].epoch \in Nat
      /\ sess[s] \in SessionRecord /\ resp[r] \in Response /\ resp[r].pc \in {"noticeSynth", "noticeSounds"}
      /\ env.faults # {} /\ resp[r].notice \in Nat
  BY DEF NoticeOfResponse, NoticeOfResponseEnds, IInv, Typed, Response, service, Faultless, Plain
<1>2. CASE /\ sess' = [sess EXCEPT ![s] = Release(@, resp[r].epoch)]
           /\ resp' = [resp EXCEPT ![r] = Ended] /\ playback' = playback
  BY <1>1, <1>2, EndStep DEF service, Running
<1>3. CASE /\ playback' = Enqueued([of |-> "notice", id |-> r], resp[r].notice)
           /\ resp' = [resp EXCEPT ![r].pc = "noticeSounds"] /\ sess' = sess
  <2>1. playback' \in Scheduler /\ playback'.live = playback.live \cup {[of |-> "notice", id |-> r]}
    BY <1>1, <1>3, EnqueuedFacts, ItemFacts DEF IInv
  <2>2. \A q \in Responses : Chunk(q) \in playback'.live => Chunk(q) \in playback.live
    BY <2>1, ItemFacts
  <2>3. n \in Response /\ n.pc = "noticeSounds"
    <3> DEFINE C == 0..MaxChunks
               G == SUBSET Utterances
               R == [pc : {"none", "pipeline", "noticeSynth", "noticeSounds", "done"},
                     kind : {"reply", "oneAtATime", "test"}, sess : Sessions, epoch : Nat, aborted : BOOLEAN,
                     source : {"pull", "ready", "end", "failed", "limited"},
                     chunk : {"none", "pausing", "sounding"}, chunks : C, group : G, notice : Nat]
    <3>1. resp[r] \in R /\ R = Response
      BY <1>1 DEF Response
    <3> HIDE DEF C, G
    <3>2. n \in R /\ n.pc = "noticeSounds"
      BY <3>1
    <3> QED BY <3>1, <3>2
  <2>4. resp' = [resp EXCEPT ![r] = n] /\ sess' = [sess EXCEPT ![s] = sess[s]]
    BY <1>3 DEF IInv, Typed
  <2> HIDE DEF n
  <2>5. resp[r].pc # "none" /\ ~Running(r) /\ n.pc # "pipeline"
    BY <1>1, <2>3 DEF Running
  <2> QED BY <1>1, <2>1, <2>2, <2>3, <2>4, <2>5, FaultEnds
<1> QED BY <1>2, <1>3 DEF NoticeOfResponse, NoticeOfResponseEnds

-----------------------------------------------------------------------------
(* The theorems.                                                           *)

LEMMA Initially == Init => IInv
<1> SUFFICES ASSUME Init PROVE IInv
  OBVIOUS
<1>1. /\ env \in Environments /\ lost = FALSE /\ authority = Nobody /\ cur = 1
      /\ sess = [s \in Sessions |-> FreshSession] /\ utt = [u \in Utterances |-> NoUtterance]
      /\ floor = EmptyFloor(FALSE) /\ resp = [r \in Responses |-> NoResponse] /\ playback = FreshScheduler
  BY DEF Init
<1>2. /\ FreshSession \in SessionRecord /\ FreshSession.owner = Nobody /\ FreshSession.phase = "idle"
      /\ FreshSession.cooldown = FALSE
  BY DEF FreshSession, SessionRecord, Phases
<1>3. NoUtterance \in Call /\ NoUtterance.pc = "none"
  BY Numbers DEF NoUtterance, Call
<1>4. NoResponse \in Response /\ NoResponse.pc = "none" /\ NoResponse.source = "pull"
  BY Numbers, ConversationAssumption DEF NoResponse, Response
<1>5. floor \in Floor /\ floor.timer = FALSE /\ floor.group = {}
  BY <1>1 DEF EmptyFloor, Floor
<1>6. playback \in Scheduler /\ playback.live = {}
  BY <1>1 DEF FreshScheduler, Scheduler
<1>7. Typed
  BY <1>1, <1>2, <1>3, <1>4, <1>5, <1>6, Numbers DEF Typed
<1>8. Counted
  <2>1. Begun = {}
    BY <1>1, <1>4 DEF Begun
  <2>2. Cardinality(Begun) = 0
    BY <2>1, FS_EmptySet
  <2> QED BY <1>5, <2>2, Finite DEF Counted
<1>9. Sounding
  BY <1>6 DEF Sounding
<1>10. Faultless
  <2>1. Plain /\ Turns /\ Waits /\ ToCome
    BY <1>1, <1>2, <1>3, <1>4, Numbers DEF Plain, Turns, Waits, ToCome, Running
  <2>2. OwnersSound /\ BusyIsOwned
    BY <1>1, <1>2, <1>6, Numbers DEF OwnersSound, BusyIsOwned, Busy
  <2> QED BY <2>1, <2>2 DEF Faultless
<1> QED BY <1>7, <1>8, <1>9, <1>10 DEF IInv

LEMMA Stutters == ASSUME IInv, UNCHANGED vars PROVE IInv'
BY PlaybackOnly DEF vars, service, IInv, Typed

\* Every step of the guild, of a call, of a response, of the voice service or of
\* time keeps the invariant.
THEOREM StepKeepsIInv == IInv /\ [Next]_vars => IInv'
<1> SUFFICES ASSUME IInv, [Next]_vars PROVE IInv'
  OBVIOUS
<1>1. ASSUME NEW u \in Utterances, Admit(u) \/ Transcribed(u) \/ Noticed(u)
      PROVE  IInv'
  BY <1>1, AdmitKept, StaleKept, FilteredKept, AsrFailsKept, CooldownKept, AcceptedKept, UtteranceNoticeKept
  DEF Transcribed
<1>2. ASSUME NEW u \in Utterances, Decide(u) \/ TestVoice(u) \/ Answered(u)
      PROVE  IInv'
  BY <1>2, DecideKept, TestVoiceKept, TestAuthorizedKept, RefusedKept DEF Answered
<1>3. ASSUME NEW r \in Responses, ChunkReady(r) \/ Advance(r)
      PROVE  IInv'
  BY <1>3, ChunkReadyKept, SourceEndsKept, StartChunkKept, PlayChunkKept, ChunkSettlesKept, FinishKept, GiveUpKept,
     QuotaKept, ResponseNoticeKept DEF Advance
<1>4. CASE RoomReset \/ ServiceLost \/ Flush \/ BargeIn \/ SessionEnds
  BY <1>4, RoomResetKept, ServiceLostKept, FlushKept, BargeInKept, SessionEndsKept
<1>5. ASSUME NEW item \in Items, ItemEnds(item)
      PROVE  IInv'
  BY <1>5, ItemEndsKept
<1>6. ASSUME NEW s \in Sessions, CooldownEnds(s) \/ PromptIntervalEnds(s)
      PROVE  IInv'
  BY <1>6, TimeKept
<1>7. CASE UNCHANGED vars
  BY <1>7, Stutters
<1> QED BY <1>1, <1>2, <1>3, <1>4, <1>5, <1>6, <1>7 DEF Next

THEOREM Invariance == Spec => []IInv
<1> QED BY Initially, StepKeepsIInv, PTL DEF Spec

\* The phase tells the truth about who answers: the guild thinks or speaks
\* exactly while a running response holds its epoch, and that response is the
\* turn on record (cancel and the epoch checks of conversation-controller.ts).
THEOREM ThePhaseTellsTheOwner == Spec => []PhaseTellsOwner
<1>1. IInv => PhaseTellsOwner
  <2> SUFFICES ASSUME IInv, env.faults = {}, ~lost
               PROVE  /\ sess[cur].phase \in Busy <=> \E r \in Responses : Owns(r)
                      /\ \A r \in Responses : Owns(r) => sess[cur].owner = r
    BY DEF PhaseTellsOwner
  <2>1. Faultless /\ cur \in Sessions /\ sess[cur].owner \in Responses \cup {Nobody}
    BY DEF IInv, Typed, SessionRecord
  <2>2. \A r \in Responses : Owns(r) => sess[cur].owner = r /\ sess[cur].phase \in Busy
    BY OwnerFacts DEF Owns
  <2>3. sess[cur].owner # Nobody => sess[cur].owner \in Responses /\ Owns(sess[cur].owner)
    <3>1. ASSUME sess[cur].owner # Nobody
          PROVE  /\ sess[cur].owner \in Responses /\ Running(sess[cur].owner)
                 /\ resp[sess[cur].owner].sess = cur /\ resp[sess[cur].owner].epoch = sess[cur].epoch
                 /\ ~resp[sess[cur].owner].aborted
      BY <2>1, <3>1 DEF Faultless, Turns
    <3> QED BY <3>1 DEF Owns, Stale
  <2>4. sess[cur].phase \in Busy => sess[cur].owner # Nobody
    BY <2>1 DEF Faultless, BusyIsOwned
  <2> QED BY <2>2, <2>3, <2>4
<1> QED BY <1>1, Invariance, PTL

\* A response that was cancelled is silent, whatever fails; where nothing does,
\* what is queued or audible belongs to the response that owns the guild.
THEOREM TheCancelledAreSilent == Spec => []StaleIsSilent
<1>1. IInv => StaleIsSilent
  <2> SUFFICES ASSUME IInv, NEW r \in Responses, Chunk(r) \in playback.live
               PROVE  ~resp[r].aborted /\ (env.faults = {} => Owns(r))
    BY DEF StaleIsSilent, Chunk
  <2>1. Running(r) /\ ~resp[r].aborted
    BY DEF IInv, Sounding
  <2>2. ASSUME env.faults = {}
        PROVE  Owns(r)
    <3>1. Faultless /\ cur \in Sessions /\ sess[cur].owner = r /\ r # Nobody
      BY <2>2, Numbers DEF IInv, Typed, Faultless, OwnersSound
    <3>2. resp[sess[cur].owner].sess = cur /\ resp[sess[cur].owner].epoch = sess[cur].epoch
      BY <3>1 DEF Faultless, Turns
    <3> QED BY <2>1, <3>1, <3>2 DEF Owns, Stale
  <2> QED BY <2>1, <2>2
<1> QED BY <1>1, Invariance, PTL

=============================================================================
