--------------------------- MODULE PlaybackProofs ---------------------------
(***************************************************************************)
(* Proofs about audio: the playback scheduler, for every number of items   *)
(* and epochs, every queue depth and every limit of cancelEpoch, and the   *)
(* pipeline that synthesises a reply, for every number of phrases.         *)
(***************************************************************************)
EXTENDS Playback, TtsPipeline, FiniteSetTheorems, TLAPS

-----------------------------------------------------------------------------
\* Numbers and ranks.

\* A nonempty set of naturals has a least element; pump() plays the first
\* playable item, and it exists.
LEMMA LeastElement ==
  ASSUME NEW T \in SUBSET Nat, T # {}
  PROVE  \E k \in T : \A m \in T : k <= m
<1>1. PICK k \in T : \A m \in T : <<m, k>> \notin OpToRel(<, Nat)
  BY NatLessThanWellFounded, WFMin
<1>2. \A m \in T : ~(m < k)
  BY <1>1 DEF OpToRel
<1> QED BY <1>2

Upto(k, K) == {m \in K : m <= k}

\* Ranks in a set of positions: they are bounded, they grow, and they take
\* every value up to the size of the set.
LEMMA RankFacts ==
  ASSUME NEW n \in Nat, NEW K \in SUBSET (1..n)
  PROVE  /\ IsFiniteSet(K) /\ Cardinality(K) \in Nat /\ Cardinality(K) <= n
         /\ \A k \in K : Rank(k, K) \in 1..Cardinality(K)
         /\ \A k, m \in K : k < m => Rank(k, K) < Rank(m, K)
         /\ \A j \in 1..Cardinality(K) : \E k \in K : Rank(k, K) = j
<1>1. IsFiniteSet(K) /\ Cardinality(K) \in Nat /\ Cardinality(K) <= n
  <2>1. IsFiniteSet(1..n) /\ Cardinality(1..n) = n
    BY FS_Interval
  <2>2. IsFiniteSet(K) /\ Cardinality(K) <= n
    BY <2>1, FS_Subset
  <2> QED BY <2>2, FS_CardinalityType
<1>2. ASSUME NEW k \in 0..n
      PROVE  /\ IsFiniteSet(Upto(k, K))
             /\ Rank(k, K) = Cardinality(Upto(k, K))
             /\ Rank(k, K) \in Nat /\ Rank(k, K) <= Cardinality(K)
  <2>1. Upto(k, K) \in SUBSET K
    BY DEF Upto
  <2>2. IsFiniteSet(Upto(k, K)) /\ Cardinality(Upto(k, K)) <= Cardinality(K)
    BY <1>1, <2>1, FS_Subset
  <2>3. Cardinality(Upto(k, K)) \in Nat
    BY <2>2, FS_CardinalityType
  <2>4. Rank(k, K) = Cardinality(Upto(k, K))
    BY DEF Rank, Upto
  <2> QED BY <2>2, <2>3, <2>4
<1>3. ASSUME NEW k \in 1..n
      PROVE  Rank(k, K) = Rank(k - 1, K) + (IF k \in K THEN 1 ELSE 0)
  <2>1. k - 1 \in 0..n /\ k \in 0..n
    OBVIOUS
  <2>2. CASE k \in K
    <3>1. Upto(k, K) = Upto(k - 1, K) \cup {k}
      <4>1. \A x \in K : x <= k <=> x <= k - 1 \/ x = k
        OBVIOUS
      <4> QED BY <2>2, <4>1, Zenon DEF Upto
    <3>2. k \notin Upto(k - 1, K)
      BY DEF Upto
    <3>3. IsFiniteSet(Upto(k - 1, K))
      BY <1>2, <2>1
    <3>4. Cardinality(Upto(k - 1, K) \cup {k}) = Cardinality(Upto(k - 1, K)) + 1
      BY <3>2, <3>3, FS_AddElement
    <3> QED BY <1>2, <2>1, <2>2, <3>1, <3>4
  <2>3. CASE k \notin K
    <3>1. Upto(k, K) = Upto(k - 1, K)
      <4>1. \A x \in K : x <= k <=> x <= k - 1
        BY <2>3
      <4> QED BY <4>1, Zenon DEF Upto
    <3> QED BY <1>2, <2>1, <2>3, <3>1
  <2> QED BY <2>2, <2>3
<1>4. ASSUME NEW k \in 0..n, NEW m \in K, k < m
      PROVE  Rank(k, K) < Rank(m, K)
  <2>1. m \in 0..n
    OBVIOUS
  <2>2. Upto(k, K) \in SUBSET Upto(m, K) /\ Upto(k, K) # Upto(m, K)
    <3>1. m \in Upto(m, K) /\ m \notin Upto(k, K)
      BY <1>4 DEF Upto
    <3>2. \A x \in Upto(k, K) : x \in Upto(m, K)
      BY <1>4 DEF Upto
    <3> QED BY <3>1, <3>2
  <2>3. /\ IsFiniteSet(Upto(m, K))
        /\ Rank(m, K) \in Nat /\ Rank(m, K) = Cardinality(Upto(m, K))
        /\ Rank(k, K) \in Nat /\ Rank(k, K) = Cardinality(Upto(k, K))
    BY <1>2, <2>1
  <2>4. /\ Cardinality(Upto(k, K)) <= Cardinality(Upto(m, K))
        /\ Cardinality(Upto(k, K)) # Cardinality(Upto(m, K))
    BY <2>2, <2>3, FS_Subset
  <2> QED BY <2>3, <2>4
<1>5. Rank(0, K) = 0
  <2>1. Upto(0, K) = {}
    <3>1. \A x \in K : ~(x <= 0)
      OBVIOUS
    <3> QED BY <3>1, Zenon DEF Upto
  <2>2. Rank(0, K) = Cardinality(Upto(0, K))
    BY DEF Rank, Upto
  <2> QED BY <2>1, <2>2, FS_EmptySet
<1>6. ASSUME NEW k \in K
      PROVE  Rank(k, K) \in 1..Cardinality(K)
  <2>1. 0 \in 0..n /\ 0 < k /\ k \in 0..n
    OBVIOUS
  <2>2. Rank(0, K) < Rank(k, K)
    BY <1>4, <2>1
  <2> QED BY <1>1, <1>2, <1>5, <2>1, <2>2
<1>7. ASSUME NEW j \in 1..Cardinality(K)
      PROVE  \E k \in K : Rank(k, K) = j
  <2> DEFINE T == {k \in 0..n : Rank(k, K) >= j}
  <2>1. Rank(n, K) = Cardinality(K)
    <3>1. Upto(n, K) = K
      <4>1. \A x \in K : x <= n
        OBVIOUS
      <4> QED BY <4>1, Zenon DEF Upto
    <3> QED BY <1>2, <3>1
  <2>2. n \in T
    BY <1>1, <2>1
  <2>3. PICK k \in T : \A m \in T : k <= m
    <3>1. T \in SUBSET Nat
      OBVIOUS
    <3> HIDE DEF T
    <3> QED BY <2>2, <3>1, LeastElement
  <2>4. k \in 0..n /\ Rank(k, K) >= j
    BY <2>3
  <2>5. k # 0
    BY <1>1, <1>5, <2>4
  <2>6. k \in 1..n /\ k - 1 \in 0..n
    BY <2>4, <2>5
  <2>7. k - 1 \notin T
    BY <2>3, <2>6
  <2>8. Rank(k - 1, K) \in Nat /\ Rank(k - 1, K) < j
    BY <1>1, <1>2, <2>6, <2>7
  <2>9. k \in K /\ Rank(k, K) = j
    BY <1>1, <1>3, <2>4, <2>6, <2>8
  <2> QED BY <2>9
<1> QED BY <1>1, <1>4, <1>6, <1>7

-----------------------------------------------------------------------------
\* The queue after filter() and after pump().

\* filter() keeps exactly the items that are not dropped, in their order.
LEMMA WithoutFacts ==
  ASSUME NEW S, NEW q \in Seq(S), NEW drop
  PROVE  /\ Without(q, drop) \in Seq(S)
         /\ Len(Without(q, drop)) <= Len(q)
         /\ InQueue(Without(q, drop)) = InQueue(q) \ drop
         /\ \A i, j \in 1..Len(Without(q, drop)) : i < j =>
              \E k, m \in 1..Len(q) :
                k < m /\ Without(q, drop)[i] = q[k] /\ Without(q, drop)[j] = q[m]
<1> DEFINE K == Left(q, drop)
           w == Without(q, drop)
           pos(j) == CHOOSE k \in K : Rank(k, K) = j
<1>1. Len(q) \in Nat /\ K \in SUBSET (1..Len(q))
  BY DEF Left
<1>2. /\ Cardinality(K) \in Nat /\ Cardinality(K) <= Len(q)
      /\ \A k \in K : Rank(k, K) \in 1..Cardinality(K)
      /\ \A k, m \in K : k < m => Rank(k, K) < Rank(m, K)
      /\ \A j \in 1..Cardinality(K) : \E k \in K : Rank(k, K) = j
  <2> HIDE DEF K
  <2> QED BY <1>1, RankFacts
<1>3. \A j \in 1..Cardinality(K) : pos(j) \in K /\ Rank(pos(j), K) = j
  BY <1>2
<1>4. w = [j \in 1..Cardinality(K) |-> q[pos(j)]]
  BY DEF Without
<1> HIDE DEF K, w, pos
<1>5. \A k \in K : k \in 1..Len(q) /\ q[k] \in S
  BY <1>1
<1>6. w \in Seq(S) /\ Len(w) = Cardinality(K)
  BY <1>2, <1>3, <1>4, <1>5
<1>7. \A j \in 1..Len(w) : w[j] = q[pos(j)]
  BY <1>4, <1>6
<1>8. \A k \in 1..Len(q) : k \in K <=> q[k] \notin drop
  BY DEF K, Left
<1>9. InQueue(w) = InQueue(q) \ drop
  <2>1. ASSUME NEW x \in InQueue(w)
        PROVE  x \in InQueue(q) \ drop
    <3>1. PICK j \in 1..Len(w) : x = w[j]
      BY DEF InQueue
    <3>2. x = q[pos(j)] /\ pos(j) \in 1..Len(q) /\ pos(j) \in K
      BY <1>3, <1>5, <1>6, <1>7, <3>1
    <3> QED BY <1>8, <3>2 DEF InQueue
  <2>2. ASSUME NEW x \in InQueue(q) \ drop
        PROVE  x \in InQueue(w)
    <3>1. PICK k \in 1..Len(q) : x = q[k]
      BY DEF InQueue
    <3>2. k \in K
      BY <1>8, <3>1
    <3> DEFINE j == Rank(k, K)
    <3>3. j \in 1..Cardinality(K)
      BY <1>2, <3>2
    <3>4. pos(j) \in K /\ Rank(pos(j), K) = Rank(k, K)
      BY <1>3, <3>3
    <3>5. pos(j) = k
      <4>1. pos(j) \in Int /\ k \in Int
        BY <1>5, <3>4
      <4>2. Rank(k, K) \in Int
        BY <3>3
      <4> QED BY <1>2, <3>2, <3>4, <4>1, <4>2
    <3>6. w[j] = q[k] /\ j \in 1..Len(w)
      BY <1>6, <1>7, <3>3, <3>5
    <3> QED BY <3>1, <3>6 DEF InQueue
  <2> QED BY <2>1, <2>2
<1>10. ASSUME NEW i \in 1..Len(w), NEW j \in 1..Len(w), i < j
       PROVE  pos(i) < pos(j)
  <2>1. pos(i) \in K /\ Rank(pos(i), K) = i /\ pos(j) \in K /\ Rank(pos(j), K) = j
    BY <1>3, <1>6
  <2>2. pos(i) \in Int /\ pos(j) \in Int
    BY <1>5, <2>1
  <2>3. ~(pos(j) < pos(i)) /\ pos(i) # pos(j)
    BY <1>2, <1>10, <2>1
  <2> QED BY <2>2, <2>3
<1>11. \A i, j \in 1..Len(w) : i < j =>
         \E k, m \in 1..Len(q) : k < m /\ w[i] = q[k] /\ w[j] = q[m]
  <2> SUFFICES ASSUME NEW i \in 1..Len(w), NEW j \in 1..Len(w), i < j
               PROVE  \E k, m \in 1..Len(q) : k < m /\ w[i] = q[k] /\ w[j] = q[m]
    OBVIOUS
  <2>1. pos(i) \in 1..Len(q) /\ pos(j) \in 1..Len(q)
    BY <1>3, <1>5, <1>6
  <2> QED BY <1>7, <1>10, <2>1
<1> QED BY <1>2, <1>6, <1>9, <1>11 DEF w

\* The outcomes of pump(): it is shut, it empties the queue, or it plays the k-th
\* item of the queue, which is not stale.  It settles what it takes off the queue.
Shut(act, waiting) == disposed \/ waiting \/ act # NoItem
Drains(p, plr) == p.queue = << >> /\ p.active = NoItem /\ p.player = plr
Plays(p, k, q, plr, its, latest, cancelled) ==
  /\ k \in 1..Len(q)
  /\ ~IsStale(its[q[k]].epoch, latest, cancelled)
  /\ p.queue = SubSeq(q, k + 1, Len(q))
  /\ p.active = q[k]
  /\ p.player = [plr EXCEPT !.res = q[k]]
SettlesFirst(p, n, q, st) ==
  \A i \in DOMAIN st : IF \E m \in 1..n : q[m] = i THEN p.status[i] \in {"cancelled", "failed"}
                                                  ELSE p.status[i] = st[i]

PumpOutcome(p, q, st, act, waiting, plr, its, latest, cancelled) ==
  /\ p.status \in Seq(Statuses) /\ Len(p.status) = Len(st)
  /\ Shut(act, waiting) =>
       p.queue = q /\ p.status = st /\ p.active = act /\ p.player = plr
  /\ ~Shut(act, waiting) =>
       \/ Drains(p, plr) /\ SettlesFirst(p, Len(q), q, st)
       \/ \E k \in 1..Len(q) : /\ Plays(p, k, q, plr, its, latest, cancelled)
                               /\ SettlesFirst(p, k - 1, q, st)

\* What pump() does to the records it is handed, branch by branch: it is PumpOutcome.
LEMMA PumpFacts ==
  ASSUME NEW S, NEW q \in Seq(S), NEW st \in Seq(Statuses), NEW act, NEW waiting,
         NEW plr, NEW its, NEW latest, NEW cancelled
  PROVE  PumpOutcome(Pump(q, st, act, waiting, plr, its, latest, cancelled),
                     q, st, act, waiting, plr, its, latest, cancelled)
<1> DEFINE p == Pump(q, st, act, waiting, plr, its, latest, cancelled)
           stale(i) == IsStale(its[i].epoch, latest, cancelled)
           playable == {k \in 1..Len(q) : ~stale(q[k]) /\ its[q[k]].resource = "good"}
           first    == IF playable = {} THEN Len(q) + 1
                       ELSE CHOOSE k \in playable : \A m \in playable : k <= m
           skipped  == {q[k] : k \in 1..(first - 1)}
           settled  == [i \in DOMAIN st |->
                          IF i \notin skipped THEN st[i]
                          ELSE IF stale(i) THEN "cancelled" ELSE "failed"]
<1> SUFFICES PumpOutcome(p, q, st, act, waiting, plr, its, latest, cancelled)
  OBVIOUS
<1>1. CASE Shut(act, waiting)
  <2>1. p = [queue |-> q, status |-> st, active |-> act, player |-> plr, notified |-> FALSE]
    BY <1>1 DEF Pump, Shut
  <2> QED BY <1>1, <2>1 DEF PumpOutcome
<1>2. CASE ~Shut(act, waiting)
  <2>1. settled \in Seq(Statuses) /\ Len(settled) = Len(st)
    <3>1. DOMAIN st = 1..Len(st) /\ Len(st) \in Nat
      OBVIOUS
    <3>2. \A i \in 1..Len(st) : settled[i] \in Statuses
      <4>1. \A i \in 1..Len(st) : st[i] \in Statuses
        OBVIOUS
      <4> QED BY <3>1, <4>1 DEF Statuses
    <3>3. settled = [i \in 1..Len(st) |-> settled[i]]
      BY <3>1
    <3> HIDE DEF settled
    <3> QED BY <3>1, <3>2, <3>3
  <2>2. ASSUME p.status = settled
        PROVE  SettlesFirst(p, first - 1, q, st)
    <3>1. \A i \in DOMAIN st : i \in skipped <=> \E m \in 1..(first - 1) : q[m] = i
      OBVIOUS
    <3>2. \A i \in DOMAIN st : IF i \in skipped THEN settled[i] \in {"cancelled", "failed"}
                                                ELSE settled[i] = st[i]
      OBVIOUS
    <3> HIDE DEF settled, skipped, first, p
    <3> QED BY <2>2, <3>1, <3>2 DEF SettlesFirst
  <2>3. CASE playable = {}
    <3>1. p = [queue |-> << >>, status |-> settled, active |-> NoItem,
               player |-> plr, notified |-> TRUE]
      BY <1>2, <2>3 DEF Pump, Shut
    <3>2. first - 1 = Len(q)
      BY <2>3
    <3>3. p.status = settled /\ Drains(p, plr)
      BY <3>1 DEF Drains
    <3> HIDE DEF p, settled, first
    <3> QED BY <1>2, <2>1, <2>2, <3>2, <3>3 DEF PumpOutcome
  <2>4. CASE playable # {}
    <3>1. first \in playable
      <4>1. playable \in SUBSET Nat
        OBVIOUS
      <4>2. first = CHOOSE k \in playable : \A m \in playable : k <= m
        BY <2>4
      <4> HIDE DEF playable, first
      <4>3. \E k \in playable : \A m \in playable : k <= m
        BY <2>4, <4>1, LeastElement
      <4> QED BY <4>2, <4>3
    <3>2. first \in 1..Len(q) /\ ~stale(q[first])
      BY <3>1
    <3>3. /\ p.queue = SubSeq(q, first + 1, Len(q)) /\ p.active = q[first]
          /\ p.player = [plr EXCEPT !.res = q[first]] /\ p.status = settled
      BY <1>2, <2>4 DEF Pump, Shut
    <3>4. Plays(p, first, q, plr, its, latest, cancelled)
      <4> HIDE DEF first, p
      <4> QED BY <3>2, <3>3 DEF Plays
    <3> HIDE DEF p, settled, first
    <3> QED BY <1>2, <2>1, <2>2, <3>2, <3>3, <3>4 DEF PumpOutcome
  <2> QED BY <2>3, <2>4
<1> QED BY <1>1, <1>2

-----------------------------------------------------------------------------
\* Types and the agreement of scheduler and player, over the values that a call
\* hands to pump() and gets back from it.

Player == [res : Items \cup {NoItem}, stopping : BOOLEAN]

Agree(act, waiting, plr) ==
  /\ act # NoItem => plr = [res |-> act, stopping |-> FALSE]
  /\ act = NoItem => plr.stopping = waiting
  /\ act = NoItem /\ ~waiting => plr.res = NoItem
  /\ waiting => act = NoItem /\ plr.res # NoItem

PumpTyped(p, q, st, act, waiting, plr) ==
  /\ p.queue \in Seq(Items) /\ Len(p.queue) <= Len(q)
  /\ p.status \in Seq(Statuses) /\ Len(p.status) = Len(st)
  /\ p.active \in Items \cup {NoItem}
  /\ p.player \in Player
  /\ Agree(act, waiting, plr) => Agree(p.active, waiting, p.player)

\* pump() keeps its types, never lengthens the queue, and plays only on a player
\* that holds nothing.
LEMMA PumpKeeps ==
  ASSUME NEW q \in Seq(Items), NEW st \in Seq(Statuses), NEW act \in Items \cup {NoItem},
         NEW waiting \in BOOLEAN, NEW plr \in Player, NEW its, NEW latest, NEW cancelled,
         NEW p, PumpOutcome(p, q, st, act, waiting, plr, its, latest, cancelled)
  PROVE  PumpTyped(p, q, st, act, waiting, plr)
<1>1. p.status \in Seq(Statuses) /\ Len(p.status) = Len(st)
  BY DEF PumpOutcome
<1>2. CASE Shut(act, waiting)
  BY <1>1, <1>2 DEF PumpOutcome, PumpTyped
<1>3. CASE ~Shut(act, waiting) /\ Drains(p, plr)
  BY <1>1, <1>3 DEF Drains, Shut, PumpTyped, Agree
<1>4. ASSUME ~Shut(act, waiting),
             NEW k \in 1..Len(q), Plays(p, k, q, plr, its, latest, cancelled)
      PROVE  /\ p.queue \in Seq(Items) /\ Len(p.queue) <= Len(q)
             /\ p.active \in Items \cup {NoItem}
             /\ p.player \in Player
             /\ Agree(act, waiting, plr) => Agree(p.active, waiting, p.player)
  <2>1. p.queue = SubSeq(q, k + 1, Len(q)) /\ p.active = q[k] /\ q[k] \in Items
        /\ p.player = [plr EXCEPT !.res = q[k]]
    BY <1>4 DEF Plays
  <2>2. p.queue \in Seq(Items) /\ Len(p.queue) <= Len(q)
    BY <2>1
  <2>3. p.player = [res |-> q[k], stopping |-> plr.stopping]
    BY <2>1 DEF Player
  <2>4. p.player \in Player
    BY <2>1, <2>3 DEF Player
  <2>5. q[k] # NoItem
    BY <2>1 DEF Items, NoItem
  <2>6. waiting = FALSE /\ act = NoItem
    BY <1>4 DEF Shut
  <2>7. Agree(act, waiting, plr) => Agree(p.active, waiting, p.player)
    BY <2>1, <2>3, <2>5, <2>6 DEF Agree
  <2> QED BY <2>1, <2>2, <2>4, <2>7
<1> QED BY <1>1, <1>2, <1>3, <1>4 DEF PumpOutcome, PumpTyped

\* The waiters that are left are some of those there were.
LEMMA WaitersShrink ==
  ASSUME NEW p, NEW notify, NEW its, EndInPump(p, notify, its)
  PROVE  drainWaiters' \subseteq drainWaiters
BY DEF EndInPump, StillWaiting

\* Settling a set of items gives each of them the outcome and leaves the rest alone.
LEMMA SettleFacts ==
  ASSUME NEW st \in Seq(Statuses), NEW T, NEW outcome \in Statuses
  PROVE  /\ Settle(st, T, outcome) \in Seq(Statuses)
         /\ Len(Settle(st, T, outcome)) = Len(st)
         /\ \A i \in DOMAIN st : Settle(st, T, outcome)[i] = IF i \in T THEN outcome ELSE st[i]
<1>1. DOMAIN st = 1..Len(st) /\ Len(st) \in Nat
  OBVIOUS
<1>2. Settle(st, T, outcome) = [i \in 1..Len(st) |-> IF i \in T THEN outcome ELSE st[i]]
  BY <1>1 DEF Settle
<1>3. \A i \in 1..Len(st) : st[i] \in Statuses
  OBVIOUS
<1> QED BY <1>1, <1>2, <1>3

-----------------------------------------------------------------------------
(***************************************************************************)
(* The inductive invariant.  PlayerAgreement alone is not inductive: after *)
(* dispose() nobody handles the player's events, and it stays true only    *)
(* because dispose() has emptied the active slot for good.                 *)
(***************************************************************************)
Closed == disposed => active = NoItem
IInv == TypeOK /\ Closed /\ PlayerAgreement

\* The agreement in the form pump() needs it.
LEMMA AgreementIsAgree ==
  ASSUME TypeOK, Closed
  PROVE  PlayerAgreement <=>
           /\ active # NoItem => player = [res |-> active, stopping |-> FALSE]
           /\ ~disposed => Agree(active, awaitingStopIdle, player)
BY DEF PlayerAgreement, Agree

\* The part of the invariant that the calls ending in pump() disturb.
Disturbed ==
  /\ queue \in Seq(Items) /\ Len(queue) <= MaxQueueDepth
  /\ active \in Items \cup {NoItem}
  /\ drainWaiters \subseteq Epochs
  /\ awaitingStopIdle \in BOOLEAN
  /\ status \in Seq(Statuses) /\ Len(status) = Len(items)
  /\ player \in Player
  /\ active # NoItem => player = [res |-> active, stopping |-> FALSE]
  /\ disposed => active = NoItem
  /\ ~disposed => Agree(active, awaitingStopIdle, player)

Undisturbed ==
  /\ latestEpoch \in Epochs
  /\ cancelledEpochs \subseteq Epochs
  /\ Cardinality(cancelledEpochs) <= MaxFutureCancels
  /\ disposed \in BOOLEAN
  /\ items \in Seq([epoch : Epochs, resource : Resources]) /\ Len(items) <= MaxItems
  /\ heard \subseteq Items
  /\ cancelledEver \subseteq Epochs

\* The invariant, split into the part a step that pumps rewrites and the part
\* it leaves alone.
LEMMA IInvParts == IInv <=> Disturbed /\ Undisturbed
BY AgreementIsAgree DEF IInv, TypeOK, Closed, Disturbed, Undisturbed, Player

\* The same split of the invariant after the step.
LEMMA IInvPartsPrime == IInv' <=> Disturbed' /\ Undisturbed'
BY IInvParts, PTL

\* A call that ends in pump() restores what it disturbed, whatever it handed over.
LEMMA EndInPumpKeeps ==
  ASSUME IInv,
         NEW q \in Seq(Items), Len(q) <= MaxQueueDepth,
         NEW st \in Seq(Statuses), Len(st) = Len(items'),
         NEW act \in Items \cup {NoItem}, NEW waiting \in BOOLEAN, NEW plr \in Player,
         disposed => act = NoItem,
         ~disposed => Agree(act, waiting, plr),
         NEW its, NEW latest, NEW cancelled, NEW notify,
         EndInPump(Pump(q, st, act, waiting, plr, its, latest, cancelled), notify, its),
         awaitingStopIdle' = waiting, disposed' = disposed
  PROVE  Disturbed'
<1> DEFINE p == Pump(q, st, act, waiting, plr, its, latest, cancelled)
<1>1. PumpOutcome(p, q, st, act, waiting, plr, its, latest, cancelled)
  BY PumpFacts
<1>2. /\ queue' = p.queue /\ active' = p.active /\ status' = p.status /\ player' = p.player
      /\ drainWaiters' \subseteq drainWaiters
  <2>1. EndInPump(p, notify, its)
    OBVIOUS
  <2> HIDE DEF p
  <2>2. drainWaiters' \subseteq drainWaiters
    BY <2>1, WaitersShrink
  <2> QED BY <2>1, <2>2 DEF EndInPump
<1> HIDE DEF p
<1>3. PumpTyped(p, q, st, act, waiting, plr)
  BY <1>1, PumpKeeps
<1>4. disposed => p.active = NoItem
  BY <1>1 DEF PumpOutcome, Shut
<1>5. p.active # NoItem => p.player = [res |-> p.active, stopping |-> FALSE]
  BY <1>3, <1>4 DEF Agree, PumpTyped
<1>6. drainWaiters \subseteq Epochs
  BY DEF IInv, TypeOK
<1>7. Len(p.queue) <= MaxQueueDepth
  <2>1. Len(p.queue) \in Nat /\ Len(q) \in Nat /\ MaxQueueDepth \in Nat
    BY <1>3, PlaybackAssumption DEF PumpTyped
  <2> QED BY <1>3, <2>1 DEF PumpTyped
<1> QED BY <1>2, <1>3, <1>4, <1>5, <1>6, <1>7 DEF Disturbed, PumpTyped

\* cancelEpoch and stopAll: what is stopped leaves the player winding down, and
\* then pump() finds itself shut.
LEMMA CancelWorkKeeps ==
  ASSUME IInv, NEW drop, NEW stop \in BOOLEAN, stop => active # NoItem, NEW cancelled,
         CancelWork(drop, stop, cancelled), disposed' = disposed, items' = items
  PROVE  Disturbed'
<1> DEFINE keep    == Without(queue, drop)
           gone    == drop \cup (IF stop THEN {active} ELSE {})
           owed    == IdleOwed(stop)
           stopped == IF stop /\ player.res # NoItem THEN [player EXCEPT !.stopping = TRUE]
                      ELSE player
           st      == Settle(status, gone, "cancelled")
<1>1. Disturbed /\ Undisturbed
  BY IInvParts
<1>2. keep \in Seq(Items) /\ Len(keep) <= MaxQueueDepth
  <2>1. queue \in Seq(Items) /\ Len(queue) <= MaxQueueDepth
    BY <1>1 DEF Disturbed
  <2>2. keep \in Seq(Items) /\ Len(keep) <= Len(queue)
    BY <2>1, WithoutFacts
  <2>3. Len(keep) \in Nat /\ Len(queue) \in Nat /\ MaxQueueDepth \in Nat
    BY <2>1, <2>2, PlaybackAssumption
  <2> QED BY <2>1, <2>2, <2>3
<1>3. st \in Seq(Statuses) /\ Len(st) = Len(items')
  <2>1. status \in Seq(Statuses) /\ Len(status) = Len(items)
    BY <1>1 DEF Disturbed
  <2>2. "cancelled" \in Statuses
    BY DEF Statuses
  <2> QED BY <2>1, <2>2, SettleFacts
<1>4. CASE stop
  <2>1. ~disposed /\ player = [res |-> active, stopping |-> FALSE] /\ active \in Items
        /\ active # NoItem
    BY <1>1, <1>4 DEF Disturbed
  <2>2. owed = TRUE /\ stopped = [res |-> active, stopping |-> TRUE]
    BY <1>4, <2>1 DEF IdleOwed
  <2>3. /\ awaitingStopIdle' = owed
        /\ EndInPump(Pump(keep, st, NoItem, owed, stopped, items, latestEpoch, cancelled),
                     TRUE, items)
    BY <1>4 DEF CancelWork
  <2>4. Agree(NoItem, owed, stopped) /\ stopped \in Player /\ owed \in BOOLEAN
    BY <2>1, <2>2 DEF Agree, Player
  <2> HIDE DEF keep, st, owed, stopped, gone
  <2> QED BY <1>2, <1>3, <2>1, <2>3, <2>4, EndInPumpKeeps
<1>5. CASE ~stop
  <2> DEFINE p == [queue |-> keep, status |-> st, active |-> active,
                   player |-> player, notified |-> FALSE]
  <2>1. awaitingStopIdle' = awaitingStopIdle /\ EndInPump(p, TRUE, items)
    BY <1>5 DEF CancelWork, IdleOwed
  <2>2. drainWaiters' \subseteq drainWaiters
    <3> HIDE DEF p
    <3> QED BY <2>1, WaitersShrink
  <2>3. queue' = keep /\ active' = active /\ status' = st /\ player' = player
    <3> HIDE DEF keep, st
    <3> QED BY <2>1 DEF EndInPump
  <2> HIDE DEF keep, st
  <2> QED BY <1>1, <1>2, <1>3, <2>1, <2>2, <2>3 DEF Disturbed, Agree
<1> QED BY <1>4, <1>5

\* What enqueue() and cancelEpoch() do to the cancelled epochs keeps them few.
LEMMA CancellationsStayFew ==
  ASSUME IInv
  PROVE  /\ \A e \in Epochs : /\ Pruned(cancelledEpochs, e) \subseteq Epochs
                              /\ Cardinality(Pruned(cancelledEpochs, e)) <= MaxFutureCancels
         /\ \A e \in Epochs : e >= latestEpoch /\ ~TooManyFutureCancels(e) =>
              Cardinality(cancelledEpochs \cup {e}) <= MaxFutureCancels
<1>1. /\ cancelledEpochs \subseteq Epochs /\ Cardinality(cancelledEpochs) <= MaxFutureCancels
      /\ MaxFutureCancels \in Nat /\ MaxEpoch \in Nat
  BY PlaybackAssumption DEF IInv, TypeOK
<1>2. IsFiniteSet(cancelledEpochs) /\ Cardinality(cancelledEpochs) \in Nat
  <2>1. IsFiniteSet(Epochs)
    BY <1>1, FS_Interval DEF Epochs
  <2>2. IsFiniteSet(cancelledEpochs)
    BY <1>1, <2>1, FS_Subset
  <2> QED BY <2>2, FS_CardinalityType
<1>3. ASSUME NEW e \in Epochs
      PROVE  /\ Pruned(cancelledEpochs, e) \subseteq Epochs
             /\ Cardinality(Pruned(cancelledEpochs, e)) <= MaxFutureCancels
  <2>1. Pruned(cancelledEpochs, e) \in SUBSET cancelledEpochs
    BY DEF Pruned
  <2>2. /\ IsFiniteSet(Pruned(cancelledEpochs, e))
        /\ Cardinality(Pruned(cancelledEpochs, e)) <= Cardinality(cancelledEpochs)
    BY <1>2, <2>1, FS_Subset
  <2>3. Cardinality(Pruned(cancelledEpochs, e)) \in Nat
    BY <2>2, FS_CardinalityType
  <2> QED BY <1>1, <1>2, <2>1, <2>2, <2>3
<1>4. ASSUME NEW e \in Epochs, e >= latestEpoch, ~TooManyFutureCancels(e)
      PROVE  Cardinality(cancelledEpochs \cup {e}) <= MaxFutureCancels
  <2>1. e \in cancelledEpochs \/ ~(Cardinality(cancelledEpochs) >= MaxFutureCancels)
    BY <1>4 DEF TooManyFutureCancels
  <2>2. Cardinality(cancelledEpochs \cup {e}) =
          IF e \in cancelledEpochs THEN Cardinality(cancelledEpochs)
          ELSE Cardinality(cancelledEpochs) + 1
    BY <1>2, FS_AddElement
  <2> QED BY <1>1, <1>2, <2>1, <2>2
<1> QED BY <1>3, <1>4

-----------------------------------------------------------------------------
\* One step.

\* enqueue keeps the invariant: refused as stale, refused as too deep, or queued.
LEMMA EnqueueKeeps ==
  ASSUME IInv, NEW epoch \in Epochs, NEW resource \in Resources, Enqueue(epoch, resource)
  PROVE  IInv'
<1> DEFINE id        == Len(items) + 1
           its       == Append(items, [epoch |-> epoch, resource |-> resource])
           newer     == ~disposed /\ epoch > latestEpoch
           latest    == IF newer THEN epoch ELSE latestEpoch
           cancelled == IF newer THEN Pruned(cancelledEpochs, epoch) ELSE cancelledEpochs
           refused   == IF disposed \/ IsStale(epoch, latest, cancelled) THEN "cancelled"
                        ELSE IF Len(queue) >= MaxQueueDepth THEN "dropped"
                        ELSE "no"
<1>1. Disturbed /\ Undisturbed
  BY IInvParts
<1>2. /\ Len(items) < MaxItems /\ items' = its
      /\ latestEpoch' = latest /\ cancelledEpochs' = cancelled
      /\ UNCHANGED <<disposed, awaitingStopIdle, heard, cancelledEver>>
  BY DEF Enqueue
<1>3. id \in Items /\ Len(items) \in Nat
  BY <1>1, <1>2, PlaybackAssumption DEF Undisturbed, Items
<1>4. Undisturbed'
  <2>1. latest \in Epochs /\ cancelled \subseteq Epochs
        /\ Cardinality(cancelled) <= MaxFutureCancels
    BY <1>1, CancellationsStayFew DEF Undisturbed
  <2>2. its \in Seq([epoch : Epochs, resource : Resources]) /\ Len(its) = Len(items) + 1
    BY <1>1 DEF Undisturbed
  <2>3. Len(its) <= MaxItems
    BY <1>2, <1>3, <2>2, PlaybackAssumption
  <2> HIDE DEF latest, cancelled, its
  <2> QED BY <1>1, <1>2, <2>1, <2>2, <2>3 DEF Undisturbed
<1>5. CASE refused # "no"
  <2>1. /\ status' = Append(status, refused)
        /\ UNCHANGED <<queue, active, player, drainWaiters>>
    BY <1>5 DEF Enqueue
  <2>2. refused \in Statuses
    BY <1>5 DEF Statuses
  <2>3. Len(its) = Len(items) + 1
    BY <1>1 DEF Undisturbed
  <2> HIDE DEF refused, its
  <2>4. status' \in Seq(Statuses) /\ Len(status') = Len(items')
    BY <1>1, <1>2, <2>1, <2>2, <2>3 DEF Disturbed
  <2>5. Disturbed'
    BY <1>1, <1>2, <2>1, <2>4 DEF Disturbed, Agree
  <2> QED BY <1>4, <2>5, IInvPartsPrime
<1>6. CASE refused = "no"
  <2> DEFINE q  == Append(queue, id)
             st == Append(status, "pending")
  <2>1. EndInPump(Pump(q, st, active, awaitingStopIdle, player, its, latest, cancelled),
                  FALSE, its)
    BY <1>6 DEF Enqueue
  <2>2. q \in Seq(Items) /\ Len(q) <= MaxQueueDepth
    <3>1. Len(queue) \in Nat /\ MaxQueueDepth \in Nat /\ ~(Len(queue) >= MaxQueueDepth)
      BY <1>1, <1>6, PlaybackAssumption DEF Disturbed
    <3> QED BY <1>1, <1>3, <3>1 DEF Disturbed
  <2>3. st \in Seq(Statuses) /\ Len(st) = Len(items')
    <3>1. Len(its) = Len(items) + 1
      BY <1>1 DEF Undisturbed
    <3>2. st \in Seq(Statuses) /\ Len(st) = Len(status) + 1
      BY <1>1 DEF Disturbed, Statuses
    <3> HIDE DEF its, st
    <3> QED BY <1>1, <1>2, <3>1, <3>2 DEF Disturbed
  <2>4. /\ active \in Items \cup {NoItem} /\ awaitingStopIdle \in BOOLEAN /\ player \in Player
        /\ disposed => active = NoItem
        /\ ~disposed => Agree(active, awaitingStopIdle, player)
    BY <1>1 DEF Disturbed
  <2>5. awaitingStopIdle' = awaitingStopIdle /\ disposed' = disposed
    BY <1>2
  <2> HIDE DEF q, st, its, latest, cancelled
  <2>6. Disturbed'
    BY <2>1, <2>2, <2>3, <2>4, <2>5, EndInPumpKeeps
  <2> QED BY <1>4, <2>6, IInvPartsPrime
<1> QED BY <1>5, <1>6

\* cancelEpoch keeps the invariant, whether or not the epoch is the active one.
LEMMA CancelEpochKeeps ==
  ASSUME IInv, NEW epoch \in Epochs, CancelEpoch(epoch)
  PROVE  IInv'
<1> DEFINE cancelled == IF epoch >= latestEpoch THEN cancelledEpochs \cup {epoch}
                        ELSE cancelledEpochs
           stop == active # NoItem /\ items[active].epoch = epoch
           drop == {i \in InQueue(queue) : items[i].epoch = epoch}
<1>1. Disturbed /\ Undisturbed
  BY IInvParts
<1>2. /\ ~TooManyFutureCancels(epoch)
      /\ cancelledEpochs' = cancelled
      /\ cancelledEver' = cancelledEver \cup {epoch}
      /\ CancelWork(drop, stop, cancelled)
      /\ UNCHANGED <<latestEpoch, disposed, items, heard>>
  BY DEF CancelEpoch
<1>3. Undisturbed'
  <2>1. cancelled \subseteq Epochs /\ Cardinality(cancelled) <= MaxFutureCancels
    BY <1>1, <1>2, CancellationsStayFew DEF Undisturbed
  <2> HIDE DEF cancelled
  <2> QED BY <1>1, <1>2, <2>1 DEF Undisturbed
<1>4. Disturbed'
  <2>1. stop \in BOOLEAN /\ (stop => active # NoItem)
    OBVIOUS
  <2> HIDE DEF cancelled, stop, drop
  <2> QED BY <1>2, <2>1, CancelWorkKeeps
<1> QED BY <1>3, <1>4, IInvPartsPrime

\* stopAll keeps the invariant: the queue is emptied and the player told to stop.
LEMMA StopAllKeeps ==
  ASSUME IInv, StopAll
  PROVE  IInv'
<1> DEFINE stop == active # NoItem
<1>1. Disturbed /\ Undisturbed
  BY IInvParts
<1>2. /\ CancelWork(InQueue(queue), stop, cancelledEpochs)
      /\ UNCHANGED <<latestEpoch, cancelledEpochs, disposed, items, heard, cancelledEver>>
  BY DEF StopAll
<1>3. stop \in BOOLEAN /\ (stop => active # NoItem)
  OBVIOUS
<1> HIDE DEF stop
<1>4. Disturbed'
  BY <1>2, <1>3, CancelWorkKeeps
<1>5. Undisturbed'
  BY <1>1, <1>2 DEF Undisturbed
<1> QED BY <1>4, <1>5, IInvPartsPrime

\* dispose keeps the invariant: it is stopAll, and nothing is played after it.
LEMMA DisposeKeeps ==
  ASSUME IInv, Dispose
  PROVE  IInv'
<1>1. Disturbed /\ Undisturbed
  BY IInvParts
<1>2. /\ disposed' = TRUE /\ queue' = << >> /\ active' = NoItem /\ drainWaiters' = {}
      /\ status' = Settle(status, InQueue(queue) \cup {active}, "cancelled")
      /\ awaitingStopIdle' = IdleOwed(active # NoItem)
      /\ player' = IF active # NoItem /\ player.res # NoItem
                   THEN [player EXCEPT !.stopping = TRUE] ELSE player
      /\ UNCHANGED <<latestEpoch, cancelledEpochs, items, heard, cancelledEver>>
  BY DEF Dispose
<1>3. status' \in Seq(Statuses) /\ Len(status') = Len(items')
  BY <1>1, <1>2, SettleFacts DEF Disturbed, Statuses
<1>4. player' \in Player
  BY <1>1, <1>2 DEF Disturbed, Player
<1>5. awaitingStopIdle' \in BOOLEAN
  BY <1>1, <1>2 DEF Disturbed, IdleOwed
<1>6. Disturbed'
  BY <1>2, <1>3, <1>4, <1>5, PlaybackAssumption DEF Disturbed
<1>7. Undisturbed'
  BY <1>1, <1>2 DEF Undisturbed
<1> QED BY <1>6, <1>7, IInvPartsPrime

\* The Idle event, of whichever resource it is.
LEMMA OnIdleKeeps ==
  ASSUME IInv, OnIdle, UNCHANGED <<latestEpoch, cancelledEpochs, disposed, items, cancelledEver>>,
         heard' \subseteq Items
  PROVE  IInv'
<1>1. Disturbed /\ Undisturbed
  BY IInvParts
<1>2. Undisturbed'
  BY <1>1 DEF Undisturbed
<1>3. /\ Idle \in Player /\ Agree(NoItem, FALSE, Idle)
      /\ queue \in Seq(Items) /\ Len(queue) <= MaxQueueDepth
      /\ status \in Seq(Statuses) /\ Len(status) = Len(items)
  BY <1>1 DEF Idle, Player, Agree, Disturbed
<1>4. CASE player' = Idle /\ UNCHANGED <<queue, active, status, drainWaiters, awaitingStopIdle>>
           /\ active = NoItem /\ (disposed \/ ~awaitingStopIdle)
  <2>1. Disturbed'
    BY <1>1, <1>3, <1>4 DEF Disturbed, Agree, Idle
  <2> QED BY <1>2, <2>1, IInvPartsPrime
<1>5. CASE ~disposed /\ awaitingStopIdle
  <2>1. /\ active = NoItem /\ awaitingStopIdle' = FALSE
        /\ EndInPump(Pump(queue, status, active, FALSE, Idle, items, latestEpoch,
                          cancelledEpochs), FALSE, items)
    BY <1>1, <1>5 DEF OnIdle, ReopenPump, Disturbed, Agree
  <2>2. active \in Items \cup {NoItem} /\ FALSE \in BOOLEAN
    BY <2>1
  <2>3. Disturbed'
    BY <1>3, <2>1, <2>2, EndInPumpKeeps
  <2> QED BY <1>2, <2>3, IInvPartsPrime
<1>6. CASE ~disposed /\ ~awaitingStopIdle /\ active # NoItem
  <2> DEFINE st == Settle(status, {active}, "played")
  <2>1. /\ awaitingStopIdle' = awaitingStopIdle
        /\ EndInPump(Pump(queue, st, NoItem, FALSE, Idle, items, latestEpoch, cancelledEpochs),
                     TRUE, items)
    BY <1>6 DEF OnIdle
  <2>2. st \in Seq(Statuses) /\ Len(st) = Len(items')
    BY <1>3, SettleFacts DEF Statuses
  <2>3. awaitingStopIdle = FALSE
    BY <1>1, <1>6 DEF Disturbed
  <2>4. NoItem \in Items \cup {NoItem} /\ FALSE \in BOOLEAN
    OBVIOUS
  <2> HIDE DEF st
  <2>5. Disturbed'
    BY <1>3, <2>1, <2>2, <2>3, <2>4, EndInPumpKeeps
  <2> QED BY <1>2, <2>5, IInvPartsPrime
<1>7. disposed => active = NoItem
  BY <1>1 DEF Disturbed
<1> QED BY <1>4, <1>5, <1>6, <1>7 DEF OnIdle

\* onError keeps the invariant: the active item fails and the queue moves on.
LEMMA PlayerFailsKeeps ==
  ASSUME IInv, PlayerFails
  PROVE  IInv'
<1>1. Disturbed /\ Undisturbed
  BY IInvParts
<1>2. UNCHANGED <<latestEpoch, cancelledEpochs, disposed, items, heard, cancelledEver>>
  BY DEF PlayerFails
<1>3. Undisturbed'
  BY <1>1, <1>2 DEF Undisturbed
<1>4. CASE disposed \/ active = NoItem
  <2>1. OnIdle /\ heard' \subseteq Items
    BY <1>1, <1>2, <1>4 DEF PlayerFails, Undisturbed
  <2> QED BY <1>2, <2>1, OnIdleKeeps
<1>5. CASE ~(disposed \/ active = NoItem)
  <2> DEFINE st == Settle(status, {active}, "failed")
  <2>1. /\ awaitingStopIdle' = awaitingStopIdle
        /\ EndInPump(Pump(queue, st, NoItem, awaitingStopIdle, Idle, items, latestEpoch,
                          cancelledEpochs), TRUE, items)
    BY <1>5 DEF PlayerFails
  <2>2. /\ queue \in Seq(Items) /\ Len(queue) <= MaxQueueDepth
        /\ awaitingStopIdle \in BOOLEAN /\ awaitingStopIdle = FALSE
        /\ Idle \in Player /\ NoItem \in Items \cup {NoItem}
    BY <1>1, <1>5 DEF Disturbed, Agree, Idle, Player
  <2>3. Agree(NoItem, awaitingStopIdle, Idle)
    BY <2>2 DEF Agree, Idle
  <2>4. st \in Seq(Statuses) /\ Len(st) = Len(items')
    BY <1>1, <1>2, SettleFacts DEF Disturbed, Statuses
  <2> HIDE DEF st
  <2>5. Disturbed'
    BY <1>2, <2>1, <2>2, <2>3, <2>4, EndInPumpKeeps
  <2> QED BY <1>3, <2>5, IInvPartsPrime
<1> QED BY <1>4, <1>5

\* Every step of the scheduler keeps the invariant, one named step per action.
THEOREM StepKeepsIInv == IInv /\ [Next]_vars => IInv'
<1> SUFFICES ASSUME IInv, [Next]_vars
             PROVE  IInv'
  OBVIOUS
<1>1. ASSUME NEW e \in Epochs, NEW r \in Resources, Enqueue(e, r)
      PROVE  IInv'
  BY <1>1, EnqueueKeeps
<1>2. ASSUME NEW e \in Epochs, CancelEpoch(e)
      PROVE  IInv'
  BY <1>2, CancelEpochKeeps
<1>3. ASSUME UNCHANGED vars
      PROVE  IInv'
  BY <1>3 DEF vars, IInv, TypeOK, Closed, PlayerAgreement
<1>4. ASSUME NEW e \in Epochs, AwaitDrained(e)
      PROVE  IInv'
  BY <1>4 DEF AwaitDrained, IInv, TypeOK, Closed, PlayerAgreement
<1>5. CASE StopAll
  BY <1>5, StopAllKeeps
<1>6. CASE Dispose
  BY <1>6, DisposeKeeps
<1>7. CASE PlayerFinishes
  <2>1. /\ OnIdle /\ heard' = heard \cup {player.res} /\ player.res # NoItem
        /\ UNCHANGED <<latestEpoch, cancelledEpochs, disposed, items, cancelledEver>>
    BY <1>7 DEF PlayerFinishes
  <2>2. heard' \subseteq Items
    BY <2>1 DEF IInv, TypeOK
  <2> QED BY <2>1, <2>2, OnIdleKeeps
<1>8. CASE PlayerStops
  <2>1. /\ OnIdle /\ heard' = heard
        /\ UNCHANGED <<latestEpoch, cancelledEpochs, disposed, items, cancelledEver>>
    BY <1>8 DEF PlayerStops
  <2>2. heard' \subseteq Items
    BY <2>1 DEF IInv, TypeOK
  <2> QED BY <2>1, <2>2, OnIdleKeeps
<1>9. CASE PlayerFails
  BY <1>9, PlayerFailsKeeps
<1> QED BY <1>1, <1>2, <1>3, <1>4, <1>5, <1>6, <1>7, <1>8, <1>9 DEF Next, CancelEpochThrows

\* A new scheduler satisfies the invariant.
LEMMA InitIInv == Init => IInv
<1> SUFFICES ASSUME Init PROVE IInv
  OBVIOUS
<1>1. Cardinality({}) = 0
  BY FS_EmptySet
<1>2. TypeOK
  <2>1. player \in [res : Items \cup {NoItem}, stopping : BOOLEAN]
    BY DEF Init, Idle
  <2>2. latestEpoch \in Epochs
    BY PlaybackAssumption DEF Init, Epochs
  <2>3. /\ queue \in Seq(Items) /\ Len(queue) <= MaxQueueDepth
        /\ items \in Seq([epoch : Epochs, resource : Resources]) /\ Len(items) <= MaxItems
        /\ status \in Seq(Statuses) /\ Len(status) = Len(items)
    BY PlaybackAssumption DEF Init
  <2>4. cancelledEpochs \subseteq Epochs /\ Cardinality(cancelledEpochs) <= MaxFutureCancels
    BY <1>1, PlaybackAssumption DEF Init
  <2>5. /\ active \in Items \cup {NoItem} /\ drainWaiters \subseteq Epochs
        /\ disposed \in BOOLEAN /\ awaitingStopIdle \in BOOLEAN
        /\ heard \subseteq Items /\ cancelledEver \subseteq Epochs
    BY DEF Init
  <2> QED BY <2>1, <2>2, <2>3, <2>4, <2>5 DEF TypeOK
<1>3. PlayerAgreement /\ Closed
  BY DEF Init, PlayerAgreement, Closed, Idle
<1> QED BY <1>2, <1>3 DEF IInv

(***************************************************************************)
(* Type correctness with the two limits of the code, and the agreement of  *)
(* scheduler and player: in every reachable state, whatever is enqueued,   *)
(* cancelled, disposed of or failing, what the scheduler believes to be    *)
(* playing is what the player plays.                                       *)
(***************************************************************************)
THEOREM Invariance == Spec => []IInv
<1>1. Init => IInv
  BY InitIInv
<1>2. IInv /\ [Next]_vars => IInv'
  BY StepKeepsIInv
<1> QED BY <1>1, <1>2, PTL DEF Spec

\* TypeOK, with MAX_QUEUE_DEPTH and the limit of cancelEpoch, holds always.
THEOREM TypeCorrect == Spec => []TypeOK
<1>1. IInv => TypeOK
  BY DEF IInv
<1> QED BY <1>1, Invariance, PTL

\* No audible resource is ever replaced, and no late Idle is taken for another's.
THEOREM AgreementHolds == Spec => []PlayerAgreement
<1>1. IInv => PlayerAgreement
  BY DEF IInv
<1> QED BY <1>1, Invariance, PTL

-----------------------------------------------------------------------------
(* What the scheduler promises its callers, on top of the invariant above: *)
(* the discipline of the queue, that a cancelled response never sounds     *)
(* again, and that 'played' means heard.                                   *)

(***************************************************************************)
(* The discipline over the values a call hands to pump().  Beyond          *)
(* QueueDiscipline it says that what is queued or active was enqueued.     *)
(***************************************************************************)
Disciplined(q, act, st) ==
  /\ \A i \in DOMAIN st : st[i] = "pending" <=> (i \in InQueue(q) \/ (i = act /\ act # NoItem))
  /\ \A k \in 1..Len(q) : q[k] > act
  /\ \A j, k \in 1..Len(q) : j < k => q[j] < q[k]
  /\ InQueue(q) \subseteq DOMAIN st
  /\ act # NoItem => act \in DOMAIN st

\* What cancelEpoch has refused stays refused: an epoch is forgotten only when a
\* later one has been enqueued.
Remembered ==
  \A e \in cancelledEver : e < latestEpoch \/ e \in cancelledEpochs

GInv ==
  /\ IInv
  /\ Disciplined(queue, active, status)
  /\ Remembered
  /\ CancelledNeverActive
  /\ PlayedWasHeard

-----------------------------------------------------------------------------
\* pump() hands the discipline on.
LEMMA PumpDisciplined ==
  ASSUME NEW q \in Seq(Items), NEW st \in Seq(Statuses), NEW act \in Items \cup {NoItem},
         NEW waiting, NEW plr, NEW its, NEW latest, NEW cancelled,
         NEW p, PumpOutcome(p, q, st, act, waiting, plr, its, latest, cancelled),
         Disciplined(q, act, st)
  PROVE  Disciplined(p.queue, p.active, p.status)
<1>1. DOMAIN p.status = DOMAIN st
  BY DEF PumpOutcome
<1>2. CASE Shut(act, waiting)
  BY <1>2 DEF PumpOutcome
<1>3. CASE ~Shut(act, waiting) /\ Drains(p, plr) /\ SettlesFirst(p, Len(q), q, st)
  <2>1. act = NoItem /\ p.queue = << >> /\ p.active = NoItem
    BY <1>3 DEF Shut, Drains
  <2>2. InQueue(p.queue) = {}
    BY <2>1 DEF InQueue
  <2>3. ASSUME NEW i \in DOMAIN st
        PROVE  p.status[i] # "pending"
    <3>1. CASE i \in InQueue(q)
      <4>1. \E m \in 1..Len(q) : q[m] = i
        BY <3>1 DEF InQueue
      <4>2. p.status[i] \in {"cancelled", "failed"}
        BY <1>3, <4>1 DEF SettlesFirst
      <4> QED BY <4>2
    <3>2. CASE i \notin InQueue(q)
      <4>1. ~ \E m \in 1..Len(q) : q[m] = i
        BY <3>2 DEF InQueue
      <4>2. p.status[i] = st[i]
        BY <1>3, <4>1 DEF SettlesFirst
      <4> QED BY <2>1, <3>2, <4>2 DEF Disciplined
    <3> QED BY <3>1, <3>2
  <2> QED BY <1>1, <2>1, <2>2, <2>3 DEF Disciplined
<1>4. ASSUME ~Shut(act, waiting), NEW k \in 1..Len(q),
             Plays(p, k, q, plr, its, latest, cancelled), SettlesFirst(p, k - 1, q, st)
      PROVE  Disciplined(p.queue, p.active, p.status)
  <2>1. act = NoItem /\ p.active = q[k] /\ p.queue = SubSeq(q, k + 1, Len(q))
    BY <1>4 DEF Shut, Plays
  <2>2. Len(q) \in Nat /\ k \in Nat /\ \A m \in 1..Len(q) : q[m] \in Nat /\ q[m] # NoItem
    <3>1. \A m \in 1..Len(q) : q[m] \in Items
      OBVIOUS
    <3>2. \A x \in Items : x \in Nat /\ x # NoItem
      BY DEF Items, NoItem
    <3>3. Len(q) \in Nat /\ k \in Nat
      OBVIOUS
    <3> QED BY <3>1, <3>2, <3>3
  <2>3. /\ Len(p.queue) = Len(q) - k
        /\ \A j \in 1..Len(p.queue) : p.queue[j] = q[k + j] /\ k + j \in 1..Len(q)
    BY <2>1, <2>2
  <2>4. \A j, m \in 1..Len(q) : j < m => q[j] < q[m]
    BY DEF Disciplined
  <2>5. ASSUME NEW i
        PROVE  i \in InQueue(p.queue) <=> \E m \in (k + 1)..Len(q) : q[m] = i
    <3>1. ASSUME NEW j \in 1..Len(p.queue), p.queue[j] = i
          PROVE  \E m \in (k + 1)..Len(q) : q[m] = i
      <4>1. k + j \in (k + 1)..Len(q) /\ q[k + j] = i
        BY <2>2, <2>3, <3>1
      <4> QED BY <4>1
    <3>2. ASSUME NEW m \in (k + 1)..Len(q), q[m] = i
          PROVE  \E j \in 1..Len(p.queue) : p.queue[j] = i
      <4>1. m - k \in 1..Len(p.queue) /\ k + (m - k) = m
        BY <2>2, <2>3
      <4>2. p.queue[m - k] = i
        BY <2>3, <3>2, <4>1
      <4> QED BY <4>1, <4>2
    <3> QED BY <3>1, <3>2 DEF InQueue
  <2>6. ASSUME NEW i \in DOMAIN st
        PROVE  p.status[i] = "pending" <=> (i \in InQueue(p.queue) \/ i = q[k])
    <3>1. st[i] = "pending" <=> \E m \in 1..Len(q) : q[m] = i
      BY <2>1 DEF Disciplined, InQueue
    <3>2. CASE \E m \in 1..(k - 1) : q[m] = i
      <4>1. p.status[i] \in {"cancelled", "failed"}
        BY <1>4, <3>2 DEF SettlesFirst
      <4>2. PICK m \in 1..(k - 1) : q[m] = i
        BY <3>2
      <4>3. m \in 1..Len(q) /\ m < k
        BY <2>2
      <4>4. i # q[k] /\ \A n \in (k + 1)..Len(q) : q[n] # i
        <5>1. q[m] < q[k]
          BY <2>4, <4>3
        <5>2. \A n \in (k + 1)..Len(q) : n \in 1..Len(q) /\ m < n
          BY <2>2, <4>3
        <5>3. \A n \in (k + 1)..Len(q) : q[m] < q[n]
          BY <2>4, <4>3, <5>2
        <5>4. \A n \in (k + 1)..Len(q) : q[n] \in Nat
          BY <2>2, <5>2
        <5> QED BY <2>2, <4>2, <4>3, <5>1, <5>3, <5>4
      <4> QED BY <2>5, <4>1, <4>4
    <3>3. CASE ~ \E m \in 1..(k - 1) : q[m] = i
      <4>1. p.status[i] = st[i]
        BY <1>4, <3>3 DEF SettlesFirst
      <4>2. (\E m \in 1..Len(q) : q[m] = i) <=>
              (q[k] = i \/ \E m \in (k + 1)..Len(q) : q[m] = i)
        BY <2>2, <3>3
      <4> QED BY <2>5, <3>1, <4>1, <4>2
    <3> QED BY <3>2, <3>3
  <2>7. q[k] \in DOMAIN st /\ InQueue(p.queue) \subseteq DOMAIN st
    <3>1. \A m \in 1..Len(q) : q[m] \in DOMAIN st
      BY DEF Disciplined, InQueue
    <3>2. \A m \in (k + 1)..Len(q) : m \in 1..Len(q)
      BY <2>2
    <3> QED BY <2>5, <3>1, <3>2
  <2>8. \A j \in 1..Len(p.queue) : p.queue[j] > q[k]
    <3>1. \A j \in 1..Len(p.queue) : k < k + j /\ k + j \in 1..Len(q)
      BY <2>2, <2>3
    <3>2. \A j \in 1..Len(p.queue) : q[k] < q[k + j] /\ q[k + j] \in Nat
      BY <2>2, <2>4, <3>1
    <3> QED BY <2>2, <2>3, <3>2
  <2>9. \A i, j \in 1..Len(p.queue) : i < j => p.queue[i] < p.queue[j]
    <3>1. \A i, j \in 1..Len(p.queue) : i < j => k + i < k + j
      BY <2>2, <2>3
    <3> QED BY <2>3, <2>4, <3>1
  <2> QED BY <1>1, <2>1, <2>2, <2>6, <2>7, <2>8, <2>9 DEF Disciplined
<1> QED BY <1>2, <1>3, <1>4 DEF PumpOutcome

\* filter() and the settlement of what it takes out hand it on, too: of the
\* active item when "stop", of the queued items in "drop".
LEMMA CancelDisciplined ==
  ASSUME NEW q \in Seq(Items), NEW st \in Seq(Statuses), NEW act \in Items \cup {NoItem},
         Disciplined(q, act, st),
         NEW drop \in SUBSET InQueue(q), NEW stop \in BOOLEAN,
         NEW outcome \in Statuses \ {"pending"}
  PROVE  Disciplined(Without(q, drop), IF stop THEN NoItem ELSE act,
                     Settle(st, drop \cup (IF stop THEN {act} ELSE {}), outcome))
<1> DEFINE w    == Without(q, drop)
           gone == drop \cup (IF stop THEN {act} ELSE {})
           s    == Settle(st, gone, outcome)
           a    == IF stop THEN NoItem ELSE act
<1>1. /\ w \in Seq(Items) /\ InQueue(w) = InQueue(q) \ drop
      /\ \A i, j \in 1..Len(w) : i < j =>
           \E k, m \in 1..Len(q) : k < m /\ w[i] = q[k] /\ w[j] = q[m]
  BY WithoutFacts
<1>2. /\ s \in Seq(Statuses) /\ Len(s) = Len(st)
      /\ \A i \in DOMAIN st : s[i] = IF i \in gone THEN outcome ELSE st[i]
  <2> HIDE DEF gone
  <2> QED BY SettleFacts
<1>3. DOMAIN s = DOMAIN st
  BY <1>2
<1>4. /\ \A i \in DOMAIN st : st[i] = "pending" <=> (i \in InQueue(q) \/ (i = act /\ act # NoItem))
      /\ \A x \in InQueue(q) : x > act
      /\ \A j, k \in 1..Len(q) : j < k => q[j] < q[k]
      /\ InQueue(q) \subseteq DOMAIN st
      /\ act # NoItem => act \in DOMAIN st
  BY DEF Disciplined, InQueue
<1>5. act \in Int /\ \A x \in InQueue(q) : x \in Int /\ x # act
  <2>1. act \in Int
    BY DEF Items, NoItem
  <2>2. \A m \in 1..Len(q) : q[m] \in Items
    OBVIOUS
  <2>3. \A x \in InQueue(q) : x \in Int
    BY <2>2 DEF InQueue, Items
  <2> QED BY <1>4, <2>1, <2>3
<1> HIDE DEF w, s
<1>6. ASSUME NEW i \in DOMAIN s
      PROVE  s[i] = "pending" <=> (i \in InQueue(w) \/ (i = a /\ a # NoItem))
  <2>1. CASE i \in drop
    <3>1. s[i] # "pending" /\ i \notin InQueue(w) /\ i # act
      BY <1>1, <1>2, <1>3, <1>5, <2>1
    <3> QED BY <3>1
  <2>2. CASE i \notin drop /\ stop /\ i = act
    <3>1. s[i] # "pending" /\ i \notin InQueue(w)
      BY <1>1, <1>2, <1>3, <1>5, <2>2
    <3> QED BY <2>2, <3>1
  <2>3. CASE i \notin drop /\ ~(stop /\ i = act)
    <3>1. s[i] = st[i]
      BY <1>2, <1>3, <2>3
    <3>2. i \in InQueue(w) <=> i \in InQueue(q)
      BY <1>1, <2>3
    <3> QED BY <1>3, <1>4, <2>3, <3>1, <3>2
  <2> QED BY <2>1, <2>2, <2>3
<1>7. \A k \in 1..Len(w) : w[k] > a
  <2>1. \A k \in 1..Len(w) : w[k] \in InQueue(q)
    BY <1>1 DEF InQueue
  <2>2. \A x \in InQueue(q) : x > NoItem
    <3>1. \A m \in 1..Len(q) : q[m] \in Items
      OBVIOUS
    <3> QED BY <3>1 DEF InQueue, Items, NoItem
  <2> QED BY <1>4, <2>1, <2>2
<1>8. \A j, k \in 1..Len(w) : j < k => w[j] < w[k]
  BY <1>1, <1>4
<1>9. /\ InQueue(w) \subseteq DOMAIN s
      /\ a # NoItem => a \in DOMAIN s
  BY <1>1, <1>3, <1>4
<1> HIDE DEF a
<1>10. Disciplined(w, a, s)
  BY <1>6, <1>7, <1>8, <1>9 DEF Disciplined
<1> QED BY <1>10 DEF w, a, s

\* The end of the active item: it settles, and the queue stays as it is.
LEMMA FinishDisciplined ==
  ASSUME NEW q \in Seq(Items), NEW st \in Seq(Statuses), NEW act \in Items,
         Disciplined(q, act, st), NEW outcome \in Statuses \ {"pending"}
  PROVE  Disciplined(q, NoItem, Settle(st, {act}, outcome))
<1> DEFINE s == Settle(st, {act}, outcome)
<1>1. /\ s \in Seq(Statuses) /\ Len(s) = Len(st)
      /\ \A i \in DOMAIN st : s[i] = IF i \in {act} THEN outcome ELSE st[i]
  BY SettleFacts
<1>2. DOMAIN s = DOMAIN st
  BY <1>1
<1>3. act # NoItem /\ act > NoItem /\ act \in Int
  BY DEF Items, NoItem
<1>4. \A k \in 1..Len(q) : q[k] > act /\ q[k] \in Int
  <2>1. \A k \in 1..Len(q) : q[k] \in Items
    OBVIOUS
  <2>2. \A x \in Items : x \in Int
    BY DEF Items
  <2>3. \A k \in 1..Len(q) : q[k] > act
    BY DEF Disciplined
  <2> QED BY <2>1, <2>2, <2>3
<1>5. act \notin InQueue(q) /\ \A k \in 1..Len(q) : q[k] > NoItem
  BY <1>3, <1>4 DEF InQueue, NoItem
<1> HIDE DEF s
<1>6. \A i \in DOMAIN s : s[i] = "pending" <=> (i \in InQueue(q) \/ (i = NoItem /\ NoItem # NoItem))
  BY <1>1, <1>2, <1>3, <1>5 DEF Disciplined
<1>7. Disciplined(q, NoItem, s)
  BY <1>2, <1>5, <1>6 DEF Disciplined
<1> QED BY <1>7 DEF s

\* pump() marks nothing as played and plays nothing that is stale.
LEMMA PumpHonest ==
  ASSUME NEW q, NEW st \in Seq(Statuses), NEW act, NEW waiting, NEW plr, NEW its,
         NEW latest, NEW cancelled,
         NEW p, PumpOutcome(p, q, st, act, waiting, plr, its, latest, cancelled)
  PROVE  /\ DOMAIN p.status = DOMAIN st
         /\ \A i \in DOMAIN st : p.status[i] = "played" => st[i] = "played"
         /\ \/ p.active = act \/ p.active = NoItem
            \/ ~IsStale(its[p.active].epoch, latest, cancelled)
<1>1. DOMAIN p.status = DOMAIN st
  BY DEF PumpOutcome
<1>2. CASE Shut(act, waiting)
  BY <1>1, <1>2 DEF PumpOutcome
<1>3. ASSUME NEW n, SettlesFirst(p, n, q, st)
      PROVE  \A i \in DOMAIN st : p.status[i] = "played" => st[i] = "played"
  BY <1>3 DEF SettlesFirst
<1>4. CASE ~Shut(act, waiting) /\ Drains(p, plr) /\ SettlesFirst(p, Len(q), q, st)
  BY <1>1, <1>3, <1>4 DEF Drains
<1>5. ASSUME ~Shut(act, waiting), NEW k \in 1..Len(q),
             Plays(p, k, q, plr, its, latest, cancelled), SettlesFirst(p, k - 1, q, st)
      PROVE  /\ \A i \in DOMAIN st : p.status[i] = "played" => st[i] = "played"
             /\ ~IsStale(its[p.active].epoch, latest, cancelled)
  BY <1>3, <1>5 DEF Plays
<1> QED BY <1>1, <1>2, <1>4, <1>5 DEF PumpOutcome

\* The part of the invariant that the calls ending in pump() disturb.
Promises ==
  /\ Disciplined(queue, active, status)
  /\ CancelledNeverActive
  /\ PlayedWasHeard

\* What is common to the calls that end in pump(): discipline and truthful
\* promises before it give discipline and truthful promises after it.
LEMMA EndInPumpPromises ==
  ASSUME NEW q \in Seq(Items), NEW st \in Seq(Statuses), NEW act \in Items \cup {NoItem},
         NEW waiting, NEW plr, NEW its, NEW latest, NEW cancelled, NEW notify,
         Disciplined(q, act, st),
         act # NoItem => its[act].epoch \notin cancelledEver',
         \A e \in cancelledEver' : e < latest \/ e \in cancelled,
         \A i \in DOMAIN st : st[i] = "played" => i \in heard',
         items' = its,
         EndInPump(Pump(q, st, act, waiting, plr, its, latest, cancelled), notify, its)
  PROVE  Promises'
<1> DEFINE p == Pump(q, st, act, waiting, plr, its, latest, cancelled)
<1>1. PumpOutcome(p, q, st, act, waiting, plr, its, latest, cancelled)
  BY PumpFacts
<1>2. queue' = p.queue /\ active' = p.active /\ status' = p.status
  <2>1. EndInPump(p, notify, its)
    OBVIOUS
  <2> HIDE DEF p
  <2> QED BY <2>1 DEF EndInPump
<1> HIDE DEF p
<1>3. Disciplined(queue', active', status')
  <2>1. Disciplined(p.queue, p.active, p.status)
    BY <1>1, PumpDisciplined
  <2> QED BY <1>2, <2>1
<1>4. /\ DOMAIN status' = DOMAIN st
      /\ \A i \in DOMAIN st : status'[i] = "played" => st[i] = "played"
      /\ \/ active' = act \/ active' = NoItem
         \/ ~IsStale(its[active'].epoch, latest, cancelled)
  <2>1. /\ DOMAIN p.status = DOMAIN st
        /\ \A i \in DOMAIN st : p.status[i] = "played" => st[i] = "played"
        /\ \/ p.active = act \/ p.active = NoItem
           \/ ~IsStale(its[p.active].epoch, latest, cancelled)
    BY <1>1, PumpHonest
  <2> QED BY <1>2, <2>1
<1>5. CancelledNeverActive'
  BY <1>4 DEF CancelledNeverActive, IsStale
<1>6. PlayedWasHeard'
  BY <1>4 DEF PlayedWasHeard
<1>7. Disciplined(queue, active, status)'
  BY <1>3 DEF Disciplined, InQueue
<1> QED BY <1>5, <1>6, <1>7 DEF Promises

-----------------------------------------------------------------------------
\* One step.

\* The larger invariant is the smaller one, the memory of cancellations, and
\* the promises.
LEMMA GInvParts == GInv <=> IInv /\ Remembered /\ Promises
BY DEF GInv, Promises

\* What the lemmas below need of the types.
LEMMA GInvTypes ==
  ASSUME GInv
  PROVE  /\ queue \in Seq(Items) /\ status \in Seq(Statuses) /\ Len(status) = Len(items)
         /\ active \in Items \cup {NoItem} /\ awaitingStopIdle \in BOOLEAN
         /\ latestEpoch \in Int /\ \A e \in cancelledEver : e \in Int
         /\ cancelledEver \subseteq Epochs
         /\ \A e \in Epochs : e \in Int
         /\ DOMAIN status = 1..Len(items) /\ DOMAIN items = 1..Len(items) /\ Len(items) \in Nat
<1>1. Disturbed /\ Undisturbed
  BY IInvParts DEF GInv
<1>2. \A e \in Epochs : e \in Int
  BY DEF Epochs
<1> QED BY <1>1, <1>2 DEF Disturbed, Undisturbed

\* A new item at the end of the queue, and one that is refused.
LEMMA AppendDisciplined ==
  ASSUME NEW q \in Seq(Items), NEW st \in Seq(Statuses), NEW act \in Items \cup {NoItem},
         Disciplined(q, act, st), Len(st) + 1 \in Items,
         NEW outcome \in Statuses
  PROVE  /\ outcome = "pending" => Disciplined(Append(q, Len(st) + 1), act, Append(st, outcome))
         /\ outcome # "pending" => Disciplined(q, act, Append(st, outcome))
<1> DEFINE id == Len(st) + 1
           s  == Append(st, outcome)
           w  == Append(q, id)
<1>1. /\ DOMAIN st = 1..Len(st) /\ DOMAIN s = 1..id /\ Len(st) \in Nat /\ id \in Int
      /\ s[id] = outcome /\ \A i \in 1..Len(st) : s[i] = st[i]
  OBVIOUS
<1>2. /\ Len(w) = Len(q) + 1 /\ Len(q) \in Nat
      /\ w[Len(q) + 1] = id /\ \A k \in 1..Len(q) : w[k] = q[k]
  OBVIOUS
<1>3. \A k \in 1..Len(q) : q[k] \in 1..Len(st)
  BY <1>1 DEF Disciplined, InQueue
<1>4. act \in Int /\ act < id /\ act # id /\ (act # NoItem => act \in 1..Len(st))
  <2>1. act # NoItem => act \in 1..Len(st)
    BY <1>1 DEF Disciplined
  <2> QED BY <1>1, <2>1 DEF NoItem, Items
<1>5. id \notin InQueue(q) /\ InQueue(q) \subseteq 1..Len(st)
  BY <1>1, <1>3 DEF InQueue
<1>6. \A x : x \in InQueue(w) <=> x \in InQueue(q) \/ x = id
  <2>1. \A x : (\E k \in 1..(Len(q) + 1) : w[k] = x) <=> (\E k \in 1..Len(q) : w[k] = x) \/ w[Len(q) + 1] = x
    BY <1>2
  <2> HIDE DEF w
  <2> QED BY <1>2, <2>1 DEF InQueue
<1>7. 1..Len(st) \subseteq 1..id /\ id \in 1..id /\ \A i \in 1..id : i \in 1..Len(st) \/ i = id
  BY <1>1
<1> HIDE DEF s, w, id
<1>8. \A i \in 1..Len(st) : s[i] = "pending" <=> (i \in InQueue(q) \/ (i = act /\ act # NoItem))
  BY <1>1 DEF Disciplined
<1>9. CASE outcome = "pending"
  <2>1. \A i \in DOMAIN s : s[i] = "pending" <=> (i \in InQueue(w) \/ (i = act /\ act # NoItem))
    <3>1. ASSUME NEW i \in 1..Len(st)
          PROVE  s[i] = "pending" <=> (i \in InQueue(w) \/ (i = act /\ act # NoItem))
      <4>1. i # id
        BY <1>1 DEF id
      <4> QED BY <1>6, <1>8, <4>1
    <3>2. s[id] = "pending" /\ id \in InQueue(w)
      BY <1>1, <1>6, <1>9
    <3> QED BY <1>1, <1>7, <3>1, <3>2
  <2>2. \A k \in 1..Len(w) : w[k] > act
    <3>1. \A k \in 1..Len(q) : q[k] > act
      BY DEF Disciplined
    <3> QED BY <1>1, <1>2, <1>4, <3>1
  <2>3. ASSUME NEW j \in 1..Len(w), NEW k \in 1..Len(w), j < k
        PROVE  w[j] < w[k]
    <3>1. j \in 1..Len(q)
      BY <1>2, <2>3
    <3>2. CASE k \in 1..Len(q)
      BY <1>2, <2>3, <3>1, <3>2 DEF Disciplined
    <3>3. CASE k \notin 1..Len(q)
      <4>1. k = Len(q) + 1
        BY <1>2, <3>3
      <4>2. w[k] = id
        BY <1>2, <4>1
      <4>3. w[j] = q[j]
        BY <1>2, <3>1
      <4>4. q[j] \in 1..Len(st)
        BY <1>3, <3>1
      <4>5. w[j] \in 1..Len(st)
        BY <4>3, <4>4
      <4> QED BY <1>1, <4>2, <4>5 DEF id
    <3> QED BY <3>2, <3>3
  <2>4. InQueue(w) \subseteq DOMAIN s /\ (act # NoItem => act \in DOMAIN s)
    BY <1>1, <1>4, <1>5, <1>6, <1>7
  <2>5. Disciplined(w, act, s)
    BY <2>1, <2>2, <2>3, <2>4 DEF Disciplined
  <2> QED BY <1>9, <2>5 DEF s, w, id
<1>10. CASE outcome # "pending"
  <2>1. \A i \in DOMAIN s : s[i] = "pending" <=> (i \in InQueue(q) \/ (i = act /\ act # NoItem))
    <3>1. s[id] # "pending" /\ id \notin InQueue(q) /\ id # act
      BY <1>1, <1>4, <1>5, <1>10
    <3> QED BY <1>1, <1>7, <1>8, <3>1
  <2>2. InQueue(q) \subseteq DOMAIN s /\ (act # NoItem => act \in DOMAIN s)
    BY <1>1, <1>4, <1>5, <1>7
  <2>3. Disciplined(q, act, s)
    BY <2>1, <2>2 DEF Disciplined
  <2> QED BY <1>10, <2>3 DEF s
<1> QED BY <1>9, <1>10

\* enqueue keeps the promises: the new item is last, and pending or refused.
LEMMA EnqueuePromises ==
  ASSUME GInv, NEW epoch \in Epochs, NEW resource \in Resources, Enqueue(epoch, resource)
  PROVE  Promises' /\ Remembered'
<1> DEFINE id        == Len(items) + 1
           its       == Append(items, [epoch |-> epoch, resource |-> resource])
           newer     == ~disposed /\ epoch > latestEpoch
           latest    == IF newer THEN epoch ELSE latestEpoch
           cancelled == IF newer THEN Pruned(cancelledEpochs, epoch) ELSE cancelledEpochs
           refused   == IF disposed \/ IsStale(epoch, latest, cancelled) THEN "cancelled"
                        ELSE IF Len(queue) >= MaxQueueDepth THEN "dropped"
                        ELSE "no"
<1>1. /\ queue \in Seq(Items) /\ status \in Seq(Statuses) /\ Len(status) = Len(items)
      /\ active \in Items \cup {NoItem}
      /\ latestEpoch \in Int /\ epoch \in Int /\ \A e \in cancelledEver : e \in Int
      /\ DOMAIN status = 1..Len(items) /\ DOMAIN items = 1..Len(items) /\ Len(items) \in Nat
  BY GInvTypes
<1>2. /\ Len(items) < MaxItems /\ items' = its
      /\ latestEpoch' = latest /\ cancelledEpochs' = cancelled
      /\ UNCHANGED <<disposed, awaitingStopIdle, heard, cancelledEver>>
  BY DEF Enqueue
<1>3. id \in Items /\ id = Len(status) + 1
  BY <1>1, <1>2, PlaybackAssumption DEF Items
<1>4. Disciplined(queue, active, status) /\ Remembered /\ CancelledNeverActive /\ PlayedWasHeard
  BY DEF GInv
<1>5. active # NoItem => active \in 1..Len(items) /\ its[active] = items[active]
  BY <1>1, <1>4 DEF Disciplined
<1>6. \A e \in cancelledEver : e < latest \/ e \in cancelled
  BY <1>1, <1>4 DEF Remembered, Pruned
<1>7. Remembered'
  <2> HIDE DEF latest, cancelled
  <2> QED BY <1>2, <1>6 DEF Remembered
<1>8. CASE refused # "no"
  <2>1. /\ status' = Append(status, refused)
        /\ UNCHANGED <<queue, active>>
    BY <1>8 DEF Enqueue
  <2>2. refused \in Statuses /\ refused # "pending" /\ refused # "played"
    BY <1>8 DEF Statuses
  <2> HIDE DEF refused, its, latest, cancelled
  <2>3. Disciplined(queue, active, status')
    BY <1>1, <1>3, <1>4, <2>1, <2>2, AppendDisciplined
  <2>4. Disciplined(queue, active, status)'
    BY <2>1, <2>3 DEF Disciplined, InQueue
  <2>5. CancelledNeverActive'
    BY <1>2, <1>4, <1>5, <2>1 DEF CancelledNeverActive
  <2>6. /\ DOMAIN status' = 1..(Len(items) + 1)
        /\ \A i \in DOMAIN status' : status'[i] = IF i \in 1..Len(items) THEN status[i] ELSE refused
    BY <1>1, <2>1, <2>2
  <2>7. PlayedWasHeard'
    BY <1>1, <1>2, <1>4, <2>2, <2>6 DEF PlayedWasHeard
  <2> QED BY <1>7, <2>4, <2>5, <2>7 DEF Promises
<1>9. CASE refused = "no"
  <2> DEFINE q  == Append(queue, id)
             st == Append(status, "pending")
  <2>1. EndInPump(Pump(q, st, active, awaitingStopIdle, player, its, latest, cancelled),
                  FALSE, its)
    BY <1>9 DEF Enqueue
  <2>2. q \in Seq(Items) /\ st \in Seq(Statuses)
    BY <1>1, <1>3 DEF Statuses
  <2>3. Disciplined(q, active, st)
    <3>1. "pending" \in Statuses
      BY DEF Statuses
    <3> HIDE DEF id
    <3> QED BY <1>1, <1>3, <1>4, <3>1, AppendDisciplined
  <2>4. active # NoItem => its[active].epoch \notin cancelledEver'
    BY <1>2, <1>4, <1>5 DEF CancelledNeverActive
  <2>5. \A i \in DOMAIN st : st[i] = "played" => i \in heard'
    <3>1. /\ DOMAIN st = 1..(Len(items) + 1)
          /\ \A i \in DOMAIN st : st[i] = IF i \in 1..Len(items) THEN status[i] ELSE "pending"
      BY <1>1
    <3> QED BY <1>1, <1>2, <1>4, <3>1 DEF PlayedWasHeard
  <2>6. \A e \in cancelledEver' : e < latest \/ e \in cancelled
    BY <1>2, <1>6
  <2> HIDE DEF q, st, its, latest, cancelled
  <2>7. Promises'
    BY <1>1, <1>2, <2>1, <2>2, <2>3, <2>4, <2>5, <2>6, EndInPumpPromises
  <2> QED BY <1>7, <2>7
<1> QED BY <1>8, <1>9

\* The part that cancelEpoch() and stopAll() share.
LEMMA CancelWorkPromises ==
  ASSUME GInv, NEW drop \in SUBSET InQueue(queue), NEW stop \in BOOLEAN, stop => active # NoItem,
         NEW cancelled, CancelWork(drop, stop, cancelled),
         items' = items, heard' = heard,
         \A e \in cancelledEver' : e < latestEpoch \/ e \in cancelled,
         active # NoItem /\ ~stop => items[active].epoch \notin cancelledEver'
  PROVE  Promises'
<1> DEFINE keep    == Without(queue, drop)
           gone    == drop \cup (IF stop THEN {active} ELSE {})
           owed    == IdleOwed(stop)
           stopped == IF stop /\ player.res # NoItem THEN [player EXCEPT !.stopping = TRUE]
                      ELSE player
           st      == Settle(status, gone, "cancelled")
           act     == IF stop THEN NoItem ELSE active
<1>1. /\ queue \in Seq(Items) /\ status \in Seq(Statuses)
      /\ active \in Items \cup {NoItem}
  BY GInvTypes
<1>2. Disciplined(queue, active, status) /\ PlayedWasHeard
  BY DEF GInv
<1>3. "cancelled" \in Statuses \ {"pending"} /\ "cancelled" \in Statuses
  BY DEF Statuses
<1>4. Disciplined(keep, act, st)
  BY <1>1, <1>2, <1>3, CancelDisciplined
<1>5. keep \in Seq(Items)
  BY <1>1, WithoutFacts
<1>6. /\ st \in Seq(Statuses)
      /\ \A i \in DOMAIN st : st[i] = "played" => i \in heard'
  <2>1. /\ st \in Seq(Statuses) /\ Len(st) = Len(status)
        /\ \A i \in DOMAIN status : st[i] = IF i \in gone THEN "cancelled" ELSE status[i]
    <3> HIDE DEF gone
    <3> QED BY <1>1, <1>3, SettleFacts
  <2>2. DOMAIN st = DOMAIN status
    BY <1>1, <2>1
  <2> HIDE DEF st
  <2> QED BY <1>2, <2>1, <2>2 DEF PlayedWasHeard
<1>7. CASE stop
  <2>1. EndInPump(Pump(keep, st, NoItem, owed, stopped, items, latestEpoch, cancelled),
                  TRUE, items)
    BY <1>7 DEF CancelWork
  <2>2. Disciplined(keep, NoItem, st) /\ NoItem \in Items \cup {NoItem}
    BY <1>4, <1>7
  <2> HIDE DEF keep, st, owed, stopped, act
  <2> QED BY <1>5, <1>6, <2>1, <2>2, EndInPumpPromises
<1>8. CASE ~stop
  <2> DEFINE p == [queue |-> keep, status |-> st, active |-> active,
                   player |-> player, notified |-> FALSE]
  <2>1. EndInPump(p, TRUE, items)
    BY <1>8 DEF CancelWork
  <2>2. queue' = keep /\ status' = st /\ active' = active
    <3> HIDE DEF keep, st
    <3> QED BY <2>1 DEF EndInPump
  <2>3. Disciplined(keep, active, st)
    BY <1>4, <1>8
  <2> HIDE DEF keep, st
  <2>4. Disciplined(queue, active, status)'
    BY <2>2, <2>3 DEF Disciplined, InQueue
  <2>5. CancelledNeverActive'
    BY <1>8, <2>2 DEF CancelledNeverActive
  <2>6. PlayedWasHeard'
    BY <1>6, <2>2 DEF PlayedWasHeard
  <2> QED BY <2>4, <2>5, <2>6 DEF Promises
<1> QED BY <1>7, <1>8

\* cancelEpoch keeps the promises: everything of the epoch is settled.
LEMMA CancelEpochPromises ==
  ASSUME GInv, NEW epoch \in Epochs, CancelEpoch(epoch)
  PROVE  Promises' /\ Remembered'
<1> DEFINE cancelled == IF epoch >= latestEpoch THEN cancelledEpochs \cup {epoch}
                        ELSE cancelledEpochs
           stop == active # NoItem /\ items[active].epoch = epoch
           drop == {i \in InQueue(queue) : items[i].epoch = epoch}
<1>1. /\ cancelledEpochs' = cancelled
      /\ cancelledEver' = cancelledEver \cup {epoch}
      /\ CancelWork(drop, stop, cancelled)
      /\ UNCHANGED <<latestEpoch, disposed, items, heard>>
  BY DEF CancelEpoch
<1>2. latestEpoch \in Int /\ epoch \in Int
  BY GInvTypes
<1>3. \A e \in cancelledEver' : e < latestEpoch \/ e \in cancelled
  BY <1>1, <1>2 DEF GInv, Remembered
<1>4. stop \in BOOLEAN /\ (stop => active # NoItem) /\ drop \in SUBSET InQueue(queue)
  OBVIOUS
<1>5. active # NoItem /\ ~stop => items[active].epoch \notin cancelledEver'
  BY <1>1 DEF GInv, CancelledNeverActive
<1> HIDE DEF cancelled, stop, drop
<1>6. Promises'
  BY <1>1, <1>3, <1>4, <1>5, CancelWorkPromises
<1>7. Remembered'
  BY <1>1, <1>3 DEF Remembered
<1> QED BY <1>6, <1>7

\* stopAll keeps the promises: nothing is left queued or active.
LEMMA StopAllPromises ==
  ASSUME GInv, StopAll
  PROVE  Promises' /\ Remembered'
<1> DEFINE stop == active # NoItem
<1>1. /\ CancelWork(InQueue(queue), stop, cancelledEpochs)
      /\ UNCHANGED <<latestEpoch, cancelledEpochs, disposed, items, heard, cancelledEver>>
  BY DEF StopAll
<1>2. \A e \in cancelledEver' : e < latestEpoch \/ e \in cancelledEpochs
  BY <1>1 DEF GInv, Remembered
<1>3. /\ stop \in BOOLEAN /\ (stop => active # NoItem)
      /\ InQueue(queue) \in SUBSET InQueue(queue)
      /\ active # NoItem /\ ~stop => items[active].epoch \notin cancelledEver'
  OBVIOUS
<1> HIDE DEF stop
<1>4. Promises'
  BY <1>1, <1>2, <1>3, CancelWorkPromises
<1>5. Remembered'
  BY <1>1, <1>2 DEF Remembered
<1> QED BY <1>4, <1>5

\* dispose keeps the promises, as stopAll does.
LEMMA DisposePromises ==
  ASSUME GInv, Dispose
  PROVE  Promises' /\ Remembered'
<1>1. /\ queue' = << >> /\ active' = NoItem
      /\ status' = Settle(status, InQueue(queue) \cup {active}, "cancelled")
      /\ UNCHANGED <<latestEpoch, cancelledEpochs, items, heard, cancelledEver>>
  BY DEF Dispose
<1>2. Disciplined(queue, active, status) /\ PlayedWasHeard /\ Remembered
  BY DEF GInv
<1>3. /\ DOMAIN status' = DOMAIN status
      /\ \A i \in DOMAIN status :
           status'[i] = IF i \in InQueue(queue) \cup {active} THEN "cancelled" ELSE status[i]
  <2>1. status \in Seq(Statuses) /\ "cancelled" \in Statuses
    BY GInvTypes DEF Statuses
  <2>2. /\ status' \in Seq(Statuses) /\ Len(status') = Len(status)
        /\ \A i \in DOMAIN status :
             status'[i] = IF i \in InQueue(queue) \cup {active} THEN "cancelled" ELSE status[i]
    BY <1>1, <2>1, SettleFacts
  <2> QED BY <2>1, <2>2
<1>4. \A i \in DOMAIN status' : status'[i] # "pending"
  BY <1>2, <1>3 DEF Disciplined
<1>5. ASSUME NEW q, NEW act, NEW st, q = << >>, act = NoItem,
             \A i \in DOMAIN st : st[i] # "pending"
      PROVE  Disciplined(q, act, st)
  <2>1. 1..Len(q) = {} /\ InQueue(q) = {}
    BY <1>5 DEF InQueue
  <2> QED BY <1>5, <2>1 DEF Disciplined
<1>6. Disciplined(queue', active', status')
  BY <1>1, <1>4, <1>5
<1>7. Disciplined(queue, active, status)'
  BY <1>6 DEF Disciplined, InQueue
<1>8. PlayedWasHeard' /\ CancelledNeverActive'
  BY <1>1, <1>2, <1>3 DEF PlayedWasHeard, CancelledNeverActive
<1>9. Remembered'
  BY <1>1, <1>2 DEF Remembered
<1> QED BY <1>7, <1>8, <1>9 DEF Promises

\* The Idle event: when it ends the active item, that item was heard.
LEMMA OnIdlePromises ==
  ASSUME GInv, OnIdle,
         UNCHANGED <<latestEpoch, cancelledEpochs, disposed, items, cancelledEver>>,
         heard \subseteq heard',
         ~disposed /\ ~awaitingStopIdle /\ active # NoItem => active \in heard'
  PROVE  Promises' /\ Remembered'
<1>1. /\ queue \in Seq(Items) /\ status \in Seq(Statuses)
      /\ active \in Items \cup {NoItem} /\ awaitingStopIdle \in BOOLEAN
  BY GInvTypes
<1>2. Disciplined(queue, active, status) /\ PlayedWasHeard /\ CancelledNeverActive /\ Remembered
  BY DEF GInv
<1>3. Remembered'
  BY <1>2 DEF Remembered
<1>4. \A e \in cancelledEver' : e < latestEpoch \/ e \in cancelledEpochs
  BY <1>2 DEF Remembered
<1>5. CASE UNCHANGED <<queue, active, status>>
  <2>1. Disciplined(queue, active, status)'
    BY <1>2, <1>5 DEF Disciplined, InQueue
  <2>2. CancelledNeverActive' /\ PlayedWasHeard'
    BY <1>2, <1>5 DEF CancelledNeverActive, PlayedWasHeard
  <2> QED BY <1>3, <2>1, <2>2 DEF Promises
<1>6. CASE EndInPump(Pump(queue, status, active, FALSE, Idle, items, latestEpoch,
                          cancelledEpochs), FALSE, items)
  <2>1. active # NoItem => items[active].epoch \notin cancelledEver'
    BY <1>2 DEF CancelledNeverActive
  <2>2. \A i \in DOMAIN status : status[i] = "played" => i \in heard'
    BY <1>2 DEF PlayedWasHeard
  <2>3. Promises'
    BY <1>1, <1>2, <1>4, <1>6, <2>1, <2>2, EndInPumpPromises
  <2> QED BY <1>3, <2>3
<1>7. CASE /\ ~disposed /\ ~awaitingStopIdle /\ active # NoItem
           /\ EndInPump(Pump(queue, Settle(status, {active}, "played"), NoItem, FALSE, Idle,
                             items, latestEpoch, cancelledEpochs), TRUE, items)
  <2> DEFINE st == Settle(status, {active}, "played")
  <2>1. active \in Items /\ "played" \in Statuses \ {"pending"} /\ "played" \in Statuses
    BY <1>1, <1>7 DEF Statuses
  <2>2. Disciplined(queue, NoItem, st)
    BY <1>1, <1>2, <2>1, FinishDisciplined
  <2>3. /\ st \in Seq(Statuses) /\ Len(st) = Len(status)
        /\ \A i \in DOMAIN status : st[i] = IF i \in {active} THEN "played" ELSE status[i]
    BY <1>1, <2>1, SettleFacts
  <2>4. DOMAIN st = DOMAIN status
    BY <1>1, <2>3
  <2> HIDE DEF st
  <2>5. \A i \in DOMAIN st : st[i] = "played" => i \in heard'
    BY <1>2, <1>7, <2>3, <2>4 DEF PlayedWasHeard
  <2>6. EndInPump(Pump(queue, st, NoItem, FALSE, Idle, items, latestEpoch, cancelledEpochs),
                  TRUE, items)
    BY <1>7 DEF st
  <2>7. Promises'
    BY <1>1, <1>4, <2>2, <2>3, <2>5, <2>6, EndInPumpPromises
  <2> QED BY <1>3, <2>7
<1> QED BY <1>5, <1>6, <1>7 DEF OnIdle, ReopenPump

\* onError keeps the promises: the failed item is answered as failed.
LEMMA PlayerFailsPromises ==
  ASSUME GInv, PlayerFails
  PROVE  Promises' /\ Remembered'
<1>1. UNCHANGED <<latestEpoch, cancelledEpochs, disposed, items, heard, cancelledEver>>
  BY DEF PlayerFails
<1>2. CASE disposed \/ active = NoItem
  BY <1>1, <1>2, OnIdlePromises DEF PlayerFails
<1>3. CASE ~(disposed \/ active = NoItem)
  <2> DEFINE st == Settle(status, {active}, "failed")
  <2>1. EndInPump(Pump(queue, st, NoItem, awaitingStopIdle, Idle, items, latestEpoch,
                       cancelledEpochs), TRUE, items)
    BY <1>3 DEF PlayerFails
  <2>2. /\ queue \in Seq(Items) /\ status \in Seq(Statuses) /\ active \in Items
        /\ "failed" \in Statuses \ {"pending"} /\ "failed" \in Statuses
    BY <1>3, GInvTypes DEF Statuses
  <2>3. Disciplined(queue, active, status) /\ PlayedWasHeard /\ Remembered
    BY DEF GInv
  <2>4. Disciplined(queue, NoItem, st)
    BY <2>2, <2>3, FinishDisciplined
  <2>5. /\ st \in Seq(Statuses) /\ Len(st) = Len(status)
        /\ \A i \in DOMAIN status : st[i] = IF i \in {active} THEN "failed" ELSE status[i]
    BY <2>2, SettleFacts
  <2>6. DOMAIN st = DOMAIN status
    BY <2>2, <2>5
  <2> HIDE DEF st
  <2>7. \A i \in DOMAIN st : st[i] = "played" => i \in heard'
    BY <1>1, <2>3, <2>5, <2>6 DEF PlayedWasHeard
  <2>8. \A e \in cancelledEver' : e < latestEpoch \/ e \in cancelledEpochs
    BY <1>1, <2>3 DEF Remembered
  <2>9. Promises'
    BY <1>1, <2>1, <2>2, <2>4, <2>5, <2>7, <2>8, EndInPumpPromises
  <2>10. Remembered'
    BY <1>1, <2>3 DEF Remembered
  <2> QED BY <2>9, <2>10
<1> QED BY <1>2, <1>3

\* GInv is inductive, on top of the step of IInv.
THEOREM StepKeepsGInv == GInv /\ [Next]_vars => GInv'
<1> SUFFICES ASSUME GInv, [Next]_vars
             PROVE  GInv'
  OBVIOUS
<1>1. IInv'
  BY StepKeepsIInv DEF GInv
<1>2. Promises' /\ Remembered'
  <2>1. ASSUME NEW e \in Epochs, NEW r \in Resources, Enqueue(e, r)
        PROVE  Promises' /\ Remembered'
    BY <2>1, EnqueuePromises
  <2>2. ASSUME NEW e \in Epochs, CancelEpoch(e)
        PROVE  Promises' /\ Remembered'
    BY <2>2, CancelEpochPromises
  <2>3. CASE UNCHANGED <<queue, active, latestEpoch, cancelledEpochs, items, status, heard,
                         cancelledEver>>
    BY <2>3 DEF GInv, Promises, Remembered, Disciplined, InQueue, CancelledNeverActive,
                PlayedWasHeard
  <2>4. CASE StopAll
    BY <2>4, StopAllPromises
  <2>5. CASE Dispose
    BY <2>5, DisposePromises
  <2>6. PlayerAgreement
    BY DEF GInv, IInv
  <2>7. CASE PlayerFinishes
    <3>1. /\ OnIdle /\ heard' = heard \cup {player.res}
          /\ UNCHANGED <<latestEpoch, cancelledEpochs, disposed, items, cancelledEver>>
      BY <2>7 DEF PlayerFinishes
    <3>2. active # NoItem => active \in heard'
      BY <2>6, <3>1 DEF PlayerAgreement
    <3> QED BY <3>1, <3>2, OnIdlePromises
  <2>8. CASE PlayerStops
    <3>1. /\ OnIdle /\ heard' = heard /\ player.stopping
          /\ UNCHANGED <<latestEpoch, cancelledEpochs, disposed, items, cancelledEver>>
      BY <2>8 DEF PlayerStops
    <3>2. active = NoItem
      BY <2>6, <3>1 DEF PlayerAgreement
    <3> QED BY <3>1, <3>2, OnIdlePromises
  <2>9. CASE PlayerFails
    BY <2>9, PlayerFailsPromises
  <2> QED BY <2>1, <2>2, <2>3, <2>4, <2>5, <2>7, <2>8, <2>9
          DEF Next, vars, AwaitDrained, CancelEpochThrows
<1> QED BY <1>1, <1>2, GInvParts DEF GInv, Promises, Remembered

\* A new scheduler satisfies the larger invariant.
LEMMA InitGInv == Init => GInv
<1> SUFFICES ASSUME Init PROVE GInv
  OBVIOUS
<1>1. IInv
  BY InitIInv
<1>2. 1..Len(queue) = {} /\ DOMAIN status = {}
  BY DEF Init
<1>3. Disciplined(queue, active, status) /\ PlayedWasHeard
  BY <1>2 DEF Init, Disciplined, InQueue, PlayedWasHeard
<1>4. Remembered /\ CancelledNeverActive
  BY DEF Init, Remembered, CancelledNeverActive
<1> QED BY <1>1, <1>3, <1>4 DEF GInv

\* The strengthened invariant: the agreement, the discipline, the memory of what
\* was cancelled, and the two promises that follow from them.
THEOREM Honesty == Spec => []GInv
<1>1. Init => GInv
  BY InitGInv
<1>2. GInv /\ [Next]_vars => GInv'
  BY StepKeepsGInv
<1> QED BY <1>1, <1>2, PTL DEF Spec

\* What is playing belongs to no epoch that cancelEpoch was ever called for,
\* although enqueue() forgets cancellations whenever the epoch advances.
THEOREM CancelledStaysSilent == Spec => []CancelledNeverActive
<1>1. GInv => CancelledNeverActive
  BY DEF GInv
<1> QED BY <1>1, Honesty, PTL

\* 'played' is reported only for a resource that ran to its natural end, however
\* late the Idle of a stopped resource comes.
THEOREM PlayedIsHeard == Spec => []PlayedWasHeard
<1>1. GInv => PlayedWasHeard
  BY DEF GInv
<1> QED BY <1>1, Honesty, PTL

\* Nothing is lost, duplicated or reordered, whatever is cancelled in between.
THEOREM DisciplineHolds == Spec => []QueueDiscipline
<1>1. GInv => QueueDiscipline
  BY DEF GInv, Disciplined, QueueDiscipline
<1> QED BY <1>1, Honesty, PTL

-----------------------------------------------------------------------------
(* No wakeup of the scheduler is lost: who waits, waits for something.     *)

\* An open pump() starts an item, or leaves nothing and says so.
LEMMA PumpTells ==
  ASSUME NEW S, NEW q \in Seq(S), NEW st, NEW act, NEW waiting, NEW plr, NEW its, NEW latest,
         NEW cancelled, ~Shut(act, waiting)
  PROVE  LET p == Pump(q, st, act, waiting, plr, its, latest, cancelled) IN
         (p.queue = << >> /\ p.notified) \/ \E k \in 1..Len(q) : p.active = q[k]
<1> DEFINE p == Pump(q, st, act, waiting, plr, its, latest, cancelled)
           stale(i) == IsStale(its[i].epoch, latest, cancelled)
           playable == {k \in 1..Len(q) : ~stale(q[k]) /\ its[q[k]].resource = "good"}
           first    == IF playable = {} THEN Len(q) + 1
                       ELSE CHOOSE k \in playable : \A m \in playable : k <= m
<1> SUFFICES (p.queue = << >> /\ p.notified) \/ \E k \in 1..Len(q) : p.active = q[k]
  OBVIOUS
<1>1. CASE playable = {}
  <2>1. p.queue = << >> /\ p.notified
    BY <1>1 DEF Pump, Shut
  <2> QED BY <2>1
<1>2. CASE playable # {}
  <2>1. p.active = q[first]
    BY <1>2 DEF Pump, Shut
  <2>2. first \in playable
    <3>1. playable \in SUBSET Nat
      OBVIOUS
    <3>2. first = CHOOSE k \in playable : \A m \in playable : k <= m
      BY <1>2
    <3> HIDE DEF playable, first
    <3>3. \E k \in playable : \A m \in playable : k <= m
      BY <1>2, <3>1, LeastElement
    <3> QED BY <3>2, <3>3
  <2>3. first \in 1..Len(q)
    BY <2>2
  <2> HIDE DEF p, first, playable
  <2> QED BY <2>1, <2>3
<1> QED BY <1>1, <1>2

\* Nobody waits for the drain of an empty scheduler once notifyDrained() has run.
LEMMA NobodyWaitsForNothing ==
  ASSUME NEW q \in Seq(Items), NEW its, NEW e \in StillWaiting(q, NoItem, its)
  PROVE  q # << >>
BY DEF StillWaiting, HasWork, InQueue

\* A call that ends in pump() leaves nothing behind: if it found the pump shut with
\* nothing active, an Idle is owed, and what it handed over was not empty or it notifies.
LEMMA EndInPumpForgetsNothing ==
  ASSUME ~disposed,
         NEW q \in Seq(Items), NEW st, NEW act \in Items \cup {NoItem}, NEW waiting \in BOOLEAN,
         NEW plr, NEW its, NEW latest, NEW cancelled, NEW notify \in BOOLEAN,
         EndInPump(Pump(q, st, act, waiting, plr, its, latest, cancelled), notify, its),
         notify \/ q # << >> \/ ~waiting,
         active' = NoItem
  PROVE  /\ queue' # << >> => waiting
         /\ drainWaiters' # {} => queue' # << >>
<1> DEFINE p == Pump(q, st, act, waiting, plr, its, latest, cancelled)
<1>1. EndInPump(p, notify, its)
  OBVIOUS
<1>2. CASE act # NoItem
  <2>1. p.active = act
    BY <1>2 DEF Pump
  <2> HIDE DEF p
  <2> QED BY <1>1, <1>2, <2>1 DEF EndInPump
<1>3. CASE act = NoItem /\ waiting
  <2>1. p.queue = q /\ p.active = NoItem /\ p.notified = FALSE
    BY <1>3 DEF Pump
  <2> HIDE DEF p
  <2>2. queue' = q /\ (notify => drainWaiters' = StillWaiting(q, NoItem, its))
    BY <1>1, <2>1 DEF EndInPump
  <2>3. notify /\ drainWaiters' # {} => q # << >>
    BY <2>2, NobodyWaitsForNothing
  <2> QED BY <1>3, <2>2, <2>3
<1>4. CASE act = NoItem /\ ~waiting
  <2>1. (p.queue = << >> /\ p.notified) \/ \E k \in 1..Len(q) : p.active = q[k]
    BY <1>4, PumpTells DEF Shut
  <2> HIDE DEF p
  <2>2. \A k \in 1..Len(q) : q[k] # NoItem
    <3>1. \A k \in 1..Len(q) : q[k] \in Items
      OBVIOUS
    <3> QED BY <3>1 DEF Items, NoItem
  <2>3. p.queue = << >> /\ p.notified /\ p.active = NoItem
    BY <1>1, <2>1, <2>2 DEF EndInPump
  <2>4. queue' = << >> /\ drainWaiters' = StillWaiting(<< >>, NoItem, its)
    BY <1>1, <2>3 DEF EndInPump
  <2>5. drainWaiters' = {}
    <3>1. << >> \in Seq(Items)
      OBVIOUS
    <3>2. \A e \in StillWaiting(<< >>, NoItem, its) : FALSE
      BY <3>1, NobodyWaitsForNothing
    <3> QED BY <2>4, <3>2
  <2> QED BY <2>4, <2>5
<1> QED BY <1>2, <1>3, <1>4

\* After dispose() the queue stays empty.
Emptied == disposed => queue = << >>
FInv == IInv /\ NothingForgotten /\ Emptied

\* cancelEpoch and stopAll: what is left in the queue was there before.
LEMMA CancelWorkForgetsNothing ==
  ASSUME FInv, NEW drop, NEW stop \in BOOLEAN, stop => active # NoItem, NEW cancelled,
         CancelWork(drop, stop, cancelled), disposed' = disposed
  PROVE  NothingForgotten' /\ Emptied'
<1> DEFINE keep    == Without(queue, drop)
           gone    == drop \cup (IF stop THEN {active} ELSE {})
           owed    == IdleOwed(stop)
           stopped == IF stop /\ player.res # NoItem THEN [player EXCEPT !.stopping = TRUE]
                      ELSE player
           st      == Settle(status, gone, "cancelled")
<1>1. /\ queue \in Seq(Items) /\ active \in Items \cup {NoItem} /\ awaitingStopIdle \in BOOLEAN
      /\ disposed => active = NoItem
  BY DEF FInv, IInv, TypeOK, Closed
<1>2. keep \in Seq(Items) /\ (queue = << >> => keep = << >>)
  <2>1. keep \in Seq(Items) /\ Len(keep) <= Len(queue)
    BY <1>1, WithoutFacts
  <2> HIDE DEF keep
  <2> QED BY <1>1, <2>1
<1>3. CASE stop
  <2>1. /\ awaitingStopIdle' = owed /\ owed \in BOOLEAN /\ ~disposed
        /\ EndInPump(Pump(keep, st, NoItem, owed, stopped, items, latestEpoch, cancelled),
                     TRUE, items)
    BY <1>1, <1>3 DEF CancelWork, IdleOwed
  <2>2. NoItem \in Items \cup {NoItem} /\ TRUE \in BOOLEAN
    OBVIOUS
  <2> HIDE DEF keep, st, owed, stopped, gone
  <2>3. active' = NoItem => /\ queue' # << >> => owed
                            /\ drainWaiters' # {} => queue' # << >>
    BY <1>2, <2>1, <2>2, EndInPumpForgetsNothing
  <2> QED BY <2>1, <2>3 DEF NothingForgotten, Emptied
<1>4. CASE ~stop
  <2> DEFINE p == [queue |-> keep, status |-> st, active |-> active,
                   player |-> player, notified |-> FALSE]
  <2>1. awaitingStopIdle' = awaitingStopIdle /\ EndInPump(p, TRUE, items)
    BY <1>4 DEF CancelWork, IdleOwed
  <2>2. queue' = keep /\ active' = active /\ drainWaiters' = StillWaiting(keep, active, items)
    <3> HIDE DEF keep, st
    <3> QED BY <2>1 DEF EndInPump
  <2> HIDE DEF keep, st, p
  <2>3. active = NoItem /\ drainWaiters' # {} => keep # << >>
    BY <1>2, <2>2, NobodyWaitsForNothing
  <2> QED BY <1>2, <2>1, <2>2, <2>3 DEF FInv, NothingForgotten, Emptied
<1> QED BY <1>3, <1>4

\* enqueue() hands pump() a queue that is not empty.
LEMMA EnqueueForgetsNothing ==
  ASSUME FInv, NEW e \in Epochs, NEW r \in Resources, Enqueue(e, r)
  PROVE  NothingForgotten' /\ Emptied'
<1>1. /\ queue \in Seq(Items) /\ active \in Items \cup {NoItem} /\ awaitingStopIdle \in BOOLEAN
      /\ items \in Seq([epoch : Epochs, resource : Resources]) /\ Len(items) < MaxItems
  BY DEF FInv, IInv, TypeOK, Enqueue
<1> DEFINE id        == Len(items) + 1
           its       == Append(items, [epoch |-> e, resource |-> r])
           newer     == ~disposed /\ e > latestEpoch
           latest    == IF newer THEN e ELSE latestEpoch
           cancelled == IF newer THEN Pruned(cancelledEpochs, e) ELSE cancelledEpochs
           refused   == IF disposed \/ IsStale(e, latest, cancelled) THEN "cancelled"
                        ELSE IF Len(queue) >= MaxQueueDepth THEN "dropped" ELSE "no"
           st        == Append(status, "pending")
<1>2. UNCHANGED <<disposed, awaitingStopIdle>>
  BY DEF Enqueue
<1>3. CASE UNCHANGED <<queue, active, drainWaiters>>
  BY <1>2, <1>3 DEF FInv, NothingForgotten, Emptied
<1>4. CASE /\ refused = "no"
           /\ EndInPump(Pump(Append(queue, id), st, active, awaitingStopIdle, player, its, latest,
                             cancelled), FALSE, its)
  <2>1. ~disposed
    BY <1>4
  <2>2. Append(queue, id) \in Seq(Items) /\ Append(queue, id) # << >>
    <3>1. id \in Items
      BY <1>1, PlaybackAssumption DEF Items
    <3> HIDE DEF id
    <3>2. queue \in Seq(Items) /\ id \in Items
      BY <1>1, <3>1
    <3>3. Append(queue, id) \in Seq(Items)
      BY <3>2
    <3>4. Len(Append(queue, id)) = Len(queue) + 1 /\ Len(queue) \in Nat
      BY <3>2
    <3>5. Append(queue, id) # << >>
      BY <3>4
    <3> QED BY <3>3, <3>5
  <2> DEFINE q == Append(queue, id)
  <2>3. EndInPump(Pump(q, st, active, awaitingStopIdle, player, its, latest, cancelled), FALSE, its)
    BY <1>4
  <2>4. q \in Seq(Items) /\ q # << >>
    BY <2>2
  <2> HIDE DEF id, its, latest, cancelled, refused, newer, st, q
  <2>5. active' = NoItem => /\ queue' # << >> => awaitingStopIdle
                            /\ drainWaiters' # {} => queue' # << >>
    BY <1>1, <2>1, <2>3, <2>4, EndInPumpForgetsNothing
  <2> QED BY <1>2, <2>1, <2>5 DEF NothingForgotten, Emptied
<1> QED BY <1>3, <1>4 DEF Enqueue

\* The Idle event: a stopped resource's reopens the pump, the active one's moves it on.
LEMMA OnIdleForgetsNothing ==
  ASSUME FInv, OnIdle, UNCHANGED <<disposed, items>>
  PROVE  NothingForgotten' /\ Emptied'
<1>1. /\ queue \in Seq(Items) /\ active \in Items \cup {NoItem} /\ awaitingStopIdle \in BOOLEAN
      /\ FALSE \in BOOLEAN /\ TRUE \in BOOLEAN /\ NoItem \in Items \cup {NoItem}
  BY DEF FInv, IInv, TypeOK
<1>2. CASE UNCHANGED <<queue, active, drainWaiters, awaitingStopIdle>>
  BY <1>2 DEF FInv, NothingForgotten, Emptied
<1>3. CASE ~disposed /\ ReopenPump
  <2>1. /\ awaitingStopIdle' = FALSE
        /\ EndInPump(Pump(queue, status, active, FALSE, Idle, items, latestEpoch, cancelledEpochs),
                     FALSE, items)
    BY <1>3 DEF ReopenPump
  <2>2. active' = NoItem => queue' = << >> /\ drainWaiters' = {}
    BY <1>1, <1>3, <2>1, EndInPumpForgetsNothing
  <2> QED BY <1>3, <2>1, <2>2 DEF NothingForgotten, Emptied
<1>4. CASE /\ ~disposed /\ UNCHANGED awaitingStopIdle
           /\ EndInPump(Pump(queue, Settle(status, {active}, "played"), NoItem, FALSE, Idle, items,
                             latestEpoch, cancelledEpochs), TRUE, items)
  <2> DEFINE st == Settle(status, {active}, "played")
  <2>1. EndInPump(Pump(queue, st, NoItem, FALSE, Idle, items, latestEpoch, cancelledEpochs), TRUE, items)
    BY <1>4
  <2> HIDE DEF st
  <2>2. active' = NoItem => queue' = << >> /\ drainWaiters' = {}
    BY <1>1, <1>4, <2>1, EndInPumpForgetsNothing
  <2> QED BY <1>4, <2>2 DEF NothingForgotten, Emptied
<1> QED BY <1>2, <1>3, <1>4 DEF OnIdle

\* onError: the queue moves on as after an Idle.
LEMMA PlayerFailsForgetsNothing ==
  ASSUME FInv, PlayerFails
  PROVE  NothingForgotten' /\ Emptied'
<1>1. /\ queue \in Seq(Items) /\ awaitingStopIdle \in BOOLEAN
      /\ TRUE \in BOOLEAN /\ NoItem \in Items \cup {NoItem}
  BY DEF FInv, IInv, TypeOK
<1>2. UNCHANGED <<disposed, items>>
  BY DEF PlayerFails
<1>3. CASE disposed \/ active = NoItem
  BY <1>2, <1>3, OnIdleForgetsNothing DEF PlayerFails
<1>4. CASE ~(disposed \/ active = NoItem)
  <2> DEFINE st == Settle(status, {active}, "failed")
  <2>1. /\ awaitingStopIdle' = awaitingStopIdle /\ ~disposed
        /\ EndInPump(Pump(queue, st, NoItem, awaitingStopIdle, Idle, items, latestEpoch,
                          cancelledEpochs), TRUE, items)
    BY <1>4 DEF PlayerFails
  <2> HIDE DEF st
  <2>2. active' = NoItem => /\ queue' # << >> => awaitingStopIdle
                            /\ drainWaiters' # {} => queue' # << >>
    BY <1>1, <2>1, EndInPumpForgetsNothing
  <2> QED BY <1>2, <2>1, <2>2 DEF NothingForgotten, Emptied
<1> QED BY <1>3, <1>4

\* Every step of the scheduler forgets nobody.
LEMMA StepKeepsFInv == FInv /\ [Next]_vars => FInv'
<1> SUFFICES ASSUME FInv, [Next]_vars PROVE NothingForgotten' /\ Emptied'
  BY StepKeepsIInv DEF FInv
<1>1. CASE \E e \in Epochs, r \in Resources : Enqueue(e, r)
  BY <1>1, EnqueueForgetsNothing
<1>2. ASSUME NEW e \in Epochs, CancelEpoch(e) PROVE NothingForgotten' /\ Emptied'
  <2> DEFINE cancelled == IF e >= latestEpoch THEN cancelledEpochs \cup {e} ELSE cancelledEpochs
             drop == {i \in InQueue(queue) : items[i].epoch = e}
             stop == active # NoItem /\ items[active].epoch = e
  <2>1. CancelWork(drop, stop, cancelled) /\ disposed' = disposed
    BY <1>2 DEF CancelEpoch
  <2>2. stop \in BOOLEAN /\ (stop => active # NoItem)
    OBVIOUS
  <2> HIDE DEF cancelled, drop, stop
  <2> QED BY <2>1, <2>2, CancelWorkForgetsNothing
<1>3. CASE StopAll
  <2> DEFINE stop == active # NoItem
  <2>1. CancelWork(InQueue(queue), stop, cancelledEpochs) /\ disposed' = disposed
    BY <1>3 DEF StopAll
  <2>2. stop \in BOOLEAN /\ (stop => active # NoItem)
    OBVIOUS
  <2> HIDE DEF stop
  <2> QED BY <2>1, <2>2, CancelWorkForgetsNothing
<1>4. ASSUME NEW e \in Epochs, AwaitDrained(e) PROVE NothingForgotten' /\ Emptied'
  <2>1. UNCHANGED <<queue, active, disposed, awaitingStopIdle>> /\ HasWork(e, queue, active, items)
    BY <1>4 DEF AwaitDrained
  <2>2. active = NoItem => queue # << >>
    BY <2>1 DEF HasWork, InQueue, FInv, IInv, TypeOK
  <2> QED BY <2>1, <2>2 DEF FInv, NothingForgotten, Emptied
<1>5. CASE Dispose
  BY <1>5 DEF Dispose, NothingForgotten, Emptied
<1>6. CASE PlayerFinishes \/ PlayerStops
  BY <1>6, OnIdleForgetsNothing DEF PlayerFinishes, PlayerStops
<1>7. CASE PlayerFails
  BY <1>7, PlayerFailsForgetsNothing
<1>8. CASE UNCHANGED vars \/ \E e \in Epochs : CancelEpochThrows(e)
  BY <1>8 DEF CancelEpochThrows, vars, FInv, NothingForgotten, Emptied
<1> QED BY <1>1, <1>2, <1>3, <1>4, <1>5, <1>6, <1>7, <1>8 DEF Next

\* Items wait only behind an active one or an Idle that is owed, and nobody awaits
\* the drain of a scheduler that has nothing left: pump() and notifyDrained() are
\* called wherever they must be.
THEOREM NothingIsForgotten == Spec => []NothingForgotten
<1>1. Init => FInv
  BY InitIInv DEF Init, FInv, NothingForgotten, Emptied
<1>2. FInv => NothingForgotten
  BY DEF FInv
<1> QED BY <1>1, <1>2, StepKeepsFInv, PTL DEF Spec

\* What a caller is told is true: played means heard, pending means that the item
\* waits or plays, and who waits waits for something.
THEOREM PromisesHold == Spec => []PromisesAreTrue
<1>1. PlayedWasHeard /\ QueueDiscipline /\ NothingForgotten => PromisesAreTrue
  BY DEF PromisesAreTrue
<1> QED BY <1>1, PlayedIsHeard, DisciplineHolds, NothingIsForgotten, PTL

-----------------------------------------------------------------------------
(* The pipeline of a reply.  That the audio is accounted for when it is    *)
(* over says nothing of the way there: what is invariant is who holds the  *)
(* audio of each phrase meanwhile.                                         *)

\* Whose the phrases that are not done with are: one sounds, the last one may be
\* prepared or under way.
Held ==
  \A k \in DOMAIN sound :
    \/ sound[k] \in Done \/ k = playing
    \/ k = Len(sound) /\ (prepare = "full" \/ (sound[k] = "asked" /\ (aborted \/ prepare = "synthesize")))

\* The phrase that sounds, while there is one: none after it has been played.
Sounding ==
  playing # 0 =>
    /\ result = "running" /\ sound[playing] = "playing"
    /\ \A k \in DOMAIN sound : k > playing => sound[k] # "played"

\* The phrase that prepare() is at.
Ahead ==
  /\ prepare = "synthesize" /\ ~aborted => sound # <<>> /\ sound[Len(sound)] = "asked"
  /\ prepare = "full" => playing \in 1..(Len(sound) - 1) /\ sound[Len(sound)] = "prepared"

PipelineInv ==
  /\ PipelineTypeOK
  /\ Held /\ Sounding /\ Ahead
  /\ result # "running" => prepare = "none" \/ aborted

\* Before the first phrase is pulled there is no audio to account for.
LEMMA PipelineStarts == PipelineInit => PipelineInv
<1> SUFFICES ASSUME PipelineInit PROVE PipelineInv
  OBVIOUS
<1>1. sound = <<>> /\ Len(sound) = 0 /\ DOMAIN sound = {} /\ playing \in 0..0 /\ sound \in Seq(Fates)
  BY DEF PipelineInit
<1>2. prepare = "pull" /\ aborted = FALSE /\ result = "running"
  BY DEF PipelineInit
<1>3. PipelineTypeOK
  BY <1>1, <1>2 DEF PipelineTypeOK
<1>4. Held /\ Sounding /\ Ahead
  BY <1>1, <1>2 DEF Held, Sounding, Ahead
<1> QED BY <1>2, <1>3, <1>4 DEF PipelineInv

\* Changing one entry of the sequence of fates.
LEMMA FateChanges ==
  ASSUME NEW s \in Seq(Fates), NEW k \in DOMAIN s, NEW fate \in Fates
  PROVE  /\ [s EXCEPT ![k] = fate] \in Seq(Fates)
         /\ Len([s EXCEPT ![k] = fate]) = Len(s)
         /\ \A j \in DOMAIN s : [s EXCEPT ![k] = fate][j] = IF j = k THEN fate ELSE s[j]
OBVIOUS

\* A phrase that is pulled is the last one, and under way.
LEMMA PullKeeps ==
  ASSUME PipelineInv, Pull
  PROVE  PipelineInv'
<1> USE DEF Pull, Pulling, Going
<1>1. /\ sound' = Append(sound, "asked") /\ sound \in Seq(Fates) /\ sound' \in Seq(Fates)
      /\ Len(sound') = Len(sound) + 1 /\ Len(sound) \in Nat
      /\ sound'[Len(sound')] = "asked" /\ \A j \in 1..Len(sound) : sound'[j] = sound[j]
      /\ DOMAIN sound = 1..Len(sound) /\ DOMAIN sound' = 1..(Len(sound) + 1)
  BY DEF PipelineInv, PipelineTypeOK, Fates
<1>2. PipelineTypeOK'
  BY <1>1 DEF PipelineInv, PipelineTypeOK
<1>3. Held'
  BY <1>1 DEF PipelineInv, PipelineTypeOK, Held
<1>4. Sounding'
  BY <1>1 DEF PipelineInv, PipelineTypeOK, Sounding
<1>5. Ahead'
  BY <1>1 DEF PipelineInv, PipelineTypeOK, Ahead
<1> QED BY <1>2, <1>3, <1>4, <1>5 DEF PipelineInv

\* The end of the text, or its failure, touches no audio.
LEMMA TextEndsKeeps ==
  ASSUME PipelineInv, NEW thrown \in BOOLEAN, TextEnds(thrown)
  PROVE  PipelineInv'
BY DEF TextEnds, Pulling, Going, PipelineInv, PipelineTypeOK, Held, Sounding, Ahead

\* Audio that is ready sounds at once, or waits behind what sounds.
LEMMA SynthesizedKeeps ==
  ASSUME PipelineInv, Synthesized
  PROVE  PipelineInv'
<1> DEFINE k == Len(sound)
<1>1. sound \in Seq(Fates) /\ k \in DOMAIN sound /\ k \in Nat \ {0} /\ DOMAIN sound = 1..k
  BY DEF PipelineInv, PipelineTypeOK, Ahead, Synthesized, Going
<1>2. sound[k] = "asked" /\ prepare = "synthesize" /\ ~aborted /\ result = "running"
  BY DEF PipelineInv, Ahead, Synthesized, Going
<1>3. UNCHANGED <<aborted, result>>
  BY DEF Synthesized
<1>4. CASE playing = 0
  <2>1. playing' = k /\ sound' = [sound EXCEPT ![k] = "playing"] /\ prepare' = "pull"
    BY <1>4 DEF Synthesized
  <2>2. /\ sound' \in Seq(Fates) /\ Len(sound') = k /\ DOMAIN sound' = 1..k
        /\ \A j \in 1..k : sound'[j] = IF j = k THEN "playing" ELSE sound[j]
    BY <1>1, <2>1, FateChanges DEF Fates
  <2>3. PipelineTypeOK'
    BY <1>1, <1>3, <2>1, <2>2 DEF PipelineInv, PipelineTypeOK
  <2>4. Held'
    BY <1>1, <1>2, <1>4, <2>1, <2>2 DEF PipelineInv, Held
  <2>5. Sounding' /\ Ahead'
    BY <1>1, <1>2, <1>3, <2>1, <2>2 DEF Sounding, Ahead
  <2> QED BY <1>2, <1>3, <2>3, <2>4, <2>5 DEF PipelineInv
<1>5. CASE playing # 0
  <2>1. playing' = playing /\ sound' = [sound EXCEPT ![k] = "prepared"] /\ prepare' = "full"
    BY <1>5 DEF Synthesized
  <2>2. /\ sound' \in Seq(Fates) /\ Len(sound') = k /\ DOMAIN sound' = 1..k
        /\ \A j \in 1..k : sound'[j] = IF j = k THEN "prepared" ELSE sound[j]
    BY <1>1, <2>1, FateChanges DEF Fates
  <2>3. playing \in 1..(k - 1)
    BY <1>1, <1>2, <1>5 DEF PipelineInv, PipelineTypeOK, Sounding
  <2>4. PipelineTypeOK'
    BY <1>1, <1>3, <2>1, <2>2, <2>3 DEF PipelineInv, PipelineTypeOK
  <2>5. Held'
    BY <1>1, <1>2, <2>1, <2>2 DEF PipelineInv, Held
  <2>6. Sounding'
    <3>1. sound[playing] = "playing" /\ \A j \in 1..k : j > playing => sound[j] # "played"
      BY <1>1, <1>5 DEF PipelineInv, Sounding
    <3>2. playing \in 1..k /\ playing # k
      <4> HIDE DEF k
      <4> QED BY <1>1, <2>3
    <3> HIDE DEF k
    <3>3. sound'[playing] = "playing" /\ \A j \in 1..k : j > playing => sound'[j] # "played"
      BY <2>2, <3>1, <3>2
    <3> QED BY <1>2, <1>3, <2>1, <2>2, <3>3 DEF Sounding
  <2>7. Ahead'
    <3> HIDE DEF k
    <3>1. sound'[k] = "prepared" /\ Len(sound') = k
      BY <1>1, <2>2
    <3> QED BY <2>1, <2>3, <3>1 DEF Ahead
  <2> QED BY <1>2, <1>3, <2>4, <2>5, <2>6, <2>7 DEF PipelineInv
<1> QED BY <1>4, <1>5

\* A phrase without audio is done with, and the next one may be pulled.
LEMMA SynthesisFailsKeeps ==
  ASSUME PipelineInv, SynthesisFails
  PROVE  PipelineInv'
<1> DEFINE k == Len(sound)
<1>1. sound \in Seq(Fates) /\ k \in DOMAIN sound /\ k \in Nat \ {0} /\ DOMAIN sound = 1..k
  BY DEF PipelineInv, PipelineTypeOK, Ahead, SynthesisFails, Going
<1>2. /\ sound[k] = "asked" /\ prepare = "synthesize" /\ ~aborted /\ result = "running"
      /\ sound' = [sound EXCEPT ![k] = "skipped"] /\ prepare' = "pull"
      /\ UNCHANGED <<playing, aborted, result>>
  BY DEF PipelineInv, Ahead, SynthesisFails, Going
<1>3. /\ sound' \in Seq(Fates) /\ Len(sound') = k /\ DOMAIN sound' = 1..k
      /\ \A j \in 1..k : sound'[j] = IF j = k THEN "skipped" ELSE sound[j]
  BY <1>1, <1>2, FateChanges DEF Fates, Done
<1>4. PipelineTypeOK'
  BY <1>1, <1>2, <1>3 DEF PipelineInv, PipelineTypeOK
<1>5. Held'
  BY <1>1, <1>2, <1>3 DEF PipelineInv, Held, Done
<1>6. Sounding'
  <2>1. playing # 0 => playing \in 1..k /\ playing # k
    <3>1. playing \in 0..k
      BY DEF PipelineInv, PipelineTypeOK
    <3>2. playing # 0 => sound[playing] = "playing"
      BY DEF PipelineInv, Sounding
    <3> HIDE DEF k
    <3> QED BY <1>1, <1>2, <3>1, <3>2
  <2> QED BY <1>1, <1>2, <1>3, <2>1 DEF PipelineInv, Sounding
<1>7. Ahead'
  BY <1>2 DEF Ahead
<1> QED BY <1>2, <1>4, <1>5, <1>6, <1>7 DEF PipelineInv

\* Audio that comes late is not what sounds, nor what is prepared.
LEMMA LateSynthesisKeeps ==
  ASSUME PipelineInv, NEW k \in DOMAIN sound, LateSynthesis(k)
  PROVE  PipelineInv'
<1>1. PICK fate \in {"skipped", "discarded"} : sound' = [sound EXCEPT ![k] = fate]
  BY DEF LateSynthesis
<1>2. aborted /\ sound[k] = "asked" /\ UNCHANGED <<prepare, playing, aborted, result>>
  BY DEF LateSynthesis
<1>3. sound \in Seq(Fates) /\ fate \in Fates /\ fate \in Done
  BY DEF PipelineInv, PipelineTypeOK, Fates, Done
<1>4. /\ sound' \in Seq(Fates) /\ Len(sound') = Len(sound) /\ DOMAIN sound' = DOMAIN sound
      /\ \A j \in DOMAIN sound : sound'[j] = IF j = k THEN fate ELSE sound[j]
  BY <1>1, <1>3, FateChanges
<1>5. PipelineTypeOK'
  BY <1>2, <1>4 DEF PipelineInv, PipelineTypeOK
<1>6. Held'
  BY <1>2, <1>3, <1>4 DEF PipelineInv, Held
<1>7. Sounding'
  <2>1. playing # 0 => playing \in DOMAIN sound /\ playing # k
    BY <1>2, <1>3 DEF PipelineInv, PipelineTypeOK, Sounding
  <2> QED BY <1>2, <1>4, <2>1 DEF PipelineInv, Sounding
<1>8. Ahead'
  <2>1. prepare = "full" => Len(sound) # k /\ Len(sound) \in DOMAIN sound
    BY <1>2, <1>3 DEF PipelineInv, Ahead
  <2> QED BY <1>2, <1>4, <2>1 DEF PipelineInv, Ahead
<1> QED BY <1>2, <1>5, <1>6, <1>7, <1>8 DEF PipelineInv

\* What was prepared takes over, or is destroyed if the reply was cancelled.
LEMMA PlayEndsKeeps ==
  ASSUME PipelineInv, PlayEnds
  PROVE  PipelineInv'
<1> DEFINE p == playing
           n == Len(sound)
<1>1. /\ sound \in Seq(Fates) /\ n \in Nat /\ DOMAIN sound = 1..n /\ p \in 1..n
      /\ UNCHANGED <<aborted, result>> /\ result = "running" /\ sound[p] = "playing"
      /\ \A k \in DOMAIN sound : k > p => sound[k] # "played"
  BY DEF PipelineInv, PipelineTypeOK, Sounding, PlayEnds
<1>2. /\ Ended(p) \in Seq(Fates) /\ Len(Ended(p)) = n /\ DOMAIN Ended(p) = 1..n
      /\ \A j \in 1..n : Ended(p)[j] = IF j = p THEN "played" ELSE sound[j]
  BY <1>1, FateChanges DEF Ended, Fates, Done
<1>3. CASE prepare # "full"
  <2>1. playing' = 0 /\ sound' = Ended(p) /\ prepare' = prepare
    BY <1>3 DEF PlayEnds
  <2>2. PipelineTypeOK'
    BY <1>1, <1>2, <2>1 DEF PipelineInv, PipelineTypeOK
  <2>3. Held'
    BY <1>1, <1>2, <1>3, <2>1 DEF PipelineInv, Held, Done
  <2>4. Sounding'
    BY <2>1 DEF Sounding
  <2>5. Ahead'
    <3> SUFFICES ASSUME prepare = "synthesize", ~aborted
                 PROVE  sound' # <<>> /\ sound'[Len(sound')] = "asked"
      BY <1>1, <1>3, <2>1 DEF Ahead
    <3>1. sound[n] = "asked"
      BY DEF PipelineInv, Ahead
    <3>2. n # p /\ n \in 1..n
      <4> HIDE DEF n, p
      <4> QED BY <1>1, <3>1
    <3> HIDE DEF n, p
    <3>3. Len(sound') = n /\ sound'[n] = "asked"
      BY <1>2, <2>1, <3>1, <3>2
    <3> QED BY <3>2, <3>3
  <2> QED BY <1>1, <2>2, <2>3, <2>4, <2>5 DEF PipelineInv
<1>4. CASE prepare = "full"
  <2>1. p < n /\ sound[n] = "prepared" /\ n \in 1..n
    BY <1>1, <1>4 DEF PipelineInv, Ahead
  <2>2. \A k \in 1..(n - 1) : sound[k] \in Done \/ k = p
    BY <1>1 DEF PipelineInv, Held
  <2>3. \A fate \in Fates :
          /\ [Ended(p) EXCEPT ![n] = fate] \in Seq(Fates)
          /\ Len([Ended(p) EXCEPT ![n] = fate]) = n
          /\ \A j \in 1..n : [Ended(p) EXCEPT ![n] = fate][j] = IF j = n THEN fate ELSE Ended(p)[j]
    <3> HIDE DEF n, p
    <3> QED BY <1>2, <2>1, FateChanges
  <2>4. CASE ~aborted
    <3>1. playing' = n /\ sound' = [Ended(p) EXCEPT ![n] = "playing"] /\ prepare' = "pull"
      BY <1>4, <2>4 DEF PlayEnds
    <3>2. /\ sound' \in Seq(Fates) /\ Len(sound') = n /\ DOMAIN sound' = 1..n
          /\ \A j \in 1..n : sound'[j] = IF j = n THEN "playing" ELSE Ended(p)[j]
      <4> HIDE DEF n, p
      <4>1. "playing" \in Fates
        BY DEF Fates, Done
      <4>2. sound' \in Seq(Fates) /\ Len(sound') = n
        BY <2>3, <3>1, <4>1
      <4> QED BY <2>3, <3>1, <4>1, <4>2
    <3>3. PipelineTypeOK'
      BY <1>1, <2>1, <3>1, <3>2 DEF PipelineInv, PipelineTypeOK
    <3>4. Held'
      BY <1>1, <1>2, <2>2, <3>1, <3>2 DEF Held, Done
    <3>5. Sounding' /\ Ahead'
      BY <1>1, <2>1, <3>1, <3>2 DEF Sounding, Ahead
    <3> QED BY <1>1, <3>3, <3>4, <3>5 DEF PipelineInv
  <2>5. CASE aborted
    <3>1. playing' = 0 /\ sound' = [Ended(p) EXCEPT ![n] = "discarded"] /\ prepare' = "none"
      BY <1>4, <2>5 DEF PlayEnds
    <3>2. /\ sound' \in Seq(Fates) /\ Len(sound') = n /\ DOMAIN sound' = 1..n
          /\ \A j \in 1..n : sound'[j] = IF j = n THEN "discarded" ELSE Ended(p)[j]
      <4> HIDE DEF n, p
      <4>1. "discarded" \in Fates
        BY DEF Fates, Done
      <4>2. sound' \in Seq(Fates) /\ Len(sound') = n
        BY <2>3, <3>1, <4>1
      <4> QED BY <2>3, <3>1, <4>1, <4>2
    <3>3. PipelineTypeOK'
      BY <1>1, <3>1, <3>2 DEF PipelineInv, PipelineTypeOK
    <3>4. Held'
      BY <1>1, <1>2, <2>2, <3>1, <3>2 DEF Held, Done
    <3>5. Sounding' /\ Ahead'
      BY <3>1 DEF Sounding, Ahead
    <3> QED BY <1>1, <3>1, <3>3, <3>4, <3>5 DEF PipelineInv
  <2>6. aborted \in BOOLEAN
    BY DEF PipelineInv, PipelineTypeOK
  <2> QED BY <2>4, <2>5, <2>6
<1> QED BY <1>3, <1>4

\* The player's failure leaves only what is still being synthesised.
LEMMA PlayThrowsKeeps ==
  ASSUME PipelineInv, PlayThrows
  PROVE  PipelineInv'
<1>1. /\ sound \in Seq(Fates) /\ Len(sound) \in Nat /\ DOMAIN sound = 1..Len(sound)
      /\ \A k \in DOMAIN sound : sound[k] \in Fates
  BY DEF PipelineInv, PipelineTypeOK
<1>2. /\ playing' = 0 /\ aborted' = TRUE /\ prepare' = "threw" /\ UNCHANGED result
      /\ sound' = [k \in 1..Len(sound) |->
                     IF k = playing \/ sound[k] = "prepared" THEN "discarded" ELSE sound[k]]
  BY <1>1 DEF PlayThrows
<1>3. /\ sound' \in Seq(Fates) /\ Len(sound') = Len(sound) /\ DOMAIN sound' = DOMAIN sound
      /\ \A k \in DOMAIN sound :
           sound'[k] = IF k = playing \/ sound[k] = "prepared" THEN "discarded" ELSE sound[k]
  <2>1. sound' \in [1..Len(sound) -> Fates]
    BY <1>1, <1>2 DEF Fates, Done
  <2> QED BY <1>1, <1>2, <2>1
<1>4. PipelineTypeOK'
  BY <1>2, <1>3 DEF PipelineInv, PipelineTypeOK
<1>5. Held'
  <2> SUFFICES ASSUME NEW k \in DOMAIN sound
               PROVE  sound'[k] \in Done \/ (k = Len(sound') /\ sound'[k] = "asked")
    BY <1>2, <1>3 DEF Held
  <2>1. CASE k = playing \/ sound[k] = "prepared"
    BY <1>3, <2>1 DEF Done
  <2>2. CASE k # playing /\ sound[k] # "prepared"
    <3>1. sound[k] \in Done \/ (k = Len(sound) /\ sound[k] = "asked")
      BY <2>2 DEF PipelineInv, Held, Ahead
    <3> QED BY <1>3, <2>2, <3>1
  <2> QED BY <2>1, <2>2
<1>6. Sounding' /\ Ahead'
  BY <1>2 DEF Sounding, Ahead
<1> QED BY <1>2, <1>4, <1>5, <1>6 DEF PipelineInv

\* A cancellation leaves it to the round that runs to clear up.
LEMMA AbortKeeps ==
  ASSUME PipelineInv, Abort
  PROVE  PipelineInv'
BY DEF Abort, Going, PipelineInv, PipelineTypeOK, Held, Sounding, Ahead

\* The pipeline ends only when nothing sounds.
LEMMA OverKeeps ==
  ASSUME PipelineInv, Over
  PROVE  PipelineInv'
BY DEF Over, PipelineInv, PipelineTypeOK, Held, Sounding, Ahead

\* Every step of the pipeline keeps its invariant.
LEMMA PipelineStep == PipelineInv /\ [PipelineNext]_pipeline => PipelineInv'
<1> SUFFICES ASSUME PipelineInv, [PipelineNext]_pipeline PROVE PipelineInv'
  OBVIOUS
<1>1. CASE Pull
  BY <1>1, PullKeeps
<1>2. CASE \E thrown \in BOOLEAN : TextEnds(thrown)
  BY <1>2, TextEndsKeeps
<1>3. CASE Synthesized
  BY <1>3, SynthesizedKeeps
<1>4. CASE SynthesisFails
  BY <1>4, SynthesisFailsKeeps
<1>5. CASE PlayEnds
  BY <1>5, PlayEndsKeeps
<1>6. CASE PlayThrows
  BY <1>6, PlayThrowsKeeps
<1>7. CASE Abort
  BY <1>7, AbortKeeps
<1>8. CASE Over
  BY <1>8, OverKeeps
<1>9. CASE \E k \in DOMAIN sound : LateSynthesis(k)
  BY <1>9, LateSynthesisKeeps
<1>10. CASE UNCHANGED pipeline
  BY <1>10 DEF pipeline, PipelineInv, PipelineTypeOK, Held, Sounding, Ahead
<1> QED BY <1>1, <1>2, <1>3, <1>4, <1>5, <1>6, <1>7, <1>8, <1>9, <1>10 DEF PipelineNext, Sounds

\* At every moment it is known whose the audio of each phrase is.
THEOREM PipelineInvariance == PipelineSpec => []PipelineInv
BY PipelineStarts, PipelineStep, PTL DEF PipelineSpec

\* However the pipeline ends (its text is over or fails, the player throws, the reply
\* is cancelled), no audio it asked for is lost, for any number of phrases.
THEOREM TheAudioIsAccountedFor == PipelineSpec => []AudioIsAccountedFor
<1>1. PipelineInv => AudioIsAccountedFor
  <2> SUFFICES ASSUME PipelineInv, result # "running", NEW k \in DOMAIN sound
               PROVE  sound[k] \in Done \/ (sound[k] = "asked" /\ k = Len(sound) /\ aborted)
    BY DEF AudioIsAccountedFor
  <2>1. playing = 0 /\ prepare # "full" /\ (prepare = "none" \/ aborted)
    BY DEF PipelineInv, Sounding, Ahead
  <2>2. k # playing
    BY <2>1 DEF PipelineInv, PipelineTypeOK
  <2> QED BY <2>1, <2>2 DEF PipelineInv, Held
<1> QED BY <1>1, PipelineInvariance, PTL

\* A phrase is heard only when all that was pulled before it is over, although its
\* synthesis ran while the one before it sounded.
THEOREM ThePhrasesSoundInOrder == PipelineSpec => []PhrasesSoundInOrder
<1>1. PipelineInv => PhrasesSoundInOrder
  <2> SUFFICES ASSUME PipelineInv, NEW k \in DOMAIN sound, sound[k] \in {"playing", "played"},
                      NEW j \in 1..(k - 1)
               PROVE  sound[j] \in Done
    BY DEF PhrasesSoundInOrder
  <2>1. DOMAIN sound = 1..Len(sound) /\ Len(sound) \in Nat /\ playing \in 0..Len(sound)
    BY DEF PipelineInv, PipelineTypeOK
  <2>2. j \in DOMAIN sound /\ j < k /\ j # Len(sound)
    <3> DEFINE n == Len(sound)
    <3>1. n \in Nat /\ k \in 1..n /\ DOMAIN sound = 1..n
      BY <2>1
    <3> HIDE DEF n
    <3>2. j \in 1..n /\ j < k /\ j # n
      BY <3>1
    <3> QED BY <3>1, <3>2 DEF n
  <2>3. k = playing \/ sound[k] = "played"
    BY DEF PipelineInv, Held, Ahead, Done
  <2>4. j # playing
    BY <2>1, <2>2, <2>3 DEF PipelineInv, Sounding
  <2> QED BY <2>2, <2>4 DEF PipelineInv, Held
<1> QED BY <1>1, PipelineInvariance, PTL
=============================================================================
