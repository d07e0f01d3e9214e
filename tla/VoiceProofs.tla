----------------------------- MODULE VoiceProofs -----------------------------
(***************************************************************************)
(* Proofs about a guild's voice session and those who listen to it: what of *)
(* the captures reaches the voice service (VoiceBridge), for all members,   *)
(* decoders, SSRCs, connections and any number of disconnections, and what  *)
(* the relay is shown of the avatar (VoiceAvatar), for any number of        *)
(* sessions, updates and lost sockets.                                     *)
(***************************************************************************)
EXTENDS VoiceBridge, VoiceAvatar, SequenceTheorems, FiniteSetTheorems, TLAPS

-----------------------------------------------------------------------------
(* The inductive invariant, part one: it holds whatever commands overlap.  *)

Sources == [member : Users, origin : Origins, opened : BOOLEAN, ending : BOOLEAN,
            utterance : SUBSET Origins, audio : SUBSET Origins]

\* A bridge's types; its field sources is a function on some generations, and
\* the current source of a member is one of them.
Shaped(b) ==
  /\ b \in [link : {"starting", "ready", "closed"}, sources : {b.sources},
            byMember : [Members -> Generations \cup {Absent}],
            speeches : SUBSET Speeches, command : BOOLEAN]
  /\ DOMAIN b.sources \subseteq Generations /\ \A g \in DOMAIN b.sources : b.sources[g] \in Sources
  /\ \A m \in Members : b.byMember[m] # Absent => b.byMember[m] \in DOMAIN b.sources

\* Who waits for a closed bridge.
Settled(b) == b.link = "closed" => b.speeches = {} /\ ~b.command

\* Who refers to a connection refers to one that was made.
Joined ==
  /\ session # None => of[session].conn \in Conns
  /\ \A j \in Joins : join[j].pc # "idle" => join[j].conn \in Conns

Sessioned == SessionTypeOK /\ Joined /\ CurrentIsConnected

Kept == CaptureTypeOK /\ Shaped(bridge) /\ Settled(bridge)

IInv == Sessioned /\ Kept

-----------------------------------------------------------------------------
(* Part two: as long as no /join begins while another is under way.        *)

OneJoinAtATime == \A i, j \in Joins : join[i].pc # "idle" /\ join[j].pc # "idle" => i = j

\* A join replaces no session, for the one that was there is gone when it begins.
NothingToReplace == \A j \in Joins : join[j].pc = "entering" => session = None

\* Without a session nobody is captured, and a decoder belongs to the session.
OfSession ==
  /\ session = None => \A u \in Users : capture[u] = None /\ decoder[u] = None
  /\ \A u \in Users : decoder[u] # None => pipeline[decoder[u]] = <<u, session>>

\* Where the packets of a member come from now.
Now(u) == <<decoder[u], IF capture[u] = None THEN None ELSE capture[u].ssrc, era>>
Origin == [u \in Users |-> Now(u)]

OneOrigin ==
  /\ \A u \in Users : capture[u] # None => capture[u].audio \subseteq {Now(u)}
  /\ \A o, q \in said.audio : o = q

\* The source of a member forwards what comes from there and nothing else, and
\* every source is its member's.
Streams(b, origin) ==
  /\ \A m \in Members : b.byMember[m] # Absent =>
       b.sources[b.byMember[m]].member = m /\ b.sources[b.byMember[m]].origin = origin[m]
  /\ \A g \in DOMAIN b.sources :
       /\ b.byMember[b.sources[g].member] = g
       /\ b.sources[g].audio = {b.sources[g].origin} /\ b.sources[g].utterance \subseteq b.sources[g].audio

Whole == OfSession /\ OneOrigin /\ Streams(bridge, Origin)

Undivided == NothingToReplace /\ Whole

-----------------------------------------------------------------------------
(* The bridge.                                                             *)

LEMMA ClosedFacts ==
  ASSUME NEW b, Shaped(b)
  PROVE  /\ Shaped(Closed(b)) /\ Settled(Closed(b)) /\ Closed(b).link = "closed"
         /\ DOMAIN Closed(b).sources = {} /\ \A m \in Members : Closed(b).byMember[m] = Absent
<1>1. /\ Closed(b).link = "closed" /\ Closed(b).sources = <<>> /\ Closed(b).byMember = [m \in Members |-> Absent]
      /\ Closed(b).speeches = {} /\ Closed(b).command = FALSE
      /\ Closed(b) \in [link : {"closed"}, sources : {<<>>}, byMember : {[m \in Members |-> Absent]},
                        speeches : {{}}, command : {FALSE}]
  BY DEF Closed, Shaped
<1>2. DOMAIN Closed(b).sources = {}
  BY <1>1
<1>3. /\ Closed(b) \in [link : {"starting", "ready", "closed"}, sources : {Closed(b).sources},
                        byMember : [Members -> Generations \cup {Absent}],
                        speeches : SUBSET Speeches, command : BOOLEAN]
      /\ \A m \in Members : Closed(b).byMember[m] = Absent
  BY <1>1
<1> QED BY <1>1, <1>2, <1>3 DEF Shaped, Settled

\* A write leaves the bridge as it is or closes it.
LEMMA WrittenFacts ==
  ASSUME NEW b, Shaped(b), NEW ok \in BOOLEAN
  PROVE  /\ Written(b, ok) = b \/ Written(b, ok) = Closed(b)
         /\ Shaped(Written(b, ok)) /\ (Settled(b) => Settled(Written(b, ok)))
         /\ \A origin : Streams(b, origin) => Streams(Written(b, ok), origin)
<1>1. Written(b, ok) = b \/ Written(b, ok) = Closed(b)
  BY DEF Written
<1>2. \A origin : Streams(Closed(b), origin)
  BY ClosedFacts DEF Streams
<1> QED BY <1>1, <1>2, ClosedFacts

LEMMA ForgottenFacts ==
  ASSUME NEW b, Shaped(b), NEW gs
  PROVE  LET n == Forgotten(b, gs) IN
         /\ Shaped(n) /\ n.link = b.link /\ n.speeches = b.speeches /\ n.command = b.command
         /\ DOMAIN n.sources = DOMAIN b.sources \ gs
         /\ \A g \in DOMAIN n.sources : n.sources[g] = b.sources[g]
         /\ \A m \in Members : n.byMember[m] = IF b.byMember[m] \in gs THEN Absent ELSE b.byMember[m]
<1> DEFINE n == Forgotten(b, gs)
           f == [g \in DOMAIN b.sources \ gs |-> b.sources[g]]
           by == [m \in Members |-> IF b.byMember[m] \in gs THEN Absent ELSE b.byMember[m]]
<1>1. by \in [Members -> Generations \cup {Absent}]
  BY DEF Shaped
<1>2. n = [b EXCEPT !.sources = f, !.byMember = by]
  BY DEF Forgotten, Without
<1>3. DOMAIN f = DOMAIN b.sources \ gs /\ \A g \in DOMAIN f : f[g] = b.sources[g]
  OBVIOUS
<1>4. \A m \in Members : by[m] = IF b.byMember[m] \in gs THEN Absent ELSE b.byMember[m]
  OBVIOUS
<1> HIDE DEF f, by, n
<1>5. /\ n.sources = f /\ n.byMember = by /\ n.link = b.link /\ n.speeches = b.speeches /\ n.command = b.command
      /\ n \in [link : {"starting", "ready", "closed"}, sources : {f}, byMember : {by},
                speeches : SUBSET Speeches, command : BOOLEAN]
  BY <1>2 DEF Shaped
<1>6. Shaped(n)
  BY <1>1, <1>3, <1>4, <1>5 DEF Shaped
<1> QED BY <1>3, <1>4, <1>5, <1>6 DEF n

\* Aborting some members' sources, by whatever name they have now.
LEMMA AbortedFacts ==
  ASSUME NEW b, Shaped(b), NEW ms, NEW ok \in BOOLEAN
  PROVE  LET n == Aborted(b, ms, ok) IN
         /\ Shaped(n) /\ (Settled(b) => Settled(n))
         /\ \A g \in DOMAIN n.sources : g \in DOMAIN b.sources /\ b.sources[g].member \notin ms
         /\ \A was, is : Streams(b, was) /\ (\A m \in Members \ ms : is[m] = was[m])
              => Streams(n, is) /\ \A m \in Members \cap ms : n.byMember[m] = Absent
<1> DEFINE gs == SourcesOf(b, ms)
           told == IF gs = {} THEN b ELSE Written(b, ok)
           n == Aborted(b, ms, ok)
<1>1. n = Forgotten(told, gs)
  BY DEF Aborted
<1>2. (told = b \/ told = Closed(b)) /\ Shaped(told) /\ (Settled(b) => Settled(told))
  BY WrittenFacts
<1>3. gs = {g \in DOMAIN b.sources : b.sources[g].member \in ms}
  BY DEF SourcesOf
<1> HIDE DEF gs, told
<1>4. /\ Shaped(n) /\ n.link = told.link /\ n.speeches = told.speeches /\ n.command = told.command
      /\ DOMAIN n.sources = DOMAIN told.sources \ gs
      /\ \A g \in DOMAIN n.sources : n.sources[g] = told.sources[g]
      /\ \A m \in Members : n.byMember[m] = IF told.byMember[m] \in gs THEN Absent ELSE told.byMember[m]
  BY <1>1, <1>2, ForgottenFacts
<1> HIDE DEF n
<1>5. Settled(b) => Settled(n)
  BY <1>2, <1>4 DEF Settled
<1>6. ASSUME NEW was, NEW is, Streams(b, was), \A m \in Members \ ms : is[m] = was[m]
      PROVE  Streams(n, is) /\ \A m \in Members \cap ms : n.byMember[m] = Absent
  <2>1. CASE told = Closed(b)
    <3>1. DOMAIN told.sources = {} /\ \A m \in Members : told.byMember[m] = Absent
      BY <2>1, ClosedFacts
    <3> QED BY <1>4, <3>1 DEF Streams
  <2>2. CASE told = b
    <3>1. \A m \in Members : n.byMember[m] # Absent => m \notin ms /\ n.byMember[m] = b.byMember[m] /\ b.byMember[m] \notin gs
      BY <1>3, <1>4, <1>6, <2>2 DEF Streams, Shaped
    <3>2. \A m \in Members : n.byMember[m] # Absent =>
             /\ n.byMember[m] \in DOMAIN n.sources /\ n.sources[n.byMember[m]].member = m
             /\ n.sources[n.byMember[m]].origin = is[m]
      BY <1>4, <1>6, <2>2, <3>1 DEF Streams, Shaped
    <3>3. ASSUME NEW g \in DOMAIN n.sources
          PROVE  /\ n.byMember[n.sources[g].member] = g
                 /\ n.sources[g].audio = {n.sources[g].origin} /\ n.sources[g].utterance \subseteq n.sources[g].audio
      <4>1. g \in DOMAIN b.sources /\ g \notin gs /\ n.sources[g] = b.sources[g] /\ b.sources[g].member \in Members
        BY <1>4, <2>2, BindingAssumption DEF Shaped, Sources
      <4> QED BY <1>4, <1>6, <2>2, <4>1 DEF Streams
    <3> QED BY <3>1, <3>2, <3>3 DEF Streams
  <2> QED BY <1>2, <2>1, <2>2
<1>7. ASSUME NEW g \in DOMAIN n.sources
      PROVE  g \in DOMAIN b.sources /\ b.sources[g].member \notin ms
  <2>1. DOMAIN told.sources = {} \/ told = b
    BY <1>2, ClosedFacts
  <2> QED BY <1>3, <1>4, <1>7, <2>1
<1> QED BY <1>4, <1>5, <1>6, <1>7 DEF n

LEMMA RoomAbortedFacts ==
  ASSUME NEW b, Shaped(b), NEW ok \in BOOLEAN
  PROVE  /\ Shaped(RoomAborted(b, ok)) /\ (Settled(b) => Settled(RoomAborted(b, ok)))
         /\ \A was, is : Streams(b, was) => Streams(RoomAborted(b, ok), is)
<1> DEFINE n == Aborted(b, Members, ok)
<1>1. Shaped(n) /\ (Settled(b) => Settled(n)) /\ \A was, is : Streams(b, was) => Streams(n, is)
  <2>1. \A m : m \notin Members \ Members
    OBVIOUS
  <2> QED BY <2>1, AbortedFacts
<1> HIDE DEF n
<1>2. /\ Shaped(Written(n, ok)) /\ (Settled(n) => Settled(Written(n, ok)))
      /\ \A origin : Streams(n, origin) => Streams(Written(n, ok), origin)
  BY <1>1, WrittenFacts
<1>3. RoomAborted(b, ok) = Written(n, ok)
  BY DEF RoomAborted, n
<1> QED BY <1>1, <1>2, <1>3

\* A source that is changed and stays the same stream of the same member.
LEMMA ChangedFacts ==
  ASSUME NEW b, Shaped(b), NEW cur \in DOMAIN b.sources, NEW src \in Sources
  PROVE  LET n == [b EXCEPT !.sources[cur] = src] IN
         /\ Shaped(n) /\ n.link = b.link /\ n.speeches = b.speeches /\ n.command = b.command
         /\ (Settled(b) => Settled(n))
         /\ \A origin :
              (/\ Streams(b, origin) /\ src.member = b.sources[cur].member
               /\ src.origin = b.sources[cur].origin
               /\ src.audio = {src.origin} /\ src.utterance \subseteq src.audio)
              => Streams(n, origin)
<1> DEFINE n == [b EXCEPT !.sources[cur] = src]
           f == [b.sources EXCEPT ![cur] = src]
<1>1. n = [b EXCEPT !.sources = f]
  OBVIOUS
<1>2. DOMAIN f = DOMAIN b.sources /\ \A g \in DOMAIN f : f[g] = IF g = cur THEN src ELSE b.sources[g]
  OBVIOUS
<1> HIDE DEF f, n
<1>3. /\ n.sources = f /\ n.byMember = b.byMember /\ n.link = b.link /\ n.speeches = b.speeches
      /\ n.command = b.command
      /\ n \in [link : {"starting", "ready", "closed"}, sources : {f},
                byMember : [Members -> Generations \cup {Absent}],
                speeches : SUBSET Speeches, command : BOOLEAN]
  BY <1>1 DEF Shaped
<1>4. Shaped(n)
  BY <1>2, <1>3 DEF Shaped
<1>5. Settled(b) => Settled(n)
  BY <1>3 DEF Settled
<1>6. ASSUME NEW origin, Streams(b, origin), src.member = b.sources[cur].member,
             src.origin = b.sources[cur].origin,
             src.audio = {src.origin}, src.utterance \subseteq src.audio
      PROVE  Streams(n, origin)
  <2>1. \A g \in DOMAIN f : f[g].member = b.sources[g].member /\ f[g].origin = b.sources[g].origin
    BY <1>2, <1>6
  <2>2. \A g \in DOMAIN f : f[g].audio = {f[g].origin} /\ f[g].utterance \subseteq f[g].audio
    BY <1>2, <1>6 DEF Streams
  <2> QED BY <1>2, <1>3, <1>6, <2>1, <2>2 DEF Streams, Shaped
<1> QED BY <1>3, <1>4, <1>5, <1>6 DEF n

\* A source that is opened under a name no source has, for a member without one.
Opened(b, u, g, src) ==
  [b EXCEPT !.sources = [x \in DOMAIN @ \cup {g} |-> IF x = g THEN src ELSE @[x]], !.byMember[u] = g]

LEMMA OpenedFacts ==
  ASSUME NEW b, Shaped(b), NEW u \in Users, NEW g \in Generations, NEW src \in Sources
  PROVE  LET n == Opened(b, u, g, src) IN
         /\ Shaped(n) /\ n.link = b.link /\ (Settled(b) => Settled(n))
         /\ \A was, is :
              (/\ Streams(b, was) /\ (\A m \in Members \ {u} : is[m] = was[m]) /\ is[u] = src.origin
               /\ g \notin DOMAIN b.sources /\ b.byMember[u] = Absent
               /\ src.member = u /\ src.audio = {src.origin} /\ src.utterance \subseteq src.audio)
              => Streams(n, is)
<1> DEFINE n == Opened(b, u, g, src)
           f == [x \in DOMAIN b.sources \cup {g} |-> IF x = g THEN src ELSE b.sources[x]]
           by == [b.byMember EXCEPT ![u] = g]
<1>1. n = [b EXCEPT !.sources = f, !.byMember = by]
  BY DEF Opened
<1>2. DOMAIN f = DOMAIN b.sources \cup {g} /\ \A x \in DOMAIN f : f[x] = IF x = g THEN src ELSE b.sources[x]
  OBVIOUS
<1>3. u \in Members /\ b.byMember \in [Members -> Generations \cup {Absent}]
  BY BindingAssumption DEF Shaped
<1>4. /\ by \in [Members -> Generations \cup {Absent}] /\ by[u] = g
      /\ \A m \in Members \ {u} : by[m] = b.byMember[m]
  BY <1>3
<1> HIDE DEF f, by, n
<1>5. /\ n.sources = f /\ n.byMember = by /\ n.link = b.link /\ n.speeches = b.speeches
      /\ n.command = b.command
      /\ n \in [link : {"starting", "ready", "closed"}, sources : {f}, byMember : {by},
                speeches : SUBSET Speeches, command : BOOLEAN]
  BY <1>1 DEF Shaped
<1>6. Shaped(n)
  BY <1>2, <1>4, <1>5 DEF Shaped
<1>7. Settled(b) => Settled(n)
  BY <1>5 DEF Settled
<1>8. ASSUME NEW was, NEW is, Streams(b, was), \A m \in Members \ {u} : is[m] = was[m], is[u] = src.origin,
             g \notin DOMAIN b.sources, b.byMember[u] = Absent,
             src.member = u, src.audio = {src.origin}, src.utterance \subseteq src.audio
      PROVE  Streams(n, is)
  <2>1. ASSUME NEW m \in Members, by[m] # Absent
        PROVE  by[m] \in DOMAIN f /\ f[by[m]].member = m /\ f[by[m]].origin = is[m]
    <3>1. CASE m = u
      BY <1>2, <1>4, <1>8, <3>1
    <3>2. CASE m # u
      BY <1>2, <1>4, <1>8, <2>1, <3>2 DEF Streams, Shaped
    <3> QED BY <3>1, <3>2
  <2>2. ASSUME NEW x \in DOMAIN f
        PROVE  by[f[x].member] = x /\ f[x].audio = {f[x].origin} /\ f[x].utterance \subseteq f[x].audio
    <3>1. CASE x = g
      BY <1>2, <1>4, <1>8, <3>1
    <3>2. CASE x # g
      <4>1. x \in DOMAIN b.sources /\ f[x] = b.sources[x] /\ x \in Generations /\ f[x].member \in Members
        BY <1>2, <3>2, BindingAssumption DEF Shaped, Sources
      <4>2. f[x].member # u
        BY <4>1, <1>8, BridgeAssumption DEF Streams
      <4> QED BY <1>4, <1>8, <4>1, <4>2 DEF Streams
    <3> QED BY <3>1, <3>2
  <2> QED BY <1>5, <2>1, <2>2 DEF Streams
<1> QED BY <1>5, <1>6, <1>7, <1>8 DEF n

\* What a frame makes of the bridge: the source of its member takes it only if
\* the frames of that source came from where it came from.
LEMMA CapturedFacts ==
  ASSUME NEW b, Shaped(b), NEW u \in Users, NEW origin \in Origins, NEW g \in Generations, NEW ok \in BOOLEAN
  PROVE  LET n == Captured(b, u, origin, g, ok) IN
         /\ Shaped(n) /\ (Settled(b) => Settled(n))
         /\ \A was, is :
              (/\ Streams(b, was) /\ (\A m \in Members \ {u} : is[m] = was[m]) /\ is[u] = origin
               /\ b.byMember[u] # Absent => was[u] = origin
               /\ g \notin DOMAIN b.sources \/ b.byMember[u] = g)
              => Streams(n, is)
<1> DEFINE cur == b.byMember[u]
           usable == cur # Absent /\ ~b.sources[cur].ending /\ b.sources[cur].origin[2] = origin[2]
           left == IF cur # Absent /\ ~usable THEN Aborted(b, {u}, ok) ELSE b
           new == [member |-> u, origin |-> origin, opened |-> FALSE, ending |-> FALSE,
                   utterance |-> {}, audio |-> {origin}]
           more == [b.sources[cur] EXCEPT !.audio = @ \cup {origin}]
           heard == [b EXCEPT !.sources[cur] = more]
           opened == Opened(left, u, g, new)
           n == Captured(b, u, origin, g, ok)
           Carried(was, is) ==
             /\ Streams(b, was) /\ (\A m \in Members \ {u} : is[m] = was[m]) /\ is[u] = origin
             /\ b.byMember[u] # Absent => was[u] = origin
             /\ g \notin DOMAIN b.sources \/ b.byMember[u] = g
<1>1. \/ n = b
      \/ usable /\ n = heard
      \/ ~usable /\ (n = left \/ n = Written(opened, ok)) /\ b.link = "ready"
  BY DEF Captured, Opened
<1>2. u \in Members
  BY BindingAssumption
<1>3. ASSUME n = b
      PROVE  /\ Shaped(n) /\ (Settled(b) => Settled(n))
             /\ \A was, is : Carried(was, is) => Streams(n, is)
  <2>1. ASSUME NEW was, NEW is, Carried(was, is)
        PROVE  Streams(b, is)
    BY <2>1 DEF Streams
  <2> QED BY <1>3, <2>1
<1>4. ASSUME usable, cur \in DOMAIN b.sources, n = heard
      PROVE  /\ Shaped(n) /\ (Settled(b) => Settled(n))
             /\ \A was, is : Carried(was, is) => Streams(n, is)
  <2>1. b.sources[cur] \in Sources
    BY <1>4 DEF Shaped
  <2>2. /\ more \in Sources /\ more.member = b.sources[cur].member /\ more.origin = b.sources[cur].origin
        /\ more.audio = b.sources[cur].audio \cup {origin} /\ more.utterance = b.sources[cur].utterance
    BY <2>1 DEF Sources
  <2> HIDE DEF more
  <2>3. /\ Shaped(heard) /\ (Settled(b) => Settled(heard))
        /\ \A o : (/\ Streams(b, o) /\ more.member = b.sources[cur].member
                   /\ more.origin = b.sources[cur].origin
                   /\ more.audio = {more.origin} /\ more.utterance \subseteq more.audio)
                  => Streams(heard, o)
    BY <1>4, <2>2, ChangedFacts
  <2>4. ASSUME NEW was, NEW is, Carried(was, is)
        PROVE  Streams(heard, is)
    <3>1. Streams(b, is) /\ was[u] = origin
      BY <1>4, <2>4 DEF Streams
    <3>2. b.sources[cur].origin = origin /\ b.sources[cur].audio = {origin} /\ b.sources[cur].utterance \subseteq {origin}
      BY <1>2, <1>4, <2>4, <3>1 DEF Streams
    <3> QED BY <2>2, <2>3, <3>1, <3>2
  <2> QED BY <1>4, <2>3, <2>4
<1>5. ASSUME ~usable, n = left \/ n = Written(opened, ok), b.link = "ready"
      PROVE  /\ Shaped(n) /\ (Settled(b) => Settled(n))
             /\ \A was, is : Carried(was, is) => Streams(n, is)
  <2>1. /\ Shaped(left) /\ (Settled(b) => Settled(left))
        /\ \A was, is : Carried(was, is) => /\ Streams(left, is) /\ left.byMember[u] = Absent
                                            /\ g \notin DOMAIN left.sources
    <3>1. CASE cur = Absent
      <4>1. left = b
        BY <3>1
      <4>2. ASSUME NEW was, NEW is, Carried(was, is)
            PROVE  Streams(b, is) /\ g \notin DOMAIN b.sources
        BY <3>1, <4>2, BridgeAssumption DEF Streams
      <4> QED BY <3>1, <4>1, <4>2
    <3>2. CASE cur # Absent
      <4>1. left = Aborted(b, {u}, ok)
        BY <1>5, <3>2
      <4> HIDE DEF left
      <4>2. /\ Shaped(left) /\ (Settled(b) => Settled(left))
            /\ \A x \in DOMAIN left.sources : x \in DOMAIN b.sources /\ b.sources[x].member \notin {u}
            /\ \A was, is : Streams(b, was) /\ (\A m \in Members \ {u} : is[m] = was[m])
                 => Streams(left, is) /\ \A m \in Members \cap {u} : left.byMember[m] = Absent
        BY <4>1, AbortedFacts
      <4>3. ASSUME NEW was, NEW is, Carried(was, is)
            PROVE  Streams(left, is) /\ left.byMember[u] = Absent /\ g \notin DOMAIN left.sources
        <5>1. Streams(left, is) /\ left.byMember[u] = Absent
          BY <1>2, <4>2, <4>3
        <5>2. g \notin DOMAIN left.sources
          BY <1>2, <3>2, <4>2, <4>3 DEF Streams
        <5> QED BY <5>1, <5>2
      <4> QED BY <4>2, <4>3
    <3> QED BY <3>1, <3>2
  <2> HIDE DEF left
  <2>2. /\ new \in Sources /\ new.member = u /\ new.origin = origin
        /\ new.audio = {new.origin} /\ new.utterance = {}
    BY DEF Sources
  <2> HIDE DEF new
  <2>3. /\ Shaped(opened) /\ (Settled(left) => Settled(opened)) /\ opened.link = left.link
        /\ \A was, is :
              (/\ Streams(left, was) /\ (\A m \in Members \ {u} : is[m] = was[m]) /\ is[u] = new.origin
               /\ g \notin DOMAIN left.sources /\ left.byMember[u] = Absent
               /\ new.member = u /\ new.audio = {new.origin} /\ new.utterance \subseteq new.audio)
              => Streams(opened, is)
    BY <2>1, <2>2, OpenedFacts
  <2>4. \A was, is : Carried(was, is) => Streams(opened, is)
    BY <2>1, <2>2, <2>3
  <2> HIDE DEF opened
  <2>5. /\ Shaped(Written(opened, ok)) /\ (Settled(opened) => Settled(Written(opened, ok)))
        /\ \A o : Streams(opened, o) => Streams(Written(opened, ok), o)
    BY <2>3, WrittenFacts
  <2> QED BY <1>5, <2>1, <2>3, <2>4, <2>5
<1>6. cur # Absent => cur \in DOMAIN b.sources
  BY <1>2 DEF Shaped
<1> QED BY <1>1, <1>3, <1>4, <1>5, <1>6

\* end() marks the source of a member and gives it its utterance.
LEMMA FinishedFacts ==
  ASSUME NEW b, Shaped(b), NEW u \in Users, NEW utterance \in SUBSET Origins, NEW ok \in BOOLEAN
  PROVE  LET n == Finished(b, u, utterance, ok) IN
         /\ Shaped(n) /\ (Settled(b) => Settled(n))
         /\ \A origin : Streams(b, origin) /\ utterance \subseteq {origin[u]} => Streams(n, origin)
<1> DEFINE n == Finished(b, u, utterance, ok)
           cur == b.byMember[u]
<1>1. CASE cur = Absent
  BY <1>1 DEF Finished
<1>2. CASE cur # Absent
  <2> DEFINE src == [b.sources[cur] EXCEPT !.ending = TRUE, !.utterance = utterance]
             told == [b EXCEPT !.sources[cur] = src]
             sent == (ok \/ ~b.sources[cur].opened)
  <2>1. u \in Members /\ cur \in DOMAIN b.sources
    BY <1>2, BindingAssumption DEF Shaped
  <2>2. b.sources[cur] \in Sources /\ sent \in BOOLEAN
    BY <2>1 DEF Shaped
  <2>3. /\ src \in Sources /\ src.member = b.sources[cur].member /\ src.origin = b.sources[cur].origin
        /\ src.audio = b.sources[cur].audio /\ src.utterance = utterance
    BY <2>2 DEF Sources
  <2>4. [b EXCEPT !.sources[cur].ending = TRUE, !.sources[cur].utterance = utterance] = told
    <3> DEFINE f == b.sources
    <3>1. [f EXCEPT ![cur].ending = TRUE, ![cur].utterance = utterance] = [f EXCEPT ![cur] = src]
      BY <2>1
    <3> QED BY <3>1, <2>1
  <2>5. n = Written(told, sent)
    BY <1>2, <2>4 DEF Finished
  <2> HIDE DEF src, sent
  <2>6. /\ Shaped(told) /\ (Settled(b) => Settled(told))
        /\ \A origin :
             (/\ Streams(b, origin) /\ src.member = b.sources[cur].member
              /\ src.origin = b.sources[cur].origin
              /\ src.audio = {src.origin} /\ src.utterance \subseteq src.audio)
             => Streams(told, origin)
    BY <2>1, <2>3, ChangedFacts
  <2> HIDE DEF told
  <2>7. /\ Shaped(n) /\ (Settled(told) => Settled(n))
        /\ \A origin : Streams(told, origin) => Streams(n, origin)
    BY <2>2, <2>5, <2>6, WrittenFacts
  <2>8. ASSUME NEW origin, Streams(b, origin), utterance \subseteq {origin[u]}
        PROVE  Streams(n, origin)
    <3>1. b.sources[cur].audio = {b.sources[cur].origin} /\ b.sources[cur].origin = origin[u]
      BY <1>2, <2>1, <2>8 DEF Streams
    <3> QED BY <2>3, <2>6, <2>7, <2>8, <3>1
  <2> QED BY <2>6, <2>7, <2>8
<1> QED BY <1>1, <1>2

\* Only the service's records and the callers of the bridge are in these steps:
\* no stream of the room begins, and none is given to another member.
LEMMA ServiceFacts ==
  ASSUME Shaped(bridge), Settled(bridge), Service
  PROVE  /\ Shaped(bridge') /\ Settled(bridge')
         /\ \A origin : Streams(bridge, origin) => Streams(bridge', origin)
<1> DEFINE b == bridge
           Good(n) == /\ Shaped(n) /\ Settled(n)
                      /\ \A origin : Streams(b, origin) => Streams(n, origin)
<1>1. ASSUME NEW l \in {"starting", "ready", "closed"}, NEW sp \in SUBSET Speeches, NEW c \in BOOLEAN,
             NEW n, n = [b EXCEPT !.link = l, !.speeches = sp, !.command = c],
             l = "closed" => sp = {} /\ ~c
      PROVE  Good(n)
  <2>1. /\ n.link = l /\ n.sources = b.sources /\ n.byMember = b.byMember /\ n.speeches = sp /\ n.command = c
        /\ n \in [link : {"starting", "ready", "closed"}, sources : {b.sources},
                  byMember : [Members -> Generations \cup {Absent}],
                  speeches : SUBSET Speeches, command : BOOLEAN]
    BY <1>1 DEF Shaped
  <2> QED BY <1>1, <2>1 DEF Shaped, Settled, Streams
<1>2. ASSUME NEW n, Good(n), NEW ok \in BOOLEAN
      PROVE  Good(Written(n, ok))
  BY <1>2, WrittenFacts
<1>3. Good(Closed(b)) /\ Good(b)
  BY ClosedFacts DEF Streams
<1>4. /\ b.link \in {"starting", "ready", "closed"} /\ b.speeches \in SUBSET Speeches /\ b.command \in BOOLEAN
      /\ b = [b EXCEPT !.link = b.link, !.speeches = b.speeches, !.command = b.command]
  BY DEF Shaped
<1> HIDE DEF b
<1>5. CASE ServiceIsReady
  <2>1. bridge' = [b EXCEPT !.link = "ready", !.speeches = b.speeches, !.command = b.command]
    BY <1>4, <1>5 DEF ServiceIsReady, b, Shaped
  <2> QED BY <1>1, <1>4, <2>1 DEF b
<1>6. CASE LinkIsLost
  BY <1>3, <1>6 DEF LinkIsLost, b
<1>7. CASE CommandSettles
  <2>1. bridge' = [b EXCEPT !.link = b.link, !.speeches = b.speeches, !.command = FALSE]
    BY <1>4, <1>7 DEF CommandSettles, b, Shaped
  <2>2. b.link = "closed" => b.speeches = {} /\ ~FALSE
    BY DEF b, Settled
  <2> QED BY <1>1, <1>4, <2>1, <2>2 DEF b
<1>8. ASSUME NEW ok \in BOOLEAN, Authorize(ok)
      PROVE  Good(bridge')
  <2> DEFINE n == [b EXCEPT !.link = b.link, !.speeches = b.speeches, !.command = TRUE]
  <2>1. bridge' = Written(n, ok) /\ b.link = "ready"
    BY <1>4, <1>8 DEF Authorize, b, Shaped
  <2>2. Good(n)
    BY <1>1, <1>4, <2>1
  <2> QED BY <1>2, <2>1, <2>2
<1>9. ASSUME NEW g \in Generations, StreamCloses(g)
      PROVE  Good(bridge')
  <2>1. /\ Shaped(bridge') /\ bridge'.link = b.link /\ bridge'.speeches = b.speeches
        /\ bridge'.command = b.command /\ DOMAIN bridge'.sources = DOMAIN b.sources \ {g}
        /\ \A x \in DOMAIN bridge'.sources : bridge'.sources[x] = b.sources[x]
        /\ \A m \in Members : bridge'.byMember[m] = IF b.byMember[m] \in {g} THEN Absent ELSE b.byMember[m]
    <3>1. bridge' = Forgotten(b, {g}) /\ Shaped(b)
      BY <1>9 DEF StreamCloses, b
    <3> QED BY <3>1, ForgottenFacts
  <2>2. Settled(bridge')
    BY <2>1 DEF Settled, b
  <2>3. ASSUME NEW origin, Streams(b, origin)
        PROVE  Streams(bridge', origin)
    <3>1. \A x \in DOMAIN b.sources : b.sources[x].member \in Members
      BY BindingAssumption DEF b, Shaped, Sources
    <3> QED BY <2>1, <2>3, <3>1 DEF Streams, Shaped
  <2> QED BY <2>1, <2>2, <2>3
<1>10. ASSUME NEW g \in Generations, NEW ok \in BOOLEAN, StreamOpens(g, ok)
       PROVE  Good(bridge')
  <2> DEFINE src == [b.sources[g] EXCEPT !.opened = TRUE]
             n == [b EXCEPT !.sources[g] = src]
             sent == (ok \/ ~b.sources[g].ending)
  <2>1. g \in DOMAIN b.sources /\ bridge' = Written(n, sent)
    BY <1>10 DEF StreamOpens, b
  <2>2. b.sources[g] \in Sources /\ sent \in BOOLEAN
    BY <2>1 DEF Shaped, b
  <2>3. /\ src \in Sources /\ src.member = b.sources[g].member /\ src.origin = b.sources[g].origin
        /\ src.audio = b.sources[g].audio /\ src.utterance = b.sources[g].utterance
    BY <2>2 DEF Sources
  <2> HIDE DEF src, sent
  <2>4. /\ Shaped(n) /\ (Settled(b) => Settled(n))
        /\ \A origin :
             (/\ Streams(b, origin) /\ src.member = b.sources[g].member
              /\ src.origin = b.sources[g].origin
              /\ src.audio = {src.origin} /\ src.utterance \subseteq src.audio)
             => Streams(n, origin)
    <3>1. Shaped(b)
      BY DEF b
    <3> QED BY <2>1, <2>3, <3>1, ChangedFacts
  <2> HIDE DEF n
  <2>5. \A origin : Streams(b, origin) => Streams(n, origin)
    BY <2>1, <2>3, <2>4 DEF Streams
  <2>6. Good(n)
    BY <2>4, <2>5 DEF b
  <2> QED BY <1>2, <2>1, <2>2, <2>6
<1>11. ASSUME NEW p \in Speeches, SpeechSettles(p)
       PROVE  Good(bridge')
  <2>1. bridge' = [b EXCEPT !.link = b.link, !.speeches = b.speeches \ {p}, !.command = b.command]
    BY <1>4, <1>11 DEF SpeechSettles, b, Shaped
  <2> DEFINE sp == b.speeches \ {p}
  <2>2. sp \in SUBSET Speeches /\ (b.link = "closed" => sp = {} /\ ~b.command)
    BY <1>4 DEF b, Settled
  <2>3. bridge' = [b EXCEPT !.link = b.link, !.speeches = sp, !.command = b.command]
    BY <2>1
  <2> HIDE DEF sp
  <2> QED BY <1>1, <1>4, <2>2, <2>3
<1>12. ASSUME NEW p \in Speeches, NEW ok \in BOOLEAN, Synthesize(p, ok)
       PROVE  Good(bridge')
  <2> DEFINE n == [b EXCEPT !.link = b.link, !.speeches = b.speeches \cup {p}, !.command = b.command]
  <2>1. bridge' = Written(n, ok) /\ b.link = "ready"
    BY <1>4, <1>12 DEF Synthesize, b, Shaped
  <2>2. Good(n)
    BY <1>1, <1>4, <2>1
  <2> QED BY <1>2, <2>1, <2>2
<1>13. ASSUME NEW p \in Speeches, NEW ok \in BOOLEAN, SpeechChunk(p, ok)
       PROVE  Good(bridge')
  BY <1>2, <1>3, <1>13 DEF SpeechChunk, b
<1>14. ASSUME NEW p \in Speeches, NEW ok \in BOOLEAN, SpeechCancelled(p, ok)
       PROVE  Good(bridge')
  <2>1. PICK told : (told = b \/ told = Closed(b)) /\ bridge' = [told EXCEPT !.speeches = @ \ {p}]
    BY <1>14 DEF SpeechCancelled, Written, b
  <2>2. Good(told)
    BY <1>3, <2>1
  <2>3. /\ bridge'.link = told.link /\ bridge'.sources = told.sources /\ bridge'.byMember = told.byMember
        /\ bridge'.speeches = told.speeches \ {p} /\ bridge'.command = told.command
        /\ bridge' \in [link : {"starting", "ready", "closed"}, sources : {told.sources},
                        byMember : [Members -> Generations \cup {Absent}],
                        speeches : SUBSET Speeches, command : BOOLEAN]
    BY <2>1, <2>2 DEF Shaped
  <2> QED BY <2>2, <2>3 DEF Shaped, Settled, Streams
<1> QED
  BY <1>5, <1>6, <1>7, <1>8, <1>9, <1>10, <1>11, <1>12, <1>13, <1>14 DEF Service, b

\* A frame reaches the source of its member: what another SSRC sent is aborted
\* first, and no other decoder or span of the session sent any.
LEMMA FrameFacts ==
  ASSUME CaptureTypeOK, Shaped(bridge), NEW u \in Users, NEW d \in Decoders, NEW x \in Ssrcs,
         NEW g \in Generations, NEW ok \in BOOLEAN, capture[u] # None, decoder[u] = d, Nameable(u, g)
  PROVE  LET n == FrameTo(u, d, x, g, ok) IN
         /\ Shaped(n) /\ (Settled(bridge) => Settled(n))
         /\ \A is : (/\ Streams(bridge, Origin) /\ (\A m \in Users \ {u} : is[m] = Origin[m])
                     /\ is[u] = <<d, x, era>>)
                    => Streams(n, is)
<1> DEFINE moved == capture[u].ssrc # None /\ capture[u].ssrc # x
           before == IF moved THEN Aborted(bridge, {u}, ok) ELSE bridge
           origin == <<d, x, era>>
           n == FrameTo(u, d, x, g, ok)
<1>1. n = Captured(before, u, origin, g, ok) /\ origin \in Origins /\ u \in Members
  BY BindingAssumption DEF FrameTo, Origins, CaptureTypeOK
<1>2. /\ Shaped(before) /\ (Settled(bridge) => Settled(before))
      /\ \A was : Streams(bridge, was) => Streams(before, was)
      /\ moved => /\ \A y \in DOMAIN before.sources : y \in DOMAIN bridge.sources /\ bridge.sources[y].member # u
                  /\ \A was : Streams(bridge, was) => before.byMember[u] = Absent
  <2>1. CASE moved
    <3>1. before = Aborted(bridge, {u}, ok) /\ u \in Members \cap {u}
      BY <1>1, <2>1
    <3> HIDE DEF before
    <3> QED BY <2>1, <3>1, AbortedFacts
  <2>2. CASE ~moved
    BY <2>2
  <2> QED BY <2>1, <2>2
<1>3. ASSUME NEW is, Streams(bridge, Origin), \A m \in Users \ {u} : is[m] = Origin[m], is[u] = origin
      PROVE  Streams(n, is)
  <2> DEFINE was == [m \in Members |-> IF m \in Users THEN Origin[m] ELSE is[m]]
  <2>1. ASSUME NEW m \in Members, bridge.byMember[m] # Absent
        PROVE  m \in Users
    BY <2>1, <1>3 DEF Streams, Shaped, Sources
  <2>2. Streams(bridge, was)
    BY <1>3, <2>1 DEF Streams
  <2>3. Streams(before, was)
    BY <1>2, <2>2
  <2>4. \A m \in Members \ {u} : is[m] = was[m]
    BY <1>3
  <2>5. before.byMember[u] # Absent => was[u] = origin
    <3>1. SUFFICES ASSUME before.byMember[u] # Absent
                   PROVE  was[u] = origin
      OBVIOUS
    <3>2. ~moved /\ before = bridge
      BY <1>2, <1>3, <3>1
    <3>3. bridge.byMember[u] \in DOMAIN bridge.sources /\ bridge.sources[bridge.byMember[u]].origin = Origin[u]
      BY <1>1, <1>3, <3>1, <3>2 DEF Streams, Shaped
    <3>4. Origin[u] \in Origins /\ Origin[u] = <<d, capture[u].ssrc, era>>
      BY <3>3 DEF Shaped, Sources, Origin, Now
    <3>5. capture[u].ssrc # None
      BY <3>4, CaptureAssumption DEF Origins
    <3> QED BY <1>1, <3>2, <3>4, <3>5
  <2>6. g \notin DOMAIN before.sources \/ before.byMember[u] = g
    <3>1. CASE moved
      <4>1. g \in DOMAIN before.sources => g \in DOMAIN bridge.sources /\ bridge.sources[g].member # u
        BY <1>2, <3>1
      <4> QED BY <1>1, <1>3, <4>1, BridgeAssumption DEF Nameable, Streams
    <3>2. CASE ~moved
      BY <3>2 DEF Nameable
    <3> QED BY <3>1, <3>2
  <2> HIDE DEF was, before, origin, n
  <2> QED BY <1>1, <1>2, <1>3, <2>3, <2>4, <2>5, <2>6, CapturedFacts
<1>4. Shaped(n) /\ (Settled(bridge) => Settled(n))
  <2> HIDE DEF before, origin, n
  <2> QED BY <1>1, <1>2, CapturedFacts
<1> QED BY <1>3, <1>4

-----------------------------------------------------------------------------
(* The session.                                                            *)

\* What joins, leaves and the library do keeps the session's connection whole.
LEMMA SessionKept ==
  ASSUME Sessioned,
         \/ \E j \in Joins, ch \in Channels, c \in Conns : JoinBegins(j, ch, c)
         \/ \E j \in Joins, s \in Sessions : JoinReady(j, s)
         \/ \E j \in Joins : JoinStarts(j) \/ JoinFails(j)
         \/ \E c \in Conns : Connects(c) \/ Reconnects(c) \/ IsDestroyed(c) \/ Drops(c)
         \/ Leave \/ \E s \in Sessions : GivesUp(s)
  PROVE  Sessioned'
<1> USE DEF Sessioned, SessionTypeOK, Joined, CurrentIsConnected, Live
<1>1. ASSUME NEW j \in Joins, NEW ch \in Channels, NEW c \in Conns, JoinBegins(j, ch, c)
      PROVE  Sessioned'
  <2>1. /\ session' = None /\ of' = of /\ waiting' = waiting
        /\ join' = [join EXCEPT ![j] = [pc |-> "entering", conn |-> c, channel |-> ch]]
    BY <1>1 DEF JoinBegins
  <2>2. conn' \in [Conns -> Live \cup {"destroyed"}]
    BY <1>1 DEF JoinBegins
  <2> QED BY <2>1, <2>2
<1>2. ASSUME NEW j \in Joins, NEW s \in Sessions, JoinReady(j, s)
      PROVE  Sessioned'
  <2>1. join[j].conn \in Conns /\ conn[join[j].conn] = "ready"
    BY <1>2 DEF JoinReady
  <2>2. of' \in [Sessions -> [conn : Conns \cup {None}, channel : Channels \cup {None}]]
        /\ of'[s].conn = join[j].conn
    BY <1>2, <2>1 DEF JoinReady
  <2>3. /\ join' \in [Joins -> [pc : {"idle", "entering", "starting"},
                                conn : Conns \cup {None}, channel : Channels \cup {None}]]
        /\ \A i \in Joins : join'[i].pc # "idle" => join'[i].conn \in Conns
    BY <1>2 DEF JoinReady
  <2> QED BY <1>2, <2>1, <2>2, <2>3 DEF JoinReady
<1>3. ASSUME NEW j \in Joins, JoinStarts(j)
      PROVE  Sessioned'
  BY <1>3 DEF JoinStarts, Idle
<1>4. ASSUME NEW j \in Joins, JoinFails(j)
      PROVE  Sessioned'
  <2>1. /\ of' = of /\ waiting' = waiting /\ join' = [join EXCEPT ![j] = Idle]
        /\ conn' \in [Conns -> Live \cup {"destroyed"}]
        /\ (session' = session /\ conn' = conn) \/ session' = None
    BY <1>4 DEF JoinFails
  <2> QED BY <2>1 DEF Idle
<1>5. ASSUME NEW c \in Conns, Connects(c)
      PROVE  Sessioned'
  BY <1>5 DEF Connects
<1>6. ASSUME NEW c \in Conns, Reconnects(c)
      PROVE  Sessioned'
  BY <1>6 DEF Reconnects
<1>7. ASSUME NEW c \in Conns, IsDestroyed(c)
      PROVE  Sessioned'
  BY <1>7 DEF IsDestroyed, Destroy
<1>8. ASSUME NEW c \in Conns, Drops(c)
      PROVE  Sessioned'
  BY <1>8 DEF Drops
<1>9. CASE Leave
  BY <1>9 DEF Leave, Destroy
<1>10. ASSUME NEW s \in Sessions, GivesUp(s)
       PROVE  Sessioned'
  BY <1>10 DEF GivesUp, Destroy
<1> QED
  <2> HIDE DEF Sessioned, SessionTypeOK, Joined, CurrentIsConnected
  <2> QED BY <1>1, <1>2, <1>3, <1>4, <1>5, <1>6, <1>7, <1>8, <1>9, <1>10

-----------------------------------------------------------------------------
(* The captures.                                                           *)

LEMMA ClearedType ==
  ASSUME CaptureTypeOK, NEW h \in Handles \cup {None}
  PROVE  Cleared(h) \in [Handles -> Users \cup {None}]
BY DEF Cleared, CaptureTypeOK

LEMMA BurstFacts ==
  ASSUME CaptureTypeOK, session \in Sessions, NEW u \in Users, NEW d \in Decoders, Burst(u, d)
  PROVE  /\ capture' \in [Users -> {None} \cup Captures] /\ timers' \in [Handles -> Users \cup {None}]
         /\ decoder' \in [Users -> Decoders \cup {None}]
         /\ pipeline' \in [Decoders -> (Users \X Sessions) \cup {None}]
         /\ \A v \in Users \ {u} : capture'[v] = capture[v]
         /\ capture'[u] # None
         /\ capture'[u].audio = IF capture[u] = None THEN {} ELSE capture[u].audio
         /\ capture'[u].ssrc = IF capture[u] = None THEN None ELSE capture[u].ssrc
         /\ \/ decoder' = decoder /\ pipeline' = pipeline
            \/ /\ decoder[u] = None /\ pipeline[d] = None
               /\ decoder' = [decoder EXCEPT ![u] = d] /\ pipeline' = [pipeline EXCEPT ![d] = <<u, session>>]
<1> DEFINE c == IF capture[u] = None THEN Blank ELSE capture[u]
           n == [c EXCEPT !.state = "speaking", !.started = TRUE, !.timer = None]
<1>1. c \in Captures /\ (capture[u] = None => c.audio = {} /\ c.ssrc = None)
      /\ (capture[u] # None => c = capture[u])
  BY CaptureAssumption DEF CaptureTypeOK, Captures, Blank
<1>2. capture' = [capture EXCEPT ![u] = n] /\ timers' = Cleared(c.timer)
  BY DEF Burst
<1> HIDE DEF c
<1>3. n \in Captures /\ n.audio = c.audio /\ n.ssrc = c.ssrc
  BY <1>1 DEF Captures
<1>4. c.timer \in Handles \cup {None}
  BY <1>1 DEF Captures
<1> HIDE DEF n
<1>5. timers' \in [Handles -> Users \cup {None}]
  BY <1>2, <1>4, ClearedType
<1>6. /\ capture' \in [Users -> {None} \cup Captures] /\ capture'[u] = n
      /\ \A v \in Users \ {u} : capture'[v] = capture[v]
  BY <1>2, <1>3 DEF CaptureTypeOK
<1>7. \/ decoder' = decoder /\ pipeline' = pipeline
      \/ /\ decoder[u] = None /\ pipeline[d] = None
         /\ decoder' = [decoder EXCEPT ![u] = d] /\ pipeline' = [pipeline EXCEPT ![d] = <<u, session>>]
  BY DEF Burst
<1>8. /\ decoder' \in [Users -> Decoders \cup {None}]
      /\ pipeline' \in [Decoders -> (Users \X Sessions) \cup {None}]
  BY <1>7 DEF CaptureTypeOK
<1> QED BY <1>1, <1>3, <1>5, <1>6, <1>7, <1>8, CaptureAssumption

\* Captures, whatever the fields may hold.
Shape(S, A, F, T, X) == [state : S, started : BOOLEAN, audio : A, frames : F, timer : T, ssrc : X]

Filled(c, st, sd, au, fr, x) ==
  [c EXCEPT !.ssrc = x, !.audio = au, !.frames = fr, !.started = sd, !.state = st]

Dropped(c) == [c EXCEPT !.audio = {}, !.frames = 0, !.started = FALSE]

LEMMA EmptiedShape ==
  ASSUME NEW S, NEW A, NEW F, NEW T, NEW X, NEW c \in Shape(S, A, F, T, X),
         "idle" \in S, {} \in A, 0 \in F, None \in T
  PROVE  Emptied(c) \in Shape(S, A, F, T, X) /\ Emptied(c).audio = {} /\ Emptied(c).ssrc = c.ssrc
BY DEF Emptied, Shape

LEMMA FilledShape ==
  ASSUME NEW S, NEW A, NEW F, NEW T, NEW X, NEW c \in Shape(S, A, F, T, X),
         NEW st \in S, NEW sd \in BOOLEAN, NEW au \in A, NEW fr \in F, NEW x \in X
  PROVE  LET n == Filled(c, st, sd, au, fr, x) IN
         /\ n \in Shape(S, A, F, T, X)
         /\ n.audio = au /\ n.frames = fr /\ n.ssrc = x /\ n.timer = c.timer
BY DEF Shape, Filled

LEMMA DroppedShape ==
  ASSUME NEW S, NEW A, NEW F, NEW T, NEW X, NEW c \in Shape(S, A, F, T, X), {} \in A, 0 \in F
  PROVE  LET n == Dropped(c) IN
         n \in Shape(S, A, F, T, X) /\ n.audio = {} /\ n.ssrc = c.ssrc
BY DEF Shape, Dropped

LEMMA CapturesAreShaped ==
  Captures = Shape({"idle", "speaking", "finalizing"}, SUBSET Origins, 0..MaxFrames,
                   Handles \cup {None}, Ssrcs \cup {None})
BY DEF Captures, Shape

\* A capture whose buffer may have grown past its limit.
Grown == Shape({"idle", "speaking", "finalizing"}, SUBSET Origins, Nat,
               Handles \cup {None}, Ssrcs \cup {None})

LEMMA CapturesAreGrown == \A c : c \in Captures <=> c \in Grown /\ c.frames <= MaxFrames
BY CaptureAssumption DEF Captures, Grown, Shape

\* What a packet makes of a capture.
LEMMA HeardFacts ==
  ASSUME CaptureTypeOK, NEW u \in Users, NEW d \in Decoders, NEW x \in Ssrcs, capture[u] # None
  PROVE  LET c == Heard(capture[u], d, x) IN
         /\ c \in Grown /\ c.ssrc = x /\ <<d, x, era>> \in c.audio
         /\ \A o \in c.audio : o = <<d, x, era>> \/ (o \in capture[u].audio /\ capture[u].ssrc \in {None, x})
<1> DEFINE b == capture[u]
           moved == b.ssrc # None /\ b.ssrc # x
           st == IF b.state = "idle" THEN "speaking" ELSE b.state
           sd == (b.started /\ ~moved) \/ b.state = "idle"
           au == (IF moved THEN {} ELSE b.audio) \cup {<<d, x, era>>}
           fr == (IF moved THEN 0 ELSE b.frames) + 1
           c == Heard(b, d, x)
<1>1. b \in Captures /\ b \in Grown /\ <<d, x, era>> \in Origins
  BY CapturesAreGrown DEF CaptureTypeOK, Origins
<1>2. b.frames \in Nat /\ b.audio \in SUBSET Origins /\ b.started \in BOOLEAN
      /\ b.state \in {"idle", "speaking", "finalizing"}
  BY <1>1, CaptureAssumption DEF Captures
<1>3. c = Filled(b, st, sd, au, fr, x)
  BY DEF Heard, Filled
<1> HIDE DEF b
<1>4. /\ st \in {"idle", "speaking", "finalizing"} /\ sd \in BOOLEAN /\ au \in SUBSET Origins
      /\ fr \in Nat /\ x \in Ssrcs \cup {None} /\ <<d, x, era>> \in au
      /\ \A o \in au : o = <<d, x, era>> \/ (o \in b.audio /\ b.ssrc \in {None, x})
  BY <1>1, <1>2
<1> HIDE DEF st, sd, au, fr, c
<1>5. c \in Grown /\ c.ssrc = x /\ c.audio = au
  <2> DEFINE S == {"idle", "speaking", "finalizing"}
             A == SUBSET Origins
             T == Handles \cup {None}
             X == Ssrcs \cup {None}
  <2>1. b \in Shape(S, A, Nat, T, X) /\ st \in S /\ sd \in BOOLEAN /\ au \in A /\ fr \in Nat /\ x \in X
    BY <1>1, <1>4 DEF Grown
  <2> HIDE DEF S, A, T, X
  <2>2. PICK on \in BOOLEAN : c = Filled(b, st, on, au, fr, x)
    BY <1>3, <2>1
  <2>3. c \in Shape(S, A, Nat, T, X) /\ c.ssrc = x /\ c.audio = au
    BY <2>1, <2>2, FilledShape
  <2> QED BY <2>3 DEF Grown, S, A, T, X
<1> QED BY <1>4, <1>5 DEF b, c

LEMMA EmptiedFacts ==
  ASSUME NEW c \in Grown
  PROVE  Emptied(c) \in Captures /\ Emptied(c).audio = {} /\ Emptied(c).ssrc = c.ssrc
<1>1. Emptied(c) \in Grown /\ Emptied(c).audio = {} /\ Emptied(c).ssrc = c.ssrc
  BY EmptiedShape DEF Grown
<1>2. Emptied(c).frames = 0
  BY DEF Emptied, Grown, Shape
<1> QED BY <1>1, <1>2, CapturesAreGrown, CaptureAssumption

LEMMA RescheduledFacts ==
  ASSUME CaptureTypeOK, NEW u \in Users, NEW c \in Captures, NEW h \in Handles, Rescheduled(u, c, h)
  PROVE  /\ capture' \in [Users -> {None} \cup Captures] /\ timers' \in [Handles -> Users \cup {None}]
         /\ \A v \in Users \ {u} : capture'[v] = capture[v]
         /\ capture'[u] # None /\ capture'[u].audio = c.audio /\ capture'[u].ssrc = c.ssrc
<1> DEFINE n == [c EXCEPT !.state = "finalizing", !.timer = h]
<1>1. n \in Captures /\ n.audio = c.audio /\ n.ssrc = c.ssrc /\ c.timer \in Handles \cup {None}
  BY DEF Captures
<1>2. capture' = [capture EXCEPT ![u] = n] /\ timers' = [Cleared(c.timer) EXCEPT ![h] = u]
  BY DEF Rescheduled
<1> HIDE DEF n
<1> QED BY <1>1, <1>2, ClearedType, CaptureAssumption DEF CaptureTypeOK

LEMMA TearDownFacts ==
  ASSUME CaptureTypeOK, TearDown
  PROVE  /\ CaptureTypeOK' /\ era' = era /\ said' = said
         /\ \A u \in Users : capture'[u] = None /\ decoder'[u] = None
BY DEF TearDown, CaptureTypeOK

LEMMA DropBuffersFacts ==
  ASSUME CaptureTypeOK, DropBuffers
  PROVE  /\ CaptureTypeOK' /\ decoder' = decoder /\ pipeline' = pipeline /\ said' = said
         /\ \A u \in Users : /\ capture'[u] = None <=> capture[u] = None
                             /\ capture[u] # None => capture'[u].audio = {} /\ capture'[u].ssrc = capture[u].ssrc
<1> DEFINE n(u) == Dropped(capture[u])
<1>1. ASSUME NEW u \in Users, capture[u] # None
      PROVE  n(u) \in Captures /\ n(u).audio = {} /\ n(u).ssrc = capture[u].ssrc
  <2>1. capture[u] \in Captures
    BY <1>1 DEF CaptureTypeOK
  <2> DEFINE S == {"idle", "speaking", "finalizing"}
             A == SUBSET Origins
             F == 0..MaxFrames
             T == Handles \cup {None}
             X == Ssrcs \cup {None}
  <2>2. capture[u] \in Shape(S, A, F, T, X) /\ Captures = Shape(S, A, F, T, X) /\ 0 \in F /\ {} \in A
    BY <2>1, CapturesAreShaped, CaptureAssumption
  <2> HIDE DEF S, A, F, T, X
  <2> QED BY <2>2, DroppedShape
<1>2. /\ capture' = [u \in Users |-> IF capture[u] = None THEN None ELSE n(u)]
      /\ era' = 1 - era /\ UNCHANGED <<decoder, pipeline, timers, fetching, said>>
  BY DEF DropBuffers, Dropped
<1> HIDE DEF n
<1> QED BY <1>1, <1>2, CaptureAssumption DEF CaptureTypeOK

-----------------------------------------------------------------------------
(* The steps of the captures and of the bridge.                            *)

\* Nobody is captured, so the next session may take the place of none.
LEMMA CalmStep ==
  ASSUME IInv, UNCHANGED <<captureVars, bridge>>
  PROVE  Kept' /\ (Whole /\ (session' = session \/ session = None) => Whole')
<1>1. Kept'
  BY DEF IInv, Kept, captureVars, CaptureTypeOK, Shaped, Settled
<1>2. Origin' = Origin
  BY DEF Origin, Now, captureVars
<1>3. Whole /\ (session' = session \/ session = None) => Whole'
  BY <1>2 DEF Whole, OfSession, OneOrigin, Streams, Now, captureVars
<1> QED BY <1>1, <1>3

LEMMA TeardownStep ==
  ASSUME IInv, NEW ok \in BOOLEAN, EmitsTeardown(ok)
  PROVE  Kept' /\ (Whole /\ session' \in {session, None} => Whole')
<1>1. CASE session # None /\ session' = None
  <2>1. TearDown /\ bridge' = RoomAborted(bridge, ok)
    BY <1>1 DEF EmitsTeardown
  <2>2. /\ CaptureTypeOK' /\ era' = era /\ said' = said
        /\ \A u \in Users : capture'[u] = None /\ decoder'[u] = None
    BY <2>1, TearDownFacts DEF IInv, Kept
  <2>3. /\ Shaped(bridge') /\ Settled(bridge')
        /\ \A was, is : Streams(bridge, was) => Streams(bridge', is)
    BY <2>1, RoomAbortedFacts DEF IInv, Kept
  <2>4. Kept'
    BY <2>2, <2>3 DEF Kept, Shaped, Settled
  <2>5. ASSUME Whole
        PROVE  Whole'
    <3>1. Streams(bridge', Origin')
      BY <2>3, <2>5 DEF Whole
    <3>2. OfSession' /\ OneOrigin'
      BY <2>2, <2>5 DEF Whole, OfSession, OneOrigin
    <3> QED BY <3>1, <3>2 DEF Whole, Streams
  <2> QED BY <2>4, <2>5
<1>2. CASE ~(session # None /\ session' = None)
  BY <1>2, CalmStep DEF EmitsTeardown
<1> QED BY <1>1, <1>2

\* A disconnection drops what was buffered and what was being forwarded.
LEMMA DisconnectStep ==
  ASSUME IInv, NEW ok \in BOOLEAN, DropBuffers, bridge' = RoomAborted(bridge, ok), session' = session
  PROVE  Kept' /\ (Whole => Whole')
<1>1. /\ CaptureTypeOK' /\ decoder' = decoder /\ pipeline' = pipeline /\ said' = said
      /\ \A u \in Users : /\ capture'[u] = None <=> capture[u] = None
                          /\ capture[u] # None => capture'[u].audio = {} /\ capture'[u].ssrc = capture[u].ssrc
  BY DropBuffersFacts DEF IInv, Kept
<1>2. /\ Shaped(bridge') /\ Settled(bridge')
      /\ \A was, is : Streams(bridge, was) => Streams(bridge', is)
  BY RoomAbortedFacts DEF IInv, Kept
<1>3. Kept'
  BY <1>1, <1>2 DEF Kept, Shaped, Settled
<1>4. ASSUME Whole
      PROVE  Whole'
  <2>1. Streams(bridge', Origin')
    BY <1>2, <1>4 DEF Whole
  <2>2. OfSession' /\ OneOrigin'
    BY <1>1, <1>4 DEF Whole, OfSession, OneOrigin
  <2> QED BY <2>1, <2>2 DEF Whole, Streams
<1> QED BY <1>3, <1>4

\* A burst subscribes to a member from whom nothing is buffered or forwarded.
LEMMA BurstStep ==
  ASSUME IInv, NEW u \in Users, NEW d \in Decoders, Burst(u, d), session # None,
         fetching' \subseteq Users \X Sessions, UNCHANGED <<session, era, said, bridge>>
  PROVE  Kept' /\ (Whole => Whole')
<1>0. session \in Sessions
  BY DEF IInv, Kept, Sessioned, SessionTypeOK
<1>1. /\ capture' \in [Users -> {None} \cup Captures] /\ timers' \in [Handles -> Users \cup {None}]
      /\ decoder' \in [Users -> Decoders \cup {None}]
      /\ pipeline' \in [Decoders -> (Users \X Sessions) \cup {None}]
      /\ \A v \in Users \ {u} : capture'[v] = capture[v]
      /\ capture'[u] # None
      /\ capture'[u].audio = IF capture[u] = None THEN {} ELSE capture[u].audio
      /\ capture'[u].ssrc = IF capture[u] = None THEN None ELSE capture[u].ssrc
      /\ \/ decoder' = decoder /\ pipeline' = pipeline
         \/ /\ decoder[u] = None /\ pipeline[d] = None
            /\ decoder' = [decoder EXCEPT ![u] = d] /\ pipeline' = [pipeline EXCEPT ![d] = <<u, session>>]
  BY <1>0, BurstFacts DEF IInv, Kept
<1>2. Kept'
  BY <1>1 DEF IInv, Kept, CaptureTypeOK, Shaped, Settled
<1>3. ASSUME Whole
      PROVE  Whole'
  <2>1. OfSession'
    <3>1. \A v \in Users : decoder[v] # None => pipeline[decoder[v]] = <<v, session>> /\ decoder[v] \in Decoders
      BY <1>3 DEF Whole, OfSession, IInv, Kept, CaptureTypeOK
    <3>2. \A v \in Users : decoder'[v] # None => pipeline'[decoder'[v]] = <<v, session>>
      BY <1>1, <3>1, CaptureAssumption DEF IInv, Kept, CaptureTypeOK
    <3> QED BY <3>2 DEF OfSession
  <2>2. \A v \in Users : v # u \/ decoder[u] # None => Now(v)' = Now(v)
    BY <1>1 DEF Now, IInv, Kept, CaptureTypeOK
  <2>3. decoder[u] = None => (capture[u] # None => capture[u].audio = {}) /\ (u \in Members => bridge.byMember[u] = Absent)
    <3>1. SUFFICES ASSUME decoder[u] = None
                   PROVE  (capture[u] # None => capture[u].audio = {}) /\ (u \in Members => bridge.byMember[u] = Absent)
      OBVIOUS
    <3>2. Now(u) \notin Origins /\ Origin[u] = Now(u)
      BY <3>1, CaptureAssumption DEF Now, Origins, Origin
    <3>3. capture[u] # None => capture[u].audio \subseteq Origins /\ capture[u].audio \subseteq {Now(u)}
      BY <1>3 DEF Whole, OneOrigin, IInv, Kept, CaptureTypeOK, Captures
    <3>4. u \in Members /\ bridge.byMember[u] # Absent => Now(u) \in Origins
      BY <1>3, <3>2 DEF Whole, Streams, IInv, Kept, Shaped, Sources
    <3> QED BY <3>2, <3>3, <3>4
  <2>4. OneOrigin'
    BY <1>1, <1>3, <2>2, <2>3 DEF Whole, OneOrigin
  <2>5. Streams(bridge', Origin')
    <3>1. \A m \in Members : bridge.byMember[m] # Absent => m \in Users /\ Origin'[m] = Origin[m]
      <4>1. ASSUME NEW m \in Members, bridge.byMember[m] # Absent
            PROVE  m \in Users /\ Origin'[m] = Origin[m]
        <5>1. m \in Users
          BY <1>3, <4>1 DEF Whole, Streams, IInv, Kept, Shaped, Sources
        <5>2. m # u \/ decoder[u] # None
          BY <2>3, <4>1
        <5> QED BY <2>2, <5>1, <5>2 DEF Origin
      <4> QED BY <4>1
    <3> QED BY <1>3, <3>1 DEF Whole, Streams
  <2> QED BY <2>1, <2>4, <2>5 DEF Whole, Streams
<1> QED BY <1>2, <1>3

\* What a packet, an end and a close have in common: one member's capture and
\* source change, and the others keep theirs.
LEMMA OthersKeep ==
  ASSUME IInv, NEW u \in Users, UNCHANGED <<session, era>>,
         \A v \in Users \ {u} : capture'[v] = capture[v] /\ decoder'[v] = decoder[v]
  PROVE  \A v \in Users \ {u} : Origin'[v] = Origin[v] /\ Now(v)' = Now(v)
BY DEF Origin, Now

LEMMA PacketStep ==
  ASSUME IInv, NEW u \in Users, NEW d \in Decoders, NEW x \in Ssrcs, NEW g \in Generations, NEW ok \in BOOLEAN,
         Packet(u, d, x, g, ok)
  PROVE  Kept' /\ (Whole => Whole')
<1> DEFINE b == capture[u]
           c == Heard(b, d, x)
           f == FrameTo(u, d, x, g, ok)
           here == <<d, x, era>>
<1>1. /\ capture[u] # None /\ decoder[u] = d /\ Nameable(u, g)
      /\ UNCHANGED <<session, decoder, pipeline, fetching, era>>
  BY DEF Packet, PacketIsBuffered, PacketFillsBuffer, Hears, sessionVars
<1>2. /\ c \in Grown /\ c.ssrc = x
      /\ \A o \in c.audio : o = here \/ (o \in b.audio /\ b.ssrc \in {None, x})
  BY <1>1, HeardFacts DEF IInv, Kept
<1>3. /\ Shaped(f) /\ Settled(f)
      /\ \A is : (/\ Streams(bridge, Origin) /\ (\A m \in Users \ {u} : is[m] = Origin[m])
                  /\ is[u] = here)
                 => Streams(f, is)
  BY <1>1, FrameFacts DEF IInv, Kept
<1>4. Whole => c.audio \subseteq {here}
  <2>1. SUFFICES ASSUME Whole, NEW o \in b.audio, b.ssrc \in {None, x}
                 PROVE  o = here
    BY <1>2
  <2>2. o = <<d, b.ssrc, era>> /\ o \in Origins
    BY <1>1, <2>1 DEF Whole, OneOrigin, Now, IInv, Kept, CaptureTypeOK, Captures
  <2>3. b.ssrc # None
    BY <2>2, CaptureAssumption DEF Origins
  <2> QED BY <2>1, <2>2, <2>3
<1> HIDE DEF f, c
<1> DEFINE Effect ==
             /\ capture' \in [Users -> {None} \cup Captures] /\ timers' \in [Handles -> Users \cup {None}]
             /\ \A v \in Users \ {u} : capture'[v] = capture[v]
             /\ capture'[u] # None /\ capture'[u].ssrc = x /\ capture'[u].audio \subseteq c.audio
             /\ \/ said' = said /\ bridge' = f
                \/ /\ said' \in [user : Users \cup {None}, audio : SUBSET Origins]
                   /\ said'.audio \subseteq c.audio /\ \A o, q \in said'.audio : o \in c.audio /\ q \in c.audio
                   /\ bridge' = Finished(f, u, said'.audio, ok)
<1>5. Effect
  <2>1. ASSUME NEW h \in Handles, PacketIsBuffered(d, u, x, h), bridge' = f
        PROVE  Effect
    <3>1. c \in Captures /\ Rescheduled(u, c, h) /\ said' = said
      BY <1>2, <2>1, CapturesAreGrown, CaptureAssumption DEF PacketIsBuffered, c, Grown, Shape
    <3> QED BY <1>2, <2>1, <3>1, RescheduledFacts DEF IInv, Kept
  <2>2. ASSUME NEW long \in BOOLEAN, PacketFillsBuffer(d, u, x, long), bridge' = Finished(f, u, said'.audio, ok)
        PROVE  Effect
    <3>1. /\ capture' = [capture EXCEPT ![u] = Emptied(c)] /\ timers' = timers
          /\ said' = IF Utters(c, long) THEN [user |-> u, audio |-> c.audio] ELSE Silence
      BY <2>2 DEF PacketFillsBuffer, c
    <3>2. Emptied(c) \in Captures /\ Emptied(c).audio = {} /\ Emptied(c).ssrc = x
      BY <1>2, EmptiedFacts
    <3>3. c.audio \in SUBSET Origins
      BY <1>2 DEF Grown, Shape
    <3>4. said' \in [user : Users \cup {None}, audio : SUBSET Origins] /\ said'.audio \subseteq c.audio
      BY <3>1, <3>3 DEF Silence
    <3> QED BY <2>2, <3>1, <3>2, <3>4, CaptureAssumption DEF IInv, Kept, CaptureTypeOK
  <2> QED BY <2>1, <2>2 DEF Packet, f
<1> HIDE DEF b
<1>6. /\ Shaped(bridge') /\ Settled(bridge')
      /\ \A is : Streams(f, is) /\ c.audio \subseteq {is[u]} => Streams(bridge', is)
  <2>1. CASE bridge' = f
    BY <1>3, <2>1
  <2>2. CASE said'.audio \subseteq c.audio /\ said'.audio \in SUBSET Origins /\ bridge' = Finished(f, u, said'.audio, ok)
    <3>1. PICK heard \in SUBSET Origins : heard \subseteq c.audio /\ bridge' = Finished(f, u, heard, ok)
      BY <2>2
    <3> QED BY <1>3, <3>1, FinishedFacts
  <2> QED BY <1>5, <2>1, <2>2
<1>7. Kept'
  BY <1>1, <1>5, <1>6 DEF Kept, IInv, CaptureTypeOK, Shaped, Settled
<1>8. ASSUME Whole
      PROVE  Whole'
  <2>1. \A v \in Users \ {u} : Origin'[v] = Origin[v] /\ Now(v)' = Now(v)
    BY <1>1, <1>5, OthersKeep
  <2>2. Origin'[u] = here /\ Now(u)' = here
    BY <1>1, <1>5 DEF Origin, Now
  <2>3. Streams(bridge', Origin')
    BY <1>3, <1>4, <1>6, <1>8, <2>1, <2>2 DEF Whole
  <2>4. OneOrigin'
    BY <1>4, <1>5, <1>8, <2>1, <2>2 DEF Whole, OneOrigin
  <2>5. OfSession'
    BY <1>1, <1>5, <1>8 DEF Whole, OfSession
  <2> QED BY <2>3, <2>4, <2>5 DEF Whole, Streams
<1> QED BY <1>7, <1>8

LEMMA SilentStep ==
  ASSUME IInv, NEW h \in Handles, NEW ok \in BOOLEAN, Silent(h, ok)
  PROVE  Kept' /\ (Whole => Whole')
<1>1. PICK long \in BOOLEAN : SilenceDetected(h, long)
  BY DEF Silent
<1>2. UNCHANGED <<session, decoder, pipeline, fetching, era>>
  BY <1>1 DEF Silent, SilenceDetected, sessionVars
<1>3. PICK u \in Users : u = timers[h]
  BY <1>1 DEF SilenceDetected, IInv, Kept, CaptureTypeOK
<1>4. timers' \in [Handles -> Users \cup {None}]
  BY <1>1 DEF SilenceDetected, IInv, Kept, CaptureTypeOK
<1>5. CASE capture[u] = None
  <2>1. UNCHANGED <<capture, said, bridge>>
    BY <1>1, <1>3, <1>5 DEF SilenceDetected, Silent
  <2>2. Origin' = Origin
    BY <1>2, <2>1 DEF Origin, Now
  <2> QED BY <1>2, <1>4, <2>1, <2>2
    DEF Kept, IInv, CaptureTypeOK, Shaped, Settled, Whole, OfSession, OneOrigin, Streams, Now
<1>6. CASE capture[u] # None
  <2>1. capture[u] \in Captures /\ capture[u] \in Grown /\ capture[u].audio \in SUBSET Origins
    BY <1>6, CapturesAreGrown DEF IInv, Kept, CaptureTypeOK, Captures
  <2>2. /\ capture' = [capture EXCEPT ![u] = Emptied(capture[u])]
        /\ said' = IF Utters(capture[u], long) THEN [user |-> u, audio |-> capture[u].audio] ELSE Silence
        /\ bridge' = Finished(bridge, u, said'.audio, ok)
    BY <1>1, <1>3, <1>6 DEF SilenceDetected, Silent
  <2>3. Emptied(capture[u]) \in Captures /\ Emptied(capture[u]).audio = {} /\ Emptied(capture[u]).ssrc = capture[u].ssrc
    BY <2>1, EmptiedFacts
  <2>4. said' \in [user : Users \cup {None}, audio : SUBSET Origins] /\ said'.audio \subseteq capture[u].audio
    BY <2>1, <2>2 DEF Silence
  <2>5. /\ capture' \in [Users -> {None} \cup Captures] /\ capture'[u] # None
        /\ capture'[u].audio = {} /\ capture'[u].ssrc = capture[u].ssrc
        /\ \A v \in Users \ {u} : capture'[v] = capture[v]
    BY <2>2, <2>3, CaptureAssumption DEF IInv, Kept, CaptureTypeOK
  <2>6. PICK heard \in SUBSET Origins : heard = said'.audio /\ bridge' = Finished(bridge, u, heard, ok)
    BY <2>2, <2>4
  <2>7. /\ Shaped(bridge') /\ Settled(bridge')
        /\ \A origin : Streams(bridge, origin) /\ heard \subseteq {origin[u]} => Streams(bridge', origin)
    BY <2>6, FinishedFacts DEF IInv, Kept
  <2>8. Kept'
    BY <1>2, <1>4, <2>4, <2>5, <2>7 DEF Kept, IInv, CaptureTypeOK, Shaped, Settled
  <2>9. ASSUME Whole
        PROVE  Whole'
    <3>1. Origin' = Origin /\ \A v \in Users : Now(v)' = Now(v)
      BY <1>2, <1>6, <2>5 DEF Origin, Now
    <3>2. capture[u].audio \subseteq {Now(u)} /\ Origin[u] = Now(u)
      BY <1>6, <2>9 DEF Whole, OneOrigin, Origin
    <3>3. Streams(bridge', Origin')
      BY <2>4, <2>6, <2>7, <2>9, <3>1, <3>2 DEF Whole
    <3>4. OneOrigin'
      BY <2>4, <2>5, <2>9, <3>1, <3>2 DEF Whole, OneOrigin
    <3>5. OfSession'
      BY <1>2, <1>6, <2>5, <2>9 DEF Whole, OfSession
    <3> QED BY <3>3, <3>4, <3>5 DEF Whole, Streams
  <2> QED BY <2>8, <2>9
<1> QED BY <1>5, <1>6

\* A decoder that is current is of the session, so its close is its member's.
LEMMA ClosingStep ==
  ASSUME IInv, NEW d \in Decoders, NEW ok \in BOOLEAN, Closing(d, ok)
  PROVE  Kept' /\ (Whole => Whole')
<1>1. /\ UNCHANGED <<session, fetching, era, said>> /\ pipeline' = [pipeline EXCEPT ![d] = None]
      /\ pipeline[d] \in Users \X Sessions
  BY DEF Closing, PipelineCloses, sessionVars, IInv, Kept, CaptureTypeOK
<1>2. PICK u \in Users : u = pipeline[d][1]
  BY <1>1
<1>3. /\ decoder' = IF decoder[u] = d THEN [decoder EXCEPT ![u] = None] ELSE decoder
      /\ IF Retires(d) /\ capture[u] # None
         THEN capture' = [capture EXCEPT ![u] = Blank] /\ timers' = Cleared(capture[u].timer)
         ELSE UNCHANGED <<capture, timers>>
      /\ bridge' = IF Retires(d) THEN Aborted(bridge, {u}, ok) ELSE bridge
  BY <1>2 DEF Closing, PipelineCloses
<1>4. Blank \in Captures /\ Blank.audio = {} /\ Blank.ssrc = None
  BY CaptureAssumption DEF Blank, Captures
<1>5. capture' \in [Users -> {None} \cup Captures] /\ timers' \in [Handles -> Users \cup {None}]
  <2>1. capture[u] # None => capture[u].timer \in Handles \cup {None}
    BY DEF IInv, Kept, CaptureTypeOK, Captures
  <2>2. capture[u] # None => Cleared(capture[u].timer) \in [Handles -> Users \cup {None}]
    BY <2>1, ClearedType DEF IInv, Kept
  <2> QED BY <1>3, <1>4, <2>2 DEF IInv, Kept, CaptureTypeOK
<1>6. decoder' \in [Users -> Decoders \cup {None}] /\ pipeline' \in [Decoders -> (Users \X Sessions) \cup {None}]
  BY <1>1, <1>3 DEF IInv, Kept, CaptureTypeOK
<1>7. /\ Shaped(bridge') /\ Settled(bridge')
      /\ Retires(d) => \A was, is : Streams(bridge, was) /\ (\A m \in Members \ {u} : is[m] = was[m])
                         => Streams(bridge', is)
  BY <1>3, AbortedFacts DEF IInv, Kept
<1>8. Kept'
  BY <1>1, <1>5, <1>6, <1>7 DEF Kept, IInv, CaptureTypeOK, Shaped, Settled
<1>9. ASSUME Whole
      PROVE  Whole'
  <2>1. \A v \in Users : decoder[v] = d => v = u /\ Retires(d)
    BY <1>1, <1>2, <1>9, CaptureAssumption DEF Whole, OfSession, Retires
  <2>2. \A v \in Users : decoder'[v] # None => decoder'[v] = decoder[v] /\ decoder[v] # d
    BY <1>3, <2>1 DEF IInv, Kept, CaptureTypeOK
  <2>3. OfSession'
    <3>1. \A v \in Users : decoder'[v] # None => pipeline'[decoder'[v]] = <<v, session>>
      BY <1>1, <1>9, <2>2 DEF Whole, OfSession, IInv, Kept, CaptureTypeOK
    <3>2. session = None => \A v \in Users : capture'[v] = None /\ decoder'[v] = None
      <4>1. SUFFICES ASSUME session = None
                     PROVE  \A v \in Users : capture'[v] = None /\ decoder'[v] = None
        OBVIOUS
      <4>2. ~Retires(d)
        BY <1>1, <1>2, <1>9, <4>1, CaptureAssumption DEF Whole, OfSession, Retires
      <4> QED BY <1>3, <1>9, <4>1, <4>2, <2>1 DEF Whole, OfSession
    <3> QED BY <1>1, <3>1, <3>2 DEF OfSession
  <2>4. CASE Retires(d)
    <3>1. /\ \A v \in Users \ {u} : capture'[v] = capture[v] /\ decoder'[v] = decoder[v]
          /\ capture'[u] # None => capture'[u].audio = {}
      BY <1>3, <1>4, <2>4 DEF IInv, Kept, CaptureTypeOK
    <3>2. \A v \in Users \ {u} : Origin'[v] = Origin[v] /\ Now(v)' = Now(v)
      BY <1>1, <3>1, OthersKeep
    <3>3. OneOrigin'
      BY <1>1, <1>9, <3>1, <3>2 DEF Whole, OneOrigin
    <3>4. Streams(bridge', Origin')
      <4> DEFINE is == [m \in Members |-> IF m \in Users THEN Origin'[m] ELSE Origin[m]]
      <4>1. Streams(bridge', is)
        BY <1>7, <1>9, <2>4, <3>2 DEF Whole
      <4>2. \A m \in Members : bridge'.byMember[m] # Absent => m \in Users
        BY <1>7, <4>1 DEF Streams, Shaped, Sources
      <4> QED BY <4>1, <4>2 DEF Streams
    <3> QED BY <2>3, <3>3, <3>4 DEF Whole, Streams
  <2>5. CASE ~Retires(d)
    <3>1. UNCHANGED <<capture, bridge>> /\ decoder' = decoder
      BY <1>3, <2>1, <2>5
    <3>2. Origin' = Origin /\ \A v \in Users : Now(v)' = Now(v)
      BY <1>1, <3>1 DEF Origin, Now
    <3> QED BY <1>1, <1>9, <2>3, <3>1, <3>2 DEF Whole, OneOrigin, Streams
  <2> QED BY <2>4, <2>5
<1> QED BY <1>8, <1>9

-----------------------------------------------------------------------------
(* The theorems.                                                           *)

LEMMA InitHolds ==
  ASSUME Init
  PROVE  IInv /\ Undivided
<1> USE DEF Init, SessionInit, CaptureInit, BridgeInit
<1>1. Sessioned
  BY DEF Sessioned, SessionTypeOK, Joined, CurrentIsConnected, Idle, Live
<1>2. CaptureTypeOK
  BY DEF CaptureTypeOK, Silence
<1>3. DOMAIN bridge.sources = {} /\ \A m \in Members : bridge.byMember[m] = Absent
  BY DEF BridgeInit
<1>4. Shaped(bridge) /\ Settled(bridge)
  BY <1>3 DEF Shaped, Settled
<1>5. NothingToReplace /\ OfSession /\ OneOrigin
  BY DEF NothingToReplace, OfSession, OneOrigin, Idle, Silence
<1>6. Streams(bridge, Origin)
  BY <1>3 DEF Streams
<1> QED BY <1>1, <1>2, <1>4, <1>5, <1>6 DEF IInv, Kept, Undivided, Whole

\* What a step does to the session, and which of the steps above it is.
LEMMA CommandStep ==
  ASSUME IInv, NEW j \in Joins, Command(j)
  PROVE  IInv' /\ (Undivided /\ OneJoinAtATime => Undivided')
<1>1. ASSUME NEW ch \in Channels, NEW c \in Conns, NEW ok \in BOOLEAN, JoinBegins(j, ch, c), EmitsTeardown(ok)
      PROVE  IInv' /\ (Undivided => Undivided')
  <2>1. Sessioned' /\ session' = None
    BY <1>1, SessionKept DEF IInv, JoinBegins
  <2>2. Kept' /\ (Whole => Whole')
    BY <1>1, <2>1, TeardownStep
  <2> QED BY <2>1, <2>2 DEF IInv, Undivided, NothingToReplace
<1>2. ASSUME NEW s \in Sessions, JoinReady(j, s), UNCHANGED <<captureVars, bridge>>
      PROVE  IInv' /\ (Undivided /\ OneJoinAtATime => Undivided')
  <2>1. Sessioned'
    BY <1>2, SessionKept DEF IInv
  <2>2. join[j].pc = "entering" /\ join' = [join EXCEPT ![j].pc = "starting"]
    BY <1>2 DEF JoinReady
  <2>3. Undivided => session = None
    BY <2>2 DEF Undivided, NothingToReplace
  <2>4. Kept' /\ (Undivided => Whole')
    BY <1>2, <2>3, CalmStep DEF Undivided
  <2>5. OneJoinAtATime => NothingToReplace'
    <3>1. OneJoinAtATime => \A i \in Joins \ {j} : join[i].pc = "idle"
      BY <2>2 DEF OneJoinAtATime
    <3>2. \A i \in Joins : join'[i].pc = IF i = j THEN "starting" ELSE join[i].pc
      BY <2>2 DEF IInv, Sessioned, SessionTypeOK
    <3> QED BY <3>1, <3>2 DEF NothingToReplace
  <2> QED BY <2>1, <2>4, <2>5 DEF IInv, Undivided
<1>3. ASSUME JoinStarts(j), UNCHANGED <<captureVars, bridge>>
      PROVE  IInv' /\ (Undivided => Undivided')
  <2>1. Sessioned' /\ session' = session /\ join' = [join EXCEPT ![j] = Idle]
    BY <1>3, SessionKept DEF IInv, JoinStarts
  <2>2. Kept' /\ (Whole => Whole')
    BY <1>3, <2>1, CalmStep
  <2>3. NothingToReplace => NothingToReplace'
    BY <2>1 DEF NothingToReplace, Idle, IInv, Sessioned, SessionTypeOK
  <2> QED BY <2>1, <2>2, <2>3 DEF IInv, Undivided
<1>4. ASSUME NEW ok \in BOOLEAN, JoinFails(j), EmitsTeardown(ok)
      PROVE  IInv' /\ (Undivided => Undivided')
  <2>1. Sessioned' /\ session' \in {session, None} /\ join' = [join EXCEPT ![j] = Idle]
    BY <1>4, SessionKept DEF IInv, JoinFails
  <2>2. Kept' /\ (Whole => Whole')
    BY <1>4, <2>1, TeardownStep
  <2>3. NothingToReplace => NothingToReplace'
    BY <2>1 DEF NothingToReplace, Idle, IInv, Sessioned, SessionTypeOK
  <2> QED BY <2>1, <2>2, <2>3 DEF IInv, Undivided
<1> QED BY <1>1, <1>2, <1>3, <1>4 DEF Command

LEMMA LibraryStep ==
  ASSUME IInv, NEW ok \in BOOLEAN, Ends(ok) \/ \E c \in Conns : Library(c, ok)
  PROVE  IInv' /\ (Undivided => Undivided')
<1>1. Sessioned' /\ session' \in {session, None} /\ join' = join
  BY SessionKept DEF IInv, Library, Ends, Connects, Reconnects, IsDestroyed, Drops, Leave, GivesUp, Destroy
<1>2. Kept' /\ (Whole => Whole')
  <2>1. CASE EmitsTeardown(ok)
    BY <1>1, <2>1, TeardownStep
  <2>2. CASE session' = session /\ UNCHANGED <<captureVars, bridge>>
    BY <2>2, CalmStep
  <2>3. CASE session' = session /\ DropBuffers /\ bridge' = RoomAborted(bridge, ok)
    BY <2>3, DisconnectStep
  <2> QED BY <2>1, <2>2, <2>3 DEF Library, Ends, Connects, Reconnects, Drops
<1>3. NothingToReplace => NothingToReplace'
  BY <1>1 DEF NothingToReplace
<1> QED BY <1>1, <1>2, <1>3 DEF IInv, Undivided

LEMMA RoomStep ==
  ASSUME IInv,
         \/ Speaking \/ (Service /\ UNCHANGED <<sessionVars, captureVars>>) \/ UNCHANGED vars
         \/ \E ok \in BOOLEAN :
              \/ \E h \in Handles : Silent(h, ok)
              \/ \E d \in Decoders : Closing(d, ok)
              \/ \E u \in Users, d \in Decoders, x \in Ssrcs, g \in Generations : Packet(u, d, x, g, ok)
  PROVE  IInv' /\ (Undivided => Undivided')
<1>1. UNCHANGED sessionVars
  BY DEF Speaking, Silent, Closing, Packet, vars
<1>2. Sessioned' /\ (NothingToReplace => NothingToReplace')
  BY <1>1 DEF IInv, Sessioned, SessionTypeOK, Joined, CurrentIsConnected, NothingToReplace, sessionVars
<1>3. CASE UNCHANGED <<captureVars, bridge>>
  <2>1. Kept' /\ (Whole => Whole')
    BY <1>1, <1>3, CalmStep DEF sessionVars
  <2> QED BY <1>2, <2>1 DEF IInv, Undivided
<1>4. CASE Speaking
  <2>1. ASSUME NEW u \in Users, NEW d \in Decoders, SpeakingStarts(u, d)
        PROVE  Kept' /\ (Whole => Whole')
    BY <1>1, <1>4, <2>1, BurstStep DEF Speaking, SpeakingStarts, sessionVars, IInv, Kept, CaptureTypeOK
  <2>2. ASSUME NEW u \in Users, NEW d \in Decoders, NEW s \in Sessions, FetchReturns(u, s, d)
        PROVE  Kept' /\ (Whole => Whole')
    <3>1. fetching' \subseteq Users \X Sessions /\ UNCHANGED <<session, era, said, bridge>>
      BY <1>1, <1>4, <2>2 DEF Speaking, FetchReturns, sessionVars, IInv, Kept, CaptureTypeOK
    <3>2. CASE session = s
      BY <2>2, <3>1, <3>2, BurstStep, CaptureAssumption DEF FetchReturns
    <3>3. CASE session # s
      <4>1. UNCHANGED <<capture, decoder, pipeline, timers>>
        BY <2>2, <3>3 DEF FetchReturns
      <4>2. Origin' = Origin /\ \A v \in Users : Now(v)' = Now(v)
        BY <3>1, <4>1 DEF Origin, Now
      <4> QED BY <3>1, <4>1, <4>2
        DEF IInv, Kept, CaptureTypeOK, Shaped, Settled, Whole, OfSession, OneOrigin, Streams
    <3> QED BY <3>2, <3>3
  <2>3. ASSUME NEW u \in Users, MemberIsFetched(u)
        PROVE  Kept' /\ (Whole => Whole')
    <3>1. /\ UNCHANGED <<session, capture, decoder, pipeline, timers, era, said, bridge>>
          /\ fetching' \subseteq Users \X Sessions
      BY <1>1, <1>4, <2>3 DEF Speaking, MemberIsFetched, sessionVars, IInv, Kept, CaptureTypeOK, Sessioned, SessionTypeOK
    <3>2. Origin' = Origin /\ \A v \in Users : Now(v)' = Now(v)
      BY <3>1 DEF Origin, Now
    <3> QED BY <3>1, <3>2
      DEF IInv, Kept, CaptureTypeOK, Shaped, Settled, Whole, OfSession, OneOrigin, Streams
  <2>4. ASSUME NEW u \in Users, NEW h \in Handles, SpeakingEnds(u, h)
        PROVE  Kept' /\ (Whole => Whole')
    <3>1. /\ UNCHANGED <<session, decoder, pipeline, fetching, era, said, bridge>>
          /\ capture[u] # None /\ capture[u] \in Captures /\ Rescheduled(u, capture[u], h)
      BY <1>1, <1>4, <2>4 DEF Speaking, SpeakingEnds, sessionVars, IInv, Kept, CaptureTypeOK
    <3>2. /\ capture' \in [Users -> {None} \cup Captures] /\ timers' \in [Handles -> Users \cup {None}]
          /\ \A v \in Users \ {u} : capture'[v] = capture[v]
          /\ capture'[u] # None /\ capture'[u].audio = capture[u].audio /\ capture'[u].ssrc = capture[u].ssrc
      BY <3>1, RescheduledFacts DEF IInv, Kept
    <3>3. Origin' = Origin /\ \A v \in Users : Now(v)' = Now(v)
      BY <3>1, <3>2 DEF Origin, Now
    <3>4. Kept'
      BY <3>1, <3>2 DEF IInv, Kept, CaptureTypeOK, Shaped, Settled
    <3>5. Whole => Whole'
      BY <3>1, <3>2, <3>3 DEF Whole, OfSession, OneOrigin, Streams
    <3> QED BY <3>4, <3>5
  <2> QED BY <1>2, <1>4, <2>1, <2>2, <2>3, <2>4 DEF Speaking, IInv, Undivided
<1>5. CASE Service /\ UNCHANGED captureVars
  <2>1. /\ Shaped(bridge') /\ Settled(bridge')
        /\ \A origin : Streams(bridge, origin) => Streams(bridge', origin)
    BY <1>5, ServiceFacts DEF IInv, Kept
  <2>2. Origin' = Origin /\ \A v \in Users : Now(v)' = Now(v)
    BY <1>5 DEF captureVars, Origin, Now
  <2>3. Kept'
    BY <1>5, <2>1 DEF captureVars, IInv, Kept, CaptureTypeOK, Shaped, Settled
  <2>4. (OfSession => OfSession') /\ (OneOrigin => OneOrigin')
    BY <1>1, <1>5, <2>2 DEF sessionVars, captureVars, OfSession, OneOrigin
  <2>5. Streams(bridge, Origin) => Streams(bridge', Origin')
    BY <2>1, <2>2
  <2>6. Whole => Whole'
    BY <2>4, <2>5 DEF Whole, Streams
  <2> QED BY <1>2, <2>3, <2>6 DEF IInv, Undivided
<1>6. ASSUME NEW ok \in BOOLEAN,
             \/ \E h \in Handles : Silent(h, ok)
             \/ \E d \in Decoders : Closing(d, ok)
             \/ \E u \in Users, d \in Decoders, x \in Ssrcs, g \in Generations : Packet(u, d, x, g, ok)
      PROVE  IInv' /\ (Undivided => Undivided')
  BY <1>2, <1>6, SilentStep, ClosingStep, PacketStep DEF IInv, Undivided
<1> QED BY <1>3, <1>4, <1>5, <1>6 DEF vars

\* Every step keeps the invariant, and the second part of it too while no two
\* joins are under way.
THEOREM StepKeepsIInv ==
  ASSUME IInv, [Next]_vars
  PROVE  IInv' /\ (Undivided /\ OneJoinAtATime => Undivided')
<1>1. CASE \E j \in Joins : Command(j)
  BY <1>1, CommandStep
<1>2. CASE \E ok \in BOOLEAN : Ends(ok) \/ \E c \in Conns : Library(c, ok)
  BY <1>2, LibraryStep
<1>3. CASE \/ Speaking \/ (Service /\ UNCHANGED <<sessionVars, captureVars>>) \/ UNCHANGED vars
           \/ \E ok \in BOOLEAN :
                \/ \E h \in Handles : Silent(h, ok)
                \/ \E d \in Decoders : Closing(d, ok)
                \/ \E u \in Users, d \in Decoders, x \in Ssrcs, g \in Generations : Packet(u, d, x, g, ok)
  BY <1>3, RoomStep
<1> QED BY <1>1, <1>2, <1>3 DEF Next

THEOREM Invariance == Spec => []IInv
<1>1. Init => IInv
  BY InitHolds
<1>2. IInv /\ [Next]_vars => IInv'
  BY StepKeepsIInv
<1> QED BY <1>1, <1>2, PTL DEF Spec

\* Nothing but a session, captures and a bridge is ever in the variables.
THEOREM TypeCorrect == Spec => []TypeOK
<1>1. IInv => TypeOK
  BY DEF IInv, Sessioned, Kept, Shaped, TypeOK, BridgeTypeOK
<1> QED BY <1>1, Invariance, PTL

\* The session that the captures belong to has a connection that is not
\* destroyed, whichever commands and reconnections overlap (voice-manager.ts).
THEOREM TheSessionIsConnected == Spec => []CurrentIsConnected
<1>1. IInv => CurrentIsConnected
  BY DEF IInv, Sessioned
<1> QED BY <1>1, Invariance, PTL

\* Whichever write, record or event closes the bridge, every synthesis and the
\* command that waited has been answered (close() of model-bridge.ts).
THEOREM NobodyIsLeftWaiting == Spec => []NobodyWaitsForClosedBridge
<1>1. IInv => NobodyWaitsForClosedBridge
  BY DEF IInv, Kept, Settled, NobodyWaitsForClosedBridge
<1> QED BY <1>1, Invariance, PTL

THEOREM UndividedInvariance == Spec /\ []OneJoinAtATime => []Undivided
<1>1. Init => Undivided
  BY InitHolds
<1>2. IInv /\ Undivided /\ OneJoinAtATime /\ [Next]_vars => Undivided'
  BY StepKeepsIInv
<1> QED BY <1>1, <1>2, Invariance, PTL DEF Spec

LEMMA AtMostOne ==
  ASSUME NEW S, \A o, q \in S : o = q
  PROVE  Cardinality(S) <= 1
<1>1. CASE S = {}
  BY <1>1, FS_EmptySet
<1>2. CASE S # {}
  <2>1. PICK o \in S : S = {o}
    BY <1>2
  <2>2. Cardinality({o}) = 1
    BY FS_Singleton
  <2> QED BY <2>1, <2>2
<1> QED BY <1>1, <1>2

\* As long as a /join begins only when none is under way, what a member says
\* is one stretch: of one decoder, one SSRC and one span between disconnections.
THEOREM OneStretch == Spec /\ []OneJoinAtATime => []UtteranceIsOneStretch
<1>1. Undivided => UtteranceIsOneStretch
  <2>1. SUFFICES ASSUME Undivided
                 PROVE  UtteranceIsOneStretch
    OBVIOUS
  <2>2. Cardinality(said.audio) <= 1
    BY <2>1, AtMostOne DEF Undivided, Whole, OneOrigin
  <2>3. ASSUME NEW u \in Users, capture[u] # None
        PROVE  Cardinality(capture[u].audio) <= 1
    <3>1. \A o, q \in capture[u].audio : o = q
      BY <2>1, <2>3 DEF Undivided, Whole, OneOrigin
    <3> QED BY <3>1, AtMostOne
  <2> QED BY <2>2, <2>3 DEF UtteranceIsOneStretch
<1> QED BY <1>1, UndividedInvariance, PTL

\* And so is what the voice service hears as one stream, with the utterance that
\* a decision about the stream is handed out with.
THEOREM OneVoice == Spec /\ []OneJoinAtATime => []StreamIsOneVoice
<1>1. Undivided => StreamIsOneVoice
  <2>1. SUFFICES ASSUME Undivided, NEW g \in DOMAIN bridge.sources
                 PROVE  /\ Cardinality(bridge.sources[g].audio) <= 1
                        /\ bridge.sources[g].utterance \subseteq bridge.sources[g].audio
    BY DEF StreamIsOneVoice
  <2>2. /\ bridge.sources[g].audio = {bridge.sources[g].origin}
        /\ bridge.sources[g].utterance \subseteq bridge.sources[g].audio
    BY <2>1 DEF Undivided, Whole, Streams
  <2>3. \A o, q \in bridge.sources[g].audio : o = q
    BY <2>2
  <2> QED BY <2>2, <2>3, AtMostOne
<1> QED BY <1>1, UndividedInvariance, PTL
-----------------------------------------------------------------------------

-----------------------------------------------------------------------------
(* The avatar's publisher.                                                 *)

Sent == [session : Nat, sequence : Nat, connected : BOOLEAN]

\* What the relay is still to be shown: each update after the one before it,
\* and the first is what it was shown last or comes after it.
Line(box, last) ==
  /\ box \in Seq(Sent) /\ last \in Sent
  /\ \A i, k \in DOMAIN box : i < k => Older(box[i], box[k])
  /\ box # << >> => last = box[1] \/ Older(last, box[1])

\* Nothing published so far is later than the state, and the next session's
\* updates are later than any.
Behind(u, state, last) == u.session <= last /\ (state # Nobody /\ u.session = last => u.sequence <= state.sequence)

Published ==
  /\ fresh \in Nat
  /\ avatar # Nobody => avatar \in [channel : {avatar.channel}, session : Nat, sequence : Nat] /\ avatar.session = fresh
  /\ Behind(shown, avatar, fresh) /\ \A k \in DOMAIN outbox : Behind(outbox[k], avatar, fresh)

\* An open socket carries the first of the line or its result, if anything.
Carried ==
  /\ inFlight \in BOOLEAN /\ wire \in [kind : {"none", "update", "result"}, about : Sent]
  /\ wire.kind = "result" => wire.about = shown
  /\ socket # "open" \/ inFlight = FALSE => wire.kind = "none"
  /\ socket = "open" /\ inFlight = TRUE => outbox # << >> /\ wire.about = outbox[1]

PublisherInv == Line(outbox, shown) /\ Published /\ Carried

\* What the property says of a step.
Advances ==
  /\ shown' # shown => Older(shown, shown')
  /\ Len(outbox') < Len(outbox) => shown = Head(outbox)

LEMMA LineGrows ==
  ASSUME NEW box, NEW last, Line(box, last), NEW us \in Seq(Sent), us # << >>,
         \A i, k \in DOMAIN us : i < k => Older(us[i], us[k]),
         \A k \in DOMAIN us : Older(last, us[k]) /\ \A i \in DOMAIN box : Older(box[i], us[k])
  PROVE  /\ Line(box \o us, last) /\ box \o us # << >> /\ Len(box \o us) >= Len(box)
         /\ box # << >> => (box \o us)[1] = box[1]
         /\ \A k \in DOMAIN (box \o us) : \/ k \in DOMAIN box /\ (box \o us)[k] = box[k]
                                          \/ \E i \in DOMAIN us : (box \o us)[k] = us[i]
<1>1. box \in Seq(Sent) /\ last \in Sent
  BY DEF Line
<1> DEFINE new == box \o us
<1>2. /\ new \in Seq(Sent) /\ Len(new) = Len(box) + Len(us)
      /\ \A k \in 1..Len(new) : new[k] = IF k <= Len(box) THEN box[k] ELSE us[k - Len(box)]
      /\ Len(box) \in Nat /\ Len(us) \in Nat /\ Len(us) > 0
      /\ DOMAIN new = 1..Len(new) /\ DOMAIN box = 1..Len(box) /\ DOMAIN us = 1..Len(us)
  BY <1>1, ConcatProperties
<1> HIDE DEF new
<1>3. \A k \in DOMAIN new : \/ k \in DOMAIN box /\ new[k] = box[k]
                            \/ k > Len(box) /\ k - Len(box) \in DOMAIN us /\ new[k] = us[k - Len(box)]
  BY <1>2
<1>4. new # << >> /\ Len(new) >= Len(box) /\ (box # << >> => new[1] = box[1])
  BY <1>1, <1>2
<1>5. ASSUME NEW i \in DOMAIN new, NEW k \in DOMAIN new, i < k PROVE Older(new[i], new[k])
  <2>1. CASE k \in DOMAIN box /\ new[k] = box[k]
    <3>1. i \in DOMAIN box /\ new[i] = box[i]
      BY <1>2, <1>5, <2>1
    <3> QED BY <1>5, <2>1, <3>1 DEF Line
  <2>2. CASE k > Len(box) /\ k - Len(box) \in DOMAIN us /\ new[k] = us[k - Len(box)]
    <3>1. CASE i \in DOMAIN box /\ new[i] = box[i]
      BY <2>2, <3>1
    <3>2. CASE i > Len(box) /\ i - Len(box) \in DOMAIN us /\ new[i] = us[i - Len(box)]
      <4>1. i - Len(box) < k - Len(box)
        BY <1>2, <1>5, <2>2, <3>2
      <4> QED BY <2>2, <3>2, <4>1
    <3> QED BY <1>3, <3>1, <3>2
  <2> QED BY <1>3, <2>1, <2>2
<1>6. last = new[1] \/ Older(last, new[1])
  <2>1. CASE box = << >>
    BY <1>2, <2>1
  <2>2. CASE box # << >>
    BY <1>4, <2>2 DEF Line
  <2> QED BY <2>1, <2>2
<1>7. Line(new, last)
  BY <1>1, <1>2, <1>5, <1>6 DEF Line
<1> QED BY <1>3, <1>4, <1>7 DEF new

\* An update that is enqueued goes out at once if nothing else is on its way.
LEMMA EnqueueKeeps ==
  ASSUME PublisherInv, NEW us \in Seq(Sent), us # << >>,
         \A i, k \in DOMAIN us : i < k => Older(us[i], us[k]),
         \A k \in DOMAIN us : Older(shown, us[k]) /\ \A i \in DOMAIN outbox : Older(outbox[i], us[k]),
         Enqueue(us), UNCHANGED <<socket, shown>>
  PROVE  /\ Line(outbox, shown)' /\ Carried' /\ Advances
         /\ \A k \in DOMAIN outbox' : \/ k \in DOMAIN outbox /\ outbox'[k] = outbox[k]
                                      \/ \E i \in DOMAIN us : outbox'[k] = us[i]
<1>1. outbox' = outbox \o us /\ Flush(outbox', socket, inFlight)
  BY DEF Enqueue
<1>2. /\ Line(outbox', shown) /\ outbox' # << >> /\ Len(outbox') >= Len(outbox)
      /\ outbox # << >> => outbox'[1] = outbox[1]
      /\ \A k \in DOMAIN outbox' : \/ k \in DOMAIN outbox /\ outbox'[k] = outbox[k]
                                   \/ \E i \in DOMAIN us : outbox'[k] = us[i]
  BY <1>1, LineGrows DEF PublisherInv
<1>3. outbox' \in Seq(Sent) /\ Head(outbox') = outbox'[1] /\ outbox'[1] \in Sent /\ Len(outbox) \in Nat /\ Len(outbox') \in Nat
  BY <1>2 DEF Line, PublisherInv
<1>4. Carried'
  <2>1. CASE socket = "open" /\ inFlight = FALSE
    <3>1. inFlight' = TRUE /\ wire' = [kind |-> "update", about |-> outbox'[1]]
      BY <1>1, <1>2, <1>3, <2>1 DEF Flush
    <3>2. wire'.kind = "update" /\ wire'.about = outbox'[1] /\ wire' \in [kind : {"none", "update", "result"}, about : Sent]
      BY <1>3, <3>1
    <3>3. socket' = "open"
      BY <2>1
    <3> QED BY <1>2, <3>1, <3>2, <3>3 DEF Carried
  <2>2. CASE socket # "open" \/ inFlight = TRUE
    <3>1. inFlight' = inFlight /\ wire' = wire
      BY <1>1, <2>2 DEF Flush
    <3> QED BY <1>2, <2>2, <3>1 DEF PublisherInv, Carried
  <2> QED BY <2>1, <2>2 DEF PublisherInv, Carried
<1>5. Advances
  BY <1>2, <1>3 DEF Advances
<1>6. Line(outbox, shown)'
  BY <1>2 DEF Line
<1> QED BY <1>2, <1>4, <1>5, <1>6

\* Old and new updates of a step.
LEMMA Later ==
  ASSUME PublisherInv, NEW u \in Sent, u.session = fresh + 1 \/ (avatar # Nobody /\ u.session = fresh /\ u.sequence > avatar.sequence)
  PROVE  Older(shown, u) /\ \A k \in DOMAIN outbox : Older(outbox[k], u)
<1>1. shown \in Sent /\ \A k \in DOMAIN outbox : outbox[k] \in Sent
  BY DEF PublisherInv, Line
<1>2. ASSUME NEW v \in Sent, Behind(v, avatar, fresh) PROVE Older(v, u)
  BY <1>2 DEF PublisherInv, Published, Behind, Older, Sent
<1> QED BY <1>1, <1>2 DEF PublisherInv, Published

\* One update, or the end of one session and the start of the next.
LEMMA EnqueueOne ==
  ASSUME PublisherInv, NEW u \in Sent, Enqueue(<<u>>), UNCHANGED <<socket, shown>>,
         Older(shown, u), \A i \in DOMAIN outbox : Older(outbox[i], u)
  PROVE  /\ Line(outbox, shown)' /\ Carried' /\ Advances
         /\ \A k \in DOMAIN outbox' : (k \in DOMAIN outbox /\ outbox'[k] = outbox[k]) \/ outbox'[k] = u
<1> DEFINE us == <<u>>
<1>1. us \in Seq(Sent) /\ us # << >> /\ DOMAIN us = {1} /\ us[1] = u
  OBVIOUS
<1>2. Enqueue(us)
  OBVIOUS
<1> HIDE DEF us
<1>3. \A i, k \in DOMAIN us : i < k => Older(us[i], us[k])
  BY <1>1
<1>4. \A k \in DOMAIN us : Older(shown, us[k]) /\ \A i \in DOMAIN outbox : Older(outbox[i], us[k])
  BY <1>1
<1>5. /\ Line(outbox, shown)' /\ Carried' /\ Advances
      /\ \A k \in DOMAIN outbox' : (k \in DOMAIN outbox /\ outbox'[k] = outbox[k]) \/ \E i \in DOMAIN us : outbox'[k] = us[i]
  BY <1>1, <1>2, <1>3, <1>4, EnqueueKeeps
<1> QED BY <1>1, <1>5

LEMMA EnqueueTwo ==
  ASSUME PublisherInv, NEW u \in Sent, NEW v \in Sent, Enqueue(<<u, v>>), UNCHANGED <<socket, shown>>, Older(u, v),
         Older(shown, u), Older(shown, v), \A i \in DOMAIN outbox : Older(outbox[i], u) /\ Older(outbox[i], v)
  PROVE  /\ Line(outbox, shown)' /\ Carried' /\ Advances
         /\ \A k \in DOMAIN outbox' : (k \in DOMAIN outbox /\ outbox'[k] = outbox[k]) \/ outbox'[k] = u \/ outbox'[k] = v
<1> DEFINE us == <<u, v>>
<1>1. us \in Seq(Sent) /\ us # << >> /\ DOMAIN us = {1, 2} /\ us[1] = u /\ us[2] = v
  OBVIOUS
<1>2. Enqueue(us)
  OBVIOUS
<1> HIDE DEF us
<1>3. \A i, k \in DOMAIN us : i < k => Older(us[i], us[k])
  BY <1>1
<1>4. \A k \in DOMAIN us : Older(shown, us[k]) /\ \A i \in DOMAIN outbox : Older(outbox[i], us[k])
  BY <1>1
<1>5. /\ Line(outbox, shown)' /\ Carried' /\ Advances
      /\ \A k \in DOMAIN outbox' : (k \in DOMAIN outbox /\ outbox'[k] = outbox[k]) \/ \E i \in DOMAIN us : outbox'[k] = us[i]
  BY <1>1, <1>2, <1>3, <1>4, EnqueueKeeps
<1> QED BY <1>1, <1>5

LEMMA EndedFacts ==
  ASSUME Published, avatar # Nobody
  PROVE  Ended \in Sent /\ Ended.session = fresh /\ Ended.sequence = avatar.sequence + 1 /\ avatar.sequence \in Nat
BY DEF Published, Ended, UpdateOf, Sent

LEMMA SessionStartKeeps == ASSUME PublisherInv, NEW ch, SessionStart(ch) PROVE PublisherInv' /\ Advances
<1> DEFINE u == [session |-> fresh + 1, sequence |-> 0, connected |-> TRUE]
<1>1. /\ fresh' = fresh + 1 /\ avatar' = [channel |-> ch, session |-> fresh + 1, sequence |-> 0] /\ fresh \in Nat
      /\ UNCHANGED <<socket, shown>>
  BY DEF SessionStart, PublisherInv, Published
<1>2. UpdateOf(avatar', TRUE) = u /\ u \in Sent /\ u.session = fresh + 1 /\ u.sequence = 0
  BY <1>1 DEF UpdateOf, Sent
<1> HIDE DEF u
<1>3. \A v \in Sent : Behind(v, avatar, fresh) => Behind(v, avatar', fresh')
  BY <1>1 DEF Behind, Sent
<1>4. Behind(u, avatar', fresh')
  BY <1>1, <1>2 DEF Behind
<1>5. shown \in Sent /\ \A k \in DOMAIN outbox : outbox[k] \in Sent
  BY DEF PublisherInv, Line
<1>6. CASE avatar # Nobody /\ Enqueue(<<Ended, u>>)
  <2>1. Ended \in Sent /\ Ended.session = fresh /\ Ended.sequence > avatar.sequence
    BY <1>6, EndedFacts DEF PublisherInv
  <2>2. Older(Ended, u)
    BY <1>1, <1>2, <2>1 DEF Older
  <2>3. /\ Line(outbox, shown)' /\ Carried' /\ Advances
        /\ \A k \in DOMAIN outbox' : \/ k \in DOMAIN outbox /\ outbox'[k] = outbox[k]
                                     \/ outbox'[k] = Ended \/ outbox'[k] = u
    BY <1>1, <1>2, <1>6, <2>1, <2>2, Later, EnqueueTwo
  <2>4. \A v : v = Ended => Behind(v, avatar', fresh')
    BY <1>1, <2>1 DEF Behind
  <2>5. Published'
    BY <1>1, <1>3, <1>4, <1>5, <2>3, <2>4 DEF PublisherInv, Published
  <2> QED BY <2>3, <2>5 DEF PublisherInv
<1>7. CASE Enqueue(<<u>>)
  <2>1. /\ Line(outbox, shown)' /\ Carried' /\ Advances
        /\ \A k \in DOMAIN outbox' : (k \in DOMAIN outbox /\ outbox'[k] = outbox[k]) \/ outbox'[k] = u
    BY <1>1, <1>2, <1>7, Later, EnqueueOne
  <2>2. Published'
    BY <1>1, <1>3, <1>4, <1>5, <2>1 DEF PublisherInv, Published
  <2> QED BY <2>1, <2>2 DEF PublisherInv
<1> QED BY <1>2, <1>6, <1>7 DEF SessionStart

LEMMA SessionEndKeeps ==
  ASSUME PublisherInv, NEW ch, SessionEnd(ch)
  PROVE  PublisherInv' /\ Advances
<1>1. CASE UNCHANGED publisherVars
  BY <1>1 DEF publisherVars, PublisherInv, Line, Published, Carried, Behind, Advances
<1>2. CASE avatar # Nobody /\ Enqueue(<<Ended>>) /\ avatar' = Nobody /\ UNCHANGED <<fresh, socket, shown>>
  <2>1. Ended \in Sent /\ Ended.session = fresh /\ Ended.sequence > avatar.sequence /\ fresh \in Nat
    BY <1>2, EndedFacts DEF PublisherInv, Published
  <2>2. /\ Line(outbox, shown)' /\ Carried' /\ Advances
        /\ \A k \in DOMAIN outbox' : (k \in DOMAIN outbox /\ outbox'[k] = outbox[k]) \/ outbox'[k] = Ended
    BY <1>2, <2>1, Later, EnqueueOne
  <2>3. /\ \A v \in Sent : Behind(v, avatar, fresh) => Behind(v, avatar', fresh')
        /\ Behind(shown, avatar', fresh') /\ \A v : v = Ended => Behind(v, avatar', fresh')
    BY <1>2, <2>1 DEF Behind, PublisherInv, Published
  <2>4. \A k \in DOMAIN outbox : Behind(outbox[k], avatar, fresh) /\ outbox[k] \in Sent
    BY DEF PublisherInv, Published, Line
  <2>5. Published'
    BY <1>2, <2>1, <2>2, <2>3, <2>4 DEF Published
  <2> QED BY <2>2, <2>5 DEF PublisherInv
<1> QED BY <1>1, <1>2 DEF SessionEnd

\* The state moves on by one, and so does what is published of it.
LEMMA Moved ==
  ASSUME PublisherInv, avatar # Nobody, avatar' = [avatar EXCEPT !.sequence = @ + 1], fresh' = fresh, shown' = shown
  PROVE  /\ UpdateOf(avatar', TRUE) \in Sent /\ UpdateOf(avatar', TRUE).session = fresh
         /\ UpdateOf(avatar', TRUE).sequence > avatar.sequence
         /\ (\A k \in DOMAIN outbox' : \/ k \in DOMAIN outbox /\ outbox'[k] = outbox[k]
                                       \/ outbox'[k] = UpdateOf(avatar', TRUE))
            => Published'
<1>1. /\ avatar \in [channel : {avatar.channel}, session : Nat, sequence : Nat] /\ avatar.session = fresh /\ fresh \in Nat
      /\ avatar' \in [channel : {avatar'.channel}, session : Nat, sequence : Nat] /\ avatar'.session = fresh
      /\ avatar'.sequence = avatar.sequence + 1
  BY DEF PublisherInv, Published
<1> DEFINE u == UpdateOf(avatar', TRUE)
<1>2. u \in Sent /\ u.session = fresh /\ u.sequence = avatar.sequence + 1
  BY <1>1 DEF UpdateOf, Sent
<1> HIDE DEF u
<1>3. /\ \A v \in Sent : Behind(v, avatar, fresh) => Behind(v, avatar', fresh')
      /\ Behind(u, avatar', fresh')
  BY <1>1, <1>2 DEF Behind, Sent
<1>4. Behind(shown, avatar', fresh') /\ \A k \in DOMAIN outbox : Behind(outbox[k], avatar', fresh')
  BY <1>3 DEF PublisherInv, Published, Line, Behind
<1>5. (\A k \in DOMAIN outbox' : (k \in DOMAIN outbox /\ outbox'[k] = outbox[k]) \/ outbox'[k] = u) => Published'
  BY <1>1, <1>3, <1>4 DEF Published, Behind
<1>6. u \in Sent /\ u.session = fresh /\ u.sequence > avatar.sequence
  BY <1>1, <1>2
<1> QED BY <1>5, <1>6 DEF u

LEMMA SetBehaviorKeeps == ASSUME PublisherInv, NEW ch, SetBehavior(ch) PROVE PublisherInv' /\ Advances
<1> DEFINE u == UpdateOf(avatar', TRUE)
<1>1. /\ avatar # Nobody /\ avatar' = [avatar EXCEPT !.sequence = @ + 1] /\ Enqueue(<<u>>)
      /\ UNCHANGED <<fresh, socket, shown>>
  BY DEF SetBehavior
<1>2. /\ u \in Sent /\ u.session = fresh /\ u.sequence > avatar.sequence
      /\ (\A k \in DOMAIN outbox' : (k \in DOMAIN outbox /\ outbox'[k] = outbox[k]) \/ outbox'[k] = u) => Published'
  BY <1>1, Moved
<1> HIDE DEF u
<1>3. /\ Line(outbox, shown)' /\ Carried' /\ Advances
      /\ \A k \in DOMAIN outbox' : (k \in DOMAIN outbox /\ outbox'[k] = outbox[k]) \/ outbox'[k] = u
  BY <1>1, <1>2, Later, EnqueueOne
<1> QED BY <1>2, <1>3 DEF PublisherInv

\* The socket comes, goes and carries.
LEMMA SocketOpensKeeps == ASSUME PublisherInv, SocketOpens PROVE PublisherInv' /\ Advances
<1>1. /\ socket = "dialing" /\ socket' = "open" /\ UNCHANGED <<fresh, shown>> /\ Flush(outbox', "open", FALSE)
      /\ inFlight' \in BOOLEAN
  BY DEF SocketOpens, Flush
<1>2. Line(outbox, shown)' /\ Published' /\ Len(outbox') >= Len(outbox)
  <2>1. CASE avatar = Nobody /\ UNCHANGED <<avatar, outbox>>
    BY <1>1, <2>1 DEF PublisherInv, Line, Published
  <2>2. CASE avatar # Nobody /\ avatar' = [avatar EXCEPT !.sequence = @ + 1] /\ outbox' = Append(outbox, UpdateOf(avatar', TRUE))
    <3> DEFINE u == UpdateOf(avatar', TRUE)
                us == <<u>>
    <3>1. /\ u \in Sent /\ u.session = fresh /\ u.sequence > avatar.sequence
          /\ (\A k \in DOMAIN outbox' : (k \in DOMAIN outbox /\ outbox'[k] = outbox[k]) \/ outbox'[k] = u) => Published'
      BY <1>1, <2>2, Moved
    <3>3. outbox' = outbox \o us
      BY <2>2, <3>1, AppendIsConcat DEF PublisherInv, Line
    <3> HIDE DEF u
    <3>2. Older(shown, u) /\ \A k \in DOMAIN outbox : Older(outbox[k], u)
      BY <2>2, <3>1, Later
    <3>4. us \in Seq(Sent) /\ us # << >> /\ DOMAIN us = {1} /\ us[1] = u
      BY <3>1
    <3> HIDE DEF us
    <3>5. /\ \A i, k \in DOMAIN us : i < k => Older(us[i], us[k])
          /\ \A k \in DOMAIN us : Older(shown, us[k]) /\ \A i \in DOMAIN outbox : Older(outbox[i], us[k])
      BY <3>2, <3>4
    <3>6. /\ Line(outbox', shown) /\ Len(outbox') >= Len(outbox)
          /\ \A k \in DOMAIN outbox' : (k \in DOMAIN outbox /\ outbox'[k] = outbox[k]) \/ \E i \in DOMAIN us : outbox'[k] = us[i]
      BY <3>3, <3>4, <3>5, LineGrows DEF PublisherInv
    <3> QED BY <1>1, <3>1, <3>4, <3>6
  <2> QED BY <2>1, <2>2 DEF SocketOpens
<1>3. outbox' \in Seq(Sent)
  BY <1>2 DEF Line
<1>4. Carried'
  <2>1. CASE outbox' = << >>
    <3>1. inFlight' = FALSE /\ wire' = wire /\ wire.kind = "none"
      BY <1>1, <2>1 DEF Flush, PublisherInv, Carried
    <3> QED BY <1>1, <3>1 DEF PublisherInv, Carried
  <2>2. CASE outbox' # << >>
    <3>1. inFlight' = TRUE /\ wire' = [kind |-> "update", about |-> Head(outbox')]
      BY <1>1, <2>2 DEF Flush
    <3>2. Head(outbox') = outbox'[1] /\ outbox'[1] \in Sent
      BY <1>3, <2>2
    <3>3. wire'.kind = "update" /\ wire'.about = outbox'[1] /\ wire' \in [kind : {"none", "update", "result"}, about : Sent]
      BY <3>1, <3>2
    <3> QED BY <1>1, <2>2, <3>1, <3>3 DEF Carried
  <2> QED BY <2>1, <2>2
<1>5. Advances
  BY <1>1, <1>2, <1>3 DEF Advances, PublisherInv, Line
<1> QED BY <1>2, <1>4, <1>5 DEF PublisherInv

LEMMA QuietKeeps ==
  ASSUME PublisherInv, Start \/ Stop \/ RetryDue \/ SocketBreaks \/ SocketCloses
  PROVE  PublisherInv' /\ Advances
<1>1. UNCHANGED <<avatar, outbox, fresh, shown>> /\ socket' \in {"none", "dialing", "broken"}
  BY DEF Start, Stop, RetryDue, SocketBreaks, SocketCloses
<1>2. NoUpdate \in Sent
  BY DEF NoUpdate, Sent
<1>3. Carried'
  <2>1. CASE Start \/ RetryDue
    BY <1>1, <2>1 DEF Start, RetryDue, PublisherInv, Carried
  <2>2. CASE Stop \/ SocketBreaks
    <3>1. wire' = Nothing /\ inFlight' \in BOOLEAN
      BY <2>2 DEF Stop, SocketBreaks, PublisherInv, Carried
    <3> QED BY <1>1, <1>2, <3>1 DEF Nothing, Carried
  <2>3. CASE SocketCloses
    BY <1>1, <2>3 DEF SocketCloses, PublisherInv, Carried
  <2> QED BY <2>1, <2>2, <2>3
<1>4. Line(outbox, shown)' /\ Published'
  BY <1>1 DEF PublisherInv, Line, Published
<1>5. Advances
  BY <1>1 DEF Advances, PublisherInv, Line
<1> QED BY <1>3, <1>4, <1>5 DEF PublisherInv

LEMMA ResultKeeps == ASSUME PublisherInv, Result PROVE PublisherInv' /\ Advances
<1>1. /\ socket = "open" /\ wire.kind = "result" /\ outbox # << >> /\ Head(outbox) = wire.about /\ outbox' = Tail(outbox)
      /\ UNCHANGED <<avatar, socket, fresh, shown>>
  BY DEF Result
<1>2. /\ outbox \in Seq(Sent) /\ outbox' \in Seq(Sent) /\ Len(outbox') = Len(outbox) - 1 /\ Len(outbox) \in Nat
      /\ Head(outbox) = outbox[1] /\ \A k \in 1..Len(outbox') : outbox'[k] = outbox[k + 1]
      /\ DOMAIN outbox = 1..Len(outbox) /\ DOMAIN outbox' = 1..Len(outbox')
  BY <1>1, HeadTailProperties DEF PublisherInv, Line
<1>3. shown = outbox[1] /\ 1 \in DOMAIN outbox
  BY <1>1, <1>2 DEF PublisherInv, Carried
<1>4. \A k \in DOMAIN outbox' : k + 1 \in DOMAIN outbox /\ outbox'[k] = outbox[k + 1]
  BY <1>2
<1>5. Line(outbox, shown)'
  <2>1. \A i, k \in DOMAIN outbox' : i < k => Older(outbox'[i], outbox'[k])
    <3>1. \A i, k \in DOMAIN outbox' : i < k => i + 1 < k + 1
      BY <1>2
    <3> QED BY <1>4, <3>1 DEF PublisherInv, Line
  <2>2. outbox' # << >> => Older(shown, outbox'[1])
    <3>1. SUFFICES ASSUME outbox' # << >> PROVE Older(shown, outbox'[1])
      OBVIOUS
    <3>2. 1 \in DOMAIN outbox' /\ 1 < 1 + 1
      BY <1>2, <3>1
    <3> QED BY <1>3, <1>4, <3>2 DEF PublisherInv, Line
  <2> QED BY <1>1, <1>2, <2>1, <2>2 DEF PublisherInv, Line
<1>6. Published'
  BY <1>1, <1>4 DEF PublisherInv, Published
<1>7. Carried'
  <2>1. CASE outbox' = << >>
    <3>1. inFlight' = FALSE /\ wire' = Nothing /\ NoUpdate \in Sent
      BY <2>1 DEF Result, NoUpdate, Sent
    <3> QED BY <3>1 DEF Nothing, Carried
  <2>2. CASE outbox' # << >>
    <3>1. inFlight' = TRUE /\ wire' = [kind |-> "update", about |-> Head(outbox')]
      BY <2>2 DEF Result, Flush
    <3>2. Head(outbox') = outbox'[1] /\ outbox'[1] \in Sent
      BY <1>2, <2>2
    <3>3. wire'.kind = "update" /\ wire'.about = outbox'[1] /\ wire' \in [kind : {"none", "update", "result"}, about : Sent]
      BY <3>1, <3>2
    <3> QED BY <1>1, <2>2, <3>1, <3>3 DEF Carried
  <2> QED BY <2>1, <2>2
<1>8. Advances
  BY <1>1, <1>2, <1>3 DEF Advances
<1> QED BY <1>5, <1>6, <1>7, <1>8 DEF PublisherInv

LEMMA RelayReceivesKeeps == ASSUME PublisherInv, RelayReceives PROVE PublisherInv' /\ Advances
<1>1. /\ wire.kind = "update" /\ shown' = wire.about /\ wire' = [wire EXCEPT !.kind = "result"]
      /\ UNCHANGED <<avatar, outbox, socket, fresh, inFlight>>
  BY DEF RelayReceives
<1>2. socket = "open" /\ inFlight = TRUE /\ wire \in [kind : {"none", "update", "result"}, about : Sent]
  BY <1>1 DEF PublisherInv, Carried
<1>3. outbox # << >> /\ wire.about = outbox[1]
  BY <1>2 DEF PublisherInv, Carried
<1>4. shown' = outbox[1] /\ outbox \in Seq(Sent) /\ 1 \in DOMAIN outbox
  BY <1>1, <1>3 DEF PublisherInv, Line
<1>5. Line(outbox, shown)'
  BY <1>1, <1>4 DEF PublisherInv, Line
<1>6. Published'
  BY <1>1, <1>4 DEF PublisherInv, Published
<1>7. Carried'
  <2>1. wire' \in [kind : {"none", "update", "result"}, about : Sent] /\ wire'.kind = "result" /\ wire'.about = wire.about
    BY <1>1, <1>2
  <2> QED BY <1>1, <1>2, <1>3, <2>1 DEF PublisherInv, Carried
<1>8. Advances
  <2>1. Len(outbox) \in Nat
    BY <1>4
  <2>2. shown' = shown \/ Older(shown, shown')
    BY <1>3, <1>4 DEF PublisherInv, Line
  <2> QED BY <1>1, <2>1, <2>2 DEF Advances
<1> QED BY <1>5, <1>6, <1>7, <1>8 DEF PublisherInv

-----------------------------------------------------------------------------
(* The session with the publisher.                                         *)

AvatarInv == Sessioned /\ PublisherInv

LEMMA AvatarStarts == AvatarInit => AvatarInv
<1> SUFFICES ASSUME SessionInit, PublisherInit PROVE AvatarInv
  BY DEF AvatarInit
<1>1. Sessioned
  BY DEF SessionInit, Idle, Sessioned, SessionTypeOK, Joined, CurrentIsConnected
<1>2. Line(outbox, shown) /\ Published
  BY DEF PublisherInit, NoUpdate, Sent, Line, Published, Behind
<1>3. Carried
  BY DEF PublisherInit, Nothing, NoUpdate, Sent, Carried
<1> QED BY <1>1, <1>2, <1>3 DEF AvatarInv, PublisherInv

\* What the publisher does by itself, and in the step that emits an event.
LEMMA PublisherKeeps ==
  ASSUME PublisherInv,
         \/ UNCHANGED publisherVars \/ PublisherStep
         \/ \E ch : SessionStart(ch) \/ SessionEnd(ch) \/ SetBehavior(ch)
  PROVE  PublisherInv' /\ (Advances \/ UNCHANGED publisherVars)
<1>1. CASE UNCHANGED publisherVars
  BY <1>1 DEF publisherVars, PublisherInv, Line, Published, Carried
<1>2. CASE PublisherStep
  BY <1>2, SocketOpensKeeps, QuietKeeps, ResultKeeps, RelayReceivesKeeps DEF PublisherStep
<1>3. CASE \E ch : SessionStart(ch) \/ SessionEnd(ch) \/ SetBehavior(ch)
  BY <1>3, SessionStartKeeps, SessionEndKeeps, SetBehaviorKeeps
<1> QED BY <1>1, <1>2, <1>3

LEMMA AvatarStep == AvatarInv /\ [AvatarNext]_avatarVars => AvatarInv' /\ (Advances \/ UNCHANGED publisherVars)
<1> SUFFICES ASSUME AvatarInv, [AvatarNext]_avatarVars PROVE AvatarInv' /\ (Advances \/ UNCHANGED publisherVars)
  OBVIOUS
<1>1. Sessioned /\ PublisherInv
  BY DEF AvatarInv
<1>2. ASSUME UNCHANGED sessionVars PROVE Sessioned'
  BY <1>1, <1>2 DEF sessionVars, Sessioned, SessionTypeOK, Joined, CurrentIsConnected
<1>3. ASSUME EmitsSessionEnd
      PROVE  UNCHANGED publisherVars \/ \E ch : SessionEnd(ch)
  BY <1>3 DEF EmitsSessionEnd
<1>4. ASSUME NEW j \in Joins, AvatarCommand(j) PROVE AvatarInv' /\ (Advances \/ UNCHANGED publisherVars)
  <2>1. Sessioned'
    BY <1>1, <1>4, SessionKept DEF AvatarCommand
  <2>2. UNCHANGED publisherVars \/ \E ch : SessionStart(ch) \/ SessionEnd(ch)
    BY <1>3, <1>4 DEF AvatarCommand
  <2> QED BY <1>1, <2>1, <2>2, PublisherKeeps DEF AvatarInv
<1>5. ASSUME NEW c \in Conns, AvatarLibrary(c) PROVE AvatarInv' /\ (Advances \/ UNCHANGED publisherVars)
  <2>1. Sessioned'
    BY <1>1, <1>5, SessionKept DEF AvatarLibrary
  <2>2. UNCHANGED publisherVars \/ \E ch : SessionEnd(ch)
    BY <1>3, <1>5 DEF AvatarLibrary
  <2> QED BY <1>1, <2>1, <2>2, PublisherKeeps DEF AvatarInv
<1>6. CASE (Leave \/ \E s \in Sessions : GivesUp(s)) /\ EmitsSessionEnd
  <2>1. Sessioned'
    BY <1>1, <1>6, SessionKept
  <2>2. UNCHANGED publisherVars \/ \E ch : SessionEnd(ch)
    BY <1>3, <1>6
  <2> QED BY <1>1, <2>1, <2>2, PublisherKeeps DEF AvatarInv
<1>7. CASE (PublisherStep \/ \E ch \in Channels : SetBehavior(ch)) /\ UNCHANGED sessionVars
  <2>1. PublisherInv' /\ (Advances \/ UNCHANGED publisherVars)
    BY <1>1, <1>7, PublisherKeeps
  <2> QED BY <1>2, <1>7, <2>1 DEF AvatarInv
<1>8. CASE UNCHANGED avatarVars
  <2>1. UNCHANGED sessionVars /\ UNCHANGED publisherVars
    BY <1>8 DEF avatarVars
  <2> QED BY <1>1, <1>2, <2>1, PublisherKeeps DEF AvatarInv
<1> QED BY <1>4, <1>5, <1>6, <1>7, <1>8 DEF AvatarNext

THEOREM AvatarInvariance == AvatarSpec => []AvatarInv
<1> QED BY AvatarStarts, AvatarStep, PTL DEF AvatarSpec

\* The session the avatar stands in has a connection that is not destroyed
\* (voice-manager.ts), with the publisher listening as with the voice service.
THEOREM TheAvatarIsConnected == AvatarSpec => []CurrentIsConnected
<1>1. AvatarInv => CurrentIsConnected
  BY DEF AvatarInv, Sessioned
<1> QED BY <1>1, AvatarInvariance, PTL

\* However often the socket is lost, and wherever an update is at the time, the
\* relay is never shown an older update after a newer one, and an update leaves
\* the outbox only when it is the one that was shown (publisher.ts).
THEOREM TheRelaySeesEveryUpdate == AvatarSpec => RelaySeesEveryUpdateInOrder
<1>1. AvatarInv /\ [AvatarNext]_avatarVars
      => [/\ shown' # shown => Older(shown, shown')
          /\ Len(outbox') < Len(outbox) => shown = Head(outbox)]_publisherVars
  BY AvatarStep DEF Advances
<1> QED BY <1>1, AvatarInvariance, PTL DEF AvatarSpec, RelaySeesEveryUpdateInOrder
=============================================================================
