----------------------------- MODULE ModelBridge -----------------------------
(***************************************************************************)
(* The bridge to the Python voice service (src/voice/model-bridge.ts): one  *)
(* socket, the audio sources it forwards, the speeches it receives and one  *)
(* command at a time.                                                      *)
(*                                                                         *)
(* The handlers of one event run one after the other and share the state,  *)
(* so they are written as functions on it.  A write can find the socket's  *)
(* buffer full, and then a control record closes the bridge for good; "ok"  *)
(* says whether the writes of a handler go through.                        *)
(***************************************************************************)
EXTENDS Naturals, FiniteSets

CONSTANTS
  Members,
  Generations,   \* names for source generations
  Speeches,
  Absent,
  MaxSources,    \* MAX_SOURCES
  MaxSpeeches    \* 2 in synthesize()

ASSUME BridgeAssumption == {MaxSources, MaxSpeeches} \subseteq Nat \ {0} /\ Absent \notin Generations

VARIABLE bridge

\* A source forwards the frames of one member under one stream generation;
\* audio is where the frames came from that were sent or wait to be sent.
BridgeTypeOK ==
  /\ bridge.link \in {"starting", "ready", "closed"}
  /\ DOMAIN bridge.sources \subseteq Generations
  /\ bridge.byMember \in [Members -> Generations \cup {Absent}]
  /\ bridge.speeches \subseteq Speeches /\ bridge.command \in BOOLEAN

\* speeches are the syntheses not settled yet; command: one waits for its answer.
BridgeInit ==
  bridge = [link |-> "starting", sources |-> <<>>, byMember |-> [m \in Members |-> Absent],
            speeches |-> {}, command |-> FALSE]

-----------------------------------------------------------------------------
Without(f, gs) == [g \in DOMAIN f \ gs |-> f[g]]

\* A bug to compare with: a command that waits is not answered.
ClosedButCommand(b) ==
  [b EXCEPT !.link = "closed", !.sources = <<>>, !.byMember = [m \in Members |-> Absent],
            !.speeches = {}]

\* close(): sources are forgotten, and whoever waits is told.
Closed(b) ==
  [b EXCEPT !.link = "closed", !.sources = <<>>, !.byMember = [m \in Members |-> Absent],
            !.speeches = {}, !.command = FALSE]

\* A control record that cannot be written closes the bridge.
Written(b, ok) == IF ok \/ b.link = "closed" THEN b ELSE Closed(b)

\* forget()
Forgotten(b, gs) ==
  [b EXCEPT
     !.sources = Without(@, gs),
     !.byMember = [m \in Members |-> IF @[m] \in gs THEN Absent ELSE @[m]]]

SourcesOf(b, ms) == {g \in DOMAIN b.sources : b.sources[g].member \in ms}

\* abortSources() of some members' sources.
Aborted(b, ms, ok) ==
  LET gs == SourcesOf(b, ms)
      told == IF gs = {} THEN b ELSE Written(b, ok)
  IN Forgotten(told, gs)

\* A bug to compare with: the room is closed and its sources live on.
RoomClosedOnly(b, ok) == Written(b, ok)

\* abortSources() of the whole room, which also closes the room.
RoomAborted(b, ok) == Written(Aborted(b, Members, ok), ok)

\* capture(): a source that is ending, or of another SSRC, is aborted and a
\* new one is opened while there is room.  The frame waits for the service
\* to open the stream or is written to it.
Captured(b, m, origin, g, ok) ==
  LET cur == b.byMember[m]
      usable == cur # Absent /\ ~b.sources[cur].ending /\ b.sources[cur].origin[2] = origin[2]
      left == IF cur # Absent /\ ~usable THEN Aborted(b, {m}, ok) ELSE b
      new == [member |-> m, origin |-> origin, opened |-> FALSE, ending |-> FALSE,
              utterance |-> {}, audio |-> {origin}]
  IN
  IF b.link # "ready" THEN b
  ELSE IF usable THEN [b EXCEPT !.sources[cur].audio = @ \cup {origin}]
  ELSE IF Cardinality(DOMAIN left.sources) >= MaxSources THEN left
  ELSE Written([left EXCEPT
         !.sources = [x \in DOMAIN @ \cup {g} |-> IF x = g THEN new ELSE @[x]],
         !.byMember[m] = g], ok)

\* end(): the source learns its utterance and is closed once it is open.
Finished(b, m, utterance, ok) ==
  LET cur == b.byMember[m] IN
  IF cur = Absent THEN b
  ELSE Written([b EXCEPT !.sources[cur].ending = TRUE, !.sources[cur].utterance = utterance],
               ok \/ ~b.sources[cur].opened)

-----------------------------------------------------------------------------
(* Records of the service.  Those about what is not known are ignored.     *)

ServiceIsReady == bridge.link = "starting" /\ bridge' = [bridge EXCEPT !.link = "ready"]

StreamOpens(g, ok) ==
  /\ g \in DOMAIN bridge.sources /\ ~bridge.sources[g].opened
  /\ bridge' = Written([bridge EXCEPT !.sources[g].opened = TRUE], ok \/ ~bridge.sources[g].ending)

StreamCloses(g) ==
  /\ g \in DOMAIN bridge.sources /\ bridge.sources[g].opened
  /\ bridge' = Forgotten(bridge, {g})

\* The socket closes or fails, the handshake times out, or a record cannot
\* be understood.
LinkIsLost == bridge.link # "closed" /\ bridge' = Closed(bridge)

-----------------------------------------------------------------------------
(* Speech and commands.                                                    *)

Synthesize(p, ok) ==
  /\ bridge.link = "ready" /\ Cardinality(bridge.speeches) < MaxSpeeches
  /\ p \notin bridge.speeches
  /\ bridge' = Written([bridge EXCEPT !.speeches = @ \cup {p}], ok)

\* A chunk is acknowledged with a credit, which is written.
SpeechChunk(p, ok) == p \in bridge.speeches /\ bridge' = Written(bridge, ok)

\* speech.done, speech.error or a reader that went away.
SpeechSettles(p) ==
  p \in bridge.speeches /\ bridge' = [bridge EXCEPT !.speeches = @ \ {p}]

\* The caller's signal cancels it, which the service is told.
SpeechCancelled(p, ok) ==
  /\ p \in bridge.speeches
  /\ LET told == Written(bridge, ok) IN bridge' = [told EXCEPT !.speeches = @ \ {p}]

Authorize(ok) ==
  /\ bridge.link = "ready" /\ ~bridge.command
  /\ bridge' = Written([bridge EXCEPT !.command = TRUE], ok)

\* The answer or the timeout.
CommandSettles == bridge.command /\ bridge' = [bridge EXCEPT !.command = FALSE]

Service ==
  \/ ServiceIsReady \/ LinkIsLost \/ CommandSettles
  \/ \E ok \in BOOLEAN : Authorize(ok)
  \/ \E g \in Generations : StreamCloses(g) \/ \E ok \in BOOLEAN : StreamOpens(g, ok)
  \/ \E p \in Speeches :
       \/ SpeechSettles(p)
       \/ \E ok \in BOOLEAN : Synthesize(p, ok) \/ SpeechChunk(p, ok) \/ SpeechCancelled(p, ok)

-----------------------------------------------------------------------------
(* The service hears a stream as one voice: the frames forwarded under one  *)
(* source are of one stretch of one member, and so is the utterance that a  *)
(* decision about the stream is handed out with.                            *)
StreamIsOneVoice ==
  \A g \in DOMAIN bridge.sources :
    /\ Cardinality(bridge.sources[g].audio) <= 1
    /\ bridge.sources[g].utterance \subseteq bridge.sources[g].audio

(* When the bridge is gone nobody waits for it: no synthesis and no command *)
(* is left without an answer, whichever write found the socket gone.        *)
NobodyWaitsForClosedBridge ==
  bridge.link = "closed" =>
    bridge.speeches = {} /\ ~bridge.command
=============================================================================
