--------------------------- MODULE SocketLinkProofs ---------------------------
(***************************************************************************)
(* Proofs about the two ends of the WebSocket link, for every number of     *)
(* sockets, callers and retries, whatever the network between them does.   *)
(***************************************************************************)
EXTENDS SocketLink, TLAPS

-----------------------------------------------------------------------------
(* The inductive invariants of the two ends.                               *)

\* The connection is the open socket whose epoch is current; a socket the client
\* closes is never current; what runs on a connection ends with it.
Connected ==
  /\ connection # None => current = connection /\ end[connection] = "open"
  /\ NoLeakedSocket
  /\ current # None => end[current] # "closing"
  /\ prep # "none" \/ heartbeat # "off" => connection # None

\* A retry is scheduled only when the attempt before it is through, so that the
\* handle names the one timer there is.
Retrying ==
  /\ timers = (IF task = None THEN {} ELSE {task})
  /\ timers # {} => connection = None /\ (current = None \/ end[current] = "unused")

\* close() leaves nothing that could reconnect.
ByHand ==
  manuallyClosed => timers = {} /\ state = "closed" /\ current = None /\ connection = None

\* How far the handshake of the connection is.
Prepared ==
  /\ prep = "announce" => "authenticated" \in heard
  /\ state = "ready" => connection # None /\ {"authenticated", "announced"} \subseteq heard

ClientInv == ClientTypeOK /\ Connected /\ Retrying /\ ByHand /\ Prepared

\* An older socket that is still there was retired when it was replaced; the newest
\* is not, and its peer is the adapter's entry as long as it is there.
ServerInv ==
  /\ ServerTypeOK /\ NewestSocketWins
  /\ \A s \in Sockets : serverEnd[s] \in {"open", "closing"} =>
       IF s = newest THEN s \notin retired /\ entry = s ELSE s \in retired
  /\ registered # None => serverEnd[registered] \in {"open", "closing"}

IInv == ClientInv /\ ServerInv /\ mute \subseteq Sockets

-----------------------------------------------------------------------------
(* The client.                                                             *)

\* Settling promises frees callers and nothing else.
LEMMA Answers ==
  ASSUME ClientTypeOK, NEW s, NEW st, Answer(s, st)
  PROVE  connectTask' \in Sockets \cup {None} /\ callers' \in [Callers -> {"free", "onTask", "onStatus"}]
BY DEF ClientTypeOK, Answer

\* A retry takes one timer and one attempt; without it the client gives up.
LEMMA Schedules ==
  ASSUME ClientTypeOK, NEW s, NEW retryable, ScheduleReconnect(s, retryable)
  PROVE  /\ state' \in {"reconnecting", "failed"} /\ attempt' \in 0..MaxAttempts
         /\ connectTask' \in Sockets \cup {None} /\ callers' \in [Callers -> {"free", "onTask", "onStatus"}]
         /\ \/ \E t \in Timers : timers' = timers \cup {t} /\ task' = t
            \/ UNCHANGED <<timers, task>>
<1>1. CASE /\ retryable /\ attempt < MaxAttempts
           /\ state' = "reconnecting" /\ attempt' = attempt + 1 /\ Answer(s, "reconnecting")
           /\ \E t \in Timers \ timers : timers' = timers \cup {t} /\ task' = t
  BY <1>1, Answers, ClientAssumption DEF ClientTypeOK
<1>2. CASE state' = "failed" /\ Answer(s, "failed") /\ UNCHANGED <<attempt, timers, task>>
  BY <1>2, Answers DEF ClientTypeOK
<1> QED BY <1>1, <1>2 DEF ScheduleReconnect

\* However a live connection ends, by the time its retry is scheduled there is no
\* other timer.
LEMMA LoseKeeps ==
  ASSUME ClientInv, connection # None, NEW retryable, Lose(retryable),
         end' \in [Sockets -> {"unused", "dialing", "open", "closing"}], end'[connection] # "open",
         \A s \in Sockets : end'[s] = "open" => end[s] = "open"
  PROVE  ClientInv'
<1>1. ClientTypeOK /\ connection \in Sockets /\ timers = {} /\ task = None /\ manuallyClosed = FALSE
  BY DEF ClientInv, ClientTypeOK, Retrying, ByHand
<1>2. /\ current' = None /\ heartbeat' = "off" /\ prep' = "none" /\ connection' = None
      /\ heard' = {} /\ manuallyClosed' = manuallyClosed
  BY DEF Lose
<1>3. /\ state' \in {"reconnecting", "failed"} /\ attempt' \in 0..MaxAttempts
      /\ connectTask' \in Sockets \cup {None} /\ callers' \in [Callers -> {"free", "onTask", "onStatus"}]
      /\ \/ \E t \in Timers : timers' = timers \cup {t} /\ task' = t
         \/ UNCHANGED <<timers, task>>
  BY <1>1, Schedules DEF Lose
<1>4. ClientTypeOK'
  BY <1>1, <1>2, <1>3 DEF ClientTypeOK
<1>5. Connected'
  BY <1>2 DEF ClientInv, Connected, NoLeakedSocket
<1>6. Retrying'
  BY <1>1, <1>2, <1>3, ClientAssumption DEF Retrying
<1>7. ByHand' /\ Prepared'
  BY <1>1, <1>2, <1>3 DEF ByHand, Prepared
<1> QED BY <1>4, <1>5, <1>6, <1>7 DEF ClientInv

\* A dial closes the connection it replaces and takes the timer that led to it.
LEMMA DialKeeps ==
  ASSUME ClientInv, NEW s \in Sockets, NEW automatic \in BOOLEAN, Dial(s, automatic), timers' = {},
         connectTask' \in Sockets \cup {None}, callers' \in [Callers -> {"free", "onTask", "onStatus"}]
  PROVE  ClientInv'
<1>1. ClientTypeOK /\ Connected
  BY DEF ClientInv
<1>2. /\ end[s] = "unused" /\ manuallyClosed' = FALSE /\ current' = s /\ heartbeat' = "off" /\ prep' = "none"
      /\ end' = [x \in Sockets |-> IF x = s THEN "dialing" ELSE IF x = connection THEN "closing" ELSE end[x]]
      /\ connection' = None /\ task' = None /\ state' \in {"reconnecting", "connecting"}
      /\ heard' = {} /\ attempt' = attempt
  BY DEF Dial
<1>3. ClientTypeOK'
  BY <1>1, <1>2 DEF ClientTypeOK
<1>4. Connected'
  BY <1>1, <1>2, SocketsAssumption DEF Connected, NoLeakedSocket
<1>5. Retrying' /\ ByHand' /\ Prepared'
  BY <1>2 DEF Retrying, ByHand, Prepared
<1> QED BY <1>3, <1>4, <1>5 DEF ClientInv

LEMMA ConnectKeeps == ASSUME ClientInv, NEW c \in Callers, NEW s \in Sockets, Connect(c, s) PROVE ClientInv'
<1>1. timers' = {}
  BY DEF Connect, Cancelled, ClientInv, Retrying
<1>2. connectTask' \in Sockets \cup {None} /\ callers' \in [Callers -> {"free", "onTask", "onStatus"}]
  BY DEF Connect, ClientInv, ClientTypeOK
<1> QED BY <1>1, <1>2, DialKeeps DEF Connect

LEMMA ReconnectDueKeeps == ASSUME ClientInv, NEW t \in Timers, NEW s \in Sockets, ReconnectDue(t, s) PROVE ClientInv'
<1>1. timers' = {}
  BY DEF ReconnectDue, Cancelled, ClientInv, Retrying
<1>2. connectTask' \in Sockets \cup {None} /\ callers' \in [Callers -> {"free", "onTask", "onStatus"}]
  BY DEF ReconnectDue, ClientInv, ClientTypeOK
<1> QED BY <1>1, <1>2, DialKeeps DEF ReconnectDue

\* Callers who come and go change nothing of the connection.
LEMMA WaitsKeep == ASSUME ClientInv, NEW c \in Callers, Join(c) \/ LeaveWait(c) PROVE ClientInv'
<1>1. /\ UNCHANGED <<state, connection, current, manuallyClosed, attempt, timers, task, prep, heartbeat, end,
                     connectTask, heard>>
      /\ callers' \in [Callers -> {"free", "onTask", "onStatus"}]
  BY DEF Join, LeaveWait, ClientInv, ClientTypeOK
<1> QED BY <1>1 DEF ClientInv, ClientTypeOK, Connected, NoLeakedSocket, Retrying, ByHand, Prepared

LEMMA CloseKeeps == ASSUME ClientInv, Close PROVE ClientInv'
<1>1. ClientTypeOK /\ Connected
  BY DEF ClientInv
<1>2. /\ manuallyClosed' = TRUE /\ current' = None /\ heartbeat' = "off" /\ prep' = "none"
      /\ timers' = {} /\ task' = None /\ connection' = None /\ state' = "closed" /\ heard' = {} /\ attempt' = attempt
      /\ end' = IF connection = None THEN end ELSE [end EXCEPT ![connection] = "closing"]
  BY DEF Close, Cancelled, ClientInv, Retrying
<1>3. connectTask' \in Sockets \cup {None} /\ callers' \in [Callers -> {"free", "onTask", "onStatus"}]
  BY <1>1, Answers DEF Close
<1>4. ClientTypeOK'
  BY <1>1, <1>2, <1>3 DEF ClientTypeOK
<1>5. Connected'
  BY <1>1, <1>2 DEF Connected, NoLeakedSocket, ClientTypeOK
<1>6. Retrying' /\ ByHand' /\ Prepared'
  BY <1>2 DEF Retrying, ByHand, Prepared
<1> QED BY <1>4, <1>5, <1>6 DEF ClientInv

\* A dial that was superseded closes its own socket; it may take the handshake
\* that is under way with it, but never leaves a second open socket.
LEMMA OnOpenKeeps == ASSUME ClientInv, NEW s \in Sockets, OnOpen(s) PROVE ClientInv'
<1>1. ClientTypeOK /\ Connected /\ Retrying /\ ByHand /\ Prepared /\ end[s] = "dialing"
  BY DEF ClientInv, OnOpen
<1>2. CASE current # s /\ prep = "none"
  <2>1. /\ end' = [end EXCEPT ![s] = "closing"] /\ Answer(s, state)
        /\ UNCHANGED <<state, connection, current, manuallyClosed, attempt, timers, task, prep, heartbeat, heard>>
    BY <1>2 DEF OnOpen
  <2>2. ClientTypeOK'
    BY <1>1, <2>1, Answers DEF ClientTypeOK
  <2>3. Connected'
    BY <1>1, <1>2, <2>1 DEF Connected, NoLeakedSocket, ClientTypeOK
  <2>4. Retrying' /\ ByHand' /\ Prepared'
    BY <1>1, <1>2, <2>1 DEF Retrying, ByHand, Prepared, ClientTypeOK
  <2> QED BY <2>2, <2>3, <2>4 DEF ClientInv
<1>3. CASE current # s /\ prep # "none"
  <2>1. end' = [end EXCEPT ![s] = "closing", ![connection] = "closing"] /\ Lose(TRUE)
    BY <1>3 DEF OnOpen
  <2>2. connection # None
    BY <1>1, <1>3 DEF Connected
  <2>3. /\ end' \in [Sockets -> {"unused", "dialing", "open", "closing"}] /\ end'[connection] # "open"
        /\ \A x \in Sockets : end'[x] = "open" => end[x] = "open"
    BY <1>1, <2>1, <2>2 DEF ClientTypeOK
  <2> QED BY <2>1, <2>2, <2>3, LoseKeeps
<1>4. CASE current = s
  <2>1. /\ end' = [end EXCEPT ![s] = "open"] /\ connection' = s /\ state' = "preparing" /\ prep' = "auth"
        /\ UNCHANGED <<current, manuallyClosed, attempt, timers, task, heartbeat, connectTask, callers, heard>>
    BY <1>1, <1>4 DEF OnOpen
  <2>2. ClientTypeOK'
    BY <1>1, <2>1 DEF ClientTypeOK
  <2>3. Connected'
    BY <1>1, <1>4, <2>1, SocketsAssumption DEF Connected, NoLeakedSocket, ClientTypeOK
  <2>4. Retrying' /\ ByHand' /\ Prepared'
    BY <1>1, <1>4, <2>1, SocketsAssumption DEF Retrying, ByHand, Prepared, ClientTypeOK
  <2> QED BY <2>2, <2>3, <2>4 DEF ClientInv
<1> QED BY <1>2, <1>3, <1>4

LEMMA OnDialFailureKeeps == ASSUME ClientInv, NEW s \in Sockets, OnDialFailure(s) PROVE ClientInv'
<1>1. ClientTypeOK /\ Connected /\ Retrying /\ ByHand /\ Prepared
  BY DEF ClientInv
<1>2. /\ end[s] = "dialing" /\ end' = [end EXCEPT ![s] = "unused"]
      /\ UNCHANGED <<connection, current, manuallyClosed, prep, heard>>
  BY DEF OnDialFailure
<1>3. connection # s
  BY <1>1, <1>2, SocketsAssumption DEF Connected
<1>4. CASE current = s
  <2>1. heartbeat' = "off" /\ ScheduleReconnect(s, TRUE)
    BY <1>4 DEF OnDialFailure
  <2>2. /\ state' \in {"reconnecting", "failed"} /\ attempt' \in 0..MaxAttempts
        /\ connectTask' \in Sockets \cup {None} /\ callers' \in [Callers -> {"free", "onTask", "onStatus"}]
        /\ \/ \E t \in Timers : timers' = timers \cup {t} /\ task' = t
           \/ UNCHANGED <<timers, task>>
    BY <1>1, <2>1, Schedules
  <2>3. connection = None /\ timers = {} /\ task = None /\ manuallyClosed = FALSE /\ end'[s] = "unused"
    BY <1>1, <1>2, <1>4, SocketsAssumption DEF Connected, Retrying, ByHand, ClientTypeOK
  <2>4. ClientTypeOK'
    BY <1>1, <1>2, <2>1, <2>2 DEF ClientTypeOK
  <2>5. Connected'
    BY <1>1, <1>2, <1>3, <2>1, <2>3 DEF Connected, NoLeakedSocket, ClientTypeOK
  <2>6. Retrying'
    BY <1>2, <1>4, <2>2, <2>3, ClientAssumption DEF Retrying
  <2>7. ByHand' /\ Prepared'
    BY <1>1, <1>2, <2>2, <2>3 DEF ByHand, Prepared
  <2> QED BY <2>4, <2>5, <2>6, <2>7 DEF ClientInv
<1>5. CASE current # s
  <2>1. Answer(s, state) /\ UNCHANGED <<state, attempt, timers, task, heartbeat>>
    BY <1>5 DEF OnDialFailure
  <2>2. ClientTypeOK'
    BY <1>1, <1>2, <2>1, Answers DEF ClientTypeOK
  <2>3. Connected'
    BY <1>1, <1>2, <1>3, <2>1 DEF Connected, NoLeakedSocket, ClientTypeOK
  <2>4. Retrying' /\ ByHand' /\ Prepared'
    BY <1>1, <1>2, <1>5, <2>1 DEF Retrying, ByHand, Prepared, ClientTypeOK
  <2> QED BY <2>2, <2>3, <2>4 DEF ClientInv
<1> QED BY <1>4, <1>5

LEMMA OnCloseKeeps == ASSUME ClientInv, NEW s \in Sockets, OnClose(s) PROVE ClientInv'
<1>1. ClientTypeOK /\ Connected /\ Retrying /\ ByHand /\ Prepared
  BY DEF ClientInv
<1>2. end[s] \in {"open", "closing"} /\ end' = [end EXCEPT ![s] = "unused"]
  BY DEF OnClose
<1>3. CASE current = s
  <2>1. Lose(TRUE) /\ connection = s
    BY <1>1, <1>2, <1>3, SocketsAssumption DEF OnClose, Connected, NoLeakedSocket
  <2> QED BY <1>1, <1>2, <2>1, LoseKeeps, SocketsAssumption DEF ClientTypeOK
<1>4. CASE current # s
  <2>1. UNCHANGED <<state, connection, current, manuallyClosed, attempt, timers, task, prep, heartbeat,
                    connectTask, callers, heard>>
    BY <1>4 DEF OnClose
  <2>2. ClientTypeOK'
    BY <1>1, <1>2, <2>1 DEF ClientTypeOK
  <2>3. Connected'
    BY <1>1, <1>2, <1>4, <2>1 DEF Connected, NoLeakedSocket, ClientTypeOK
  <2>4. Retrying' /\ ByHand' /\ Prepared'
    BY <1>1, <1>2, <1>4, <2>1 DEF Retrying, ByHand, Prepared, ClientTypeOK
  <2> QED BY <2>2, <2>3, <2>4 DEF ClientInv
<1> QED BY <1>3, <1>4

\* The connection is given up: by an error, by a handshake that fails or runs
\* out of time, or by a heartbeat nobody answers.
LEMMA GivesUpKeeps ==
  ASSUME ClientInv, connection # None, NEW retryable, end' = [end EXCEPT ![connection] = "closing"], Lose(retryable)
  PROVE  ClientInv'
BY LoseKeeps DEF ClientInv, ClientTypeOK

LEMMA OnErrorKeeps == ASSUME ClientInv, NEW s \in Sockets, OnError(s) PROVE ClientInv'
BY GivesUpKeeps, SocketsAssumption DEF OnError, ClientInv, Connected, NoLeakedSocket

\* A message counts only on the connection it came in on.
LEMMA OnMessageKeeps == ASSUME ClientInv, NEW s \in Sockets, NEW m \in Messages, OnMessage(s, m) PROVE ClientInv'
<1>1. ClientTypeOK /\ Connected /\ Retrying /\ ByHand /\ Prepared
  BY DEF ClientInv
<1>2. end[s] \in {"open", "closing"}
  BY DEF OnMessage
<1>3. current = s => connection = s
  BY <1>1, <1>2, SocketsAssumption DEF Connected, NoLeakedSocket
<1>4. CASE current = s /\ HandshakeFails(s, m = "error")
  BY <1>3, <1>4, GivesUpKeeps, SocketsAssumption DEF HandshakeFails
<1>5. CASE heard' = Heard(s, m) /\ current = s /\ prep = "announce" /\ m = "announced" /\ Ready(s)
  <2>1. /\ state' = "ready" /\ prep' = "none" /\ attempt' = 0 /\ heartbeat' = "interval" /\ Answer(s, "ready")
        /\ UNCHANGED <<connection, current, manuallyClosed, timers, task, end>>
        /\ heard' = heard \cup {"announced"} /\ connection # None
    BY <1>3, <1>5, SocketsAssumption DEF Ready, Heard
  <2>2. ClientTypeOK'
    BY <1>1, <2>1, Answers, ClientAssumption DEF ClientTypeOK
  <2>3. Connected' /\ Retrying' /\ ByHand' /\ Prepared'
    BY <1>1, <1>5, <2>1 DEF Connected, NoLeakedSocket, Retrying, ByHand, Prepared
  <2> QED BY <2>2, <2>3 DEF ClientInv
<1>6. CASE /\ heard' = Heard(s, m) /\ current = s /\ prep = "auth" /\ m = "authenticated" /\ prep' = "announce"
           /\ UNCHANGED <<state, connection, current, manuallyClosed, attempt, timers, task, heartbeat, end,
                          connectTask, callers>>
  <2>1. heard' = heard \cup {"authenticated"}
    BY <1>3, <1>6 DEF Heard
  <2>2. ClientTypeOK'
    BY <1>1, <1>6, <2>1 DEF ClientTypeOK
  <2>3. Connected' /\ Retrying' /\ ByHand' /\ Prepared'
    BY <1>1, <1>6, <2>1 DEF Connected, NoLeakedSocket, Retrying, ByHand, Prepared
  <2> QED BY <2>2, <2>3 DEF ClientInv
<1>7. CASE /\ heard' = Heard(s, m) /\ heartbeat' \in IF current = s THEN {"interval", "off"} ELSE {heartbeat}
           /\ UNCHANGED <<state, connection, current, manuallyClosed, attempt, timers, task, prep, end,
                          connectTask, callers>>
  <2>1. heard \subseteq heard' /\ heard' \subseteq {"authenticated", "announced"}
    BY <1>1, <1>7 DEF Heard, ClientTypeOK
  <2>2. ClientTypeOK'
    BY <1>1, <1>7, <2>1 DEF ClientTypeOK
  <2>3. Connected'
    BY <1>1, <1>3, <1>7, SocketsAssumption DEF Connected, NoLeakedSocket
  <2>4. Retrying' /\ ByHand' /\ Prepared'
    BY <1>1, <1>7, <2>1 DEF Retrying, ByHand, Prepared
  <2> QED BY <2>2, <2>3, <2>4 DEF ClientInv
<1> QED BY <1>4, <1>5, <1>6, <1>7 DEF OnMessage

LEMMA ClientTimerKeeps ==
  ASSUME ClientInv, HandshakeTimesOut \/ HeartbeatDue \/ HeartbeatTimesOut PROVE ClientInv'
<1>1. CASE HandshakeTimesOut
  BY <1>1, GivesUpKeeps DEF HandshakeTimesOut, HandshakeFails, ClientInv, Connected
<1>2. CASE HeartbeatTimesOut
  BY <1>2, GivesUpKeeps DEF HeartbeatTimesOut, ClientInv, Connected
<1>3. CASE HeartbeatDue
  BY <1>3 DEF HeartbeatDue, ClientInv, ClientTypeOK, Connected, NoLeakedSocket, Retrying, ByHand, Prepared
<1> QED BY <1>1, <1>2, <1>3

-----------------------------------------------------------------------------
(* The server.                                                             *)

\* Who opens replaces, and retires, the socket the id had.
LEMMA HookOpenKeeps == ASSUME ServerInv, NEW s \in Sockets, HookOpen(s) PROVE ServerInv'
<1>1. /\ serverEnd[s] = "none" /\ serverEnd' = [serverEnd EXCEPT ![s] = "open"]
      /\ registered' = s /\ silent' = FALSE /\ entry' = s /\ newest' = s
      /\ retired' = (retired \ {s}) \cup ({entry} \ {None, s})
  BY DEF HookOpen, Accept, Register
<1>2. ServerTypeOK'
  BY <1>1 DEF ServerInv, ServerTypeOK
<1>3. ASSUME NEW x \in Sockets, serverEnd'[x] \in {"open", "closing"}
      PROVE  IF x = s THEN x \notin retired' ELSE x \in retired'
  <2>1. CASE x = s
    BY <1>1, <2>1
  <2>2. CASE x # s
    <3>1. serverEnd[x] \in {"open", "closing"}
      BY <1>1, <1>3, <2>2 DEF ServerInv, ServerTypeOK
    <3> QED BY <1>1, <2>2, <3>1, SocketsAssumption DEF ServerInv
  <2> QED BY <2>1, <2>2
<1>4. serverEnd'[s] = "open"
  BY <1>1 DEF ServerInv, ServerTypeOK
<1> QED BY <1>1, <1>2, <1>3, <1>4 DEF ServerInv, NewestSocketWins

\* Only the newest socket can be an orphan whose message registers it again.
LEMMA HookMessageKeeps == ASSUME ServerInv, NEW s \in Sockets, HookMessage(s) PROVE ServerInv'
<1>1. serverEnd[s] \in {"open", "closing"} /\ UNCHANGED <<serverEnd, newest, retired>>
  BY DEF HookMessage
<1>2. CASE UNCHANGED <<registered, entry>> /\ silent' \in {silent, FALSE}
  BY <1>1, <1>2 DEF ServerInv, ServerTypeOK, NewestSocketWins
<1>3. CASE OfOrphan(s) /\ Register(s) /\ entry' = s
  <2>1. s = newest /\ entry = s
    BY <1>1, <1>3 DEF ServerInv, OfOrphan
  <2> QED BY <1>1, <1>3, <2>1 DEF ServerInv, ServerTypeOK, NewestSocketWins, Register
<1> QED BY <1>2, <1>3 DEF HookMessage, Seen

LEMMA HookCloseKeeps == ASSUME ServerInv, NEW s \in Sockets, HookClose(s) PROVE ServerInv'
<1>1. /\ serverEnd[s] \in {"open", "closing"} /\ serverEnd' = [serverEnd EXCEPT ![s] = "closed"]
      /\ UNCHANGED <<retired, newest>>
      /\ IF s \notin retired /\ entry = s THEN entry' = None ELSE entry' = entry
      /\ IF s \notin retired /\ entry = s /\ registered = s
         THEN registered' = None /\ silent' = FALSE ELSE UNCHANGED <<registered, silent>>
  BY DEF HookClose, Unregister
<1>2. /\ serverEnd'[s] = "closed" /\ \A x \in Sockets : x # s => serverEnd'[x] = serverEnd[x]
      /\ serverEnd' \in [Sockets -> {"none", "open", "closing", "closed"}]
  BY <1>1 DEF ServerInv, ServerTypeOK
<1>3. CASE s = newest
  <2>1. s \notin retired /\ entry = s /\ entry' = None /\ registered' = None /\ silent' \in BOOLEAN
    BY <1>1, <1>3, SocketsAssumption DEF ServerInv, ServerTypeOK, NewestSocketWins
  <2> QED BY <1>1, <1>2, <1>3, <2>1 DEF ServerInv, ServerTypeOK, NewestSocketWins
<1>4. CASE s # newest
  <2>1. s \in retired /\ UNCHANGED <<entry, registered, silent>>
    BY <1>1, <1>4 DEF ServerInv
  <2>2. registered # s
    BY <1>4, SocketsAssumption DEF ServerInv, NewestSocketWins
  <2> QED BY <1>1, <1>2, <1>4, <2>1, <2>2 DEF ServerInv, ServerTypeOK, NewestSocketWins
<1> QED BY <1>3, <1>4

LEMMA ServerCallsKeep == ASSUME ServerInv, ClosePeer \/ CheckLiveness \/ TimePasses PROVE ServerInv'
<1>1. CASE ClosePeer
  <2>1. /\ registered # None /\ registered' = None /\ silent' = FALSE /\ UNCHANGED <<entry, retired, newest>>
        /\ serverEnd' = IF serverEnd[registered] = "open"
                        THEN [serverEnd EXCEPT ![registered] = "closing"] ELSE serverEnd
    BY <1>1 DEF ClosePeer, Unregister
  <2>2. /\ serverEnd' \in [Sockets -> {"none", "open", "closing", "closed"}]
        /\ \A s \in Sockets : serverEnd'[s] \in {"open", "closing"} => serverEnd[s] \in {"open", "closing"}
    BY <2>1 DEF ServerInv, ServerTypeOK
  <2> QED BY <2>1, <2>2 DEF ServerInv, ServerTypeOK, NewestSocketWins
<1>2. CASE TimePasses
  BY <1>2 DEF TimePasses, ServerInv, ServerTypeOK, NewestSocketWins
<1> QED BY <1>1, <1>2 DEF CheckLiveness

\* A socket that both ends are through with starts anew.
LEMMA RecycleKeeps == ASSUME ServerInv, mute \subseteq Sockets, NEW s \in Sockets, Recycle(s)
                      PROVE  ServerInv' /\ mute' \subseteq Sockets
<1>1. /\ serverEnd[s] \in {"none", "closed"} /\ serverEnd' = [serverEnd EXCEPT ![s] = "none"]
      /\ retired' = retired \ {s} /\ mute' = mute \ {s} /\ s \notin {registered, entry}
      /\ newest' = (IF newest = s THEN None ELSE newest) /\ UNCHANGED <<registered, entry, silent>>
  BY DEF Recycle
<1>2. /\ serverEnd'[s] = "none" /\ \A x \in Sockets : x # s => serverEnd'[x] = serverEnd[x]
      /\ serverEnd' \in [Sockets -> {"none", "open", "closing", "closed"}]
  BY <1>1 DEF ServerInv, ServerTypeOK
<1>3. ServerTypeOK'
  BY <1>1, <1>2 DEF ServerInv, ServerTypeOK
<1>4. NewestSocketWins'
  BY <1>1 DEF ServerInv, NewestSocketWins
<1>5. ASSUME NEW x \in Sockets, serverEnd'[x] \in {"open", "closing"}
      PROVE  IF x = newest' THEN x \notin retired' /\ entry' = x ELSE x \in retired'
  BY <1>1, <1>2, <1>5, SocketsAssumption DEF ServerInv
<1>6. registered' # None => serverEnd'[registered'] \in {"open", "closing"}
  BY <1>1, <1>2 DEF ServerInv, ServerTypeOK
<1> QED BY <1>1, <1>3, <1>4, <1>5, <1>6 DEF ServerInv

-----------------------------------------------------------------------------
(* The link.                                                               *)

\* Each end keeps its invariant whatever the other does.
LEMMA ClientAlone == ASSUME IInv, ClientInv', UNCHANGED <<serverVars, mute>> PROVE IInv'
BY DEF IInv, serverVars, ServerInv, ServerTypeOK, NewestSocketWins

LEMMA ServerAlone == ASSUME IInv, ServerInv', UNCHANGED <<clientVars, mute>> PROVE IInv'
BY DEF IInv, clientVars, ClientInv, ClientTypeOK, Connected, NoLeakedSocket, Retrying, ByHand, Prepared

LEMMA InitSound == Init => IInv
<1> SUFFICES ASSUME Init PROVE IInv
  OBVIOUS
<1>1. ClientInv
  <2>1. ClientInit
    BY DEF Init
  <2>2. ClientTypeOK
    <3>1. end \in [Sockets -> {"unused", "dialing", "open", "closing"}]
      BY <2>1 DEF ClientInit
    <3>2. callers \in [Callers -> {"free", "onTask", "onStatus"}]
      BY <2>1 DEF ClientInit
    <3>3. attempt \in 0..MaxAttempts
      BY <2>1, ClientAssumption DEF ClientInit
    <3> QED BY <2>1, <3>1, <3>2, <3>3 DEF ClientInit, ClientTypeOK
  <2>3. Connected /\ Retrying /\ ByHand /\ Prepared
    BY <2>1 DEF ClientInit, Connected, NoLeakedSocket, Retrying, ByHand, Prepared
  <2> QED BY <2>2, <2>3 DEF ClientInv
<1>2. ServerInv
  BY DEF Init, ServerInit, ServerInv, ServerTypeOK, NewestSocketWins
<1> QED BY <1>1, <1>2 DEF Init, IInv

\* Every step of the client, of the server and of the network keeps the invariant.
THEOREM StepKeepsIInv == IInv /\ [Next]_vars => IInv'
<1> SUFFICES ASSUME IInv, [Next]_vars PROVE IInv'
  OBVIOUS
<1> USE DEF Quiet
<1>1. ClientInv /\ ServerInv /\ mute \subseteq Sockets
  BY DEF IInv
<1>2. ASSUME NEW c \in Callers, NEW s \in Sockets, Connect(c, s), Recycle(s) PROVE IInv'
  BY <1>1, <1>2, ConnectKeeps, RecycleKeeps DEF IInv
<1>3. ASSUME NEW c \in Callers, Join(c) \/ LeaveWait(c), Quiet PROVE IInv'
  BY <1>1, <1>3, WaitsKeep, ClientAlone
<1>4. CASE Close /\ Quiet
  BY <1>1, <1>4, CloseKeeps, ClientAlone
<1>5. CASE ClientTimer
  BY <1>1, <1>5, ClientTimerKeeps, ClientAlone DEF ClientTimer
<1>6. CASE ServerSide
  BY <1>1, <1>6, ServerCallsKeep, ServerAlone DEF ServerSide
<1>7. ASSUME NEW t \in Timers, Retries(t) PROVE IInv'
  BY <1>1, <1>7, ReconnectDueKeeps, RecycleKeeps DEF Retries, IInv
<1>8. ASSUME NEW s \in Sockets, DialEnds(s) PROVE IInv'
  BY <1>1, <1>8, OnOpenKeeps, OnDialFailureKeeps, ClientAlone DEF DialEnds
<1>9. ASSUME NEW s \in Sockets, GarbledFrame(s) PROVE IInv'
  BY <1>1, <1>9, OnErrorKeeps, ClientAlone DEF GarbledFrame
<1>10. ASSUME NEW s \in Sockets, ClientSeesClose(s) PROVE IInv'
  BY <1>1, <1>10, OnCloseKeeps, ClientAlone DEF ClientSeesClose
<1>11. ASSUME NEW s \in Sockets, ServerAccepts(s) PROVE IInv'
  BY <1>1, <1>11, HookOpenKeeps, ServerAlone DEF ServerAccepts
<1>12. ASSUME NEW s \in Sockets, ServerHears(s) PROVE IInv'
  BY <1>1, <1>12, HookMessageKeeps, ServerAlone DEF ServerHears
<1>13. ASSUME NEW s \in Sockets, ServerSeesClose(s) PROVE IInv'
  BY <1>1, <1>13, HookCloseKeeps, ServerAlone DEF ServerSeesClose
<1>14. ASSUME NEW s \in Sockets, GoesMute(s) PROVE IInv'
  <2>1. mute' \subseteq Sockets /\ UNCHANGED <<clientVars, serverVars>>
    BY <1>1, <1>14 DEF GoesMute
  <2> QED BY <1>1, <2>1 DEF IInv, serverVars, ServerInv, ServerTypeOK, NewestSocketWins,
             clientVars, ClientInv, ClientTypeOK, Connected, NoLeakedSocket, Retrying, ByHand, Prepared
<1>15. ASSUME NEW s \in Sockets, NEW m \in Messages, Says(s, m) PROVE IInv'
  BY <1>1, <1>15, OnMessageKeeps, ClientAlone DEF Says
<1>16. CASE UNCHANGED vars
  BY <1>1, <1>16, ClientAlone, ServerAlone
     DEF vars, clientVars, ClientInv, ClientTypeOK, Connected, NoLeakedSocket, Retrying, ByHand, Prepared
<1> QED BY <1>2, <1>3, <1>4, <1>5, <1>6, <1>7, <1>8, <1>9, <1>10, <1>11, <1>12, <1>13, <1>14, <1>15, <1>16
        DEF Next, Calls

THEOREM Invariance == Spec => []IInv
BY InitSound, StepKeepsIInv, PTL DEF Spec

-----------------------------------------------------------------------------
(* What follows.                                                           *)

\* Both ends keep their types.
THEOREM TypeCorrect == Spec => []TypeOK
<1>1. IInv => TypeOK
  BY DEF IInv, ClientInv, ServerInv, TypeOK
<1> QED BY <1>1, Invariance, PTL

\* A client that was closed by hand dials no more, and no reconnect timer ever
\* escapes the handle that can cancel it.
THEOREM NoReconnectAfterClose == Spec => []ClosedStaysClosed
<1>1. IInv => ClosedStaysClosed
  BY DEF IInv, ClientInv, Retrying, ByHand, ClosedStaysClosed
<1> QED BY <1>1, Invariance, PTL

\* Every socket the client holds open is the connection it would close, however
\* dials are superseded and however late they open.
THEOREM OneOpenSocket == Spec => []NoLeakedSocket
<1>1. IInv => NoLeakedSocket
  BY DEF IInv, ClientInv, Connected
<1> QED BY <1>1, Invariance, PTL

\* An older socket's late messages and closes neither register it again nor remove
\* the newer peer of the same id.
THEOREM TheNewestIsThePeer == Spec => []NewestSocketWins
<1>1. IInv => NewestSocketWins
  BY DEF IInv, ServerInv
<1> QED BY <1>1, Invariance, PTL

\* The client is ready only on a connection whose server has authenticated and
\* announced it, and the server's peer always has a socket.
THEOREM ReadyAndRegistered == Spec => [](ReadyIsPrepared /\ PeerHasSocket)
<1>1. IInv => ReadyIsPrepared /\ PeerHasSocket
  BY DEF IInv, ClientInv, ServerInv, Connected, Prepared, ReadyIsPrepared, PeerHasSocket
<1> QED BY <1>1, Invariance, PTL
=============================================================================
