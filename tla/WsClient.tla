------------------------------ MODULE WsClient ------------------------------
(***************************************************************************)
(* The WebSocket client (packages/better-ws) with the protocol client on   *)
(* top of it (packages/server-sdk), as the Discord adapter configures      *)
(* them: the CrossWS connector, the module handshake, message heartbeats   *)
(* and reconnecting.                                                       *)
(*                                                                         *)
(* Every attempt opens a socket of its own, and the connection epoch of    *)
(* the code is taken with it, so "the epoch is still mine" is "current is  *)
(* my socket".  Sockets are reused when both ends are through with them.   *)
(***************************************************************************)
EXTENDS Naturals, WsSockets

CONSTANTS
  Callers,      \* callers of connect(), ready(), ensureConnected()
  MaxAttempts   \* maxReconnectAttempts

Timers == {1, 2}

ASSUME ClientAssumption == MaxAttempts \in Nat /\ None \notin Timers

VARIABLES
  state,           \* WsState of the transport
  connection,      \* the open connection
  current,         \* whose epoch connectionEpoch is
  manuallyClosed,
  attempt,         \* reconnectAttempt
  timers,          \* reconnect timers that have not fired
  task,            \* reconnectTask: the timer close() and connect() cancel
  prep,            \* the step of the handshake the prepare procedure waits in
  heartbeat,       \* which of the two heartbeat timers is armed
  end,             \* the client's end of every socket
  connectTask,     \* the socket whose connect() promise the protocol client shares
  callers,
  heard            \* ghost: how far the server went in the handshake of the connection

clientVars == <<state, connection, current, manuallyClosed, attempt, timers, task,
                prep, heartbeat, end, connectTask, callers, heard>>

Messages == {"authenticated", "announced", "error", "terminal", "other"}

ClientTypeOK ==
  /\ state \in {"idle", "connecting", "preparing", "ready", "reconnecting", "closed", "failed"}
  /\ connection \in Sockets \cup {None} /\ current \in Sockets \cup {None}
  /\ manuallyClosed \in BOOLEAN /\ attempt \in 0..MaxAttempts
  /\ timers \subseteq Timers /\ task \in Timers \cup {None}
  /\ prep \in {"none", "auth", "announce"} /\ heartbeat \in {"off", "interval", "timeout"}
  /\ end \in [Sockets -> {"unused", "dialing", "open", "closing"}]
  /\ connectTask \in Sockets \cup {None}
  /\ callers \in [Callers -> {"free", "onTask", "onStatus"}]
  /\ heard \subseteq {"authenticated", "announced"}

ClientInit ==
  /\ state = "idle" /\ connection = None /\ current = None /\ manuallyClosed = FALSE
  /\ attempt = 0 /\ timers = {} /\ task = None /\ prep = "none" /\ heartbeat = "off"
  /\ end = [s \in Sockets |-> "unused"] /\ connectTask = None
  /\ callers = [c \in Callers |-> "free"] /\ heard = {}

-----------------------------------------------------------------------------
(* Promises.  The transport's connect() promise of socket s settles, and   *)
(* the transport enters state st: callers that share the promise and        *)
(* callers that wait for a status are answered.                             *)

\* A bug to compare with: who waits for a status hears only of success.
AnswerReadyOnly(s, st) ==
  /\ connectTask' = IF connectTask = s THEN None ELSE connectTask
  /\ callers' = [c \in Callers |->
       IF \/ callers[c] = "onTask" /\ s = connectTask /\ s # None
          \/ callers[c] = "onStatus" /\ st = "ready"
       THEN "free" ELSE callers[c]]

Answer(s, st) ==
  /\ connectTask' = IF connectTask = s THEN None ELSE connectTask
  /\ callers' = [c \in Callers |->
       IF \/ callers[c] = "onTask" /\ s = connectTask /\ s # None
          \/ callers[c] = "onStatus" /\ st \in {"ready", "failed", "closed"}
       THEN "free" ELSE callers[c]]

\* reconnectTask?.cancel(): only the timer the handle names can be cancelled.
Cancelled == timers \ {task}

\* A retry is allowed until the limit, and never after the server has
\* refused the credentials; then the client gives up.
ScheduleReconnect(s, retryable) ==
  \/ /\ retryable /\ attempt < MaxAttempts
     /\ state' = "reconnecting" /\ attempt' = attempt + 1 /\ Answer(s, "reconnecting")
     /\ \E t \in Timers \ timers : timers' = timers \cup {t} /\ task' = t
  \/ /\ ~(retryable /\ attempt < MaxAttempts)
     /\ state' = "failed" /\ Answer(s, "failed")
     /\ UNCHANGED <<attempt, timers, task>>

-----------------------------------------------------------------------------
(* Calls.                                                                  *)

\* connectInternal up to its first await.  The socket is dialled by the
\* connector within the same turn.
Dial(s, automatic) ==
  /\ end[s] = "unused" /\ s \notin {current, connectTask}
  /\ manuallyClosed' = FALSE /\ current' = s /\ heartbeat' = "off" /\ prep' = "none"
  /\ end' = [x \in Sockets |->
       IF x = s THEN "dialing" ELSE IF x = connection THEN "closing" ELSE end[x]]
  /\ connection' = None
  /\ task' = None
  /\ state' = IF automatic THEN "reconnecting" ELSE "connecting"
  /\ heard' = {} /\ UNCHANGED attempt

\* A caller that finds a shared promise joins it; one that finds the
\* transport on its way waits for the status instead.
Join(c) ==
  /\ callers[c] = "free" /\ state # "ready"
  /\ \/ /\ connectTask # None /\ callers' = [callers EXCEPT ![c] = "onTask"]
     \/ /\ connectTask = None /\ state \in {"reconnecting", "preparing"}
        /\ callers' = [callers EXCEPT ![c] = "onStatus"]
  /\ UNCHANGED <<state, connection, current, manuallyClosed, attempt, timers, task,
                 prep, heartbeat, end, connectTask, heard>>

Connect(c, s) ==
  /\ callers[c] = "free" /\ state \notin {"ready", "reconnecting", "preparing"}
  /\ connectTask = None
  /\ Dial(s, FALSE) /\ timers' = Cancelled
  /\ connectTask' = s /\ callers' = [callers EXCEPT ![c] = "onTask"]

\* A local timeout or abort ends the caller's wait and nothing else.
LeaveWait(c) ==
  /\ callers[c] # "free" /\ callers' = [callers EXCEPT ![c] = "free"]
  /\ UNCHANGED <<state, connection, current, manuallyClosed, attempt, timers, task,
                 prep, heartbeat, end, connectTask, heard>>

\* A bug to compare with: close() leaves the reconnect timer alone.
CloseWithoutCancel ==
  /\ manuallyClosed' = TRUE /\ current' = None /\ heartbeat' = "off" /\ prep' = "none"
  /\ end' = IF connection = None THEN end ELSE [end EXCEPT ![connection] = "closing"]
  /\ connection' = None /\ state' = "closed"
  /\ Answer(connection, "closed") /\ heard' = {} /\ UNCHANGED <<attempt, timers, task>>

\* close(): a prepare procedure is aborted, so its connect() returns; a
\* connector that is still dialling is left to find out by itself.
Close ==
  /\ manuallyClosed' = TRUE /\ current' = None /\ heartbeat' = "off" /\ prep' = "none"
  /\ timers' = Cancelled /\ task' = None
  /\ end' = IF connection = None THEN end ELSE [end EXCEPT ![connection] = "closing"]
  /\ connection' = None /\ state' = "closed"
  /\ Answer(connection, "closed") /\ heard' = {} /\ UNCHANGED attempt

ReconnectDue(t, s) ==
  /\ t \in timers /\ timers' = Cancelled \ {t} /\ Dial(s, TRUE)
  /\ UNCHANGED <<connectTask, callers>>

-----------------------------------------------------------------------------
(* Events of the socket.                                                   *)

\* A bug to compare with: a connection that opens late replaces the state.
OpenWhateverCame(s) ==
  /\ end[s] = "dialing"
  /\ end' = [end EXCEPT ![s] = "open"] /\ connection' = s
  /\ state' = "preparing" /\ prep' = "auth"
  /\ UNCHANGED <<current, manuallyClosed, attempt, timers, task, heartbeat, connectTask, callers, heard>>

\* The tail shared by every way a live connection ends: the epoch moves on,
\* heartbeat and handshake stop, and a retry is considered.
Lose(retryable) ==
  /\ current' = None /\ heartbeat' = "off" /\ prep' = "none" /\ connection' = None
  /\ ScheduleReconnect(connection, retryable) /\ heard' = {}
  /\ UNCHANGED manuallyClosed

\* The connector resolves.  A connection that was superseded or closed
\* meanwhile closes itself; it also aborts the handshake that is under way,
\* which can be the one of the connection that superseded it.  The current
\* one starts the handshake.
OnOpen(s) ==
  /\ end[s] = "dialing"
  /\ \/ /\ current # s /\ prep = "none"
        /\ end' = [end EXCEPT ![s] = "closing"]
        /\ Answer(s, state)
        /\ UNCHANGED <<state, connection, current, manuallyClosed, attempt, timers, task,
                       prep, heartbeat, heard>>
     \/ /\ current # s /\ prep # "none"
        /\ end' = [end EXCEPT ![s] = "closing", ![connection] = "closing"]
        /\ Lose(TRUE)
     \/ /\ current = s
        /\ end' = [end EXCEPT ![s] = "open"] /\ connection' = s
        /\ state' = "preparing" /\ prep' = "auth"
        /\ UNCHANGED <<current, manuallyClosed, attempt, timers, task, heartbeat,
                       connectTask, callers, heard>>

\* An error or a close before the socket was open rejects the connector.
OnDialFailure(s) ==
  /\ end[s] = "dialing" /\ end' = [end EXCEPT ![s] = "unused"]
  /\ \/ current = s /\ heartbeat' = "off" /\ ScheduleReconnect(s, TRUE)
     \/ /\ current # s /\ Answer(s, state)
        /\ UNCHANGED <<state, attempt, timers, task, heartbeat>>
  /\ UNCHANGED <<connection, current, manuallyClosed, prep, heard>>

OnClose(s) ==
  /\ end[s] \in {"open", "closing"} /\ end' = [end EXCEPT ![s] = "unused"]
  /\ \/ current = s /\ Lose(TRUE)
     \/ /\ current # s
        /\ UNCHANGED <<state, connection, current, manuallyClosed, attempt, timers, task,
                       prep, heartbeat, connectTask, callers, heard>>

\* A transport error, or a frame that cannot be parsed, closes the connection.
OnError(s) ==
  /\ end[s] = "open" /\ current = s
  /\ end' = [end EXCEPT ![s] = "closing"] /\ Lose(TRUE)

HandshakeFails(s, retryable) ==
  /\ end' = [end EXCEPT ![s] = "closing"] /\ Lose(retryable)

Ready(s) ==
  /\ state' = "ready" /\ prep' = "none" /\ attempt' = 0 /\ heartbeat' = "interval"
  /\ Answer(s, "ready")
  /\ UNCHANGED <<connection, current, manuallyClosed, timers, task, end>>

Heard(s, m) == IF connection = s THEN heard \cup ({m} \cap {"authenticated", "announced"}) ELSE heard

\* A bug to compare with: a waiter takes the messages of any connection.
MessageFromAnywhere(s, m) ==
  /\ end[s] \in {"open", "closing"}
  /\ heard' = Heard(s, m)
  /\ \/ prep = "announce" /\ m = "announced" /\ Ready(connection)
     \/ /\ prep = "auth" /\ m = "authenticated" /\ prep' = "announce"
        /\ UNCHANGED <<state, connection, current, manuallyClosed, attempt, timers, task,
                       heartbeat, end, connectTask, callers>>
     \/ /\ <<prep, m>> \notin {<<"auth", "authenticated">>, <<"announce", "announced">>}
        /\ UNCHANGED <<state, connection, current, manuallyClosed, attempt, timers, task,
                       prep, heartbeat, end, connectTask, callers>>

\* A message refreshes the heartbeat, then meets the handshake's waiter.
OnMessage(s, m) ==
  LET awaited == <<prep, m>> \in {<<"auth", "authenticated">>, <<"announce", "announced">>}
  IN
  /\ end[s] \in {"open", "closing"}
  /\ \/ /\ current = s /\ prep # "none" /\ m \in {"error", "terminal"}
        /\ HandshakeFails(s, m = "error")
     \/ /\ heard' = Heard(s, m)
        /\ \/ current = s /\ awaited /\ prep = "announce" /\ Ready(s)
           \/ /\ current = s /\ awaited /\ prep = "auth" /\ prep' = "announce"
              /\ UNCHANGED <<state, connection, current, manuallyClosed, attempt, timers,
                             task, heartbeat, end, connectTask, callers>>
           \/ /\ current = s /\ ~awaited /\ ~(prep # "none" /\ m \in {"error", "terminal"})
              /\ heartbeat' = IF state = "ready" THEN "interval" ELSE "off"
              /\ UNCHANGED <<state, connection, current, manuallyClosed, attempt, timers,
                             task, prep, end, connectTask, callers>>
           \/ /\ current # s
              /\ UNCHANGED <<state, connection, current, manuallyClosed, attempt, timers,
                             task, prep, heartbeat, end, connectTask, callers>>

-----------------------------------------------------------------------------
(* Timers.                                                                 *)

HandshakeTimesOut == prep # "none" /\ HandshakeFails(connection, TRUE)

\* A bug to compare with: the ping is sent and no answer is expected.
PingAndForget ==
  /\ heartbeat = "interval" /\ state = "ready" /\ heartbeat' = "off"
  /\ UNCHANGED <<state, connection, current, manuallyClosed, attempt, timers, task,
                 prep, end, connectTask, callers, heard>>

\* runHeartbeat: the ping is handed to an open socket, which takes it.
HeartbeatDue ==
  /\ heartbeat = "interval" /\ state = "ready" /\ heartbeat' = "timeout"
  /\ UNCHANGED <<state, connection, current, manuallyClosed, attempt, timers, task,
                 prep, end, connectTask, callers, heard>>

\* failHeartbeat
HeartbeatTimesOut ==
  /\ heartbeat = "timeout"
  /\ end' = [end EXCEPT ![connection] = "closing"] /\ Lose(TRUE)

-----------------------------------------------------------------------------
(* A client that was closed by hand has no reconnect timer left, and no    *)
(* timer ever escapes the handle that can cancel it: after close() only a  *)
(* new connect() dials.                                                    *)
ClosedStaysClosed ==
  /\ timers = (IF task = None THEN {} ELSE {task})
  /\ manuallyClosed => timers = {} /\ state = "closed"

(* Every socket the client holds open is the connection it would close:    *)
(* one that opens after it was superseded or after close() is not leaked.  *)
NoLeakedSocket == \A s \in Sockets : end[s] = "open" => connection = s /\ current = s

(* A dial that was superseded and opens late closes its own socket and      *)
(* touches nothing else (client/index.ts says so where it takes the epoch). *)
StaleOpenIsHarmless ==
  [][\A s \in Sockets : end[s] = "dialing" /\ end'[s] = "closing"
       => UNCHANGED <<state, connection>>]_clientVars

(* The client is ready only on a connection whose own server has           *)
(* authenticated and announced it; what was said on an earlier connection  *)
(* does not count.                                                         *)
ReadyIsPrepared ==
  state = "ready" =>
    /\ connection # None /\ current = connection
    /\ {"authenticated", "announced"} \subseteq heard

(* Whoever waits in connect() or ready() is answered: the client gets      *)
(* ready, gives up, or is closed.                                          *)
CallersAreAnswered == \A c \in Callers : callers[c] # "free" ~> callers[c] = "free"
=============================================================================
