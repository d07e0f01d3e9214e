----------------------------- MODULE SocketLink -----------------------------
(***************************************************************************)
(* WsClient and WsServer with the network between them: sockets that fail  *)
(* to open, break, or go mute without either end being told (half-open).   *)
(* What the server says in the handshake is up to it.                      *)
(***************************************************************************)
EXTENDS WsClient, WsServer

VARIABLE mute  \* sockets on which nothing arrives any more

vars == <<clientVars, serverVars, mute>>

TypeOK == ClientTypeOK /\ ServerTypeOK /\ mute \subseteq Sockets

Init == ClientInit /\ ServerInit /\ mute = {}

Quiet == UNCHANGED <<serverVars, mute>>

\* A socket both of whose ends are through is a new one the next time.
Recycle(s) ==
  /\ serverEnd[s] \in {"none", "closed"}
  /\ serverEnd' = [serverEnd EXCEPT ![s] = "none"]
  /\ retired' = retired \ {s} /\ mute' = mute \ {s}
  /\ s \notin {registered, entry}
  /\ newest' = IF newest = s THEN None ELSE newest
  /\ UNCHANGED <<registered, entry, silent>>

Calls ==
  \/ \E c \in Callers, s \in Sockets : Connect(c, s) /\ Recycle(s)
  \/ \E c \in Callers : (Join(c) \/ LeaveWait(c)) /\ Quiet
  \/ Close /\ Quiet

DialEnds(s) ==
  \/ OnOpen(s) /\ serverEnd[s] = "open" /\ Quiet
  \/ OnDialFailure(s) /\ Quiet

Retries(t) == \E s \in Sockets : ReconnectDue(t, s) /\ Recycle(s)

Says(s, m) == serverEnd[s] = "open" /\ s \notin mute /\ OnMessage(s, m) /\ Quiet

GarbledFrame(s) == serverEnd[s] = "open" /\ s \notin mute /\ OnError(s) /\ Quiet

\* The client learns that the socket is gone: it closed it itself, the
\* server did, or the network broke.
ClientSeesClose(s) ==
  /\ s \in mute => end[s] = "closing"
  /\ OnClose(s) /\ Quiet

ServerAccepts(s) ==
  /\ end[s] = "dialing" /\ HookOpen(s) /\ UNCHANGED <<clientVars, mute>>

ServerHears(s) ==
  /\ end[s] \in {"open", "closing"} /\ s \notin mute
  /\ HookMessage(s) /\ UNCHANGED <<clientVars, mute>>

ServerSeesClose(s) ==
  /\ end[s] \in {"closing", "unused"} \/ serverEnd[s] = "closing"
  /\ HookClose(s) /\ UNCHANGED <<clientVars, mute>>

ServerSide ==
  (ClosePeer \/ CheckLiveness \/ TimePasses) /\ UNCHANGED <<clientVars, mute>>

GoesMute(s) ==
  /\ end[s] = "open" /\ serverEnd[s] = "open" /\ s \notin mute
  /\ mute' = mute \cup {s} /\ UNCHANGED <<clientVars, serverVars>>

ClientTimer ==
  (HandshakeTimesOut \/ HeartbeatDue \/ HeartbeatTimesOut) /\ Quiet

Next ==
  \/ Calls \/ ClientTimer \/ ServerSide
  \/ \E t \in Timers : Retries(t)
  \/ \E s \in Sockets :
       \/ DialEnds(s) \/ GarbledFrame(s) \/ ClientSeesClose(s)
       \/ ServerAccepts(s) \/ ServerHears(s) \/ ServerSeesClose(s) \/ GoesMute(s)
       \/ \E m \in Messages : Says(s, m)

Spec == Init /\ [][Next]_vars

\* Timers fire, a dial ends one way or the other, and a socket that was
\* closed at one end is closed at the other.
Fairness ==
  /\ WF_vars(ClientTimer)
  /\ \A t \in Timers : WF_vars(Retries(t))
  /\ \A s \in Sockets :
       /\ WF_vars(DialEnds(s))
       /\ WF_vars(end[s] = "closing" /\ ClientSeesClose(s))
       /\ WF_vars(ServerSeesClose(s))

FairSpec == Spec /\ Fairness

-----------------------------------------------------------------------------
(* A connection on which nothing arrives any more is given up, by a        *)
(* heartbeat or a handshake timeout, although neither end is told.         *)
HalfOpenIsNoticed ==
  \A s \in Sockets : s \in mute /\ connection = s ~> connection # s \/ s \notin mute
=============================================================================
