---------------------------- MODULE VoiceSessions ----------------------------
(***************************************************************************)
(* Joining and leaving the voice channels of one guild (src/voice/          *)
(* voice-manager.ts): /join and /leave commands that overlap, the           *)
(* connection of the Discord voice library and its reconnections, and the   *)
(* session the manager keeps.                                               *)
(*                                                                         *)
(* The library tracks one live connection per guild and hands it to every  *)
(* joinVoiceChannel() until it is destroyed.  Sessions and connections are  *)
(* objects: a name is used again once nothing refers to it.                 *)
(***************************************************************************)
EXTENDS Naturals

CONSTANTS
  Joins,      \* /join commands that may be under way at once
  Channels,
  Conns,      \* names for connections
  Sessions,   \* names for GuildVoiceSession objects
  None

VARIABLES
  session,   \* sessions.get(guildId)
  of,        \* the connection and channel of every session object
  conn,      \* VoiceConnectionStatus of every connection
  join,      \* how far every /join is
  waiting    \* sessions whose disconnect handler waits for the library to reconnect

sessionVars == <<session, of, conn, join, waiting>>

Live == {"connecting", "ready", "disconnected"}

SessionTypeOK ==
  /\ session \in Sessions \cup {None}
  /\ of \in [Sessions -> [conn : Conns \cup {None}, channel : Channels \cup {None}]]
  /\ conn \in [Conns -> Live \cup {"destroyed"}]
  /\ join \in [Joins -> [pc : {"idle", "entering", "starting"},
                         conn : Conns \cup {None}, channel : Channels \cup {None}]]
  /\ waiting \subseteq Sessions

Idle == [pc |-> "idle", conn |-> None, channel |-> None]

SessionInit ==
  /\ session = None /\ of = [s \in Sessions |-> [conn |-> None, channel |-> None]]
  /\ conn = [c \in Conns |-> "destroyed"]
  /\ join = [j \in Joins |-> Idle] /\ waiting = {}

-----------------------------------------------------------------------------
UnusedSession(s) == s # session /\ s \notin waiting

UnusedConn(c, status) ==
  /\ status[c] = "destroyed" /\ \A j \in Joins : join[j].conn # c
  /\ \A s \in Sessions : s = session \/ s \in waiting => of[s].conn # c

\* A bug to compare with: the destroyed connection's session is kept.
DestroyOnly(c) == conn' = [conn EXCEPT ![c] = "destroyed"] /\ UNCHANGED session

\* connection.destroy() runs the session's own handler before it returns,
\* and that ends the session if it is the current one.
Destroy(c) ==
  /\ conn' = [conn EXCEPT ![c] = "destroyed"]
  /\ session' = IF session # None /\ of[session].conn = c THEN None ELSE session

-----------------------------------------------------------------------------
(* joinChannel(), one action for each stretch between two awaits.          *)

\* Up to entersState(): the current session is ended and the library is asked.
JoinBegins(j, ch, c) ==
  LET left == IF session = None THEN conn
              ELSE [conn EXCEPT ![of[session].conn] = "destroyed"]
      live == {x \in Conns : left[x] \in Live}
  IN
  /\ join[j].pc = "idle" /\ session' = None
  /\ \/ live # {} /\ c \in live
     \/ live = {} /\ UnusedConn(c, conn)
  /\ conn' = [left EXCEPT ![c] = IF @ = "ready" THEN "ready" ELSE "connecting"]
  /\ join' = [join EXCEPT ![j] = [pc |-> "entering", conn |-> c, channel |-> ch]]
  /\ UNCHANGED <<of, waiting>>

\* The connection is ready: a session is made and becomes the current one,
\* whatever was current before.
JoinReady(j, s) ==
  /\ join[j].pc = "entering" /\ conn[join[j].conn] = "ready" /\ UnusedSession(s)
  /\ session' = s
  /\ of' = [of EXCEPT ![s] = [conn |-> join[j].conn, channel |-> join[j].channel]]
  /\ join' = [join EXCEPT ![j].pc = "starting"]
  /\ UNCHANGED <<conn, waiting>>

\* After setSelfVoice(): the session is announced.
JoinStarts(j) ==
  /\ join[j].pc = "starting" /\ join' = [join EXCEPT ![j] = Idle]
  /\ UNCHANGED <<session, of, conn, waiting>>

\* entersState() runs out of time.  destroy() throws when the connection is
\* destroyed already, and then nothing is torn down.
JoinFails(j) ==
  /\ join[j].pc = "entering" /\ conn[join[j].conn] # "ready"
  /\ \/ /\ conn[join[j].conn] = "destroyed" /\ UNCHANGED <<session, conn>>
     \/ /\ conn[join[j].conn] # "destroyed"
        /\ conn' = [conn EXCEPT ![join[j].conn] = "destroyed"] /\ session' = None
  /\ join' = [join EXCEPT ![j] = Idle] /\ UNCHANGED <<of, waiting>>

\* leaveChannel(), with a session or with a connection that has none.
Leave ==
  /\ \/ session # None /\ Destroy(of[session].conn)
     \/ session = None /\ \E c \in Conns : conn[c] \in Live /\ Destroy(c)
  /\ UNCHANGED <<of, join, waiting>>

-----------------------------------------------------------------------------
(* The library and its events.                                             *)

Connects(c) ==
  /\ conn[c] = "connecting" /\ conn' = [conn EXCEPT ![c] = "ready"]
  /\ UNCHANGED <<session, of, join, waiting>>

\* Disconnected: the handler of the current session waits for a reconnection.
Drops(c) ==
  /\ conn[c] \in {"connecting", "ready"} /\ conn' = [conn EXCEPT ![c] = "disconnected"]
  /\ waiting' = waiting \cup {s \in {session} \ {None} : of[s].conn = c}
  /\ UNCHANGED <<session, of, join>>

Reconnects(c) ==
  /\ conn[c] = "disconnected" /\ conn' = [conn EXCEPT ![c] = "connecting"]
  /\ waiting' = {s \in waiting : of[s].conn # c}
  /\ UNCHANGED <<session, of, join>>

\* The wait is over: the session is ended if it is still the current one.
GivesUp(s) ==
  /\ s \in waiting /\ waiting' = waiting \ {s}
  /\ IF session = s THEN Destroy(of[s].conn) ELSE UNCHANGED <<session, conn>>
  /\ UNCHANGED <<of, join>>

\* The gateway destroys the connection (the bot is removed, the shard closes).
IsDestroyed(c) ==
  /\ conn[c] \in Live /\ Destroy(c) /\ UNCHANGED <<of, join, waiting>>

-----------------------------------------------------------------------------
(* The session the manager plays and captures through has a connection      *)
(* that is not destroyed, however joins, leaves and reconnections overlap.  *)
CurrentIsConnected == session # None => conn[of[session].conn] \in Live
=============================================================================
