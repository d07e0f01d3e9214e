------------------------------ MODULE WsServer ------------------------------
(***************************************************************************)
(* The WebSocket server of packages/better-ws: the registry of peers       *)
(* (server/peers.ts), the liveness check and the adapter that turns raw    *)
(* CrossWS sockets into peers (server/index.ts), for one peer id that      *)
(* every socket of the client maps to.                                     *)
(*                                                                         *)
(* A peer object is named by the raw socket it was made for.  That is      *)
(* enough: the adapter writes its entry whenever the registry gets a new   *)
(* peer from it, so an entry names the registered peer exactly when both   *)
(* name the same socket.                                                   *)
(***************************************************************************)
EXTENDS Naturals, WsSockets

VARIABLES
  serverEnd,   \* the server's end of every socket
  registered,  \* peers.get(id)
  entry,       \* the adapter's own record of who id is
  retired,     \* retiredRawPeers
  silent,      \* nothing was heard of the registered peer for the close timeout
  newest       \* ghost: the last socket to be opened

serverVars == <<serverEnd, registered, entry, retired, silent, newest>>

ServerTypeOK ==
  /\ serverEnd \in [Sockets -> {"none", "open", "closing", "closed"}]
  /\ registered \in Sockets \cup {None} /\ entry \in Sockets \cup {None}
  /\ retired \subseteq Sockets /\ silent \in BOOLEAN
  /\ newest \in Sockets \cup {None}

ServerInit ==
  /\ serverEnd = [s \in Sockets |-> "none"]
  /\ registered = None /\ entry = None /\ retired = {}
  /\ silent = FALSE /\ newest = None

\* The registry's accept(): a peer with the same id is replaced, health starts anew.
Register(p) == registered' = p /\ silent' = FALSE

\* A bug to compare with: a socket that is replaced is not remembered as such.
AcceptWithoutRetiring(s) ==
  /\ Register(s) /\ entry' = s
  /\ retired' = retired \ {s}

\* The adapter's accept() with replaceCurrent.
Accept(s) ==
  /\ Register(s) /\ entry' = s
  /\ retired' = (retired \ {s}) \cup ({entry} \ {None, s})

HookOpen(s) ==
  /\ serverEnd[s] = "none"
  /\ serverEnd' = [serverEnd EXCEPT ![s] = "open"]
  /\ Accept(s) /\ newest' = s

\* The registration and its health record go together.
Unregister == registered' = None /\ silent' = FALSE

Seen == silent' = FALSE

\* Whose message it is: the registered peer's own, or that of a socket whose
\* peer is gone and whose id nobody has taken.
OfPeer(s) == s \notin retired /\ entry = s /\ registered = s
OfOrphan(s) == s \notin retired /\ entry \in {None, s} /\ registered = None

\* A message is a sign of life of the registered peer, registers an orphan
\* again, and is dropped when it comes from a socket that was replaced.
HookMessage(s) ==
  /\ serverEnd[s] \in {"open", "closing"}
  /\ \/ OfPeer(s) /\ Seen /\ UNCHANGED <<registered, entry, retired>>
     \/ OfOrphan(s) /\ Register(s) /\ entry' = s /\ UNCHANGED retired
     \/ ~OfPeer(s) /\ ~OfOrphan(s) /\ UNCHANGED <<registered, entry, retired, silent>>
  /\ UNCHANGED <<serverEnd, newest>>

\* A bug to compare with: the adapter forgets the peer and the registry keeps it.
CloseEntryOnly(s) ==
  /\ serverEnd[s] \in {"open", "closing"}
  /\ serverEnd' = [serverEnd EXCEPT ![s] = "closed"]
  /\ entry' = IF entry = s THEN None ELSE entry
  /\ UNCHANGED <<registered, silent, retired, newest>>

\* The raw socket closed: only the entry made for it, and only the peer that
\* entry still names, go with it.
HookClose(s) ==
  /\ serverEnd[s] \in {"open", "closing"}
  /\ serverEnd' = [serverEnd EXCEPT ![s] = "closed"]
  /\ IF s \notin retired /\ entry = s THEN entry' = None ELSE UNCHANGED entry
  /\ IF s \notin retired /\ entry = s /\ registered = s
     THEN Unregister ELSE UNCHANGED <<registered, silent>>
  /\ UNCHANGED <<retired, newest>>

\* peer.close(): the raw socket is asked to close, the registration goes at once.
ClosePeer ==
  /\ registered # None /\ Unregister
  /\ serverEnd' = IF serverEnd[registered] = "open"
                  THEN [serverEnd EXCEPT ![registered] = "closing"] ELSE serverEnd
  /\ UNCHANGED <<entry, retired, newest>>

\* checkLiveness(): a peer that has been silent too long is closed.
CheckLiveness == silent /\ ClosePeer

TimePasses ==
  /\ registered # None /\ ~silent /\ silent' = TRUE
  /\ UNCHANGED <<serverEnd, registered, entry, retired, newest>>

-----------------------------------------------------------------------------
(* Once a newer socket has been opened under an id, nothing an older one    *)
(* still does (a late message, a late close) registers it again or removes *)
(* the newer peer.                                                         *)
NewestSocketWins ==
  /\ registered \in {None, newest}
  /\ entry \in {None, newest}

(* A socket that is gone is nobody's peer: messages to the id never go     *)
(* into a socket the adapter has seen closed.                              *)
PeerHasSocket ==
  registered # None => serverEnd[registered] \in {"open", "closing"}
=============================================================================
