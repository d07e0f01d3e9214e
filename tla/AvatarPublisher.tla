--------------------------- MODULE AvatarPublisher ---------------------------
(***************************************************************************)
(* Publishing the avatar's state of one guild to the relay                 *)
(* (src/avatar/publisher.ts): the state, the outbox with one update in     *)
(* flight, and the socket that is dialled again whenever it is lost.       *)
(*                                                                         *)
(* An update is known by its session and its sequence, which is what the   *)
(* relay's result is matched by.                                           *)
(***************************************************************************)
EXTENDS Naturals, Sequences

CONSTANTS
  Rooms,        \* channels the avatar can be in
  Nobody,       \* no state
  MaxSession,   \* bound: sessions that are started
  MaxBehaviors, \* bound: sequence up to which behaviours are set
  MaxLosses     \* bound: sockets that are lost

ASSUME PublisherAssumption == {MaxSession, MaxBehaviors, MaxLosses} \subseteq Nat

VARIABLES
  avatar,    \* states.get(guildId)
  outbox,
  started,
  socket,
  retry,     \* reconnectTimer is set
  inFlight,
  fresh,     \* randomUUID: the session ids handed out so far
  wire,      \* what the socket carries: the update on its way or its result
  shown,     \* the last update that reached the relay
  losses

publisherVars == <<avatar, outbox, started, socket, retry, inFlight, fresh, wire, shown, losses>>

\* Two sockets beyond the losses at most, and the end.
Sequences == 0..MaxBehaviors + MaxLosses + 3

Update == [session : 1..MaxSession, sequence : Sequences, connected : BOOLEAN]
NoUpdate == [session |-> 0, sequence |-> 0, connected |-> FALSE]

PublisherTypeOK ==
  /\ avatar \in [channel : Rooms, session : 1..MaxSession, sequence : Sequences] \cup {Nobody}
  /\ outbox \in Seq(Update) /\ started \in BOOLEAN
  /\ socket \in {"none", "dialing", "open", "broken"} /\ retry \in BOOLEAN /\ inFlight \in BOOLEAN
  /\ fresh \in 0..MaxSession /\ shown \in Update \cup {NoUpdate} /\ losses \in 0..MaxLosses
  /\ wire \in [kind : {"none", "update", "result"}, about : Update \cup {NoUpdate}]

Nothing == [kind |-> "none", about |-> NoUpdate]

PublisherInit ==
  /\ avatar = Nobody /\ outbox = <<>> /\ started = FALSE /\ socket = "none" /\ retry = FALSE
  /\ inFlight = FALSE /\ fresh = 0 /\ wire = Nothing /\ shown = NoUpdate /\ losses = 0

-----------------------------------------------------------------------------
UpdateOf(a, connected) ==
  [session |-> a.session, sequence |-> a.sequence, connected |-> connected]

\* flush(): the head is sent when the socket is there and nothing is in
\* flight; a socket that is no longer open does not take it.
Flush(box, sk, busy) ==
  IF box # <<>> /\ sk = "open" /\ ~busy
  THEN inFlight' = TRUE /\ wire' = [kind |-> "update", about |-> Head(box)]
  ELSE inFlight' = busy /\ UNCHANGED wire

Enqueue(updates) ==
  /\ outbox' = outbox \o updates /\ Flush(outbox', socket, inFlight)

\* sessionEnd() of the channel the state is for.
Ended == UpdateOf([avatar EXCEPT !.sequence = @ + 1], FALSE)

\* A channel that differs from the state's is ended first.
SessionStart(ch) ==
  /\ fresh' = fresh + 1
  /\ avatar' = [channel |-> ch, session |-> fresh + 1, sequence |-> 0]
  /\ \/ /\ avatar # Nobody /\ avatar.channel # ch
        /\ Enqueue(<<Ended, UpdateOf(avatar', TRUE)>>)
     \/ /\ avatar # Nobody => avatar.channel = ch
        /\ Enqueue(<<UpdateOf(avatar', TRUE)>>)
  /\ UNCHANGED <<started, socket, retry, shown, losses>>

SessionEnd(ch) ==
  \/ /\ avatar # Nobody /\ avatar.channel = ch
     /\ Enqueue(<<Ended>>) /\ avatar' = Nobody
     /\ UNCHANGED <<started, socket, retry, fresh, shown, losses>>
  \/ (avatar # Nobody => avatar.channel # ch) /\ UNCHANGED publisherVars

SetBehavior(ch) ==
  /\ avatar # Nobody /\ avatar.channel = ch /\ avatar.sequence < MaxBehaviors
  /\ avatar' = [avatar EXCEPT !.sequence = @ + 1]
  /\ Enqueue(<<UpdateOf(avatar', TRUE)>>)
  /\ UNCHANGED <<started, socket, retry, fresh, shown, losses>>

-----------------------------------------------------------------------------
Start ==
  /\ ~started /\ started' = TRUE /\ socket = "none" /\ socket' = "dialing" /\ retry' = FALSE
  /\ UNCHANGED <<avatar, outbox, inFlight, fresh, wire, shown, losses>>

Stop ==
  /\ started /\ started' = FALSE /\ inFlight' = FALSE /\ retry' = FALSE
  /\ socket' = "none" /\ wire' = Nothing /\ losses < MaxLosses /\ losses' = losses + 1
  /\ UNCHANGED <<avatar, outbox, fresh, shown>>

RetryDue ==
  /\ retry /\ started /\ socket = "none" /\ retry' = FALSE /\ socket' = "dialing"
  /\ UNCHANGED <<avatar, outbox, started, inFlight, fresh, wire, shown, losses>>

\* The state is published anew behind what the outbox still holds, and the
\* head, which may have been in flight on the socket before, is sent again.
SocketOpens ==
  /\ socket = "dialing" /\ socket' = "open"
  /\ \/ /\ avatar # Nobody
        /\ avatar' = [avatar EXCEPT !.sequence = @ + 1]
        /\ outbox' = Append(outbox, UpdateOf(avatar', TRUE))
     \/ avatar = Nobody /\ UNCHANGED <<avatar, outbox>>
  /\ Flush(outbox', "open", FALSE)
  /\ UNCHANGED <<started, retry, fresh, shown, losses>>

\* The connection is gone and the close event is still to come.
SocketBreaks ==
  /\ socket = "open" /\ losses < MaxLosses /\ losses' = losses + 1
  /\ socket' = "broken" /\ wire' = Nothing
  /\ UNCHANGED <<avatar, outbox, started, retry, inFlight, fresh, shown>>

\* A bug to compare with: the next dial is left to whoever enqueues next.
CloseAndWait ==
  /\ \/ socket = "broken"
     \/ socket = "dialing" /\ losses < MaxLosses
  /\ socket' = "none" /\ inFlight' = FALSE
  /\ losses' = IF socket = "dialing" THEN losses + 1 ELSE losses
  /\ UNCHANGED <<avatar, outbox, started, fresh, retry, wire, shown>>

SocketCloses ==
  /\ \/ socket = "broken"
     \/ socket = "dialing" /\ losses < MaxLosses
  /\ socket' = "none" /\ inFlight' = FALSE /\ retry' = TRUE
  /\ losses' = IF socket = "dialing" THEN losses + 1 ELSE losses
  /\ UNCHANGED <<avatar, outbox, started, fresh, wire, shown>>

\* A bug to compare with: what has been sent is not kept for a lost socket.
SentIsDone ==
  /\ outbox # <<>> /\ inFlight /\ outbox' = Tail(outbox)
  /\ inFlight' = FALSE /\ UNCHANGED wire
  /\ UNCHANGED <<avatar, started, socket, retry, fresh, shown, losses>>

\* state.result: of the head it removes the head and sends the next.
Result ==
  /\ socket = "open" /\ wire.kind = "result"
  /\ outbox # <<>> /\ Head(outbox) = wire.about /\ outbox' = Tail(outbox)
  /\ IF outbox' = <<>> THEN inFlight' = FALSE /\ wire' = Nothing
     ELSE Flush(outbox', "open", FALSE)
  /\ UNCHANGED <<avatar, started, socket, retry, fresh, shown, losses>>

\* The relay: it takes the update and answers, accepted or duplicate.
RelayReceives ==
  /\ wire.kind = "update" /\ shown' = wire.about
  /\ wire' = [wire EXCEPT !.kind = "result"]
  /\ UNCHANGED <<avatar, outbox, started, socket, retry, inFlight, fresh, losses>>

PublisherStep ==
  Start \/ Stop \/ RetryDue \/ SocketOpens \/ SocketBreaks \/ SocketCloses \/ Result \/ RelayReceives

-----------------------------------------------------------------------------
Older(u, v) ==
  \/ u.session < v.session
  \/ u.session = v.session /\ u.sequence < v.sequence

(* Lost sockets, replays and late results never take the relay backwards,   *)
(* and no update leaves the outbox before the relay has received it.        *)
RelaySeesEveryUpdateInOrder ==
  [][/\ shown' # shown => Older(shown, shown')
     /\ Len(outbox') < Len(outbox) => shown = Head(outbox)]_publisherVars

(* Once the losses are over the relay is shown the last state there is, and *)
(* nothing stays in the outbox.                                             *)
RelayCatchesUp ==
  <>[](started => outbox = <<>> /\ (avatar = Nobody <=> ~shown.connected))
=============================================================================
