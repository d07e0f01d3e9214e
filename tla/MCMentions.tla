----------------------------- MODULE MCMentions -----------------------------
(***************************************************************************)
(* Three mentions of a room that lets two wait, and a voice turn, for one  *)
(* slot and a budget of one in a window of two ticks: slot, budget and     *)
(* room are each short at times, a cooldown may come on top, and each      *)
(* request may retry a 503 after a tick.  The process has durable context  *)
(* or it has not.                                                          *)
(***************************************************************************)
EXTENDS MentionResponder

CONSTANT hall
MCRequests == 1..4
MCRooms == {hall}
MCRoomOf == <<hall, hall, hall>>
MCCooldowns == {1}
MCRetryDelays == <<1>>
=============================================================================
