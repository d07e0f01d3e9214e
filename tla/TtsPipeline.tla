---------------------------- MODULE TtsPipeline ----------------------------
(***************************************************************************)
(* The pipeline that turns the phrases of a reply into audio               *)
(* (runBoundedTtsPipeline): prepare() pulls and synthesises one phrase     *)
(* while the one before it sounds.  Where phrases come from is left open:  *)
(* one may be there whenever it is pulled, or the text ends or throws.     *)
(***************************************************************************)
EXTENDS Naturals, Sequences

VARIABLES
  sound,    \* what became of the audio of each phrase that was pulled
  prepare,  \* what prepare() is doing
  playing,  \* the phrase that sounds, 0 if none
  aborted,  \* the reply's signal
  result    \* how runBoundedTtsPipeline() ended

pipeline == <<sound, prepare, playing, aborted, result>>

Done  == {"played", "skipped", "discarded"}
Fates == Done \cup {"asked", "prepared", "playing"}

PipelineTypeOK ==
  /\ sound \in Seq(Fates) /\ playing \in 0..Len(sound)
  /\ prepare \in {"pull", "synthesize", "full", "none", "threw"}
  /\ aborted \in BOOLEAN /\ result \in {"running", "returned", "threw"}

PipelineInit ==
  sound = <<>> /\ prepare = "pull" /\ playing = 0 /\ aborted = FALSE /\ result = "running"

-----------------------------------------------------------------------------
Going == result = "running" /\ ~aborted
Pulling == Going /\ prepare = "pull"

\* prepare() has a phrase: it counts as said, whatever becomes of its audio.
Pull ==
  /\ Pulling /\ sound' = Append(sound, "asked") /\ prepare' = "synthesize"
  /\ UNCHANGED <<playing, aborted, result>>

TextEnds(thrown) ==
  /\ Pulling /\ prepare' = IF thrown THEN "threw" ELSE "none"
  /\ UNCHANGED <<sound, playing, aborted, result>>

\* Nothing sounds: the phrase is played at once, else it is the one ahead.
Synthesized ==
  /\ Going /\ prepare = "synthesize"
  /\ LET k == Len(sound) IN
     IF playing = 0 THEN playing' = k /\ sound' = [sound EXCEPT ![k] = "playing"] /\ prepare' = "pull"
     ELSE sound' = [sound EXCEPT ![k] = "prepared"] /\ prepare' = "full" /\ UNCHANGED playing
  /\ UNCHANGED <<aborted, result>>

\* A phrase that cannot be synthesised is skipped.
SynthesisFails ==
  /\ Going /\ prepare = "synthesize"
  /\ sound' = [sound EXCEPT ![Len(sound)] = "skipped"] /\ prepare' = "pull"
  /\ UNCHANGED <<playing, aborted, result>>

\* A bug to compare with: late audio is left to itself.
LateSynthesisIsKept(k) ==
  /\ aborted /\ sound[k] = "asked" /\ sound' = [sound EXCEPT ![k] = "prepared"]
  /\ UNCHANGED <<prepare, playing, aborted, result>>

\* Audio that comes after the reply was cancelled is destroyed where it arrives.
LateSynthesis(k) ==
  /\ aborted /\ sound[k] = "asked"
  /\ \E fate \in {"skipped", "discarded"} : sound' = [sound EXCEPT ![k] = fate]
  /\ UNCHANGED <<prepare, playing, aborted, result>>

Ended(k) == [sound EXCEPT ![k] = "played"]

\* Both halves of a round have settled, or the reply was cancelled.
PlayEnds ==
  /\ playing # 0
  /\ CASE prepare # "full" -> playing' = 0 /\ sound' = Ended(playing) /\ UNCHANGED prepare
       [] prepare = "full" /\ ~aborted ->
            /\ playing' = Len(sound) /\ sound' = [Ended(playing) EXCEPT ![Len(sound)] = "playing"]
            /\ prepare' = "pull"
       [] OTHER -> /\ playing' = 0 /\ sound' = [Ended(playing) EXCEPT ![Len(sound)] = "discarded"]
                   /\ prepare' = "none"
  /\ UNCHANGED <<aborted, result>>

\* play() rejects: the source is cancelled, and what was prepared is destroyed.
PlayThrows ==
  /\ playing # 0 /\ playing' = 0 /\ aborted' = TRUE
  /\ sound' = [k \in DOMAIN sound |-> IF k = playing \/ sound[k] = "prepared" THEN "discarded" ELSE sound[k]]
  /\ prepare' = "threw"
  /\ UNCHANGED result

Abort == Going /\ aborted' = TRUE /\ UNCHANGED <<sound, prepare, playing, result>>

Over ==
  /\ result = "running" /\ playing = 0
  /\ aborted \/ prepare \in {"none", "threw"}
  /\ result' = IF prepare = "none" THEN "returned" ELSE "threw"
  /\ aborted' = (aborted \/ prepare # "none")
  /\ UNCHANGED <<sound, prepare, playing>>

\* What the pipeline does while no text moves.
Sounds ==
  \/ Synthesized \/ SynthesisFails \/ PlayEnds \/ PlayThrows \/ Abort \/ Over
  \/ \E k \in DOMAIN sound : LateSynthesis(k)

PipelineNext == Pull \/ (\E thrown \in BOOLEAN : TextEnds(thrown)) \/ Sounds

PipelineSpec == PipelineInit /\ [][PipelineNext]_pipeline

-----------------------------------------------------------------------------
\* When the pipeline is over, however it ended, every audio it asked for was played,
\* destroyed or given up; only the last one of a cancelled reply may still be under way,
\* and it never comes to be played.
AudioIsAccountedFor ==
  result # "running" => \A k \in DOMAIN sound :
    sound[k] \in Done \/ (sound[k] = "asked" /\ k = Len(sound) /\ aborted)

\* Phrases sound one after the other in the order of the text: when one sounds, or has
\* sounded, nothing that was pulled before it is still to come, and nothing sounds beside it.
PhrasesSoundInOrder ==
  \A k \in DOMAIN sound :
    sound[k] \in {"playing", "played"} => \A j \in 1..(k - 1) : sound[j] \in Done
=============================================================================
