---------------------------- MODULE MCVoiceTrace ----------------------------
EXTENDS VoiceTrace, TLC

Symmetry == Permutations(Utterances) \cup Permutations(Turns)
=============================================================================
