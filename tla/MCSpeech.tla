------------------------------ MODULE MCSpeech ------------------------------
EXTENDS Speech

\* Deltas that break words, sentences, protected text and tokens in the middle.
MCDeltas ==
  {<<" ">>, <<",", "a", " ", "a">>, <<"#">>, <<"a", " ", "#", ".">>,
   <<"a", "<">>, <<"|", "joy", "|", ">">>, <<"|", ">", "a", ".", " ">>, <<"a", "a", ",", "<", "|", "sad">>,
   <<" ", "<", "|", "delay", "|", ">", "a">>, <<"<", "|", "joy", "|", ">", "<", "|", "delay", "|", ">">>,
   <<"<", "|", "a">>, <<"a", " ", "a", " ", "a", ".", "a">>}

MCOpening == [min |-> 1, target |-> 2, max |-> 3]
MCSteady == [min |-> 2, target |-> 3, max |-> 4]
MCEmotions == {"joy", "sad"}
=============================================================================
