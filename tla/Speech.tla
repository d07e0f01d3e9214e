------------------------------- MODULE Speech -------------------------------
(***************************************************************************)
(* From the model's stream to the speaker (src/orchestration): deltas are  *)
(* scanned for <|...|> tokens (scanSpeechStream, tokenizeSpeechStream),    *)
(* text is cut into phrases that carry the style in force                  *)
(* (SpeechChunker, StyleAwareSpeechChunker), and TtsPipeline, which sets   *)
(* the pace, turns them into audio.                                        *)
(*                                                                         *)
(* A reply is a sequence of symbols; buffers and phrases hold positions in *)
(* it.  A letter stands for every character that may not be parted from    *)
(* its neighbour, a hash for every mark that opens and closes protected    *)
(* text, and the whole of a stage direction is one symbol between its      *)
(* markers.  Languages only choose between sizes.                          *)
(***************************************************************************)
EXTENDS TtsPipeline, FiniteSets, FiniteSetsExt, SequencesExt

CONSTANTS
  Deltas,       \* what the model may send at once: sequences of symbols
  MaxDeltas,    \* bound on the deltas of a reply
  Opening,      \* sizes of the first phrase: [min, target, max]
  Steady,       \* sizes of the others
  MaxHeld,      \* MAX_HELD_CHARS
  MaxBuffered,  \* text without a safe boundary
  MaxPause,     \* maxModelPauseMs, in requested pauses
  Emotions,     \* bodies of ACT tokens
  None

Delay   == "delay"   \* the body of a DELAY token
Marks   == {" ", ".", ",", "#", "<", "|", ">"}

ASSUME SpeechAssumption ==
  /\ MaxDeltas \in Nat /\ MaxHeld \in Nat /\ MaxBuffered \in Nat /\ MaxPause \in Nat
  /\ \A size \in {Opening, Steady} : 0 < size.min /\ size.min <= size.target /\ size.target <= size.max
  /\ Emotions \cap (Marks \cup {Delay, None}) = {}

VARIABLES
  reply,    \* what the model has sent
  sent,     \* in how many deltas
  open,     \* it may send more
  held,     \* the scanner's held text
  chunker,  \* the state of both chunkers
  ready,    \* phrases the chunker has yielded and nobody has pulled
  seen      \* phrases pulled so far

text == <<reply, sent, open, held, chunker, ready>>
vars == <<text, seen, pipeline>>

TypeOK ==
  /\ open \in BOOLEAN /\ sent \in 0..MaxDeltas
  /\ \A i \in DOMAIN held : held[i] \in DOMAIN reply
  /\ \A i \in DOMAIN chunker.buffer : chunker.buffer[i] \in DOMAIN reply
  /\ chunker.action \in Emotions \cup {None} /\ chunker.pause \in 0..MaxPause
  /\ PipelineTypeOK /\ Len(sound) = Len(seen)

Init ==
  /\ reply = <<>> /\ sent = 0 /\ open = TRUE /\ held = <<>> /\ ready = <<>>
  /\ chunker = [buffer |-> <<>>, opened |-> FALSE, hasBufferedText |-> FALSE, bufferAction |-> None,
                action |-> None, pause |-> 0, thrown |-> FALSE]
  /\ seen = <<>> /\ PipelineInit

-----------------------------------------------------------------------------
(* Where a phrase may be cut: positions of b are cut positions after them. *)

Is(r, b, k, symbols) == r[b[k]] \in symbols
Letter(r, b, k) == ~Is(r, b, k, Marks)
Prefix(b, cut) == SubSeq(b, 1, cut)
Rest(b, cut) == SubSeq(b, cut + 1, Len(b))

Trim(r, b) ==
  LET solid == {k \in DOMAIN b : ~Is(r, b, k, {" "})} IN
  IF solid = {} THEN <<>> ELSE SubSeq(b, Min(solid), Max(solid))

\* safeSpeechBoundary()
Safe(r, b, cut, final) ==
  /\ Cardinality({k \in 1..cut : Is(r, b, k, {"#"})}) % 2 = 0
  /\ cut \in 1..(Len(b) - 1) => ~(Letter(r, b, cut) /\ Letter(r, b, cut + 1))
  /\ ~final /\ cut = Len(b) => ~Letter(r, b, cut)

\* The end of the first run of terminal marks that leaves a phrase long enough.
Sentences(r, b, size) ==
  LET end == Min({Len(b), size.max}) IN
  {k \in 1..end : /\ Is(r, b, k, {"."}) /\ (k = end \/ ~Is(r, b, k + 1, {"."}))
                  /\ Len(Trim(r, Prefix(b, k))) >= size.min}

Clauses(r, b, size) ==
  {k \in size.min..Min({Len(b), size.max}) : Len(b) >= size.target /\ Is(r, b, k, {","})}

Words(r, b, size) == {k \in (size.min + 1)..Min({Len(b), size.max}) : Is(r, b, k, {" "})}

\* findBoundary(); 0 is none.
Boundary(r, b, size) ==
  CASE Sentences(r, b, size) # {} -> Min(Sentences(r, b, size))
    [] Sentences(r, b, size) = {} /\ Clauses(r, b, size) # {} -> Max(Clauses(r, b, size))
    [] OTHER -> IF Len(b) < size.max THEN 0
                ELSE IF Words(r, b, size) = {} THEN size.max ELSE Max(Words(r, b, size))

\* findSafeAlternative()
Alternatives(r, b, size) ==
  {k \in size.min..Len(b) :
     /\ Is(r, b, k, {"."}) \/ (k >= size.target /\ Is(r, b, k, {" ", ","})) \/ k >= size.max
     /\ Safe(r, b, k, FALSE)}

Cut(r, b, size) ==
  LET found == Boundary(r, b, size) IN
  IF found = 0 \/ Safe(r, b, found, FALSE) THEN found
  ELSE IF Alternatives(r, b, size) = {} THEN 0 ELSE Min(Alternatives(r, b, size))

-----------------------------------------------------------------------------
(* The chunkers.  A result is [c, out]: the new state and what it yields.  *)

Phrase(c, t) == [text |-> t, style |-> c.bufferAction, pause |-> c.pause]

\* A phrase leaves the chunker.
Emit(s, t) == [c |-> [s.c EXCEPT !.opened = TRUE, !.pause = 0], out |-> Append(s.out, Phrase(s.c, t))]

RECURSIVE Cuts(_, _)
Cuts(r, s) ==
  LET b   == s.c.buffer
      cut == Cut(r, b, IF s.c.opened THEN Steady ELSE Opening)
      t   == Trim(r, Prefix(b, cut))
      cutOff == [s EXCEPT !.c.buffer = Rest(b, cut)]
  IN IF cut = 0 THEN s ELSE Cuts(r, IF t = <<>> THEN cutOff ELSE Emit(cutOff, t))

\* After an emission the suffix keeps its style, if there is one.
Governed(r, s) ==
  IF s.out = <<>> THEN s
  ELSE IF Trim(r, s.c.buffer) = <<>> THEN [s EXCEPT !.c.hasBufferedText = FALSE, !.c.bufferAction = None]
  ELSE [s EXCEPT !.c.hasBufferedText = TRUE]

Thrown(c) == [c |-> [c EXCEPT !.thrown = TRUE], out |-> <<>>]

PushText(r, c, t) ==
  LET begun == IF c.hasBufferedText THEN c
               ELSE [c EXCEPT !.hasBufferedText = TRUE, !.bufferAction = c.action]
      s     == Cuts(r, [c |-> [begun EXCEPT !.buffer = @ \o t], out |-> <<>>])
  IN IF Len(s.c.buffer) > MaxBuffered THEN Thrown(s.c) ELSE Governed(r, s)

\* A bug to compare with: the buffer is left as it is at a stage direction.
FlushLater(r, c) == [c |-> c, out |-> <<>>]

Flush(r, c) ==
  LET emptied == [c |-> [c EXCEPT !.buffer = <<>>], out |-> <<>>] IN
  IF ~Safe(r, c.buffer, Len(c.buffer), TRUE) THEN Thrown(c)
  ELSE IF Trim(r, c.buffer) = <<>> THEN emptied
  ELSE Governed(r, Emit(emptied, Trim(r, c.buffer)))

\* What the parser makes of a token: an action, a pause, or nothing at all.
Directed(r, c, body) ==
  LET s == Flush(r, c) IN
  IF Len(body) # 1 \/ r[body[1]] \notin Emotions \cup {Delay} THEN [c |-> c, out |-> <<>>]
  ELSE IF s.c.thrown THEN s
  ELSE IF r[body[1]] = Delay THEN [s EXCEPT !.c.pause = Min({MaxPause, @ + 1})]
  ELSE [s EXCEPT !.c.action = r[body[1]]]

-----------------------------------------------------------------------------
(* The scanner: scanSpeechStream() feeding the chunkers.                   *)

Openers(r, h) == {k \in 1..(Len(h) - 1) : r[h[k]] = "<" /\ r[h[k + 1]] = "|"}
Closers(r, h) == {k \in 3..(Len(h) - 1) : r[h[k]] = "|" /\ r[h[k + 1]] = ">"}

\* A bug to compare with: the first half of a marker is not held back.
EndsCertain(r, h) == FALSE

EndsInDoubt(r, h) == h # <<>> /\ r[Last(h)] = "<"

Then(r, s, step) == [step EXCEPT !.out = s.out \o @]
Say(r, s, t) == IF t = <<>> \/ s.c.thrown THEN s ELSE Then(r, s, PushText(r, s.c, t))
Direct(r, s, body) == IF s.c.thrown THEN s ELSE Then(r, s, Directed(r, s.c, body))

RECURSIVE Scan(_, _, _)
Scan(r, h, s) ==
  LET kept == IF EndsInDoubt(r, h) THEN 1 ELSE 0
      from == Min(Openers(r, h))
      cut  == Rest(h, from - 1)
      end  == Min(Closers(r, cut))
  IN CASE h = <<>> -> [h |-> <<>>, s |-> s]
       [] h # <<>> /\ Openers(r, h) = {} ->
            [h |-> Rest(h, Len(h) - kept), s |-> Say(r, s, Prefix(h, Len(h) - kept))]
       [] Openers(r, h) # {} /\ from > 1 -> Scan(r, cut, Say(r, s, Prefix(h, from - 1)))
       [] Openers(r, h) # {} /\ from = 1 /\ Closers(r, h) # {} ->
            Scan(r, Rest(h, end + 1), Direct(r, s, SubSeq(h, 3, end - 1)))
       [] OTHER -> IF Len(h) > MaxHeld THEN [h |-> <<>>, s |-> Say(r, s, h)] ELSE [h |-> h, s |-> s]

Start(c) == [c |-> c, out |-> <<>>]

-----------------------------------------------------------------------------
(* The steps.  Text is read only when prepare() wants another phrase.      *)

Awaiting == Pulling /\ ready = <<>> /\ ~chunker.thrown

ReadDelta(d) ==
  /\ Awaiting /\ open /\ sent < MaxDeltas /\ sent' = sent + 1
  /\ reply' = reply \o d
  /\ LET new  == [k \in 1..Len(d) |-> Len(reply) + k]
         step == Scan(reply', held \o new, Start(chunker))
     IN held' = step.h /\ chunker' = step.s.c /\ ready' = step.s.out
  /\ UNCHANGED <<open, seen, pipeline>>

\* The stream ends: an unfinished token is dropped, the rest is spoken.
ReadEnd ==
  /\ Awaiting /\ open /\ open' = FALSE
  /\ LET last == IF Openers(reply, held) = {} THEN Say(reply, Start(chunker), held) ELSE Start(chunker)
         done == IF last.c.thrown THEN last ELSE Then(reply, last, Flush(reply, last.c))
     IN chunker' = done.c /\ ready' = done.out
  /\ held' = <<>> /\ UNCHANGED <<reply, sent, seen, pipeline>>

TakePhrase ==
  /\ ready # <<>> /\ Pull
  /\ seen' = Append(seen, Head(ready)) /\ ready' = Tail(ready)
  /\ UNCHANGED <<reply, sent, open, held, chunker>>

TextIsOver ==
  /\ ready = <<>> /\ (chunker.thrown \/ ~open) /\ TextEnds(chunker.thrown)
  /\ UNCHANGED <<text, seen>>

Next ==
  \/ \E d \in Deltas : ReadDelta(d)
  \/ ReadEnd \/ TakePhrase \/ TextIsOver
  \/ Sounds /\ UNCHANGED <<text, seen>>

Spec == Init /\ [][Next]_vars

-----------------------------------------------------------------------------
(* A reply read at once, and what its parts must become.                   *)

Opener(r, i) == {k \in i..(Len(r) - 1) : r[k] = "<" /\ r[k + 1] = "|"}
Closer(r, k) == {j \in (k + 2)..(Len(r) - 1) : r[j] = "|" /\ r[j + 1] = ">"}

\* The tokens of r from i on as pairs of their first and last positions; the last
\* may be unfinished.
RECURSIVE Tokens(_, _)
Tokens(r, i) ==
  IF Opener(r, i) = {} THEN {}
  ELSE LET from == Min(Opener(r, i)) IN
       IF Closer(r, from) = {} THEN {<<from, Len(r)>>}
       ELSE {<<from, Min(Closer(r, from)) + 1>>} \cup Tokens(r, Min(Closer(r, from)) + 2)

\* No token is longer than what the scanner holds back.
Readable(r) == \A t \in Tokens(r, 1) : t[2] - t[1] < MaxHeld

Markup(r) == UNION {t[1]..t[2] : t \in Tokens(r, 1)}
Directions(r, bodies) == {t[1] : t \in {t \in Tokens(r, 1) : t[2] = t[1] + 4 /\ r[t[1] + 2] \in bodies}}
Visible(r) == {i \in DOMAIN r : r[i] # " " /\ i \notin Markup(r)}

Phrases == seen \o ready
Spoken == FlattenSeq([k \in DOMAIN Phrases |-> SelectSeq(Phrases[k].text, LAMBDA i : reply[i] # " ")])

MarkupIsSilent == Readable(reply) => ToSet(Spoken) \subseteq Visible(reply)

TextIsWhole ==
  /\ \A k \in 1..(Len(Spoken) - 1) : Spoken[k] < Spoken[k + 1]
  /\ Readable(reply) /\ result = "returned" /\ ~aborted => ToSet(Spoken) = Visible(reply)

\* "ACT markup MUST NEVER reach TTS": however the stream is cut into deltas, no part of
\* a stage direction is spoken; phrases keep the order of the text, each symbol once; and
\* a reply that ends by itself has been offered for synthesis to its last visible symbol.
SpokenIsTheText == MarkupIsSilent /\ TextIsWhole

Starts(k) == Head(Phrases[k].text)
Stops(k) == IF k = 0 THEN 0 ELSE Last(Phrases[k].text)

\* A stage direction parts the text: no phrase reaches over one, and the pauses
\* before a phrase are those written between it and the phrase before.
DirectionsPartText ==
  Readable(reply) => \A k \in DOMAIN Phrases :
    /\ Directions(reply, Emotions \cup {Delay}) \cap (Starts(k)..Stops(k)) = {}
    /\ Phrases[k].pause = Min({MaxPause, Cardinality(Directions(reply, {Delay}) \cap (Stops(k - 1)..Starts(k)))})

\* What the class says of itself: a phrase is governed by the style in force when its text began.
StyleIsInForce ==
  Readable(reply) => \A k \in DOMAIN Phrases :
    LET before == {i \in Directions(reply, Emotions) : i < Starts(k)} IN
    Phrases[k].style = IF before = {} THEN None ELSE reply[Max(before) + 2]
=============================================================================
