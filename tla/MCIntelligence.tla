--------------------------- MODULE MCIntelligence ---------------------------
(***************************************************************************)
(* One member with a message and two commands, two values and two texts, two*)
(* calls of the worker at once; one kind of jobs is switched on at a time.  *)
(***************************************************************************)
EXTENDS Intelligence, TLC

CONSTANTS m1, c1, c2, u1, v1, v2, t1, t2, r1, r2
MCMessages == {m1}
MCCommands == {c1, c2}
MCPersons == {u1}
MCAuthor == [e \in MCMessages \cup MCCommands |-> u1]
MCValues == {v1, v2}
MCTexts == {t1, t2}
MCFlagSets == {{j} : j \in JobTypes}
MCRuns == {r1, r2}
Names == Permutations(MCRuns) \cup Permutations(MCCommands) \cup Permutations(MCValues) \cup Permutations(MCTexts)
=============================================================================
