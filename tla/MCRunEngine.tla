----------------------------- MODULE MCRunEngine -----------------------------
(***************************************************************************)
(* Runs over three author candidates, two of which are spellings of one    *)
(* program.  A turn may resolve to nothing, to one candidate, or to two.   *)
(***************************************************************************)
EXTENDS RunEngine

CONSTANTS c1, c2, c3

Spellings == [c \in {c1, c2, c3} |-> IF c = c3 THEN c3 ELSE c1]
NoCheckpoint == << >>
OneCheckpoint == <<2>>
TwoCheckpoints == <<1, 3>>
Turns == {<< >>, <<c1, c2>>, <<c1, c3>>}
Singles == {<< >>, <<c1>>}
===============================================================================
