--------------------------- MODULE MCStudyExecution ---------------------------
(***************************************************************************)
(* The Runs of the two conditions with experience, with the four effects   *)
(* of study_analysis.py; any executor may be the first.                    *)
(***************************************************************************)
EXTENDS StudyExecution, TLC

CONSTANTS e1, e2

Pair == <<"experience", "both">>

Contrast(none, experience, passes, both) ==
    ("none" :> none) @@ ("experience" :> experience) @@ ("passes" :> passes) @@ ("both" :> both)

Effects ==
    {Contrast(-1, 1, -1, 1), Contrast(-1, -1, 1, 1), Contrast(2, -2, -2, 2),
     Contrast(0, -2, 0, 2)}

Symmetry == Permutations(Executors)
===============================================================================
