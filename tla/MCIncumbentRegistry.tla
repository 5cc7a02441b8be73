------------------------- MODULE MCIncumbentRegistry -------------------------
(***************************************************************************)
(* Two processes and two cells.  The two candidates share one content, as  *)
(* equal launch manifests do; one of them has a content of its own.        *)
(***************************************************************************)
EXTENDS IncumbentRegistry, TLC

CONSTANTS p1, p2, k1, k2, c1, c2, own, shared

Contents == [c \in {c1, c2} |-> IF c = c1 THEN {shared} ELSE {own, shared}]
SameContents == [c \in {c1, c2} |-> {shared}]
===============================================================================
