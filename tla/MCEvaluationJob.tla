---------------------------- MODULE MCEvaluationJob ----------------------------
(***************************************************************************)
(* Two evaluations on one node with two run identifiers: each evaluation   *)
(* gets one, or one of them both.                                          *)
(***************************************************************************)
EXTENDS EvaluationJob

CONSTANTS r1, r2, j1, j2
===============================================================================
