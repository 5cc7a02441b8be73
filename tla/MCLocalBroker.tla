----------------------------- MODULE MCLocalBroker -----------------------------
(***************************************************************************)
(* A user-scope job with a helper, two jobs of one device and one of       *)
(* another; two of them become their worker by exec.                       *)
(***************************************************************************)
EXTENDS LocalBroker

CONSTANTS u1, d1, d2, e1

Cards == (d1 :> 1) @@ (d2 :> 1) @@ (e1 :> 2)
===============================================================================
