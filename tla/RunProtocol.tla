----------------------------- MODULE RunProtocol -----------------------------
(***************************************************************************)
(* What a Run promises whoever reads its outcome: search comes first and   *)
(* ends once, with at most one nominee; only the nominee is measured       *)
(* again, at most once; and the Run concludes once, with a success only if *)
(* that measurement qualified.  A Run may conclude without an answer at    *)
(* any time, and then says so.                                             *)
(***************************************************************************)
EXTENDS Naturals

CONSTANTS Candidates, NoCandidate, Latencies

VARIABLES
    phase,      \* "search", "nominated", "confirmed" or "concluded"
    nominee,    \* a candidate, or NoCandidate
    measured,   \* {} or the nominee's [candidate, latency], 0 if unqualified
    outcome     \* "none" or what the Run concluded: [observation, best]

vars == <<phase, nominee, measured, outcome>>

Nothing == [observation |-> "none", best |-> {}]

Init ==
    /\ phase = "search" /\ nominee = NoCandidate
    /\ measured = {} /\ outcome = Nothing

Nominate ==
    /\ phase = "search" /\ phase' = "nominated"
    /\ nominee' \in Candidates \cup {NoCandidate}
    /\ UNCHANGED <<measured, outcome>>

Confirm(latency) ==
    /\ phase = "nominated" /\ nominee # NoCandidate /\ phase' = "confirmed"
    /\ measured' = {[candidate |-> nominee, latency |-> latency]}
    /\ UNCHANGED <<nominee, outcome>>

Success == {[observation |-> "qualified", best |-> {m}] :
                m \in {k \in measured : k.latency > 0}}
NoSuccess == {[observation |-> "missing", best |-> {}]} \cup
    IF phase = "confirmed" \/ (phase = "nominated" /\ nominee = NoCandidate)
    THEN {[observation |-> "no_qualified_candidate", best |-> {}]} ELSE {}

Conclude ==
    /\ phase # "concluded" /\ phase' = "concluded"
    /\ outcome' \in Success \cup NoSuccess
    /\ UNCHANGED <<nominee, measured>>

Next == Nominate \/ (\E latency \in {0} \cup Latencies : Confirm(latency)) \/ Conclude

Spec == Init /\ [][Next]_vars
===============================================================================
