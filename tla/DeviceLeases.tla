----------------------------- MODULE DeviceLeases -----------------------------
(***************************************************************************)
(* What local admission promises about one host: a job is granted the      *)
(* device only while no conflicting job is, and keeps it until it gives it *)
(* back.  LocalBroker is shown to implement this with files and flock.     *)
(***************************************************************************)
CONSTANTS Jobs,
          Conflicting(_, _)  \* two jobs that must not be on the device at once

VARIABLE granted             \* the jobs that hold a lease

LeasesInit == granted = {}

Grant(j) ==
    /\ \A i \in granted : i # j /\ ~Conflicting(i, j)
    /\ granted' = granted \cup {j}

Return(j) ==
    /\ j \in granted
    /\ granted' = granted \ {j}

LeasesNext == \E j \in Jobs : Grant(j) \/ Return(j)

LeasesSpec == LeasesInit /\ [][LeasesNext]_granted
===============================================================================
