----------------------------- MODULE EvidenceLog -----------------------------
(***************************************************************************)
(* What the Evidence context promises about one Run, without files, locks  *)
(* or witnesses: an Event Ledger that only grows, takes at most one        *)
(* terminal event, and may be sealed once that event is its last.  A       *)
(* prefix of it, and then its seal, become durable; one loss of power may  *)
(* take what is not, and ends the ledger.  EvidenceWriter is shown to      *)
(* implement it, with the ledger read off the external frontier witnesses. *)
(***************************************************************************)
EXTENDS Naturals, Sequences

CONSTANTS Observations,  \* payloads of append(): every kind but run_terminal
          Terminals      \* payloads of seal(): the run_terminal event

VARIABLES log,           \* the payloads of the witnessed events, in order
          sealed,        \* the terminal archive has its seal witness
          kept,          \* how much of the log no power loss can take
          sealKept,      \* no power loss can take the seal
          lost           \* the machine has lost power

logVars == <<log, sealed, kept, sealKept, lost>>

LogInit ==
    /\ log = << >> /\ sealed = FALSE
    /\ kept = 0 /\ sealKept = FALSE /\ lost = FALSE

Ended(s) == s # << >> /\ s[Len(s)] \in Terminals

(* Nothing follows the terminal event, so an event is added to a history   *)
(* that has none.                                                          *)
Grow ==
    /\ ~lost /\ ~Ended(log)
    /\ \E payload \in Observations \cup Terminals : log' = Append(log, payload)
    /\ UNCHANGED <<sealed, kept, sealKept, lost>>

Keep ==
    /\ ~lost
    /\ kept' = Len(log)
    /\ UNCHANGED <<log, sealed, sealKept, lost>>

SealLog ==
    /\ ~lost /\ Ended(log)
    /\ ~sealed
    /\ sealed' = TRUE
    /\ UNCHANGED <<log, kept, sealKept, lost>>

KeepSeal ==
    /\ ~lost /\ sealed
    /\ sealKept' = TRUE
    /\ UNCHANGED <<log, sealed, kept, lost>>

Lose ==
    /\ ~lost /\ lost' = TRUE
    /\ \E n \in kept..Len(log) : log' = SubSeq(log, 1, n)
    /\ UNCHANGED sealed \/ (~sealKept /\ sealed' = FALSE)
    /\ UNCHANGED <<kept, sealKept>>

LogNext == Grow \/ Keep \/ SealLog \/ KeepSeal \/ Lose

LogSpec == LogInit /\ [][LogNext]_logVars
==============================================================================
