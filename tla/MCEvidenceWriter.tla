--------------------------- MODULE MCEvidenceWriter ---------------------------
(***************************************************************************)
(* Two threads of one process share the ledger of one Run; an auditor runs *)
(* beside them.  One observation and two terminal outcomes are enough for  *)
(* the order of events and for a recovery with another outcome to matter.  *)
(***************************************************************************)
EXTENDS EvidenceWriter, TLC
===============================================================================
