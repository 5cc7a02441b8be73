---------------------------- MODULE IncumbentChain ----------------------------
(***************************************************************************)
(* What the incumbent registry promises of each comparison cell (ADR 0064):*)
(* a chain of generations that only grows, by one candidate at a time,     *)
(* each measured against the one it replaces.                              *)
(***************************************************************************)
EXTENDS Naturals, Sequences

CONSTANTS Cells, Candidates

VARIABLE chain      \* per cell, one [candidate, baseline] per generation

Advance(k, candidate, baseline) ==
    /\ candidate # baseline
    /\ chain[k] # << >> => baseline = chain[k][Len(chain[k])].candidate
    /\ chain' = [chain EXCEPT ![k] =
                    Append(@, [candidate |-> candidate, baseline |-> baseline])]

ChainInit == chain = [k \in Cells |-> << >>]
ChainNext == \E k \in Cells, candidate, baseline \in Candidates :
                Advance(k, candidate, baseline)
ChainSpec == ChainInit /\ [][ChainNext]_chain
===============================================================================
