------------------------ MODULE IncumbentRegistryProofs ------------------------
(***************************************************************************)
(* Proofs about the incumbent registry, for any number of processes,       *)
(* cells, candidates and interruptions.                                    *)
(***************************************************************************)
EXTENDS IncumbentRegistry, TLAPS, FiniteSetTheorems, SequenceTheorems

-------------------------------------------------------------------------------
(* The inductive invariant *)

AllSealed == \A k \in Cells : \A g \in DOMAIN runs[k] : runs[k][g].stage = "sealed"

(* A process carries the promotion that is generation g of cell k. *)
Carries(p, k, g) == pc[p] \in {"append", "seal"} /\ cell[p] = k /\ Generation(p) = g

(* The flock is held exactly by the process that is promoting. *)
Locked == \A p \in Processes : pc[p] \in Promotion <=> lock = p

(* What each cell's Runs are, whoever is at work: a chain of which only    *)
(* the last may be unsealed.                                               *)
ChainOf(k) ==
    /\ \A g \in DOMAIN runs[k] : runs[k][g].candidate # runs[k][g].baseline
    /\ \A g \in 1..(Len(runs[k]) - 1) :
          /\ runs[k][g].stage = "sealed"
          /\ runs[k][g + 1].baseline = runs[k][g].candidate
Chained == \A k \in Cells : ChainOf(k)

(* The promoter that has read the registry knows what it shows until it    *)
(* leaves the lock, but for the Run it writes itself.                      *)
Gathers(p) ==
    /\ listing[p] = Listed /\ AllSealed
    /\ winner[p] # baseline[p] /\ left[p] \subseteq Artifacts[winner[p]]
    /\ Len(runs[cell[p]]) > 0 => baseline[p] = runs[cell[p]][Len(runs[cell[p]])].candidate
    /\ \A o \in Artifacts[winner[p]] \ left[p] :
          objects[o] = "whole" \/ (pc[p] = "unlink" /\ objects[o] = "linked")

Publishes(p) ==
    /\ Len(runs[cell[p]]) = Generation(p)
    /\ runs[cell[p]][Generation(p)].candidate = winner[p]
    /\ \A o \in Artifacts[winner[p]] : objects[o] = "whole"
    /\ runs[cell[p]][Generation(p)].stage # "sealed"
    /\ \A k \in Cells : \A g \in DOMAIN runs[k] :
          runs[k][g].stage # "sealed" => k = cell[p] /\ g = Generation(p)

PromotionOf(p) ==
    /\ pc[p] \in {"put", "unlink"} => Gathers(p)
    /\ pc[p] \in {"append", "seal"} => Publishes(p)
    /\ pc[p] = "reread" => AllSealed
Promotes == \A p \in Processes : PromotionOf(p)

(* A Campaign's baseline stands on a sealed generation, or on none, and a  *)
(* listing is never ahead of the registry.                                 *)
Stands(p) ==
    IF chosen[p] = 0 THEN baseline[p] = Starter
    ELSE /\ chosen[p] <= Len(runs[cell[p]])
         /\ runs[cell[p]][chosen[p]].stage = "sealed"
         /\ baseline[p] = runs[cell[p]][chosen[p]].candidate

LaunchOf(p) ==
    /\ \A k \in Cells : listing[p][k] <= Len(runs[k])
    /\ pc[p] \in {"admit", "admitting", "running"} => Stands(p)
    /\ pc[p] = "admitting" => since[p] <= listing[p][cell[p]]
    /\ pc[p] = "running" => since[p] <= chosen[p]
Launches == \A p \in Processes : LaunchOf(p)

(* Without an interruption, what is half done has a process that does it.  *)
Uninterrupted ==
    interruptions = 0 =>
        /\ root \in {"bare", "unmarked"} => \E p \in Processes : pc[p] = "create"
        /\ \A o \in Objects : objects[o] = "linked" =>
              \E p \in Processes : pc[p] = "unlink" /\ o \in Artifacts[winner[p]] \ left[p]
        /\ \A k \in Cells : \A g \in DOMAIN runs[k] :
              runs[k][g].stage # "sealed" => \E p \in Processes : Carries(p, k, g)

IInv ==
    /\ TypeOK
    /\ Locked
    /\ Chained
    /\ SealedIsReadable
    /\ Promotes
    /\ Launches
    /\ Uninterrupted
    /\ PromoterMeetsNoHalfPromotion

-------------------------------------------------------------------------------
(* Facts about the registry's operators *)

LEMMA RunsType ==
    ASSUME TypeOK, NEW k \in Cells
    PROVE  /\ runs[k] \in Seq(Record) /\ Len(runs[k]) \in Nat
           /\ DOMAIN runs[k] = 1..Len(runs[k])
           /\ \A g \in 1..Len(runs[k]) :
                 runs[k][g] \in Record /\ runs[k][g].candidate \in Candidates
<1>1. runs[k] \in Seq(Record)
  BY DEF TypeOK
<1>2. \A r \in Record : r.candidate \in Candidates
  BY DEF Record
<1> QED
  BY <1>1, <1>2

LEMMA ListedType ==
    ASSUME TypeOK
    PROVE  Listed \in [Cells -> Nat] /\ \A k \in Cells : Listed[k] = Len(runs[k])
BY RunsType DEF Listed

(* The sealed generations are at most all of them. *)
LEMMA SealedCountBound ==
    ASSUME TypeOK, NEW k \in Cells
    PROVE  SealedCount(k) \in Nat /\ SealedCount(k) <= Len(runs[k])
<1>1. IsFiniteSet(1..Len(runs[k])) /\ Cardinality(1..Len(runs[k])) = Len(runs[k])
  BY RunsType, FS_Interval
<1>2. SealedAt(k) \subseteq 1..Len(runs[k])
  BY RunsType DEF SealedAt
<1>3. /\ IsFiniteSet(SealedAt(k)) /\ Cardinality(SealedAt(k)) <= Len(runs[k])
      /\ Cardinality(SealedAt(k)) \in Nat
  BY <1>1, <1>2, FS_Subset, FS_CardinalityType
<1> QED
  BY <1>3 DEF SealedCount

(* A listing that replays shows sealed generations only. *)
LEMMA ReplayedIsSealed ==
    ASSUME NEW seen \in [Cells -> Nat], NEW j \in Cells, Replayable(j, seen),
           NEW k \in Cells, NEW g \in 1..seen[k]
    PROVE  runs[k][g].stage = "sealed"
BY DEF Replayable, Unclean, Clean

(* A registry of sealed, chained generations replays. *)
LEMMA SealedReplays ==
    ASSUME TypeOK, Chained, SealedIsReadable, AllSealed, NEW j \in Cells
    PROVE  Replayable(j, Listed)
<1>1. Unclean(Listed) = {}
  BY RunsType, ListedType DEF Unclean, AllSealed, SealedIsReadable
<1>2. ChainHolds(j, Listed[j])
  <2> SUFFICES ASSUME NEW g \in 2..Len(runs[j])
               PROVE  runs[j][g].baseline = runs[j][g - 1].candidate
    BY ListedType DEF ChainHolds
  <2>1. g - 1 \in 1..(Len(runs[j]) - 1) /\ (g - 1) + 1 = g
    BY RunsType
  <2> QED
    BY <2>1 DEF Chained, ChainOf
<1> QED
  BY <1>1, <1>2 DEF Replayable

LEMMA EndType ==
    ASSUME TypeOK, NEW p \in Processes, NEW outcome \in Endings, End(p, outcome)
    PROVE  /\ pc' \in [Processes -> Labels] /\ lock' \in Processes \cup {Nobody}
           /\ result' \in [Processes -> Endings]
           /\ pc'[p] = "idle" /\ result'[p].from = pc[p] /\ result'[p].kind = outcome.kind
           /\ lock' = IF lock = p THEN Nobody ELSE lock
           /\ \A q \in Processes : q # p => pc'[q] = pc[q] /\ result'[q] = result[q]
BY DEF End, Goto, Unlocked, TypeOK, Endings, Labels

LEMMA OutcomeTypes ==
    /\ \A kind \in {"none", "store", "stale", "no_win", "baseline", "object", "exists",
                    "failed", "killed"} :
          Refused(kind) \in Endings /\ Refused(kind).kind = kind
    /\ \A seen : Outcome("unclean", Unclean(seen), 0) \in Endings
    /\ \A seen : Outcome("unclean", Unclean(seen), 0).kind = "unclean"
    /\ \A n \in Nat : /\ Outcome("promoted", {}, n) \in Endings
                      /\ Outcome("promoted", {}, n).kind = "promoted"
BY DEF Refused, Outcome, Endings, Labels, Unclean

-------------------------------------------------------------------------------
(* Steps *)

(* Whoever does not move keeps what is his. *)
Untouched(p) ==
    \A q \in Processes \ {p} :
        /\ pc'[q] = pc[q] /\ cell'[q] = cell[q] /\ baseline'[q] = baseline[q]
        /\ chosen'[q] = chosen[q] /\ winner'[q] = winner[q]
        /\ listing'[q] = listing[q] /\ left'[q] = left[q]
        /\ since'[q] = since[q] /\ result'[q] = result[q]

(* A step that leaves the disk alone need only be right for the process    *)
(* that takes it.                                                          *)
LEMMA QuietStep ==
    ASSUME IInv, NEW p \in Processes, UNCHANGED diskVars, Untouched(p),
           TypeOK', Locked', PromotionOf(p)', LaunchOf(p)',
           interruptions' = 0 =>
              /\ interruptions = 0
              /\ pc[p] \in {"create", "unlink", "append", "seal"} =>
                    UNCHANGED <<pc[p], cell[p], winner[p], left[p], listing[p]>>
              /\ result'[p].from \in Promotion => result'[p].kind \in {"promoted", "baseline"}
    PROVE  IInv'
<1> USE DEF diskVars
<1>1. Chained' /\ SealedIsReadable'
  BY DEF IInv, Chained, ChainOf, SealedIsReadable, Clean
<1>2. Promotes'
  <2> SUFFICES ASSUME NEW q \in Processes, q # p PROVE PromotionOf(q)'
    BY DEF Promotes
  <2>1. PromotionOf(q)
    BY DEF IInv, Promotes
  <2> QED
    BY <2>1 DEF Untouched, PromotionOf, Gathers, Publishes, AllSealed, Listed, Generation
<1>3. Launches'
  <2> SUFFICES ASSUME NEW q \in Processes, q # p PROVE LaunchOf(q)'
    BY DEF Launches
  <2>1. LaunchOf(q)
    BY DEF IInv, Launches
  <2> QED
    BY <2>1 DEF Untouched, LaunchOf, Stands
<1>4. Uninterrupted'
  <2> SUFFICES ASSUME interruptions' = 0 PROVE Uninterrupted'
    BY DEF Uninterrupted
  <2>1. Uninterrupted /\ interruptions = 0
    BY DEF IInv
  <2>2. \A q \in Processes : pc[q] \in {"create", "unlink", "append", "seal"} =>
           UNCHANGED <<pc[q], cell[q], winner[q], left[q], listing[q]>>
    BY DEF Untouched
  <2> QED
    BY <2>1, <2>2 DEF Uninterrupted, Carries, Generation
<1>5. PromoterMeetsNoHalfPromotion'
  BY DEF IInv, PromoterMeetsNoHalfPromotion, Untouched
<1> QED
  BY <1>1, <1>2, <1>3, <1>4, <1>5 DEF IInv

(* Ending, and going somewhere without the lock, keep the lock right.      *)
LEMMA EndLocks ==
    ASSUME IInv, NEW p \in Processes, NEW outcome \in Endings, End(p, outcome)
    PROVE  Locked'
<1>1. TypeOK /\ Locked
  BY DEF IInv
<1> QED
  BY <1>1, EndType, ProcessAssumption DEF Locked, Promotion

LEMMA GotoLocks ==
    ASSUME IInv, NEW p \in Processes, NEW label \in Labels, Goto(p, label),
           UNCHANGED lock, pc[p] \in Promotion <=> label \in Promotion
    PROVE  /\ Locked' /\ pc' \in [Processes -> Labels] /\ pc'[p] = label
           /\ \A q \in Processes : q # p => pc'[q] = pc[q]
BY DEF IInv, Locked, Goto, TypeOK

(* A process that only ends its Campaign. *)
LEMMA EndStep ==
    ASSUME IInv, NEW p \in Processes, NEW outcome \in Endings, End(p, outcome),
           UNCHANGED diskVars, Untouched(p), TypeOK',
           \A k \in Cells : listing'[p][k] <= Len(runs[k]),
           interruptions' = 0 =>
              /\ interruptions = 0 /\ pc[p] \notin {"create", "unlink", "append", "seal"}
              /\ pc[p] \in Promotion => outcome.kind \in {"promoted", "baseline"}
    PROVE  IInv'
<1>1. TypeOK /\ Locked
  BY DEF IInv
<1>2. Locked'
  BY EndLocks
<1>3. pc'[p] = "idle" /\ result'[p].from = pc[p] /\ result'[p].kind = outcome.kind
  BY <1>1, EndType
<1>4. PromotionOf(p)' /\ LaunchOf(p)'
  BY <1>3 DEF PromotionOf, LaunchOf, diskVars
<1> QED
  BY <1>2, <1>3, <1>4, QuietStep

-------------------------------------------------------------------------------
(* Launch and admission *)

LEMMA LaunchExplicitStep ==
    ASSUME IInv, NEW p \in Processes, LaunchExplicit(p)
    PROVE  IInv'
<1>1. TypeOK
  BY DEF IInv
<1>2. PICK k \in Cells : Start(p, k)
  BY DEF LaunchExplicit
<1>3. PICK candidate \in Candidates : baseline' = [baseline EXCEPT ![p] = candidate]
  BY DEF LaunchExplicit
<1>4. /\ Goto(p, "running_explicit") /\ pc[p] = "idle"
      /\ campaigns' \in Nat /\ cell' = [cell EXCEPT ![p] = k]
      /\ UNCHANGED <<diskVars, lock, chosen, winner, listing, left, result, since,
                     interruptions>>
  BY <1>1, <1>2 DEF LaunchExplicit, Start, TypeOK
<1>5. /\ Locked' /\ pc' \in [Processes -> Labels] /\ pc'[p] = "running_explicit"
      /\ \A q \in Processes : q # p => pc'[q] = pc[q]
  BY <1>4, GotoLocks DEF Promotion, Labels
<1>6. TypeOK'
  BY <1>1, <1>3, <1>4, <1>5 DEF TypeOK, diskVars
<1>7. Untouched(p)
  BY <1>1, <1>3, <1>4, <1>5 DEF TypeOK, Untouched
<1>8. PromotionOf(p)' /\ LaunchOf(p)'
  BY <1>4, <1>5 DEF PromotionOf, LaunchOf, IInv, Launches, diskVars
<1> QED
  BY <1>4, <1>5, <1>6, <1>7, <1>8, QuietStep DEF IInv, PromoterMeetsNoHalfPromotion

LEMMA LaunchWithRegistryStep ==
    ASSUME IInv, NEW p \in Processes, LaunchWithRegistry(p)
    PROVE  IInv'
<1>1. TypeOK /\ Locked /\ LaunchOf(p)
  BY DEF IInv, Launches
<1>2. PICK k \in Cells : Start(p, k)
  BY DEF LaunchWithRegistry
<1>3. /\ pc[p] = "idle" /\ campaigns' \in Nat /\ cell' = [cell EXCEPT ![p] = k]
      /\ chosen' = [chosen EXCEPT ![p] = 0] /\ baseline' = [baseline EXCEPT ![p] = Starter]
      /\ UNCHANGED <<diskVars, winner, left, since, interruptions>>
  BY <1>1, <1>2 DEF LaunchWithRegistry, Start, TypeOK
<1> USE DEF diskVars
<1>4. CASE Goto(p, "admit") /\ UNCHANGED <<lock, result, listing>>
  <2>1. /\ Locked' /\ pc' \in [Processes -> Labels] /\ pc'[p] = "admit"
        /\ \A q \in Processes : q # p => pc'[q] = pc[q]
    BY <1>3, <1>4, GotoLocks DEF Promotion, Labels
  <2>2. TypeOK' /\ Untouched(p)
    BY <1>1, <1>3, <1>4, <2>1, CandidateAssumption DEF TypeOK, Untouched
  <2>3. PromotionOf(p)' /\ LaunchOf(p)'
    BY <1>1, <1>3, <1>4, <2>1 DEF PromotionOf, LaunchOf, Stands, TypeOK
  <2> QED
    BY <1>3, <1>4, <2>1, <2>2, <2>3, QuietStep DEF IInv, PromoterMeetsNoHalfPromotion
<1>5. CASE End(p, Refused("store")) /\ UNCHANGED listing
  <2>1. Refused("store") \in Endings
    BY OutcomeTypes
  <2>2. TypeOK' /\ Untouched(p)
    BY <1>1, <1>3, <1>5, <2>1, EndType, CandidateAssumption DEF TypeOK, Untouched
  <2> QED
    BY <1>1, <1>3, <1>5, <2>1, <2>2, EndStep DEF LaunchOf, Promotion
<1>6. CASE /\ Goto(p, "materialize") /\ listing' = [listing EXCEPT ![p] = Listed]
           /\ UNCHANGED <<lock, result>>
  <2>1. /\ Locked' /\ pc' \in [Processes -> Labels] /\ pc'[p] = "materialize"
        /\ \A q \in Processes : q # p => pc'[q] = pc[q]
    BY <1>3, <1>6, GotoLocks DEF Promotion, Labels
  <2>2. TypeOK' /\ Untouched(p)
    BY <1>1, <1>3, <1>6, <2>1, ListedType, CandidateAssumption DEF TypeOK, Untouched
  <2>3. listing'[p] = Listed
    BY <1>1, <1>6 DEF TypeOK
  <2>4. PromotionOf(p)' /\ LaunchOf(p)'
    BY <1>1, <1>3, <2>1, <2>3, ListedType, RunsType DEF PromotionOf, LaunchOf
  <2> QED
    BY <1>3, <1>6, <2>1, <2>2, <2>4, QuietStep DEF IInv, PromoterMeetsNoHalfPromotion
<1> QED
  BY <1>4, <1>5, <1>6 DEF LaunchWithRegistry

LEMMA MaterializeStep ==
    ASSUME IInv, NEW p \in Processes, Materialize(p)
    PROVE  IInv'
<1> DEFINE k == cell[p]
           n == listing[p][k]
<1>1. TypeOK /\ Locked /\ LaunchOf(p)
  BY DEF IInv, Launches
<1>2. /\ pc[p] = "materialize"
      /\ UNCHANGED <<diskVars, cell, winner, listing, left, since, campaigns,
                     interruptions>>
  BY DEF Materialize
<1> USE DEF diskVars
<1>3. k \in Cells /\ n \in Nat /\ n <= Len(runs[k])
  BY <1>1 DEF TypeOK, LaunchOf
<1>4. CASE RefuseReading(p, listing[p]) /\ UNCHANGED <<chosen, baseline>>
  <2>1. Outcome("unclean", Unclean(listing[p]), 0) \in Endings
    BY OutcomeTypes
  <2>2. TypeOK' /\ Untouched(p)
    BY <1>1, <1>2, <1>4, <2>1, EndType DEF RefuseReading, TypeOK, Untouched
  <2> QED
    BY <1>1, <1>2, <1>4, <2>1, <2>2, EndStep DEF RefuseReading, LaunchOf, Promotion
<1>5. CASE /\ Replayable(k, listing[p])
           /\ chosen' = [chosen EXCEPT ![p] = n]
           /\ baseline' = [baseline EXCEPT ![p] =
                             IF n = 0 THEN Starter ELSE runs[k][n].candidate]
           /\ Goto(p, "admit") /\ UNCHANGED <<lock, result>>
  <2>1. /\ Locked' /\ pc' \in [Processes -> Labels] /\ pc'[p] = "admit"
        /\ \A q \in Processes : q # p => pc'[q] = pc[q]
    BY <1>2, <1>5, GotoLocks DEF Promotion, Labels
  <2>2. (IF n = 0 THEN Starter ELSE runs[k][n].candidate) \in Candidates
    BY <1>1, <1>3, RunsType, CandidateAssumption
  <2>3. TypeOK' /\ Untouched(p)
    BY <1>1, <1>2, <1>3, <1>5, <2>1, <2>2 DEF TypeOK, Untouched
  <2>4. n # 0 => runs[k][n].stage = "sealed"
    <3>1. listing[p] \in [Cells -> Nat]
      BY <1>1 DEF TypeOK
    <3>2. n # 0 => n \in 1..listing[p][k]
      BY <1>3
    <3> HIDE DEF n, k
    <3> QED
      BY <1>3, <1>5, <3>1, <3>2, ReplayedIsSealed
  <2>5. /\ chosen'[p] = n
        /\ baseline'[p] = IF n = 0 THEN Starter ELSE runs[k][n].candidate
    BY <1>1, <1>5 DEF TypeOK
  <2>6. PromotionOf(p)' /\ LaunchOf(p)'
    BY <1>1, <1>2, <1>3, <2>1, <2>4, <2>5 DEF PromotionOf, LaunchOf, Stands
  <2> QED
    BY <1>2, <1>5, <2>1, <2>3, <2>6, QuietStep DEF IInv, PromoterMeetsNoHalfPromotion
<1> QED
  BY <1>4, <1>5 DEF Materialize

LEMMA BeginAdmissionStep ==
    ASSUME IInv, NEW p \in Processes, BeginAdmission(p)
    PROVE  IInv'
<1>1. TypeOK /\ Locked /\ LaunchOf(p)
  BY DEF IInv, Launches
<1>2. /\ pc[p] \in {"admit", "running"}
      /\ since' = [since EXCEPT ![p] = SealedCount(cell[p])]
      /\ listing' = [listing EXCEPT ![p] = Listed]
      /\ UNCHANGED <<diskVars, choiceVars, left, campaigns, interruptions>>
  BY DEF BeginAdmission
<1> USE DEF diskVars, choiceVars
<1>3. cell[p] \in Cells
  BY <1>1 DEF TypeOK
<1>4. SealedCount(cell[p]) \in Nat /\ SealedCount(cell[p]) <= Len(runs[cell[p]])
  BY <1>1, <1>3, SealedCountBound
<1>5. /\ listing'[p] = Listed /\ since'[p] = SealedCount(cell[p])
      /\ \A k \in Cells : Listed[k] = Len(runs[k])
      /\ listing' \in [Processes -> [Cells -> Nat]] /\ since' \in [Processes -> Nat]
      /\ \A q \in Processes : q # p => listing'[q] = listing[q] /\ since'[q] = since[q]
  BY <1>1, <1>2, <1>4, ListedType DEF TypeOK
<1>6. \A k \in Cells : listing'[p][k] <= Len(runs[k])
  BY <1>1, <1>5, RunsType
<1>7. CASE End(p, Refused("store"))
  <2>1. Refused("store") \in Endings
    BY OutcomeTypes
  <2>2. TypeOK' /\ Untouched(p)
    BY <1>1, <1>2, <1>5, <1>7, <2>1, EndType DEF TypeOK, Untouched
  <2> QED
    BY <1>2, <1>6, <1>7, <2>1, <2>2, EndStep DEF Promotion
<1>8. CASE Goto(p, "admitting") /\ UNCHANGED <<lock, result>>
  <2>1. /\ Locked' /\ pc' \in [Processes -> Labels] /\ pc'[p] = "admitting"
        /\ \A q \in Processes : q # p => pc'[q] = pc[q]
    BY <1>2, <1>8, GotoLocks DEF Promotion, Labels
  <2>2. TypeOK' /\ Untouched(p)
    BY <1>1, <1>2, <1>5, <1>8, <2>1 DEF TypeOK, Untouched
  <2>3. since'[p] <= listing'[p][cell[p]]
    BY <1>3, <1>4, <1>5
  <2>4. Stands(p)'
    BY <1>1, <1>2 DEF LaunchOf, Stands
  <2>5. PromotionOf(p)' /\ LaunchOf(p)'
    BY <1>2, <1>6, <2>1, <2>3, <2>4 DEF PromotionOf, LaunchOf
  <2> QED
    BY <1>2, <1>8, <2>1, <2>2, <2>5, QuietStep DEF IInv, PromoterMeetsNoHalfPromotion
<1> QED
  BY <1>7, <1>8 DEF BeginAdmission

LEMMA AdmitStep ==
    ASSUME IInv, NEW p \in Processes, Admit(p)
    PROVE  IInv'
<1>1. TypeOK /\ Locked /\ LaunchOf(p)
  BY DEF IInv, Launches
<1>2. /\ pc[p] = "admitting"
      /\ UNCHANGED <<diskVars, choiceVars, listing, left, since, campaigns, interruptions>>
  BY DEF Admit
<1> USE DEF diskVars, choiceVars
<1>3. ASSUME NEW outcome \in Endings, End(p, outcome)
      PROVE  IInv'
  <2>1. TypeOK' /\ Untouched(p)
    BY <1>1, <1>2, <1>3, EndType DEF TypeOK, Untouched
  <2> QED
    BY <1>1, <1>2, <1>3, <2>1, EndStep DEF Promotion, LaunchOf
<1>4. CASE RefuseReading(p, listing[p]) \/ End(p, Refused("stale"))
  BY <1>3, <1>4, OutcomeTypes DEF RefuseReading
<1>5. CASE StillSelected(p) /\ Goto(p, "running") /\ UNCHANGED <<lock, result>>
  <2>1. /\ Locked' /\ pc' \in [Processes -> Labels] /\ pc'[p] = "running"
        /\ \A q \in Processes : q # p => pc'[q] = pc[q]
    BY <1>2, <1>5, GotoLocks DEF Promotion, Labels
  <2>2. TypeOK' /\ Untouched(p)
    BY <1>1, <1>2, <1>5, <2>1 DEF TypeOK, Untouched
  <2>3. since[p] <= chosen[p]
    BY <1>1, <1>2, <1>5 DEF LaunchOf, StillSelected
  <2>4. PromotionOf(p)' /\ LaunchOf(p)'
    BY <1>1, <1>2, <2>1, <2>3 DEF PromotionOf, LaunchOf, Stands
  <2> QED
    BY <1>2, <1>5, <2>1, <2>2, <2>4, QuietStep DEF IInv, PromoterMeetsNoHalfPromotion
<1> QED
  BY <1>4, <1>5 DEF Admit

LEMMA ConfirmStep ==
    ASSUME IInv, NEW p \in Processes, Confirm(p)
    PROVE  IInv'
<1>1. TypeOK /\ Locked /\ LaunchOf(p)
  BY DEF IInv, Launches
<1>2. /\ pc[p] \in {"running", "running_explicit"}
      /\ UNCHANGED <<diskVars, cell, baseline, chosen, listing, left, since, campaigns,
                     interruptions>>
  BY DEF Confirm
<1> USE DEF diskVars
<1>3. CASE End(p, Refused("no_win")) /\ UNCHANGED winner
  <2>1. Refused("no_win") \in Endings
    BY OutcomeTypes
  <2>2. TypeOK' /\ Untouched(p)
    BY <1>1, <1>2, <1>3, <2>1, EndType DEF TypeOK, Untouched
  <2> QED
    BY <1>1, <1>2, <1>3, <2>1, <2>2, EndStep DEF Promotion, LaunchOf
<1>4. ASSUME NEW candidate \in Candidates, winner' = [winner EXCEPT ![p] = candidate],
             Goto(p, "enter"), UNCHANGED <<lock, result>>
      PROVE  IInv'
  <2>1. /\ Locked' /\ pc' \in [Processes -> Labels] /\ pc'[p] = "enter"
        /\ \A q \in Processes : q # p => pc'[q] = pc[q]
    BY <1>2, <1>4, GotoLocks DEF Promotion, Labels
  <2>2. TypeOK' /\ Untouched(p)
    BY <1>1, <1>2, <1>4, <2>1 DEF TypeOK, Untouched
  <2>3. PromotionOf(p)' /\ LaunchOf(p)'
    BY <1>1, <1>2, <2>1 DEF PromotionOf, LaunchOf
  <2> QED
    BY <1>2, <1>4, <2>1, <2>2, <2>3, QuietStep DEF IInv, PromoterMeetsNoHalfPromotion
<1> QED
  BY <1>3, <1>4 DEF Confirm

-------------------------------------------------------------------------------
(* Promotion under the lock *)

LEMMA OnlyPromoter ==
    ASSUME IInv, NEW p \in Processes, pc[p] \in Promotion
    PROVE  lock = p /\ \A q \in Processes : q # p => pc[q] \notin Promotion
BY DEF IInv, Locked

(* A step of the promoter that writes to the disk: Runs only grow, and a   *)
(* sealed one does not change.                                             *)
Grown ==
    \A k \in Cells :
        /\ Len(runs[k]) <= Len(runs'[k])
        /\ \A g \in 1..Len(runs[k]) :
              /\ runs'[k][g].candidate = runs[k][g].candidate
              /\ runs[k][g].stage = "sealed" => runs'[k][g].stage = "sealed"

LEMMA GrownIfUnchanged == ASSUME TypeOK, UNCHANGED runs PROVE Grown
BY RunsType DEF Grown

LEMMA PromoterStep ==
    ASSUME IInv, NEW p \in Processes, pc[p] \in Promotion, pc'[p] \in Promotion,
           Untouched(p), UNCHANGED <<lock, listing, cell, result, interruptions>>,
           TypeOK', Grown, Chained', SealedIsReadable', PromotionOf(p)', Uninterrupted'
    PROVE  IInv'
<1>1. TypeOK /\ lock = p /\ \A q \in Processes : q # p => pc[q] \notin Promotion
  BY OnlyPromoter DEF IInv
<1>2. Locked'
  BY <1>1 DEF Untouched, Locked
<1>3. Promotes'
  BY <1>1 DEF Untouched, Promotes, PromotionOf, Promotion
<1>4. Launches'
  <2>1. \A k \in Cells : Len(runs[k]) \in Nat /\ Len(runs'[k]) \in Nat
    BY <1>1, RunsType DEF TypeOK
  <2>2. \A q \in Processes, k \in Cells : listing[q][k] \in Nat /\ listing[q][k] <= Len(runs[k])
    BY <1>1 DEF TypeOK, IInv, Launches, LaunchOf
  <2>3. \A q \in Processes, k \in Cells : listing'[q][k] <= Len(runs'[k])
    BY <2>1, <2>2 DEF Grown
  <2>4. ASSUME NEW q \in Processes, q # p PROVE LaunchOf(q)'
    <3>1. LaunchOf(q) /\ cell[q] \in Cells /\ chosen[q] \in Nat
      BY <1>1 DEF IInv, Launches, TypeOK
    <3>2. ASSUME Stands(q) PROVE Stands(q)'
      <4>1. CASE chosen[q] = 0
        BY <3>2, <4>1, <2>4 DEF Stands, Untouched
      <4>2. CASE chosen[q] # 0
        <5>1. chosen[q] \in 1..Len(runs[cell[q]]) /\ chosen[q] <= Len(runs'[cell[q]])
          BY <3>1, <3>2, <4>2, <2>1 DEF Stands, Grown
        <5> QED
          BY <3>1, <3>2, <4>2, <5>1, <2>4 DEF Stands, Untouched, Grown
      <4> QED
        BY <4>1, <4>2
    <3> QED
      BY <2>3, <2>4, <3>1, <3>2 DEF LaunchOf, Untouched
  <2>5. LaunchOf(p)'
    BY <2>3 DEF LaunchOf, Promotion
  <2> QED
    BY <2>4, <2>5 DEF Launches
<1>5. PromoterMeetsNoHalfPromotion'
  BY DEF IInv, PromoterMeetsNoHalfPromotion
<1> QED
  BY <1>2, <1>3, <1>4, <1>5 DEF IInv

LEMMA LockStep ==
    ASSUME IInv, NEW p \in Processes, Lock(p)
    PROVE  IInv'
<1>1. TypeOK /\ Locked /\ LaunchOf(p)
  BY DEF IInv, Launches
<1>2. /\ pc[p] = "enter" /\ lock = Nobody /\ lock' = p
      /\ pc' = [pc EXCEPT ![p] = "open"]
      /\ UNCHANGED <<diskVars, choiceVars, listing, left, result, since, campaigns,
                     interruptions>>
  BY DEF Lock, Goto
<1> USE DEF diskVars, choiceVars
<1>3. TypeOK' /\ Untouched(p) /\ pc'[p] = "open"
  BY <1>1, <1>2 DEF TypeOK, Untouched, Labels, Promotion
<1>4. Locked'
  BY <1>1, <1>2, <1>3, ProcessAssumption DEF Locked, Untouched, Promotion
<1>5. PromotionOf(p)' /\ LaunchOf(p)'
  BY <1>1, <1>2, <1>3 DEF PromotionOf, LaunchOf
<1> QED
  BY <1>2, <1>3, <1>4, <1>5, QuietStep DEF IInv, PromoterMeetsNoHalfPromotion

(* No Run is open, and without an interruption no object either.           *)
LEMMA NothingHalfDone ==
    ASSUME IInv, NEW p \in Processes, pc[p] \in Promotion, interruptions = 0
    PROVE  /\ pc[p] # "create" => root \in {"absent", "ready"}
           /\ pc[p] # "unlink" => \A o \in Objects : objects[o] # "linked"
           /\ pc[p] \notin {"append", "seal"} => AllSealed
<1>1. \A q \in Processes : q # p => pc[q] \notin Promotion
  BY OnlyPromoter
<1>2. Uninterrupted /\ TypeOK
  BY DEF IInv
<1> QED
  BY <1>1, <1>2 DEF Uninterrupted, Carries, AllSealed, Promotion, TypeOK

LEMMA OpenStoreStep ==
    ASSUME IInv, NEW p \in Processes, OpenStore(p)
    PROVE  IInv'
<1>1. TypeOK /\ LaunchOf(p) /\ Locked
  BY DEF IInv, Launches
<1>2. /\ pc[p] = "open"
      /\ UNCHANGED <<objects, runs, choiceVars, listing, left, since, campaigns,
                     interruptions>>
  BY DEF OpenStore
<1> USE DEF choiceVars
<1>3. CASE root = "absent" /\ root' = "bare" /\ Goto(p, "create") /\ UNCHANGED <<lock, result>>
  <2>1. /\ pc' \in [Processes -> Labels] /\ pc'[p] = "create"
        /\ \A q \in Processes : q # p => pc'[q] = pc[q]
    BY <1>2, <1>3, GotoLocks DEF Promotion, Labels
  <2>2. TypeOK' /\ Untouched(p)
    BY <1>1, <1>2, <1>3, <2>1 DEF TypeOK, Untouched
  <2>3. Chained' /\ SealedIsReadable' /\ PromotionOf(p)'
    BY <1>2, <2>1 DEF IInv, Chained, ChainOf, SealedIsReadable, Clean, PromotionOf
  <2>4. Uninterrupted'
    <3>1. Uninterrupted
      BY DEF IInv
    <3>2. \A q \in Processes : pc[q] \in {"unlink", "append", "seal"} => q # p
      BY <1>2
    <3> QED
      BY <1>2, <2>1, <3>1, <3>2 DEF Uninterrupted, Carries, Generation
  <2> QED
    BY <1>1, <1>2, <1>3, <2>1, <2>2, <2>3, <2>4, PromoterStep, GrownIfUnchanged DEF Promotion
<1>4. CASE root = "ready" /\ Goto(p, "read") /\ UNCHANGED <<root, lock, result>>
  <2>1. /\ Locked' /\ pc' \in [Processes -> Labels] /\ pc'[p] = "read"
        /\ \A q \in Processes : q # p => pc'[q] = pc[q]
    BY <1>2, <1>4, GotoLocks DEF Promotion, Labels
  <2>2. TypeOK' /\ Untouched(p)
    BY <1>1, <1>2, <1>4, <2>1 DEF TypeOK, Untouched
  <2>3. PromotionOf(p)' /\ LaunchOf(p)'
    BY <1>1, <1>2, <2>1 DEF PromotionOf, LaunchOf
  <2> QED
    BY <1>2, <1>4, <2>1, <2>2, <2>3, QuietStep
       DEF diskVars, IInv, PromoterMeetsNoHalfPromotion
<1>5. CASE root \in {"bare", "unmarked"} /\ End(p, Refused("store")) /\ UNCHANGED root
  <2>1. Refused("store") \in Endings
    BY OutcomeTypes
  <2>2. TypeOK' /\ Untouched(p)
    BY <1>1, <1>2, <1>5, <2>1, EndType DEF TypeOK, Untouched
  <2>3. interruptions # 0
    BY <1>2, <1>5, NothingHalfDone DEF Promotion
  <2> QED
    BY <1>1, <1>2, <1>5, <2>1, <2>2, <2>3, EndStep DEF diskVars, LaunchOf
<1> QED
  BY <1>3, <1>4, <1>5 DEF OpenStore

LEMMA CreateStoreStep ==
    ASSUME IInv, NEW p \in Processes, CreateStore(p)
    PROVE  IInv'
<1>1. TypeOK /\ LaunchOf(p) /\ Locked
  BY DEF IInv, Launches
<1>2. /\ pc[p] = "create"
      /\ UNCHANGED <<objects, runs, lock, choiceVars, listing, left, result, since,
                     campaigns, interruptions>>
      /\ \/ root = "bare" /\ root' = "unmarked" /\ pc' = pc
         \/ root = "unmarked" /\ root' = "ready" /\ pc' = [pc EXCEPT ![p] = "read"]
  BY DEF CreateStore, Goto
<1> USE DEF choiceVars
<1>3. /\ pc' \in [Processes -> Labels] /\ pc'[p] \in {"create", "read"}
      /\ \A q \in Processes : q # p => pc'[q] = pc[q]
  BY <1>1, <1>2 DEF TypeOK, Labels, Promotion
<1>4. TypeOK' /\ Untouched(p)
  BY <1>1, <1>2, <1>3 DEF TypeOK, Untouched
<1>5. Chained' /\ SealedIsReadable' /\ PromotionOf(p)'
  BY <1>2, <1>3 DEF IInv, Chained, ChainOf, SealedIsReadable, Clean, PromotionOf
<1>6. Uninterrupted'
  <2>1. Uninterrupted
    BY DEF IInv
  <2>2. \A q \in Processes : pc[q] \in {"unlink", "append", "seal"} => q # p
    BY <1>2
  <2>3. root' \in {"bare", "unmarked"} => pc'[p] = "create"
    BY <1>2
  <2> QED
    BY <1>2, <1>3, <2>1, <2>2, <2>3 DEF Uninterrupted, Carries, Generation
<1> QED
  BY <1>1, <1>2, <1>3, <1>4, <1>5, <1>6, PromoterStep, GrownIfUnchanged DEF Promotion

LEMMA ReadCurrentStep ==
    ASSUME IInv, NEW p \in Processes, ReadCurrent(p)
    PROVE  IInv'
<1> DEFINE k == cell[p]
<1>1. TypeOK /\ LaunchOf(p) /\ Locked /\ Chained /\ SealedIsReadable
  BY DEF IInv, Launches
<1>2. /\ pc[p] = "read"
      /\ UNCHANGED <<diskVars, choiceVars, since, campaigns, interruptions>>
  BY DEF ReadCurrent
<1> USE DEF diskVars, choiceVars
<1>3. k \in Cells
  BY <1>1 DEF TypeOK
<1>4. ASSUME NEW outcome \in Endings, End(p, outcome), UNCHANGED <<listing, left>>,
             interruptions = 0 => outcome.kind \in {"promoted", "baseline"}
      PROVE  IInv'
  <2>1. TypeOK' /\ Untouched(p)
    BY <1>1, <1>2, <1>4, EndType DEF TypeOK, Untouched
  <2> QED
    BY <1>1, <1>2, <1>4, <2>1, EndStep DEF LaunchOf
<1>5. CASE ~Replayable(k, Listed) /\ RefuseReading(p, Listed) /\ UNCHANGED <<listing, left>>
  <2>1. interruptions # 0
    BY <1>1, <1>2, <1>3, <1>5, NothingHalfDone, SealedReplays DEF Promotion
  <2> QED
    BY <1>4, <1>5, <2>1, OutcomeTypes DEF RefuseReading
<1>6. CASE End(p, Refused("baseline")) /\ UNCHANGED <<listing, left>>
  BY <1>4, <1>6, OutcomeTypes
<1>7. CASE /\ Replayable(k, Listed) /\ Advances(p, Len(runs[k]))
           /\ listing' = [listing EXCEPT ![p] = Listed]
           /\ left' = [left EXCEPT ![p] = Artifacts[winner[p]]]
           /\ Goto(p, "put") /\ UNCHANGED <<lock, result>>
  <2>1. /\ Locked' /\ pc' \in [Processes -> Labels] /\ pc'[p] = "put"
        /\ \A q \in Processes : q # p => pc'[q] = pc[q]
    BY <1>2, <1>7, GotoLocks DEF Promotion, Labels
  <2>2. Artifacts[winner[p]] \in SUBSET Objects
    BY <1>1, CandidateAssumption DEF TypeOK
  <2>3. TypeOK' /\ Untouched(p)
    BY <1>1, <1>2, <1>7, <2>1, <2>2, ListedType DEF TypeOK, Untouched
  <2>4. listing'[p] = Listed /\ left'[p] = Artifacts[winner[p]] /\ Listed' = Listed
    BY <1>1, <1>2, <1>7 DEF TypeOK, Listed
  <2>5. AllSealed
    <3> SUFFICES ASSUME NEW j \in Cells, NEW g \in DOMAIN runs[j]
                 PROVE  runs[j][g].stage = "sealed"
      BY DEF AllSealed
    <3>1. g \in 1..Listed[j] /\ Listed \in [Cells -> Nat]
      BY <1>1, RunsType, ListedType
    <3> QED
      BY <1>3, <1>7, <3>1, ReplayedIsSealed
  <2>6. Gathers(p)'
    BY <1>2, <1>7, <2>4, <2>5 DEF Gathers, Advances, AllSealed
  <2>7. PromotionOf(p)' /\ LaunchOf(p)'
    BY <1>1, <1>2, <2>1, <2>4, <2>6, ListedType, RunsType DEF PromotionOf, LaunchOf
  <2> QED
    BY <1>2, <1>7, <2>1, <2>3, <2>7, QuietStep DEF IInv, PromoterMeetsNoHalfPromotion
<1> QED
  BY <1>5, <1>6, <1>7 DEF ReadCurrent

(* Objects only become whole: what is readable stays so. *)
LEMMA ReadableStays ==
    ASSUME SealedIsReadable, UNCHANGED runs, TypeOK,
           \A o \in Objects : objects[o] = "whole" => objects'[o] = "whole"
    PROVE  SealedIsReadable'
<1> SUFFICES ASSUME NEW k \in Cells, NEW g \in 1..Len(runs[k]),
                    runs[k][g].stage = "sealed"
             PROVE  \A o \in Artifacts[runs[k][g].candidate] : objects'[o] = "whole"
  BY RunsType DEF SealedIsReadable, Clean
<1>1. Artifacts[runs[k][g].candidate] \in SUBSET Objects
  BY RunsType, CandidateAssumption
<1>2. \A o \in Artifacts[runs[k][g].candidate] : objects[o] = "whole"
  BY RunsType DEF SealedIsReadable, Clean
<1> QED
  BY <1>1, <1>2

LEMMA PutStep ==
    ASSUME IInv, NEW p \in Processes, Put(p)
    PROVE  IInv'
<1>1. TypeOK /\ LaunchOf(p) /\ Locked /\ Gathers(p) /\ Chained /\ SealedIsReadable
  BY DEF IInv, Launches, Promotes, PromotionOf, Put
<1>2. /\ pc[p] = "put"
      /\ UNCHANGED <<root, runs, choiceVars, listing, since, campaigns, interruptions>>
  BY DEF Put
<1> USE DEF choiceVars
<1>3. PICK o \in left[p] :
         \/ /\ objects[o] = "absent"
            /\ objects' = [objects EXCEPT ![o] = "linked"]
            /\ Skip(p, o) /\ Goto(p, "unlink") /\ UNCHANGED <<lock, result>>
         \/ /\ objects[o] = "whole"
            /\ Skip(p, o) /\ UNCHANGED <<objects, pc, lock, result>>
         \/ /\ objects[o] = "linked"
            /\ End(p, Refused("object")) /\ UNCHANGED <<objects, left>>
  BY DEF Put
<1>4. o \in Objects /\ left[p] \in SUBSET Objects
  BY <1>1 DEF TypeOK
<1>5. CASE /\ objects[o] = "absent" /\ objects' = [objects EXCEPT ![o] = "linked"]
           /\ Skip(p, o) /\ Goto(p, "unlink") /\ UNCHANGED <<lock, result>>
  <2>1. /\ pc' \in [Processes -> Labels] /\ pc'[p] = "unlink"
        /\ \A q \in Processes : q # p => pc'[q] = pc[q]
    BY <1>2, <1>5, GotoLocks DEF Promotion, Labels
  <2>2. /\ left' \in [Processes -> SUBSET Objects] /\ left'[p] = left[p] \ {o}
        /\ \A q \in Processes : q # p => left'[q] = left[q]
    BY <1>1, <1>4, <1>5 DEF TypeOK, Skip
  <2>3. /\ objects' \in [Objects -> {"absent", "linked", "whole"}]
        /\ objects'[o] = "linked" /\ \A x \in Objects : x # o => objects'[x] = objects[x]
    BY <1>1, <1>4, <1>5 DEF TypeOK
  <2>4. TypeOK' /\ Untouched(p)
    BY <1>1, <1>2, <1>5, <2>1, <2>2, <2>3 DEF TypeOK, Untouched
  <2>5. Chained' /\ SealedIsReadable'
    BY <1>1, <1>2, <1>5, <2>3, ReadableStays DEF Chained, ChainOf
  <2>6. Artifacts[winner[p]] \in SUBSET Objects
    BY <1>1, CandidateAssumption DEF TypeOK
  <2>7. Gathers(p)'
    BY <1>1, <1>2, <2>1, <2>2, <2>3, <2>6 DEF Gathers, AllSealed, Listed
  <2>8. Uninterrupted'
    <3> SUFFICES ASSUME interruptions = 0 PROVE Uninterrupted'
      BY <1>2 DEF Uninterrupted
    <3>1. root \in {"absent", "ready"} /\ AllSealed /\ \A x \in Objects : objects[x] # "linked"
      BY <1>2, NothingHalfDone DEF Promotion
    <3>2. o \in Artifacts[winner[p]] \ left'[p] \/ o \notin Artifacts[winner[p]]
      BY <2>2
    <3>3. o \in Artifacts[winner[p]]
      BY <1>1, <1>2 DEF Gathers
    <3> QED
      BY <1>2, <2>1, <2>3, <3>1, <3>2, <3>3 DEF Uninterrupted, AllSealed
  <2>9. PromotionOf(p)'
    BY <2>1, <2>7 DEF PromotionOf
  <2> QED
    BY <1>1, <1>2, <1>5, <2>1, <2>4, <2>5, <2>8, <2>9, PromoterStep, GrownIfUnchanged
       DEF Promotion
<1>6. CASE objects[o] = "whole" /\ Skip(p, o) /\ UNCHANGED <<objects, pc, lock, result>>
  <2>1. /\ left' \in [Processes -> SUBSET Objects] /\ left'[p] = left[p] \ {o}
        /\ \A q \in Processes : q # p => left'[q] = left[q]
    BY <1>1, <1>4, <1>6 DEF TypeOK, Skip
  <2>2. TypeOK' /\ Untouched(p) /\ Locked'
    BY <1>1, <1>2, <1>6, <2>1 DEF TypeOK, Untouched, Locked
  <2>3. Gathers(p)'
    BY <1>1, <1>2, <1>6, <2>1 DEF Gathers, AllSealed, Listed
  <2>4. PromotionOf(p)' /\ LaunchOf(p)'
    BY <1>1, <1>2, <1>6, <2>3 DEF PromotionOf, LaunchOf
  <2> QED
    BY <1>2, <1>6, <2>2, <2>4, QuietStep DEF diskVars, IInv, PromoterMeetsNoHalfPromotion
<1>7. CASE objects[o] = "linked" /\ End(p, Refused("object")) /\ UNCHANGED <<objects, left>>
  <2>1. Refused("object") \in Endings
    BY OutcomeTypes
  <2>2. TypeOK' /\ Untouched(p)
    BY <1>1, <1>2, <1>7, <2>1, EndType DEF TypeOK, Untouched
  <2>3. interruptions # 0
    BY <1>2, <1>4, <1>7, NothingHalfDone DEF Promotion
  <2> QED
    BY <1>1, <1>2, <1>7, <2>1, <2>2, <2>3, EndStep DEF diskVars, LaunchOf
<1> QED
  BY <1>3, <1>5, <1>6, <1>7

LEMMA UnlinkStep ==
    ASSUME IInv, NEW p \in Processes, Unlink(p)
    PROVE  IInv'
<1>1. TypeOK /\ Gathers(p) /\ Chained /\ SealedIsReadable /\ pc[p] = "unlink"
  BY DEF IInv, Promotes, PromotionOf, Unlink
<1>2. /\ objects' = Unlinked(p) /\ Goto(p, "put")
      /\ UNCHANGED <<root, runs, lock, choiceVars, listing, left, result, since,
                     campaigns, interruptions>>
  BY DEF Unlink
<1> USE DEF choiceVars
<1>3. /\ pc' \in [Processes -> Labels] /\ pc'[p] = "put"
      /\ \A q \in Processes : q # p => pc'[q] = pc[q]
  BY <1>1, <1>2, GotoLocks DEF Promotion, Labels
<1>4. /\ objects' \in [Objects -> {"absent", "linked", "whole"}]
      /\ \A o \in Objects : objects'[o] = IF o \in InFlight(p) THEN "whole" ELSE objects[o]
  BY <1>1, <1>2 DEF Unlinked, TypeOK
<1>5. TypeOK' /\ Untouched(p)
  BY <1>1, <1>2, <1>3, <1>4 DEF TypeOK, Untouched
<1>6. Chained' /\ SealedIsReadable'
  BY <1>1, <1>2, <1>4, ReadableStays DEF Chained, ChainOf
<1>7. Artifacts[winner[p]] \in SUBSET Objects
  BY <1>1, CandidateAssumption DEF TypeOK
<1>8. Gathers(p)'
  <2>1. \A o \in Artifacts[winner[p]] \ left[p] : objects'[o] = "whole"
    BY <1>1, <1>4, <1>7 DEF Gathers, InFlight
  <2> QED
    BY <1>1, <1>2, <2>1 DEF Gathers, AllSealed, Listed
<1>9. Uninterrupted'
  <2> SUFFICES ASSUME interruptions = 0 PROVE Uninterrupted'
    BY <1>2 DEF Uninterrupted
  <2>1. root \in {"absent", "ready"} /\ AllSealed /\ Uninterrupted
    BY <1>1, NothingHalfDone DEF Promotion, IInv
  <2>2. \A q \in Processes : pc[q] = "unlink" => q = p
    BY <1>1, OnlyPromoter DEF Promotion
  <2>3. \A o \in Objects : objects[o] = "linked" => o \in InFlight(p)
    BY <2>1, <2>2 DEF Uninterrupted, InFlight
  <2>4. \A o \in Objects : objects'[o] # "linked"
    BY <1>4, <2>3
  <2> QED
    BY <1>2, <2>1, <2>4 DEF Uninterrupted, AllSealed
<1>10. PromotionOf(p)'
  BY <1>3, <1>8 DEF PromotionOf
<1> QED
  BY <1>1, <1>2, <1>3, <1>5, <1>6, <1>9, <1>10, PromoterStep, GrownIfUnchanged
     DEF Promotion

LEMMA StartPromotionStep ==
    ASSUME IInv, NEW p \in Processes, StartPromotion(p)
    PROVE  IInv'
<1> DEFINE k == cell[p]
           n == Len(runs[k])
           run == [candidate |-> winner[p], baseline |-> baseline[p], stage |-> "started"]
<1>1. /\ TypeOK /\ LaunchOf(p) /\ Locked /\ Chained /\ SealedIsReadable
      /\ Gathers(p) /\ pc[p] = "put" /\ left[p] = {}
  BY DEF IInv, Launches, Promotes, PromotionOf, StartPromotion
<1>2. UNCHANGED <<root, objects, choiceVars, listing, left, since, campaigns, interruptions>>
  BY DEF StartPromotion
<1> USE DEF choiceVars
<1>3. /\ k \in Cells /\ runs[k] \in Seq(Record) /\ n \in Nat /\ run \in Record
      /\ listing[p][k] = n /\ Generation(p) = n + 1
  BY <1>1, ListedType, RunsType DEF TypeOK, Gathers, Generation, Record
<1> HIDE DEF run
<1>4. /\ runs' = [runs EXCEPT ![k] = Append(@, run)]
      /\ Goto(p, "append") /\ UNCHANGED <<lock, result>>
  BY <1>3 DEF StartPromotion, run
<1>5. /\ pc' \in [Processes -> Labels] /\ pc'[p] = "append"
      /\ \A q \in Processes : q # p => pc'[q] = pc[q]
  BY <1>1, <1>4, GotoLocks DEF Promotion, Labels
<1>6. /\ runs' \in [Cells -> Seq(Record)]
      /\ runs'[k] = Append(runs[k], run)
      /\ \A j \in Cells : j # k => runs'[j] = runs[j]
  <2>1. Append(runs[k], run) \in Seq(Record)
    BY <1>3
  <2> QED
    BY <1>1, <1>3, <1>4, <2>1 DEF TypeOK
<1>7. /\ Len(runs'[k]) = n + 1 /\ DOMAIN runs'[k] = 1..(n + 1)
      /\ runs'[k][n + 1] = run /\ \A g \in 1..n : runs'[k][g] = runs[k][g]
  BY <1>3, <1>6
<1>8. TypeOK' /\ Untouched(p)
  BY <1>1, <1>2, <1>4, <1>5, <1>6 DEF TypeOK, Untouched
<1>9. /\ run.candidate = winner[p] /\ run.baseline = baseline[p] /\ run.stage = "started"
      /\ winner[p] # baseline[p]
      /\ n > 0 => baseline[p] = runs[k][n].candidate
  BY <1>1 DEF run, Gathers
<1>10. \A j \in Cells : \A g \in 1..Len(runs[j]) : runs[j][g].stage = "sealed"
  BY <1>1, RunsType DEF Gathers, AllSealed
<1> HIDE DEF n, k
<1>11. Grown
  <2>1. \A j \in Cells : j # k => runs'[j] = runs[j]
    BY <1>6
  <2>2. n <= n + 1 /\ n = Len(runs[k])
    BY <1>3 DEF n
  <2> QED
    BY <1>1, <1>7, <2>1, <2>2, RunsType DEF Grown
<1>12. Chained'
  <2> SUFFICES ASSUME NEW j \in Cells PROVE ChainOf(j)'
    BY DEF Chained
  <2>1. ChainOf(j)
    BY <1>1 DEF Chained
  <2>2. CASE j # k
    BY <1>6, <2>1, <2>2 DEF ChainOf
  <2>3. CASE j = k
    <3>1. \A g \in DOMAIN runs'[k] : runs'[k][g].candidate # runs'[k][g].baseline
      <4>1. DOMAIN runs[k] = 1..n
        BY <1>1, <1>3, RunsType DEF n
      <4>2. \A g \in 1..(n + 1) : g \in 1..n \/ g = n + 1
        BY <1>3
      <4> QED
        BY <1>7, <1>9, <2>1, <2>3, <4>1, <4>2 DEF ChainOf
    <3>2. ASSUME NEW g \in 1..((n + 1) - 1)
          PROVE  /\ runs'[k][g].stage = "sealed"
                 /\ runs'[k][g + 1].baseline = runs'[k][g].candidate
      <4>1. g \in 1..n /\ runs'[k][g] = runs[k][g] /\ runs[k][g].stage = "sealed"
        BY <1>3, <1>7, <1>10 DEF n
      <4>2. CASE g = n
        BY <1>3, <1>7, <1>9, <4>1, <4>2
      <4>3. CASE g # n
        <5>1. g + 1 \in 1..n /\ g \in 1..(n - 1)
          BY <1>3, <4>1, <4>3
        <5> QED
          BY <1>7, <2>1, <2>3, <4>1, <5>1 DEF ChainOf, n
      <4> QED
        BY <4>2, <4>3
    <3> QED
      BY <1>7, <2>3, <3>1, <3>2 DEF ChainOf
  <2> QED
    BY <2>2, <2>3
<1>13. SealedIsReadable'
  <2> SUFFICES ASSUME NEW j \in Cells, NEW g \in DOMAIN runs'[j],
                      runs'[j][g].stage = "sealed"
               PROVE  \A o \in Artifacts[runs'[j][g].candidate] : objects[o] = "whole"
    BY <1>2 DEF SealedIsReadable, Clean
  <2>1. g \in DOMAIN runs[j] /\ runs'[j][g] = runs[j][g]
    <3>1. CASE j # k
      BY <1>6, <3>1
    <3>2. CASE j = k
      BY <1>1, <1>3, <1>7, <1>9, <3>2, RunsType DEF n
    <3> QED
      BY <3>1, <3>2
  <2> QED
    BY <1>1, <2>1 DEF SealedIsReadable, Clean
<1>14. Publishes(p)'
  <2>1. cell'[p] = k /\ Generation(p)' = n + 1 /\ winner'[p] = winner[p]
    BY <1>2, <1>3 DEF Generation, k
  <2>2. \A o \in Artifacts[winner[p]] : objects'[o] = "whole"
    BY <1>1, <1>2 DEF Gathers
  <2>3. ASSUME NEW j \in Cells, NEW g \in DOMAIN runs'[j], runs'[j][g].stage # "sealed"
        PROVE  j = k /\ g = n + 1
    BY <1>1, <1>3, <1>6, <1>7, <1>10, <2>3, RunsType DEF n
  <2> QED
    BY <1>7, <1>9, <2>1, <2>2, <2>3 DEF Publishes
<1>15. PromotionOf(p)'
  BY <1>5, <1>14 DEF PromotionOf
<1>16. Uninterrupted'
  <2> SUFFICES ASSUME interruptions = 0 PROVE Uninterrupted'
    BY <1>2 DEF Uninterrupted
  <2>1. root \in {"absent", "ready"} /\ \A o \in Objects : objects[o] # "linked"
    BY <1>1, NothingHalfDone DEF Promotion
  <2>2. \A j \in Cells : \A g \in DOMAIN runs'[j] :
           runs'[j][g].stage # "sealed" => Carries(p, j, g)'
    BY <1>5, <1>14 DEF Publishes, Carries
  <2> QED
    BY <1>2, <2>1, <2>2 DEF Uninterrupted
<1> QED
  BY <1>1, <1>2, <1>4, <1>5, <1>8, <1>11, <1>12, <1>13, <1>15, <1>16, PromoterStep
     DEF Promotion

(* What the promoter writes in its own Run's next stage. *)
LEMMA ReachStep ==
    ASSUME TypeOK, NEW p \in Processes, Publishes(p),
           NEW stage \in {"appended", "sealed"}, Reach(p, stage), Chained
    PROVE  /\ runs' \in [Cells -> Seq(Record)] /\ Grown /\ Chained'
           /\ Generation(p) = Len(runs[cell[p]])
           /\ runs'[cell[p]][Generation(p)].stage = stage
           /\ runs'[cell[p]][Generation(p)].candidate = winner[p]
           /\ \A k \in Cells :
                 /\ Len(runs'[k]) = Len(runs[k]) /\ DOMAIN runs'[k] = DOMAIN runs[k]
                 /\ \A g \in DOMAIN runs[k] :
                       k # cell[p] \/ g # Generation(p) => runs'[k][g] = runs[k][g]
<1> DEFINE k == cell[p]
           n == Generation(p)
           run == [runs[k][n] EXCEPT !.stage = stage]
<1>1. /\ k \in Cells /\ runs[k] \in Seq(Record) /\ n = Len(runs[k])
      /\ n \in 1..Len(runs[k]) /\ runs[k][n] \in Record
      /\ DOMAIN runs[k] = 1..Len(runs[k])
  <2>1. k \in Cells /\ listing[p][k] \in Nat /\ n = Len(runs[k])
    BY DEF TypeOK, Publishes
  <2>2. n \in 1..Len(runs[k])
    BY <2>1 DEF Generation
  <2> QED
    BY <2>1, <2>2, RunsType
<1>2. /\ run \in Record /\ run.stage = stage
      /\ run.candidate = runs[k][n].candidate /\ run.baseline = runs[k][n].baseline
  BY <1>1 DEF Record
<1>3. /\ runs' = [runs EXCEPT ![k] = [runs[k] EXCEPT ![n] = run]]
  BY DEF Reach
<1> HIDE DEF n, k, run
<1>4. /\ [runs[k] EXCEPT ![n] = run] \in Seq(Record)
      /\ Len([runs[k] EXCEPT ![n] = run]) = Len(runs[k])
  BY <1>1, <1>2
<1>5. /\ runs' \in [Cells -> Seq(Record)] /\ runs'[k] = [runs[k] EXCEPT ![n] = run]
      /\ \A j \in Cells : j # k => runs'[j] = runs[j]
  BY <1>1, <1>3, <1>4 DEF TypeOK
<1>6. /\ runs'[k][n] = run /\ Len(runs'[k]) = Len(runs[k]) /\ DOMAIN runs'[k] = DOMAIN runs[k]
      /\ \A g \in DOMAIN runs[k] : g # n => runs'[k][g] = runs[k][g]
  BY <1>1, <1>4, <1>5
<1>7. \A j \in Cells :
         /\ Len(runs'[j]) = Len(runs[j]) /\ DOMAIN runs'[j] = DOMAIN runs[j]
         /\ \A g \in DOMAIN runs[j] : j # k \/ g # n => runs'[j][g] = runs[j][g]
  BY <1>5, <1>6
<1>8. run.candidate = winner[p] /\ runs[k][n].stage # "sealed"
  BY <1>2 DEF Publishes, k, n
<1>9. \A j \in Cells : \A g \in DOMAIN runs[j] :
         /\ runs'[j][g].candidate = runs[j][g].candidate
         /\ runs'[j][g].baseline = runs[j][g].baseline
         /\ runs[j][g].stage = "sealed" => runs'[j][g] = runs[j][g]
  BY <1>2, <1>6, <1>7, <1>8
<1>10. Grown
  BY <1>7, <1>9, RunsType DEF Grown
<1>11. Chained'
  <2> SUFFICES ASSUME NEW j \in Cells PROVE ChainOf(j)'
    BY DEF Chained
  <2>1. /\ ChainOf(j) /\ Len(runs[j]) \in Nat /\ DOMAIN runs[j] = 1..Len(runs[j])
        /\ Len(runs'[j]) = Len(runs[j]) /\ DOMAIN runs'[j] = DOMAIN runs[j]
    BY <1>7, RunsType DEF Chained
  <2>2. \A g \in 1..(Len(runs[j]) - 1) : g \in DOMAIN runs[j] /\ g + 1 \in DOMAIN runs[j]
    BY <2>1
  <2> QED
    BY <1>9, <2>1, <2>2 DEF ChainOf
<1> QED
  BY <1>1, <1>2, <1>5, <1>6, <1>7, <1>8, <1>10, <1>11 DEF n, k

LEMMA AppendPromotionStep ==
    ASSUME IInv, NEW p \in Processes, AppendPromotion(p)
    PROVE  IInv'
<1>1. TypeOK /\ Publishes(p) /\ Chained /\ SealedIsReadable /\ pc[p] = "append"
  BY DEF IInv, Promotes, PromotionOf, AppendPromotion
<1>2. /\ Reach(p, "appended") /\ Goto(p, "seal")
      /\ UNCHANGED <<root, objects, lock, choiceVars, listing, left, result, since,
                     campaigns, interruptions>>
  BY DEF AppendPromotion
<1> USE DEF choiceVars
<1>3. /\ pc' \in [Processes -> Labels] /\ pc'[p] = "seal"
      /\ \A q \in Processes : q # p => pc'[q] = pc[q]
  BY <1>1, <1>2, GotoLocks DEF Promotion, Labels
<1>4. /\ runs' \in [Cells -> Seq(Record)] /\ Grown /\ Chained'
      /\ Generation(p) = Len(runs[cell[p]])
      /\ runs'[cell[p]][Generation(p)].stage = "appended"
      /\ runs'[cell[p]][Generation(p)].candidate = winner[p]
      /\ \A k \in Cells :
            /\ Len(runs'[k]) = Len(runs[k]) /\ DOMAIN runs'[k] = DOMAIN runs[k]
            /\ \A g \in DOMAIN runs[k] :
                  k # cell[p] \/ g # Generation(p) => runs'[k][g] = runs[k][g]
  BY <1>1, <1>2, ReachStep
<1>5. TypeOK' /\ Untouched(p)
  BY <1>1, <1>2, <1>3, <1>4 DEF TypeOK, Untouched
<1>6. SealedIsReadable'
  BY <1>1, <1>2, <1>4 DEF SealedIsReadable, Clean
<1>7. cell[p] \in Cells /\ Generation(p)' = Generation(p)
  BY <1>1, <1>2 DEF TypeOK, Generation
<1>8. Publishes(p)'
  BY <1>1, <1>2, <1>4, <1>7 DEF Publishes
<1>9. PromotionOf(p)'
  BY <1>3, <1>8 DEF PromotionOf
<1>10. Uninterrupted'
  <2> SUFFICES ASSUME interruptions = 0 PROVE Uninterrupted'
    BY <1>2 DEF Uninterrupted
  <2>1. root \in {"absent", "ready"} /\ \A o \in Objects : objects[o] # "linked"
    BY <1>1, NothingHalfDone DEF Promotion
  <2>2. \A k \in Cells : \A g \in DOMAIN runs'[k] :
           runs'[k][g].stage # "sealed" => Carries(p, k, g)'
    BY <1>3, <1>8 DEF Publishes, Carries
  <2> QED
    BY <1>2, <2>1, <2>2 DEF Uninterrupted
<1> QED
  BY <1>1, <1>2, <1>3, <1>4, <1>5, <1>6, <1>9, <1>10, PromoterStep DEF Promotion

LEMMA SealPromotionStep ==
    ASSUME IInv, NEW p \in Processes, SealPromotion(p)
    PROVE  IInv'
<1>1. TypeOK /\ Publishes(p) /\ Chained /\ SealedIsReadable /\ pc[p] = "seal"
  BY DEF IInv, Promotes, PromotionOf, SealPromotion
<1>2. /\ Reach(p, "sealed") /\ Goto(p, "reread")
      /\ UNCHANGED <<root, objects, lock, choiceVars, listing, left, result, since,
                     campaigns, interruptions>>
  BY DEF SealPromotion
<1> USE DEF choiceVars
<1>3. /\ pc' \in [Processes -> Labels] /\ pc'[p] = "reread"
      /\ \A q \in Processes : q # p => pc'[q] = pc[q]
  BY <1>1, <1>2, GotoLocks DEF Promotion, Labels
<1>4. /\ runs' \in [Cells -> Seq(Record)] /\ Grown /\ Chained'
      /\ Generation(p) = Len(runs[cell[p]])
      /\ runs'[cell[p]][Generation(p)].stage = "sealed"
      /\ runs'[cell[p]][Generation(p)].candidate = winner[p]
      /\ \A k \in Cells :
            /\ Len(runs'[k]) = Len(runs[k]) /\ DOMAIN runs'[k] = DOMAIN runs[k]
            /\ \A g \in DOMAIN runs[k] :
                  k # cell[p] \/ g # Generation(p) => runs'[k][g] = runs[k][g]
  BY <1>1, <1>2, ReachStep
<1>5. TypeOK' /\ Untouched(p)
  BY <1>1, <1>2, <1>3, <1>4 DEF TypeOK, Untouched
(* Every object the promotion names was put before its Run was started. *)
<1>6. SealedIsReadable'
  <2> SUFFICES ASSUME NEW k \in Cells, NEW g \in DOMAIN runs'[k],
                      runs'[k][g].stage = "sealed"
               PROVE  \A o \in Artifacts[runs'[k][g].candidate] : objects[o] = "whole"
    BY <1>2 DEF SealedIsReadable, Clean
  <2>1. CASE k = cell[p] /\ g = Generation(p)
    BY <1>1, <1>4, <2>1 DEF Publishes
  <2>2. CASE ~(k = cell[p] /\ g = Generation(p))
    BY <1>1, <1>4, <2>2 DEF SealedIsReadable, Clean
  <2> QED
    BY <2>1, <2>2
<1>7. AllSealed'
  BY <1>1, <1>4 DEF Publishes, AllSealed
<1>8. PromotionOf(p)'
  BY <1>3, <1>7 DEF PromotionOf
<1>9. Uninterrupted'
  <2> SUFFICES ASSUME interruptions = 0 PROVE Uninterrupted'
    BY <1>2 DEF Uninterrupted
  <2>1. root \in {"absent", "ready"} /\ \A o \in Objects : objects[o] # "linked"
    BY <1>1, NothingHalfDone DEF Promotion
  <2> QED
    BY <1>2, <1>7, <2>1 DEF Uninterrupted, AllSealed
<1> QED
  BY <1>1, <1>2, <1>3, <1>4, <1>5, <1>6, <1>8, <1>9, PromoterStep DEF Promotion

LEMMA RereadStep ==
    ASSUME IInv, NEW p \in Processes, Reread(p)
    PROVE  IInv'
<1>1. /\ TypeOK /\ LaunchOf(p) /\ Chained /\ SealedIsReadable /\ AllSealed
      /\ pc[p] = "reread" /\ cell[p] \in Cells
  BY DEF IInv, Launches, Promotes, PromotionOf, Reread, TypeOK
<1>2. UNCHANGED <<diskVars, choiceVars, listing, left, since, campaigns, interruptions>>
  BY DEF Reread
<1> USE DEF diskVars, choiceVars
<1>3. End(p, Outcome("promoted", {}, Len(runs[cell[p]])))
  BY <1>1, SealedReplays DEF Reread
<1>4. /\ Outcome("promoted", {}, Len(runs[cell[p]])) \in Endings
      /\ Outcome("promoted", {}, Len(runs[cell[p]])).kind = "promoted"
  BY <1>1, RunsType, OutcomeTypes
<1>5. TypeOK' /\ Untouched(p)
  BY <1>1, <1>2, <1>3, <1>4, EndType DEF TypeOK, Untouched
<1> QED
  BY <1>1, <1>2, <1>3, <1>4, <1>5, EndStep DEF LaunchOf

-------------------------------------------------------------------------------
(* Interruptions *)

LEMMA KillStep ==
    ASSUME IInv, NEW p \in Processes, Kill(p)
    PROVE  IInv'
<1>1. TypeOK /\ LaunchOf(p)
  BY DEF IInv, Launches
<1>2. /\ End(p, Refused("killed"))
      /\ UNCHANGED <<diskVars, choiceVars, listing, left, since, campaigns>>
      /\ interruptions' = interruptions + 1
  BY DEF Kill, Interrupt
<1>3. interruptions' \in Nat /\ interruptions' # 0 /\ Refused("killed") \in Endings
  BY <1>1, <1>2, OutcomeTypes DEF TypeOK
<1> USE DEF diskVars, choiceVars
<1>4. TypeOK' /\ Untouched(p)
  BY <1>1, <1>2, <1>3, EndType DEF TypeOK, Untouched
<1> QED
  BY <1>1, <1>2, <1>3, <1>4, EndStep DEF LaunchOf

LEMMA FailStep ==
    ASSUME IInv, NEW p \in Processes, Fail(p)
    PROVE  IInv'
<1>1. TypeOK /\ LaunchOf(p)
  BY DEF IInv, Launches
<1>2. /\ End(p, Refused("failed")) /\ interruptions' = interruptions + 1
      /\ objects' = IF pc[p] = "unlink" THEN Unlinked(p) ELSE objects
      /\ UNCHANGED <<root, runs, choiceVars, listing, left, since, campaigns>>
  BY DEF Fail, Interrupt
<1>3. interruptions' \in Nat /\ interruptions' # 0 /\ Refused("failed") \in Endings
  BY <1>1, <1>2, OutcomeTypes DEF TypeOK
<1> USE DEF choiceVars
<1>4. /\ objects' \in [Objects -> {"absent", "linked", "whole"}]
      /\ \A o \in Objects : objects[o] = "whole" => objects'[o] = "whole"
  BY <1>1, <1>2 DEF Unlinked, TypeOK
<1>5. TypeOK' /\ Untouched(p) /\ Locked' /\ pc'[p] = "idle"
  BY <1>1, <1>2, <1>3, <1>4, EndType, EndLocks DEF TypeOK, Untouched
<1>6. CASE pc[p] # "unlink"
  BY <1>1, <1>2, <1>3, <1>5, <1>6, EndStep DEF diskVars, LaunchOf
<1>7. CASE pc[p] = "unlink"
  <2>1. \A q \in Processes : pc'[q] \notin Promotion
    BY <1>5, <1>7, OnlyPromoter DEF Untouched, Promotion
  <2>2. Promotes'
    BY <2>1 DEF Promotes, PromotionOf, Promotion
  <2>3. Chained' /\ SealedIsReadable'
    BY <1>1, <1>2, <1>4, ReadableStays DEF IInv, Chained, ChainOf
  <2>4. Launches'
    <3> SUFFICES ASSUME NEW q \in Processes PROVE LaunchOf(q)'
      BY DEF Launches
    <3>1. LaunchOf(q)
      BY DEF IInv, Launches
    <3> QED
      BY <1>2, <1>5, <3>1 DEF Untouched, LaunchOf, Stands
  <2>5. Uninterrupted' /\ PromoterMeetsNoHalfPromotion'
    BY <1>3 DEF Uninterrupted, PromoterMeetsNoHalfPromotion
  <2> QED
    BY <1>5, <2>2, <2>3, <2>4, <2>5 DEF IInv
<1> QED
  BY <1>6, <1>7

-------------------------------------------------------------------------------
(* The invariant holds *)

LEMMA InitInv == Init => IInv
<1> SUFFICES ASSUME Init PROVE IInv
  OBVIOUS
<1>1. (CHOOSE k \in Cells : TRUE) \in Cells
  BY CellAssumption
<1>2. TypeOK
  BY <1>1, CandidateAssumption DEF Init, TypeOK, Labels, Endings, NoRuns
<1>3. \A p \in Processes : pc[p] = "idle" /\ lock # p
  BY ProcessAssumption DEF Init
<1>4. \A k \in Cells : DOMAIN runs[k] = {} /\ Len(runs[k]) = 0
  BY DEF Init
<1>5. \A p \in Processes : \A k \in Cells : listing[p][k] = 0
  BY DEF Init, NoRuns
<1>6. Locked /\ Promotes /\ Launches
  BY <1>3, <1>4, <1>5 DEF Locked, Promotion, Promotes, PromotionOf, Launches, LaunchOf
<1>7. Chained /\ SealedIsReadable /\ Uninterrupted
  BY <1>4 DEF Chained, ChainOf, SealedIsReadable, Uninterrupted, Init
<1>8. PromoterMeetsNoHalfPromotion
  BY DEF Init, PromoterMeetsNoHalfPromotion, Promotion
<1> QED
  BY <1>2, <1>6, <1>7, <1>8 DEF IInv

LEMMA NextInv == IInv /\ [Next]_vars => IInv'
<1> SUFFICES ASSUME IInv, [Next]_vars PROVE IInv'
  OBVIOUS
<1>1. ASSUME NEW p \in Processes, Launching(p) PROVE IInv'
  BY <1>1, LaunchExplicitStep, LaunchWithRegistryStep, MaterializeStep, BeginAdmissionStep,
     AdmitStep, ConfirmStep DEF Launching
<1>2. ASSUME NEW p \in Processes, Promoting(p) PROVE IInv'
  BY <1>2, LockStep, OpenStoreStep, CreateStoreStep, ReadCurrentStep, PutStep, UnlinkStep,
     StartPromotionStep, AppendPromotionStep, SealPromotionStep, RereadStep DEF Promoting
<1>3. ASSUME NEW p \in Processes, Fail(p) \/ Kill(p) PROVE IInv'
  BY <1>3, FailStep, KillStep
<1>4. CASE UNCHANGED vars
  <2> USE <1>4 DEF vars, diskVars, choiceVars
  <2>1. TypeOK' /\ Locked' /\ Chained' /\ SealedIsReadable'
    BY DEF IInv, TypeOK, Locked, Chained, ChainOf, SealedIsReadable, Clean
  <2>2. Promotes'
    BY DEF IInv, Promotes, PromotionOf, Gathers, Publishes, AllSealed, Listed, Generation
  <2>3. Launches' /\ Uninterrupted' /\ PromoterMeetsNoHalfPromotion'
    BY DEF IInv, Launches, LaunchOf, Stands, Uninterrupted, Carries, Generation,
           PromoterMeetsNoHalfPromotion
  <2> QED
    BY <2>1, <2>2, <2>3 DEF IInv
<1> QED
  BY <1>1, <1>2, <1>3, <1>4 DEF Next

THEOREM Invariance == Spec => []IInv
BY InitInv, NextInv, PTL DEF Spec

-------------------------------------------------------------------------------
(* What the registry promises *)

(* Every variable keeps its type. *)
THEOREM Typing == Spec => []TypeOK
<1>1. IInv => TypeOK
  BY DEF IInv
<1> QED
  BY <1>1, Invariance, PTL

(* The artifacts of a sealed promotion are whole objects, whatever process *)
(* was killed in the middle of putting the same contents.                  *)
THEOREM SealedReadable == Spec => []SealedIsReadable
<1>1. IInv => SealedIsReadable
  BY DEF IInv
<1> QED
  BY <1>1, Invariance, PTL

(* A running Campaign's baseline was the cell's incumbent when its last    *)
(* admission read the registry without the lock, or became it later.       *)
THEOREM Admission == Spec => []AdmittedAgainstCurrent
<1>1. IInv => AdmittedAgainstCurrent
  <2> SUFFICES ASSUME IInv, NEW p \in Processes, pc[p] = "running"
               PROVE  /\ chosen[p] >= since[p]
                      /\ IF chosen[p] = 0 THEN baseline[p] = Starter
                         ELSE /\ runs[cell[p]][chosen[p]].stage = "sealed"
                              /\ baseline[p] = runs[cell[p]][chosen[p]].candidate
    BY DEF AdmittedAgainstCurrent
  <2>1. LaunchOf(p) /\ chosen[p] \in Nat /\ since[p] \in Nat
    BY DEF IInv, Launches, TypeOK
  <2> QED
    BY <2>1 DEF LaunchOf, Stands
<1> QED
  BY <1>1, Invariance, PTL

(* The lock lets no promoter find another's promotion, or the store, half  *)
(* written as long as nobody is interrupted.                               *)
THEOREM NoHalfPromotion == Spec => []PromoterMeetsNoHalfPromotion
<1>1. IInv => PromoterMeetsNoHalfPromotion
  BY DEF IInv
<1> QED
  BY <1>1, Invariance, PTL

(* Only the steps of a promotion write to the Runs. *)
LEMMA RunsWriters ==
    ASSUME [Next]_vars, runs' # runs
    PROVE  \E p \in Processes : StartPromotion(p) \/ AppendPromotion(p) \/ SealPromotion(p)
BY DEF Next, Launching, Promoting, LaunchExplicit, LaunchWithRegistry, Materialize,
       BeginAdmission, Admit, Confirm, Lock, OpenStore, CreateStore, ReadCurrent, Put,
       Unlink, Reread, Fail, Kill, vars, diskVars

(* Once a promotion is abandoned half-way, in whatever cell, the registry  *)
(* never gains nor changes a Run.                                          *)
THEOREM NeverRepaired == Spec => AbandonedIsNeverRepaired
<1>1. ASSUME IInv, [Next]_vars, Abandoned PROVE UNCHANGED runs
  <2> SUFFICES ASSUME runs' # runs PROVE FALSE
    OBVIOUS
  <2>1. PICK p \in Processes : StartPromotion(p) \/ AppendPromotion(p) \/ SealPromotion(p)
    BY <1>1, RunsWriters
  <2>2. PICK k \in Cells : \E g \in DOMAIN runs[k] :
           /\ runs[k][g].stage # "sealed"
           /\ \A q \in Processes :
                 ~(pc[q] \in {"append", "seal"} /\ cell[q] = k /\ Generation(q) = g)
    BY <1>1 DEF Abandoned
  <2>3. PICK g \in DOMAIN runs[k] :
           /\ runs[k][g].stage # "sealed"
           /\ ~(pc[p] \in {"append", "seal"} /\ cell[p] = k /\ Generation(p) = g)
    BY <2>2
  <2>4. PromotionOf(p)
    BY <1>1 DEF IInv, Promotes
  <2>5. CASE StartPromotion(p)
    BY <2>3, <2>4, <2>5 DEF StartPromotion, PromotionOf, Gathers, AllSealed
  <2>6. CASE AppendPromotion(p) \/ SealPromotion(p)
    BY <2>3, <2>4, <2>6 DEF AppendPromotion, SealPromotion, PromotionOf, Publishes
  <2> QED
    BY <2>1, <2>5, <2>6
<1>2. IInv /\ [Next]_vars => [Abandoned => UNCHANGED runs]_vars
  BY <1>1
<1> QED
  BY <1>2, Invariance, PTL DEF Spec, AbandonedIsNeverRepaired

-------------------------------------------------------------------------------
(* The registry implements the chain *)

Link == [candidate : Candidates, baseline : Candidates]

(* Where the sealed generations are a prefix of the Runs, Sealed is a      *)
(* sequence of as many.                                                    *)
LEMMA SealedPrefix ==
    ASSUME TypeOK, NEW k \in Cells, NEW n \in Nat, SealedAt(k) = 1..n
    PROVE  /\ Sealed(k) \in Seq(Link) /\ Len(Sealed(k)) = n
           /\ \A g \in 1..n : Sealed(k)[g] = [candidate |-> runs[k][g].candidate,
                                              baseline |-> runs[k][g].baseline]
<1>1. SealedAt(k) \subseteq DOMAIN runs[k]
  BY DEF SealedAt
<1>2. \A g \in 1..n : runs[k][g] \in Record
  BY <1>1, RunsType
<1>3. Sealed(k) \in [1..n -> Link]
  BY <1>2 DEF Sealed, Link, Record
<1>4. Sealed(k) \in Seq(Link)
  BY <1>3
<1>5. Len(Sealed(k)) = n
  BY <1>3, <1>4, LenProperties
<1> QED
  BY <1>3, <1>4, <1>5 DEF Sealed

LEMMA SameSealed ==
    ASSUME TypeOK, TypeOK', NEW k \in Cells, DOMAIN runs'[k] = DOMAIN runs[k],
           \A g \in DOMAIN runs[k] :
              runs'[k][g] = runs[k][g]
              \/ (runs[k][g].stage # "sealed" /\ runs'[k][g].stage # "sealed")
    PROVE  Sealed(k)' = Sealed(k)
<1>1. SealedAt(k)' = SealedAt(k)
  BY DEF SealedAt
<1>2. \A g \in SealedAt(k) : runs'[k][g] = runs[k][g]
  BY DEF SealedAt
<1> QED
  BY <1>1, <1>2 DEF Sealed

LEMMA StartedIsNotInTheChain ==
    ASSUME IInv, IInv', NEW p \in Processes, StartPromotion(p)
    PROVE  \A k \in Cells : Sealed(k)' = Sealed(k)
<1> DEFINE run == [candidate |-> winner[p], baseline |-> baseline[p], stage |-> "started"]
<1>1. TypeOK /\ TypeOK'
  BY DEF IInv
<1>2. PICK c \in Cells : c = cell[p]
  BY <1>1 DEF TypeOK
<1>3. CASE runs' = runs
  BY <1>3 DEF Sealed, SealedAt
<1>4. CASE runs' = [runs EXCEPT ![c] = Append(@, run)]
  <2>1. /\ runs[c] \in Seq(Record) /\ run \in Record /\ run.stage = "started"
        /\ Len(runs[c]) \in Nat /\ runs'[c] = Append(runs[c], run)
        /\ \A k \in Cells : k # c => runs'[k] = runs[k]
    BY <1>1, <1>2, <1>4, RunsType DEF TypeOK, Record
  <2> HIDE DEF run
  <2>2. /\ Len(runs'[c]) = Len(runs[c]) + 1
        /\ DOMAIN runs'[c] = 1..(Len(runs[c]) + 1)
        /\ DOMAIN runs[c] = 1..Len(runs[c])
        /\ runs'[c][Len(runs[c]) + 1] = run
        /\ \A g \in 1..Len(runs[c]) : runs'[c][g] = runs[c][g]
    BY <2>1
  <2>3. SealedAt(c)' = SealedAt(c) /\ SealedAt(c) \subseteq 1..Len(runs[c])
    BY <2>1, <2>2 DEF SealedAt
  <2>4. Sealed(c)' = Sealed(c)
    BY <2>2, <2>3 DEF Sealed
  <2>5. ASSUME NEW k \in Cells, k # c PROVE Sealed(k)' = Sealed(k)
    <3>1. runs'[k] = runs[k]
      BY <2>1, <2>5
    <3>2. SealedAt(k)' = SealedAt(k)
      BY <3>1 DEF SealedAt
    <3> QED
      BY <3>1, <3>2 DEF Sealed
  <2> QED
    BY <2>4, <2>5
<1> QED
  BY <1>2, <1>3, <1>4 DEF StartPromotion

LEMMA AppendedIsNotInTheChain ==
    ASSUME IInv, IInv', NEW p \in Processes, AppendPromotion(p)
    PROVE  \A k \in Cells : Sealed(k)' = Sealed(k)
<1>1. TypeOK /\ TypeOK' /\ Publishes(p) /\ Chained
  BY DEF IInv, Promotes, PromotionOf, AppendPromotion
<1>2. /\ runs'[cell[p]][Generation(p)].stage = "appended"
      /\ \A k \in Cells :
            /\ DOMAIN runs'[k] = DOMAIN runs[k]
            /\ \A g \in DOMAIN runs[k] :
                  k # cell[p] \/ g # Generation(p) => runs'[k][g] = runs[k][g]
  BY <1>1, ReachStep DEF AppendPromotion
<1>3. runs[cell[p]][Generation(p)].stage # "sealed"
  BY <1>1 DEF Publishes
<1>4. ASSUME NEW k \in Cells, NEW g \in DOMAIN runs[k]
      PROVE  runs'[k][g] = runs[k][g]
             \/ (runs[k][g].stage # "sealed" /\ runs'[k][g].stage # "sealed")
  BY <1>2, <1>3
<1> QED
  BY <1>1, <1>2, <1>4, SameSealed

(* The seal makes the promotion the next link of its cell's chain. *)
LEMMA SealAdvances ==
    ASSUME IInv, IInv', NEW p \in Processes, SealPromotion(p),
           NEW k \in Cells, k = cell[p], NEW n, n = Generation(p)
    PROVE  Chain!Advance(k, winner[p], runs[k][n].baseline)
<1> DEFINE link == [candidate |-> winner[p], baseline |-> runs[k][n].baseline]
<1>1. TypeOK /\ TypeOK' /\ Publishes(p) /\ Chained
  BY DEF IInv, Promotes, PromotionOf, SealPromotion
<1>2. /\ n = Len(runs[k]) /\ runs'[k][n].stage = "sealed" /\ runs'[k][n].candidate = winner[p]
      /\ \A j \in Cells :
            /\ DOMAIN runs'[j] = DOMAIN runs[j]
            /\ \A g \in DOMAIN runs[j] : j # k \/ g # n => runs'[j][g] = runs[j][g]
  BY <1>1, ReachStep DEF SealPromotion
<1>3. /\ n \in Nat \ {0} /\ DOMAIN runs[k] = 1..n /\ runs[k][n] \in Record
      /\ runs[k][n].candidate = winner[p] /\ runs[k][n].stage # "sealed"
      /\ \A g \in 1..n : g # n => runs[k][g].stage = "sealed"
  <2>1. listing[p][k] \in Nat
    BY <1>1 DEF TypeOK
  <2>2. n \in Nat \ {0}
    BY <2>1 DEF Generation
  <2>3. DOMAIN runs[k] = 1..n
    BY <1>1, <1>2, RunsType
  <2> QED
    BY <1>1, <1>2, <2>2, <2>3, RunsType DEF Publishes
<1>4. runs'[k][n].baseline = runs[k][n].baseline
  <2>1. runs' = [runs EXCEPT ![k][n].stage = "sealed"]
    BY DEF SealPromotion, Reach
  <2>2. runs'[k] = [runs[k] EXCEPT ![n] = [runs[k][n] EXCEPT !.stage = "sealed"]]
    BY <1>1, <2>1 DEF TypeOK
  <2> QED
    BY <1>3, <2>2 DEF Record
<1>5. SealedAt(k) = 1..(n - 1) /\ n - 1 \in Nat
  BY <1>3 DEF SealedAt
<1>6. SealedAt(k)' = 1..n
  <2>1. \A g \in 1..n : runs'[k][g].stage = "sealed"
    BY <1>1, <1>2, <1>3
  <2>2. DOMAIN runs'[k] = 1..n
    BY <1>2, <1>3
  <2> QED
    BY <2>1, <2>2 DEF SealedAt
<1>7. /\ Sealed(k) \in Seq(Link) /\ Len(Sealed(k)) = n - 1
      /\ \A g \in 1..(n - 1) : Sealed(k)[g] = [candidate |-> runs[k][g].candidate,
                                               baseline |-> runs[k][g].baseline]
  BY <1>1, <1>5, SealedPrefix
<1>8. /\ Sealed(k)' \in Seq(Link) /\ Len(Sealed(k)') = n
      /\ \A g \in 1..n : Sealed(k)'[g] = [candidate |-> runs'[k][g].candidate,
                                          baseline |-> runs'[k][g].baseline]
  <2>1. Sealed(k)' \in [1..n -> Link]
    <3>1. \A g \in 1..n : runs'[k][g] \in Record
      BY <1>1, <1>2, <1>3 DEF TypeOK
    <3> QED
      BY <1>6, <3>1 DEF Sealed, Link, Record
  <2>2. Sealed(k)' \in Seq(Link)
    BY <1>3, <2>1
  <2> QED
    BY <1>3, <1>6, <2>1, <2>2, LenProperties DEF Sealed
<1>9. link \in Link
  BY <1>1, <1>3 DEF Link, Record, TypeOK
<1>10. Sealed(k)' = Append(Sealed(k), link)
  <2>1. /\ Append(Sealed(k), link) \in Seq(Link) /\ Len(Append(Sealed(k), link)) = n
        /\ Append(Sealed(k), link)[n] = link
        /\ \A g \in 1..(n - 1) : Append(Sealed(k), link)[g] = Sealed(k)[g]
    BY <1>3, <1>7, <1>9
  <2> HIDE DEF link
  <2>2. ASSUME NEW g \in 1..n PROVE Append(Sealed(k), link)[g] = Sealed(k)'[g]
    <3>1. CASE g = n
      BY <1>2, <1>3, <1>4, <1>8, <2>1, <3>1 DEF link
    <3>2. CASE g # n
      <4>1. g \in 1..(n - 1) /\ runs'[k][g] = runs[k][g]
        BY <1>2, <1>3, <3>2
      <4>2. Append(Sealed(k), link)[g] = [candidate |-> runs[k][g].candidate,
                                          baseline |-> runs[k][g].baseline]
        BY <1>7, <2>1, <4>1
      <4> QED
        BY <1>8, <4>1, <4>2
    <3> QED
      BY <3>1, <3>2
  <2> QED
    BY <1>8, <2>1, <2>2, SeqEqual
<1>11. \A j \in Cells : j # k => Sealed(j)' = Sealed(j)
  BY <1>1, <1>2, SameSealed
<1>12. winner[p] # runs[k][n].baseline
  BY <1>1, <1>3 DEF Chained, ChainOf
<1>13. Sealed(k) # << >> => runs[k][n].baseline = Sealed(k)[Len(Sealed(k))].candidate
  <2> SUFFICES ASSUME n - 1 # 0
               PROVE  runs[k][n].baseline = Sealed(k)[n - 1].candidate
    BY <1>7
  <2>1. n - 1 \in 1..(n - 1) /\ (n - 1) + 1 = n
    BY <1>3
  <2>2. runs[k][n].baseline = runs[k][n - 1].candidate
    BY <1>1, <1>2, <2>1 DEF Chained, ChainOf
  <2>3. Sealed(k)[n - 1] = [candidate |-> runs[k][n - 1].candidate,
                            baseline |-> runs[k][n - 1].baseline]
    BY <1>7, <2>1
  <2> QED
    BY <2>2, <2>3
<1> DEFINE chain == [j \in Cells |-> Sealed(j)]
<1>14. chain' = [chain EXCEPT ![k] = Append(@, link)] /\ chain[k] = Sealed(k)
  <2> HIDE DEF link
  <2> QED
    BY <1>10, <1>11
<1> QED
  BY <1>12, <1>13, <1>14 DEF Chain!Advance

(* Every step of the registry is a step of the abstract chain, or none of  *)
(* it: the chain grows by the seal and by nothing else.                    *)
THEOREM Refinement == Spec => ImplementsChain
<1>1. Init => Chain!ChainInit
  <2> SUFFICES ASSUME Init, NEW k \in Cells PROVE Sealed(k) = << >>
    BY DEF Chain!ChainInit
  <2>1. runs[k] = << >>
    BY DEF Init
  <2>2. SealedAt(k) = 1..0 /\ TypeOK
    BY <2>1, InitInv DEF SealedAt, IInv
  <2>3. Sealed(k) \in Seq(Link) /\ Len(Sealed(k)) = 0
    BY <2>2, SealedPrefix
  <2> QED
    BY <2>3
<1>2. ASSUME IInv, IInv', [Next]_vars
      PROVE  [Chain!ChainNext]_([k \in Cells |-> Sealed(k)])
  <2>1. CASE runs' = runs
    BY <2>1 DEF Sealed, SealedAt
  <2>2. ASSUME NEW p \in Processes, StartPromotion(p) \/ AppendPromotion(p)
        PROVE  UNCHANGED [k \in Cells |-> Sealed(k)]
    BY <1>2, <2>2, StartedIsNotInTheChain, AppendedIsNotInTheChain
  <2>3. ASSUME NEW p \in Processes, SealPromotion(p)
        PROVE  Chain!ChainNext
    <3>1. PICK k \in Cells : k = cell[p]
      BY <1>2 DEF IInv, TypeOK
    <3>2. PICK n \in Nat : n = Generation(p)
      BY <1>2, <3>1 DEF IInv, TypeOK, Generation
    <3>3. Chain!Advance(k, winner[p], runs[k][n].baseline)
      BY <1>2, <2>3, <3>1, <3>2, SealAdvances
    <3>4. winner[p] \in Candidates /\ runs[k][n].baseline \in Candidates
      <4>1. Publishes(p) /\ TypeOK
        BY <1>2, <2>3 DEF IInv, Promotes, PromotionOf, SealPromotion
      <4>2. n \in 1..Len(runs[k]) /\ runs[k] \in Seq(Record)
        BY <3>1, <3>2, <4>1, RunsType DEF Publishes, TypeOK, Generation
      <4>3. runs[k][n] \in Record
        BY <4>2
      <4> QED
        BY <4>1, <4>3 DEF TypeOK, Record
    <3> QED
      BY <3>3, <3>4 DEF Chain!ChainNext
  <2> QED
    BY <1>2, <2>1, <2>2, <2>3, RunsWriters
<1> QED
  BY <1>1, <1>2, Invariance, PTL DEF Spec, ImplementsChain, Chain!ChainSpec
===============================================================================
