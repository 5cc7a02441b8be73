-------------------------- MODULE IncumbentRegistry --------------------------
(***************************************************************************)
(* The registry of task incumbents (lab/incumbents.py): an EvidenceStore   *)
(* whose Runs are promotions, one per generation of a comparison cell, and *)
(* whose current incumbent is what a replay of those Runs finds last.      *)
(*                                                                         *)
(* Each process is one Campaign after another: it resolves its baseline    *)
(* (tools/launch_task.py), is admitted against the registry, runs, and     *)
(* promotes a winner under the flock beside the registry.  Readers take no *)
(* lock.  Any process may be killed, or have a call raise, between two     *)
(* operations.                                                             *)
(*                                                                         *)
(* A promotion's Run is one record with the stage it has reached.  That it *)
(* audits clean exactly from its seal on is what EvidenceWriter shows.     *)
(***************************************************************************)
EXTENDS Naturals, Sequences, FiniteSets

CONSTANTS
    Processes, Nobody,  \* Campaign processes; "nobody holds the writer lock"
    Cells,              \* TaskIncumbentKeys
    Candidates,         \* sealed candidates
    Starter,            \* the task's starter reference
    Objects,            \* contents a candidate's artifacts and receipt have
    Artifacts,          \* the contents of each candidate
    MaxCampaigns,       \* bound: Campaigns of all processes
    MaxInterruptions    \* bound: processes killed and calls that raise

ASSUME ProcessAssumption == Nobody \notin Processes
ASSUME CellAssumption == Cells # {}
ASSUME CandidateAssumption ==
    Starter \in Candidates /\ Artifacts \in [Candidates -> SUBSET Objects]
ASSUME BoundAssumption == MaxCampaigns \in Nat /\ MaxInterruptions \in Nat

VARIABLES
    (* on disk *)
    root,          \* the store: absent, then bare, unmarked, ready
    objects,       \* its CAS: absent, linked beside its temporary, whole
    runs,          \* per cell, one promotion Run per generation
    lock,          \* who holds the flock of ROOT.writer.lock, or Nobody
    (* of each process *)
    pc,
    cell,          \* its Campaign's TaskIncumbentKey
    baseline,      \* its fixed baseline
    chosen,        \* generations the selected baseline stands on, 0: starter
    listing,       \* Runs seen by the listing of runs/, per cell
    winner,        \* the confirmed candidate it promotes
    left,          \* contents still to put
    result,        \* how its last Campaign ended
    (* history and bounds *)
    since,         \* generations sealed when its admission began to read
    campaigns, interruptions

diskVars == <<root, objects, runs>>
choiceVars == <<cell, baseline, chosen, winner>>
vars == <<diskVars, lock, pc, choiceVars, listing, left, result, since, campaigns,
          interruptions>>

NoRuns == [k \in Cells |-> 0]

Init ==
    /\ root = "absent" /\ objects = [o \in Objects |-> "absent"]
    /\ runs = [k \in Cells |-> << >>]
    /\ lock = Nobody
    /\ pc = [p \in Processes |-> "idle"]
    /\ cell \in [Processes -> {CHOOSE k \in Cells : TRUE}]
    /\ baseline = [p \in Processes |-> Starter]
    /\ chosen = [p \in Processes |-> 0]
    /\ winner = [p \in Processes |-> Starter]
    /\ listing = [p \in Processes |-> NoRuns]
    /\ left = [p \in Processes |-> {}]
    /\ result = [p \in Processes |->
                  [kind |-> "none", cells |-> {}, generation |-> 0, from |-> "idle"]]
    /\ since = [p \in Processes |-> 0]
    /\ campaigns = 0 /\ interruptions = 0

-------------------------------------------------------------------------------
(* Reading the registry *)

Goto(p, label) == pc' = [pc EXCEPT ![p] = label]
Unlocked(p) == IF lock = p THEN Nobody ELSE lock

(* The Campaign ends here; leaving the with statement releases the flock.  *)
End(p, outcome) ==
    /\ Goto(p, "idle")
    /\ lock' = Unlocked(p)
    /\ result' = [result EXCEPT ![p] = [outcome EXCEPT !.from = pc[p]]]

Outcome(kind, cells, generation) ==
    [kind |-> kind, cells |-> cells, generation |-> generation, from |-> "idle"]
Refused(kind) == Outcome(kind, {}, 0)

Listed == [k \in Cells |-> Len(runs[k])]

(* audit_run and read_object accept the promotion's Run.                   *)
Clean(run) == run.stage = "sealed" /\ \A o \in Artifacts[run.candidate] : objects[o] = "whole"
(* Mutant: Runs that have no terminal are passed over. *)
UncleanOfSealed(seen) ==
    {k \in Cells : \E g \in 1..seen[k] :
        runs[k][g].stage = "sealed" /\ ~Clean(runs[k][g])}

(* _all replays every listed Run, of whatever cell.                        *)
Unclean(seen) == {k \in Cells : \E g \in 1..seen[k] : ~Clean(runs[k][g])}

(* current: the chain of the cell's own generations. *)
ChainHolds(k, n) == \A g \in 2..n : runs[k][g].baseline = runs[k][g - 1].candidate

Replayable(k, seen) == Unclean(seen) = {} /\ ChainHolds(k, seen[k])

(* A promotion's Run is clean from its seal on, so a replay of several     *)
(* Runs accepts or refuses as if it looked at all of them at one instant   *)
(* after the listing: the last one, or the one that found it unclean.      *)
RefuseReading(p, seen) ==
    End(p, Outcome("unclean", Unclean(seen), 0))

SealedAt(k) == {g \in DOMAIN runs[k] : runs[k][g].stage = "sealed"}
SealedCount(k) == Cardinality(SealedAt(k))

-------------------------------------------------------------------------------
(* tools/launch_task.py: the fixed baseline of a new Campaign *)

Start(p, k) ==
    /\ pc[p] = "idle" /\ campaigns < MaxCampaigns
    /\ campaigns' = campaigns + 1
    /\ cell' = [cell EXCEPT ![p] = k]

(* --fixed-baseline-bundle: the registry is not asked. *)
LaunchExplicit(p) ==
    /\ \E k \in Cells : Start(p, k)
    /\ \E candidate \in Candidates : baseline' = [baseline EXCEPT ![p] = candidate]
    /\ Goto(p, "running_explicit")
    /\ UNCHANGED <<diskVars, lock, chosen, winner, listing, left, result, since,
                   interruptions>>

(* open_if_exists finds no registry, or lists one. *)
LaunchWithRegistry(p) ==
    /\ \E k \in Cells : Start(p, k)
    /\ chosen' = [chosen EXCEPT ![p] = 0]
    /\ baseline' = [baseline EXCEPT ![p] = Starter]
    /\ \/ root = "absent" /\ Goto(p, "admit") /\ UNCHANGED <<lock, result, listing>>
       \/ root = "bare" /\ End(p, Refused("store")) /\ UNCHANGED listing
       \/ /\ root \in {"unmarked", "ready"} /\ Goto(p, "materialize")
          /\ listing' = [listing EXCEPT ![p] = Listed]
          /\ UNCHANGED <<lock, result>>
    /\ UNCHANGED <<diskVars, winner, left, since, interruptions>>

(* materialize: the cell's current incumbent, or the starter reference. *)
Materialize(p) ==
    LET n == listing[p][cell[p]]
    IN /\ pc[p] = "materialize"
       /\ \/ /\ ~Replayable(cell[p], listing[p])
             /\ RefuseReading(p, listing[p])
             /\ UNCHANGED <<chosen, baseline>>
          \/ /\ Replayable(cell[p], listing[p])
             /\ chosen' = [chosen EXCEPT ![p] = n]
             /\ baseline' = [baseline EXCEPT ![p] =
                               IF n = 0 THEN Starter ELSE runs[cell[p]][n].candidate]
             /\ Goto(p, "admit")
             /\ UNCHANGED <<lock, result>>
       /\ UNCHANGED <<diskVars, cell, winner, listing, left, since, campaigns,
                      interruptions>>

(* admit_baseline_selection lists the registry again: at launch, and once  *)
(* more at each later admission of the frozen Campaign before it runs.     *)
BeginAdmission(p) ==
    /\ pc[p] \in {"admit", "running"}
    /\ since' = [since EXCEPT ![p] = SealedCount(cell[p])]
    /\ listing' = [listing EXCEPT ![p] = Listed]
    /\ IF root = "bare" THEN End(p, Refused("store"))
       ELSE Goto(p, "admitting") /\ UNCHANGED <<lock, result>>
    /\ UNCHANGED <<diskVars, choiceVars, left, campaigns, interruptions>>

(* Mutant: a starter fallback is admitted without asking the registry. *)
StillSelectedOrStarter(p) ==
    LET n == listing[p][cell[p]]
    IN chosen[p] # 0 => n = chosen[p] /\ runs[cell[p]][n].candidate = baseline[p]

(* The selected baseline is what the registry shows now: the very          *)
(* generation, or still none.                                              *)
StillSelected(p) ==
    LET n == listing[p][cell[p]]
    IN IF chosen[p] = 0 THEN n = 0
       ELSE n = chosen[p] /\ runs[cell[p]][n].candidate = baseline[p]

Admit(p) ==
    /\ pc[p] = "admitting"
    /\ IF ~Replayable(cell[p], listing[p]) THEN RefuseReading(p, listing[p])
       ELSE IF StillSelected(p) THEN Goto(p, "running") /\ UNCHANGED <<lock, result>>
       ELSE End(p, Refused("stale"))
    /\ UNCHANGED <<diskVars, choiceVars, listing, left, since, campaigns, interruptions>>

(* The Campaign confirms a material winner, or none and is over.  What     *)
(* promotion reads of its own sealed Evidence does not touch the registry. *)
Confirm(p) ==
    /\ pc[p] \in {"running", "running_explicit"}
    /\ \/ \E candidate \in Candidates :
             /\ winner' = [winner EXCEPT ![p] = candidate]
             /\ Goto(p, "enter") /\ UNCHANGED <<lock, result>>
       \/ End(p, Refused("no_win")) /\ UNCHANGED winner
    /\ UNCHANGED <<diskVars, cell, baseline, chosen, listing, left, since, campaigns,
                   interruptions>>

-------------------------------------------------------------------------------
(* _publish_incumbent under the writer lock *)

(* Mutant: the flock is not taken. *)
LockUntaken(p) ==
    /\ pc[p] = "enter"
    /\ Goto(p, "open")
    /\ UNCHANGED <<diskVars, lock, choiceVars, listing, left, result, since,
                   campaigns, interruptions>>

Lock(p) ==
    /\ pc[p] = "enter" /\ lock = Nobody
    /\ lock' = p
    /\ Goto(p, "open")
    /\ UNCHANGED <<diskVars, choiceVars, listing, left, result, since, campaigns,
                   interruptions>>

(* EvidenceStore.writer of a root that exists, or create: the root's       *)
(* directory, its three subdirectories, then marker and custody origin.    *)
OpenStore(p) ==
    /\ pc[p] = "open"
    /\ \/ root = "absent" /\ root' = "bare" /\ Goto(p, "create")
          /\ UNCHANGED <<lock, result>>
       \/ root = "ready" /\ Goto(p, "read") /\ UNCHANGED <<root, lock, result>>
       \/ root \in {"bare", "unmarked"} /\ End(p, Refused("store")) /\ UNCHANGED root
    /\ UNCHANGED <<objects, runs, choiceVars, listing, left, since, campaigns,
                   interruptions>>

CreateStore(p) ==
    /\ pc[p] = "create"
    /\ \/ root = "bare" /\ root' = "unmarked" /\ UNCHANGED pc
       \/ root = "unmarked" /\ root' = "ready" /\ Goto(p, "read")
    /\ UNCHANGED <<objects, runs, lock, choiceVars, listing, left, result, since,
                   campaigns, interruptions>>

(* Mutant: the measured baseline is not compared with the incumbent. *)
AdvancesUnchecked(p, n) == winner[p] # baseline[p]

(* The fixed baseline is the current incumbent, and the winner another     *)
(* candidate.                                                              *)
Advances(p, n) ==
    /\ n > 0 => baseline[p] = runs[cell[p]][n].candidate
    /\ winner[p] # baseline[p]

ReadCurrent(p) ==
    /\ pc[p] = "read"
    /\ \/ /\ ~Replayable(cell[p], Listed)
          /\ RefuseReading(p, Listed)
          /\ UNCHANGED <<listing, left>>
       \/ /\ Replayable(cell[p], Listed)
          /\ ~Advances(p, Len(runs[cell[p]]))
          /\ End(p, Refused("baseline"))
          /\ UNCHANGED <<listing, left>>
       \/ /\ Replayable(cell[p], Listed)
          /\ Advances(p, Len(runs[cell[p]]))
          /\ listing' = [listing EXCEPT ![p] = Listed]
          /\ left' = [left EXCEPT ![p] = Artifacts[winner[p]]]
          /\ Goto(p, "put") /\ UNCHANGED <<lock, result>>
    /\ UNCHANGED <<diskVars, choiceVars, since, campaigns, interruptions>>

Skip(p, o) == left' = [left EXCEPT ![p] = @ \ {o}]

(* Mutant: an object that exists is taken as it is. *)
PutUnread(p) ==
    /\ pc[p] = "put"
    /\ \E o \in left[p] :
          /\ Skip(p, o)
          /\ IF objects[o] = "absent"
             THEN objects' = [objects EXCEPT ![o] = "linked"] /\ Goto(p, "unlink")
             ELSE UNCHANGED <<objects, pc>>
    /\ UNCHANGED <<root, runs, lock, choiceVars, listing, result, since, campaigns,
                   interruptions>>

(* EvidenceStore.put: _publish_new_at links the object beside its          *)
(* temporary; of one that exists it reads the bytes back, and the reader   *)
(* refuses a file with two links.                                          *)
Put(p) ==
    /\ pc[p] = "put"
    /\ \E o \in left[p] :
          \/ /\ objects[o] = "absent"
             /\ objects' = [objects EXCEPT ![o] = "linked"]
             /\ Skip(p, o) /\ Goto(p, "unlink") /\ UNCHANGED <<lock, result>>
          \/ /\ objects[o] = "whole"
             /\ Skip(p, o) /\ UNCHANGED <<objects, pc, lock, result>>
          \/ /\ objects[o] = "linked"
             /\ End(p, Refused("object")) /\ UNCHANGED <<objects, left>>
    /\ UNCHANGED <<root, runs, choiceVars, listing, since, campaigns, interruptions>>

(* The put in flight left its temporary: the object neither still to put   *)
(* nor whole.                                                              *)
InFlight(p) == {o \in Artifacts[winner[p]] \ left[p] : objects[o] = "linked"}
Unlinked(p) ==
    [o \in Objects |-> IF o \in InFlight(p) THEN "whole" ELSE objects[o]]

Unlink(p) ==
    /\ pc[p] = "unlink"
    /\ objects' = Unlinked(p)
    /\ Goto(p, "put")
    /\ UNCHANGED <<root, runs, lock, choiceVars, listing, left, result, since,
                   campaigns, interruptions>>

Generation(p) == listing[p][cell[p]] + 1

(* start_run of the next generation: its directory must be new. *)
StartPromotion(p) ==
    /\ pc[p] = "put" /\ left[p] = {}
    /\ \/ /\ Len(runs[cell[p]]) = Generation(p) - 1
          /\ runs' = [runs EXCEPT ![cell[p]] =
                Append(@, [candidate |-> winner[p], baseline |-> baseline[p],
                           stage |-> "started"])]
          /\ Goto(p, "append") /\ UNCHANGED <<lock, result>>
       \/ /\ Len(runs[cell[p]]) # Generation(p) - 1
          /\ End(p, Refused("exists")) /\ UNCHANGED runs
    /\ UNCHANGED <<root, objects, choiceVars, listing, left, since, campaigns,
                   interruptions>>

Reach(p, stage) == runs' = [runs EXCEPT ![cell[p]][Generation(p)].stage = stage]

AppendPromotion(p) ==
    /\ pc[p] = "append"
    /\ Reach(p, "appended") /\ Goto(p, "seal")
    /\ UNCHANGED <<root, objects, lock, choiceVars, listing, left, result, since,
                   campaigns, interruptions>>

SealPromotion(p) ==
    /\ pc[p] = "seal"
    /\ Reach(p, "sealed") /\ Goto(p, "reread")
    /\ UNCHANGED <<root, objects, lock, choiceVars, listing, left, result, since,
                   campaigns, interruptions>>

(* The promotion returns what the registry now shows as current. *)
Reread(p) ==
    /\ pc[p] = "reread"
    /\ IF Replayable(cell[p], Listed)
       THEN End(p, Outcome("promoted", {}, Len(runs[cell[p]])))
       ELSE RefuseReading(p, Listed)
    /\ UNCHANGED <<diskVars, choiceVars, listing, left, since, campaigns, interruptions>>

-------------------------------------------------------------------------------
(* Interruptions *)

Interrupt ==
    /\ interruptions < MaxInterruptions
    /\ interruptions' = interruptions + 1

(* Mutant: a call that raises leaves the flock held. *)
FailLocked(p) ==
    /\ pc[p] # "idle" /\ Interrupt
    /\ Goto(p, "idle") /\ result' = [result EXCEPT ![p] = Refused("failed")]
    /\ objects' = Unlinked(p)
    /\ UNCHANGED <<root, runs, lock, choiceVars, listing, left, since, campaigns>>

(* A call raises: put unlinks its temporary on the way out. *)
Fail(p) ==
    /\ pc[p] # "idle" /\ Interrupt
    /\ End(p, Refused("failed"))
    /\ objects' = IF pc[p] = "unlink" THEN Unlinked(p) ELSE objects
    /\ UNCHANGED <<root, runs, choiceVars, listing, left, since, campaigns>>

(* The process is killed; the kernel releases its flock. *)
Kill(p) ==
    /\ pc[p] # "idle" /\ Interrupt
    /\ End(p, Refused("killed"))
    /\ UNCHANGED <<diskVars, choiceVars, listing, left, since, campaigns>>

-------------------------------------------------------------------------------
Launching(p) ==
    LaunchExplicit(p) \/ LaunchWithRegistry(p) \/ Materialize(p)
    \/ BeginAdmission(p) \/ Admit(p) \/ Confirm(p)
Promoting(p) ==
    Lock(p) \/ OpenStore(p) \/ CreateStore(p) \/ ReadCurrent(p) \/ Put(p) \/ Unlink(p)
    \/ StartPromotion(p) \/ AppendPromotion(p) \/ SealPromotion(p) \/ Reread(p)

Next == \E p \in Processes : Launching(p) \/ Promoting(p) \/ Fail(p) \/ Kill(p)

Spec == Init /\ [][Next]_vars

(* A promotion that has begun is carried on, and a process that waits for  *)
(* the flock gets it when it is free for good.                             *)
FairSpec == Spec /\ \A p \in Processes : WF_vars(Promoting(p))

-------------------------------------------------------------------------------
(* Properties *)

Promotion == {"open", "create", "read", "put", "unlink", "append", "seal", "reread"}
Labels == {"idle", "materialize", "admit", "admitting", "running", "running_explicit",
           "enter"} \cup Promotion
Endings == [kind : {"none", "store", "unclean", "stale", "no_win", "baseline", "object",
                    "exists", "failed", "killed", "promoted"},
            cells : SUBSET Cells, generation : Nat, from : Labels]
Record == [candidate : Candidates, baseline : Candidates,
           stage : {"started", "appended", "sealed"}]

TypeOK ==
    /\ root \in {"absent", "bare", "unmarked", "ready"}
    /\ objects \in [Objects -> {"absent", "linked", "whole"}]
    /\ runs \in [Cells -> Seq(Record)]
    /\ lock \in Processes \cup {Nobody}
    /\ pc \in [Processes -> Labels]
    /\ cell \in [Processes -> Cells]
    /\ baseline \in [Processes -> Candidates] /\ winner \in [Processes -> Candidates]
    /\ chosen \in [Processes -> Nat] /\ since \in [Processes -> Nat]
    /\ listing \in [Processes -> [Cells -> Nat]]
    /\ left \in [Processes -> SUBSET Objects]
    /\ result \in [Processes -> Endings]
    /\ campaigns \in Nat /\ interruptions \in Nat

(* A sealed promotion can be materialised by every later reader: each of   *)
(* its artifacts is a whole object of the registry, although a killed put  *)
(* may have left the very same content unreadable before (store.py put).   *)
SealedIsReadable ==
    \A k \in Cells : \A g \in DOMAIN runs[k] :
        runs[k][g].stage = "sealed" => Clean(runs[k][g])

(* A Campaign runs against a baseline that was the cell's incumbent, or a  *)
(* starter while the cell was empty, when its last admission read the      *)
(* registry or later: one that reads without the lock and lists the Runs   *)
(* before it replays them never admits an older one (incumbents.py         *)
(* admit_baseline_selection).                                              *)
AdmittedAgainstCurrent ==
    \A p \in Processes :
        pc[p] = "running" =>
            /\ chosen[p] >= since[p]
            /\ IF chosen[p] = 0 THEN baseline[p] = Starter
               ELSE /\ runs[cell[p]][chosen[p]].stage = "sealed"
                    /\ baseline[p] = runs[cell[p]][chosen[p]].candidate

(* Without a kill or an error no promotion is turned away for the state of *)
(* the registry: the lock keeps a writer from finding another's promotion  *)
(* half written, or the name of its own taken.                             *)
PromoterMeetsNoHalfPromotion ==
    \A p \in Processes :
        interruptions = 0 /\ result[p].from \in Promotion =>
            result[p].kind \in {"promoted", "baseline"}

(* A promotion that was interrupted after its Run was started. *)
Abandoned ==
    \E k \in Cells : \E g \in DOMAIN runs[k] :
        /\ runs[k][g].stage # "sealed"
        /\ \A p \in Processes :
              ~(pc[p] \in {"append", "seal"} /\ cell[p] = k /\ Generation(p) = g)

(* ADR 0064: an incomplete promotion remains a refusal, not a record       *)
(* repaired in place: nothing is added to the registry after it, and its   *)
(* own Run never changes.                                                  *)
AbandonedIsNeverRepaired == [][Abandoned => UNCHANGED runs]_vars

(* Each cell's sealed generations, where they stand, are a chain of        *)
(* candidates measured against their predecessors.                         *)
Sealed(k) == [g \in SealedAt(k) |->
                [candidate |-> runs[k][g].candidate, baseline |-> runs[k][g].baseline]]
Chain == INSTANCE IncumbentChain WITH chain <- [k \in Cells |-> Sealed(k)]
ImplementsChain == Chain!ChainSpec

(* Whoever waits for the lock ends: promoted, refused or interrupted.  No  *)
(* way out of the with statement leaves the flock held.                    *)
PromotionsEnd ==
    \A p \in Processes : pc[p] = "enter" ~> pc[p] = "idle"

(* TaskIncumbentKey: "One exact comparison cell whose winner may advance   *)
(* independently."  A cell whose own promotions are all sealed would then  *)
(* be readable whatever happens to another.  current replays every Run of  *)
(* the registry first, so this does not hold.                              *)
CellsAreIndependent ==
    \A p \in Processes :
        result[p].kind = "unclean" /\ pc[p] = "idle" => cell[p] \in result[p].cells
===============================================================================
