------------------------------ MODULE RunEngine ------------------------------
(***************************************************************************)
(* The one search and evaluation lifecycle of a frozen Run                 *)
(* (lab/execution.py, _execute_run, with RalphController, EvaluationWriter,*)
(* CompilationRecorder, the candidate filter and run_completion): turns of *)
(* authoring, building, searching and selecting under the frozen budget,   *)
(* then one nomination, one confirmation and one sealed terminal.          *)
(*                                                                         *)
(* One process runs it.  What it cannot know is chosen: how long a call    *)
(* takes, how many tokens a turn costs, what the author submits, what the  *)
(* toolchain accepts, what a device measures, and whether the call raises. *)
(* The ledger is the sequence of events EvidenceWriter publishes.  Its      *)
(* appends succeed here: what a failed one leaves behind is that module's. *)
(***************************************************************************)
EXTENDS RunReplay, Functions

CONSTANTS
    Durations,       \* ticks a call may take
    TokenSpends,     \* provider tokens a completed turn may cost
    Submissions,     \* what a turn's actions may resolve to, in order
    MaxPermits       \* bound: native compilations one build asks for

ASSUME InputAssumption ==
    /\ Durations \subseteq Nat /\ TokenSpends \subseteq Nat \ {0}
    /\ Submissions \subseteq Seq(Candidates)
    /\ \A submission \in Submissions : \A i, j \in DOMAIN submission :
          submission[i] = submission[j] => i = j
    /\ MaxPermits \in Nat

VARIABLES
    pc,            \* where _execute_run is
    turn,          \* turn_number
    stage,         \* live_stage, which classifies a fault
    elapsed,       \* ticks since the Run started
    authoring,     \* RalphController._active_authoring
    counts,        \* RalphController._counts
    compilations,  \* RalphController._compilations
    closedAt,      \* RalphController._search_closed_at: {} or the time
    tokens,        \* cumulative_tokens
    resolved,      \* the turn's resolved candidates
    built,         \* its builds so far: [candidate, launchable]
    plan,          \* the searches still to do
    searched,      \* [candidate, receipt] of those done
    active,        \* the Evaluation in flight: {} or its key and origin
    observations,
    source,        \* confirmation_source_turn, 0 until search closes
    confirmation,  \* {} or the FinalConfirmation
    adherence,     \* protocol_adherence
    reason,        \* ralph_stop_reason
    ledger

clockVars == <<elapsed, authoring>>
budgetVars == <<counts, compilations, closedAt>>
turnVars == <<resolved, built, plan, searched>>
resultVars == <<observations, source, confirmation>>
outcomeVars == <<adherence, reason>>
vars == <<pc, turn, stage, clockVars, budgetVars, tokens, turnVars, active,
          resultVars, outcomeVars, ledger>>

Init ==
    /\ pc = "loop" /\ turn = 1 /\ stage = "provider"
    /\ elapsed = 0 /\ authoring = 0
    /\ counts = [purpose \in Purposes |-> 0]
    /\ compilations = 0 /\ closedAt = {} /\ tokens = 0
    /\ resolved = << >> /\ built = << >> /\ plan = << >> /\ searched = << >>
    /\ active = {}
    /\ observations = << >> /\ source = 0 /\ confirmation = {}
    /\ adherence = "adhered" /\ reason = "none"
    /\ ledger = <<[kind |-> "run_started"]>>

-------------------------------------------------------------------------------
(* Records *)

(* An event of the current search turn. *)
TurnEvent(kind) == [kind |-> kind, origin |-> "turn", turn |-> turn]
CandidateEvent(kind, candidate) ==
    [kind |-> kind, origin |-> "turn", turn |-> turn, candidate |-> candidate]

(* An Evaluation before nomination belongs to its turn, one after it to    *)
(* the nominee's.                                                          *)
Origin == IF source = 0 THEN [origin |-> "turn", turn |-> turn]
          ELSE [origin |-> "source_turn", turn |-> source]
EvaluationEvent(kind, invocation) ==
    [kind |-> kind, origin |-> invocation.origin, turn |-> invocation.turn,
     purpose |-> invocation.purpose, candidate |-> invocation.candidate]

(* The end of an Evaluation's attempts, and whether they gave a receipt. *)
CompletedEvent(invocation, answered) ==
    [kind |-> "evaluation_attempt_completed", origin |-> invocation.origin,
     turn |-> invocation.turn, purpose |-> invocation.purpose,
     candidate |-> invocation.candidate, answered |-> answered]

(* RalphController.state_card at time now. *)
RalphState(now, closed, why) ==
    LET at == Rounded(now)
        searchElapsed == IF closed = {} THEN at ELSE CHOOSE time \in closed : TRUE
    IN [iteration |-> NextIteration(observations), tokens |-> tokens,
        elapsed |-> at, authoring |-> Rounded(authoring), counts |-> counts,
        compilations |-> compilations, searchElapsed |-> searchElapsed,
        exceeded |-> ExceededBudgets(tokens, Rounded(authoring), searchElapsed, at),
        reason |-> why]

FaultOf(live) == CASE live = "provider" -> "provider_fault"
                   [] live = "environment" -> "harness_fault"
                   [] live = "evaluation" -> "broker_fault"

(* record_run_fault: events already written by the failing call, then the  *)
(* fault, at the live stage; usage is what the provider's retained output  *)
(* says a failed turn cost.                                                *)
RecordFault(written, live, fault, usage) ==
    /\ stage' = live
    /\ tokens' = tokens + usage
    /\ adherence' = fault /\ reason' = fault
    /\ ledger' = ledger \o written \o
          <<[kind |-> "run_fault", origin |-> Origin.origin, turn |-> Origin.turn,
             stage |-> live, fault |-> fault, tokens |-> tokens', usage |-> usage]>>
    /\ active' = {}
    /\ pc' = "seal"
    /\ UNCHANGED <<turn, resultVars>>

-------------------------------------------------------------------------------
(* The loop's stop rule and the author's turn *)

StopNow == StopReason(turn, tokens, elapsed, authoring, counts, compilations)

StopSearch ==
    /\ pc = "loop" /\ StopNow # "none"
    /\ pc' = "close"
    /\ UNCHANGED <<turn, stage, clockVars, budgetVars, tokens, turnVars, active,
                   resultVars, outcomeVars, ledger>>

Author(duration) ==
    /\ pc = "loop" /\ StopNow = "none"
    /\ elapsed' = elapsed + duration
    /\ authoring' = authoring + duration
    /\ UNCHANGED <<budgetVars, turnVars>>

AuthorTurn ==
    \E duration \in Durations, spent \in TokenSpends :
        /\ Author(duration)
        /\ stage' = "provider"
        /\ tokens' = tokens + spent
        /\ ledger' = Append(ledger, [kind |-> "provider_turn_completed",
                              origin |-> "turn", turn |-> turn, tokens |-> tokens'])
        /\ pc' = "resolve"
        /\ UNCHANGED <<turn, active, resultVars, outcomeVars>>

(* The provider raised, or its returned turn was refused while it was      *)
(* archived; its output may still witness what it cost.                    *)
AuthorFault ==
    \E duration \in Durations, usage \in {0} \cup TokenSpends :
        /\ Author(duration)
        /\ RecordFault(<< >>, "provider", "provider_fault", usage)

ResolveActions ==
    /\ pc = "resolve"
    /\ stage' = "environment"
    /\ resolved' \in Submissions
    /\ built' = << >> /\ plan' = << >> /\ searched' = << >>
    /\ ledger' = Append(ledger, [kind |-> "author_actions_resolved",
                          origin |-> "turn", turn |-> turn, candidates |-> resolved'])
    /\ pc' = "build"
    /\ UNCHANGED <<turn, clockVars, budgetVars, tokens, active, resultVars, outcomeVars>>

ResolveFault ==
    /\ pc = "resolve"
    /\ RecordFault(<< >>, "environment", "harness_fault", 0)
    /\ UNCHANGED <<clockVars, budgetVars, turnVars>>

-------------------------------------------------------------------------------
(* The pre-device filter: every candidate is built *)

NextBuild == resolved[Len(built) + 1]

(* CompilationRecorder for one build that asks for that many permits:      *)
(* granted ones start and complete, the first refused one ends the build.  *)
Granted(asked) == Min({asked, MaximumCompilations - compilations})

CompilationEvents(asked, now) ==
    [k \in 1..(2 * Granted(asked) + (IF asked > Granted(asked) THEN 1 ELSE 0)) |->
        LET permit == (k + 1) \div 2
        IN IF permit > Granted(asked) THEN CandidateEvent("compilation_refused", NextBuild)
           ELSE [kind |-> IF k % 2 = 1 THEN "compilation_started"
                          ELSE "compilation_completed",
                 origin |-> "turn", turn |-> turn, candidate |-> NextBuild,
                 number |-> compilations + permit,
                 clock |-> Rounded(IF k = 1 THEN elapsed ELSE now)]]

BuildStep(asked, duration) ==
    /\ pc = "build" /\ Len(built) < Len(resolved)
    /\ elapsed' = elapsed + duration
    /\ compilations' = compilations + Granted(asked)
    /\ UNCHANGED <<authoring, counts, closedAt, resolved, plan, searched>>

(* Mutant: a build goes on after its permit was refused. *)
BuildCandidateUnrefused ==
    \E asked \in 0..MaxPermits, duration \in Durations, launchable \in BOOLEAN :
        /\ BuildStep(asked, duration)
        /\ built' = Append(built, [candidate |-> NextBuild, launchable |-> launchable])
        /\ ledger' = ledger \o CompilationEvents(asked, elapsed')
        /\ UNCHANGED <<pc, turn, stage, tokens, active, resultVars, outcomeVars>>

BuildCandidate ==
    \E asked \in 0..MaxPermits, duration \in Durations, launchable \in BOOLEAN :
        /\ launchable => asked = Granted(asked)
        /\ BuildStep(asked, duration)
        /\ built' = Append(built, [candidate |-> NextBuild, launchable |-> launchable])
        /\ ledger' = ledger \o CompilationEvents(asked, elapsed')
        /\ UNCHANGED <<pc, turn, stage, tokens, active, resultVars, outcomeVars>>

BuildFault ==
    \E asked \in 0..MaxPermits, duration \in Durations :
        /\ asked = Granted(asked)
        /\ BuildStep(asked, duration)
        /\ RecordFault(CompilationEvents(asked, elapsed'), "environment",
                       "harness_fault", 0)
        /\ UNCHANGED built

Survivors == AtPositions(built, {n \in 1..Len(built) : built[n].launchable})
Rejects == AtPositions(built, {n \in 1..Len(built) : ~built[n].launchable})

(* Launchable candidates first, each group in the author's order. *)
FilterOrder == Survivors \o Rejects

FilterEvents ==
    <<[kind |-> "candidate_set_filtered", origin |-> "turn", turn |-> turn,
       order |-> FilterOrder]>>
    \o [n \in 1..Len(Rejects) |->
          CandidateEvent("candidate_rejected", Rejects[n].candidate)]

SelectionEvent(candidate, qualified, why) ==
    [kind |-> "candidate_selected", origin |-> "turn", turn |-> turn,
     candidate |-> candidate, qualified |-> qualified, reason |-> why]

(* The end of the loop's body.  Only a turn that produced candidates goes  *)
(* on to the token check there; the other leaves it to the stop rule.      *)
TokensSpent == Limit # Unlimited /\ tokens >= Limit
EndTurn(stop) ==
    IF stop \/ turn = MaximumTurns THEN pc' = "close" /\ UNCHANGED turn
    ELSE pc' = "loop" /\ turn' = turn + 1

FilterReady == pc = "build" /\ Len(built) = Len(resolved)

(* Mutant: a turn without a candidate leaves no observation. *)
FilterEmptySilent ==
    /\ FilterReady /\ built = << >>
    /\ ledger' = ledger \o FilterEvents
                        \o <<SelectionEvent(NoCandidate, << >>, "no_candidate_produced")>>
    /\ EndTurn(FALSE)
    /\ UNCHANGED <<stage, clockVars, budgetVars, tokens, turnVars, active, resultVars,
                   outcomeVars>>

FilterEmpty ==
    /\ FilterReady /\ built = << >>
    /\ observations' = Append(observations, Observation(turn, tokens, NoCandidate, 0))
    /\ ledger' = ledger \o FilterEvents
                        \o <<SelectionEvent(NoCandidate, << >>, "no_candidate_produced")>>
    /\ EndTurn(FALSE)
    /\ UNCHANGED <<stage, clockVars, budgetVars, tokens, turnVars, active, source,
                   confirmation, outcomeVars>>

FilterAllRejected ==
    /\ FilterReady /\ built # << >>
    /\ \A n \in 1..Len(built) : ~built[n].launchable
    /\ LET candidate == FilterOrder[1].candidate
       IN /\ observations' = Append(observations, Observation(turn, tokens, candidate, 0))
          /\ ledger' = ledger \o FilterEvents
                 \o <<SelectionEvent(candidate, << >>, "all_candidates_rejected")>>
    /\ EndTurn(TokensSpent)
    /\ UNCHANGED <<stage, clockVars, budgetVars, tokens, turnVars, active, source,
                   confirmation, outcomeVars>>

FilterSurvivors ==
    /\ FilterReady
    /\ \E n \in 1..Len(built) : built[n].launchable
    /\ plan' = SearchPlan(FilterOrder)
    /\ ledger' = ledger \o FilterEvents
    /\ pc' = "search"
    /\ UNCHANGED <<turn, stage, clockVars, budgetVars, tokens, resolved, built,
                   searched, active, resultVars, outcomeVars>>

-------------------------------------------------------------------------------
(* EvaluationWriter.evaluate: the attempt is recorded as started, then     *)
(* charged to the budget, which may refuse it, and handed to the evaluator.*)

Invocation(purpose, candidate) ==
    [origin |-> Origin.origin, turn |-> Origin.turn, purpose |-> purpose,
     candidate |-> candidate]

Affordable(purpose) ==
    /\ purpose = "search" => closedAt = {}
    /\ purpose = "confirmatory" => closedAt # {}
    /\ counts[purpose] < EvaluationLimit[purpose]

Begin(written, purpose, candidate) ==
    LET started == EvaluationEvent("evaluation_attempt_started",
                                   Invocation(purpose, candidate))
        events == Append(written, started)
    IN /\ UNCHANGED <<clockVars, compilations, closedAt, turnVars>>
       /\ IF Affordable(purpose)
          THEN /\ counts' = [counts EXCEPT ![purpose] = @ + 1]
               /\ active' = {Invocation(purpose, candidate)}
               /\ stage' = "evaluation"
               /\ ledger' = ledger \o events
               /\ pc' = "evaluate"
               /\ UNCHANGED <<turn, tokens, resultVars, outcomeVars>>
          ELSE /\ RecordFault(events, "evaluation", "broker_fault", 0)
               /\ UNCHANGED counts

SealLaunchable == <<CandidateEvent("launchable_candidate_sealed", plan[1])>>

StartSearch ==
    /\ pc = "search" /\ plan # << >>
    /\ Begin(SealLaunchable, "search", plan[1])

(* An artifact of the next candidate is refused by the object store; the   *)
(* live stage is still that of the step before.                            *)
SealFault ==
    /\ pc = "search" /\ plan # << >>
    /\ RecordFault(<< >>, stage, FaultOf(stage), 0)
    /\ UNCHANGED <<clockVars, budgetVars, turnVars>>

Profiled == IF source = 0 THEN searched[Len(searched)].candidate
            ELSE (CHOOSE o \in confirmation : TRUE).candidate

StartAttribution ==
    /\ pc = "profile"
    /\ Begin(<< >>, "attribution", Profiled)

(* Mutant: the latest selected candidate is confirmed, not the nominee. *)
StartConfirmationOfLatest ==
    /\ pc = "confirm"
    /\ Begin(<< >>, "confirmatory", observations[Len(observations)].candidate)

StartConfirmation ==
    /\ pc = "confirm"
    /\ \E i \in 1..Len(observations) :
          /\ observations[i].turn = source
          /\ Begin(<< >>, "confirmatory", observations[i].candidate)

(* The evaluator answers with a receipt, which is archived and dated. *)
Answer(invocation, receipt) ==
    \E duration \in Durations :
        /\ pc = "evaluate" /\ active = {invocation}
        /\ active' = {}
        /\ elapsed' = elapsed + duration
        /\ ledger' = ledger \o
             <<CompletedEvent(invocation, TRUE),
               [kind |-> "candidate_evaluated", origin |-> invocation.origin,
                turn |-> invocation.turn, purpose |-> invocation.purpose,
                candidate |-> invocation.candidate, receipt |-> receipt,
                clock |-> Rounded(elapsed')]>>
        /\ UNCHANGED <<turn, stage, authoring, budgetVars, tokens, resolved, built,
                       observations, source, outcomeVars>>

AnswerSearch ==
    \E invocation \in active, receipt \in Receipts :
        /\ invocation.purpose = "search"
        /\ Answer(invocation, receipt)
        /\ searched' = Append(searched, [candidate |-> invocation.candidate,
                                         receipt |-> receipt])
        /\ plan' = Tail(plan)
        /\ pc' = IF ProfileEach /\ receipt.correct THEN "profile" ELSE "search"
        /\ UNCHANGED confirmation

AnswerConfirmation ==
    \E invocation \in active, receipt \in Receipts :
        /\ invocation.purpose = "confirmatory"
        /\ Answer(invocation, receipt)
        /\ confirmation' = {Confirmation(source, invocation.candidate, tokens,
                                         receipt.latency)}
        /\ pc' = IF Attribution = "selected" /\ Qualifies(receipt) THEN "profile"
                 ELSE "seal"
        /\ UNCHANGED <<plan, searched>>

(* A profile carries no timing: its receipt only has to describe a launch. *)
AnswerAttribution ==
    \E invocation \in active :
        /\ invocation.purpose = "attribution"
        /\ Answer(invocation, [correct |-> TRUE, latency |-> 0])
        /\ pc' = IF source = 0 THEN "search" ELSE "seal"
        /\ UNCHANGED <<plan, searched, confirmation>>

(* The evaluator raises or reuses a broker job, or its attempts end without*)
(* a receipt, or with one whose authority differs or whose objects the     *)
(* store refuses: then the attempts are recorded as answered already.      *)
EvaluationFault ==
    /\ pc = "evaluate"
    /\ \E invocation \in active, duration \in Durations :
          /\ elapsed' = elapsed + duration
          /\ \/ \E fault \in {"broker_fault", "harness_fault"} :
                   RecordFault(<< >>, "evaluation", fault, 0)
             \/ \E answered \in BOOLEAN :
                   RecordFault(<<CompletedEvent(invocation, answered)>>,
                               "evaluation", "broker_fault", 0)
    /\ UNCHANGED <<authoring, budgetVars, turnVars>>

QualifiedInOrder ==
    CandidatesOf(AtPositions(searched, QualifiedSearches(searched)))

CollapseDiagnosis ==
    IF Collapsed(FilterOrder) = {} THEN << >>
    ELSE <<[kind |-> "diagnosis_routed", origin |-> "turn", turn |-> turn,
            collapsed |-> Collapsed(FilterOrder)]>>

SelectCandidate ==
    /\ pc = "search" /\ plan = << >>
    /\ LET best == searched[BestSearch(searched)]
           qualified == QualifiedSearches(searched) # {}
       IN /\ observations' = Append(observations,
                 Observation(turn, tokens, best.candidate, best.receipt.latency))
          /\ ledger' = ledger \o CollapseDiagnosis
                 \o <<SelectionEvent(best.candidate, QualifiedInOrder,
                        IF qualified THEN "lowest_qualified_search_latency"
                        ELSE "no_qualified_search_candidate")>>
    /\ EndTurn(TokensSpent)
    /\ UNCHANGED <<stage, clockVars, budgetVars, tokens, turnVars, active, source,
                   confirmation, outcomeVars>>

-------------------------------------------------------------------------------
(* Search closes, one nominee is confirmed, the Run is sealed *)

(* complete_search rederives the reason from the recorded times. *)
CloseReason(now) ==
    StopReason(NextIteration(observations), tokens, Rounded(now), Rounded(authoring),
               counts, compilations)

CloseEvents(now) ==
    <<[kind |-> "search_completed", state |-> RalphState(now, {}, CloseReason(now))]>>
    \o IF Nominee(observations) = {}
       THEN <<[kind |-> "candidate_nominated", turn |-> 0, candidate |-> NoCandidate]>>
       ELSE LET nominee == CHOOSE o \in Nominee(observations) : TRUE
            IN <<[kind |-> "candidate_nominated", turn |-> nominee.turn,
                  candidate |-> nominee.candidate]>>

(* Without a reason it raises, and the live stage is then stale.           *)
CloseSearch ==
    \E duration \in Durations :
        /\ pc = "close"
        /\ elapsed' = elapsed + duration
        /\ UNCHANGED <<authoring, counts, compilations, turnVars>>
        /\ IF CloseReason(elapsed') = "none"
           THEN RecordFault(<< >>, stage, FaultOf(stage), 0) /\ UNCHANGED closedAt
           ELSE /\ reason' = CloseReason(elapsed')
                /\ closedAt' = {Rounded(elapsed')}
                /\ ledger' = ledger \o CloseEvents(elapsed')
                /\ \/ /\ Nominee(observations) = {}
                      /\ source' = 0 /\ pc' = "seal"
                   \/ \E nominee \in Nominee(observations) :
                         source' = nominee.turn /\ pc' = "confirm"
                /\ UNCHANGED <<turn, stage, tokens, active, observations,
                               confirmation, adherence>>

(* _seal_run; what it refuses leaves the Run unsealed for good, and nothing *)
(* follows a sealed terminal.                                              *)
SealRun ==
    \E duration \in Durations :
        LET state == RalphState(elapsed', closedAt, reason)
        IN /\ pc = "seal"
           /\ elapsed' = elapsed + duration
           /\ ProjectionDefined(observations, tokens)
           /\ EndpointDefined(observations, tokens, adherence, reason, confirmation)
           /\ ledger' = ledger \o
                <<[kind |-> "checkpoints_projected", state |-> state,
                   checkpoints |-> Projection(observations, tokens)],
                  [kind |-> "run_terminal", adherence |-> adherence,
                   endpoint |-> Endpoint(tokens, adherence, reason, confirmation,
                                         state.exceeded)]>>
           /\ pc' = "sealed"
           /\ UNCHANGED <<turn, stage, authoring, budgetVars, tokens, turnVars, active,
                          resultVars, outcomeVars>>

Authoring == AuthorTurn \/ AuthorFault \/ ResolveActions \/ ResolveFault
Building == BuildCandidate \/ BuildFault \/ FilterEmpty \/ FilterAllRejected
            \/ FilterSurvivors
Evaluating == StartSearch \/ SealFault \/ StartAttribution \/ StartConfirmation
              \/ AnswerSearch \/ AnswerConfirmation \/ AnswerAttribution
              \/ EvaluationFault \/ SelectCandidate
Closing == StopSearch \/ CloseSearch \/ SealRun

Next == Authoring \/ Building \/ Evaluating \/ Closing

Spec == Init /\ [][Next]_vars

(* The process runs on: every call it makes returns or raises (the adapters *)
(* bound provider, compiler and device calls with timeouts of their own).   *)
FairSpec == Spec /\ WF_vars(Next)

-------------------------------------------------------------------------------
(* Correctness *)

Searches == [candidate : Candidates, receipt : Receipts]
AnyLatency == {0} \cup Latencies
AnyCandidate == Candidates \cup {NoCandidate}
Invocations == [origin : {"turn", "source_turn"}, turn : Nat \ {0},
                purpose : Purposes, candidate : AnyCandidate]
ObservationType == [turn : Nat \ {0}, tokens : Nat, candidate : AnyCandidate,
                    qualified : BOOLEAN, latency : AnyLatency]
ConfirmationType == [source : Nat \ {0}, candidate : AnyCandidate, tokens : Nat,
                     latency : AnyLatency]
AtMostOne(set) == \A x, y \in set : x = y

TypeOK ==
    /\ pc \in {"loop", "resolve", "build", "search", "evaluate", "profile",
              "close", "confirm", "seal", "sealed"}
    /\ stage \in {"provider", "environment", "evaluation"}
    /\ turn \in Nat \ {0}
    /\ elapsed \in Nat /\ authoring \in Nat
    /\ tokens \in Nat /\ source \in Nat
    /\ counts \in [Purposes -> Nat]
    /\ compilations \in 0..MaximumCompilations
    /\ closedAt \subseteq Nat /\ AtMostOne(closedAt)
    /\ resolved \in Seq(Candidates) /\ plan \in Seq(Candidates)
    /\ built \in Seq(Row) /\ searched \in Seq(Searches)
    /\ active \subseteq Invocations /\ AtMostOne(active)
    /\ observations \in Seq(ObservationType)
    /\ confirmation \subseteq ConfirmationType /\ AtMostOne(confirmation)
    /\ adherence \in {"adhered", "provider_fault", "harness_fault", "broker_fault"}
    /\ reason \in {"none", adherence} \cup Range(StopReasons)

(* The Evaluation the next step records as started, with its purpose.      *)
NextPurpose ==
    CASE pc = "search" /\ plan # << >> -> {"search"}
      [] pc = "profile" -> {"attribution"}
      [] pc = "confirm" -> {"confirmatory"}
      [] OTHER -> {}

(* A turn that the stop rule let begin can finish: record_evaluation never *)
(* refuses an Evaluation that _execute_run asks for, however many of the   *)
(* turn's candidates are measured and profiled (ralph.py 105-120, 212-221).*)
TurnReservation == \A purpose \in NextPurpose : Affordable(purpose)

(* Evaluations still affordable before search closes.                      *)
Room(searches, profiles) ==
    /\ counts["search"] + searches <= SearchLimit
    /\ ProfileEach => counts["attribution"] + profiles <= AttributionLimit

(* What the current turn may still ask for is within the limits. *)
TurnReserved ==
    /\ pc \in {"resolve", "build"} => Room(SearchesPerTurn, SearchesPerTurn)
    /\ pc = "search" => Room(Len(plan), Len(plan))
    /\ pc = "profile" /\ source = 0 => ProfileEach /\ Room(Len(plan), Len(plan) + 1)
    /\ \A invocation \in active :
          /\ invocation.purpose = "search" => Room(Len(plan) - 1, Len(plan))
          /\ invocation.purpose = "attribution" /\ source = 0 =>
                ProfileEach /\ Room(Len(plan), Len(plan))

(* Before the nomination nothing is confirmed, and only the protocol that  *)
(* profiles survivors has profiled.                                        *)
ConfirmationReserved ==
    /\ closedAt = {} => confirmation = {}
    /\ closedAt = {} \/ pc = "confirm" =>
          /\ counts["confirmatory"] = 0
          /\ ~ProfileEach => counts["attribution"] = 0
    /\ /\ source # 0 /\ ~ProfileEach
       /\ pc = "profile" \/ \E i \in active : i.purpose = "confirmatory"
       => counts["attribution"] = 0
    /\ pc = "profile" /\ source # 0 => Attribution = "selected" /\ confirmation # {}

(* Where the steps of a Run leave its phase, plan and Evaluation in flight.*)
InPhase ==
    /\ closedAt # {} => pc \in {"confirm", "evaluate", "profile", "seal", "sealed"}
    /\ source # 0 => closedAt # {}
    /\ closedAt # {} /\ pc \in {"confirm", "evaluate", "profile"} => source # 0
    /\ pc = "confirm" => closedAt # {}
    /\ active # {} <=> pc = "evaluate"
    /\ pc = "search" => plan # << >> \/ searched # << >>
    /\ pc = "profile" /\ source = 0 => searched # << >>
    /\ \A invocation \in active :
          /\ invocation.purpose = "search" =>
                source = 0 /\ plan # << >> /\ invocation.candidate = plan[1]
          /\ invocation.purpose = "confirmatory" => source # 0
          /\ invocation.purpose = "attribution" /\ source = 0 => searched # << >>

WithinLimits == \A purpose \in Purposes : counts[purpose] <= EvaluationLimit[purpose]

(* The inductive invariant behind TypeOK and TurnReservation. *)
IInv == TypeOK /\ TurnReserved /\ ConfirmationReserved /\ InPhase /\ WithinLimits

(* A time has reached a limit that its record rounds to less than: only a  *)
(* limit off the grid of the records allows it.                            *)
RoundedShort(time, limit) == time >= limit /\ Rounded(time) < limit

(* complete_search finds the reason search stopped, although the loop      *)
(* stopped on the raw clock and on its own turn number, and the close is   *)
(* decided on rounded times and on the number of observations (execution.py*)
(* 558-561, ralph.py 192-204).  The one way to lose it is a clock the      *)
(* rounding took back below the limit that stopped the loop.               *)
SearchStopIsDeclared ==
    pc = "close" =>
        \/ RoundedShort(elapsed, SearchWall) \/ RoundedShort(authoring, AuthoringLimit)
        \/ /\ CloseReason(elapsed) # "none"
           /\ \A duration \in Durations : CloseReason(elapsed + duration) # "none"

(* What a sealed Run's success means: it adhered, its clock and tokens are *)
(* within every limit, and the candidate it names is the one nominated     *)
(* from search, measured afterwards in the Run's only confirmation.        *)
QualifiedWithinBudget ==
    pc = "sealed" /\ Terminal(ledger).endpoint.observation = "qualified" =>
        LET endpoint == Terminal(ledger).endpoint
            closed == The(ledger, At(ledger, "search_completed")).state.elapsed
            confirmed == ConfirmationsAt(ledger)
        IN /\ adherence = "adhered" /\ endpoint.exceeded = {}
           /\ Limit # Unlimited => tokens <= Limit
           /\ Rounded(authoring) <= AuthoringLimit
           /\ closed <= SearchWall
           /\ Rounded(elapsed) <= closed + ConfirmationWall
           /\ counts["confirmatory"] = 1 /\ Cardinality(confirmed) = 1
           /\ \E o \in Range(observations) :
                 /\ o.turn = source /\ o.qualified
                 /\ \A other \in Range(observations) :
                       other.qualified => o.latency <= other.latency
                 /\ {b.candidate : b \in endpoint.best} = {o.candidate}
                 /\ \A i \in confirmed :
                       /\ ledger[i].candidate = o.candidate
                       /\ endpoint.best = {[candidate |-> o.candidate,
                                            latency |-> ledger[i].receipt.latency]}

(* The legacy protocol's profile of a confirmed winner failed.             *)
ProfileFault == source # 0 /\ adherence # "adhered" /\ confirmation # {}

(* A fault left attempts recorded as answered without their receipt.       *)
ReceiptStranded ==
    \E i \in At(ledger, "evaluation_attempt_completed") :
        ledger[i].answered /\ Interrupted(ledger, i)

(* complete_search raised over a stop the rounded clocks do not show: its  *)
(* fault names a turn no author began, at the stage of the turn before.    *)
StopUndeclared ==
    /\ adherence # "adhered" /\ closedAt = {} /\ stage # "provider"
    /\ AtTurn(ledger, "provider_turn_completed", turn) = {}

(* Every Run the live controller seals is one the independent replay       *)
(* accepts, whatever faulted and wherever (replay/__init__.py), but for the*)
(* three ways a fault leaves a ledger that no pass of it can place.        *)
SealedRunReplays ==
    pc = "sealed" /\ ~ProfileFault /\ ~ReceiptStranded /\ ~StopUndeclared
        => Replays(ledger)

Omitting(i) == SubSeq(ledger, 1, i - 1) \o SubSeq(ledger, i + 1, Len(ledger))

(* The ledger of an adhered Run carries nothing it could do without: the   *)
(* replay refuses it with any one event left out, but a refused permit.    *)
OmissionIsRefused ==
    pc = "sealed" /\ adherence = "adhered" =>
        \A i \in DOMAIN ledger :
            ledger[i].kind # "compilation_refused" => ~Replays(Omitting(i))

(* No later turn rewrites the curve: once an observation stands at or past *)
(* a token checkpoint, what the checkpoint shows is settled.               *)
NoBackfill ==
    [][\A i \in DOMAIN Checkpoints :
          (\E o \in Range(observations) : o.tokens >= Checkpoints[i])
          => Project(observations, tokens, Checkpoints[i])' =
             Project(observations, tokens, Checkpoints[i])]_vars

(* What the Run's reader is promised, read off the controller. *)
Protocol == INSTANCE RunProtocol WITH
    phase <- IF pc = "sealed" THEN "concluded"
             ELSE IF confirmation # {} THEN "confirmed"
             ELSE IF closedAt # {} THEN "nominated" ELSE "search",
    nominee <- IF source = 0 THEN NoCandidate
               ELSE (CHOOSE o \in Range(observations) : o.turn = source).candidate,
    measured <- {[candidate |-> c.candidate, latency |-> c.latency] : c \in confirmation},
    outcome <- IF pc # "sealed" THEN [observation |-> "none", best |-> {}]
               ELSE [observation |-> Terminal(ledger).endpoint.observation,
                     best |-> Terminal(ledger).endpoint.best]

(* One search, one nominee, one measurement of it and one outcome that     *)
(* rests on it, whatever faults (lab/execution.py 558-635, endpoints.py).  *)
ImplementsProtocol == Protocol!Spec

(* A Run that starts is sealed: no fault, refusal or budget leaves it      *)
(* between states for good.                                                *)
RunEnds == <>(pc = "sealed")
===============================================================================
