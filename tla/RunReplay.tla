------------------------------ MODULE RunReplay ------------------------------
(***************************************************************************)
(* The semantic replay of one sealed Run (lab/replay/): given the Event    *)
(* Ledger alone, is it one the protocol could have produced, and do its    *)
(* search close, nomination, checkpoints and terminal rederive from it?    *)
(*                                                                         *)
(* An event is a record with a kind.  The origin of an Evaluation or a     *)
(* fault is the field it is recorded under, "turn" or "source_turn", and   *)
(* its value.  Retained objects are taken to be what their digests say;    *)
(* the projections of them (feedback, optimisation history) are left out.  *)
(***************************************************************************)
EXTENDS RunDecisions

At(ledger, kind) == {i \in DOMAIN ledger : ledger[i].kind = kind}
AtTurn(ledger, kind, turn) == {i \in At(ledger, kind) : ledger[i].turn = turn}
The(ledger, positions) == ledger[CHOOSE i \in positions : TRUE]

SearchKinds == {"provider_turn_completed", "author_actions_resolved",
                "compilation_started", "compilation_completed",
                "compilation_refused", "candidate_set_filtered",
                "candidate_rejected", "launchable_candidate_sealed",
                "diagnosis_routed", "candidate_selected"}
EvaluationKinds == {"evaluation_attempt_started", "evaluation_attempt_completed",
                    "candidate_evaluated"}
Kinds == SearchKinds \cup EvaluationKinds \cup
    {"run_started", "search_completed", "candidate_nominated", "run_fault",
     "checkpoints_projected", "run_terminal"}

-------------------------------------------------------------------------------
(* What the rest of the replay reads *)

Terminal(ledger) == ledger[Len(ledger)]
Projected(ledger) == ledger[Len(ledger) - 1]
TurnCount(ledger) == Cardinality(At(ledger, "provider_turn_completed"))
TokensAt(ledger, turn) ==
    The(ledger, AtTurn(ledger, "provider_turn_completed", turn)).tokens
PriorTokens(ledger) ==
    IF TurnCount(ledger) = 0 THEN 0 ELSE TokensAt(ledger, TurnCount(ledger))

Faults(ledger) == At(ledger, "run_fault")
TheFault(ledger) == The(ledger, Faults(ledger))

(* The search turn a fault cut short, or 0. *)
FaultTurn(ledger) ==
    IF Faults(ledger) = {} \/ TheFault(ledger).origin = "source_turn" THEN 0
    ELSE TheFault(ledger).turn

TerminalTokens(ledger) ==
    IF Faults(ledger) = {} THEN PriorTokens(ledger) ELSE TheFault(ledger).tokens

Resolved(ledger, turn) ==
    LET found == AtTurn(ledger, "author_actions_resolved", turn)
    IN IF found = {} THEN << >> ELSE The(ledger, found).candidates
Submitted(ledger, turn) ==
    {Resolved(ledger, turn)[i] : i \in DOMAIN Resolved(ledger, turn)}

Rows(ledger, turn) == The(ledger, AtTurn(ledger, "candidate_set_filtered", turn)).order
Selection(ledger, turn) == The(ledger, AtTurn(ledger, "candidate_selected", turn))

EvaluationKey(event) == <<event.turn, event.purpose, event.candidate>>
Evaluated(ledger, key) ==
    {i \in At(ledger, "candidate_evaluated") : EvaluationKey(ledger[i]) = key}

(* A turn's search receipts, in the order they were retained. *)
TurnSearches(ledger, turn) ==
    LET at == {i \in AtTurn(ledger, "candidate_evaluated", turn) :
                  ledger[i].purpose = "search"}
        events == AtPositions(ledger, at)
    IN [n \in 1..Len(events) |->
          [candidate |-> events[n].candidate, receipt |-> events[n].receipt]]

-------------------------------------------------------------------------------
(* replay/__init__.py: the shape of the ledger and the place of its fault  *)

Unique(ledger, kind) == Cardinality(At(ledger, kind)) = 1

Shaped(ledger) ==
    /\ \A i \in DOMAIN ledger : ledger[i].kind \in Kinds
    /\ \A kind \in {"run_started", "checkpoints_projected", "run_terminal"} :
          Unique(ledger, kind)
    /\ Len(ledger) >= 3
    /\ ledger[1].kind = "run_started"
    /\ Projected(ledger).kind = "checkpoints_projected"
    /\ Terminal(ledger).kind = "run_terminal"

(* Turn-bearing events come in turn order. *)
TurnBearing(event) ==
    /\ event.kind \in SearchKinds \cup EvaluationKinds \cup {"run_fault"}
    /\ event.origin = "turn"
InTurnOrder(ledger) ==
    \A i, j \in {n \in DOMAIN ledger : TurnBearing(ledger[n])} :
        i < j => ledger[i].turn <= ledger[j].turn

(* replay_elapsed_clock *)
Clocked(event) == event.kind \in {"candidate_evaluated", "compilation_started",
                                  "compilation_completed", "search_completed",
                                  "checkpoints_projected"}
ClockOf(event) == IF event.kind \in {"search_completed", "checkpoints_projected"}
                  THEN event.state.elapsed ELSE event.clock
ClockMonotone(ledger) ==
    \A i, j \in {n \in DOMAIN ledger : Clocked(ledger[n])} :
        i < j => ClockOf(ledger[i]) <= ClockOf(ledger[j])

(* replay/provider.py: completed turns are 1..n, with growing totals. *)
TurnsReplay(ledger) ==
    \A turn \in 1..TurnCount(ledger) :
        /\ Cardinality(AtTurn(ledger, "provider_turn_completed", turn)) = 1
        /\ turn > 1 => TokensAt(ledger, turn - 1) < TokensAt(ledger, turn)

FaultPlaced(ledger) ==
    Faults(ledger) # {} =>
        LET fault == TheFault(ledger)
            turns == TurnCount(ledger)
        IN /\ Unique(ledger, "run_fault")
           /\ fault.fault = Terminal(ledger).adherence
           /\ fault.tokens = PriorTokens(ledger) + fault.usage
           /\ fault.stage # "provider" => fault.usage = 0
           /\ IF fault.origin = "source_turn" THEN fault.stage = "evaluation"
              ELSE fault.turn = IF fault.stage = "provider" THEN turns + 1 ELSE turns

(* replay/actions.py: one resolution per completed turn, before any of its *)
(* candidates is processed; only the fault turn may lack it.               *)
ActionsReplay(ledger) ==
    /\ \A i \in At(ledger, "author_actions_resolved") :
          ledger[i].turn \in 1..TurnCount(ledger)
    /\ \A turn \in 1..TurnCount(ledger) :
          LET found == AtTurn(ledger, "author_actions_resolved", turn)
          IN /\ Cardinality(found) <= 1
             /\ found = {} => turn = FaultTurn(ledger)
             /\ \A i \in found :
                   /\ \E j \in AtTurn(ledger, "provider_turn_completed", turn) : j < i
                   /\ \A j \in DOMAIN ledger :
                         ledger[j].kind \in {"candidate_set_filtered", "candidate_rejected",
                                             "launchable_candidate_sealed",
                                             "candidate_selected"}
                         /\ ledger[j].turn = turn => i < j

-------------------------------------------------------------------------------
(* replay/compilations.py *)

CompilationCount(ledger) == Cardinality(At(ledger, "compilation_started"))

(* A permit belongs to a candidate of a turn that is resolved and not yet  *)
(* filtered.                                                               *)
PermitPlaced(ledger, i) ==
    /\ \E j \in AtTurn(ledger, "author_actions_resolved", ledger[i].turn) : j < i
    /\ ledger[i].candidate \in Submitted(ledger, ledger[i].turn)
    /\ \A j \in AtTurn(ledger, "candidate_set_filtered", ledger[i].turn) : i < j
    /\ \A j \in At(ledger, "search_completed") : i < j

CompilationsReplay(ledger) ==
    /\ CompilationCount(ledger) <= MaximumCompilations
    /\ \A i \in At(ledger, "compilation_started") :
          /\ PermitPlaced(ledger, i)
          /\ ledger[i].number = Earlier(At(ledger, "compilation_started"), i) + 1
          /\ ledger[i + 1].kind = "compilation_completed"
    /\ \A i \in At(ledger, "compilation_completed") :
          /\ ledger[i - 1].kind = "compilation_started"
          /\ \A field \in {"turn", "candidate", "number"} :
                ledger[i][field] = ledger[i - 1][field]
    /\ \A i \in At(ledger, "compilation_refused") :
          /\ PermitPlaced(ledger, i)
          /\ Earlier(At(ledger, "compilation_started"), i) = MaximumCompilations
          /\ \A j \in AtTurn(ledger, "candidate_set_filtered", ledger[i].turn) :
                \A n \in DOMAIN ledger[j].order :
                    ledger[j].order[n].candidate = ledger[i].candidate
                        => ~ledger[j].order[n].launchable
    /\ \A i \in At(ledger, "search_completed") \cup At(ledger, "checkpoints_projected") :
          ledger[i].state.compilations = CompilationCount(ledger)

-------------------------------------------------------------------------------
(* replay/candidates.py and evaluation_lifecycle.py: Evaluations are       *)
(* sequential transactions, each where the protocol puts it; the one left  *)
(* unfinished is the one the Run's fault interrupted.                      *)

SealedAt(ledger, turn, candidate) ==
    {i \in AtTurn(ledger, "launchable_candidate_sealed", turn) :
        ledger[i].candidate = candidate}

CompletedBefore(ledger, i, key) == \E j \in Evaluated(ledger, key) : j < i

StartedBefore(ledger, i, turn, purpose) ==
    Cardinality({j \in AtTurn(ledger, "evaluation_attempt_started", turn) :
                    j < i /\ ledger[j].purpose = purpose})

(* The start of an Evaluation is where its purpose allows it. *)
StartPlaced(ledger, i) ==
    LET event == ledger[i]
        nominated == {j \in At(ledger, "candidate_nominated") : j < i}
        closed == \E j \in At(ledger, "search_completed") : j < i
        searched == <<event.turn, "search", event.candidate>>
        confirmed == <<event.turn, "confirmatory", event.candidate>>
        searchStart ==
            \E j \in AtTurn(ledger, "candidate_set_filtered", event.turn) :
                LET plan == SearchPlan(ledger[j].order)
                    prior == StartedBefore(ledger, i, event.turn, "search")
                IN j < i /\ prior < Len(plan) /\ plan[prior + 1] = event.candidate
        confirmatoryStart ==
            /\ \A j \in At(ledger, "evaluation_attempt_started") :
                  j < i => ledger[j].purpose # "confirmatory"
            /\ \E j \in AtTurn(ledger, "candidate_selected", event.turn) :
                  /\ j < i /\ ledger[j].candidate = event.candidate
                  /\ \E n \in DOMAIN ledger[j].qualified :
                        ledger[j].qualified[n] = event.candidate
            /\ CompletedBefore(ledger, i, searched)
        attributionStart ==
            \/ /\ Attribution = "each"
               /\ CompletedBefore(ledger, i, searched)
               /\ The(ledger, Evaluated(ledger, searched)).receipt.correct
            \/ /\ Attribution = "selected"
               /\ CompletedBefore(ledger, i, confirmed)
               /\ Qualifies(The(ledger, Evaluated(ledger, confirmed)).receipt)
    IN /\ \A j \in At(ledger, "evaluation_attempt_started") :
             EvaluationKey(ledger[j]) = EvaluationKey(event) => j = i
       /\ \E j \in SealedAt(ledger, event.turn, event.candidate) : j < i
       /\ IF event.origin = "source_turn"
          THEN /\ event.purpose # "search"
               /\ \E j \in nominated : /\ ledger[j].turn = event.turn
                                       /\ ledger[j].candidate = event.candidate
          ELSE ~closed /\ event.purpose # "confirmatory"
       /\ CASE event.purpose = "search" -> searchStart
            [] event.purpose = "confirmatory" -> confirmatoryStart
            [] event.purpose = "attribution" -> attributionStart

SameInvocation(ledger, i, j) ==
    /\ EvaluationKey(ledger[i]) = EvaluationKey(ledger[j])
    /\ ledger[i].origin = ledger[j].origin

(* What follows a start, or a completed attempt without a receipt. *)
Interrupted(ledger, i) ==
    /\ ledger[i + 1].kind = "run_fault"
    /\ ledger[i + 1].stage = "evaluation"
    /\ ledger[i + 1].origin = ledger[i].origin
    /\ ledger[i + 1].turn = ledger[i].turn

Follows(ledger, i, kind) ==
    ledger[i + 1].kind = kind /\ SameInvocation(ledger, i, i + 1)

(* Attempts that gave a receipt stand before it, the others before a fault.*)
Receipted(ledger, i) ==
    IF ledger[i].answered THEN Follows(ledger, i, "candidate_evaluated")
    ELSE Interrupted(ledger, i)

InvocationsReplay(ledger) ==
    /\ \A i \in At(ledger, "evaluation_attempt_started") :
          /\ StartPlaced(ledger, i)
          /\ \/ Follows(ledger, i, "evaluation_attempt_completed")
             \/ Interrupted(ledger, i)
    /\ \A i \in At(ledger, "evaluation_attempt_completed") :
          /\ ledger[i - 1].kind = "evaluation_attempt_started"
          /\ SameInvocation(ledger, i - 1, i)
          /\ Receipted(ledger, i)
    /\ \A i \in At(ledger, "candidate_evaluated") :
          /\ ledger[i - 1].kind = "evaluation_attempt_completed"
          /\ SameInvocation(ledger, i - 1, i)
    /\ \A purpose \in Purposes :
          Cardinality({i \in At(ledger, "evaluation_attempt_started") :
                          ledger[i].purpose = purpose}) <= EvaluationLimit[purpose]
    /\ \A i \in At(ledger, "search_completed") : \A j \in (i + 1)..Len(ledger) :
          ledger[j].kind \notin SearchKinds
    /\ \A i \in At(ledger, "candidate_nominated") :
          \E j \in At(ledger, "search_completed") : j < i
    /\ \A i \in Faults(ledger) : i = Len(ledger) - 2

-------------------------------------------------------------------------------
(* replay/selection.py *)

FilterReplays(ledger, turn) ==
    \A i \in AtTurn(ledger, "candidate_set_filtered", turn) :
        LET order == ledger[i].order
        IN /\ Len(order) = Len(Resolved(ledger, turn))
           /\ {order[n].candidate : n \in DOMAIN order} = Submitted(ledger, turn)

RejectionsReplay(ledger) ==
    LET rejected(i) == {n \in DOMAIN ledger[i].order : ~ledger[i].order[n].launchable}
        expected ==
            UNION {{<<ledger[i].turn, ledger[i].order[n].candidate>> : n \in rejected(i)} :
                      i \in At(ledger, "candidate_set_filtered")}
        observed == At(ledger, "candidate_rejected")
    IN /\ {<<ledger[i].turn, ledger[i].candidate>> : i \in observed} = expected
       /\ Cardinality(observed) = Cardinality(expected)

LaunchableRow(ledger, turn, candidate) ==
    \E n \in DOMAIN Rows(ledger, turn) : /\ Rows(ledger, turn)[n].candidate = candidate
                                         /\ Rows(ledger, turn)[n].launchable

(* The attribution receipts the protocol requires of a completed turn. *)
RequiredAttributions(ledger, turn) ==
    LET searches == TurnSearches(ledger, turn)
        selected == Selection(ledger, turn).candidate
        confirmed == Evaluated(ledger, <<turn, "confirmatory", selected>>)
    IN CASE Attribution = "each" ->
              {searches[n].candidate :
                  n \in {m \in DOMAIN searches : searches[m].receipt.correct}}
         [] Attribution = "selected" ->
              IF \E i \in confirmed : Qualifies(ledger[i].receipt) THEN {selected} ELSE {}
         [] Attribution = "none" -> {}

AttributionsReplay(ledger, turn) ==
    {ledger[i].candidate : i \in {j \in AtTurn(ledger, "candidate_evaluated", turn) :
                                     ledger[j].purpose = "attribution"}}
        = RequiredAttributions(ledger, turn)

(* One turn's selection, by the disposition of its candidate set. *)
SelectionReplays(ledger, turn) ==
    LET selection == Selection(ledger, turn)
        order == Rows(ledger, turn)
        searches == TurnSearches(ledger, turn)
        plan == SearchPlan(order)
        qualified == QualifiedSearches(searches)
    IN CASE order = << >> ->
              /\ selection.candidate = NoCandidate /\ selection.qualified = << >>
              /\ selection.reason = "no_candidate_produced"
         [] order # << >> /\ selection.reason = "all_candidates_rejected" ->
              /\ selection.candidate = order[1].candidate
              /\ LaunchableRows(order) = {} /\ searches = << >>
              /\ selection.qualified = << >>
         [] OTHER ->
              /\ searches # << >>
              /\ CandidatesOf(searches) =
                    IF turn = FaultTurn(ledger) THEN SubSeq(plan, 1, Len(searches)) ELSE plan
              /\ selection.qualified = CandidatesOf(AtPositions(searches, qualified))
              /\ selection.candidate = searches[BestSearch(searches)].candidate
              /\ selection.reason = IF qualified # {} THEN "lowest_qualified_search_latency"
                                    ELSE "no_qualified_search_candidate"
              /\ turn # FaultTurn(ledger) => AttributionsReplay(ledger, turn)

(* Mutant: a collapse may go unreported. *)
DiagnosesReplayOptional(ledger, turn) ==
    LET observed == AtTurn(ledger, "diagnosis_routed", turn)
    IN \A i \in observed : ledger[i].collapsed = Collapsed(Rows(ledger, turn))

DiagnosesReplay(ledger, turn) ==
    LET observed == AtTurn(ledger, "diagnosis_routed", turn)
        collapsed == Collapsed(Rows(ledger, turn))
    IN \/ Cardinality(observed) = 1 /\ collapsed # {}
          /\ The(ledger, observed).collapsed = collapsed
       \/ observed = {} /\ (collapsed = {} \/ turn = FaultTurn(ledger))

SelectionsReplay(ledger) ==
    LET turns == 1..TurnCount(ledger)
        filtered == {ledger[i].turn : i \in At(ledger, "candidate_set_filtered")}
        selected == {ledger[i].turn : i \in At(ledger, "candidate_selected")}
        cut == {FaultTurn(ledger)}
    IN /\ filtered \subseteq turns /\ turns \ filtered \subseteq cut
       /\ selected \subseteq filtered /\ filtered \ selected \subseteq cut
       /\ {ledger[i].turn : i \in At(ledger, "diagnosis_routed")} \subseteq filtered
       /\ RejectionsReplay(ledger)
       /\ \A turn \in filtered :
             /\ Cardinality(AtTurn(ledger, "candidate_set_filtered", turn)) = 1
             /\ FilterReplays(ledger, turn)
             /\ DiagnosesReplay(ledger, turn)
       /\ \A turn \in selected :
             /\ Cardinality(AtTurn(ledger, "candidate_selected", turn)) = 1
             /\ SelectionReplays(ledger, turn)
       /\ \A i \in At(ledger, "launchable_candidate_sealed") :
             /\ SealedAt(ledger, ledger[i].turn, ledger[i].candidate) = {i}
             /\ ledger[i].turn \in filtered
             /\ LaunchableRow(ledger, ledger[i].turn, ledger[i].candidate)

(* The turns whose observation is rederived: selected and not cut short by *)
(* the fault, or without any candidate.                                    *)
ObservedTurns(ledger) ==
    {turn \in {ledger[i].turn : i \in At(ledger, "candidate_selected")} :
        turn # FaultTurn(ledger) \/ Rows(ledger, turn) = << >>}

Observations(ledger) ==
    [turn \in 1..Cardinality(ObservedTurns(ledger)) |->
        LET selection == Selection(ledger, turn)
            searched == Evaluated(ledger, <<turn, "search", selection.candidate>>)
        IN Observation(turn, TokensAt(ledger, turn), selection.candidate,
                       IF searched = {} THEN 0
                       ELSE The(ledger, searched).receipt.latency)]

-------------------------------------------------------------------------------
(* replay/nomination.py *)

(* Mutant: the iteration stays within the turns. *)
NextIterationCapped(observations) == Min({MaximumTurns, Len(observations) + 1})

NextIteration(observations) == Min({MaximumTurns + 1, Len(observations) + 1})

CountsBefore(ledger, i) ==
    [purpose \in Purposes |->
        Cardinality({j \in At(ledger, "evaluation_attempt_started") :
                        j < i /\ ledger[j].purpose = purpose})]

SearchCloseReplays(ledger, i) ==
    LET state == ledger[i].state
        counts == CountsBefore(ledger, i)
    IN /\ state.authoring <= state.elapsed
       /\ state.counts = counts /\ counts["confirmatory"] = 0
       /\ state.tokens = TerminalTokens(ledger)
       /\ state.iteration = NextIteration(Observations(ledger))
       /\ state.reason # "none"
       /\ state.reason = StopReason(state.iteration, state.tokens, state.elapsed,
                                    state.authoring, counts, state.compilations)
       /\ state.exceeded = ExceededBudgets(state.tokens, state.authoring,
                                           state.elapsed, state.elapsed)
       /\ state.searchElapsed = state.elapsed

ConfirmationsAt(ledger) ==
    {i \in At(ledger, "candidate_evaluated") : ledger[i].purpose = "confirmatory"}

NominationReplays(ledger) ==
    LET closes == At(ledger, "search_completed")
        nominations == At(ledger, "candidate_nominated")
        confirmations == ConfirmationsAt(ledger)
        nominees == Nominee(Observations(ledger))
        terminalFault == Faults(ledger) # {} /\ TheFault(ledger).origin = "source_turn"
    IN IF closes = {}
       THEN nominations = {} /\ confirmations = {} /\ Faults(ledger) # {}
       ELSE /\ Cardinality(closes) = 1 /\ Cardinality(nominations) = 1
            /\ \A i \in closes : SearchCloseReplays(ledger, i)
            /\ IF nominees = {}
               THEN /\ The(ledger, nominations).turn = 0
                    /\ The(ledger, nominations).candidate = NoCandidate
                    /\ confirmations = {}
               ELSE \A nominee \in nominees :
                    /\ The(ledger, nominations).turn = nominee.turn
                    /\ The(ledger, nominations).candidate = nominee.candidate
                    /\ SealedAt(ledger, nominee.turn, nominee.candidate) # {}
                    /\ Faults(ledger) # {} =>
                          terminalFault /\ TheFault(ledger).turn = nominee.turn
                    /\ confirmations = {} => terminalFault
                    /\ Cardinality(confirmations) <= 1
                    /\ \A i \in confirmations : EvaluationKey(ledger[i]) =
                          <<nominee.turn, "confirmatory", nominee.candidate>>

FinalConfirmation(ledger) ==
    {Confirmation(ledger[i].turn, ledger[i].candidate, TerminalTokens(ledger),
                  ledger[i].receipt.latency) : i \in ConfirmationsAt(ledger)}

-------------------------------------------------------------------------------
(* replay/outcomes.py *)

TerminalReplays(ledger) ==
    LET state == Projected(ledger).state
        terminal == Terminal(ledger)
        observations == Observations(ledger)
        tokens == TerminalTokens(ledger)
        closes == At(ledger, "search_completed")
        searchElapsed == IF closes = {} THEN state.elapsed
                         ELSE The(ledger, closes).state.elapsed
        reason == IF Faults(ledger) # {} THEN terminal.adherence
                  ELSE The(ledger, closes).state.reason
        exceeded == ExceededBudgets(tokens, state.authoring, searchElapsed, state.elapsed)
    IN /\ ObservedTurns(ledger) = 1..Cardinality(ObservedTurns(ledger))
       /\ ProjectionDefined(observations, tokens)
       /\ Projected(ledger).checkpoints = Projection(observations, tokens)
       /\ NormalTerminal => state.iteration = NextIteration(observations)
       /\ closes # {} => /\ state.elapsed >= searchElapsed
                         /\ state.authoring = The(ledger, closes).state.authoring
       /\ state.searchElapsed = searchElapsed
       /\ state.exceeded = exceeded
       /\ state.tokens = tokens
       /\ state.counts = CountsBefore(ledger, Len(ledger))
       /\ state.compilations = CompilationCount(ledger)
       /\ state.reason = reason
       /\ EndpointDefined(observations, tokens, terminal.adherence, reason,
                          FinalConfirmation(ledger))
       /\ terminal.endpoint = Endpoint(tokens, terminal.adherence, reason,
                                       FinalConfirmation(ledger), exceeded)

(* _replay_provider_fault and the Run that closes without any turn. *)
ZeroTurnReplays(ledger) ==
    LET kinds == [i \in DOMAIN ledger |-> ledger[i].kind]
    IN \/ kinds = <<"run_started", "search_completed", "candidate_nominated",
                    "checkpoints_projected", "run_terminal">>
       \/ /\ kinds = <<"run_started", "run_fault", "checkpoints_projected", "run_terminal">>
          /\ ledger[2].origin = "turn" /\ ledger[2].turn = 1
          /\ ledger[2].stage = "provider"

(* replay_matched_run *)
Replays(ledger) ==
    /\ Shaped(ledger)
    /\ InTurnOrder(ledger)
    /\ ClockMonotone(ledger)
    /\ TurnCount(ledger) = 0 => ZeroTurnReplays(ledger)
    /\ TurnsReplay(ledger)
    /\ FaultPlaced(ledger)
    /\ ActionsReplay(ledger)
    /\ CompilationsReplay(ledger)
    /\ InvocationsReplay(ledger)
    /\ SelectionsReplay(ledger)
    /\ NominationReplays(ledger)
    /\ TerminalReplays(ledger)
===============================================================================
