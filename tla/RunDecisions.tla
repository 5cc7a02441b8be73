----------------------------- MODULE RunDecisions -----------------------------
(***************************************************************************)
(* The frozen budget and protocol of one Run, and the pure decisions that  *)
(* the live controller and the semantic replay share: when search stops,   *)
(* which programs of a turn are measured, which one it selects, which      *)
(* turn's winner is nominated, what each token checkpoint shows and what   *)
(* the Run's endpoint is (lab/ralph.py, selection.py, nomination.py,       *)
(* checkpoints.py, endpoints.py).                                          *)
(*                                                                         *)
(* A candidate is its digest and Program its semantic digest.  An          *)
(* Evaluation receipt is whether the launch was correct and the latency it *)
(* qualifies with, 0 when it does not qualify.  Time is a natural number   *)
(* of clock ticks, Grid of which make the unit records are rounded to.     *)
(***************************************************************************)
EXTENDS Naturals, Sequences, FiniteSets, FiniteSetsExt

CONSTANTS
    Candidates,          \* author candidates, by digest
    NoCandidate,         \* None
    Program,             \* a candidate's semantic digest, or NoCandidate
    Latencies,           \* latencies a qualified measurement may show
    MaximumTurns, MaximumCompilations,
    Limit,               \* provider-token limit, or Unlimited
    Unlimited,           \* None
    Checkpoints,         \* the token checkpoints, a strictly increasing sequence
    SearchWall, ConfirmationWall, AuthoringLimit,  \* in ticks
    SearchLimit, ConfirmatoryLimit, AttributionLimit,
    SearchesPerTurn,
    Attribution,         \* "none", "selected" (the legacy protocol) or "each"
    NormalTerminal,      \* the endpoint policy is normal_budget_terminal_v1
    Grid

(* run_controls.py and RalphBudget.from_mapping admit no other Run.        *)
ASSUME CandidateAssumption ==
    /\ NoCandidate \notin Candidates
    /\ Program \in [Candidates -> Candidates \cup {NoCandidate}]
    /\ Latencies \subseteq Nat \ {0}
ASSUME BudgetAssumption ==
    /\ {MaximumTurns, MaximumCompilations, SearchLimit, ConfirmatoryLimit,
        AttributionLimit, SearchesPerTurn, Grid} \subseteq Nat \ {0}
    /\ Attribution \in {"none", "selected", "each"}
    /\ SearchesPerTurn <= SearchLimit
    /\ Attribution = "each" => SearchesPerTurn <= AttributionLimit
ASSUME TokenAssumption ==
    /\ Unlimited \notin Nat /\ NormalTerminal \in BOOLEAN
    /\ Checkpoints \in Seq(Nat)
    /\ IF Limit = Unlimited THEN Checkpoints = << >> /\ NormalTerminal
       ELSE /\ Limit \in Nat \ {0}
            /\ Checkpoints # << >> /\ Checkpoints[Len(Checkpoints)] = Limit
            /\ \A i, j \in 1..Len(Checkpoints) :
                  i < j => Checkpoints[i] < Checkpoints[j]
(* A limit is any positive time, a multiple of the unit records are        *)
(* rounded to or not; no time lies halfway between two of these.           *)
ASSUME GridAssumption ==
    /\ Grid % 2 = 1
    /\ {SearchWall, ConfirmationWall, AuthoringLimit} \subseteq Nat \ {0}

Purposes == {"search", "confirmatory", "attribution"}
EvaluationLimit == [search |-> SearchLimit, confirmatory |-> ConfirmatoryLimit,
                    attribution |-> AttributionLimit]
ProfileEach == Attribution = "each"

Rounded(time) == Grid * ((2 * time + Grid) \div (2 * Grid))

-------------------------------------------------------------------------------
(* When search stops *)

StopReasons == <<"provider_token_limit", "maximum_turns", "wall_time_limit",
                 "active_authoring_time_limit", "compilation_budget",
                 "evaluation_budget">>

(* Mutant: a turn is begun if one more Evaluation of each kind fits. *)
RequiredOne == [search |-> 1, confirmatory |-> 0,
                attribution |-> IF ProfileEach THEN 1 ELSE 0]

(* What one more turn may evaluate. *)
Required == [search |-> SearchesPerTurn, confirmatory |-> 0,
             attribution |-> IF ProfileEach THEN SearchesPerTurn ELSE 0]

StopHolds(turn, tokens, elapsed, authoring, counts, compilations) ==
    [provider_token_limit |-> Limit # Unlimited /\ tokens >= Limit,
     maximum_turns |-> turn > MaximumTurns,
     wall_time_limit |-> elapsed >= SearchWall,
     active_authoring_time_limit |-> authoring >= AuthoringLimit,
     compilation_budget |-> compilations = MaximumCompilations,
     evaluation_budget |->
        \E purpose \in Purposes :
            counts[purpose] + Required[purpose] > EvaluationLimit[purpose]]

(* derive_ralph_stop_reason: the first reason that holds, or "none". *)
StopReason(turn, tokens, elapsed, authoring, counts, compilations) ==
    LET holds == StopHolds(turn, tokens, elapsed, authoring, counts, compilations)
        hit == {i \in 1..Len(StopReasons) : holds[StopReasons[i]]}
    IN IF hit = {} THEN "none" ELSE StopReasons[Min(hit)]

(* Mutant: confirmation may use what search left of the whole wall. *)
ExceededBudgetsTotal(tokens, authoring, searchElapsed, elapsed) ==
    LET exceeded == [provider_tokens |-> Limit # Unlimited /\ tokens > Limit,
                     active_authoring_time |-> authoring > AuthoringLimit,
                     search_wall_time |-> searchElapsed > SearchWall,
                     confirmation_wall_time |-> elapsed > SearchWall + ConfirmationWall]
    IN {name \in DOMAIN exceeded : exceeded[name]}

(* exceeded_run_budgets: searchElapsed is the whole time until search has  *)
(* closed.  Overshoot is strict, a stop is not.                            *)
ExceededBudgets(tokens, authoring, searchElapsed, elapsed) ==
    LET exceeded == [provider_tokens |-> Limit # Unlimited /\ tokens > Limit,
                     active_authoring_time |-> authoring > AuthoringLimit,
                     search_wall_time |-> searchElapsed > SearchWall,
                     confirmation_wall_time |->
                        elapsed > searchElapsed + ConfirmationWall]
    IN {name \in DOMAIN exceeded : exceeded[name]}

-------------------------------------------------------------------------------
(* What a turn measures and selects *)

(* A candidate of the pre-device filter. *)
Row == [candidate : Candidates, launchable : BOOLEAN]

(* _matched_search_plan on the retained filter order: the launchable rows  *)
(* at its front, of each program the first spelling, SearchesPerTurn of    *)
(* them.                                                                   *)
LaunchableRows(order) ==
    {i \in 1..Len(order) : \A j \in 1..i : order[j].launchable}

Repeats(order, i) ==
    \E j \in 1..(i - 1) : /\ Program[order[i].candidate] # NoCandidate
                          /\ Program[order[j].candidate] = Program[order[i].candidate]

Distinct(order) == {i \in LaunchableRows(order) : ~Repeats(order, i)}
Earlier(positions, i) == Cardinality({j \in positions : j < i})

SearchedRows(order) ==
    {i \in Distinct(order) : Earlier(Distinct(order), i) < SearchesPerTurn}

(* The rows at a set of positions, in order; and their candidates. *)
AtPositions(rows, positions) ==
    [n \in 1..Cardinality(positions) |->
        rows[CHOOSE i \in positions : Earlier(positions, i) = n - 1]]
CandidatesOf(rows) == [n \in 1..Len(rows) |-> rows[n].candidate]

SearchPlan(order) == CandidatesOf(AtPositions(order, SearchedRows(order)))

(* The rows passed over because an earlier row is the same program. *)
Collapsed(order) ==
    {order[i].candidate :
        i \in {j \in LaunchableRows(order) \ Distinct(order) :
                  Earlier(Distinct(order), j) < SearchesPerTurn}}

Receipts == [correct : {TRUE}, latency : {0} \cup Latencies]
            \cup [correct : {FALSE}, latency : {0}]

Qualifies(receipt) == receipt.latency > 0

(* _matched_search_decision on a turn's [candidate, receipt] pairs: the    *)
(* fastest qualified one, the earliest of equals, else the first.          *)
QualifiedSearches(searched) ==
    {i \in 1..Len(searched) : Qualifies(searched[i].receipt)}

BestSearch(searched) ==
    LET qualified == QualifiedSearches(searched)
        fastest == {i \in qualified : \A j \in qualified :
                       searched[i].receipt.latency <= searched[j].receipt.latency}
    IN IF qualified = {} THEN 1 ELSE Min(fastest)

-------------------------------------------------------------------------------
(* What a Run concludes.  An observation is one completed turn:            *)
(* [turn, tokens, candidate, qualified, latency].                          *)

Observation(turn, tokens, candidate, latency) ==
    [turn |-> turn, tokens |-> tokens, candidate |-> candidate,
     qualified |-> latency > 0, latency |-> latency]

(* The first of the fastest qualified observations within a token budget,  *)
(* as a set of at most one.                                                *)
Fastest(observations, budget) ==
    LET eligible == {i \in 1..Len(observations) :
                        /\ observations[i].qualified
                        /\ budget # Unlimited => observations[i].tokens <= budget}
        better(i, j) == \/ observations[i].latency < observations[j].latency
                        \/ /\ observations[i].latency = observations[j].latency
                           /\ i <= j
    IN {observations[i] : i \in {k \in eligible : \A j \in eligible : better(k, j)}}

(* nominate *)
Nominee(observations) == Fastest(observations, Limit)

(* Mutant: a turn that crossed the boundary counts for it. *)
ProjectCrossing(observations, tokens, boundary) ==
    IF tokens < boundary THEN [state |-> "unreached", best |-> {}]
    ELSE [state |-> "reached",
          best |-> {[candidate |-> o.candidate, latency |-> o.latency] :
                      o \in Fastest(observations, Unlimited)}]

(* project_checkpoints at one boundary: best is empty when the boundary    *)
(* was reached with no search candidate.                                   *)
Project(observations, tokens, boundary) ==
    IF tokens < boundary THEN [state |-> "unreached", best |-> {}]
    ELSE [state |-> "reached",
          best |-> {[candidate |-> o.candidate, latency |-> o.latency] :
                      o \in Fastest(observations, boundary)}]

Projection(observations, tokens) ==
    [i \in 1..Len(Checkpoints) |-> Project(observations, tokens, Checkpoints[i])]

(* project_checkpoints refuses turns that are not 1..n with growing tokens.*)
ProjectionDefined(observations, tokens) ==
    \A i \in 1..Len(observations) :
        /\ observations[i].turn = i
        /\ observations[i].tokens <= tokens
        /\ i > 1 => observations[i - 1].tokens < observations[i].tokens

Confirmation(source, candidate, tokens, latency) ==
    [source |-> source, candidate |-> candidate, tokens |-> tokens, latency |-> latency]

(* matched_endpoint: what it refuses, and what it returns.  confirmation   *)
(* is a set of at most one.                                                *)
EndpointDefined(observations, tokens, adherence, reason, confirmation) ==
    adherence = "adhered" =>
        /\ \E i \in 1..Len(StopReasons) : reason = StopReasons[i]
        /\ \A o \in confirmation :
              /\ o.tokens = tokens
              /\ \E i \in 1..Len(observations) :
                    /\ observations[i].turn = o.source
                    /\ observations[i].qualified
                    /\ observations[i].candidate = o.candidate

FinalBoundary == IF Checkpoints = << >> THEN Unlimited
                 ELSE Checkpoints[Len(Checkpoints)]

Endpoint(tokens, adherence, reason, confirmation, exceeded) ==
    LET qualified == {o \in confirmation :
                        /\ o.latency > 0
                        /\ FinalBoundary # Unlimited => tokens <= FinalBoundary
                        /\ exceeded = {}}
    IN IF \/ adherence # "adhered"
          \/ ~NormalTerminal /\ tokens < FinalBoundary
       THEN [observation |-> "missing", best |-> {}, exceeded |-> {}]
       ELSE [observation |-> IF qualified # {} THEN "qualified"
                             ELSE "no_qualified_candidate",
             best |-> {[candidate |-> o.candidate, latency |-> o.latency] : o \in qualified},
             exceeded |-> exceeded]
===============================================================================
