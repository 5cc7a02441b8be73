--------------------------- MODULE RunReplayProofs ---------------------------
(***************************************************************************)
(* That the independent replay accepts what the live controller seals, and *)
(* nothing shorter, for every budget, protocol, candidate set and clock.   *)
(* KInv is kept by every step of a Run; its seal turns it into the passes  *)
(* of the replay, one lemma for each (RunReplays).  From a sealed, adhered *)
(* ledger no event can then be left out, a refused permit apart: for each  *)
(* kind of event some pass finds its place empty (RunOmitsNothing).        *)
(***************************************************************************)
EXTENDS RunEngineProofs

-------------------------------------------------------------------------------
(* Authoring and building *)

LEMMA StopSearchStands == IInv /\ JInv /\ KInv /\ StopSearch => KInv'
<1> SUFFICES ASSUME IInv, JInv, KInv, StopSearch PROVE KInv'
  OBVIOUS
<1>1. /\ pc = "loop" /\ pc' = "close"
      /\ UNCHANGED <<turn, stage, clockVars, budgetVars, tokens, turnVars, active,
                     resultVars, outcomeVars, ledger>>
  BY DEF StopSearch
<1>2. /\ InOrder /\ Standing /\ Faulted /\ Unturned /\ Closed /\ Confirmed
      /\ adherence = "adhered"
  BY <1>1, KFacts
<1>3. source = 0
  BY <1>1 DEF IInv, InPhase
<1>4. InOrder' /\ Unturned' /\ Closed'
  BY <1>1, <1>2 DEF InOrder, Unturned, Closed, Has, Upcoming, clockVars, budgetVars, turnVars,
        resultVars, outcomeVars
<1>5. Standing' /\ Faulted'
  <2>1. ~Measuring /\ ~Measuring'
    BY <1>1 DEF Measuring
  <2>2. \A mark \in Marks : Has(mark)' <=> Has(mark)
    BY <1>1 DEF Has, Upcoming, resultVars
  <2>3. ~InSearch /\ ~InSearch'
    BY <1>1 DEF InSearch
  <2>4. BeforeTokens' = BeforeTokens
    BY <1>1 DEF BeforeTokens, resultVars
  <2>5. /\ Has("provider_turn_completed")' <=> Has("provider_turn_completed")
        /\ Has("author_actions_resolved")' <=> Has("author_actions_resolved")
        /\ Has("candidate_set_filtered")' <=> Has("candidate_set_filtered")
        /\ Has("candidate_selected")' <=> Has("candidate_selected")
    BY <2>2 DEF Marks
  <2>6. Standing'
    BY <1>1, <1>2, <2>1, <2>3, <2>5 DEF Standing, outcomeVars
  <2>7. Faulted'
    BY <1>1, <1>2, <2>1, <2>4 DEF Faulted, outcomeVars
  <2> QED
    BY <2>6, <2>7
<1>6. Submitting' /\ Measured' /\ Launched'
  BY <1>1 DEF Submitting, Measured, Launched, InSearch
<1>7. Confirmed'
  <2>1. InFlight("attribution")' = InFlight("attribution")
    BY <1>1 DEF InFlight
  <2>2. confirmation' = {}
    BY <1>1, <1>3, KFacts DEF resultVars
  <2> QED
    BY <1>1, <1>2, <1>3, <2>1, <2>2 DEF Confirmed, resultVars, outcomeVars
<1> QED
  BY <1>2, <1>4, <1>5, <1>6, <1>7 DEF KInv

LEMMA AuthorTurnStands == IInv /\ JInv /\ KInv /\ AuthorTurn => KInv'
<1> SUFFICES ASSUME IInv, JInv, KInv, AuthorTurn PROVE KInv'
  OBVIOUS
<1> DEFINE event == [kind |-> "provider_turn_completed", origin |-> "turn", turn |-> turn,
                     tokens |-> tokens']
<1>1. PICK duration \in Durations, spent \in TokenSpends :
        /\ Author(duration) /\ stage' = "provider" /\ tokens' = tokens + spent
        /\ ledger' = Append(ledger, event) /\ pc' = "resolve"
        /\ UNCHANGED <<turn, active, resultVars, outcomeVars>>
  BY DEF AuthorTurn
<1>2. duration \in Nat
  BY InputAssumption
<1>3. /\ pc = "loop" /\ elapsed' = elapsed + duration /\ authoring' = authoring + duration
      /\ counts' = counts /\ compilations' = compilations /\ closedAt' = closedAt
      /\ turn' = turn /\ active' = active /\ observations' = observations
      /\ source' = source /\ confirmation' = confirmation /\ adherence' = adherence
  BY <1>1 DEF Author, budgetVars, resultVars, outcomeVars
<1>4. /\ InOrder /\ Standing /\ Closed /\ IsSequence(ledger) /\ elapsed \in Nat
      /\ authoring \in Nat /\ turn \in Nat /\ Rounded(elapsed) \in Nat
      /\ adherence = "adhered" /\ turn = Upcoming /\ Len(observations) \in Nat
      /\ Len(ledger) \in Nat
  BY <1>3, KFacts
<1>5. source = 0 /\ closedAt = {} /\ confirmation = {} /\ active = {}
  BY <1>3, Searching DEF JInv
<1>6. ~Measuring /\ ~InSearch
  BY <1>3 DEF Measuring, InSearch
<1>7. /\ elapsed' \in Nat /\ elapsed <= elapsed' /\ authoring' <= elapsed'
  BY <1>2, <1>3, <1>4 DEF Closed
<1>8. /\ Rounded(elapsed') \in Nat /\ Rounded(elapsed) <= Rounded(elapsed')
  BY <1>4, <1>7, RoundedGrows
<1>9. /\ event.kind = "provider_turn_completed" /\ event.turn = turn /\ event.tokens = tokens'
  OBVIOUS
<1> HIDE DEF event
<1>10. /\ ledger' = ledger \o <<event>> /\ Grown(ledger, ledger')
       /\ Len(ledger') = Len(ledger) + 1 /\ ledger'[Len(ledger')] = event
       /\ Adds(ledger, ledger', {"provider_turn_completed"})
  <2>1. /\ Grown(ledger, ledger \o <<event>>) /\ Append(ledger, event) = ledger \o <<event>>
        /\ Len(ledger \o <<event>>) = Len(ledger) + 1
        /\ (ledger \o <<event>>)[Len(ledger) + 1] = event
        /\ Adds(ledger, ledger \o <<event>>, {event.kind})
    BY <1>4, GrowsOne
  <2> QED
    BY <1>1, <1>9, <2>1
<1>11. AtTurn(ledger, "provider_turn_completed", turn) = {}
  BY <1>4, <1>6 DEF Standing, Has
<1>12. InOrder'
  <2>1. Logged(ledger, turn, Rounded(elapsed), observations, tokens, compilations, counts,
               "nothing")
    BY <1>3, <1>4, LoggedNow
  <2>2. turn = Len(observations) + 1
    BY <1>4 DEF Upcoming
  <2>3. Logged(ledger \o <<event>>, turn, Rounded(elapsed'), observations, event.tokens,
               compilations, counts, "nothing")
    BY <1>4, <1>8, <1>9, <1>11, <2>1, <2>2, AuthorLogged
  <2> QED
    BY <1>1, <1>3, <1>9, <1>10, <2>3 DEF InOrder
<1>13. Measuring' /\ ~InSearch' /\ pc' = "resolve"
  BY <1>1 DEF Measuring, InSearch
<1>14. Faulted' /\ Closed' /\ Confirmed'
  <2>1. \A i \in 1..Len(ledger') : i > Len(ledger) => ledger'[i].kind # "candidate_evaluated"
    BY <1>10 DEF Adds
  <2>2. pc \notin {"sealed", "seal"} /\ adherence' = "adhered" /\ source' = 0
        /\ closedAt' = {} /\ confirmation' = {}
    BY <1>3, <1>4, <1>5
  <2>3. {"provider_turn_completed"} \cap {"run_fault", "search_completed", "candidate_nominated"} = {}
    OBVIOUS
  <2> QED
    BY <1>5, <1>7, <1>10, <1>13, <2>1, <2>2, <2>3, OpenStep
<1>15. /\ Has("provider_turn_completed")'
       /\ Has("author_actions_resolved")' <=> Has("author_actions_resolved")
       /\ Has("candidate_set_filtered")' <=> Has("candidate_set_filtered")
       /\ Has("candidate_selected")' <=> Has("candidate_selected")
  <2>1. AtTurn(ledger', "provider_turn_completed", turn)
           = AtTurn(ledger, "provider_turn_completed", turn) \cup {Len(ledger')}
    <3>1. AtTurn(ledger', event.kind, event.turn)
             = AtTurn(ledger, event.kind, event.turn) \cup {Len(ledger')}
      BY <1>10, LastAtTurn
    <3> QED
      BY <1>9, <3>1
  <2>2. Upcoming' = turn
    BY <1>3, <1>4 DEF Upcoming
  <2>3. Has("provider_turn_completed")'
    BY <2>1, <2>2 DEF Has
  <2>4. \A mark \in {"author_actions_resolved", "candidate_set_filtered", "candidate_selected"} :
            Has(mark)' <=> Has(mark)
    BY <1>3, <1>10, MarksKept
  <2> QED
    BY <2>3, <2>4
<1>16. Standing' /\ Unturned'
  BY <1>3, <1>4, <1>6, <1>13, <1>15 DEF Standing, Unturned
<1>17. Submitting' /\ Measured' /\ Launched'
  BY <1>13 DEF Submitting, Measured, Launched
<1> QED
  BY <1>12, <1>14, <1>16, <1>17 DEF KInv

LEMMA ResolveStands == IInv /\ JInv /\ KInv /\ ResolveActions => KInv'
<1> SUFFICES ASSUME IInv, JInv, KInv, ResolveActions PROVE KInv'
  OBVIOUS
<1> DEFINE event == [kind |-> "author_actions_resolved", origin |-> "turn", turn |-> turn,
                     candidates |-> resolved']
<1>1. /\ pc = "resolve" /\ stage' = "environment" /\ resolved' \in Submissions
      /\ built' = << >> /\ plan' = << >> /\ searched' = << >>
      /\ ledger' = Append(ledger, event) /\ pc' = "build"
      /\ UNCHANGED <<turn, clockVars, budgetVars, tokens, active, resultVars, outcomeVars>>
  BY DEF ResolveActions
<1>3. /\ elapsed' = elapsed /\ authoring' = authoring
      /\ counts' = counts /\ compilations' = compilations /\ closedAt' = closedAt
      /\ turn' = turn /\ active' = active /\ observations' = observations /\ tokens' = tokens
      /\ source' = source /\ confirmation' = confirmation /\ adherence' = adherence
  BY <1>1 DEF clockVars, budgetVars, resultVars, outcomeVars
<1>4. /\ InOrder /\ Standing /\ Closed /\ IsSequence(ledger) /\ elapsed \in Nat
      /\ authoring \in Nat /\ turn \in Nat /\ Rounded(elapsed) \in Nat
      /\ adherence = "adhered" /\ Len(observations) \in Nat
      /\ Len(ledger) \in Nat /\ Measuring /\ turn = Upcoming
  <2>1. Measuring
    BY <1>1 DEF Measuring
  <2> QED
    BY <1>1, <2>1, KFacts
<1>5. source = 0 /\ closedAt = {} /\ confirmation = {} /\ active = {}
  BY <1>1, Searching DEF JInv
<1>6. ~InSearch
  BY <1>1 DEF InSearch
<1>9. /\ event.kind = "author_actions_resolved" /\ event.turn = turn
      /\ event.candidates = resolved'
  OBVIOUS
<1> HIDE DEF event
<1>10. /\ ledger' = ledger \o <<event>> /\ Grown(ledger, ledger')
       /\ Len(ledger') = Len(ledger) + 1 /\ ledger'[Len(ledger')] = event
       /\ Adds(ledger, ledger', {"author_actions_resolved"})
  <2>1. /\ Grown(ledger, ledger \o <<event>>) /\ Append(ledger, event) = ledger \o <<event>>
        /\ Len(ledger \o <<event>>) = Len(ledger) + 1
        /\ (ledger \o <<event>>)[Len(ledger) + 1] = event
        /\ Adds(ledger, ledger \o <<event>>, {event.kind})
    BY <1>4, GrowsOne
  <2> QED
    BY <1>1, <1>9, <2>1
<1>11. /\ AtTurn(ledger, "provider_turn_completed", turn) # {}
       /\ AtTurn(ledger, "author_actions_resolved", turn) = {}
  BY <1>1, <1>4, <1>6 DEF Standing, Has
<1>20. Logged(ledger, turn, Rounded(elapsed), observations, tokens, compilations, counts,
              "nothing")
  BY <1>1, <1>4, LoggedNow
<1>12. InOrder'
  <2>2. turn = Len(observations) + 1
    BY <1>4 DEF Upcoming
  <2>3. Logged(ledger \o <<event>>, turn, Rounded(elapsed), observations, tokens,
               compilations, counts, "nothing")
    BY <1>4, <1>9, <1>11, <1>20, <2>2, ResolveLogged
  <2> QED
    BY <1>1, <1>3, <1>10, <2>3 DEF InOrder
<1>13. Measuring' /\ ~InSearch' /\ pc' = "build"
  BY <1>1 DEF Measuring, InSearch
<1>14. Faulted' /\ Closed' /\ Confirmed'
  <2>1. \A i \in 1..Len(ledger') : i > Len(ledger) => ledger'[i].kind # "candidate_evaluated"
    BY <1>10 DEF Adds
  <2>2. pc \notin {"sealed", "seal"} /\ adherence' = "adhered" /\ source' = 0
        /\ closedAt' = {} /\ confirmation' = {} /\ authoring' <= elapsed'
    BY <1>1, <1>3, <1>4, <1>5 DEF Closed
  <2>3. {"author_actions_resolved"} \cap {"run_fault", "search_completed", "candidate_nominated"} = {}
    OBVIOUS
  <2> QED
    BY <1>5, <1>10, <1>13, <2>1, <2>2, <2>3, OpenStep
<1>19. AtTurn(ledger', "author_actions_resolved", turn) = {Len(ledger')}
  <2>1. AtTurn(ledger', "author_actions_resolved", turn)
           = AtTurn(ledger, "author_actions_resolved", turn) \cup {Len(ledger')}
    <3>1. AtTurn(ledger', event.kind, event.turn)
             = AtTurn(ledger, event.kind, event.turn) \cup {Len(ledger')}
      BY <1>10, LastAtTurn
    <3> QED
      BY <1>9, <3>1
  <2> QED
    BY <1>11, <2>1
<1>15. /\ Has("author_actions_resolved")'
       /\ Has("provider_turn_completed")' <=> Has("provider_turn_completed")
       /\ Has("candidate_set_filtered")' <=> Has("candidate_set_filtered")
       /\ Has("candidate_selected")' <=> Has("candidate_selected")
  <2>2. Upcoming' = turn
    BY <1>3, <1>4 DEF Upcoming
  <2>3. Has("author_actions_resolved")'
    BY <1>19, <2>2 DEF Has
  <2>4. \A mark \in {"provider_turn_completed", "candidate_set_filtered", "candidate_selected"} :
            Has(mark)' <=> Has(mark)
    BY <1>3, <1>10, MarksKept
  <2> QED
    BY <2>3, <2>4
<1>16. Standing' /\ Unturned'
  BY <1>1, <1>3, <1>4, <1>6, <1>13, <1>15 DEF Standing, Unturned
<1>17. Submitting'
  <2>1. Resolved(ledger', turn') = resolved'
    <3>1. The(ledger', {Len(ledger')}) = event
      BY <1>10 DEF The
    <3> QED
      BY <1>3, <1>9, <1>19, <3>1 DEF Resolved
  <2>2. AtTurn(ledger', "compilation_refused", turn') = {}
    <3>1. AtTurn(ledger', "compilation_refused", turn) = AtTurn(ledger, "compilation_refused", turn)
      <4> DEFINE kinds == {"author_actions_resolved"}
      <4>1. "compilation_refused" \notin kinds /\ Adds(ledger, ledger', kinds)
        BY <1>10
      <4> HIDE DEF kinds
      <4> QED
        BY <4>1, AtTurnSame
    <3>2. \A i \in AtTurn(ledger, "compilation_refused", turn) : PermitPlaced(ledger, i)
      BY <1>20 DEF Logged, Permits, AtTurn
    <3>3. \A i \in AtTurn(ledger, "compilation_refused", turn) : ledger[i].turn = turn
      BY DEF AtTurn
    <3>4. AtTurn(ledger, "compilation_refused", turn) = {}
      BY <1>11, <3>2, <3>3 DEF PermitPlaced
    <3> QED
      BY <1>3, <3>1, <3>4
  <2>3. Len(built') = 0 /\ Len(resolved') \in Nat
    <3>1. resolved' \in Seq(Candidates)
      BY <1>1, InputAssumption
    <3> QED
      BY <1>1, <3>1
  <2> QED
    BY <1>1, <1>13, <2>1, <2>2, <2>3 DEF Submitting
<1>18. Measured' /\ Launched'
  BY <1>13 DEF Measured, Launched
<1> QED
  BY <1>12, <1>14, <1>16, <1>17, <1>18 DEF KInv

LEMMA BuildStands == IInv /\ JInv /\ KInv /\ BuildCandidate => KInv'
<1> SUFFICES ASSUME IInv, JInv, KInv, BuildCandidate PROVE KInv'
  OBVIOUS
<1>1. PICK asked \in 0..MaxPermits, duration \in Durations, launchable \in BOOLEAN :
        /\ launchable => asked = Granted(asked)
        /\ BuildStep(asked, duration)
        /\ built' = Append(built, [candidate |-> NextBuild, launchable |-> launchable])
        /\ ledger' = ledger \o CompilationEvents(asked, elapsed')
        /\ UNCHANGED <<pc, turn, stage, tokens, active, resultVars, outcomeVars>>
  BY DEF BuildCandidate
<1>2. /\ Logged(ledger', turn, Rounded(elapsed'), observations, tokens,
                compilations', counts, "nothing")
      /\ Adds(ledger, ledger', Permissions)
      /\ \A i \in At(ledger', "compilation_refused") : i > Len(ledger) =>
            ledger'[i].candidate = NextBuild /\ asked # Granted(asked)
      /\ elapsed' \in Nat /\ elapsed <= elapsed'
  BY <1>1, BuildLogged
<1>3. /\ pc = "build" /\ pc' = "build" /\ Len(built) < Len(resolved) /\ authoring' = authoring
      /\ counts' = counts /\ closedAt' = closedAt /\ resolved' = resolved
      /\ plan' = plan /\ searched' = searched
      /\ turn' = turn /\ active' = active /\ observations' = observations /\ tokens' = tokens
      /\ source' = source /\ confirmation' = confirmation /\ adherence' = adherence
      /\ stage' = stage
  BY <1>1 DEF BuildStep, resultVars, outcomeVars
<1>4. /\ Standing /\ Closed /\ Submitting /\ elapsed \in Nat /\ authoring \in Nat
      /\ adherence = "adhered" /\ Len(ledger) \in Nat
  BY <1>3, KFacts
<1>5. source = 0 /\ closedAt = {} /\ confirmation = {}
  BY <1>3, Searching DEF JInv
<1>6. InOrder'
  BY <1>2, <1>3 DEF InOrder
<1>7. /\ Measuring /\ Measuring' /\ ~InSearch /\ ~InSearch'
  BY <1>3 DEF Measuring, InSearch
<1>8. Faulted' /\ Closed' /\ Confirmed'
  <2>1. \A i \in 1..Len(ledger') : i > Len(ledger) => ledger'[i].kind # "candidate_evaluated"
    BY <1>2 DEF Adds, Permissions
  <2>2. pc \notin {"sealed", "seal"} /\ adherence' = "adhered" /\ source' = 0
        /\ closedAt' = {} /\ confirmation' = {} /\ authoring' <= elapsed'
    BY <1>2, <1>3, <1>4, <1>5 DEF Closed
  <2>3. Permissions \cap {"run_fault", "search_completed", "candidate_nominated"} = {}
    BY DEF Permissions
  <2> QED
    BY <1>2, <1>5, <1>7, <2>1, <2>2, <2>3, OpenStep
<1>9. /\ Has("author_actions_resolved")' <=> Has("author_actions_resolved")
      /\ Has("provider_turn_completed")' <=> Has("provider_turn_completed")
      /\ Has("candidate_set_filtered")' <=> Has("candidate_set_filtered")
      /\ Has("candidate_selected")' <=> Has("candidate_selected")
  <2>1. \A mark \in Marks : mark \notin Permissions
    BY DEF Marks, Permissions
  <2>2. \A mark \in Marks : Has(mark)' <=> Has(mark)
    BY <1>2, <1>3, <2>1, MarksKept
  <2> QED
    BY <2>2 DEF Marks
<1>10. Standing' /\ Unturned'
  BY <1>3, <1>4, <1>7, <1>9 DEF Standing, Unturned
<1>11. Submitting'
  <2>1. /\ Resolved(ledger, turn) = resolved /\ resolved \in Submissions
        /\ \A n \in 1..Len(built) : built[n].candidate = resolved[n]
        /\ plan = << >> /\ searched = << >>
        /\ \A i \in AtTurn(ledger, "compilation_refused", turn) :
              \E n \in 1..Len(built) : built[n].candidate = ledger[i].candidate
                                       /\ ~built[n].launchable
    BY <1>3, <1>4 DEF Submitting
  <2>2. Resolved(ledger', turn) = Resolved(ledger, turn)
    <3>1. AtTurn(ledger', "author_actions_resolved", turn)
             = AtTurn(ledger, "author_actions_resolved", turn)
      <4>1. "author_actions_resolved" \notin Permissions
        BY DEF Permissions
      <4> QED
        BY <1>2, <4>1, AtTurnSame
    <3> QED
      BY <1>2, <3>1, ResolvedSame DEF Adds
  <2>3. /\ Len(built) \in Nat /\ Len(resolved) \in Nat /\ Len(built') = Len(built) + 1
        /\ \A n \in 1..Len(built) : n \in 1..Len(built') /\ built'[n] = built[n]
        /\ built'[Len(built) + 1] = [candidate |-> NextBuild, launchable |-> launchable]
    BY <1>1 DEF IInv, TypeOK
  <2>4. \A n \in 1..Len(built') : built'[n].candidate = resolved[n]
    <3> SUFFICES ASSUME NEW n \in 1..Len(built') PROVE built'[n].candidate = resolved[n]
      OBVIOUS
    <3>1. CASE n = Len(built) + 1
      BY <2>3, <3>1 DEF NextBuild
    <3>2. CASE n # Len(built) + 1
      <4>1. n \in 1..Len(built)
        BY <2>3, <3>2
      <4> QED
        BY <2>1, <2>3, <4>1
    <3> QED
      BY <3>1, <3>2
  <2>5. ASSUME NEW i \in AtTurn(ledger', "compilation_refused", turn)
        PROVE  \E n \in 1..Len(built') : built'[n].candidate = ledger'[i].candidate
                                         /\ ~built'[n].launchable
    <3>1. i \in At(ledger', "compilation_refused") /\ i \in Nat
      BY <1>2 DEF AtTurn, Adds, Grown, IsLog, At
    <3>2. CASE i > Len(ledger)
      <4>1. ledger'[i].candidate = NextBuild /\ ~launchable
        BY <1>1, <1>2, <3>1, <3>2
      <4> QED
        BY <2>3, <4>1
    <3>3. CASE ~(i > Len(ledger))
      <4>1. i \in AtTurn(ledger, "compilation_refused", turn) /\ ledger'[i] = ledger[i]
        <5>1. i <= Len(ledger)
          BY <1>4, <3>1, <3>3
        <5> QED
          BY <1>2, <5>1, AtTurnMore DEF Adds
      <4> QED
        BY <2>1, <2>3, <4>1
    <3> QED
      BY <3>2, <3>3
  <2> QED
    BY <1>3, <2>1, <2>2, <2>3, <2>4, <2>5 DEF Submitting
<1>12. Measured' /\ Launched'
  BY <1>3, <1>7 DEF Measured, Launched
<1> QED
  BY <1>6, <1>8, <1>10, <1>11, <1>12 DEF KInv

-------------------------------------------------------------------------------
(* Filtering, and a turn with nothing to measure *)

(* No Evaluation of a turn starts before its candidates are filtered. *)
LEMMA NothingMeasured ==
    ASSUME NEW log, NEW now, NEW clock, NEW rows, NEW spent, NEW permits, NEW used, NEW owed,
           Logged(log, now, clock, rows, spent, permits, used, owed), NEW t,
           AtTurn(log, "candidate_set_filtered", t) = {}
    PROVE  /\ AtTurn(log, "evaluation_attempt_started", t) = {}
           /\ AtTurn(log, "candidate_evaluated", t) = {}
<1>1. IsLog(log) /\ Chained(log, owed = "answer") /\ Sealed(log, owed = "start")
  BY LogFacts DEF Logged
<1>2. ASSUME NEW i \in AtTurn(log, "evaluation_attempt_started", t) PROVE FALSE
  <2>1. i \in At(log, "evaluation_attempt_started") /\ log[i].turn = t
    BY <1>2 DEF AtTurn
  <2>2. Placed(log, i)
    BY <1>1, <2>1 DEF Chained
  <2>3. PICK j \in SealedAt(log, t, log[i].candidate) : j < i
    BY <2>1, <2>2 DEF Placed
  <2>4. j \in At(log, "launchable_candidate_sealed") /\ log[j].turn = t
    BY DEF SealedAt, AtTurn
  <2>5. \E n \in AtTurn(log, "candidate_set_filtered", log[j].turn) : n < j
    BY <1>1, <2>4 DEF Sealed
  <2> QED
    BY <2>4, <2>5
<1>3. ASSUME NEW i \in AtTurn(log, "candidate_evaluated", t) PROVE FALSE
  <2>1. i \in At(log, "candidate_evaluated") /\ log[i].turn = t /\ i \in 1..Len(log)
    BY <1>1, <1>3 DEF AtTurn, At, IsLog
  <2>2. /\ i > 1 /\ log[i - 1].kind = "evaluation_attempt_completed"
        /\ SameInvocation(log, i - 1, i)
    BY <1>1, <2>1 DEF Chained
  <2>3. i - 1 \in At(log, "evaluation_attempt_completed")
    BY <1>1, <2>1, <2>2 DEF At, IsLog
  <2>4. /\ i - 1 > 1 /\ log[(i - 1) - 1].kind = "evaluation_attempt_started"
        /\ SameInvocation(log, (i - 1) - 1, i - 1)
    BY <1>1, <2>3 DEF Chained
  <2>5. (i - 1) - 1 \in At(log, "evaluation_attempt_started")
    BY <1>1, <2>1, <2>4 DEF At, IsLog
  <2>6. log[(i - 1) - 1].turn = t
    BY <2>1, <2>2, <2>4 DEF SameInvocation, EvaluationKey
  <2> QED
    BY <1>2, <2>5, <2>6 DEF AtTurn
<1> QED
  BY <1>2, <1>3

(* What the ledger says once the turn's candidates are filtered. *)
FilteredIn(log) ==
    /\ Logged(log, turn, Rounded(elapsed), observations, tokens, compilations, counts,
              "nothing")
    /\ IsSequence(log) /\ IsSequence(FilterEvents)
    /\ Adds(ledger, log, {"candidate_set_filtered", "candidate_rejected"})
    /\ AtTurn(log, "candidate_set_filtered", turn) = {Len(ledger) + 1}
    /\ Len(ledger) + 1 \in 1..Len(log) /\ Rows(log, turn) = FilterOrder
    /\ AtTurn(log, "provider_turn_completed", turn) # {}
    /\ AtTurn(log, "author_actions_resolved", turn) # {}
    /\ AtTurn(log, "candidate_selected", turn) = {}
    /\ AtTurn(log, "diagnosis_routed", turn) = {}
    /\ AtTurn(log, "evaluation_attempt_started", turn) = {}
    /\ AtTurn(log, "candidate_evaluated", turn) = {}
    /\ TurnSearches(log, turn) = << >>

LEMMA NoSearches ==
    ASSUME NEW log, IsLog(log), NEW t, AtTurn(log, "candidate_evaluated", t) = {}
    PROVE  /\ SearchesAt(log, t) = {} /\ AttributionsAt(log, t) = {}
           /\ TurnSearches(log, t) = << >>
<1>1. SearchesAt(log, t) = {} /\ AttributionsAt(log, t) = {}
  BY DEF SearchesAt, AttributionsAt
<1>2. /\ IsSequence(TurnSearches(log, t))
      /\ Len(TurnSearches(log, t)) = Cardinality(SearchesAt(log, t))
  BY TurnSearchesFacts
<1>3. Cardinality(SearchesAt(log, t)) = 0
  BY <1>1, FS_EmptySet
<1>4. PICK S : TurnSearches(log, t) \in Seq(S)
  BY <1>2 DEF IsSequence
<1>5. TurnSearches(log, t) = << >>
  BY <1>2, <1>3, <1>4
<1> QED
  BY <1>1, <1>5

LEMMA FilteredFacts ==
    ASSUME IInv, JInv, KInv, FilterReady
    PROVE  /\ FilteredIn(ledger \o FilterEvents)
           /\ built \in Seq(Row) /\ FilterOrder \in Seq(Row) /\ Separate(FilterOrder)
           /\ Len(FilterOrder) = Len(built) /\ Len(built) = Len(resolved)
           /\ turn = Upcoming /\ Len(observations) \in Nat /\ IsSequence(ledger)
           /\ Len(ledger) \in Nat /\ Rounded(elapsed) \in Nat /\ turn \in Nat
<1> DEFINE log == ledger \o FilterEvents
<1>1. pc = "build" /\ Len(built) = Len(resolved) /\ built \in Seq(Row) /\ Measuring
      /\ ~InSearch /\ pc # "sealed" /\ pc # "seal"
  BY DEF FilterReady, IInv, TypeOK, Measuring, InSearch
<1>2. /\ InOrder /\ Standing /\ Submitting /\ turn = Upcoming /\ Len(observations) \in Nat
      /\ IsSequence(ledger) /\ Len(ledger) \in Nat /\ Rounded(elapsed) \in Nat /\ turn \in Nat
      /\ adherence = "adhered"
  BY <1>1, KFacts
<1>3. /\ Resolved(ledger, turn) = resolved /\ resolved \in Submissions
      /\ \A n \in 1..Len(built) : built[n].candidate = resolved[n]
      /\ \A i \in AtTurn(ledger, "compilation_refused", turn) :
            \E n \in 1..Len(built) : built[n].candidate = ledger[i].candidate
                                     /\ ~built[n].launchable
  BY <1>1, <1>2 DEF Submitting
<1>4. resolved \in Seq(Candidates)
      /\ \A i, j \in DOMAIN resolved : resolved[i] = resolved[j] => i = j
  BY <1>3, InputAssumption
<1>5. /\ DOMAIN resolved = 1..Len(resolved) /\ Len(resolved) \in Nat /\ Len(built) \in Nat
  BY <1>1, <1>4
<1>6. Separate(built)
  BY <1>1, <1>3, <1>4, <1>5 DEF Separate
<1>7. /\ FilterOrder \in Seq(Row) /\ Len(FilterOrder) = Len(built) /\ Len(Rejects) \in Nat
      /\ \A n \in 1..Len(FilterOrder) : \E m \in 1..Len(built) : FilterOrder[n] = built[m]
      /\ \A m \in 1..Len(built) : \E n \in 1..Len(FilterOrder) : FilterOrder[n] = built[m]
      /\ Separate(FilterOrder) /\ TurnedDown(FilterOrder, Rejects)
  BY <1>1, <1>6, FilterOrderRows
<1>8. Filtering(FilterEvents, turn, FilterOrder, Rejects)
  BY <1>1, FilterEventsFiltering
<1>9. DOMAIN FilterOrder = 1..Len(FilterOrder)
  BY <1>7
<1>10. {FilterOrder[n].candidate : n \in DOMAIN FilterOrder} = Submitted(ledger, turn)
  <2>1. Submitted(ledger, turn) = {resolved[i] : i \in DOMAIN resolved}
    BY <1>3 DEF Submitted
  <2>2. ASSUME NEW n \in DOMAIN FilterOrder
        PROVE  FilterOrder[n].candidate \in {resolved[i] : i \in DOMAIN resolved}
    <3>1. PICK m \in 1..Len(built) : FilterOrder[n] = built[m]
      BY <1>7, <1>9
    <3>2. m \in DOMAIN resolved /\ built[m].candidate = resolved[m]
      BY <1>1, <1>3, <1>5
    <3> QED
      BY <3>1, <3>2
  <2>3. ASSUME NEW m \in DOMAIN resolved
        PROVE  resolved[m] \in {FilterOrder[n].candidate : n \in DOMAIN FilterOrder}
    <3>1. m \in 1..Len(built) /\ built[m].candidate = resolved[m]
      BY <1>1, <1>3, <1>5
    <3>2. PICK n \in 1..Len(FilterOrder) : FilterOrder[n] = built[m]
      BY <1>7, <3>1
    <3> QED
      BY <1>9, <3>1, <3>2
  <2> QED
    BY <2>1, <2>2, <2>3
<1>11. \A i \in AtTurn(ledger, "compilation_refused", turn) : \A n \in DOMAIN FilterOrder :
          FilterOrder[n].candidate = ledger[i].candidate => ~FilterOrder[n].launchable
  <2> SUFFICES ASSUME NEW i \in AtTurn(ledger, "compilation_refused", turn),
                      NEW n \in DOMAIN FilterOrder,
                      FilterOrder[n].candidate = ledger[i].candidate
               PROVE  ~FilterOrder[n].launchable
    OBVIOUS
  <2>1. PICK m \in 1..Len(built) : FilterOrder[n] = built[m]
    BY <1>7, <1>9
  <2>2. PICK k \in 1..Len(built) : built[k].candidate = ledger[i].candidate
                                   /\ ~built[k].launchable
    BY <1>3
  <2>3. m = k
    BY <1>6, <2>1, <2>2 DEF Separate
  <2> QED
    BY <2>1, <2>2, <2>3
<1>12. /\ AtTurn(ledger, "provider_turn_completed", turn) # {}
       /\ AtTurn(ledger, "author_actions_resolved", turn) # {}
       /\ AtTurn(ledger, "candidate_set_filtered", turn) = {}
       /\ AtTurn(ledger, "candidate_selected", turn) = {}
  BY <1>1, <1>2 DEF Standing, Has
<1>13. Logged(ledger, turn, Rounded(elapsed), observations, tokens, compilations, counts,
              "nothing")
  BY <1>1, <1>2, LoggedNow
<1>14. /\ Logged(log, turn, Rounded(elapsed), observations, tokens, compilations, counts,
                 "nothing")
       /\ FilteredTo(ledger, log, turn, FilterOrder)
  <2>1. turn = Len(observations) + 1
    BY <1>2 DEF Upcoming
  <2>2. Len(FilterOrder) = Len(Resolved(ledger, turn))
    BY <1>1, <1>3, <1>7
  <2> QED
    <3>1. Sought(ledger, turn, FilterOrder)
      BY <1>10, <1>11, <2>2, Zenon DEF Sought
    <3> QED
      BY <1>2, <1>7, <1>8, <1>12, <1>13, <2>1, <3>1, FilterLogged
<1>22. /\ Adds(ledger, log, {"candidate_set_filtered", "candidate_rejected"})
       /\ AtTurn(log, "candidate_set_filtered", turn) = {Len(ledger) + 1}
       /\ Len(ledger) + 1 \in 1..Len(log) /\ log[Len(ledger) + 1].order = FilterOrder
  BY <1>14, Zenon DEF FilteredTo
<1>15. IsSequence(log) /\ IsLog(log) /\ IsSequence(FilterEvents)
  BY <1>8, <1>14, LogFacts DEF Logged, Filtering
<1>16. Rows(log, turn) = FilterOrder
  <2>1. The(log, {Len(ledger) + 1}) = log[Len(ledger) + 1]
    BY DEF The
  <2> HIDE DEF log
  <2> QED
    BY <1>22, <2>1 DEF Rows
<1> HIDE DEF log
<1>17. /\ AtTurn(log, "provider_turn_completed", turn)
             = AtTurn(ledger, "provider_turn_completed", turn)
       /\ AtTurn(log, "author_actions_resolved", turn)
             = AtTurn(ledger, "author_actions_resolved", turn)
       /\ AtTurn(log, "candidate_selected", turn) = AtTurn(ledger, "candidate_selected", turn)
       /\ AtTurn(log, "evaluation_attempt_started", turn)
             = AtTurn(ledger, "evaluation_attempt_started", turn)
       /\ AtTurn(log, "candidate_evaluated", turn)
             = AtTurn(ledger, "candidate_evaluated", turn)
  <2> DEFINE kinds == {"candidate_set_filtered", "candidate_rejected"}
  <2>1. /\ "provider_turn_completed" \notin kinds /\ "author_actions_resolved" \notin kinds
        /\ "candidate_selected" \notin kinds /\ "evaluation_attempt_started" \notin kinds
        /\ "candidate_evaluated" \notin kinds /\ Adds(ledger, log, kinds)
    BY <1>22
  <2> HIDE DEF kinds
  <2> QED
    BY <2>1, AtTurnSame
<1>18. /\ AtTurn(ledger, "evaluation_attempt_started", turn) = {}
       /\ AtTurn(ledger, "candidate_evaluated", turn) = {}
  BY <1>12, <1>13, NothingMeasured
<1>19. AtTurn(log, "diagnosis_routed", turn) = {}
  <2>1. \A i \in At(log, "diagnosis_routed") : log[i].turn \in 1..Len(observations)
    BY <1>14 DEF Logged, Routed
  <2>2. turn \notin 1..Len(observations)
    BY <1>2 DEF Upcoming
  <2> QED
    BY <2>1, <2>2 DEF AtTurn
<1>20. TurnSearches(log, turn) = << >> /\ AtTurn(log, "candidate_evaluated", turn) = {}
  BY <1>15, <1>17, <1>18, NoSearches
<1>21. FilteredIn(log)
  BY <1>12, <1>14, <1>15, <1>16, <1>17, <1>18, <1>19, <1>20, <1>22, Zenon DEF FilteredIn
<1> QED
  BY <1>1, <1>2, <1>7, <1>21 DEF log

LEMMA TurnEndsStands ==
    ASSUME IInv, JInv, KInv, pc \in {"build", "search"}, NEW stop, EndTurn(stop),
           NEW kinds, Adds(ledger, ledger', kinds),
           kinds \subseteq {"candidate_set_filtered", "candidate_rejected",
                            "candidate_selected", "diagnosis_routed"},
           NEW seen, seen.tokens = tokens, observations' = Append(observations, seen),
           Logged(ledger', turn, Rounded(elapsed), observations, tokens, compilations, counts,
                  "selection"),
           \A mark \in Marks : AtTurn(ledger', mark, turn) # {},
           Settled(ledger', turn, seen),
           UNCHANGED <<elapsed, authoring, counts, compilations, closedAt, tokens, active,
                       source, confirmation, adherence>>
    PROVE  KInv'
<1>1. /\ Measuring /\ pc \notin {"sealed", "seal"} /\ pc' \in {"loop", "close"}
      /\ turn' = turn \/ turn' = turn + 1
  BY DEF Measuring, EndTurn
<1>2. /\ InOrder /\ Closed /\ turn = Upcoming /\ Len(observations) \in Nat
      /\ IsSequence(observations) /\ adherence = "adhered" /\ elapsed \in Nat /\ turn \in Nat
      /\ Rounded(elapsed) \in Nat /\ Len(ledger) \in Nat
  BY <1>1, KFacts
<1>3. source = 0 /\ closedAt = {} /\ confirmation = {}
  BY Searching DEF JInv
<1>4. turn = Len(observations) + 1 /\ turn + 1 = Len(observations) + 2
  BY <1>2 DEF Upcoming
<1>5. /\ Logged(ledger', turn, Rounded(elapsed), observations', tokens, compilations, counts,
                "nothing")
      /\ \A mark \in Marks : AtTurn(ledger', mark, turn + 1) = {}
  <2>1. \A mark \in Marks : AtTurn(ledger', mark, Len(observations) + 1) # {}
    BY <1>4
  <2>2. Settled(ledger', Len(observations) + 1, seen)
    BY <1>4
  <2>3. Logged(ledger', turn, Rounded(elapsed), observations, seen.tokens, compilations,
               counts, "selection")
    OBVIOUS
  <2>4. /\ Logged(ledger', turn, Rounded(elapsed), Append(observations, seen), tokens,
                  compilations, counts, "nothing")
        /\ \A mark \in Marks : AtTurn(ledger', mark, Len(observations) + 2) = {}
    BY <1>2, <2>1, <2>2, <2>3, SettleLogged
  <2> QED
    BY <1>4, <2>4
<1>6. InOrder'
  <2>1. Logged(ledger', turn', Rounded(elapsed), observations', tokens, compilations, counts,
               "nothing")
    <3>1. turn' \in Nat /\ turn <= turn' /\ Rounded(elapsed) <= Rounded(elapsed)
      BY <1>1, <1>2
    <3> QED
      BY <1>2, <1>5, <3>1, LoggedLater
  <2> QED
    BY <1>1, <2>1 DEF InOrder
<1>7. ~Measuring' /\ ~InSearch'
  BY <1>1, <1>3 DEF Measuring, InSearch
<1>8. /\ Len(observations') = Len(observations) + 1 /\ observations' # << >>
      /\ observations'[Len(observations')] = seen
  <2>1. PICK S : observations \in Seq(S)
    BY <1>2 DEF IsSequence
  <2>2. observations \in Seq(S \cup {seen}) /\ seen \in S \cup {seen}
    BY <2>1
  <2> QED
    BY <2>2
<1>9. Upcoming' = turn + 1
  BY <1>4, <1>8 DEF Upcoming
<1>10. tokens' = BeforeTokens'
  BY <1>8 DEF BeforeTokens
<1>11. Faulted' /\ Closed' /\ Confirmed'
  <2>1. \A i \in 1..Len(ledger') : i > Len(ledger) => ledger'[i].kind # "candidate_evaluated"
    BY DEF Adds
  <2>2. /\ adherence' = "adhered" /\ source' = 0 /\ closedAt' = {} /\ confirmation' = {}
        /\ authoring' <= elapsed'
    BY <1>2, <1>3 DEF Closed
  <2>3. kinds \cap {"run_fault", "search_completed", "candidate_nominated"} = {}
    OBVIOUS
  <2> QED
    BY <1>1, <1>3, <1>10, <2>1, <2>2, <2>3, OpenStep
<1>12. Standing'
  <2>1. \A mark \in Marks : ~Has(mark)'
    BY <1>5, <1>9 DEF Has
  <2> QED
    BY <1>1, <1>7, <2>1 DEF Standing, Marks
<1>13. Unturned' /\ Submitting' /\ Measured' /\ Launched'
  BY <1>1, <1>7, <1>8 DEF Unturned, Submitting, Measured, Launched
<1> QED
  BY <1>6, <1>11, <1>12, <1>13 DEF KInv

(* Selecting without a measurement. *)
LEMMA UnmeasuredSelected ==
    ASSUME IInv, JInv, KInv, FilterReady, NEW event, event.kind = "candidate_selected",
           event.turn = turn,
           NEW longer, longer = (ledger \o FilterEvents) \o <<event>>
    PROVE  /\ Logged(longer, turn, Rounded(elapsed), observations, tokens, compilations, counts,
                     "selection")
           /\ Adds(ledger, longer, {"candidate_set_filtered", "candidate_rejected"}
                                      \cup {"candidate_selected"})
           /\ \A mark \in Marks : AtTurn(longer, mark, turn) # {}
           /\ Rows(longer, turn) = FilterOrder /\ Selection(longer, turn) = event
           /\ SearchesAt(longer, turn) = {} /\ AttributionsAt(longer, turn) = {}
           /\ TurnSearches(longer, turn) = << >>
           /\ AtTurn(longer, "diagnosis_routed", turn) = {}
<1> DEFINE log == ledger \o FilterEvents
<1>1. /\ FilteredIn(log) /\ turn = Upcoming /\ Len(observations) \in Nat
      /\ Rounded(elapsed) \in Nat /\ turn \in Nat /\ longer = log \o <<event>>
      /\ Len(ledger) \in Nat
  BY FilteredFacts
<1> HIDE DEF log
<1>2. /\ Logged(log, turn, Rounded(elapsed), observations, tokens, compilations, counts,
                "nothing")
      /\ IsSequence(log)
      /\ Adds(ledger, log, {"candidate_set_filtered", "candidate_rejected"})
      /\ AtTurn(log, "candidate_set_filtered", turn) = {Len(ledger) + 1}
      /\ Len(ledger) + 1 \in 1..Len(log) /\ Rows(log, turn) = FilterOrder
      /\ AtTurn(log, "provider_turn_completed", turn) # {}
      /\ AtTurn(log, "author_actions_resolved", turn) # {}
      /\ AtTurn(log, "candidate_selected", turn) = {}
      /\ AtTurn(log, "diagnosis_routed", turn) = {}
      /\ AtTurn(log, "evaluation_attempt_started", turn) = {}
      /\ AtTurn(log, "candidate_evaluated", turn) = {}
  BY <1>1, Zenon DEF FilteredIn
<1>3. /\ Grown(log, longer) /\ IsSequence(longer) /\ Len(longer) = Len(log) + 1
      /\ longer[Len(log) + 1] = event /\ Adds(log, longer, {event.kind})
  <2>1. /\ Grown(log, log \o <<event>>) /\ IsSequence(log \o <<event>>)
        /\ Len(log \o <<event>>) = Len(log) + 1
        /\ (log \o <<event>>)[Len(log) + 1] = event
        /\ Adds(log, log \o <<event>>, {event.kind})
    BY <1>2, GrowsOne
  <2> QED
    BY <1>1, <2>1, Zenon
<1>4. turn = Len(observations) + 1
  BY <1>1 DEF Upcoming
<1>5. /\ Logged(longer, turn, Rounded(elapsed), observations, tokens, compilations, counts,
                "selection")
      /\ AtTurn(longer, "candidate_selected", turn) = {Len(log) + 1}
  <2>1. Logged(log, turn, Rounded(elapsed), observations, tokens, compilations, counts,
               "selection")
    BY <1>1, <1>2, SelectionAwaited
  <2>2. /\ Logged(log \o <<event>>, turn, Rounded(elapsed), observations, tokens,
                  compilations, counts, "selection")
        /\ AtTurn(log \o <<event>>, "candidate_selected", turn) = {Len(log) + 1}
    <3>1. /\ turn \in Nat /\ Rounded(elapsed) \in Nat /\ Len(observations) \in Nat
          /\ event.kind = "candidate_selected" /\ event.turn = turn
          /\ turn = Len(observations) + 1
          /\ AtTurn(log, "candidate_selected", turn) = {}
          /\ AtTurn(log, "author_actions_resolved", turn) # {}
      BY <1>1, <1>2, <1>4
    <3> QED
      BY ONLY <2>1, <3>1, SelectLogged
  <2> QED
    BY <1>1, <2>2, Zenon
<1>6. Adds(ledger, longer, {"candidate_set_filtered", "candidate_rejected"}
                               \cup {"candidate_selected"})
  <2>1. Adds(log, longer, {"candidate_selected"})
    BY <1>3
  <2> QED
    BY <1>2, <2>1, AddsMore
<1>7. /\ AtTurn(longer, "candidate_set_filtered", turn)
            = AtTurn(log, "candidate_set_filtered", turn)
      /\ AtTurn(longer, "provider_turn_completed", turn)
            = AtTurn(log, "provider_turn_completed", turn)
      /\ AtTurn(longer, "author_actions_resolved", turn)
            = AtTurn(log, "author_actions_resolved", turn)
      /\ AtTurn(longer, "diagnosis_routed", turn) = AtTurn(log, "diagnosis_routed", turn)
      /\ AtTurn(longer, "candidate_evaluated", turn) = AtTurn(log, "candidate_evaluated", turn)
  <2> DEFINE kinds == {"candidate_selected"}
  <2>1. /\ "candidate_set_filtered" \notin kinds /\ "provider_turn_completed" \notin kinds
        /\ "author_actions_resolved" \notin kinds /\ "diagnosis_routed" \notin kinds
        /\ "candidate_evaluated" \notin kinds /\ Adds(log, longer, kinds)
    BY <1>3
  <2> HIDE DEF kinds
  <2> QED
    BY <2>1, AtTurnSame
<1>8. \A mark \in Marks : AtTurn(longer, mark, turn) # {}
  BY <1>2, <1>5, <1>7 DEF Marks
<1>9. Rows(longer, turn) = FilterOrder
  <2> DEFINE D == AtTurn(log, "candidate_set_filtered", turn)
  <2>1. D # {} /\ D \subseteq 1..Len(log)
    BY <1>2
  <2> HIDE DEF D
  <2>2. The(longer, D) = The(log, D)
    BY <1>3, <2>1, TheSame
  <2> QED
    BY <1>2, <1>7, <2>2 DEF Rows, D
<1>10. Selection(longer, turn) = event
  <2>1. The(longer, {Len(log) + 1}) = event
    BY <1>3 DEF The
  <2> QED
    BY <1>5, <2>1 DEF Selection
<1>11. /\ SearchesAt(longer, turn) = {} /\ AttributionsAt(longer, turn) = {}
       /\ TurnSearches(longer, turn) = << >>
  BY <1>2, <1>3, <1>7, NoSearches DEF Grown
<1> QED
  BY <1>2, <1>5, <1>6, <1>7, <1>8, <1>9, <1>10, <1>11

LEMMA UnmeasuredSettled ==
    ASSUME NEW log, NEW t, NEW seen, ~seen.qualified, NEW order \in Seq(Row),
           Rows(log, t) = order, LaunchableRows(order) = {},
           SearchesAt(log, t) = {}, AttributionsAt(log, t) = {}, TurnSearches(log, t) = << >>,
           AtTurn(log, "diagnosis_routed", t) = {},
           Selection(log, t).candidate = seen.candidate, Selection(log, t).qualified = << >>,
           order = << >> => /\ Selection(log, t).reason = "no_candidate_produced"
                            /\ Selection(log, t).candidate = NoCandidate,
           order # << >> => /\ Selection(log, t).reason = "all_candidates_rejected"
                            /\ Selection(log, t).candidate = order[1].candidate
    PROVE  Settled(log, t, seen)
<1>1. Chosen(log, t)
  BY DEF Chosen
<1>2. Observed(log, t, seen)
  BY DEF Observed
<1>3. Collapsed(order) = {}
  BY DEF Collapsed
<1>4. Diagnosed(log, t)
  BY <1>3 DEF Diagnosed
<1>5. Profiles(log, t)
  <2>1. CorrectOf(<< >>) = {}
    BY DEF CorrectOf
  <2> QED
    BY <2>1 DEF Profiles
<1> QED
  BY <1>1, <1>2, <1>4, <1>5 DEF Settled

LEMMA FilterEmptyStands == IInv /\ JInv /\ KInv /\ FilterEmpty => KInv'
<1> SUFFICES ASSUME IInv, JInv, KInv, FilterEmpty PROVE KInv'
  OBVIOUS
<1> DEFINE event == SelectionEvent(NoCandidate, << >>, "no_candidate_produced")
           seen == Observation(turn, tokens, NoCandidate, 0)
<1>1. /\ FilterReady /\ built = << >> /\ pc = "build"
      /\ observations' = Append(observations, seen)
      /\ ledger' = (ledger \o FilterEvents) \o <<event>>
      /\ EndTurn(FALSE)
      /\ UNCHANGED <<stage, clockVars, budgetVars, tokens, turnVars, active, source,
                     confirmation, outcomeVars>>
  BY DEF FilterEmpty, FilterReady
<1>2. /\ event.kind = "candidate_selected" /\ event.turn = turn
      /\ event.candidate = NoCandidate /\ event.qualified = << >>
      /\ event.reason = "no_candidate_produced"
      /\ seen.tokens = tokens /\ seen.candidate = NoCandidate /\ seen.qualified = (0 > 0)
  BY DEF SelectionEvent, Observation
<1> HIDE DEF event, seen
<1>3. /\ Logged(ledger', turn, Rounded(elapsed), observations, tokens, compilations, counts,
                "selection")
      /\ Adds(ledger, ledger', {"candidate_set_filtered", "candidate_rejected"}
                                  \cup {"candidate_selected"})
      /\ \A mark \in Marks : AtTurn(ledger', mark, turn) # {}
      /\ Rows(ledger', turn) = FilterOrder /\ Selection(ledger', turn) = event
      /\ SearchesAt(ledger', turn) = {} /\ AttributionsAt(ledger', turn) = {}
      /\ TurnSearches(ledger', turn) = << >>
      /\ AtTurn(ledger', "diagnosis_routed", turn) = {}
  BY <1>1, <1>2, UnmeasuredSelected
<1>4. FilterOrder \in Seq(Row) /\ Len(FilterOrder) = 0
  <2>1. FilterOrder \in Seq(Row) /\ Len(FilterOrder) = Len(built)
    BY <1>1, FilteredFacts
  <2> QED
    BY <1>1, <2>1
<1>5. FilterOrder = << >> /\ LaunchableRows(FilterOrder) = {}
  BY <1>4 DEF LaunchableRows
<1>6. Settled(ledger', turn, seen)
  <2>1. /\ ~seen.qualified /\ Selection(ledger', turn).candidate = seen.candidate
        /\ Selection(ledger', turn).qualified = << >>
        /\ FilterOrder = << >> =>
              /\ Selection(ledger', turn).reason = "no_candidate_produced"
              /\ Selection(ledger', turn).candidate = NoCandidate
        /\ FilterOrder # << >> =>
              /\ Selection(ledger', turn).reason = "all_candidates_rejected"
              /\ Selection(ledger', turn).candidate = FilterOrder[1].candidate
    <3>1. Selection(ledger', turn) = event
      BY <1>3
    <3>2. ~(0 > 0)
      OBVIOUS
    <3>3. ~seen.qualified
      BY <1>2, <3>2, Zenon
    <3> QED
      BY <1>2, <1>5, <3>1, <3>3, Zenon
  <2> QED
    BY <1>3, <1>4, <1>5, <2>1, UnmeasuredSettled
<1>7. UNCHANGED <<elapsed, authoring, counts, compilations, closedAt, tokens, active,
                  source, confirmation, adherence>>
  BY <1>1 DEF clockVars, budgetVars, outcomeVars
<1> DEFINE kinds == {"candidate_set_filtered", "candidate_rejected"} \cup {"candidate_selected"}
<1>8. /\ Adds(ledger, ledger', kinds)
      /\ kinds \subseteq {"candidate_set_filtered", "candidate_rejected",
                          "candidate_selected", "diagnosis_routed"}
  BY <1>3
<1> HIDE DEF kinds
<1> QED
  BY <1>1, <1>2, <1>3, <1>6, <1>7, <1>8, TurnEndsStands

LEMMA FilterRejectedStands == IInv /\ JInv /\ KInv /\ FilterAllRejected => KInv'
<1> SUFFICES ASSUME IInv, JInv, KInv, FilterAllRejected PROVE KInv'
  OBVIOUS
<1> DEFINE best == FilterOrder[1].candidate
           event == SelectionEvent(best, << >>, "all_candidates_rejected")
           seen == Observation(turn, tokens, best, 0)
<1>1. /\ FilterReady /\ built # << >> /\ \A n \in 1..Len(built) : ~built[n].launchable
      /\ pc = "build"
      /\ observations' = Append(observations, seen)
      /\ ledger' = (ledger \o FilterEvents) \o <<event>>
      /\ EndTurn(TokensSpent)
      /\ UNCHANGED <<stage, clockVars, budgetVars, tokens, turnVars, active, source,
                     confirmation, outcomeVars>>
  BY DEF FilterAllRejected, FilterReady
<1>2. /\ event.kind = "candidate_selected" /\ event.turn = turn
      /\ event.candidate = best /\ event.qualified = << >>
      /\ event.reason = "all_candidates_rejected"
      /\ seen.tokens = tokens /\ seen.candidate = best /\ seen.qualified = (0 > 0)
  BY DEF SelectionEvent, Observation
<1> HIDE DEF event, seen
<1>3. /\ Logged(ledger', turn, Rounded(elapsed), observations, tokens, compilations, counts,
                "selection")
      /\ Adds(ledger, ledger', {"candidate_set_filtered", "candidate_rejected"}
                                  \cup {"candidate_selected"})
      /\ \A mark \in Marks : AtTurn(ledger', mark, turn) # {}
      /\ Rows(ledger', turn) = FilterOrder /\ Selection(ledger', turn) = event
      /\ SearchesAt(ledger', turn) = {} /\ AttributionsAt(ledger', turn) = {}
      /\ TurnSearches(ledger', turn) = << >>
      /\ AtTurn(ledger', "diagnosis_routed", turn) = {}
  BY <1>1, <1>2, UnmeasuredSelected
<1>4. FilterOrder \in Seq(Row) /\ Len(FilterOrder) = Len(built) /\ built \in Seq(Row)
  BY <1>1, FilteredFacts
<1>5. FilterOrder # << >> /\ LaunchableRows(FilterOrder) = {}
  <2>1. \A n \in 1..Len(FilterOrder) : \E m \in 1..Len(built) : FilterOrder[n] = built[m]
    BY <1>4, FilterOrderRows
  <2>2. \A n \in 1..Len(FilterOrder) : ~FilterOrder[n].launchable
    BY <1>1, <2>1
  <2>3. Len(FilterOrder) \in Nat /\ Len(FilterOrder) # 0
    BY <1>1, <1>4
  <2>4. \A i \in 1..Len(FilterOrder) : i \in 1..i
    BY <2>3
  <2> HIDE DEF best
  <2> QED
    BY <2>2, <2>3, <2>4 DEF LaunchableRows
<1>6. Settled(ledger', turn, seen)
  <2>1. /\ ~seen.qualified /\ Selection(ledger', turn).candidate = seen.candidate
        /\ Selection(ledger', turn).qualified = << >>
        /\ FilterOrder = << >> =>
              /\ Selection(ledger', turn).reason = "no_candidate_produced"
              /\ Selection(ledger', turn).candidate = NoCandidate
        /\ FilterOrder # << >> =>
              /\ Selection(ledger', turn).reason = "all_candidates_rejected"
              /\ Selection(ledger', turn).candidate = FilterOrder[1].candidate
    <3>1. Selection(ledger', turn) = event
      BY <1>3
    <3>2. ~(0 > 0)
      OBVIOUS
    <3>3. ~seen.qualified
      BY <1>2, <3>2, Zenon
    <3> QED
      BY <1>2, <1>5, <3>1, <3>3, Zenon
  <2> QED
    BY <1>3, <1>4, <1>5, <2>1, UnmeasuredSettled
<1>7. UNCHANGED <<elapsed, authoring, counts, compilations, closedAt, tokens, active,
                  source, confirmation, adherence>>
  BY <1>1 DEF clockVars, budgetVars, outcomeVars
<1> DEFINE kinds == {"candidate_set_filtered", "candidate_rejected"} \cup {"candidate_selected"}
<1>8. /\ Adds(ledger, ledger', kinds)
      /\ kinds \subseteq {"candidate_set_filtered", "candidate_rejected",
                          "candidate_selected", "diagnosis_routed"}
  BY <1>3
<1> HIDE DEF kinds
<1> QED
  BY <1>1, <1>2, <1>3, <1>6, <1>7, <1>8, TurnEndsStands

LEMMA NothingStarted ==
    ASSUME NEW log, IsLog(log), NEW t, AtTurn(log, "evaluation_attempt_started", t) = {}
    PROVE  \A purpose : {i \in Starts(log, purpose) : log[i].turn = t} = {}
BY DEF Starts, AtTurn

LEMMA FilterSurvivorsStands == IInv /\ JInv /\ KInv /\ FilterSurvivors => KInv'
<1> SUFFICES ASSUME IInv, JInv, KInv, FilterSurvivors PROVE KInv'
  OBVIOUS
<1>1. /\ FilterReady /\ pc = "build" /\ \E n \in 1..Len(built) : built[n].launchable
      /\ plan' = SearchPlan(FilterOrder) /\ ledger' = ledger \o FilterEvents /\ pc' = "search"
      /\ UNCHANGED <<turn, stage, clockVars, budgetVars, tokens, resolved, built,
                     searched, active, resultVars, outcomeVars>>
  BY DEF FilterSurvivors, FilterReady
<1>2. /\ FilteredIn(ledger') /\ FilterOrder \in Seq(Row) /\ Len(built) = Len(resolved)
      /\ Len(observations) \in Nat /\ Len(ledger) \in Nat /\ turn = Upcoming
  BY <1>1, FilteredFacts
<1>3. /\ Logged(ledger', turn, Rounded(elapsed), observations, tokens, compilations, counts,
                "nothing")
      /\ Adds(ledger, ledger', {"candidate_set_filtered", "candidate_rejected"})
      /\ AtTurn(ledger', "candidate_set_filtered", turn) = {Len(ledger) + 1}
      /\ Rows(ledger', turn) = FilterOrder
      /\ AtTurn(ledger', "provider_turn_completed", turn) # {}
      /\ AtTurn(ledger', "author_actions_resolved", turn) # {}
      /\ AtTurn(ledger', "candidate_selected", turn) = {}
      /\ AtTurn(ledger', "evaluation_attempt_started", turn) = {}
      /\ AtTurn(ledger', "candidate_evaluated", turn) = {}
      /\ TurnSearches(ledger', turn) = << >>
  BY <1>2, Zenon DEF FilteredIn
<1>4. /\ elapsed' = elapsed /\ authoring' = authoring /\ counts' = counts
      /\ compilations' = compilations /\ closedAt' = closedAt /\ tokens' = tokens
      /\ turn' = turn /\ stage' = stage /\ active' = active /\ resolved' = resolved
      /\ built' = built /\ searched' = searched /\ observations' = observations
      /\ source' = source /\ confirmation' = confirmation /\ adherence' = adherence
  BY <1>1 DEF clockVars, budgetVars, resultVars, outcomeVars
<1>5. /\ Standing /\ Closed /\ Submitting /\ adherence = "adhered"
      /\ source = 0 /\ closedAt = {} /\ confirmation = {} /\ active = {}
  BY <1>1, KFacts, Searching DEF JInv
<1>6. InSearch' /\ Measuring' /\ ~InSearch /\ Measuring
  BY <1>1 DEF InSearch, Measuring
<1>7. InOrder'
  BY <1>1, <1>3, <1>4 DEF InOrder
<1>8. Faulted' /\ Closed' /\ Confirmed'
  <2>1. \A i \in 1..Len(ledger') : i > Len(ledger) => ledger'[i].kind # "candidate_evaluated"
    BY <1>3 DEF Adds
  <2>2. /\ adherence' = "adhered" /\ source' = 0 /\ closedAt' = {} /\ confirmation' = {}
        /\ authoring' <= elapsed' /\ pc \notin {"sealed", "seal"}
    BY <1>1, <1>4, <1>5 DEF Closed
  <2>3. {"candidate_set_filtered", "candidate_rejected"}
           \cap {"run_fault", "search_completed", "candidate_nominated"} = {}
    OBVIOUS
  <2> QED
    BY <1>3, <1>5, <1>6, <2>1, <2>2, <2>3, OpenStep
<1>9. /\ Has("author_actions_resolved")' /\ Has("provider_turn_completed")'
      /\ Has("candidate_set_filtered")' /\ ~Has("candidate_selected")'
  <2>1. Upcoming' = turn
    BY <1>2, <1>4 DEF Upcoming
  <2> QED
    BY <1>3, <2>1 DEF Has
<1>10. Standing' /\ Unturned'
  BY <1>1, <1>4, <1>5, <1>6, <1>9 DEF Standing, Unturned
<1>11. \A n \in 1..Len(built) : built[n].candidate = resolved[n]
  BY <1>1, <1>5 DEF Submitting
<1>12. Submitting'
  <2>1. Resolved(ledger, turn) = resolved /\ resolved \in Submissions /\ Len(built) <= Len(resolved)
    BY <1>1, <1>5 DEF Submitting
  <2>2. Resolved(ledger', turn) = Resolved(ledger, turn)
    <3> DEFINE kinds == {"candidate_set_filtered", "candidate_rejected"}
    <3>1. "author_actions_resolved" \notin kinds /\ Adds(ledger, ledger', kinds)
      BY <1>3
    <3> HIDE DEF kinds
    <3>2. AtTurn(ledger', "author_actions_resolved", turn)
             = AtTurn(ledger, "author_actions_resolved", turn)
      BY <3>1, AtTurnSame
    <3> QED
      BY <3>1, <3>2, ResolvedSame DEF Adds
  <2> QED
    BY <1>1, <1>4, <1>11, <2>1, <2>2 DEF Submitting
<1>13. Measured'
  <2>1. searched = << >>
    BY <1>1, <1>5 DEF Submitting
  <2>2. \A purpose : InFlight(purpose)' = 0
    BY <1>4, <1>5 DEF InFlight
  <2>3. FilterOrder' = FilterOrder
    BY <1>4 DEF FilterOrder, Survivors, Rejects
  <2>4. IsLog(ledger')
    BY <1>3 DEF Adds, Grown
  <2>5. \A purpose : {i \in Starts(ledger', purpose) : ledger'[i].turn = turn} = {}
    BY <1>3, <2>4, NothingStarted
  <2>6. AttributionsAt(ledger', turn) = {}
    BY <1>3, <2>4, NoSearches
  <2>7. CandidatesOf(<< >>) \o SearchPlan(FilterOrder) = SearchPlan(FilterOrder)
    <3>1. SearchPlan(FilterOrder) \in Seq(Candidates)
      BY <1>2, SearchPlanFits
    <3>2. CandidatesOf(<< >>) = << >>
      BY DEF CandidatesOf
    <3> HIDE DEF CandidatesOf
    <3> QED
      BY <3>1, <3>2
  <2>8. Cardinality({i \in Starts(ledger', "search") : ledger'[i].turn = turn}) = 0
    BY <2>5, FS_EmptySet
  <2>9. CorrectOf(SubSeq(<< >>, 1, Len(<< >>) - 0)) = {}
    BY DEF CorrectOf
  <2>10. /\ pc' # "profile" /\ turn' = turn /\ plan' = SearchPlan(FilterOrder)
         /\ searched' = << >> /\ Len(<< >>) = 0
    BY <1>1, <1>4, <2>1
  <2>11. /\ Len(built') = Len(resolved') /\ \E n \in 1..Len(built') : built'[n].launchable
         /\ Rows(ledger', turn') = FilterOrder'
         /\ SearchPlan(FilterOrder') = CandidatesOf(searched') \o plan'
         /\ TurnSearches(ledger', turn') = searched'
    BY <1>1, <1>2, <1>3, <1>4, <2>3, <2>7, <2>10
  <2>12. Cardinality({i \in Starts(ledger', "search") : ledger'[i].turn = turn'})
            = Len(searched') + InFlight("search")'
    BY <2>2, <2>8, <2>10
  <2>13. /\ \A i \in Starts(ledger', "search") : ledger'[i].turn # turn'
         /\ \A i \in Starts(ledger', "attribution") : ledger'[i].turn # turn'
    BY <2>5, <2>10
  <2>14. {ledger'[i].candidate : i \in AttributionsAt(ledger', turn')} =
            CorrectOf(SubSeq(searched', 1, Len(searched')
                - (IF pc' = "profile" THEN 1 ELSE InFlight("attribution")')))
    BY <2>2, <2>6, <2>9, <2>10
  <2> QED
    BY <2>2, <2>10, <2>11, <2>12, <2>13, <2>14 DEF Measured
<1>14. Launched'
  BY <1>1 DEF Launched
<1> QED
  BY <1>7, <1>8, <1>10, <1>12, <1>13, <1>14 DEF KInv

-------------------------------------------------------------------------------
(* Selecting from what was measured *)

LEMMA OrderIsSeparate ==
    ASSUME IInv, Submitting, pc = "build" \/ InSearch
    PROVE  /\ built \in Seq(Row) /\ FilterOrder \in Seq(Row) /\ Separate(FilterOrder)
           /\ Len(FilterOrder) = Len(built) /\ Len(built) \in Nat
<1>1. /\ resolved \in Submissions /\ Len(built) <= Len(resolved)
      /\ \A n \in 1..Len(built) : built[n].candidate = resolved[n]
  BY DEF Submitting
<1>2. /\ resolved \in Seq(Candidates) /\ built \in Seq(Row)
      /\ \A i, j \in DOMAIN resolved : resolved[i] = resolved[j] => i = j
  BY <1>1, InputAssumption DEF IInv, TypeOK
<1>3. DOMAIN resolved = 1..Len(resolved) /\ Len(resolved) \in Nat /\ Len(built) \in Nat
  BY <1>2
<1>4. Separate(built)
  BY <1>1, <1>2, <1>3 DEF Separate
<1> QED
  BY <1>2, <1>3, <1>4, FilterOrderRows

(* The ledger up to the selection. *)
LEMMA DiagnosedIn ==
    ASSUME InOrder, pc = "search", turn = Len(observations) + 1, Len(observations) \in Nat,
           turn \in Nat, Rounded(elapsed) \in Nat,
           NEW log, log = ledger \o CollapseDiagnosis
    PROVE  /\ Logged(log, turn, Rounded(elapsed), observations, tokens, compilations, counts,
                     "selection")
           /\ IsSequence(log) /\ Adds(ledger, log, {"diagnosis_routed"})
           /\ Collapsed(FilterOrder) = {} => AtTurn(log, "diagnosis_routed", turn) = {}
           /\ Collapsed(FilterOrder) # {} =>
                 /\ AtTurn(log, "diagnosis_routed", turn) = {Len(log)}
                 /\ Len(log) \in DOMAIN log
                 /\ log[Len(log)].collapsed = Collapsed(FilterOrder)
<1>1. Logged(ledger, turn, Rounded(elapsed), observations, tokens, compilations, counts,
             "nothing")
  BY LoggedNow
<1>2. IsSequence(ledger)
  BY <1>1 DEF Logged
<1>3. AtTurn(ledger, "diagnosis_routed", turn) = {}
  <2>1. \A i \in At(ledger, "diagnosis_routed") : ledger[i].turn \in 1..Len(observations)
    BY <1>1 DEF Logged, Routed
  <2> QED
    BY <2>1 DEF AtTurn
<1>4. CASE Collapsed(FilterOrder) = {}
  <2>1. CollapseDiagnosis = << >>
    BY <1>4 DEF CollapseDiagnosis
  <2>2. log = ledger /\ Adds(ledger, ledger, {})
    BY <1>2, <2>1, AppendNothing
  <2>3. Adds(ledger, log, {"diagnosis_routed"})
    BY <2>2 DEF Adds
  <2>4. Logged(ledger, turn, Rounded(elapsed), observations, tokens, compilations, counts,
               "selection")
    BY <1>1, SelectionAwaited
  <2> QED
    BY <1>2, <1>3, <1>4, <2>2, <2>3, <2>4
<1>5. CASE Collapsed(FilterOrder) # {}
  <2> DEFINE event == [kind |-> "diagnosis_routed", origin |-> "turn", turn |-> turn,
                       collapsed |-> Collapsed(FilterOrder)]
  <2>1. CollapseDiagnosis = <<event>>
    BY <1>5 DEF CollapseDiagnosis
  <2>2. event.kind = "diagnosis_routed" /\ event.turn = turn
        /\ event.collapsed = Collapsed(FilterOrder)
    OBVIOUS
  <2> HIDE DEF event
  <2>3. Logged(ledger \o <<event>>, turn, Rounded(elapsed), observations, tokens, compilations,
               counts, "selection")
    BY <1>1, <2>2, DiagnosisLogged
  <2>4. /\ Grown(ledger, ledger \o <<event>>) /\ IsSequence(ledger \o <<event>>)
        /\ Len(ledger \o <<event>>) = Len(ledger) + 1
        /\ (ledger \o <<event>>)[Len(ledger) + 1] = event
        /\ Adds(ledger, ledger \o <<event>>, {event.kind})
    BY <1>2, GrowsOne
  <2>5. log = ledger \o <<event>>
    BY <2>1
  <2>6. /\ Grown(ledger, log) /\ IsSequence(log) /\ Len(log) = Len(ledger) + 1
        /\ log[Len(log)] = event /\ Adds(ledger, log, {"diagnosis_routed"})
    BY <2>2, <2>4, <2>5, Zenon
  <2>7. AtTurn(log, event.kind, event.turn) = AtTurn(ledger, event.kind, event.turn) \cup {Len(log)}
    <3> DEFINE longer == ledger \o <<event>>
    <3>1. Grown(ledger, longer) /\ Len(longer) = Len(ledger) + 1 /\ longer[Len(longer)] = event
      BY <2>4
    <3> HIDE DEF longer
    <3>2. AtTurn(longer, event.kind, event.turn)
             = AtTurn(ledger, event.kind, event.turn) \cup {Len(longer)}
      BY <3>1, LastAtTurn
    <3>3. log = longer
      BY <2>5 DEF longer
    <3> QED
      BY <3>2, <3>3, Zenon
  <2>8. AtTurn(log, "diagnosis_routed", turn) = {Len(log)}
    BY <1>3, <2>2, <2>7
  <2>9. Len(log) \in DOMAIN log
    BY <2>6 DEF Grown, IsLog
  <2>10. Logged(log, turn, Rounded(elapsed), observations, tokens, compilations, counts,
                "selection")
    BY <2>3, <2>5, Zenon
  <2> QED
    BY <1>5, <2>2, <2>6, <2>8, <2>9, <2>10
<1> QED
  BY <1>4, <1>5

(* What was measured is selected from. *)
LEMMA MeasuredSelected ==
    ASSUME NEW log, IsSequence(log), Logged(log, turn, Rounded(elapsed), observations, tokens,
                                            compilations, counts, "selection"),
           turn = Len(observations) + 1, Len(observations) \in Nat, turn \in Nat,
           Rounded(elapsed) \in Nat,
           NEW event, event.kind = "candidate_selected", event.turn = turn,
           AtTurn(log, "provider_turn_completed", turn) # {},
           AtTurn(log, "author_actions_resolved", turn) # {},
           AtTurn(log, "candidate_set_filtered", turn) # {},
           AtTurn(log, "candidate_selected", turn) = {},
           NEW longer, longer = log \o <<event>>
    PROVE  /\ Logged(longer, turn, Rounded(elapsed), observations, tokens, compilations, counts,
                     "selection")
           /\ Adds(log, longer, {"candidate_selected"})
           /\ \A mark \in Marks : AtTurn(longer, mark, turn) # {}
           /\ Rows(longer, turn) = Rows(log, turn) /\ Selection(longer, turn) = event
<1>3. /\ Grown(log, longer) /\ IsSequence(longer) /\ Len(longer) = Len(log) + 1
      /\ longer[Len(log) + 1] = event /\ Adds(log, longer, {event.kind})
  <2>1. /\ Grown(log, log \o <<event>>) /\ IsSequence(log \o <<event>>)
        /\ Len(log \o <<event>>) = Len(log) + 1
        /\ (log \o <<event>>)[Len(log) + 1] = event
        /\ Adds(log, log \o <<event>>, {event.kind})
    BY GrowsOne
  <2> QED
    BY <2>1, Zenon
<1>5. /\ Logged(longer, turn, Rounded(elapsed), observations, tokens, compilations, counts,
                "selection")
      /\ AtTurn(longer, "candidate_selected", turn) = {Len(log) + 1}
  <2>2. /\ Logged(log \o <<event>>, turn, Rounded(elapsed), observations, tokens,
                  compilations, counts, "selection")
        /\ AtTurn(log \o <<event>>, "candidate_selected", turn) = {Len(log) + 1}
    BY SelectLogged
  <2> QED
    BY <2>2, Zenon
<1>7. /\ AtTurn(longer, "candidate_set_filtered", turn)
            = AtTurn(log, "candidate_set_filtered", turn)
      /\ AtTurn(longer, "provider_turn_completed", turn)
            = AtTurn(log, "provider_turn_completed", turn)
      /\ AtTurn(longer, "author_actions_resolved", turn)
            = AtTurn(log, "author_actions_resolved", turn)
  <2> DEFINE kinds == {"candidate_selected"}
  <2>1. /\ "candidate_set_filtered" \notin kinds /\ "provider_turn_completed" \notin kinds
        /\ "author_actions_resolved" \notin kinds /\ Adds(log, longer, kinds)
    BY <1>3
  <2> HIDE DEF kinds
  <2> QED
    BY <2>1, AtTurnSame
<1>8. \A mark \in Marks : AtTurn(longer, mark, turn) # {}
  BY <1>5, <1>7 DEF Marks
<1>9. Rows(longer, turn) = Rows(log, turn)
  <2> DEFINE D == AtTurn(log, "candidate_set_filtered", turn)
  <2>1. D # {} /\ D \subseteq 1..Len(log)
    BY <1>3, AtTurnInLog DEF Grown
  <2> HIDE DEF D
  <2>2. The(longer, D) = The(log, D)
    BY <1>3, <2>1, TheSame
  <2> QED
    BY <1>7, <2>2 DEF Rows, D
<1>10. Selection(longer, turn) = event
  <2>1. The(longer, {Len(log) + 1}) = event
    BY <1>3 DEF The
  <2> QED
    BY <1>5, <2>1 DEF Selection
<1> QED
  BY <1>3, <1>5, <1>8, <1>9, <1>10

AttributedAt(log, t) == {log[i].candidate : i \in AttributionsAt(log, t)}

LEMMA SearchesSame ==
    ASSUME NEW log, NEW longer, NEW kinds, Adds(log, longer, kinds),
           "candidate_evaluated" \notin kinds, NEW t
    PROVE  /\ SearchesAt(longer, t) = SearchesAt(log, t)
           /\ TurnSearches(longer, t) = TurnSearches(log, t)
           /\ AttributedAt(longer, t) = AttributedAt(log, t)
<1>1. AtTurn(longer, "candidate_evaluated", t) = AtTurn(log, "candidate_evaluated", t)
  BY AtTurnSame
<1>2. \A i \in AtTurn(log, "candidate_evaluated", t) : longer[i] = log[i]
  BY AtTurnMore DEF Adds
<1>3. SearchesAt(longer, t) = SearchesAt(log, t)
  BY <1>1, <1>2 DEF SearchesAt
<1>4. AttributionsAt(longer, t) = AttributionsAt(log, t)
  BY <1>1, <1>2 DEF AttributionsAt
<1>5. \A i \in AttributionsAt(log, t) : longer[i] = log[i]
  BY <1>2 DEF AttributionsAt
<1>6. TurnSearches(longer, t) = TurnSearches(log, t)
  BY <1>3, TurnSearchesSame DEF Adds
<1>7. AttributedAt(longer, t) = AttributedAt(log, t)
  BY <1>4, <1>5 DEF AttributedAt
<1> QED
  BY <1>3, <1>6, <1>7

LEMMA MeasuredSettled ==
    ASSUME NEW log, IsLog(log), NEW t, NEW order \in Seq(Row), Separate(order),
           order # << >>, Rows(log, t) = order,
           NEW rows \in Seq(Searches), rows # << >>, TurnSearches(log, t) = rows,
           CandidatesOf(rows) = SearchPlan(order),
           NEW best, best = rows[BestSearch(rows)],
           NEW seen, seen.candidate = best.candidate, seen.latency = best.receipt.latency,
           seen.qualified = (best.receipt.latency > 0),
           Selection(log, t).candidate = best.candidate,
           Selection(log, t).qualified = CandidatesOf(AtPositions(rows, QualifiedSearches(rows))),
           Selection(log, t).reason = IF QualifiedSearches(rows) # {}
                                      THEN "lowest_qualified_search_latency"
                                      ELSE "no_qualified_search_candidate",
           Collapsed(order) = {} => AtTurn(log, "diagnosis_routed", t) = {},
           Collapsed(order) # {} => \E i \in DOMAIN log :
              AtTurn(log, "diagnosis_routed", t) = {i} /\ log[i].collapsed = Collapsed(order),
           ProfileEach => {log[i].candidate : i \in AttributionsAt(log, t)} = CorrectOf(rows)
    PROVE  Settled(log, t, seen)
<1>1. BestSearch(rows) \in 1..Len(rows) /\ Len(rows) \in Nat
  BY BestSearchType
<1>2. Chosen(log, t)
  <2>1. Selection(log, t).reason # "all_candidates_rejected"
    <3>1. "lowest_qualified_search_latency" # "all_candidates_rejected"
          /\ "no_qualified_search_candidate" # "all_candidates_rejected"
      OBVIOUS
    <3> QED
      BY <3>1, Zenon
  <2> QED
    BY <2>1, Zenon DEF Chosen
<1>3. \A i, j \in 1..Len(rows) : rows[i].candidate = rows[j].candidate => i = j
  <2>1. \A i, j \in 1..Len(SearchPlan(order)) :
           SearchPlan(order)[i] = SearchPlan(order)[j] => i = j
    BY PlanIsSeparate
  <2>2. \A i, j \in 1..Len(CandidatesOf(rows)) :
           CandidatesOf(rows)[i] = CandidatesOf(rows)[j] => i = j
    <3> DEFINE planned == SearchPlan(order)
               named == CandidatesOf(rows)
    <3>1. named = planned /\ \A i, j \in 1..Len(planned) : planned[i] = planned[j] => i = j
      BY <2>1
    <3> HIDE DEF planned, named
    <3>2. \A i, j \in 1..Len(named) : named[i] = named[j] => i = j
      BY <3>1
    <3> QED
      BY <3>2 DEF named
  <2>3. Len(CandidatesOf(rows)) = Len(rows)
        /\ \A i \in 1..Len(rows) : CandidatesOf(rows)[i] = rows[i].candidate
    BY <1>1 DEF CandidatesOf
  <2> QED
    BY <2>2, <2>3
<1>4. /\ \A i \in SearchesAt(log, t) : \E n \in 1..Len(rows) : rows[n] = SearchOf(log[i])
      /\ \A n \in 1..Len(rows) : \E i \in SearchesAt(log, t) : rows[n] = SearchOf(log[i])
  <2> DEFINE D == SearchesAt(log, t)
  <2>1. /\ \A i \in D : /\ Earlier(D, i) + 1 \in 1..Len(rows)
                        /\ rows[Earlier(D, i) + 1] = SearchOf(log[i])
        /\ \A n \in 1..Len(rows) : \E i \in D : n = Earlier(D, i) + 1
    BY TurnSearchesFacts
  <2> HIDE DEF D
  <2>2. ASSUME NEW n \in 1..Len(rows) PROVE \E i \in D : rows[n] = SearchOf(log[i])
    BY <2>1
  <2>3. ASSUME NEW i \in D PROVE \E n \in 1..Len(rows) : rows[n] = SearchOf(log[i])
    BY <2>1
  <2> QED
    BY <2>2, <2>3 DEF D
<1>5. Observed(log, t, seen)
  <2>1. ASSUME NEW i \in SearchesAt(log, t), log[i].candidate = seen.candidate
        PROVE  log[i].receipt.latency = seen.latency
    <3>1. PICK n \in 1..Len(rows) : rows[n] = SearchOf(log[i])
      BY <1>4
    <3>2. rows[n].candidate = log[i].candidate /\ rows[n].receipt = log[i].receipt
      BY <3>1 DEF SearchOf
    <3>3. n = BestSearch(rows)
      BY <1>1, <1>3, <2>1, <3>2
    <3> QED
      BY <3>2, <3>3
  <2>2. ASSUME seen.qualified
        PROVE  /\ \E i \in SearchesAt(log, t) : log[i].candidate = seen.candidate
               /\ \E n \in DOMAIN Selection(log, t).qualified :
                     Selection(log, t).qualified[n] = seen.candidate
    <3> DEFINE D == QualifiedSearches(rows)
               chosen == AtPositions(rows, D)
    <3>1. PICK i \in SearchesAt(log, t) : best = SearchOf(log[i])
      BY <1>1, <1>4
    <3>2. log[i].candidate = seen.candidate
      BY <3>1 DEF SearchOf
    <3>3. BestSearch(rows) \in D /\ D \subseteq 1..Len(rows)
      BY <1>1, <2>2 DEF QualifiedSearches, Qualifies
    <3>4. Picked(rows, D, chosen)
      BY <1>1, <3>3, RowsChosen
    <3>6. Selection(log, t).qualified = CandidatesOf(chosen)
      OBVIOUS
    <3> HIDE DEF D, chosen
    <3>5. PICK n \in 1..Len(chosen) : chosen[n] = best
      BY <3>3, <3>4 DEF Picked
    <3>7. Len(chosen) \in Nat
      BY <3>4 DEF Picked
    <3>8. n \in DOMAIN CandidatesOf(chosen) /\ CandidatesOf(chosen)[n] = seen.candidate
      BY <3>5, <3>7 DEF CandidatesOf
    <3> QED
      BY <3>2, <3>6, <3>8, Zenon
  <2> QED
    BY <2>1, <2>2 DEF Observed
<1>6. Diagnosed(log, t)
  BY Zenon DEF Diagnosed
<1>7. Profiles(log, t)
  BY Zenon DEF Profiles
<1> QED
  BY <1>2, <1>5, <1>6, <1>7 DEF Settled

LEMMA SelectStands == IInv /\ JInv /\ KInv /\ SelectCandidate => KInv'
<1> SUFFICES ASSUME IInv, JInv, KInv, SelectCandidate PROVE KInv'
  OBVIOUS
<1> DEFINE best == searched[BestSearch(searched)]
           why == IF QualifiedSearches(searched) # {} THEN "lowest_qualified_search_latency"
                  ELSE "no_qualified_search_candidate"
           event == SelectionEvent(best.candidate, QualifiedInOrder, why)
           seen == Observation(turn, tokens, best.candidate, best.receipt.latency)
           log == ledger \o CollapseDiagnosis
<1>1. /\ pc = "search" /\ plan = << >>
      /\ observations' = Append(observations, seen)
      /\ ledger' = log \o <<event>>
      /\ EndTurn(TokensSpent)
      /\ UNCHANGED <<stage, clockVars, budgetVars, tokens, turnVars, active, source,
                     confirmation, outcomeVars>>
  BY DEF SelectCandidate
<1>2. /\ event.kind = "candidate_selected" /\ event.turn = turn
      /\ event.candidate = best.candidate /\ event.qualified = QualifiedInOrder
      /\ event.reason = why
      /\ seen.tokens = tokens /\ seen.candidate = best.candidate
      /\ seen.latency = best.receipt.latency /\ seen.qualified = (best.receipt.latency > 0)
  BY DEF SelectionEvent, Observation
<1> HIDE DEF event, seen
<1>3. InSearch /\ Measuring /\ pc # "seal" /\ pc # "sealed"
  BY <1>1 DEF InSearch, Measuring
<1>4. /\ InOrder /\ Standing /\ Submitting /\ Measured /\ turn = Upcoming
      /\ Len(observations) \in Nat /\ turn \in Nat /\ Rounded(elapsed) \in Nat
      /\ adherence = "adhered" /\ IsSequence(ledger)
  BY <1>3, KFacts
<1>5. /\ searched \in Seq(Searches) /\ searched # << >> /\ active = {}
  BY <1>1 DEF IInv, TypeOK, InPhase
<1>6. turn = Len(observations) + 1
  BY <1>4 DEF Upcoming
<1>7. /\ FilterOrder \in Seq(Row) /\ Separate(FilterOrder) /\ Len(FilterOrder) = Len(built)
      /\ Len(built) \in Nat
  BY <1>3, <1>4, OrderIsSeparate
<1>8. /\ Rows(ledger, turn) = FilterOrder /\ TurnSearches(ledger, turn) = searched
      /\ SearchPlan(FilterOrder) = CandidatesOf(searched) \o plan
      /\ ProfileEach => {ledger[i].candidate : i \in AttributionsAt(ledger, turn)} =
            CorrectOf(SubSeq(searched, 1, Len(searched)
                - (IF pc = "profile" THEN 1 ELSE InFlight("attribution"))))
      /\ \E n \in 1..Len(built) : built[n].launchable
  BY <1>3, <1>4 DEF Measured
<1>9. CandidatesOf(searched) = SearchPlan(FilterOrder)
  <2>1. CandidatesOf(searched) \in Seq(Candidates)
    <3>1. /\ Len(searched) \in Nat
          /\ \A n \in 1..Len(searched) : searched[n].candidate \in Candidates
      <4>1. Len(searched) \in Nat /\ \A n \in 1..Len(searched) : searched[n] \in Searches
        BY <1>5
      <4>2. \A row \in Searches : row.candidate \in Candidates
        BY DEF Searches
      <4> QED
        BY <4>1, <4>2
    <3> QED
      BY <3>1 DEF CandidatesOf
  <2> QED
    BY <1>1, <1>8, <2>1
<1>10. ProfileEach => {ledger[i].candidate : i \in AttributionsAt(ledger, turn)}
                         = CorrectOf(searched)
  <2>1. InFlight("attribution") = 0
    BY <1>5 DEF InFlight
  <2>2. SubSeq(searched, 1, Len(searched)
                - (IF pc = "profile" THEN 1 ELSE InFlight("attribution"))) = searched
    BY <1>1, <1>5, <2>1
  <2> QED
    BY <1>8, <2>2
<1>11. FilterOrder # << >>
  BY <1>7, <1>8
<1>12. /\ Logged(log, turn, Rounded(elapsed), observations, tokens, compilations, counts,
                 "selection")
       /\ IsSequence(log) /\ Adds(ledger, log, {"diagnosis_routed"})
       /\ Collapsed(FilterOrder) = {} => AtTurn(log, "diagnosis_routed", turn) = {}
       /\ Collapsed(FilterOrder) # {} =>
             /\ AtTurn(log, "diagnosis_routed", turn) = {Len(log)}
             /\ Len(log) \in DOMAIN log
             /\ log[Len(log)].collapsed = Collapsed(FilterOrder)
  BY <1>1, <1>4, <1>6, DiagnosedIn
<1> HIDE DEF log
<1>13. /\ AtTurn(ledger, "provider_turn_completed", turn) # {}
       /\ AtTurn(ledger, "author_actions_resolved", turn) # {}
       /\ AtTurn(ledger, "candidate_set_filtered", turn) # {}
       /\ AtTurn(ledger, "candidate_selected", turn) = {}
  BY <1>3, <1>4 DEF Standing, Has
<1>14. /\ AtTurn(log, "provider_turn_completed", turn) # {}
       /\ AtTurn(log, "author_actions_resolved", turn) # {}
       /\ AtTurn(log, "candidate_set_filtered", turn) # {}
       /\ AtTurn(log, "candidate_selected", turn) = {}
       /\ Rows(log, turn) = FilterOrder
       /\ TurnSearches(log, turn) = searched
       /\ AttributedAt(log, turn) = AttributedAt(ledger, turn)
  <2> DEFINE kinds == {"diagnosis_routed"}
  <2>1. /\ "provider_turn_completed" \notin kinds /\ "author_actions_resolved" \notin kinds
        /\ "candidate_set_filtered" \notin kinds /\ "candidate_selected" \notin kinds
        /\ "candidate_evaluated" \notin kinds /\ Adds(ledger, log, kinds)
    BY <1>12
  <2> HIDE DEF kinds
  <2>2. /\ AtTurn(log, "provider_turn_completed", turn)
              = AtTurn(ledger, "provider_turn_completed", turn)
        /\ AtTurn(log, "author_actions_resolved", turn)
              = AtTurn(ledger, "author_actions_resolved", turn)
        /\ AtTurn(log, "candidate_set_filtered", turn)
              = AtTurn(ledger, "candidate_set_filtered", turn)
        /\ AtTurn(log, "candidate_selected", turn) = AtTurn(ledger, "candidate_selected", turn)
    BY <2>1, AtTurnSame
  <2>3. /\ TurnSearches(log, turn) = TurnSearches(ledger, turn)
        /\ AttributedAt(log, turn) = AttributedAt(ledger, turn)
    BY <2>1, SearchesSame
  <2>4. Rows(log, turn) = Rows(ledger, turn)
    <3> DEFINE D == AtTurn(ledger, "candidate_set_filtered", turn)
    <3>1. D # {} /\ D \subseteq 1..Len(ledger)
      BY <1>4, <1>13, AtTurnInLog, LogFacts
    <3> HIDE DEF D
    <3>2. Grown(ledger, log)
      BY <2>1 DEF Adds
    <3>3. The(log, D) = The(ledger, D)
      BY ONLY <3>1, <3>2, TheSame
    <3> QED
      BY <2>2, <3>3 DEF Rows, D
  <2> QED
    BY <1>8, <1>13, <2>2, <2>3, <2>4, Zenon
<1>15. /\ Logged(ledger', turn, Rounded(elapsed), observations, tokens, compilations, counts,
                 "selection")
       /\ Adds(log, ledger', {"candidate_selected"})
       /\ \A mark \in Marks : AtTurn(ledger', mark, turn) # {}
       /\ Rows(ledger', turn) = Rows(log, turn) /\ Selection(ledger', turn) = event
  BY <1>1, <1>2, <1>4, <1>6, <1>12, <1>14, MeasuredSelected
<1> DEFINE kinds == {"diagnosis_routed"} \cup {"candidate_selected"}
<1>16. /\ Adds(ledger, ledger', kinds)
       /\ kinds \subseteq {"candidate_set_filtered", "candidate_rejected",
                           "candidate_selected", "diagnosis_routed"}
  BY <1>12, <1>15, AddsMore
<1> HIDE DEF kinds
<1>17. /\ TurnSearches(ledger', turn) = searched
       /\ AttributedAt(ledger', turn) = AttributedAt(ledger, turn)
       /\ AtTurn(ledger', "diagnosis_routed", turn) = AtTurn(log, "diagnosis_routed", turn)
       /\ IsLog(ledger')
       /\ Len(log) \in DOMAIN log => Len(log) \in DOMAIN ledger' /\ ledger'[Len(log)] = log[Len(log)]
  <2> DEFINE more == {"candidate_selected"}
  <2>1. "candidate_evaluated" \notin more /\ "diagnosis_routed" \notin more
        /\ Adds(log, ledger', more)
    BY <1>15
  <2> HIDE DEF more
  <2>2. /\ TurnSearches(ledger', turn) = TurnSearches(log, turn)
        /\ AttributedAt(ledger', turn) = AttributedAt(log, turn)
    BY <2>1, SearchesSame
  <2>3. AtTurn(ledger', "diagnosis_routed", turn) = AtTurn(log, "diagnosis_routed", turn)
    BY <2>1, AtTurnSame
  <2>4. /\ IsLog(ledger')
        /\ Len(log) \in DOMAIN log =>
              Len(log) \in DOMAIN ledger' /\ ledger'[Len(log)] = log[Len(log)]
    BY <2>1 DEF Adds, Grown, IsLog
  <2> QED
    BY <1>14, <2>2, <2>3, <2>4, Zenon
<1>18. Settled(ledger', turn, seen)
  <2>1. /\ Selection(ledger', turn).candidate = best.candidate
        /\ Selection(ledger', turn).qualified
              = CandidatesOf(AtPositions(searched, QualifiedSearches(searched)))
        /\ Selection(ledger', turn).reason = why
    BY <1>2, <1>15, Zenon DEF QualifiedInOrder
  <2>2. Rows(ledger', turn) = FilterOrder
    BY <1>14, <1>15, Zenon
  <2>3. Collapsed(FilterOrder) = {} => AtTurn(ledger', "diagnosis_routed", turn) = {}
    BY <1>12, <1>17, Zenon
  <2>4. Collapsed(FilterOrder) # {} => \E i \in DOMAIN ledger' :
           /\ AtTurn(ledger', "diagnosis_routed", turn) = {i}
           /\ ledger'[i].collapsed = Collapsed(FilterOrder)
    BY <1>12, <1>17, Zenon
  <2>5. ProfileEach => {ledger'[i].candidate : i \in AttributionsAt(ledger', turn)}
                          = CorrectOf(searched)
    <3>1. AttributedAt(ledger, turn) = {ledger[i].candidate : i \in AttributionsAt(ledger, turn)}
      BY Zenon DEF AttributedAt
    <3>2. AttributedAt(ledger', turn)
             = {ledger'[i].candidate : i \in AttributionsAt(ledger', turn)}
      BY Zenon DEF AttributedAt
    <3> QED
      BY <1>10, <1>17, <3>1, <3>2, Zenon
  <2>6. best = searched[BestSearch(searched)]
    OBVIOUS
  <2>7. why = IF QualifiedSearches(searched) # {} THEN "lowest_qualified_search_latency"
              ELSE "no_qualified_search_candidate"
    OBVIOUS
  <2> HIDE DEF best, why
  <2> QED
    BY <1>2, <1>5, <1>7, <1>9, <1>11, <1>17, <2>1, <2>2, <2>3, <2>4, <2>5, <2>6, <2>7,
       MeasuredSettled
<1>19. UNCHANGED <<elapsed, authoring, counts, compilations, closedAt, tokens, active,
                   source, confirmation, adherence>>
  BY <1>1 DEF clockVars, budgetVars, outcomeVars
<1> QED
  BY <1>1, <1>2, <1>15, <1>16, <1>18, <1>19, TurnEndsStands

-------------------------------------------------------------------------------
(* An Evaluation starts *)

LEMMA MeasuredIsSealed ==
    ASSUME NEW log, NEW now, NEW clock, NEW rows, NEW spent, NEW permits, NEW used, NEW owed,
           Logged(log, now, clock, rows, spent, permits, used, owed),
           NEW i \in At(log, "candidate_evaluated")
    PROVE  SealedAt(log, log[i].turn, log[i].candidate) # {}
<1>1. IsLog(log) /\ Chained(log, owed = "answer")
  BY LogFacts DEF Logged
<1>2. i \in 1..Len(log)
  BY <1>1 DEF At, IsLog
<1>3. /\ i > 1 /\ log[i - 1].kind = "evaluation_attempt_completed"
      /\ SameInvocation(log, i - 1, i)
  BY <1>1 DEF Chained
<1>4. i - 1 \in At(log, "evaluation_attempt_completed")
  BY <1>1, <1>2, <1>3 DEF At, IsLog
<1>5. /\ i - 1 > 1 /\ log[(i - 1) - 1].kind = "evaluation_attempt_started"
      /\ SameInvocation(log, (i - 1) - 1, i - 1)
  BY <1>1, <1>4 DEF Chained
<1>6. (i - 1) - 1 \in At(log, "evaluation_attempt_started")
  BY <1>1, <1>2, <1>5 DEF At, IsLog
<1>7. Placed(log, (i - 1) - 1)
  BY <1>1, <1>6 DEF Chained
<1>8. \E j \in SealedAt(log, log[(i - 1) - 1].turn, log[(i - 1) - 1].candidate) : j < (i - 1) - 1
  BY <1>7 DEF Placed
<1>9. log[(i - 1) - 1].turn = log[i].turn /\ log[(i - 1) - 1].candidate = log[i].candidate
  BY <1>3, <1>5 DEF SameInvocation, EvaluationKey
<1> QED
  BY <1>8, <1>9

LEMMA SearchIsEvaluated ==
    ASSUME NEW log, IsLog(log), NEW t, NEW n \in 1..Len(TurnSearches(log, t))
    PROVE  \E i \in Evaluated(log, <<t, "search", TurnSearches(log, t)[n].candidate>>) :
              /\ i \in SearchesAt(log, t) /\ i \in At(log, "candidate_evaluated")
              /\ log[i].turn = t
              /\ log[i].candidate = TurnSearches(log, t)[n].candidate
              /\ log[i].receipt = TurnSearches(log, t)[n].receipt
<1>1. \E i \in SearchesAt(log, t) : TurnSearches(log, t)[n] = SearchOf(log[i])
  <2> DEFINE D == SearchesAt(log, t)
             s == TurnSearches(log, t)
  <2>1. /\ \A i \in D : s[Earlier(D, i) + 1] = SearchOf(log[i])
        /\ \A m \in 1..Len(s) : \E i \in D : m = Earlier(D, i) + 1
    BY TurnSearchesFacts
  <2>2. n \in 1..Len(s)
    OBVIOUS
  <2> HIDE DEF D, s
  <2>3. \E i \in D : s[n] = SearchOf(log[i])
    BY <2>1, <2>2
  <2> QED
    BY <2>3 DEF D, s
<1>2. PICK i \in SearchesAt(log, t) : TurnSearches(log, t)[n] = SearchOf(log[i])
  BY <1>1
<1> DEFINE row == TurnSearches(log, t)[n]
<1>3. row.candidate = log[i].candidate /\ row.receipt = log[i].receipt
  BY <1>2 DEF SearchOf
<1>4. i \in At(log, "candidate_evaluated") /\ log[i].turn = t /\ log[i].purpose = "search"
  BY DEF SearchesAt, AtTurn
<1>5. i \in Evaluated(log, <<t, "search", row.candidate>>)
  <2> HIDE DEF row
  <2> QED
    BY <1>3, <1>4 DEF Evaluated, EvaluationKey
<1> QED
  BY <1>2, <1>3, <1>4, <1>5

StartOf(event, purpose, candidate) ==
    /\ event.kind = "evaluation_attempt_started" /\ event.purpose = purpose
    /\ event.candidate = candidate /\ event.origin = Origin.origin
    /\ event.turn = Origin.turn
    /\ EvaluationKey(event) = <<Origin.turn, purpose, candidate>>

(* What a start before search closes leaves standing. *)
LEMMA BegunStands ==
    ASSUME IInv, JInv, KInv, source = 0, pc \in {"search", "profile"}, pc' = "evaluate",
           NEW purpose \in {"search", "attribution"}, NEW candidate,
           active' = {Invocation(purpose, candidate)}, stage' = "evaluation",
           UNCHANGED <<turn, tokens, resultVars, outcomeVars, clockVars, compilations,
                       closedAt, turnVars>>,
           purpose = "attribution" =>
              searched # << >> /\ candidate = searched[Len(searched)].candidate,
           NEW kinds, Adds(ledger, ledger', kinds),
           kinds \subseteq {"launchable_candidate_sealed", "evaluation_attempt_started"},
           ledger'[Len(ledger')]
              = EvaluationEvent("evaluation_attempt_started", Invocation(purpose, candidate)),
           InOrder', Measured'
    PROVE  KInv'
<1>1. /\ elapsed' = elapsed /\ authoring' = authoring
      /\ compilations' = compilations /\ closedAt' = closedAt /\ tokens' = tokens
      /\ turn' = turn /\ resolved' = resolved
      /\ built' = built /\ searched' = searched /\ observations' = observations
      /\ source' = source /\ confirmation' = confirmation /\ adherence' = adherence
  BY DEF clockVars, turnVars, resultVars, outcomeVars
<1>2. /\ InSearch /\ InSearch' /\ Measuring /\ Measuring' /\ pc \notin {"seal", "sealed"}
  BY <1>1 DEF InSearch, Measuring
<1>3. /\ Standing /\ Closed /\ Submitting /\ adherence = "adhered" /\ Len(ledger) \in Nat
      /\ closedAt = {} /\ confirmation = {} /\ turn = Upcoming
  BY <1>2, KFacts
<1>4. Faulted' /\ Closed' /\ Confirmed'
  <2>1. \A i \in 1..Len(ledger') : i > Len(ledger) => ledger'[i].kind # "candidate_evaluated"
    BY DEF Adds
  <2>2. /\ adherence' = "adhered" /\ source' = 0 /\ closedAt' = {} /\ confirmation' = {}
        /\ authoring' <= elapsed'
    BY <1>1, <1>3 DEF Closed
  <2>3. kinds \cap {"run_fault", "search_completed", "candidate_nominated"} = {}
    OBVIOUS
  <2> QED
    BY <1>2, <2>1, <2>2, <2>3, OpenStep
<1>5. /\ Has("author_actions_resolved")' <=> Has("author_actions_resolved")
      /\ Has("provider_turn_completed")' <=> Has("provider_turn_completed")
      /\ Has("candidate_set_filtered")' <=> Has("candidate_set_filtered")
      /\ Has("candidate_selected")' <=> Has("candidate_selected")
  <2>1. \A mark \in Marks : mark \notin kinds
    BY DEF Marks
  <2>2. \A mark \in Marks : Has(mark)' <=> Has(mark)
    BY <1>1, <2>1, MarksKept
  <2> QED
    BY <2>2 DEF Marks
<1>6. Standing' /\ Unturned'
  BY <1>1, <1>2, <1>3, <1>5 DEF Standing, Unturned
<1>7. Submitting'
  <2>1. AtTurn(ledger', "author_actions_resolved", turn)
           = AtTurn(ledger, "author_actions_resolved", turn)
    BY AtTurnSame
  <2>2. Resolved(ledger', turn) = Resolved(ledger, turn)
    BY <2>1, ResolvedSame DEF Adds
  <2>3. /\ Resolved(ledger, turn) = resolved /\ resolved \in Submissions
        /\ Len(built) <= Len(resolved)
        /\ \A n \in 1..Len(built) : built[n].candidate = resolved[n]
    BY <1>2, <1>3 DEF Submitting
  <2> QED
    BY <1>1, <2>2, <2>3 DEF Submitting
<1>8. Launched'
  <2> DEFINE invocation == Invocation(purpose, candidate)
  <2>1. /\ invocation \in active' /\ invocation.origin = Origin.origin
        /\ invocation.turn = Origin.turn /\ invocation.purpose = purpose
        /\ invocation.candidate = candidate
    BY DEF Invocation
  <2>2. Origin' = Origin /\ source' = 0
    BY <1>1 DEF Origin
  <2>3. EvaluationEvent("evaluation_attempt_started", invocation)'
           = EvaluationEvent("evaluation_attempt_started", invocation)
    BY <2>2 DEF EvaluationEvent, Invocation
  <2>4. ledger'[Len(ledger')] = EvaluationEvent("evaluation_attempt_started", invocation)
    OBVIOUS
  <2> DEFINE shown(i) == EvaluationEvent("evaluation_attempt_started", i)
  <2>6. ledger'[Len(ledger')] = shown(invocation)
    BY <2>4
  <2>5. purpose = "attribution" => searched' # << >>
            /\ candidate = searched'[Len(searched')].candidate
    BY <1>1
  <2> HIDE DEF invocation
  <2> QED
    BY <2>1, <2>2, <2>4, <2>5 DEF Launched, EvaluationEvent
<1> QED
  BY <1>4, <1>6, <1>7, <1>8 DEF KInv

-------------------------------------------------------------------------------
(* A search starts *)

StartsAt(log, purpose, t) == {i \in Starts(log, purpose) : log[i].turn = t}

(* A log grows by events the last of which alone starts an Evaluation.     *)
Starting(log, longer) ==
    /\ Grown(log, longer) /\ Len(longer) > Len(log)
    /\ longer[Len(longer)].kind = "evaluation_attempt_started"
    /\ \A i \in 1..Len(longer) : i > Len(log) /\ i # Len(longer) =>
          longer[i].kind # "evaluation_attempt_started"

LEMMA StartsNext ==
    ASSUME NEW log, NEW longer, Starting(log, longer), NEW purpose
    PROVE  /\ longer[Len(longer)].purpose = purpose =>
                 Starts(longer, purpose) = Starts(log, purpose) \cup {Len(longer)}
           /\ longer[Len(longer)].purpose # purpose =>
                 Starts(longer, purpose) = Starts(log, purpose)
           /\ \A i \in Starts(log, purpose) : longer[i] = log[i] /\ i \in 1..Len(log)
<1>0. Len(log) \in Nat /\ Len(longer) \in Nat
  BY DEF Starting, Grown, IsLog
<1>1. /\ DOMAIN log = 1..Len(log) /\ DOMAIN longer = 1..Len(longer)
      /\ \A i \in 1..Len(log) : longer[i] = log[i]
  BY DEF Starting, Grown, IsLog
<1>2. \A i \in 1..Len(longer) : i \in 1..Len(log) \/ i = Len(longer) \/ i > Len(log)
  BY <1>0 DEF Starting
<1>3. 1..Len(log) \subseteq 1..Len(longer) /\ Len(longer) \in 1..Len(longer)
  BY <1>0 DEF Starting
<1> DEFINE S == Starts(log, purpose)
           T == Starts(longer, purpose)
<1>4. ASSUME NEW i \in T PROVE i \in S \/ (i = Len(longer) /\ longer[i].purpose = purpose)
  BY <1>0, <1>1, <1>2 DEF Starting, Starts, At
<1>5. ASSUME NEW i \in S PROVE i \in T /\ longer[i] = log[i] /\ i \in 1..Len(log)
  BY <1>1, <1>3 DEF Starts, At
<1>6. longer[Len(longer)].purpose = purpose => Len(longer) \in T
  BY <1>1, <1>3 DEF Starting, Starts, At
<1> HIDE DEF S, T
<1>7. longer[Len(longer)].purpose = purpose => T = S \cup {Len(longer)}
  BY <1>4, <1>5, <1>6
<1>8. longer[Len(longer)].purpose # purpose => T = S
  BY <1>4, <1>5
<1> QED
  BY <1>5, <1>7, <1>8 DEF S, T

LEMMA StartsAtOneMore ==
    ASSUME NEW log, NEW longer, Starting(log, longer), NEW purpose, NEW t,
           longer[Len(longer)].turn = t, longer[Len(longer)].purpose = purpose
    PROVE  /\ StartsAt(longer, purpose, t) = StartsAt(log, purpose, t) \cup {Len(longer)}
           /\ Cardinality(StartsAt(longer, purpose, t))
                 = Cardinality(StartsAt(log, purpose, t)) + 1
           /\ \A i \in StartsAt(log, purpose, t) : longer[i] = log[i]
<1>1. /\ Starts(longer, purpose) = Starts(log, purpose) \cup {Len(longer)}
      /\ \A i \in Starts(log, purpose) : longer[i] = log[i] /\ i \in 1..Len(log)
  BY StartsNext, ZenonT(30)
<1>2. Len(log) \in Nat /\ Len(longer) \in Nat /\ IsLog(log)
  BY DEF Starting, Grown, IsLog
<1>3. StartsAt(longer, purpose, t) = StartsAt(log, purpose, t) \cup {Len(longer)}
  BY <1>1 DEF StartsAt
<1>4. StartsAt(log, purpose, t) \subseteq Starts(log, purpose)
  BY DEF StartsAt
<1>5. IsFiniteSet(StartsAt(log, purpose, t)) /\ Len(longer) \notin StartsAt(log, purpose, t)
  <2>1. IsFiniteSet(Starts(log, purpose)) /\ Starts(log, purpose) \subseteq 1..Len(log)
    BY <1>2, StartsAreFinite
  <2>2. Len(longer) \notin 1..Len(log)
    BY <1>2 DEF Starting
  <2> QED
    BY <1>4, <2>1, <2>2, FS_Subset
<1>6. Cardinality(StartsAt(log, purpose, t) \cup {Len(longer)})
         = Cardinality(StartsAt(log, purpose, t)) + 1
  BY <1>5, FS_AddElement
<1>7. Cardinality(StartsAt(longer, purpose, t)) = Cardinality(StartsAt(log, purpose, t)) + 1
  BY <1>3, <1>6, Zenon
<1>8. \A i \in StartsAt(log, purpose, t) : longer[i] = log[i]
  BY <1>1, <1>4
<1> QED
  BY <1>3, <1>7, <1>8

LEMMA StartsAtAsBefore ==
    ASSUME NEW log, NEW longer, Starting(log, longer), NEW purpose, NEW t,
           longer[Len(longer)].purpose # purpose
    PROVE  /\ StartsAt(longer, purpose, t) = StartsAt(log, purpose, t)
           /\ \A i \in StartsAt(log, purpose, t) : longer[i] = log[i]
<1>1. Starts(longer, purpose) = Starts(log, purpose)
  BY StartsNext
<1>2. \A i \in Starts(log, purpose) : longer[i] = log[i]
  BY StartsNext
<1> QED
  BY <1>1, <1>2 DEF StartsAt

(* Every start of a turn stands before the one just added. *)
LEMMA StartedBeforeLast ==
    ASSUME NEW log, NEW longer, Starting(log, longer), NEW purpose, NEW t
    PROVE  StartedBefore(longer, Len(longer), t, purpose) = Cardinality(StartsAt(log, purpose, t))
<1>0. Len(log) \in Nat /\ Len(longer) \in Nat
  BY DEF Starting, Grown, IsLog
<1>1. /\ DOMAIN log = 1..Len(log) /\ DOMAIN longer = 1..Len(longer)
      /\ \A i \in 1..Len(log) : longer[i] = log[i]
  BY DEF Starting, Grown, IsLog
<1>2. \A i \in 1..Len(longer) : i < Len(longer) => i \in 1..Len(log) \/ i > Len(log)
  BY <1>0 DEF Starting
<1>3. 1..Len(log) \subseteq 1..Len(longer) /\ \A i \in 1..Len(log) : i < Len(longer)
  BY <1>0 DEF Starting
<1> DEFINE S == {j \in AtTurn(longer, "evaluation_attempt_started", t) :
                    j < Len(longer) /\ longer[j].purpose = purpose}
<1>4. ASSUME NEW j \in S PROVE j \in StartsAt(log, purpose, t)
  <2>1. j \in 1..Len(longer) /\ j < Len(longer)
    BY <1>1 DEF AtTurn, At
  <2>2. longer[j].kind = "evaluation_attempt_started" /\ longer[j].turn = t
        /\ longer[j].purpose = purpose
    BY DEF AtTurn, At
  <2>3. j \in 1..Len(log)
    BY <1>0, <1>2, <2>1, <2>2 DEF Starting
  <2> QED
    BY <1>1, <2>2, <2>3 DEF StartsAt, Starts, At
<1>5. ASSUME NEW j \in StartsAt(log, purpose, t) PROVE j \in S
  BY <1>1, <1>3 DEF StartsAt, Starts, AtTurn, At
<1>6. S = StartsAt(log, purpose, t)
  <2> HIDE DEF S
  <2> QED
    BY <1>4, <1>5
<1> QED
  BY <1>6, Zenon DEF StartedBefore

(* The filter the turn in progress is searched by. *)
LEMMA FilterInForce ==
    ASSUME IInv, JInv, KInv, pc # "sealed", InSearch
    PROVE  /\ \E j \in 1..Len(ledger) :
                 /\ AtTurn(ledger, "candidate_set_filtered", turn) = {j}
                 /\ ledger[j].order = FilterOrder
           /\ turn = Upcoming /\ source = 0 /\ closedAt = {} /\ turn \in Nat
           /\ AtTurn(ledger, "author_actions_resolved", turn) # {}
<1>1. Measuring /\ pc # "seal" /\ source = 0
  <2>1. pc = "search" => closedAt = {}
    BY DEF IInv, InPhase
  <2> QED
    BY <2>1, KFacts DEF InSearch, Measuring
<1>2. /\ InOrder /\ Standing /\ Measured /\ adherence = "adhered" /\ turn = Upcoming
      /\ IsLog(ledger) /\ Len(observations) \in Nat /\ turn \in Nat /\ closedAt = {}
  BY <1>1, KFacts
<1> DEFINE D == AtTurn(ledger, "candidate_set_filtered", turn)
<1>3. D # {} /\ AtTurn(ledger, "author_actions_resolved", turn) # {}
  BY <1>2 DEF Standing, Has
<1>4. \A i, j \in D : i = j
  <2>1. Numbered(ledger, "candidate_set_filtered", Len(observations))
    BY <1>2 DEF InOrder, Logged, Counted
  <2> QED
    BY <1>2, <2>1 DEF Numbered, Upcoming
<1>5. D \subseteq 1..Len(ledger)
  BY <1>2, AtTurnInLog
<1>6. Rows(ledger, turn) = FilterOrder
  BY <1>2 DEF Measured
<1>7. PICK j \in D : The(ledger, D) = ledger[j]
  BY <1>3 DEF The
<1>8. ledger[j].order = FilterOrder
  BY <1>6, <1>7 DEF Rows
<1>9. D = {j}
  BY <1>4
<1> QED
  BY <1>1, <1>2, <1>3, <1>5, <1>8, <1>9

LEMMA CandidatesAre ==
    ASSUME NEW rows, IsSequence(rows)
    PROVE  /\ IsSequence(CandidatesOf(rows)) /\ Len(CandidatesOf(rows)) = Len(rows)
           /\ Len(rows) \in Nat
           /\ \A n \in 1..Len(rows) : CandidatesOf(rows)[n] = rows[n].candidate
<1>1. Len(rows) \in Nat
  BY DEF IsSequence
<1>2. IsSequence(CandidatesOf(rows)) /\ Len(CandidatesOf(rows)) = Len(rows)
  BY <1>1, FunctionIsSequence DEF CandidatesOf
<1> QED
  BY <1>1, <1>2 DEF CandidatesOf

(* What a search turn's plan says of its next search. *)
LEMMA PlanAhead ==
    ASSUME IInv, JInv, KInv, pc # "sealed", InSearch
    PROVE  /\ SearchPlan(FilterOrder) = CandidatesOf(searched) \o plan
           /\ Len(searched) \in Nat /\ Len(plan) \in Nat
           /\ Len(SearchPlan(FilterOrder)) = Len(searched) + Len(plan)
           /\ \A n \in 1..Len(searched) : SearchPlan(FilterOrder)[n] = searched[n].candidate
           /\ plan # << >> => /\ Len(plan) >= 1
                              /\ SearchPlan(FilterOrder)[Len(searched) + 1] = plan[1]
           /\ FilterOrder \in Seq(Row) /\ Separate(FilterOrder)
           /\ \A i, j \in 1..(Len(searched) + Len(plan)) :
                 SearchPlan(FilterOrder)[i] = SearchPlan(FilterOrder)[j] => i = j
           /\ \A n \in 1..(Len(searched) + Len(plan)) : \E m \in 1..Len(FilterOrder) :
                 /\ FilterOrder[m].launchable
                 /\ FilterOrder[m].candidate = SearchPlan(FilterOrder)[n]
<1>1. Submitting /\ Measured
  BY KFacts
<1>2. FilterOrder \in Seq(Row) /\ Separate(FilterOrder)
  BY <1>1, OrderIsSeparate
<1>3. SearchPlan(FilterOrder) = CandidatesOf(searched) \o plan
  BY <1>1 DEF Measured
<1>4. searched \in Seq(Searches) /\ plan \in Seq(Candidates)
  BY DEF IInv, TypeOK
<1>5. IsSequence(searched) /\ IsSequence(plan)
  BY <1>4 DEF IsSequence
<1>6. /\ IsSequence(CandidatesOf(searched)) /\ Len(CandidatesOf(searched)) = Len(searched)
      /\ Len(searched) \in Nat
      /\ \A n \in 1..Len(searched) : CandidatesOf(searched)[n] = searched[n].candidate
  BY <1>5, CandidatesAre
<1> DEFINE before == CandidatesOf(searched)
           whole == SearchPlan(FilterOrder)
<1>7. /\ Len(plan) \in Nat /\ Len(before \o plan) = Len(before) + Len(plan)
      /\ \A n \in 1..Len(before) : (before \o plan)[n] = before[n]
      /\ \A n \in 1..Len(plan) : (before \o plan)[Len(before) + n] = plan[n]
  BY <1>5, <1>6, RowsJoined
<1>8. plan # << >> => Len(plan) >= 1
  BY <1>4
<1>9. /\ \A i, j \in 1..Len(whole) : whole[i] = whole[j] => i = j
      /\ \A n \in 1..Len(whole) : \E m \in 1..Len(FilterOrder) :
            FilterOrder[m].launchable /\ FilterOrder[m].candidate = whole[n]
  BY <1>2, PlanIsSeparate
<1>10. whole = before \o plan
  BY <1>3
<1> HIDE DEF before, whole
<1>11. /\ Len(whole) = Len(searched) + Len(plan)
       /\ \A n \in 1..Len(searched) : whole[n] = searched[n].candidate
       /\ plan # << >> => Len(plan) >= 1 /\ whole[Len(searched) + 1] = plan[1]
  BY <1>6, <1>7, <1>8, <1>10 DEF before
<1>12. /\ \A i, j \in 1..(Len(searched) + Len(plan)) : whole[i] = whole[j] => i = j
       /\ \A n \in 1..(Len(searched) + Len(plan)) : \E m \in 1..Len(FilterOrder) :
            FilterOrder[m].launchable /\ FilterOrder[m].candidate = whole[n]
  BY <1>9, <1>11
<1> QED
  BY <1>2, <1>3, <1>6, <1>7, <1>11, <1>12 DEF whole

LEMMA AppendedIsConcat ==
    ASSUME NEW log, IsSequence(log), NEW first, NEW second
    PROVE  log \o Append(<<first>>, second) = (log \o <<first>>) \o <<second>>
<1> DEFINE one == <<first>>
           two == <<second>>
           both == Append(<<first>>, second)
           s == log \o both
           t == (log \o one) \o two
<1>1. /\ IsSequence(one) /\ Len(one) = 1 /\ one[1] = first
      /\ IsSequence(two) /\ Len(two) = 1 /\ two[1] = second
      /\ IsSequence(both) /\ Len(both) = 2 /\ both[1] = first /\ both[2] = second
  <2>1. /\ <<first>> \in Seq({first, second}) /\ <<second>> \in Seq({first, second})
    OBVIOUS
  <2>2. both \in Seq({first, second}) /\ Len(both) = 2 /\ both[1] = first /\ both[2] = second
    BY <2>1
  <2>3. Len(one) = 1 /\ one[1] = first /\ Len(two) = 1 /\ two[1] = second
    OBVIOUS
  <2> HIDE DEF one, two, both
  <2>4. one \in Seq({first, second}) /\ two \in Seq({first, second})
    BY <2>1 DEF one, two
  <2>5. IsSequence(one) /\ IsSequence(two) /\ IsSequence(both)
    BY <2>2, <2>4 DEF IsSequence
  <2> QED
    BY <2>2, <2>3, <2>5
<1> HIDE DEF one, two, both
<1>4. Len(log) \in Nat
  BY SequenceFacts
<1>2. LET longer == log \o one
      IN /\ IsSequence(longer) /\ Len(longer) = Len(log) + 1
         /\ longer[Len(log) + 1] = first /\ Grown(log, longer)
  BY GrowsOne DEF one
<1>3. LET longer == log \o both
      IN /\ Grown(log, longer) /\ IsSequence(longer)
         /\ Len(longer) = Len(log) + Len(both)
         /\ \A n \in 1..Len(both) : longer[Len(log) + n] = both[n]
  <2>1. IsSequence(both)
    BY <1>1
  <2> QED
    BY ONLY IsSequence(log), <2>1, GrowsBy
<1> DEFINE log1 == log \o one
<1> HIDE DEF log1, s, t
<1>5. LET longer == log1 \o two
      IN /\ IsSequence(longer) /\ Len(longer) = Len(log1) + 1
         /\ longer[Len(log1) + 1] = second /\ Grown(log1, longer)
  BY <1>2, GrowsOne DEF two, log1
<1>6. t = log1 \o two /\ s = log \o both
  BY DEF log1, t, s
<1>7. Len(log1) = Len(log) + 1 /\ log1[Len(log) + 1] = first /\ Grown(log, log1)
  BY <1>2 DEF log1
<1>8. /\ Len(t) = Len(log) + 2 /\ IsSequence(t) /\ Grown(log1, t)
      /\ t[Len(log) + 2] = second
  BY <1>4, <1>5, <1>6, <1>7
<1>9. /\ Len(s) = Len(log) + 2 /\ IsSequence(s) /\ Grown(log, s)
      /\ s[Len(log) + 1] = first /\ s[Len(log) + 2] = second
  BY <1>1, <1>3, <1>4, <1>6
<1>10. \A n \in 1..Len(s) : n \in 1..Len(log) \/ n = Len(log) + 1 \/ n = Len(log) + 2
  BY <1>4, <1>9
<1>11. /\ \A i \in 1..Len(log) : t[i] = log[i] /\ s[i] = log[i]
       /\ t[Len(log) + 1] = first
  <2>1. \A i \in 1..Len(log) : i \in 1..Len(log1) /\ log1[i] = log[i]
    BY <1>4, <1>7 DEF Grown
  <2>2. Len(log) + 1 \in 1..Len(log1)
    BY <1>4, <1>7
  <2> QED
    BY <1>7, <1>8, <1>9, <2>1, <2>2 DEF Grown
<1>12. \A n \in 1..Len(s) : s[n] = t[n]
  BY <1>8, <1>9, <1>10, <1>11
<1>13. s = t
  BY <1>8, <1>9, <1>12, SameSequence
<1> QED
  BY <1>13, Zenon DEF s, t, both, one, two

LEMMA NoneInFlight ==
    ASSUME IInv, pc # "evaluate"
    PROVE  active = {} /\ \A purpose : InFlight(purpose) = 0
BY DEF IInv, InPhase, InFlight

(* A start in the turn's search leaves what was measured as it was. *)
LEMMA MeasuredKept ==
    ASSUME IInv, JInv, KInv, pc \in {"search", "profile"}, source = 0, source' = 0,
           UNCHANGED <<turn, turnVars>>,
           NEW kinds, Adds(ledger, ledger', kinds),
           kinds \subseteq {"launchable_candidate_sealed", "evaluation_attempt_started"}
    PROVE  /\ Rows(ledger', turn) = FilterOrder /\ FilterOrder' = FilterOrder
           /\ TurnSearches(ledger', turn) = searched
           /\ AttributedAt(ledger', turn) = AttributedAt(ledger, turn)
<1>1. InSearch /\ pc # "sealed"
  BY DEF InSearch
<1>2. Measured /\ \E j \in 1..Len(ledger) :
                     AtTurn(ledger, "candidate_set_filtered", turn) = {j}
  BY <1>1, KFacts, FilterInForce
<1>3. built' = built
  BY DEF turnVars
<1>4. FilterOrder' = FilterOrder
  BY <1>3 DEF FilterOrder, Survivors, Rejects
<1>5. Rows(ledger', turn) = Rows(ledger, turn)
  <2>1. AtTurn(ledger', "candidate_set_filtered", turn)
           = AtTurn(ledger, "candidate_set_filtered", turn)
    BY AtTurnSame
  <2> DEFINE D == AtTurn(ledger, "candidate_set_filtered", turn)
  <2>2. D # {} /\ D \subseteq 1..Len(ledger)
    BY <1>2
  <2>3. Grown(ledger, ledger')
    BY DEF Adds
  <2> HIDE DEF D
  <2>4. The(ledger', D) = The(ledger, D)
    BY <2>2, <2>3, TheSame
  <2> QED
    BY <2>1, <2>4, Zenon DEF Rows, D
<1>6. /\ TurnSearches(ledger', turn) = TurnSearches(ledger, turn)
      /\ AttributedAt(ledger', turn) = AttributedAt(ledger, turn)
  BY SearchesSame
<1> QED
  BY <1>1, <1>2, <1>4, <1>5, <1>6 DEF Measured

LEMMA StartSearchLogged ==
    ASSUME IInv, JInv, KInv, pc = "search", plan # << >>, NEW event,
           StartOf(event, "search", plan[1]),
           NEW sealed, sealed = CandidateEvent("launchable_candidate_sealed", plan[1]),
           NEW log, log = ledger \o <<sealed>>, NEW longer, longer = log \o <<event>>
    PROVE  /\ Logged(longer, turn, Rounded(elapsed), observations, tokens, compilations,
                     [counts EXCEPT !["search"] = @ + 1], "answer")
           /\ Adds(ledger, longer, {"launchable_candidate_sealed", "evaluation_attempt_started"})
           /\ Len(longer) = Len(ledger) + 2 /\ longer[Len(longer)] = event
           /\ Len(ledger) \in Nat
           /\ longer[Len(ledger) + 1].kind = "launchable_candidate_sealed"
<1>1. InSearch /\ pc # "sealed" /\ pc # "seal" /\ pc # "evaluate"
  BY DEF InSearch
<1>2. /\ InOrder /\ Measured /\ Closed /\ IsSequence(ledger) /\ Len(ledger) \in Nat
      /\ Len(observations) \in Nat /\ tokens \in Nat /\ counts \in [Purposes -> Nat]
      /\ Rounded(elapsed) \in Nat /\ IsLog(ledger)
  BY <1>1, KFacts
<1>3. /\ turn = Upcoming /\ source = 0 /\ closedAt = {} /\ turn \in Nat
      /\ AtTurn(ledger, "author_actions_resolved", turn) # {}
  BY <1>1, FilterInForce
<1>4. PICK f \in 1..Len(ledger) : /\ AtTurn(ledger, "candidate_set_filtered", turn) = {f}
                                  /\ ledger[f].order = FilterOrder
  BY <1>1, FilterInForce
<1> DEFINE whole == SearchPlan(FilterOrder)
           before == Len(searched)
<1>5. /\ before \in Nat /\ Len(plan) \in Nat /\ Len(plan) >= 1
      /\ Len(whole) = before + Len(plan) /\ whole[before + 1] = plan[1]
  BY <1>1, PlanAhead
<1>6. \A i, j \in 1..(before + Len(plan)) : whole[i] = whole[j] => i = j
  BY <1>1, PlanAhead
<1>7. \A n \in 1..(before + Len(plan)) : \E m \in 1..Len(FilterOrder) :
         FilterOrder[m].launchable /\ FilterOrder[m].candidate = whole[n]
  BY <1>1, PlanAhead
<1>8. FilterOrder \in Seq(Row)
  BY <1>1, PlanAhead
<1>9. /\ Cardinality(StartsAt(ledger, "search", turn)) = before
      /\ \A i \in StartsAt(ledger, "search", turn) :
            \E n \in 1..before : ledger[i].candidate = whole[n]
  <2>1. InFlight("search") = 0
    BY <1>1, NoneInFlight
  <2>2. Cardinality(StartsAt(ledger, "search", turn)) = before + InFlight("search")
    BY <1>1, <1>2, Zenon DEF Measured, StartsAt
  <2>3. \A i \in Starts(ledger, "search") : ledger[i].turn = turn =>
           \E n \in 1..(before + InFlight("search")) : ledger[i].candidate = whole[n]
    BY <1>1, <1>2, Zenon DEF Measured
  <2> HIDE DEF before, whole
  <2> QED
    BY <1>5, <2>1, <2>2, <2>3 DEF StartsAt
<1> HIDE DEF whole, before
<1>10. sealed.kind = "launchable_candidate_sealed" /\ sealed.turn = turn
       /\ sealed.candidate = plan[1]
  BY DEF CandidateEvent
<1>11. \E m \in 1..Len(FilterOrder) : FilterOrder[m].launchable /\ FilterOrder[m].candidate = plan[1]
  <2>1. before + 1 \in 1..(before + Len(plan))
    BY <1>5
  <2>2. \E m \in 1..Len(FilterOrder) : FilterOrder[m].launchable
                                       /\ FilterOrder[m].candidate = whole[before + 1]
    BY <1>7, <2>1
  <2> QED
    BY <1>5, <2>2, Zenon
<1>12. Logged(ledger, turn, Rounded(elapsed), observations, tokens, compilations, counts,
              "nothing")
  BY <1>1, <1>2, LoggedNow
<1>13. \E j \in AtTurn(ledger, "candidate_set_filtered", turn) :
          \E n \in DOMAIN ledger[j].order : /\ ledger[j].order[n].candidate = sealed.candidate
                                            /\ ledger[j].order[n].launchable
  <2>1. DOMAIN FilterOrder = 1..Len(FilterOrder)
    BY <1>8
  <2> QED
    BY <1>4, <1>10, <1>11, <2>1
<1>14. Logged(ledger \o <<sealed>>, turn, Rounded(elapsed), observations, tokens, compilations,
              counts, "start")
  BY <1>2, <1>3, <1>10, <1>12, <1>13, SealLogged
<1>15. Logged(log, turn, Rounded(elapsed), observations, tokens, compilations, counts, "start")
  BY <1>14, Zenon
<1>16. /\ Grown(ledger, log) /\ IsSequence(log) /\ Len(log) = Len(ledger) + 1
       /\ log[Len(log)] = sealed /\ Adds(ledger, log, {"launchable_candidate_sealed"})
  <2>1. LET next == ledger \o <<sealed>>
        IN /\ Grown(ledger, next) /\ IsSequence(next) /\ Len(next) = Len(ledger) + 1
           /\ next[Len(ledger) + 1] = sealed /\ Adds(ledger, next, {sealed.kind})
    BY <1>2, GrowsOne
  <2> QED
    BY <1>10, <2>1
<1>17. /\ Grown(log, longer) /\ IsSequence(longer) /\ Len(longer) = Len(log) + 1
       /\ longer[Len(longer)] = event /\ Adds(log, longer, {"evaluation_attempt_started"})
  <2>1. LET next == log \o <<event>>
        IN /\ Grown(log, next) /\ IsSequence(next) /\ Len(next) = Len(log) + 1
           /\ next[Len(log) + 1] = event /\ Adds(log, next, {event.kind})
    BY <1>16, GrowsOne
  <2> QED
    BY <2>1 DEF StartOf
<1>18. /\ Grown(ledger, longer) /\ Len(longer) = Len(ledger) + 2 /\ Len(log) \in Nat
       /\ Adds(ledger, longer, {"launchable_candidate_sealed", "evaluation_attempt_started"})
       /\ longer[Len(ledger) + 1] = sealed
  <2>1. Len(log) \in Nat
    BY <1>2, <1>16
  <2>2. Grown(ledger, longer)
    BY <1>16, <1>17, GrownMore
  <2>3. Adds(ledger, longer, {"launchable_candidate_sealed"} \cup {"evaluation_attempt_started"})
    BY <1>16, <1>17, AddsMore
  <2>4. {"launchable_candidate_sealed"} \cup {"evaluation_attempt_started"}
           = {"launchable_candidate_sealed", "evaluation_attempt_started"}
    OBVIOUS
  <2>5. Adds(ledger, longer, {"launchable_candidate_sealed", "evaluation_attempt_started"})
    BY <2>3, <2>4, Zenon
  <2>6. Len(ledger) + 1 \in 1..Len(log)
    BY <1>2, <1>16
  <2>7. longer[Len(ledger) + 1] = log[Len(ledger) + 1]
    BY <1>17, <2>6 DEF Grown
  <2> QED
    BY <1>2, <1>16, <1>17, <2>1, <2>2, <2>5, <2>7
<1>20. /\ event.turn = turn /\ event.purpose = "search" /\ event.candidate = plan[1]
       /\ event.kind = "evaluation_attempt_started" /\ event.origin = "turn"
       /\ EvaluationKey(event) = <<turn, "search", plan[1]>>
  BY <1>3 DEF StartOf, Origin
<1>19. Starting(ledger, longer)
  <2>1. \A i \in 1..Len(longer) : i > Len(ledger) /\ i # Len(longer) =>
           longer[i].kind # "evaluation_attempt_started"
    BY <1>2, <1>10, <1>18, SMTT(30)
  <2>2. Len(longer) > Len(ledger)
    BY <1>2, <1>18
  <2> QED
    BY <1>17, <1>18, <1>20, <2>1, <2>2 DEF Starting
<1>21. Len(longer) \in Nat /\ Len(longer) \in 1..Len(longer) /\ Len(longer) > Len(ledger)
  BY <1>2, <1>18
<1>22. Placed(longer, Len(longer))
  <2>1. \E j \in SealedAt(longer, turn, plan[1]) : j < Len(longer)
    <3>1. Len(ledger) + 1 \in DOMAIN longer /\ Len(ledger) + 1 < Len(longer)
      BY <1>2, <1>18 DEF Grown, IsLog
    <3> QED
      BY <1>10, <1>18, <3>1 DEF SealedAt, AtTurn, At
  <2>2. At(longer, "search_completed") = {}
    <3>1. At(ledger, "search_completed") = {}
      BY <1>2, <1>3 DEF Closed
    <3> DEFINE kinds == {"launchable_candidate_sealed", "evaluation_attempt_started"}
    <3>2. "search_completed" \notin kinds /\ Adds(ledger, longer, kinds)
      BY <1>18
    <3> HIDE DEF kinds
    <3> QED
      BY <3>1, <3>2, AtSame
  <2>3. StartedBefore(longer, Len(longer), turn, "search") = before
    <3>1. StartedBefore(longer, Len(longer), turn, "search")
             = Cardinality(StartsAt(ledger, "search", turn))
      BY ONLY <1>19, <1>20, StartedBeforeLast
    <3> QED
      BY <1>9, <3>1
  <2>4. f \in AtTurn(longer, "candidate_set_filtered", turn) /\ longer[f] = ledger[f]
    BY <1>4, <1>18, AtTurnMore
  <2>5. /\ f < Len(longer) /\ SearchPlan(longer[f].order) = whole
    BY <1>2, <1>4, <1>18, <2>4 DEF whole
  <2>6. before < Len(whole)
    BY <1>5
  <2>7. SearchPlaced(longer, Len(longer))
    <3>1. longer[Len(longer)].turn = turn /\ longer[Len(longer)].candidate = plan[1]
      BY <1>17, <1>20
    <3>2. whole[before + 1] = plan[1]
      BY <1>5
    <3> QED
      BY ONLY <2>3, <2>4, <2>5, <2>6, <3>1, <3>2 DEF SearchPlaced
  <2> QED
    BY <1>17, <1>20, <2>1, <2>2, <2>7 DEF Placed, Purposes
<1>23. \A i \in At(log, "evaluation_attempt_started") :
          EvaluationKey(log[i]) # EvaluationKey(event)
  <2>1. /\ At(log, "evaluation_attempt_started") = At(ledger, "evaluation_attempt_started")
        /\ \A i \in At(ledger, "evaluation_attempt_started") : log[i] = ledger[i]
    <3> DEFINE kinds == {"launchable_candidate_sealed"}
    <3>1. "evaluation_attempt_started" \notin kinds /\ Adds(ledger, log, kinds)
      BY <1>16
    <3> HIDE DEF kinds
    <3> QED
      BY <3>1, AtSame
  <2>2. ASSUME NEW i \in At(ledger, "evaluation_attempt_started"),
               EvaluationKey(ledger[i]) = <<turn, "search", plan[1]>>
        PROVE  FALSE
    <3>1. ledger[i].turn = turn /\ ledger[i].purpose = "search" /\ ledger[i].candidate = plan[1]
      BY <2>2 DEF EvaluationKey
    <3>2. i \in StartsAt(ledger, "search", turn)
      BY <3>1 DEF StartsAt, Starts
    <3>3. PICK n \in 1..before : ledger[i].candidate = whole[n]
      BY <1>9, <3>2
    <3>4. whole[n] = whole[before + 1] /\ n \in 1..(before + Len(plan))
          /\ before + 1 \in 1..(before + Len(plan))
      BY <1>5, <3>1, <3>3
    <3>5. n = before + 1
      BY <1>6, <3>4
    <3> QED
      BY <1>5, <3>5
  <2> QED
    BY <1>20, <2>1, <2>2
<1>24. Logged(log \o <<event>>, turn, Rounded(elapsed), observations, tokens, compilations,
              [counts EXCEPT ![event.purpose] = @ + 1], "answer")
  <2>1. Placed(log \o <<event>>, Len(log) + 1)
    BY <1>17, <1>22
  <2>2. EvaluationKey(event) = <<log[Len(log)].turn, "search", log[Len(log)].candidate>>
    BY <1>10, <1>16, <1>20
  <2>3. event.purpose \in Purposes
    BY <1>20 DEF Purposes
  <2> QED
    BY <1>2, <1>3, <1>15, <1>20, <1>23, <2>1, <2>2, <2>3, StartLogged
<1> QED
  BY <1>2, <1>10, <1>17, <1>18, <1>20, <1>24

LEMMA StartSearchStands == IInv /\ JInv /\ KInv /\ StartSearch => KInv'
<1> SUFFICES ASSUME IInv, JInv, KInv, StartSearch PROVE KInv'
  OBVIOUS
<1> DEFINE event == EvaluationEvent("evaluation_attempt_started", Invocation("search", plan[1]))
           sealed == CandidateEvent("launchable_candidate_sealed", plan[1])
<1>1. pc = "search" /\ plan # << >> /\ Begin(SealLaunchable, "search", plan[1])
  BY DEF StartSearch
<1>2. "search" \in NextPurpose
  BY <1>1 DEF NextPurpose
<1>3. /\ ledger' = ledger \o Append(SealLaunchable, event)
      /\ StartOf(event, "search", plan[1])
      /\ counts' = [counts EXCEPT !["search"] = @ + 1] /\ stage' = "evaluation"
      /\ active' = {Invocation("search", plan[1])} /\ pc' = "evaluate"
      /\ UNCHANGED <<turn, tokens, resultVars, outcomeVars, clockVars, compilations,
                     closedAt, turnVars>>
  <2>1. Affordable("search")
    BY <1>2, InvariantReserves DEF TurnReservation
  <2> QED
    BY <1>1, <2>1 DEF Begin, StartOf, EvaluationEvent, Invocation, EvaluationKey
<1>4. InSearch /\ pc # "sealed" /\ pc # "seal" /\ pc # "evaluate"
  BY <1>1 DEF InSearch
<1>5. /\ InOrder /\ Measured /\ IsSequence(ledger) /\ Len(ledger) \in Nat
      /\ counts \in [Purposes -> Nat] /\ source = 0
  BY <1>4, KFacts, FilterInForce
<1> HIDE DEF event, sealed
<1>6. ledger' = (ledger \o <<sealed>>) \o <<event>>
  <2>1. SealLaunchable = <<sealed>>
    BY DEF SealLaunchable, sealed
  <2>2. ledger' = ledger \o Append(<<sealed>>, event)
    BY <1>3, <2>1, Zenon
  <2>3. ledger \o Append(<<sealed>>, event) = (ledger \o <<sealed>>) \o <<event>>
    <3>1. PICK log, first, second : log = ledger /\ first = sealed /\ second = event
      OBVIOUS
    <3>2. IsSequence(log)
      BY <1>5, <3>1
    <3>3. log \o Append(<<first>>, second) = (log \o <<first>>) \o <<second>>
      BY ONLY <3>2, AppendedIsConcat
    <3> QED
      BY <3>1, <3>3, Zenon
  <2> QED
    BY <2>2, <2>3, Zenon
<1>7. /\ Logged(ledger', turn, Rounded(elapsed), observations, tokens, compilations,
                [counts EXCEPT !["search"] = @ + 1], "answer")
      /\ Adds(ledger, ledger', {"launchable_candidate_sealed", "evaluation_attempt_started"})
      /\ Len(ledger') = Len(ledger) + 2 /\ ledger'[Len(ledger')] = event
      /\ ledger'[Len(ledger) + 1].kind = "launchable_candidate_sealed"
  <2> DEFINE log == ledger \o <<sealed>>
             longer == log \o <<event>>
  <2>1. longer = ledger'
    BY <1>6
  <2>2. sealed = CandidateEvent("launchable_candidate_sealed", plan[1])
    BY DEF sealed
  <2> HIDE DEF longer
  <2>3. longer = log \o <<event>>
    BY DEF longer
  <2>4. log = ledger \o <<sealed>>
    OBVIOUS
  <2> HIDE DEF log
  <2>5. /\ Logged(longer, turn, Rounded(elapsed), observations, tokens, compilations,
                     [counts EXCEPT !["search"] = @ + 1], "answer")
        /\ Adds(ledger, longer, {"launchable_candidate_sealed", "evaluation_attempt_started"})
        /\ Len(longer) = Len(ledger) + 2 /\ longer[Len(longer)] = event
        /\ longer[Len(ledger) + 1].kind = "launchable_candidate_sealed"
    BY <1>1, <1>3, <2>2, <2>3, <2>4, StartSearchLogged
  <2> QED
    BY <2>1, <2>5, Zenon
<1>8. /\ elapsed' = elapsed /\ turn' = turn /\ tokens' = tokens /\ compilations' = compilations
      /\ observations' = observations /\ source' = source
      /\ built' = built /\ resolved' = resolved /\ plan' = plan /\ searched' = searched
  BY <1>3 DEF clockVars, resultVars, turnVars
<1>9. InOrder'
  <2>1. counts' = [counts EXCEPT !["search"] = @ + 1]
    BY <1>3
  <2> QED
    BY <1>3, <1>7, <1>8, <2>1 DEF InOrder
<1>10. /\ Rows(ledger', turn) = FilterOrder /\ FilterOrder' = FilterOrder
       /\ TurnSearches(ledger', turn) = searched
       /\ AttributedAt(ledger', turn) = AttributedAt(ledger, turn)
  BY <1>1, <1>3, <1>5, <1>7, <1>8, MeasuredKept
<1>11. /\ event.purpose = "search" /\ event.candidate = plan[1] /\ event.turn = turn
       /\ event.kind = "evaluation_attempt_started"
  BY <1>3, <1>5 DEF StartOf, Origin
<1>12. Starting(ledger, ledger')
  <2>1. \A i \in 1..Len(ledger') : i > Len(ledger) /\ i # Len(ledger') =>
           ledger'[i].kind # "evaluation_attempt_started"
    BY <1>5, <1>7
  <2>2. Grown(ledger, ledger') /\ Len(ledger') > Len(ledger)
    BY <1>5, <1>7 DEF Adds
  <2> QED
    BY <1>7, <1>11, <2>1, <2>2 DEF Starting
<1>14. /\ StartsAt(ledger', "search", turn) = StartsAt(ledger, "search", turn) \cup {Len(ledger')}
       /\ \A i \in StartsAt(ledger, "search", turn) : ledger'[i] = ledger[i]
       /\ Cardinality(StartsAt(ledger', "search", turn))
             = Cardinality(StartsAt(ledger, "search", turn)) + 1
  <2>1. ledger'[Len(ledger')].purpose = "search" /\ ledger'[Len(ledger')].turn = turn
    BY <1>7, <1>11
  <2> DEFINE longer == ledger'
  <2>4. longer[Len(longer)].purpose = "search" /\ longer[Len(longer)].turn = turn
        /\ Starting(ledger, longer)
    BY <1>12, <2>1
  <2> HIDE DEF longer
  <2>5. /\ StartsAt(longer, "search", turn) = StartsAt(ledger, "search", turn) \cup {Len(longer)}
        /\ Cardinality(StartsAt(longer, "search", turn))
              = Cardinality(StartsAt(ledger, "search", turn)) + 1
    BY <2>4, StartsAtOneMore
  <2>2. /\ StartsAt(ledger', "search", turn) = StartsAt(ledger, "search", turn) \cup {Len(ledger')}
        /\ Cardinality(StartsAt(ledger', "search", turn))
              = Cardinality(StartsAt(ledger, "search", turn)) + 1
    BY <2>5, Zenon DEF longer
  <2>3. \A i \in StartsAt(ledger, "search", turn) : ledger'[i] = ledger[i]
    BY <1>12, <2>1, StartsAtOneMore
  <2> QED
    BY <2>2, <2>3
<1>15. /\ StartsAt(ledger', "attribution", turn) = StartsAt(ledger, "attribution", turn)
       /\ \A i \in StartsAt(ledger, "attribution", turn) : ledger'[i] = ledger[i]
  <2>1. ledger'[Len(ledger')].purpose # "attribution" /\ ledger'[Len(ledger')].turn = turn
    BY <1>7, <1>11
  <2>2. StartsAt(ledger', "attribution", turn) = StartsAt(ledger, "attribution", turn)
    BY <1>12, <2>1, StartsAtAsBefore
  <2>3. \A i \in StartsAt(ledger, "attribution", turn) : ledger'[i] = ledger[i]
    BY <1>12, <2>1, StartsAtAsBefore
  <2> QED
    BY <2>2, <2>3
<1>16. Measured'
  <2> DEFINE whole == SearchPlan(FilterOrder)
             before == Len(searched)
  <2>1. before \in Nat /\ whole[before + 1] = plan[1]
    BY <1>1, <1>4, PlanAhead
  <2>2. InFlight("search") = 0 /\ InFlight("attribution") = 0
    BY <1>4, NoneInFlight
  <2>3. InFlight("search")' = 1 /\ InFlight("attribution")' = 0
    BY <1>3 DEF InFlight, Invocation
  <2>4. /\ Cardinality(StartsAt(ledger, "search", turn)) = before
        /\ \A i \in StartsAt(ledger, "search", turn) :
              \E n \in 1..before : ledger[i].candidate = whole[n]
    <3>1. Cardinality(StartsAt(ledger, "search", turn)) = before + InFlight("search")
      BY <1>4, <1>5, Zenon DEF Measured, StartsAt
    <3>2. \A i \in Starts(ledger, "search") : ledger[i].turn = turn =>
           \E n \in 1..(before + InFlight("search")) : ledger[i].candidate = whole[n]
      BY <1>4, <1>5, Zenon DEF Measured
    <3> HIDE DEF before, whole
    <3> QED
      BY <2>1, <2>2, <3>1, <3>2 DEF StartsAt
  <2>5. /\ Len(built) = Len(resolved) /\ \E n \in 1..Len(built) : built[n].launchable
        /\ whole = CandidatesOf(searched) \o plan
    BY <1>4, <1>5 DEF Measured
  <2>6. \A i \in StartsAt(ledger, "attribution", turn) :
           \E n \in 1..before : ledger[i].candidate = searched[n].candidate
    <3>1. \A i \in Starts(ledger, "attribution") : ledger[i].turn = turn =>
             \E n \in 1..(before - (IF pc = "profile" THEN 1 ELSE 0)) :
                 ledger[i].candidate = searched[n].candidate
      BY <1>4, <1>5, Zenon DEF Measured
    <3> HIDE DEF before
    <3> QED
      BY <1>1, <2>1, <3>1 DEF StartsAt
  <2>7. ProfileEach => AttributedAt(ledger, turn) = CorrectOf(SubSeq(searched, 1, before))
    <3>1. ProfileEach => AttributedAt(ledger, turn) = CorrectOf(SubSeq(searched, 1, before
                            - (IF pc = "profile" THEN 1 ELSE InFlight("attribution"))))
      BY <1>4, <1>5, Zenon DEF Measured, AttributedAt
    <3> HIDE DEF before
    <3>2. before - (IF pc = "profile" THEN 1 ELSE InFlight("attribution")) = before
      BY <1>1, <2>1, <2>2
    <3> QED
      BY <3>1, <3>2, Zenon
  <2>8. Cardinality(StartsAt(ledger', "search", turn)) = before + 1
    BY <1>14, <2>4
  <2>9. \A i \in StartsAt(ledger', "search", turn) :
           \E n \in 1..(before + 1) : ledger'[i].candidate = whole[n]
    <3> HIDE DEF before, whole
    <3>1. ledger'[Len(ledger')].candidate = whole[before + 1] /\ before + 1 \in 1..(before + 1)
      BY <1>7, <1>11, <2>1
    <3>2. \A n \in 1..before : n \in 1..(before + 1)
      BY <2>1
    <3> QED
      BY <1>14, <2>4, <3>1, <3>2
  <2>10. \A i \in StartsAt(ledger', "attribution", turn) :
           \E n \in 1..before : ledger'[i].candidate = searched[n].candidate
    BY <1>15, <2>6
  <2>11. ProfileEach => AttributedAt(ledger', turn) = CorrectOf(SubSeq(searched, 1, before))
    BY <1>10, <2>7, Zenon
  <2> HIDE DEF whole, before
  <2>12. before - (IF pc' = "profile" THEN 1 ELSE 0) = before
         /\ before - (IF pc' = "profile" THEN 1 ELSE InFlight("attribution")') = before
         /\ before + InFlight("search")' = before + 1
    BY <1>3, <2>1, <2>3
  <2>13. Len(searched') = before /\ SearchPlan(FilterOrder') = whole
    BY <1>8, <1>10 DEF before, whole
  <2>14. /\ Len(built') = Len(resolved') /\ \E n \in 1..Len(built') : built'[n].launchable
         /\ SearchPlan(FilterOrder') = CandidatesOf(searched') \o plan'
         /\ Rows(ledger', turn') = FilterOrder' /\ TurnSearches(ledger', turn') = searched'
    BY <1>8, <1>10, <2>5, <2>13
  <2>15. Cardinality(StartsAt(ledger', "search", turn')) = Len(searched') + InFlight("search")'
    BY <1>8, <2>8, <2>12, <2>13
  <2>16. \A i \in StartsAt(ledger', "search", turn') :
            \E n \in 1..(Len(searched') + InFlight("search")') :
               ledger'[i].candidate = SearchPlan(FilterOrder')[n]
    BY <1>8, <2>9, <2>12, <2>13
  <2>17. \A i \in StartsAt(ledger', "attribution", turn') :
            \E n \in 1..(Len(searched') - (IF pc' = "profile" THEN 1 ELSE 0)) :
               ledger'[i].candidate = searched'[n].candidate
    BY <1>8, <2>10, <2>12, <2>13
  <2>18. ProfileEach => AttributedAt(ledger', turn') = CorrectOf(SubSeq(searched', 1,
            Len(searched') - (IF pc' = "profile" THEN 1 ELSE InFlight("attribution")')))
    BY <1>8, <2>11, <2>12, <2>13, Zenon
  <2>19. ~(pc' = "profile" \/ InFlight("attribution")' = 1)
    BY <1>3, <2>3
  <2> QED
    BY <2>14, <2>15, <2>16, <2>17, <2>18, <2>19, Zenon DEF Measured, StartsAt, AttributedAt
<1> QED
  <2> DEFINE kinds == {"launchable_candidate_sealed", "evaluation_attempt_started"}
  <2>1. Adds(ledger, ledger', kinds) /\ kinds \subseteq kinds
    BY <1>7
  <2>2. ledger'[Len(ledger')]
           = EvaluationEvent("evaluation_attempt_started", Invocation("search", plan[1]))
    BY <1>7 DEF event
  <2>3. kinds \subseteq {"launchable_candidate_sealed", "evaluation_attempt_started"}
    OBVIOUS
  <2> HIDE DEF kinds
  <2> QED
    BY <1>1, <1>3, <1>5, <1>9, <1>16, <2>1, <2>2, <2>3, BegunStands

-------------------------------------------------------------------------------
(* A profile starts *)

LEMMA SealedMore ==
    ASSUME NEW log, NEW longer, Grown(log, longer), NEW t, NEW candidate,
           SealedAt(log, t, candidate) # {}
    PROVE  \E j \in SealedAt(longer, t, candidate) : j \in 1..Len(log)
<1>1. PICK j \in SealedAt(log, t, candidate) : TRUE
  OBVIOUS
<1>2. j \in AtTurn(log, "launchable_candidate_sealed", t) /\ log[j].candidate = candidate
  BY DEF SealedAt
<1>3. /\ j \in 1..Len(log) /\ j \in AtTurn(longer, "launchable_candidate_sealed", t)
      /\ longer[j] = log[j]
  BY <1>2, AtTurnMore
<1> QED
  BY <1>2, <1>3 DEF SealedAt

LEMMA ProfileLogged ==
    ASSUME IInv, JInv, KInv, pc = "profile", source = 0, NEW event,
           StartOf(event, "attribution", searched[Len(searched)].candidate),
           NEW longer, longer = ledger \o <<event>>
    PROVE  /\ Logged(longer, turn, Rounded(elapsed), observations, tokens, compilations,
                     [counts EXCEPT !["attribution"] = @ + 1], "answer")
           /\ Adds(ledger, longer, {"evaluation_attempt_started"})
           /\ Starting(ledger, longer) /\ longer[Len(longer)] = event
<1>1. InSearch /\ pc # "sealed" /\ pc # "seal" /\ pc # "evaluate"
  BY DEF InSearch
<1>2. /\ InOrder /\ Measured /\ Closed /\ IsSequence(ledger) /\ Len(ledger) \in Nat
      /\ Len(observations) \in Nat /\ counts \in [Purposes -> Nat]
      /\ Rounded(elapsed) \in Nat /\ IsLog(ledger)
  BY <1>1, KFacts
<1>3. /\ turn = Upcoming /\ source = 0 /\ closedAt = {} /\ turn \in Nat
  BY <1>1, FilterInForce
<1> DEFINE last == Len(searched)
           whole == SearchPlan(FilterOrder)
           candidate == searched[last].candidate
<1>4. last \in Nat /\ last >= 1
  <2>1. searched # << >> /\ searched \in Seq(Searches)
    BY DEF IInv, InPhase, TypeOK
  <2> QED
    BY <2>1
<1>5. /\ \A n \in 1..last : whole[n] = searched[n].candidate
      /\ Len(plan) \in Nat
      /\ \A i, j \in 1..(last + Len(plan)) : whole[i] = whole[j] => i = j
  BY <1>1, PlanAhead
<1>6. Attribution = "each"
  BY DEF IInv, TurnReserved, ProfileEach
<1>7. searched[last].receipt.correct
  BY <1>2, <1>1 DEF Measured
<1>8. \A i \in StartsAt(ledger, "attribution", turn) :
         \E n \in 1..(last - 1) : ledger[i].candidate = searched[n].candidate
  BY <1>1, <1>2 DEF Measured, StartsAt
<1>9. \E i \in Evaluated(ledger, <<turn, "search", candidate>>) :
          /\ i \in At(ledger, "candidate_evaluated") /\ ledger[i].turn = turn
          /\ ledger[i].candidate = candidate /\ ledger[i].receipt.correct
  <2> DEFINE rows == TurnSearches(ledger, turn)
  <2>1. rows = searched
    BY <1>1, <1>2 DEF Measured
  <2>2. last \in 1..Len(rows)
    BY <1>4, <2>1
  <2> HIDE DEF rows, last
  <2>3. \E i \in Evaluated(ledger, <<turn, "search", rows[last].candidate>>) :
              /\ i \in At(ledger, "candidate_evaluated")
              /\ ledger[i].turn = turn
              /\ ledger[i].candidate = rows[last].candidate
              /\ ledger[i].receipt = rows[last].receipt
    BY <1>2, <2>2, SearchIsEvaluated, SMTT(30) DEF rows
  <2> QED
    BY <1>7, <2>1, <2>3
<1> HIDE DEF whole, last, candidate
<1>10. PICK s \in Evaluated(ledger, <<turn, "search", candidate>>) :
          /\ s \in At(ledger, "candidate_evaluated") /\ ledger[s].turn = turn
          /\ ledger[s].candidate = candidate /\ ledger[s].receipt.correct
  BY <1>9
<1>11. /\ event.turn = turn /\ event.purpose = "attribution" /\ event.candidate = candidate
       /\ event.kind = "evaluation_attempt_started" /\ event.origin = "turn"
       /\ EvaluationKey(event) = <<turn, "attribution", candidate>>
  BY <1>3 DEF StartOf, Origin, candidate, last
<1>12. Logged(ledger, turn, Rounded(elapsed), observations, tokens, compilations, counts,
              "nothing")
  BY <1>1, <1>2, LoggedNow
<1>13. /\ Grown(ledger, longer) /\ IsSequence(longer) /\ Len(longer) = Len(ledger) + 1
       /\ longer[Len(longer)] = event /\ Adds(ledger, longer, {"evaluation_attempt_started"})
  <2>1. LET next == ledger \o <<event>>
        IN /\ Grown(ledger, next) /\ IsSequence(next) /\ Len(next) = Len(ledger) + 1
           /\ next[Len(ledger) + 1] = event /\ Adds(ledger, next, {event.kind})
    BY <1>2, GrowsOne
  <2> QED
    BY <1>11, <2>1
<1>14. Len(longer) \in Nat /\ Len(longer) > Len(ledger)
       /\ \A i \in 1..Len(ledger) : i < Len(longer)
  BY <1>2, <1>13
<1>15. Starting(ledger, longer)
  <2>1. \A i \in 1..Len(longer) : i > Len(ledger) => i = Len(longer)
    BY <1>2, <1>13, <1>14
  <2> QED
    BY <1>11, <1>13, <1>14, <2>1 DEF Starting
<1>16. Placed(longer, Len(longer))
  <2>1. \E j \in SealedAt(longer, turn, candidate) : j < Len(longer)
    <3>1. SealedAt(ledger, ledger[s].turn, ledger[s].candidate) # {}
      BY <1>10, <1>12, MeasuredIsSealed
    <3>2. SealedAt(ledger, turn, candidate) # {}
      BY <1>10, <3>1
    <3>3. \E j \in SealedAt(longer, turn, candidate) : j \in 1..Len(ledger)
      BY <1>13, <3>2, SealedMore
    <3> QED
      BY <1>14, <3>3
  <2>2. At(longer, "search_completed") = {}
    <3>1. At(ledger, "search_completed") = {}
      BY <1>2, <1>3 DEF Closed
    <3> DEFINE kinds == {"evaluation_attempt_started"}
    <3>2. "search_completed" \notin kinds /\ Adds(ledger, longer, kinds)
      BY <1>13
    <3> HIDE DEF kinds
    <3> QED
      BY <3>1, <3>2, AtSame
  <2>3. /\ s \in 1..Len(ledger) /\ s \in Evaluated(longer, <<turn, "search", candidate>>)
        /\ longer[s] = ledger[s]
    BY <1>10, <1>13, EvaluatedMore
  <2>4. AttributionPlaced(longer, Len(longer))
    BY <1>6, <1>10, <1>11, <1>13, <1>14, <2>3 DEF AttributionPlaced
  <2> QED
    BY <1>11, <1>13, <2>1, <2>2, <2>4 DEF Placed, Purposes
<1>17. \A i \in At(ledger, "evaluation_attempt_started") :
          EvaluationKey(ledger[i]) # EvaluationKey(event)
  <2>2. ASSUME NEW i \in At(ledger, "evaluation_attempt_started"),
               EvaluationKey(ledger[i]) = <<turn, "attribution", candidate>>
        PROVE  FALSE
    <3>1. ledger[i].turn = turn /\ ledger[i].purpose = "attribution"
          /\ ledger[i].candidate = candidate
      BY <2>2 DEF EvaluationKey
    <3>2. i \in StartsAt(ledger, "attribution", turn)
      BY <3>1 DEF StartsAt, Starts
    <3>3. PICK n \in 1..(last - 1) : ledger[i].candidate = searched[n].candidate
      BY <1>8, <3>2
    <3>4. n \in 1..(last + Len(plan)) /\ last \in 1..(last + Len(plan))
          /\ n \in 1..last /\ last \in 1..last
      BY <1>4, <1>5, <3>3
    <3>5. whole[n] = whole[last]
      BY <1>5, <3>1, <3>3, <3>4 DEF candidate
    <3>6. n = last
      BY <1>5, <3>4, <3>5
    <3> QED
      BY <1>4, <3>3, <3>6
  <2> QED
    BY <1>11, <2>2
<1>18. Len(ledger) \notin At(ledger, "launchable_candidate_sealed")
  BY <1>12 DEF Logged, Sealed
<1>19. Logged(ledger \o <<event>>, turn, Rounded(elapsed), observations, tokens, compilations,
              [counts EXCEPT ![event.purpose] = @ + 1], "answer")
  <2>1. Placed(ledger \o <<event>>, Len(ledger) + 1)
    BY <1>13, <1>16
  <2>3. event.purpose \in Purposes
    BY <1>11 DEF Purposes
  <2> QED
    BY <1>2, <1>3, <1>11, <1>12, <1>17, <1>18, <2>1, <2>3, StartLogged
<1> QED
  BY <1>11, <1>13, <1>15, <1>19

LEMMA StartProfileStands ==
    IInv /\ JInv /\ KInv /\ StartAttribution /\ source = 0 => KInv'
<1> SUFFICES ASSUME IInv, JInv, KInv, StartAttribution, source = 0 PROVE KInv'
  OBVIOUS
<1> DEFINE candidate == searched[Len(searched)].candidate
           event == EvaluationEvent("evaluation_attempt_started",
                                    Invocation("attribution", candidate))
<1>1. pc = "profile" /\ Begin(<< >>, "attribution", candidate)
  BY DEF StartAttribution, Profiled
<1>2. Affordable("attribution")
  BY <1>1, InvariantReserves DEF TurnReservation, NextPurpose
<1>3. /\ ledger' = ledger \o Append(<< >>, event)
      /\ StartOf(event, "attribution", candidate)
      /\ counts' = [counts EXCEPT !["attribution"] = @ + 1] /\ stage' = "evaluation"
      /\ active' = {Invocation("attribution", candidate)} /\ pc' = "evaluate"
      /\ UNCHANGED <<turn, tokens, resultVars, outcomeVars, clockVars, compilations,
                     closedAt, turnVars>>
  BY <1>1, <1>2 DEF Begin, StartOf, EvaluationEvent, Invocation, EvaluationKey
<1>4. InSearch /\ pc # "sealed" /\ pc # "seal" /\ pc # "evaluate"
  BY <1>1 DEF InSearch
<1>5. /\ InOrder /\ Measured /\ IsSequence(ledger) /\ Len(ledger) \in Nat
      /\ counts \in [Purposes -> Nat]
  BY <1>4, KFacts
<1>6. ledger' = ledger \o <<event>>
  <2>1. Append(<< >>, event) = <<event>>
    OBVIOUS
  <2> QED
    BY <1>3, <2>1
<1>7. /\ Logged(ledger', turn, Rounded(elapsed), observations, tokens, compilations,
                [counts EXCEPT !["attribution"] = @ + 1], "answer")
      /\ Adds(ledger, ledger', {"evaluation_attempt_started"})
      /\ Starting(ledger, ledger') /\ ledger'[Len(ledger')] = event
  <2>1. StartOf(event, "attribution", searched[Len(searched)].candidate)
    BY <1>3
  <2> HIDE DEF event
  <2> DEFINE longer == ledger \o <<event>>
  <2>2. longer = ledger \o <<event>>
    OBVIOUS
  <2>3. ledger' = longer
    BY <1>6
  <2> HIDE DEF longer
  <2>4. /\ Logged(longer, turn, Rounded(elapsed), observations, tokens, compilations,
                  [counts EXCEPT !["attribution"] = @ + 1], "answer")
        /\ Adds(ledger, longer, {"evaluation_attempt_started"})
        /\ Starting(ledger, longer) /\ longer[Len(longer)] = event
    BY <1>1, <2>1, <2>2, ProfileLogged
  <2> QED
    BY <2>3, <2>4, Zenon
<1>8. /\ elapsed' = elapsed /\ turn' = turn /\ tokens' = tokens /\ compilations' = compilations
      /\ observations' = observations /\ source' = source
      /\ built' = built /\ resolved' = resolved /\ plan' = plan /\ searched' = searched
  BY <1>3 DEF clockVars, resultVars, turnVars
<1>9. InOrder'
  <2>1. counts' = [counts EXCEPT !["attribution"] = @ + 1]
    BY <1>3
  <2> QED
    BY <1>3, <1>7, <1>8, <2>1 DEF InOrder
<1>10. /\ Rows(ledger', turn) = FilterOrder /\ FilterOrder' = FilterOrder
       /\ TurnSearches(ledger', turn) = searched
       /\ AttributedAt(ledger', turn) = AttributedAt(ledger, turn)
  <2> DEFINE kinds == {"evaluation_attempt_started"}
  <2>1. Adds(ledger, ledger', kinds)
        /\ kinds \subseteq {"launchable_candidate_sealed", "evaluation_attempt_started"}
    BY <1>7
  <2> HIDE DEF kinds
  <2> QED
    BY <1>1, <1>3, <1>8, <2>1, MeasuredKept
<1>11. /\ event.purpose = "attribution" /\ event.candidate = candidate /\ event.turn = turn
  BY <1>3 DEF StartOf, Origin
<1> HIDE DEF event
<1>12. /\ ledger'[Len(ledger')].purpose = "attribution" /\ ledger'[Len(ledger')].turn = turn
       /\ ledger'[Len(ledger')].purpose # "search" /\ ledger'[Len(ledger')].candidate = candidate
  BY <1>7, <1>11
<1>14. /\ StartsAt(ledger', "attribution", turn)
             = StartsAt(ledger, "attribution", turn) \cup {Len(ledger')}
       /\ \A i \in StartsAt(ledger, "attribution", turn) : ledger'[i] = ledger[i]
  <2> DEFINE longer == ledger'
  <2>1. longer[Len(longer)].purpose = "attribution" /\ longer[Len(longer)].turn = turn
        /\ Starting(ledger, longer)
    BY <1>7, <1>12
  <2> HIDE DEF longer
  <2>2. StartsAt(longer, "attribution", turn)
           = StartsAt(ledger, "attribution", turn) \cup {Len(longer)}
    BY <2>1, StartsAtOneMore
  <2>3. \A i \in StartsAt(ledger, "attribution", turn) : longer[i] = ledger[i]
    BY <2>1, StartsAtOneMore
  <2> QED
    BY <2>2, <2>3, Zenon DEF longer
<1>15. /\ StartsAt(ledger', "search", turn) = StartsAt(ledger, "search", turn)
       /\ \A i \in StartsAt(ledger, "search", turn) : ledger'[i] = ledger[i]
  <2> DEFINE longer == ledger'
  <2>1. longer[Len(longer)].purpose # "search" /\ longer[Len(longer)].turn = turn
        /\ Starting(ledger, longer)
    BY <1>7, <1>12
  <2> HIDE DEF longer
  <2>2. StartsAt(longer, "search", turn) = StartsAt(ledger, "search", turn)
    BY <2>1, StartsAtAsBefore
  <2>3. \A i \in StartsAt(ledger, "search", turn) : longer[i] = ledger[i]
    BY <2>1, StartsAtAsBefore
  <2> QED
    BY <2>2, <2>3, Zenon DEF longer
<1>16. Measured'
  <2> DEFINE whole == SearchPlan(FilterOrder)
             last == Len(searched)
  <2>1. last \in Nat /\ last >= 1
    <3>1. searched # << >> /\ searched \in Seq(Searches)
      BY <1>1 DEF IInv, InPhase, TypeOK
    <3> QED
      BY <3>1
  <2>2. InFlight("search") = 0 /\ InFlight("attribution") = 0
    BY <1>4, NoneInFlight
  <2>3. InFlight("search")' = 0 /\ InFlight("attribution")' = 1
    BY <1>3 DEF InFlight, Invocation
  <2>4. /\ Cardinality(StartsAt(ledger, "search", turn)) = last
        /\ \A i \in StartsAt(ledger, "search", turn) :
              \E n \in 1..last : ledger[i].candidate = whole[n]
    <3>1. Cardinality(StartsAt(ledger, "search", turn)) = last + InFlight("search")
      BY <1>4, <1>5, Zenon DEF Measured, StartsAt
    <3>2. \A i \in Starts(ledger, "search") : ledger[i].turn = turn =>
           \E n \in 1..(last + InFlight("search")) : ledger[i].candidate = whole[n]
      BY <1>4, <1>5, Zenon DEF Measured
    <3> HIDE DEF last, whole
    <3> QED
      BY <2>1, <2>2, <3>1, <3>2 DEF StartsAt
  <2>5. /\ Len(built) = Len(resolved) /\ \E n \in 1..Len(built) : built[n].launchable
        /\ whole = CandidatesOf(searched) \o plan
    BY <1>4, <1>5 DEF Measured
  <2>6. \A i \in StartsAt(ledger, "attribution", turn) :
           \E n \in 1..(last - 1) : ledger[i].candidate = searched[n].candidate
    BY <1>1, <1>4, <1>5 DEF Measured, StartsAt
  <2>7. ProfileEach => AttributedAt(ledger, turn) = CorrectOf(SubSeq(searched, 1, last - 1))
    <3>1. ProfileEach => AttributedAt(ledger, turn) = CorrectOf(SubSeq(searched, 1, last
                            - (IF pc = "profile" THEN 1 ELSE InFlight("attribution"))))
      BY <1>4, <1>5, Zenon DEF Measured, AttributedAt
    <3>2. (IF pc = "profile" THEN 1 ELSE InFlight("attribution")) = 1
      BY <1>1
    <3> QED
      BY <3>1, <3>2, Zenon
  <2>8. Cardinality(StartsAt(ledger', "search", turn)) = last
    BY <1>15, <2>4, Zenon
  <2>9. \A i \in StartsAt(ledger', "search", turn) :
           \E n \in 1..last : ledger'[i].candidate = whole[n]
    BY <1>15, <2>4
  <2>10. \A i \in StartsAt(ledger', "attribution", turn) :
           \E n \in 1..last : ledger'[i].candidate = searched[n].candidate
    <3> HIDE DEF last
    <3>1. \A n \in 1..(last - 1) : n \in 1..last
      BY <2>1
    <3>2. last \in 1..last /\ ledger'[Len(ledger')].candidate = searched[last].candidate
      BY <1>12, <2>1 DEF last
    <3> QED
      BY <1>14, <2>6, <3>1, <3>2
  <2>11. ProfileEach => AttributedAt(ledger', turn) = CorrectOf(SubSeq(searched, 1, last - 1))
    BY <1>10, <2>7, Zenon
  <2>20. searched[last].receipt.correct
    BY <1>1, <1>4, <1>5 DEF Measured
  <2> HIDE DEF whole, last
  <2>12. /\ last - (IF pc' = "profile" THEN 1 ELSE 0) = last
         /\ (IF pc' = "profile" THEN 1 ELSE InFlight("attribution")') = 1
         /\ last + InFlight("search")' = last
    BY <1>3, <2>1, <2>3
  <2>13. Len(searched') = last /\ SearchPlan(FilterOrder') = whole
    BY <1>8, <1>10 DEF last, whole
  <2>14. /\ Len(built') = Len(resolved') /\ \E n \in 1..Len(built') : built'[n].launchable
         /\ SearchPlan(FilterOrder') = CandidatesOf(searched') \o plan'
         /\ Rows(ledger', turn') = FilterOrder' /\ TurnSearches(ledger', turn') = searched'
    BY <1>8, <1>10, <2>5, <2>13
  <2>15. Cardinality(StartsAt(ledger', "search", turn')) = Len(searched') + InFlight("search")'
    BY <1>8, <2>8, <2>12, <2>13
  <2>16. \A i \in StartsAt(ledger', "search", turn') :
            \E n \in 1..(Len(searched') + InFlight("search")') :
               ledger'[i].candidate = SearchPlan(FilterOrder')[n]
    BY <1>8, <2>9, <2>12, <2>13
  <2>17. \A i \in StartsAt(ledger', "attribution", turn') :
            \E n \in 1..(Len(searched') - (IF pc' = "profile" THEN 1 ELSE 0)) :
               ledger'[i].candidate = searched'[n].candidate
    BY <1>8, <2>10, <2>12, <2>13
  <2>18. ProfileEach => AttributedAt(ledger', turn') = CorrectOf(SubSeq(searched', 1,
            Len(searched') - (IF pc' = "profile" THEN 1 ELSE InFlight("attribution")')))
    BY <1>8, <2>11, <2>12, <2>13, Zenon
  <2>19. searched'[Len(searched')].receipt.correct
    BY <1>8, <2>13, <2>20
  <2> QED
    BY <2>14, <2>15, <2>16, <2>17, <2>18, <2>19, Zenon DEF Measured, StartsAt, AttributedAt
<1> QED
  <2> DEFINE kinds == {"evaluation_attempt_started"}
  <2>1. /\ Adds(ledger, ledger', kinds)
        /\ kinds \subseteq {"launchable_candidate_sealed", "evaluation_attempt_started"}
    BY <1>7
  <2>2. ledger'[Len(ledger')]
           = EvaluationEvent("evaluation_attempt_started", Invocation("attribution", candidate))
    BY <1>7 DEF event
  <2>3. searched # << >> /\ candidate = searched[Len(searched)].candidate
    BY <1>1 DEF IInv, InPhase
  <2> HIDE DEF kinds, candidate
  <2> QED
    BY <1>1, <1>3, <1>9, <1>16, <2>1, <2>2, <2>3, BegunStands

-------------------------------------------------------------------------------
(* The nominee's measurements start *)

LEMMA NoneCounted ==
    ASSUME NEW log, IsLog(log), NEW used, Tallied(log, used), NEW purpose \in Purposes,
           used[purpose] = 0
    PROVE  Starts(log, purpose) = {}
<1>1. Cardinality(Starts(log, purpose)) = 0
  BY DEF Tallied
<1>2. IsFiniteSet(Starts(log, purpose))
  BY StartsAreFinite
<1> QED
  BY <1>1, <1>2, FS_EmptySet

(* What the ledger holds of the nominee, once search closed. *)
LEMMA NomineeInLedger ==
    ASSUME IInv, JInv, KInv, pc # "sealed", source # 0, NEW candidate,
           candidate = observations[source].candidate
    PROVE  /\ source \in 1..Len(observations) /\ Len(observations) \in Nat
           /\ \E i \in Evaluated(ledger, <<source, "search", candidate>>) : TRUE
           /\ SealedAt(ledger, source, candidate) # {}
           /\ \E k \in AtTurn(ledger, "candidate_selected", source) :
                 /\ ledger[k].candidate = candidate
                 /\ \E n \in DOMAIN ledger[k].qualified : ledger[k].qualified[n] = candidate
           /\ \E j \in At(ledger, "candidate_nominated") :
                 ledger[j].turn = source /\ ledger[j].candidate = candidate
<1>1. /\ InOrder /\ Closed /\ closedAt # {} /\ source \in 1..Len(observations)
      /\ IsLog(ledger) /\ Len(observations) \in Nat
  BY KFacts
<1> DEFINE seen == observations[source]
<1>2. seen.qualified
  <2>1. seen \in Nominee(observations)
    BY DEF JInv, Nominated
  <2> QED
    BY <2>1 DEF Nominee, Fastest
<1>3. Logged(ledger, turn, Rounded(elapsed), observations, tokens, compilations, counts,
             IF pc = "evaluate" THEN "answer" ELSE "nothing")
  BY <1>1, LoggedNow
<1> HIDE DEF seen
<1>4. Settled(ledger, source, seen)
  BY <1>1, <1>3 DEF Logged, Done, seen
<1>5. candidate = seen.candidate
  BY DEF seen
<1>6. PICK i \in SearchesAt(ledger, source) : ledger[i].candidate = candidate
  BY <1>2, <1>4, <1>5 DEF Settled, Observed
<1>7. /\ i \in At(ledger, "candidate_evaluated") /\ ledger[i].turn = source
      /\ ledger[i].purpose = "search"
  BY DEF SearchesAt, AtTurn
<1>8. i \in Evaluated(ledger, <<source, "search", candidate>>)
  BY <1>6, <1>7 DEF Evaluated, EvaluationKey
<1>9. SealedAt(ledger, source, candidate) # {}
  <2>1. SealedAt(ledger, ledger[i].turn, ledger[i].candidate) # {}
    BY <1>3, <1>7, MeasuredIsSealed
  <2> QED
    BY <1>6, <1>7, <2>1
<1>10. \E k \in DOMAIN ledger : AtTurn(ledger, "candidate_selected", source) = {k}
  <2>1. Numbered(ledger, "candidate_selected", Len(observations))
    BY <1>3 DEF Logged, Counted
  <2> QED
    BY <1>1, <2>1 DEF Numbered
<1>11. PICK k \in DOMAIN ledger : AtTurn(ledger, "candidate_selected", source) = {k}
  BY <1>10
<1>12. Selection(ledger, source) = ledger[k]
  <2>1. (CHOOSE x \in {k} : TRUE) = k
    OBVIOUS
  <2> QED
    BY <1>11, <2>1, Zenon DEF Selection, The
<1>13. /\ ledger[k].candidate = candidate
       /\ \E n \in DOMAIN ledger[k].qualified : ledger[k].qualified[n] = candidate
  BY <1>2, <1>4, <1>5, <1>12 DEF Settled, Observed
<1>14. \E j \in At(ledger, "candidate_nominated") :
          ledger[j].turn = source /\ ledger[j].candidate = candidate
  <2>1. PICK m \in DOMAIN ledger :
           /\ At(ledger, "candidate_nominated") = {m + 1}
           /\ ledger[m + 1].turn = source
           /\ ledger[m + 1].candidate = IF source = 0 THEN NoCandidate
                                        ELSE observations[source].candidate
    BY <1>1 DEF Closed
  <2> QED
    BY <2>1
<1> QED
  BY <1>1, <1>8, <1>9, <1>11, <1>13, <1>14

LEMMA NomineeLogged ==
    ASSUME IInv, JInv, KInv, pc \in {"profile", "confirm"}, source # 0,
           NEW purpose \in {"confirmatory", "attribution"}, counts[purpose] = 0,
           NEW candidate, candidate = observations[source].candidate,
           NEW event, StartOf(event, purpose, candidate),
           NEW longer, longer = ledger \o <<event>>,
           purpose = "confirmatory" => ConfirmatoryPlaced(longer, Len(longer)),
           purpose = "attribution" => AttributionPlaced(longer, Len(longer))
    PROVE  /\ Logged(longer, turn, Rounded(elapsed), observations, tokens, compilations,
                     [counts EXCEPT ![purpose] = @ + 1], "answer")
           /\ Adds(ledger, longer, {"evaluation_attempt_started"})
           /\ longer[Len(longer)] = event
<1>1. pc # "sealed" /\ pc # "seal" /\ pc # "evaluate"
  OBVIOUS
<1>2. /\ InOrder /\ IsSequence(ledger) /\ Len(ledger) \in Nat
      /\ Len(observations) \in Nat /\ counts \in [Purposes -> Nat]
      /\ Rounded(elapsed) \in Nat /\ IsLog(ledger) /\ turn \in Nat
  BY <1>1, KFacts
<1>3. Logged(ledger, turn, Rounded(elapsed), observations, tokens, compilations, counts,
              "nothing")
  BY <1>1, <1>2, LoggedNow
<1>4. /\ event.turn = source /\ event.purpose = purpose /\ event.candidate = candidate
      /\ event.kind = "evaluation_attempt_started" /\ event.origin = "source_turn"
      /\ EvaluationKey(event) = <<source, purpose, candidate>>
  BY DEF StartOf, Origin
<1>5. /\ Grown(ledger, longer) /\ IsSequence(longer) /\ Len(longer) = Len(ledger) + 1
      /\ longer[Len(longer)] = event /\ Adds(ledger, longer, {"evaluation_attempt_started"})
  <2>1. LET next == ledger \o <<event>>
        IN /\ Grown(ledger, next) /\ IsSequence(next) /\ Len(next) = Len(ledger) + 1
           /\ next[Len(ledger) + 1] = event /\ Adds(ledger, next, {event.kind})
    BY <1>2, GrowsOne
  <2> QED
    BY <1>4, <2>1
<1>6. \A i \in 1..Len(ledger) : i < Len(longer)
  BY <1>2, <1>5
<1>7. Placed(longer, Len(longer))
  <2>1. \E j \in SealedAt(longer, source, candidate) : j < Len(longer)
    <3>1. SealedAt(ledger, source, candidate) # {}
      BY <1>1, NomineeInLedger
    <3>2. \E j \in SealedAt(longer, source, candidate) : j \in 1..Len(ledger)
      BY <1>5, <3>1, SealedMore
    <3> QED
      BY <1>6, <3>2
  <2>2. \E j \in At(longer, "candidate_nominated") :
           j < Len(longer) /\ longer[j].turn = source /\ longer[j].candidate = candidate
    <3>1. \E j \in At(ledger, "candidate_nominated") :
             ledger[j].turn = source /\ ledger[j].candidate = candidate
      BY <1>1, NomineeInLedger
    <3>2. \A j \in At(ledger, "candidate_nominated") :
             j \in 1..Len(ledger) /\ j \in At(longer, "candidate_nominated")
             /\ longer[j] = ledger[j]
      BY <1>5, AtMore
    <3> QED
      BY <1>6, <3>1, <3>2
  <2> QED
    BY <1>4, <1>5, <2>1, <2>2 DEF Placed, Purposes
<1>8. \A i \in At(ledger, "evaluation_attempt_started") :
          EvaluationKey(ledger[i]) # EvaluationKey(event)
  <2>1. Starts(ledger, purpose) = {}
    BY <1>2, <1>3, NoneCounted DEF Logged, Purposes
  <2>2. ASSUME NEW i \in At(ledger, "evaluation_attempt_started"),
               EvaluationKey(ledger[i]) = <<source, purpose, candidate>>
        PROVE  FALSE
    BY <2>1, <2>2 DEF EvaluationKey, Starts
  <2> QED
    BY <1>4, <2>2
<1>9. Len(ledger) \notin At(ledger, "launchable_candidate_sealed")
  BY <1>3 DEF Logged, Sealed
<1>10. Logged(ledger \o <<event>>, turn, Rounded(elapsed), observations, tokens, compilations,
              [counts EXCEPT ![event.purpose] = @ + 1], "answer")
  <2>1. Placed(ledger \o <<event>>, Len(ledger) + 1)
    BY <1>5, <1>7
  <2>2. event.purpose \in Purposes
    BY <1>4 DEF Purposes
  <2>3. ~TurnBearing(event)
    BY <1>4 DEF TurnBearing
  <2> QED
    BY <1>2, <1>3, <1>4, <1>8, <1>9, <2>1, <2>2, <2>3, StartLogged
<1> QED
  BY <1>4, <1>5, <1>10

(* What a start after the nomination leaves standing. *)
LEMMA NomineeBegunStands ==
    ASSUME IInv, JInv, KInv, source # 0, pc \in {"profile", "confirm"}, pc' = "evaluate",
           NEW purpose \in {"confirmatory", "attribution"}, NEW candidate,
           candidate = observations[source].candidate,
           purpose = "attribution" => pc = "profile",
           active' = {Invocation(purpose, candidate)}, stage' = "evaluation",
           UNCHANGED <<turn, tokens, resultVars, outcomeVars, clockVars, compilations,
                       closedAt, turnVars>>,
           NEW kinds, Adds(ledger, ledger', kinds), kinds = {"evaluation_attempt_started"},
           ledger'[Len(ledger')]
              = EvaluationEvent("evaluation_attempt_started", Invocation(purpose, candidate)),
           InOrder'
    PROVE  KInv'
<1>1. /\ elapsed' = elapsed /\ authoring' = authoring
      /\ compilations' = compilations /\ closedAt' = closedAt /\ tokens' = tokens
      /\ turn' = turn /\ observations' = observations /\ reason' = reason
      /\ source' = source /\ confirmation' = confirmation /\ adherence' = adherence
  BY DEF clockVars, turnVars, resultVars, outcomeVars
<1>2. /\ ~InSearch /\ ~InSearch' /\ ~Measuring /\ ~Measuring' /\ pc \notin {"seal", "sealed"}
      /\ pc # "evaluate"
  BY <1>1 DEF InSearch, Measuring
<1>3. /\ Standing /\ Closed /\ Faulted /\ Confirmed /\ adherence = "adhered"
      /\ Faults(ledger) = {} /\ Len(ledger) \in Nat
      /\ closedAt # {} /\ source \in 1..Len(observations)
      /\ elapsed \in Nat /\ authoring \in Nat
  BY <1>2, KFacts
<1>4. /\ Has("author_actions_resolved")' <=> Has("author_actions_resolved")
      /\ Has("provider_turn_completed")' <=> Has("provider_turn_completed")
      /\ Has("candidate_set_filtered")' <=> Has("candidate_set_filtered")
      /\ Has("candidate_selected")' <=> Has("candidate_selected")
  <2>1. \A mark \in Marks : mark \notin kinds
    BY DEF Marks
  <2>2. \A mark \in Marks : Has(mark)' <=> Has(mark)
    BY <1>1, <2>1, MarksKept
  <2> QED
    BY <2>2 DEF Marks
<1>5. Standing'
  BY <1>1, <1>2, <1>3, <1>4 DEF Standing
<1>6. observations # << >>
  BY <1>3
<1>7. Unturned' /\ Submitting' /\ Measured'
  BY <1>1, <1>2, <1>6 DEF Unturned, Submitting, Measured
<1>8. Faulted'
  <2>1. Faults(ledger') = {}
    <3>1. "run_fault" \notin kinds
      OBVIOUS
    <3>2. At(ledger', "run_fault") = At(ledger, "run_fault")
      BY <3>1, AtSame
    <3> QED
      BY <1>3, <3>2 DEF Faults
  <2>2. tokens = BeforeTokens
    BY <1>2, <1>3 DEF Faulted
  <2>3. BeforeTokens' = BeforeTokens
    BY <1>1 DEF BeforeTokens
  <2> QED
    BY <1>1, <1>3, <2>1, <2>2, <2>3 DEF Faulted
<1>9. Closed'
  <2>1. kinds \cap (SearchKinds \cup {"search_completed", "candidate_nominated"}) = {}
    BY DEF SearchKinds
  <2> QED
    BY <1>1, <1>3, <2>1, ClosedKept
<1>10. Confirmed'
  <2>1. /\ At(ledger', "candidate_evaluated") = At(ledger, "candidate_evaluated")
        /\ \A i \in At(ledger, "candidate_evaluated") : ledger'[i] = ledger[i]
        /\ ConfirmationsAt(ledger') = ConfirmationsAt(ledger)
    <3>1. "candidate_evaluated" \notin kinds
      OBVIOUS
    <3> QED
      BY <3>1, ConfirmationsSame
  <2>2. ConfirmationsAt(ledger) \subseteq At(ledger, "candidate_evaluated")
    BY DEF ConfirmationsAt
  <2>3. \A i \in ConfirmationsAt(ledger') :
          /\ source' # 0 /\ ledger'[i].turn = source'
          /\ ledger'[i].candidate = observations'[source'].candidate
    BY <1>1, <1>3, <2>1, <2>2 DEF Confirmed
  <2>4. InFlight("attribution")' = 1 =>
          /\ \A c \in confirmation' : c.latency > 0
          /\ \A i \in active' : i.candidate = observations'[source'].candidate
    <3>1. InFlight("attribution")' = 1 => purpose = "attribution"
      BY DEF InFlight, Invocation
    <3>2. pc = "profile" => \A c \in confirmation : c.latency > 0
      BY <1>3 DEF Confirmed
    <3> QED
      BY <1>1, <3>1, <3>2 DEF Invocation
  <2>5. ~ProfileEach => \A i \in At(ledger', "candidate_evaluated") :
          ledger'[i].purpose = "attribution" =>
             /\ Attribution = "selected" /\ source' # 0 /\ ledger'[i].turn = source'
             /\ ledger'[i].candidate = observations'[source'].candidate
             /\ confirmation' # {} /\ \A c \in confirmation' : c.latency > 0
    BY <1>1, <1>3, <2>1 DEF Confirmed
  <2>6. \A c \in confirmation' : c.source = source' /\ c.tokens = tokens'
    BY <1>1, <1>3 DEF Confirmed
  <2> QED
    BY <2>3, <2>4, <2>5, <2>6 DEF Confirmed
<1>11. Launched'
  <2> DEFINE invocation == Invocation(purpose, candidate)
  <2>1. /\ invocation \in active' /\ invocation.origin = Origin.origin
        /\ invocation.turn = Origin.turn
    BY DEF Invocation
  <2>2. Origin' = Origin
    BY <1>1 DEF Origin
  <2> DEFINE shown(i) == EvaluationEvent("evaluation_attempt_started", i)
  <2>3. ledger'[Len(ledger')] = shown(invocation)
    OBVIOUS
  <2>4. invocation.purpose = "attribution" => Attribution = "selected"
    BY DEF Invocation, IInv, ConfirmationReserved
  <2> HIDE DEF invocation
  <2> QED
    BY <1>1, <2>1, <2>2, <2>3, <2>4 DEF Launched, EvaluationEvent
<1> QED
  BY <1>5, <1>7, <1>8, <1>9, <1>10, <1>11 DEF KInv

LEMMA StartConfirmationStands == IInv /\ JInv /\ KInv /\ StartConfirmation => KInv'
<1> SUFFICES ASSUME IInv, JInv, KInv, StartConfirmation PROVE KInv'
  OBVIOUS
<1>1. PICK n \in 1..Len(observations) :
         observations[n].turn = source /\ Begin(<< >>, "confirmatory", observations[n].candidate)
  BY DEF StartConfirmation
<1>2. pc = "confirm" /\ source # 0
  BY DEF StartConfirmation, IInv, InPhase
<1>3. n = source
  BY <1>1 DEF JInv, Turned
<1> DEFINE candidate == observations[source].candidate
           event == EvaluationEvent("evaluation_attempt_started",
                                    Invocation("confirmatory", candidate))
<1>4. Begin(<< >>, "confirmatory", candidate)
  BY <1>1, <1>3
<1>5. Affordable("confirmatory")
  BY <1>2, InvariantReserves DEF TurnReservation, NextPurpose
<1>6. /\ ledger' = ledger \o Append(<< >>, event)
      /\ StartOf(event, "confirmatory", candidate)
      /\ counts' = [counts EXCEPT !["confirmatory"] = @ + 1] /\ stage' = "evaluation"
      /\ active' = {Invocation("confirmatory", candidate)} /\ pc' = "evaluate"
      /\ UNCHANGED <<turn, tokens, resultVars, outcomeVars, clockVars, compilations,
                     closedAt, turnVars>>
  BY <1>4, <1>5 DEF Begin, StartOf, EvaluationEvent, Invocation, EvaluationKey
<1>7. ledger' = ledger \o <<event>>
  <2>1. Append(<< >>, event) = <<event>>
    OBVIOUS
  <2> QED
    BY <1>6, <2>1
<1>8. counts["confirmatory"] = 0
  BY <1>2 DEF IInv, ConfirmationReserved
<1>9. /\ InOrder /\ IsSequence(ledger) /\ Len(ledger) \in Nat /\ IsLog(ledger)
  BY <1>2, KFacts
<1>20. event.turn = source /\ event.candidate = candidate
  BY <1>2, <1>6 DEF StartOf, Origin
<1> HIDE DEF event, candidate
<1>10. PICK i \in Evaluated(ledger, <<source, "search", candidate>>) : TRUE
  BY <1>2, NomineeInLedger DEF candidate
<1>11. PICK k \in AtTurn(ledger, "candidate_selected", source) :
          /\ ledger[k].candidate = candidate
          /\ \E m \in DOMAIN ledger[k].qualified : ledger[k].qualified[m] = candidate
  BY <1>2, NomineeInLedger DEF candidate
<1> DEFINE longer == ledger \o <<event>>
<1>12. /\ Grown(ledger, longer) /\ Len(longer) = Len(ledger) + 1 /\ longer[Len(longer)] = event
  BY <1>9, GrowsOne
<1> HIDE DEF longer
<1>13. ConfirmatoryPlaced(longer, Len(longer))
  <2>1. Starts(ledger, "confirmatory") = {}
    <3>1. Tallied(ledger, counts)
      BY <1>9 DEF InOrder, Logged
    <3> QED
      BY <1>8, <1>9, <3>1, NoneCounted DEF Purposes
  <2>2. \A j \in At(longer, "evaluation_attempt_started") :
          j < Len(longer) => longer[j].purpose # "confirmatory"
    <3>1. ASSUME NEW j \in At(longer, "evaluation_attempt_started"), j < Len(longer)
          PROVE  longer[j].purpose # "confirmatory"
      <4>1. j \in 1..Len(longer)
        BY <1>12 DEF At, Grown, IsLog
      <4>2. j <= Len(ledger)
        BY <1>9, <1>12, <3>1, <4>1
      <4>3. j \in At(ledger, "evaluation_attempt_started")
        BY <1>12, <4>2, AtMore
      <4>4. longer[j] = ledger[j]
        BY <1>12, <4>3, AtMore
      <4> QED
        BY <2>1, <4>3, <4>4 DEF Starts
    <3> QED
      BY <3>1
  <2>3. k < Len(longer) /\ k \in AtTurn(longer, "candidate_selected", source)
        /\ longer[k] = ledger[k]
    <3>1. k \in 1..Len(ledger) /\ k \in AtTurn(longer, "candidate_selected", source)
          /\ longer[k] = ledger[k]
      BY <1>12, AtTurnMore
    <3> QED
      BY <1>9, <1>12, <3>1
  <2>4. CompletedBefore(longer, Len(longer), <<source, "search", candidate>>)
    <3>1. i \in 1..Len(ledger) /\ i \in Evaluated(longer, <<source, "search", candidate>>)
      BY <1>12, EvaluatedMore
    <3> QED
      BY <1>9, <1>12, <3>1 DEF CompletedBefore
  <2> QED
    BY <1>11, <1>12, <1>20, <2>2, <2>3, <2>4 DEF ConfirmatoryPlaced
<1>14. /\ Logged(longer, turn, Rounded(elapsed), observations, tokens, compilations,
                 [counts EXCEPT !["confirmatory"] = @ + 1], "answer")
       /\ Adds(ledger, longer, {"evaluation_attempt_started"})
       /\ longer[Len(longer)] = event
  <2>1. candidate = observations[source].candidate /\ longer = ledger \o <<event>>
    BY DEF candidate, longer
  <2> QED
    BY <1>2, <1>6, <1>8, <1>13, <2>1, NomineeLogged
<1>15. ledger' = longer
  BY <1>7 DEF longer
<1>16. InOrder'
  <2>1. /\ turn' = turn /\ elapsed' = elapsed /\ observations' = observations
        /\ tokens' = tokens /\ compilations' = compilations
    BY <1>6 DEF resultVars, clockVars
  <2> QED
    BY <1>6, <1>14, <1>15, <2>1 DEF InOrder
<1>17. ledger'[Len(ledger')] = EvaluationEvent("evaluation_attempt_started",
                                               Invocation("confirmatory", candidate))
  BY <1>14, <1>15 DEF event
<1>18. Adds(ledger, ledger', {"evaluation_attempt_started"})
  BY <1>14, <1>15
<1>19. candidate = observations[source].candidate
  BY DEF candidate
<1> QED
  BY <1>2, <1>6, <1>16, <1>17, <1>18, <1>19, NomineeBegunStands

LEMMA StartNomineeProfileStands ==
    IInv /\ JInv /\ KInv /\ StartAttribution /\ source # 0 => KInv'
<1> SUFFICES ASSUME IInv, JInv, KInv, StartAttribution, source # 0 PROVE KInv'
  OBVIOUS
<1>1. pc = "profile" /\ Begin(<< >>, "attribution", Profiled)
  BY DEF StartAttribution
<1> DEFINE candidate == observations[source].candidate
           event == EvaluationEvent("evaluation_attempt_started",
                                    Invocation("attribution", candidate))
<1>2. Attribution = "selected" /\ confirmation # {}
  BY <1>1 DEF IInv, ConfirmationReserved
<1>3. PICK c \in confirmation : c = (CHOOSE o \in confirmation : TRUE)
  BY <1>2
<1>4. c.candidate = candidate
  BY DEF JInv, Nominated
<1>21. Profiled = candidate
  BY <1>3, <1>4 DEF Profiled
<1>5. Begin(<< >>, "attribution", candidate)
  BY <1>1, <1>21
<1>6. Affordable("attribution")
  BY <1>1, InvariantReserves DEF TurnReservation, NextPurpose
<1>7. /\ ledger' = ledger \o Append(<< >>, event)
      /\ StartOf(event, "attribution", candidate)
      /\ counts' = [counts EXCEPT !["attribution"] = @ + 1] /\ stage' = "evaluation"
      /\ active' = {Invocation("attribution", candidate)} /\ pc' = "evaluate"
      /\ UNCHANGED <<turn, tokens, resultVars, outcomeVars, clockVars, compilations,
                     closedAt, turnVars>>
  BY <1>5, <1>6 DEF Begin, StartOf, EvaluationEvent, Invocation, EvaluationKey
<1>8. ledger' = ledger \o <<event>>
  <2>1. Append(<< >>, event) = <<event>>
    OBVIOUS
  <2> QED
    BY <1>7, <2>1
<1>9. /\ InOrder /\ Confirmed /\ IsSequence(ledger) /\ Len(ledger) \in Nat /\ IsLog(ledger)
  BY <1>1, KFacts
<1>10. counts["attribution"] = 0
  <2>1. ~ProfileEach
    BY <1>2 DEF ProfileEach
  <2> QED
    BY <1>1, <2>1 DEF IInv, ConfirmationReserved
<1>11. event.turn = source /\ event.candidate = candidate
  BY <1>7 DEF StartOf, Origin
<1> HIDE DEF event, candidate
<1>12. PICK i \in DOMAIN ledger : /\ ConfirmationsAt(ledger) = {i}
                                  /\ ledger[i].candidate = c.candidate
                                  /\ ledger[i].receipt.latency = c.latency
  BY DEF JInv, Recorded
<1>13. /\ i \in Evaluated(ledger, <<source, "confirmatory", candidate>>)
       /\ Qualifies(ledger[i].receipt)
  <2>1. i \in ConfirmationsAt(ledger)
    BY <1>12
  <2>2. ledger[i].turn = source /\ c.latency > 0
    BY <1>1, <1>9, <2>1 DEF Confirmed
  <2> QED
    BY <1>4, <1>12, <2>1, <2>2 DEF Evaluated, ConfirmationsAt, EvaluationKey, Qualifies
<1> DEFINE longer == ledger \o <<event>>
<1>14. /\ Grown(ledger, longer) /\ Len(longer) = Len(ledger) + 1 /\ longer[Len(longer)] = event
  BY <1>9, GrowsOne
<1> HIDE DEF longer
<1>15. AttributionPlaced(longer, Len(longer))
  <2>1. /\ i \in 1..Len(ledger) /\ i \in Evaluated(longer, <<source, "confirmatory", candidate>>)
        /\ longer[i] = ledger[i]
    BY <1>13, <1>14, EvaluatedMore
  <2>2. i < Len(longer)
    BY <1>9, <1>14, <2>1
  <2> QED
    BY <1>2, <1>11, <1>13, <1>14, <2>1, <2>2 DEF AttributionPlaced
<1>16. /\ Logged(longer, turn, Rounded(elapsed), observations, tokens, compilations,
                 [counts EXCEPT !["attribution"] = @ + 1], "answer")
       /\ Adds(ledger, longer, {"evaluation_attempt_started"})
       /\ longer[Len(longer)] = event
  <2>1. candidate = observations[source].candidate /\ longer = ledger \o <<event>>
    BY DEF candidate, longer
  <2> QED
    BY <1>1, <1>7, <1>10, <1>15, <2>1, NomineeLogged
<1>17. ledger' = longer
  BY <1>8 DEF longer
<1>18. InOrder'
  <2>1. /\ turn' = turn /\ elapsed' = elapsed /\ observations' = observations
        /\ tokens' = tokens /\ compilations' = compilations
    BY <1>7 DEF resultVars, clockVars
  <2> QED
    BY <1>7, <1>16, <1>17, <2>1 DEF InOrder
<1>19. ledger'[Len(ledger')] = EvaluationEvent("evaluation_attempt_started",
                                               Invocation("attribution", candidate))
  BY <1>16, <1>17 DEF event
<1>20. Adds(ledger, ledger', {"evaluation_attempt_started"})
  BY <1>16, <1>17
<1>22. candidate = observations[source].candidate
  BY DEF candidate
<1> QED
  BY <1>1, <1>7, <1>18, <1>19, <1>20, <1>22, NomineeBegunStands

(* An answer is a completed attempt and its receipt, of what was started.  *)
Answering(log, longer, invocation, receipt) ==
    /\ Logged(longer, turn, Rounded(elapsed'), observations, tokens, compilations, counts,
              "nothing")
    /\ Adds(log, longer, {"evaluation_attempt_completed", "candidate_evaluated"})
    /\ Len(log) \in Nat /\ Len(longer) = Len(log) + 2
    /\ longer[Len(log) + 1].kind = "evaluation_attempt_completed"
    /\ longer[Len(longer)] = AnswerOf(invocation, receipt)

LEMMA PairAppended ==
    ASSUME NEW log, IsSequence(log), NEW first, NEW second
    PROVE  log \o <<first, second>> = (log \o <<first>>) \o <<second>>
<1>1. <<first, second>> = Append(<<first>>, second)
  OBVIOUS
<1>2. log \o Append(<<first>>, second) = (log \o <<first>>) \o <<second>>
  BY AppendedIsConcat
<1> QED
  BY <1>1, <1>2, Zenon

LEMMA AnswerLogged ==
    ASSUME IInv, JInv, KInv, NEW invocation, NEW receipt, Answer(invocation, receipt)
    PROVE  /\ Answering(ledger, ledger', invocation, receipt)
           /\ invocation \in active /\ invocation.origin = Origin.origin
           /\ invocation.turn = Origin.turn /\ invocation.purpose \in Purposes
           /\ invocation.candidate \in AnyCandidate
           /\ elapsed' \in Nat /\ elapsed <= elapsed'
           /\ invocation.purpose = "attribution" /\ source = 0 =>
                 ProfileEach /\ searched # << >>
                 /\ invocation.candidate = searched[Len(searched)].candidate
           /\ invocation.purpose = "attribution" /\ source # 0 => Attribution = "selected"
<1>1. /\ pc = "evaluate" /\ active = {invocation}
      /\ ledger' = ledger \o <<Completed(invocation), AnswerOf(invocation, receipt)>>
  BY AnswerFacts, AnswerEvents
<1>2. PICK duration \in Durations : elapsed' = elapsed + duration
  BY DEF Answer
<1>3. /\ InOrder /\ Launched /\ IsSequence(ledger) /\ Len(ledger) \in Nat
      /\ elapsed \in Nat /\ turn \in Nat /\ Len(observations) \in Nat
      /\ source # 0 => source \in 1..Len(observations)
      /\ source = 0 => turn = Len(observations) + 1
  BY <1>1, KFacts DEF Measuring, Upcoming
<1>4. /\ elapsed' \in Nat /\ elapsed <= elapsed'
      /\ Rounded(elapsed) \in Nat /\ Rounded(elapsed') \in Nat
      /\ Rounded(elapsed) <= Rounded(elapsed')
  <2>1. duration \in Nat
    BY InputAssumption
  <2>2. elapsed' \in Nat /\ elapsed <= elapsed'
    BY <1>2, <1>3, <2>1
  <2> QED
    BY <1>3, <2>2, RoundedGrows
<1>5. /\ invocation \in active /\ invocation.purpose \in Purposes
      /\ invocation.candidate \in AnyCandidate /\ invocation \in Invocations
  BY <1>1 DEF IInv, TypeOK, Invocations
<1>6. /\ ledger[Len(ledger)] = EvaluationEvent("evaluation_attempt_started", invocation)
      /\ invocation.origin = Origin.origin /\ invocation.turn = Origin.turn
      /\ invocation.purpose = "attribution" /\ source = 0 =>
            searched # << >> /\ invocation.candidate = searched[Len(searched)].candidate
      /\ invocation.purpose = "attribution" /\ source # 0 => Attribution = "selected"
  BY <1>1, <1>3 DEF Launched
<1>7. /\ invocation.purpose = "attribution" /\ source = 0 => ProfileEach
      /\ invocation.purpose = "search" => source = 0
  BY <1>1 DEF IInv, TurnReserved, InPhase
<1> DEFINE first == Completed(invocation)
           second == AnswerOf(invocation, receipt)
           log == ledger \o <<first>>
           longer == log \o <<second>>
<1>8. ledger' = longer
  BY <1>1, <1>3, PairAppended
<1>9. /\ first.kind = "evaluation_attempt_completed" /\ first.origin = invocation.origin
      /\ first.turn = invocation.turn /\ EvaluationKey(first) = EvaluationKey(invocation)
      /\ first.answered
  BY DEF Completed, CompletedEvent, EvaluationKey
<1>10. /\ second.kind = "candidate_evaluated" /\ second.origin = invocation.origin
       /\ second.turn = invocation.turn /\ EvaluationKey(second) = EvaluationKey(invocation)
       /\ second.clock = Rounded(elapsed') /\ second.purpose = invocation.purpose
  BY DEF AnswerOf, EvaluationKey
<1>11. /\ ledger[Len(ledger)].kind = "evaluation_attempt_started"
       /\ ledger[Len(ledger)].origin = invocation.origin
       /\ EvaluationKey(ledger[Len(ledger)]) = EvaluationKey(invocation)
  BY <1>6 DEF EvaluationEvent, EvaluationKey
<1>12. invocation.origin = "turn" => invocation.turn = turn
  BY <1>6 DEF Origin
<1>13. Logged(ledger, turn, Rounded(elapsed), observations, tokens, compilations, counts,
              "answer")
  BY <1>1, <1>3, LoggedNow
<1>14. Len(ledger) \in At(ledger, "evaluation_attempt_started")
  <2>1. Len(ledger) >= 1 /\ DOMAIN ledger = 1..Len(ledger)
    BY <1>3, <1>13, LogFacts DEF Logged, Formed, IsLog
  <2> QED
    BY <1>3, <1>11, <2>1 DEF At
<1> HIDE DEF first, second
<1>15. /\ Logged(log, turn, Rounded(elapsed), observations, tokens, compilations, counts,
                 "answer")
       /\ Len(ledger) + 1 \in At(log, "evaluation_attempt_completed")
  <2>1. TurnBearing(first) => first.turn = turn
    BY <1>9, <1>12 DEF TurnBearing
  <2> QED
    BY <1>3, <1>4, <1>9, <1>11, <1>13, <1>14, <2>1, CompletedLogged
<1>16. /\ IsSequence(log) /\ Len(log) = Len(ledger) + 1 /\ log[Len(log)] = first
       /\ Adds(ledger, log, {first.kind}) /\ log[Len(ledger) + 1] = first
  BY <1>3, GrowsOne
<1> HIDE DEF log
<1>17. /\ IsSequence(longer) /\ Len(longer) = Len(log) + 1 /\ longer[Len(longer)] = second
       /\ Adds(log, longer, {second.kind})
  BY <1>16, GrowsOne
<1>18. longer[Len(ledger) + 1] = first
  BY <1>16, <1>17, <1>3 DEF Adds, Grown
<1>19. Logged(longer, turn, Rounded(elapsed'), observations, tokens, compilations, counts,
              "nothing")
  <2>1. TurnBearing(second) => second.turn = turn
    BY <1>10, <1>12 DEF TurnBearing
  <2>2. Settling(second) => second.turn \notin 1..Len(observations)
    <3>1. ASSUME Settling(second) PROVE source = 0
      BY <3>1, <1>6, <1>7, <1>10 DEF Settling, ProfileEach
    <3>2. source = 0 => second.turn = turn
      BY <1>6, <1>10 DEF Origin
    <3> QED
      BY <1>3, <3>1, <3>2
  <2>3. /\ Len(log) \in At(log, "evaluation_attempt_completed")
        /\ EvaluationKey(log[Len(log)]) = EvaluationKey(second)
        /\ log[Len(log)].origin = second.origin /\ log[Len(log)].answered
    BY <1>9, <1>10, <1>15, <1>16
  <2> QED
    BY <1>3, <1>4, <1>10, <1>15, <2>1, <2>2, <2>3, EvaluatedLogged
<1>20. Adds(ledger, longer, {"evaluation_attempt_completed", "candidate_evaluated"})
  <2>1. Adds(ledger, longer, {first.kind} \cup {second.kind})
    BY <1>16, <1>17, AddsMore
  <2>2. {first.kind} \cup {second.kind} = {"evaluation_attempt_completed", "candidate_evaluated"}
    BY <1>9, <1>10
  <2> QED
    BY <2>1, <2>2, Zenon
<1>21. Answering(ledger, longer, invocation, receipt)
  <2>1. Len(longer) = Len(ledger) + 2 /\ longer[Len(longer)] = AnswerOf(invocation, receipt)
    BY <1>3, <1>16, <1>17 DEF second
  <2>2. longer[Len(ledger) + 1].kind = "evaluation_attempt_completed"
    BY <1>9, <1>18
  <2> QED
    BY <1>3, <1>19, <1>20, <2>1, <2>2 DEF Answering
<1>22. Answering(ledger, ledger', invocation, receipt)
  BY <1>8, <1>21, Zenon
<1> QED
  BY <1>4, <1>5, <1>6, <1>7, <1>22

(* An answered Evaluation is the one event of the kind that is added.      *)
Answered(log, longer) ==
    /\ Adds(log, longer, {"evaluation_attempt_completed", "candidate_evaluated"})
    /\ Len(log) \in Nat /\ Len(longer) = Len(log) + 2
    /\ longer[Len(log) + 1].kind = "evaluation_attempt_completed"
    /\ longer[Len(longer)].kind = "candidate_evaluated"

LEMMA AnsweredNext ==
    ASSUME NEW log, NEW longer, Answered(log, longer)
    PROVE  /\ At(longer, "candidate_evaluated")
                 = At(log, "candidate_evaluated") \cup {Len(longer)}
           /\ \A i \in At(log, "candidate_evaluated") :
                 longer[i] = log[i] /\ i \in 1..Len(log)
           /\ Len(longer) \notin At(log, "candidate_evaluated") /\ Len(longer) \in 1..Len(longer)
           /\ Len(longer) > Len(log)
<1>1. /\ IsLog(log) /\ IsLog(longer) /\ Len(log) \in Nat /\ Len(longer) = Len(log) + 2
      /\ \A i \in 1..Len(log) : longer[i] = log[i]
  BY DEF Answered, Adds, Grown
<1>2. /\ DOMAIN log = 1..Len(log) /\ DOMAIN longer = 1..(Len(log) + 2)
  BY <1>1 DEF IsLog
<1>3. \A i \in 1..(Len(log) + 2) : i \in 1..Len(log) \/ i = Len(log) + 1 \/ i = Len(log) + 2
  BY <1>1
<1>4. \A i \in 1..Len(log) : i \in 1..(Len(log) + 2)
  BY <1>1
<1>5. ASSUME NEW i PROVE i \in At(longer, "candidate_evaluated")
                            <=> i \in At(log, "candidate_evaluated") \/ i = Len(longer)
  BY <1>1, <1>2, <1>3, <1>4 DEF At, Answered
<1>6. At(longer, "candidate_evaluated") = At(log, "candidate_evaluated") \cup {Len(longer)}
  BY <1>5
<1>7. \A i \in At(log, "candidate_evaluated") : longer[i] = log[i] /\ i \in 1..Len(log)
  BY <1>1, <1>2 DEF At
<1> QED
  BY <1>1, <1>6, <1>7

LEMMA AnsweredIs ==
    ASSUME NEW log, NEW longer, NEW invocation, NEW receipt,
           Answering(log, longer, invocation, receipt)
    PROVE  /\ Answered(log, longer)
           /\ longer[Len(longer)].purpose = invocation.purpose
           /\ longer[Len(longer)].turn = invocation.turn
           /\ longer[Len(longer)].candidate = invocation.candidate
           /\ longer[Len(longer)].receipt = receipt
           /\ SearchOf(longer[Len(longer)])
                 = [candidate |-> invocation.candidate, receipt |-> receipt]
  BY DEF Answering, Answered, AnswerOf, SearchOf

(* A search's answer is a search more of its turn; a profile's is not.     *)
LEMMA SearchesAnswered ==
    ASSUME NEW log, NEW longer, Answered(log, longer), NEW t, NEW last,
           last = longer[Len(longer)], last.turn = t
    PROVE  /\ last.purpose = "search" =>
                 /\ SearchesAt(longer, t) = SearchesAt(log, t) \cup {Len(longer)}
                 /\ TurnSearches(longer, t) = Append(TurnSearches(log, t), SearchOf(last))
                 /\ AttributedAt(longer, t) = AttributedAt(log, t)
           /\ last.purpose = "attribution" =>
                 /\ TurnSearches(longer, t) = TurnSearches(log, t)
                 /\ AttributedAt(longer, t) = AttributedAt(log, t) \cup {last.candidate}
<1> DEFINE D == At(log, "candidate_evaluated")
           E == At(longer, "candidate_evaluated")
           m == Len(longer)
<1>1. /\ E = D \cup {m} /\ m \notin D /\ m \in 1..Len(longer) /\ m > Len(log)
      /\ \A i \in D : longer[i] = log[i] /\ i \in 1..Len(log)
  BY AnsweredNext
<1>2. /\ SearchesAt(log, t) = {i \in D : log[i].turn = t /\ log[i].purpose = "search"}
      /\ SearchesAt(longer, t) = {i \in E : longer[i].turn = t /\ longer[i].purpose = "search"}
  BY DEF SearchesAt, AtTurn
<1>3. /\ AttributionsAt(log, t) = {i \in D : log[i].turn = t /\ log[i].purpose = "attribution"}
      /\ AttributionsAt(longer, t)
            = {i \in E : longer[i].turn = t /\ longer[i].purpose = "attribution"}
  BY DEF AttributionsAt, AtTurn
<1>4. longer[m].turn = t /\ longer[m] = last
  OBVIOUS
<1> HIDE DEF D, E, m
<1>5. /\ last.purpose = "search" => SearchesAt(longer, t) = SearchesAt(log, t) \cup {m}
      /\ last.purpose # "search" => SearchesAt(longer, t) = SearchesAt(log, t)
  BY <1>1, <1>2, <1>4
<1>6. /\ last.purpose = "attribution"
            => AttributionsAt(longer, t) = AttributionsAt(log, t) \cup {m}
      /\ last.purpose # "attribution" => AttributionsAt(longer, t) = AttributionsAt(log, t)
  BY <1>1, <1>3, <1>4
<1>7. Grown(log, longer)
  BY DEF Answered, Adds
<1>8. ASSUME last.purpose = "search"
      PROVE  TurnSearches(longer, t) = Append(TurnSearches(log, t), SearchOf(last))
  <2>1. SearchesAt(longer, t) = SearchesAt(log, t) \cup {m} /\ m \in 1..Len(longer) /\ m > Len(log)
    BY <1>1, <1>5, <1>8
  <2>2. TurnSearches(longer, t) = Append(TurnSearches(log, t), SearchOf(longer[m]))
    <3>1. ASSUME NEW k \in 1..Len(longer), k > Len(log),
                 SearchesAt(longer, t) = SearchesAt(log, t) \cup {k}
          PROVE  TurnSearches(longer, t) = Append(TurnSearches(log, t), SearchOf(longer[k]))
      BY ONLY <1>7, <3>1, TurnSearchesNext, SMTT(30)
    <3> QED
      BY <2>1, <3>1, Zenon
  <2> QED
    BY <1>4, <2>2, Zenon
<1>9. ASSUME last.purpose = "attribution" PROVE TurnSearches(longer, t) = TurnSearches(log, t)
  BY <1>5, <1>7, <1>9, TurnSearchesSame
<1>10. \A i \in AttributionsAt(log, t) : longer[i] = log[i]
  BY <1>1, <1>3
<1>11. ASSUME last.purpose = "search" PROVE AttributedAt(longer, t) = AttributedAt(log, t)
  <2>1. AttributionsAt(longer, t) = AttributionsAt(log, t)
    BY <1>6, <1>11
  <2> QED
    BY <1>10, <2>1 DEF AttributedAt
<1>12. ASSUME last.purpose = "attribution"
       PROVE  AttributedAt(longer, t) = AttributedAt(log, t) \cup {last.candidate}
  <2>1. AttributionsAt(longer, t) = AttributionsAt(log, t) \cup {m}
    BY <1>6, <1>12
  <2> QED
    BY <1>4, <1>10, <2>1 DEF AttributedAt
<1> QED
  BY <1>5, <1>8, <1>9, <1>11, <1>12 DEF m

(* The correct candidates of the first rows. *)
CorrectIn(rows, n) == {rows[k].candidate : k \in {m \in 1..n : rows[m].receipt.correct}}

LEMMA CorrectOfFirst ==
    ASSUME NEW rows \in Seq(Searches), NEW n \in 0..Len(rows)
    PROVE  CorrectOf(SubSeq(rows, 1, n)) = CorrectIn(rows, n)
<1> DEFINE s == SubSeq(rows, 1, n)
<1>1. DOMAIN s = 1..n /\ \A k \in 1..n : s[k] = rows[k]
  OBVIOUS
<1> HIDE DEF s
<1>2. CorrectOf(s) = CorrectIn(rows, n)
  BY <1>1 DEF CorrectOf, CorrectIn
<1> QED
  BY <1>2 DEF s

LEMMA CorrectInNext ==
    ASSUME NEW rows \in Seq(Searches), NEW row \in Searches
    PROVE  /\ \A n \in 0..Len(rows) : CorrectIn(Append(rows, row), n) = CorrectIn(rows, n)
           /\ ~row.receipt.correct =>
                 CorrectIn(Append(rows, row), Len(rows) + 1) = CorrectIn(rows, Len(rows))
<1> DEFINE s == Append(rows, row)
<1>1. /\ Len(rows) \in Nat /\ s[Len(rows) + 1] = row
      /\ \A k \in 1..Len(rows) : s[k] = rows[k]
  OBVIOUS
<1> HIDE DEF s
<1>2. \A n \in 0..Len(rows) : CorrectIn(s, n) = CorrectIn(rows, n)
  <2> TAKE n \in 0..Len(rows)
  <2>1. \A k \in 1..n : s[k] = rows[k]
    BY <1>1
  <2> QED
    BY <2>1 DEF CorrectIn
<1>3. ASSUME ~row.receipt.correct
      PROVE  CorrectIn(s, Len(rows) + 1) = CorrectIn(rows, Len(rows))
  <2>1. {m \in 1..(Len(rows) + 1) : s[m].receipt.correct}
           = {m \in 1..Len(rows) : rows[m].receipt.correct}
    <3>1. \A m \in 1..(Len(rows) + 1) : m \in 1..Len(rows) \/ m = Len(rows) + 1
      BY <1>1
    <3>2. \A m \in 1..Len(rows) : m \in 1..(Len(rows) + 1)
      BY <1>1
    <3> QED
      BY <1>1, <1>3, <3>1, <3>2
  <2> QED
    BY <1>1, <2>1 DEF CorrectIn
<1> QED
  BY <1>2, <1>3 DEF s

LEMMA CorrectInLast ==
    ASSUME NEW rows \in Seq(Searches), rows # << >>, rows[Len(rows)].receipt.correct
    PROVE  CorrectIn(rows, Len(rows))
              = CorrectIn(rows, Len(rows) - 1) \cup {rows[Len(rows)].candidate}
<1> DEFINE last == Len(rows)
<1>1. last \in Nat /\ last >= 1
  OBVIOUS
<1>2. {m \in 1..last : rows[m].receipt.correct}
         = {m \in 1..(last - 1) : rows[m].receipt.correct} \cup {last}
  <2>1. \A m \in 1..last : m \in 1..(last - 1) \/ m = last
    BY <1>1
  <2>2. \A m \in 1..(last - 1) : m \in 1..last
    BY <1>1
  <2>3. last \in 1..last
    BY <1>1
  <2> QED
    BY <2>1, <2>2, <2>3
<1> HIDE DEF last
<1> QED
  BY <1>2 DEF CorrectIn, last

(* What an answer of the search leaves standing. *)
LEMMA AnsweredStands ==
    ASSUME IInv, JInv, KInv, source = 0, NEW invocation, NEW receipt,
           Answer(invocation, receipt), invocation.purpose \in {"search", "attribution"},
           pc' \in {"search", "profile"}, confirmation' = confirmation, Measured'
    PROVE  KInv'
<1>1. /\ pc = "evaluate" /\ elapsed' \in Nat /\ elapsed <= elapsed' /\ active' = {}
      /\ turn' = turn /\ authoring' = authoring /\ tokens' = tokens /\ counts' = counts
      /\ compilations' = compilations /\ closedAt' = closedAt
      /\ resolved' = resolved /\ built' = built /\ observations' = observations
      /\ source' = 0 /\ adherence' = adherence /\ reason' = reason /\ stage' = stage
  BY AnswerFacts, AnswerLogged DEF budgetVars, outcomeVars
<1>2. /\ InSearch /\ InSearch' /\ Measuring /\ Measuring' /\ pc # "sealed" /\ pc # "seal"
  BY <1>1 DEF InSearch, Measuring
<1>3. /\ Standing /\ Submitting /\ Closed /\ IsSequence(ledger) /\ Len(ledger) \in Nat
      /\ adherence = "adhered" /\ closedAt = {} /\ confirmation = {}
      /\ elapsed \in Nat /\ authoring \in Nat
  BY <1>2, KFacts
<1>4. Answering(ledger, ledger', invocation, receipt)
  BY AnswerLogged
<1>5. InOrder'
  <2>1. Logged(ledger', turn, Rounded(elapsed'), observations, tokens, compilations, counts,
               "nothing")
    BY <1>4 DEF Answering
  <2> QED
    BY <1>1, <2>1 DEF InOrder
<1> DEFINE kinds == {"evaluation_attempt_completed", "candidate_evaluated"}
<1>6. /\ Adds(ledger, ledger', kinds)
      /\ kinds \cap {"run_fault", "search_completed", "candidate_nominated"} = {}
      /\ \A mark \in Marks : mark \notin kinds
      /\ "author_actions_resolved" \notin kinds
  BY <1>4 DEF Answering, Marks
<1> HIDE DEF kinds
<1>7. /\ Has("author_actions_resolved")' <=> Has("author_actions_resolved")
      /\ Has("provider_turn_completed")' <=> Has("provider_turn_completed")
      /\ Has("candidate_set_filtered")' <=> Has("candidate_set_filtered")
      /\ Has("candidate_selected")' <=> Has("candidate_selected")
  <2>1. \A mark \in Marks : Has(mark)' <=> Has(mark)
    BY <1>1, <1>6, MarksKept
  <2> QED
    BY <2>1 DEF Marks
<1>8. Standing'
  BY <1>1, <1>2, <1>3, <1>7 DEF Standing
<1>9. Unturned'
  <2>1. Has("provider_turn_completed")
    BY <1>2, <1>3 DEF Standing
  <2> QED
    BY <1>7, <2>1 DEF Unturned
<1>10. Submitting'
  <2>1. AtTurn(ledger', "author_actions_resolved", turn)
           = AtTurn(ledger, "author_actions_resolved", turn)
    BY <1>6, AtTurnSame
  <2>2. Resolved(ledger', turn) = Resolved(ledger, turn)
    BY <1>6, <2>1, ResolvedSame DEF Adds
  <2>3. /\ Resolved(ledger, turn) = resolved /\ resolved \in Submissions
        /\ Len(built) <= Len(resolved)
        /\ \A n \in 1..Len(built) : built[n].candidate = resolved[n]
    BY <1>2, <1>3 DEF Submitting
  <2> QED
    BY <1>1, <2>2, <2>3 DEF Submitting
<1>11. Launched'
  BY DEF Launched
<1>12. Faulted' /\ Closed' /\ Confirmed'
  <2>1. authoring' <= elapsed'
    BY <1>1, <1>3 DEF Closed
  <2>2. \A i \in 1..Len(ledger') :
           i > Len(ledger) /\ ledger'[i].kind = "candidate_evaluated" =>
              ledger'[i].purpose = "search" \/ (ledger'[i].purpose = "attribution" /\ ProfileEach)
    <3>1. invocation.purpose = "search" \/ (invocation.purpose = "attribution" /\ ProfileEach)
      BY AnswerLogged
    <3>2. ledger'[Len(ledger')].purpose = invocation.purpose
      BY <1>4 DEF Answering, AnswerOf
    <3>3. /\ Len(ledger') = Len(ledger) + 2
          /\ ledger'[Len(ledger) + 1].kind = "evaluation_attempt_completed"
      BY <1>4 DEF Answering
    <3>4. \A i \in 1..Len(ledger') : i > Len(ledger) => i = Len(ledger) + 1 \/ i = Len(ledger')
      BY <1>3, <3>3
    <3> QED
      BY <3>1, <3>2, <3>3, <3>4
  <2>3. confirmation' = {} /\ closedAt' = {} /\ adherence' = "adhered" /\ source' = 0
    BY <1>1, <1>3
  <2> QED
    BY <1>1, <1>2, <1>6, <2>1, <2>2, <2>3, OpenStep
<1> QED
  BY <1>5, <1>8, <1>9, <1>10, <1>11, <1>12 DEF KInv

(* What the ledger of an answered search still says of the turn's starts.  *)
LEMMA AnsweredKept ==
    ASSUME IInv, JInv, KInv, source = 0, NEW invocation, NEW receipt,
           Answer(invocation, receipt)
    PROVE  /\ Rows(ledger', turn) = FilterOrder /\ FilterOrder' = FilterOrder
           /\ \A purpose : Starts(ledger', purpose) = Starts(ledger, purpose)
           /\ \A purpose : \A i \in Starts(ledger, purpose) : ledger'[i] = ledger[i]
<1>1. /\ pc = "evaluate" /\ built' = built /\ Answering(ledger, ledger', invocation, receipt)
  BY AnswerFacts, AnswerLogged
<1> DEFINE kinds == {"evaluation_attempt_completed", "candidate_evaluated"}
<1>2. /\ Adds(ledger, ledger', kinds) /\ "candidate_set_filtered" \notin kinds
      /\ "evaluation_attempt_started" \notin kinds
  BY <1>1 DEF Answering
<1> HIDE DEF kinds
<1>3. PICK j \in 1..Len(ledger) : /\ AtTurn(ledger, "candidate_set_filtered", turn) = {j}
                                  /\ ledger[j].order = FilterOrder
  BY <1>1, FilterInForce DEF InSearch
<1>4. AtTurn(ledger', "candidate_set_filtered", turn) = {j}
  <2>1. AtTurn(ledger', "candidate_set_filtered", turn)
           = AtTurn(ledger, "candidate_set_filtered", turn)
    BY <1>2, AtTurnSame
  <2> QED
    BY <1>3, <2>1, Zenon
<1>5. Rows(ledger', turn) = FilterOrder
  <2>1. ledger'[j] = ledger[j]
    BY <1>2, <1>3 DEF Adds, Grown
  <2>2. (CHOOSE i \in {j} : TRUE) = j
    OBVIOUS
  <2> QED
    BY <1>3, <1>4, <2>1, <2>2, Zenon DEF Rows, The
<1>6. FilterOrder' = FilterOrder
  BY <1>1 DEF FilterOrder, Survivors, Rejects
<1>7. /\ At(ledger', "evaluation_attempt_started") = At(ledger, "evaluation_attempt_started")
      /\ \A i \in At(ledger, "evaluation_attempt_started") : ledger'[i] = ledger[i]
  BY <1>2, AtSame
<1>8. \A purpose : Starts(ledger', purpose) = Starts(ledger, purpose)
  BY <1>7 DEF Starts
<1>9. \A purpose : \A i \in Starts(ledger, purpose) : ledger'[i] = ledger[i]
  BY <1>7 DEF Starts
<1> QED
  BY <1>5, <1>6, <1>8, <1>9

(* The plan, one search further. *)
LEMMA PlanAdvances ==
    ASSUME NEW rows \in Seq(Searches), NEW ahead \in Seq(Candidates), ahead # << >>,
           NEW row \in Searches, row.candidate = ahead[1]
    PROVE  CandidatesOf(rows) \o ahead = CandidatesOf(Append(rows, row)) \o Tail(ahead)
<1> DEFINE s == Append(rows, row)
           rest == Tail(ahead)
<1>1. /\ s \in Seq(Searches) /\ Len(s) = Len(rows) + 1 /\ s[Len(rows) + 1] = row
      /\ Len(rows) \in Nat /\ \A n \in 1..Len(rows) : s[n] = rows[n]
  OBVIOUS
<1>2. /\ rest \in Seq(Candidates) /\ Len(ahead) \in Nat /\ Len(ahead) >= 1
      /\ Len(rest) = Len(ahead) - 1
      /\ \A n \in 1..(Len(ahead) - 1) : rest[n] = ahead[n + 1]
  OBVIOUS
<1> HIDE DEF s, rest
<1>3. \A r \in Searches : r.candidate \in Candidates
  BY DEF Searches
<1>4. /\ \A n \in 1..Len(rows) : rows[n] \in Searches
      /\ \A n \in 1..Len(s) : s[n] \in Searches
  BY <1>1
<1> DEFINE a == CandidatesOf(rows)
           b == CandidatesOf(s)
<1>5. /\ IsSequence(a) /\ Len(a) = Len(rows)
      /\ \A n \in 1..Len(rows) : a[n] = rows[n].candidate
  <2>1. IsSequence(rows)
    BY DEF IsSequence
  <2> QED
    BY <2>1, CandidatesAre
<1>6. /\ IsSequence(b) /\ Len(b) = Len(s)
      /\ \A n \in 1..Len(s) : b[n] = s[n].candidate
  <2>1. IsSequence(s)
    BY <1>1 DEF IsSequence
  <2> QED
    BY <2>1, CandidatesAre
<1> HIDE DEF a, b
<1>7. /\ IsSequence(a) /\ Len(a) = Len(rows)
      /\ IsSequence(b) /\ Len(b) = Len(rows) + 1
      /\ \A n \in 1..Len(rows) : b[n] = a[n]
      /\ b[Len(rows) + 1] = ahead[1]
  BY <1>1, <1>5, <1>6
<1>11. IsSequence(ahead) /\ IsSequence(rest)
  BY <1>2 DEF IsSequence
<1> DEFINE c == a \o ahead
           d == b \o rest
<1>12. /\ IsSequence(c) /\ Len(c) = Len(rows) + Len(ahead)
       /\ \A n \in 1..Len(rows) : c[n] = a[n]
       /\ \A n \in 1..Len(ahead) : c[Len(rows) + n] = ahead[n]
  BY <1>7, <1>11, RowsJoined
<1>13. /\ IsSequence(d) /\ Len(d) = Len(rows) + 1 + Len(rest)
       /\ \A n \in 1..(Len(rows) + 1) : d[n] = b[n]
       /\ \A n \in 1..Len(rest) : d[Len(rows) + 1 + n] = rest[n]
  BY <1>7, <1>11, RowsJoined, SMTT(30)
<1> HIDE DEF c, d
<1>8. Len(d) = Len(c) /\ Len(c) \in Nat
  BY <1>1, <1>2, <1>12, <1>13
<1>9. ASSUME NEW n \in 1..(Len(rows) + Len(ahead)) PROVE c[n] = d[n]
  <2>1. CASE n \in 1..Len(rows)
    <3>1. n \in 1..(Len(rows) + 1)
      BY <1>1, <2>1
    <3> QED
      BY <1>7, <1>12, <1>13, <2>1, <3>1
  <2>2. CASE n = Len(rows) + 1
    <3>1. n \in 1..(Len(rows) + 1) /\ 1 \in 1..Len(ahead)
      BY <1>1, <1>2, <2>2
    <3> QED
      BY <1>7, <1>12, <1>13, <2>2, <3>1
  <2>3. CASE n > Len(rows) + 1
    <3>1. PICK k \in 1..(Len(ahead) - 1) : n = Len(rows) + 1 + k /\ n = Len(rows) + (k + 1)
      <4> DEFINE k == n - (Len(rows) + 1)
      <4>1. k \in 1..(Len(ahead) - 1)
        BY <1>1, <1>2, <2>3
      <4>2. n = Len(rows) + 1 + k /\ n = Len(rows) + (k + 1)
        BY <1>1
      <4> HIDE DEF k
      <4> QED
        BY <4>1, <4>2
    <3>2. k \in 1..Len(rest) /\ k + 1 \in 1..Len(ahead)
      BY <1>2
    <3>3. c[n] = ahead[k + 1]
      BY <1>12, <3>1, <3>2
    <3>4. d[n] = rest[k]
      BY <1>13, <3>1, <3>2
    <3> QED
      BY <1>2, <3>3, <3>4
  <2>4. n \in 1..Len(rows) \/ n = Len(rows) + 1 \/ n > Len(rows) + 1
    BY <1>1, <1>2
  <2> QED
    BY <2>1, <2>2, <2>3, <2>4
<1>10. c = d
  BY <1>8, <1>9, <1>12, <1>13, SameSequence
<1> QED
  BY <1>10 DEF a, b, c, d, s, rest

LEMMA AnswerSearchStands == IInv /\ JInv /\ KInv /\ AnswerSearch => KInv'
<1> SUFFICES ASSUME IInv, JInv, KInv, AnswerSearch PROVE KInv'
  OBVIOUS
<1>1. PICK invocation \in active, receipt \in Receipts :
         /\ invocation.purpose = "search" /\ Answer(invocation, receipt)
         /\ searched' = Append(searched, [candidate |-> invocation.candidate,
                                          receipt |-> receipt])
         /\ plan' = Tail(plan)
         /\ pc' = IF ProfileEach /\ receipt.correct THEN "profile" ELSE "search"
         /\ UNCHANGED confirmation
  BY DEF AnswerSearch
<1> DEFINE row == [candidate |-> invocation.candidate, receipt |-> receipt]
           whole == SearchPlan(FilterOrder)
           done == Len(searched)
<1>2. /\ source = 0 /\ plan # << >> /\ invocation.candidate = plan[1]
      /\ plan \in Seq(Candidates) /\ searched \in Seq(Searches) /\ done \in Nat
  BY <1>1 DEF IInv, InPhase, TypeOK
<1>3. /\ pc = "evaluate" /\ active = {invocation} /\ active' = {} /\ turn' = turn
      /\ built' = built /\ resolved' = resolved
      /\ Answering(ledger, ledger', invocation, receipt) /\ invocation.turn = turn
  BY <1>1, <1>2, AnswerFacts, AnswerLogged DEF Origin
<1>4. InSearch /\ pc # "sealed" /\ Measured
  BY <1>2, <1>3, KFacts DEF InSearch
<1>5. row \in Searches /\ row.candidate = plan[1] /\ row.receipt = receipt
      /\ searched' = Append(searched, row)
  <2>1. plan[1] \in Candidates
    BY <1>2
  <2> QED
    BY <1>1, <1>2, <2>1 DEF Searches
<1>6. /\ Answered(ledger, ledger') /\ ledger'[Len(ledger')].purpose = "search"
      /\ ledger'[Len(ledger')].turn = turn /\ SearchOf(ledger'[Len(ledger')]) = row
  BY <1>1, <1>3 DEF Answering, Answered, AnswerOf, SearchOf
<1> HIDE DEF row
<1>7. /\ TurnSearches(ledger', turn) = Append(TurnSearches(ledger, turn), row)
      /\ AttributedAt(ledger', turn) = AttributedAt(ledger, turn)
  <2> DEFINE longer == ledger'
             last == longer[Len(longer)]
  <2>1. /\ Answered(ledger, longer) /\ last.purpose = "search" /\ last.turn = turn
        /\ SearchOf(last) = row /\ last = longer[Len(longer)]
    BY <1>6
  <2> HIDE DEF longer, last
  <2>2. /\ TurnSearches(longer, turn) = Append(TurnSearches(ledger, turn), SearchOf(last))
        /\ AttributedAt(longer, turn) = AttributedAt(ledger, turn)
    BY <2>1, SearchesAnswered
  <2> QED
    BY <2>1, <2>2, Zenon DEF longer
<1>8. InFlight("search") = 1 /\ InFlight("attribution") = 0
      /\ InFlight("search")' = 0 /\ InFlight("attribution")' = 0
  BY <1>1, <1>3 DEF InFlight
<1>9. /\ Rows(ledger', turn) = FilterOrder /\ FilterOrder' = FilterOrder
      /\ \A purpose : Starts(ledger', purpose) = Starts(ledger, purpose)
      /\ \A purpose : \A i \in Starts(ledger, purpose) : ledger'[i] = ledger[i]
  BY <1>1, <1>2, AnsweredKept
<1>10. /\ Len(built) = Len(resolved) /\ \E n \in 1..Len(built) : built[n].launchable
       /\ whole = CandidatesOf(searched) \o plan
       /\ TurnSearches(ledger, turn) = searched
  BY <1>4 DEF Measured
<1>11. whole = CandidatesOf(searched') \o plan'
  <2>1. CandidatesOf(searched) \o plan = CandidatesOf(Append(searched, row)) \o Tail(plan)
    BY <1>2, <1>5, PlanAdvances
  <2> QED
    BY <1>1, <1>5, <1>10, <2>1, Zenon
<1>12. TurnSearches(ledger', turn) = searched'
  BY <1>5, <1>7, <1>10, Zenon
<1>13. /\ Len(searched') = done + 1 /\ searched'[done + 1] = row
       /\ \A n \in 1..done : searched'[n] = searched[n]
  BY <1>2, <1>5
<1>14. Cardinality({i \in Starts(ledger, "search") : ledger[i].turn = turn}) = done + 1
  BY <1>4, <1>8, Zenon DEF Measured
<1>15. \A i \in Starts(ledger, "search") : ledger[i].turn = turn =>
          \E n \in 1..(done + 1) : ledger[i].candidate = whole[n]
  BY <1>4, <1>8, Zenon DEF Measured
<1>16. \A i \in Starts(ledger, "attribution") : ledger[i].turn = turn =>
          \E n \in 1..done : ledger[i].candidate = searched[n].candidate
  <2>1. (IF pc = "profile" THEN 1 ELSE 0) = 0 /\ done - 0 = done
    BY <1>2, <1>3
  <2>2. \A i \in Starts(ledger, "attribution") : ledger[i].turn = turn =>
          \E n \in 1..(done - (IF pc = "profile" THEN 1 ELSE 0)) :
              ledger[i].candidate = searched[n].candidate
    BY <1>4, Zenon DEF Measured
  <2> HIDE DEF done
  <2> QED
    BY <2>1, <2>2
<1>17. ProfileEach => AttributedAt(ledger, turn) = CorrectIn(searched, done)
  <2>1. ProfileEach => AttributedAt(ledger, turn) = CorrectOf(SubSeq(searched, 1, done
                  - (IF pc = "profile" THEN 1 ELSE InFlight("attribution"))))
    BY <1>4, Zenon DEF Measured, AttributedAt
  <2>2. done - (IF pc = "profile" THEN 1 ELSE InFlight("attribution")) = done
    BY <1>2, <1>3, <1>8
  <2>3. done \in 0..done
    BY <1>2
  <2>4. CorrectOf(SubSeq(searched, 1, done)) = CorrectIn(searched, done)
    BY <1>2, <2>3, CorrectOfFirst
  <2> QED
    BY <2>1, <2>2, <2>4, Zenon
<1> HIDE DEF whole, done
<1>18. ProfileEach => AttributedAt(ledger', turn) = CorrectOf(SubSeq(searched', 1,
           Len(searched') - (IF pc' = "profile" THEN 1 ELSE InFlight("attribution")')))
  <2>1. searched' \in Seq(Searches)
    BY <1>2, <1>5
  <2>2. CASE receipt.correct /\ ProfileEach
    <3>1. /\ Len(searched') - (IF pc' = "profile" THEN 1 ELSE InFlight("attribution")') = done
          /\ done \in 0..Len(searched')
      BY <1>1, <1>2, <1>13, <2>2
    <3>2. CorrectOf(SubSeq(searched', 1, done)) = CorrectIn(searched', done)
      BY <2>1, <3>1, CorrectOfFirst
    <3>3. CorrectIn(searched', done) = CorrectIn(searched, done)
      <4>1. done \in 0..Len(searched)
        BY <1>2 DEF done
      <4>2. CorrectIn(Append(searched, row), done) = CorrectIn(searched, done)
        BY <1>2, <1>5, <4>1, CorrectInNext
      <4> QED
        BY <1>5, <4>2, Zenon
    <3> QED
      BY <1>7, <1>17, <2>2, <3>1, <3>2, <3>3, Zenon
  <2>3. CASE ~receipt.correct
    <3>1. /\ Len(searched') - (IF pc' = "profile" THEN 1 ELSE InFlight("attribution")') = done + 1
          /\ done + 1 \in 0..Len(searched')
      BY <1>1, <1>2, <1>8, <1>13, <2>3
    <3>2. CorrectOf(SubSeq(searched', 1, done + 1)) = CorrectIn(searched', done + 1)
      BY <2>1, <3>1, CorrectOfFirst
    <3>3. CorrectIn(Append(searched, row), done + 1) = CorrectIn(searched, done)
      BY <1>2, <1>5, <2>3, CorrectInNext DEF done
    <3> QED
      BY <1>5, <1>7, <1>17, <3>1, <3>2, <3>3, Zenon
  <2> QED
    BY <2>2, <2>3
<1>19. Measured'
  <2>1. /\ Len(searched') + InFlight("search")' = done + 1
        /\ pc' # "evaluate"
    BY <1>1, <1>2, <1>8, <1>13
  <2>2. Cardinality(StartsAt(ledger', "search", turn)) = done + 1
    <3>1. StartsAt(ledger', "search", turn) = {i \in Starts(ledger, "search") : ledger[i].turn = turn}
      BY <1>9 DEF StartsAt
    <3> QED
      BY <1>14, <3>1, Zenon
  <2>3. \A i \in Starts(ledger', "search") : ledger'[i].turn = turn =>
           \E n \in 1..(done + 1) : ledger'[i].candidate = whole[n]
    BY <1>9, <1>15
  <2>4. \A i \in Starts(ledger', "attribution") : ledger'[i].turn = turn =>
           \E n \in 1..(Len(searched') - (IF pc' = "profile" THEN 1 ELSE 0)) :
               ledger'[i].candidate = searched'[n].candidate
    <3>1. ASSUME NEW i \in Starts(ledger, "attribution"), ledger[i].turn = turn
          PROVE  \E n \in 1..done : ledger[i].candidate = searched'[n].candidate
      BY <1>13, <1>16, <3>1
    <3>2. \A n \in 1..done : n \in 1..(Len(searched') - (IF pc' = "profile" THEN 1 ELSE 0))
      BY <1>2, <1>13
    <3> QED
      BY <1>9, <3>1, <3>2
  <2>5. pc' = "profile" \/ InFlight("attribution")' = 1 =>
           searched'[Len(searched')].receipt.correct
    BY <1>1, <1>5, <1>8, <1>13
  <2>6. /\ Len(built') = Len(resolved') /\ \E n \in 1..Len(built') : built'[n].launchable
        /\ Rows(ledger', turn') = FilterOrder'
        /\ SearchPlan(FilterOrder') = CandidatesOf(searched') \o plan'
        /\ TurnSearches(ledger', turn') = searched'
    <3>1. SearchPlan(FilterOrder') = CandidatesOf(searched') \o plan'
      BY <1>9, <1>11, Zenon DEF whole
    <3> QED
      BY <1>3, <1>9, <1>10, <1>12, <3>1
  <2>7. Cardinality({i \in Starts(ledger', "search") : ledger'[i].turn = turn'})
           = Len(searched') + InFlight("search")'
    BY <1>3, <2>1, <2>2, Zenon DEF StartsAt
  <2>8. \A i \in Starts(ledger', "search") : ledger'[i].turn = turn' =>
           \E n \in 1..(Len(searched') + InFlight("search")') :
               ledger'[i].candidate = SearchPlan(FilterOrder')[n]
    BY <1>3, <1>9, <2>1, <2>3, Zenon DEF whole
  <2>9. \A i \in Starts(ledger', "attribution") : ledger'[i].turn = turn' =>
           \E n \in 1..(Len(searched') - (IF pc' = "profile" THEN 1 ELSE 0)) :
               ledger'[i].candidate = searched'[n].candidate
    BY <1>3, <2>4, Zenon
  <2>10. ProfileEach => {ledger'[i].candidate : i \in AttributionsAt(ledger', turn')}
            = CorrectOf(SubSeq(searched', 1, Len(searched')
                - (IF pc' = "profile" THEN 1 ELSE InFlight("attribution")')))
    BY <1>3, <1>18, Zenon DEF AttributedAt
  <2> QED
    BY <2>5, <2>6, <2>7, <2>8, <2>9, <2>10, Zenon DEF Measured
<1> QED
  BY <1>1, <1>2, <1>19, AnsweredStands

LEMMA AnswerProfileStands ==
    IInv /\ JInv /\ KInv /\ AnswerAttribution /\ source = 0 => KInv'
<1> SUFFICES ASSUME IInv, JInv, KInv, AnswerAttribution, source = 0 PROVE KInv'
  OBVIOUS
<1> DEFINE receipt == [correct |-> TRUE, latency |-> 0]
           whole == SearchPlan(FilterOrder)
           done == Len(searched)
<1>1. PICK invocation \in active :
         /\ invocation.purpose = "attribution" /\ Answer(invocation, receipt)
         /\ pc' = "search"
         /\ UNCHANGED <<plan, searched, confirmation>>
  BY DEF AnswerAttribution
<1>2. /\ searched \in Seq(Searches) /\ done \in Nat
      /\ searched # << >> /\ invocation.candidate = searched[done].candidate /\ done >= 1
      /\ ProfileEach
  <2>1. /\ searched # << >> /\ invocation.candidate = searched[done].candidate /\ ProfileEach
    BY <1>1, AnswerLogged
  <2>2. searched \in Seq(Searches)
    BY DEF IInv, TypeOK
  <2> QED
    BY <2>1, <2>2
<1>3. /\ pc = "evaluate" /\ active = {invocation} /\ active' = {} /\ turn' = turn
      /\ built' = built /\ resolved' = resolved /\ plan' = plan /\ searched' = searched
      /\ Answering(ledger, ledger', invocation, receipt) /\ invocation.turn = turn
  BY <1>1, AnswerFacts, AnswerLogged DEF Origin
<1>4. InSearch /\ pc # "sealed" /\ Measured
  BY <1>3, KFacts DEF InSearch
<1>6. /\ Answered(ledger, ledger') /\ ledger'[Len(ledger')].purpose = "attribution"
      /\ ledger'[Len(ledger')].turn = turn
      /\ ledger'[Len(ledger')].candidate = invocation.candidate
  BY <1>1, <1>3 DEF Answering, Answered, AnswerOf
<1>7. /\ TurnSearches(ledger', turn) = TurnSearches(ledger, turn)
      /\ AttributedAt(ledger', turn)
            = AttributedAt(ledger, turn) \cup {invocation.candidate}
  <2> DEFINE longer == ledger'
             last == longer[Len(longer)]
  <2>1. /\ Answered(ledger, longer) /\ last.purpose = "attribution" /\ last.turn = turn
        /\ last.candidate = invocation.candidate /\ last = longer[Len(longer)]
    BY <1>6
  <2> HIDE DEF longer, last
  <2>2. /\ TurnSearches(longer, turn) = TurnSearches(ledger, turn)
        /\ AttributedAt(longer, turn) = AttributedAt(ledger, turn) \cup {last.candidate}
    BY <2>1, SearchesAnswered
  <2> QED
    BY <2>1, <2>2, Zenon DEF longer
<1>8. InFlight("search") = 0 /\ InFlight("attribution") = 1
      /\ InFlight("search")' = 0 /\ InFlight("attribution")' = 0
  BY <1>1, <1>3 DEF InFlight
<1>9. /\ Rows(ledger', turn) = FilterOrder /\ FilterOrder' = FilterOrder
      /\ \A purpose : Starts(ledger', purpose) = Starts(ledger, purpose)
      /\ \A purpose : \A i \in Starts(ledger, purpose) : ledger'[i] = ledger[i]
  BY <1>1, AnsweredKept
<1>10. /\ Len(built) = Len(resolved) /\ \E n \in 1..Len(built) : built[n].launchable
       /\ whole = CandidatesOf(searched) \o plan
       /\ TurnSearches(ledger, turn) = searched
       /\ searched[done].receipt.correct
  BY <1>4, <1>8 DEF Measured
<1>14. Cardinality({i \in Starts(ledger, "search") : ledger[i].turn = turn}) = done + 0
  BY <1>4, <1>8, Zenon DEF Measured
<1>15. \A i \in Starts(ledger, "search") : ledger[i].turn = turn =>
          \E n \in 1..(done + 0) : ledger[i].candidate = whole[n]
  BY <1>4, <1>8, Zenon DEF Measured
<1>16. \A i \in Starts(ledger, "attribution") : ledger[i].turn = turn =>
          \E n \in 1..(done - 0) : ledger[i].candidate = searched[n].candidate
  <2>1. (IF pc = "profile" THEN 1 ELSE 0) = 0
    BY <1>3
  <2>2. \A i \in Starts(ledger, "attribution") : ledger[i].turn = turn =>
          \E n \in 1..(done - (IF pc = "profile" THEN 1 ELSE 0)) :
              ledger[i].candidate = searched[n].candidate
    BY <1>4, Zenon DEF Measured
  <2> HIDE DEF done
  <2> QED
    BY <2>1, <2>2, Zenon
<1>17. AttributedAt(ledger, turn) = CorrectIn(searched, done - 1)
  <2>1. AttributedAt(ledger, turn) = CorrectOf(SubSeq(searched, 1, done
                  - (IF pc = "profile" THEN 1 ELSE InFlight("attribution"))))
    BY <1>2, <1>4, Zenon DEF Measured, AttributedAt
  <2>2. (IF pc = "profile" THEN 1 ELSE InFlight("attribution")) = 1
    BY <1>3, <1>8
  <2>3. done - 1 \in 0..Len(searched)
    BY <1>2
  <2>4. CorrectOf(SubSeq(searched, 1, done - 1)) = CorrectIn(searched, done - 1)
    BY <1>2, <2>3, CorrectOfFirst
  <2> QED
    BY <2>1, <2>2, <2>4, Zenon
<1>18. AttributedAt(ledger', turn) = CorrectOf(SubSeq(searched, 1, done - 0))
  <2>1. CorrectIn(searched, done) = CorrectIn(searched, done - 1) \cup {searched[done].candidate}
    BY <1>2, <1>10, CorrectInLast
  <2>2. done - 0 \in 0..Len(searched) /\ done - 0 = done
    BY <1>2
  <2>3. CorrectOf(SubSeq(searched, 1, done - 0)) = CorrectIn(searched, done - 0)
    BY <1>2, <2>2, CorrectOfFirst
  <2> QED
    BY <1>2, <1>7, <1>17, <2>1, <2>2, <2>3, Zenon
<1> HIDE DEF whole, done
<1>19. Measured'
  <2>1. Len(searched') = done /\ (IF pc' = "profile" THEN 1 ELSE InFlight("attribution")') = 0
        /\ (IF pc' = "profile" THEN 1 ELSE 0) = 0
    BY <1>1, <1>3, <1>8 DEF done
  <2>2. Cardinality({i \in Starts(ledger', "search") : ledger'[i].turn = turn}) = done + 0
    <3>1. {i \in Starts(ledger', "search") : ledger'[i].turn = turn}
             = {i \in Starts(ledger, "search") : ledger[i].turn = turn}
      BY <1>9
    <3> QED
      BY <1>14, <3>1, Zenon
  <2>3. \A i \in Starts(ledger', "search") : ledger'[i].turn = turn =>
           \E n \in 1..(done + 0) : ledger'[i].candidate = whole[n]
    BY <1>9, <1>15
  <2>4. \A i \in Starts(ledger', "attribution") : ledger'[i].turn = turn =>
           \E n \in 1..(done - 0) : ledger'[i].candidate = searched[n].candidate
    BY <1>9, <1>16
  <2>5. ~(pc' = "profile" \/ InFlight("attribution")' = 1)
    BY <1>1, <1>8
  <2>6. /\ Len(built') = Len(resolved') /\ \E n \in 1..Len(built') : built'[n].launchable
        /\ Rows(ledger', turn') = FilterOrder'
        /\ SearchPlan(FilterOrder') = CandidatesOf(searched') \o plan'
        /\ TurnSearches(ledger', turn') = searched'
    <3>1. SearchPlan(FilterOrder') = CandidatesOf(searched') \o plan'
      BY <1>3, <1>9, <1>10, Zenon DEF whole
    <3> QED
      BY <1>3, <1>7, <1>9, <1>10, <3>1
  <2>7. Cardinality({i \in Starts(ledger', "search") : ledger'[i].turn = turn'})
           = Len(searched') + InFlight("search")'
    BY <1>3, <1>8, <2>1, <2>2, Zenon
  <2>8. \A i \in Starts(ledger', "search") : ledger'[i].turn = turn' =>
           \E n \in 1..(Len(searched') + InFlight("search")') :
               ledger'[i].candidate = SearchPlan(FilterOrder')[n]
    BY <1>3, <1>8, <1>9, <2>1, <2>3, Zenon DEF whole
  <2>9. \A i \in Starts(ledger', "attribution") : ledger'[i].turn = turn' =>
           \E n \in 1..(Len(searched') - (IF pc' = "profile" THEN 1 ELSE 0)) :
               ledger'[i].candidate = searched'[n].candidate
    BY <1>3, <2>1, <2>4, Zenon
  <2>10. ProfileEach => {ledger'[i].candidate : i \in AttributionsAt(ledger', turn')}
            = CorrectOf(SubSeq(searched', 1, Len(searched')
                - (IF pc' = "profile" THEN 1 ELSE InFlight("attribution")')))
    BY <1>3, <1>18, <2>1, Zenon DEF AttributedAt
  <2> QED
    BY <2>5, <2>6, <2>7, <2>8, <2>9, <2>10, Zenon DEF Measured
<1>20. confirmation' = confirmation /\ pc' \in {"search", "profile"}
  BY <1>1
<1> HIDE DEF receipt
<1> QED
  BY <1>1, <1>19, <1>20, AnsweredStands

(* An answer after the nomination. *)
LEMMA NomineeAnsweredStands ==
    ASSUME IInv, JInv, KInv, source # 0, NEW invocation, NEW receipt,
           Answer(invocation, receipt), pc' \in {"profile", "seal"}, Confirmed'
    PROVE  KInv'
<1>1. /\ pc = "evaluate" /\ elapsed' \in Nat /\ elapsed <= elapsed' /\ active' = {}
      /\ turn' = turn /\ authoring' = authoring /\ tokens' = tokens /\ counts' = counts
      /\ compilations' = compilations /\ closedAt' = closedAt
      /\ resolved' = resolved /\ built' = built /\ observations' = observations
      /\ source' = source /\ adherence' = adherence /\ reason' = reason /\ stage' = stage
  BY AnswerFacts, AnswerLogged DEF budgetVars, outcomeVars
<1>2. /\ ~InSearch /\ ~InSearch' /\ ~Measuring /\ ~Measuring' /\ pc # "sealed" /\ pc # "seal"
  BY <1>1 DEF InSearch, Measuring
<1>3. /\ Standing /\ Submitting /\ Closed /\ Faulted /\ IsSequence(ledger) /\ Len(ledger) \in Nat
      /\ adherence = "adhered" /\ closedAt # {} /\ source \in 1..Len(observations)
      /\ elapsed \in Nat /\ authoring \in Nat /\ Faults(ledger) = {}
  BY <1>1, <1>2, KFacts
<1>4. Answering(ledger, ledger', invocation, receipt)
  BY AnswerLogged
<1>5. InOrder'
  <2>1. Logged(ledger', turn, Rounded(elapsed'), observations, tokens, compilations, counts,
               "nothing")
    BY <1>4 DEF Answering
  <2> QED
    BY <1>1, <2>1 DEF InOrder
<1> DEFINE kinds == {"evaluation_attempt_completed", "candidate_evaluated"}
<1>6. /\ Adds(ledger, ledger', kinds)
      /\ kinds \cap (SearchKinds \cup {"search_completed", "candidate_nominated"}) = {}
      /\ \A mark \in Marks : mark \notin kinds
      /\ "author_actions_resolved" \notin kinds /\ "run_fault" \notin kinds
  BY <1>4 DEF Answering, Marks, SearchKinds
<1> HIDE DEF kinds
<1>7. /\ Has("author_actions_resolved")' <=> Has("author_actions_resolved")
      /\ Has("provider_turn_completed")' <=> Has("provider_turn_completed")
      /\ Has("candidate_set_filtered")' <=> Has("candidate_set_filtered")
      /\ Has("candidate_selected")' <=> Has("candidate_selected")
  <2>1. \A mark \in Marks : Has(mark)' <=> Has(mark)
    BY <1>1, <1>6, MarksKept
  <2> QED
    BY <2>1 DEF Marks
<1>8. Standing'
  BY <1>1, <1>2, <1>3, <1>7 DEF Standing
<1>9. observations # << >>
  BY <1>3
<1>10. Unturned' /\ Submitting' /\ Measured' /\ Launched'
  BY <1>1, <1>2, <1>9 DEF Unturned, Submitting, Measured, Launched
<1>11. Faulted'
  <2>1. At(ledger', "run_fault") = At(ledger, "run_fault")
    BY <1>6, AtSame
  <2>2. Faults(ledger') = {}
    BY <1>3, <2>1 DEF Faults
  <2>3. tokens = BeforeTokens
    BY <1>2, <1>3 DEF Faulted
  <2>4. BeforeTokens' = BeforeTokens
    BY <1>1 DEF BeforeTokens
  <2> QED
    BY <1>1, <1>3, <2>2, <2>3, <2>4 DEF Faulted
<1>12. Closed'
  BY <1>1, <1>3, <1>6, ClosedKept
<1> QED
  BY <1>5, <1>8, <1>10, <1>11, <1>12 DEF KInv

LEMMA AnswerConfirmationStands == IInv /\ JInv /\ KInv /\ AnswerConfirmation => KInv'
<1> SUFFICES ASSUME IInv, JInv, KInv, AnswerConfirmation PROVE KInv'
  OBVIOUS
<1>1. PICK invocation \in active, receipt \in Receipts :
         /\ invocation.purpose = "confirmatory" /\ Answer(invocation, receipt)
         /\ confirmation' = {Confirmation(source, invocation.candidate, tokens,
                                          receipt.latency)}
         /\ pc' = IF Attribution = "selected" /\ Qualifies(receipt) THEN "profile"
                  ELSE "seal"
  BY DEF AnswerConfirmation
<1>2. /\ source # 0 /\ invocation.candidate = observations[source].candidate
      /\ confirmation = {}
  BY <1>1 DEF IInv, InPhase, JInv, Nominated, Confirming
<1>3. /\ pc = "evaluate" /\ active = {invocation} /\ active' = {}
      /\ source' = source /\ observations' = observations /\ tokens' = tokens
      /\ Answering(ledger, ledger', invocation, receipt) /\ invocation.turn = source
  BY <1>1, <1>2, AnswerFacts, AnswerLogged DEF Origin
<1>4. Confirmed
  BY <1>3, KFacts
<1>5. /\ Answered(ledger, ledger') /\ ledger'[Len(ledger')].purpose = "confirmatory"
      /\ ledger'[Len(ledger')].turn = source
      /\ ledger'[Len(ledger')].candidate = observations[source].candidate
  BY <1>1, <1>2, <1>3 DEF Answering, Answered, AnswerOf
<1>6. /\ At(ledger', "candidate_evaluated")
            = At(ledger, "candidate_evaluated") \cup {Len(ledger')}
      /\ \A i \in At(ledger, "candidate_evaluated") : ledger'[i] = ledger[i]
  BY <1>5, AnsweredNext
<1>7. \A i \in ConfirmationsAt(ledger') :
         /\ source' # 0 /\ ledger'[i].turn = source'
         /\ ledger'[i].candidate = observations'[source'].candidate
  <2>1. \A i \in ConfirmationsAt(ledger') : i \in ConfirmationsAt(ledger) \/ i = Len(ledger')
    BY <1>6 DEF ConfirmationsAt
  <2>2. \A i \in ConfirmationsAt(ledger) : ledger'[i] = ledger[i]
    BY <1>6 DEF ConfirmationsAt
  <2> QED
    BY <1>2, <1>3, <1>4, <1>5, <2>1, <2>2 DEF Confirmed
<1>8. \A c \in confirmation' :
         c.source = source /\ c.tokens = tokens /\ c.latency = receipt.latency
  BY <1>1 DEF Confirmation
<1>9. InFlight("attribution")' = 0
  BY <1>3 DEF InFlight
<1>10. pc' = "profile" => Qualifies(receipt)
  BY <1>1
<1>11. pc' = "seal" /\ Attribution = "selected" => ~Qualifies(receipt)
  BY <1>1
<1>12. ~ProfileEach => \A i \in At(ledger', "candidate_evaluated") :
          ledger'[i].purpose # "attribution"
  BY <1>2, <1>4, <1>5, <1>6 DEF Confirmed
<1>13. Confirmed'
  BY <1>3, <1>7, <1>8, <1>9, <1>10, <1>11, <1>12 DEF Confirmed, Qualifies
<1>14. pc' \in {"profile", "seal"}
  BY <1>1
<1> QED
  BY <1>1, <1>2, <1>13, <1>14, NomineeAnsweredStands

LEMMA AnswerNomineeProfileStands ==
    IInv /\ JInv /\ KInv /\ AnswerAttribution /\ source # 0 => KInv'
<1> SUFFICES ASSUME IInv, JInv, KInv, AnswerAttribution, source # 0 PROVE KInv'
  OBVIOUS
<1> DEFINE receipt == [correct |-> TRUE, latency |-> 0]
<1>1. PICK invocation \in active :
         /\ invocation.purpose = "attribution" /\ Answer(invocation, receipt)
         /\ pc' = "seal" /\ confirmation' = confirmation
  BY DEF AnswerAttribution
<1> HIDE DEF receipt
<1>2. /\ pc = "evaluate" /\ active = {invocation} /\ active' = {}
      /\ source' = source /\ observations' = observations /\ tokens' = tokens
      /\ Answering(ledger, ledger', invocation, receipt) /\ invocation.turn = source
      /\ Attribution = "selected"
  BY <1>1, AnswerFacts, AnswerLogged DEF Origin
<1>3. Confirmed /\ InFlight("attribution") = 1 /\ confirmation # {}
  BY <1>1, <1>2, KFacts DEF InFlight, JInv, Nominated
<1>4. /\ invocation.candidate = observations[source].candidate
      /\ \A c \in confirmation : c.latency > 0 /\ c.source = source /\ c.tokens = tokens
  BY <1>1, <1>3 DEF Confirmed
<1>5. /\ Answered(ledger, ledger') /\ ledger'[Len(ledger')].purpose = "attribution"
      /\ ledger'[Len(ledger')].turn = source
      /\ ledger'[Len(ledger')].candidate = observations[source].candidate
  BY <1>1, <1>2, <1>4 DEF Answering, Answered, AnswerOf
<1>6. /\ At(ledger', "candidate_evaluated")
            = At(ledger, "candidate_evaluated") \cup {Len(ledger')}
      /\ \A i \in At(ledger, "candidate_evaluated") : ledger'[i] = ledger[i]
  BY <1>5, AnsweredNext
<1>7. \A i \in ConfirmationsAt(ledger') :
         /\ source' # 0 /\ ledger'[i].turn = source'
         /\ ledger'[i].candidate = observations'[source'].candidate
  <2>1. \A i \in ConfirmationsAt(ledger') : i \in ConfirmationsAt(ledger)
    BY <1>5, <1>6 DEF ConfirmationsAt
  <2>2. \A i \in ConfirmationsAt(ledger) : ledger'[i] = ledger[i]
    BY <1>6 DEF ConfirmationsAt
  <2> QED
    BY <1>2, <1>3, <2>1, <2>2 DEF Confirmed
<1>8. InFlight("attribution")' = 0
  BY <1>2 DEF InFlight
<1>9. ~ProfileEach => \A i \in At(ledger', "candidate_evaluated") :
         ledger'[i].purpose = "attribution" =>
            ledger'[i].turn = source /\ ledger'[i].candidate = observations[source].candidate
  BY <1>3, <1>5, <1>6 DEF Confirmed
<1>10. \E i \in At(ledger', "candidate_evaluated") : ledger'[i].purpose = "attribution"
  BY <1>5, <1>6
<1>11. Confirmed'
  BY <1>1, <1>2, <1>3, <1>4, <1>7, <1>8, <1>9, <1>10 DEF Confirmed
<1> QED
  BY <1>1, <1>11, NomineeAnsweredStands

Eligible(rows, j) == rows[j].qualified /\ (Limit # Unlimited => rows[j].tokens <= Limit)
Faster(rows, k, j) == \/ rows[k].latency < rows[j].latency
                      \/ rows[k].latency = rows[j].latency /\ k <= j

LEMMA OneNominee ==
    ASSUME IInv, JInv, NEW nominee \in Nominee(observations)
    PROVE  /\ nominee.turn \in 1..Len(observations)
           /\ nominee = observations[nominee.turn]
           /\ Nominee(observations) = {nominee} /\ nominee.qualified
<1>1. PICK k \in 1..Len(observations) :
         /\ nominee = observations[k] /\ Eligible(observations, k)
         /\ \A j \in 1..Len(observations) :
               Eligible(observations, j) => Faster(observations, k, j)
  BY NomineeIsObservation DEF Eligible, Faster
<1>2. observations[k].turn = k
  BY DEF JInv, Turned
<1>3. ASSUME NEW other \in Nominee(observations) PROVE other = nominee
  <2>1. PICK m \in 1..Len(observations) :
           /\ other = observations[m] /\ Eligible(observations, m)
           /\ \A j \in 1..Len(observations) :
                 Eligible(observations, j) => Faster(observations, m, j)
    BY NomineeIsObservation DEF Eligible, Faster
  <2>2. /\ observations[k].latency \in Nat /\ observations[m].latency \in Nat
        /\ k \in Nat /\ m \in Nat
    <3>1. observations[k].latency \in AnyLatency /\ observations[m].latency \in AnyLatency
      BY ObservationTypes
    <3>2. AnyLatency \subseteq Nat
      BY CandidateAssumption DEF AnyLatency
    <3>3. k \in Nat /\ m \in Nat
      <4>1. Len(observations) \in Nat
        BY ObservationTypes DEF IInv, TypeOK
      <4> QED
        BY <4>1
    <3>4. observations[k].latency \in Nat /\ observations[m].latency \in Nat
      BY <3>1, <3>2, Zenon
    <3> QED
      BY <3>3, <3>4
  <2>3. Faster(observations, k, m) /\ Faster(observations, m, k)
    BY <1>1, <2>1, Zenon
  <2>4. k = m
    BY <2>2, <2>3 DEF Faster
  <2> QED
    BY <1>1, <2>1, <2>4
<1>4. Nominee(observations) = {nominee}
  BY <1>3
<1> QED
  BY <1>1, <1>2, <1>4 DEF Eligible

(* The two events search closes with, in one step. *)
Concluding(log, longer, state, at, candidate) ==
    /\ IsSequence(longer) /\ Len(log) \in Nat /\ Len(longer) = Len(log) + 2
    /\ Adds(log, longer, {"search_completed", "candidate_nominated"})
    /\ longer[Len(log) + 1].kind = "search_completed" /\ longer[Len(log) + 1].state = state
    /\ longer[Len(log) + 2].kind = "candidate_nominated"
    /\ longer[Len(log) + 2].turn = at /\ longer[Len(log) + 2].candidate = candidate

LEMMA ConcludesLog ==
    ASSUME NEW log, IsSequence(log), NEW first, first.kind = "search_completed",
           NEW second, second.kind = "candidate_nominated",
           NEW longer, longer = log \o <<first, second>>
    PROVE  Concluding(log, longer, first.state, second.turn, second.candidate)
<1> DEFINE mid == log \o <<first>>
           last == mid \o <<second>>
<1>1. Len(log) \in Nat
  BY LogFacts
<1>2. longer = last
  BY <1>1, PairAppended
<1>3. /\ IsSequence(mid) /\ Len(mid) = Len(log) + 1 /\ mid[Len(log) + 1] = first
      /\ Adds(log, mid, {first.kind})
  BY <1>1, GrowsOne
<1> HIDE DEF mid
<1>4. /\ IsSequence(last) /\ Len(last) = Len(mid) + 1 /\ last[Len(mid) + 1] = second
      /\ Adds(mid, last, {second.kind})
  BY <1>3, GrowsOne
<1> HIDE DEF last
<1>5. last[Len(log) + 1] = first /\ last[Len(log) + 2] = second /\ Len(last) = Len(log) + 2
  BY <1>1, <1>3, <1>4 DEF Adds, Grown
<1>6. Adds(log, last, {"search_completed", "candidate_nominated"})
  <2>1. Adds(log, last, {first.kind} \cup {second.kind})
    BY <1>3, <1>4, AddsMore
  <2>2. {first.kind} \cup {second.kind} = {"search_completed", "candidate_nominated"}
    OBVIOUS
  <2> QED
    BY <2>1, <2>2, Zenon
<1>7. Concluding(log, last, first.state, second.turn, second.candidate)
  BY <1>1, <1>4, <1>5, <1>6 DEF Concluding
<1> QED
  BY <1>2, <1>7, Zenon

LEMMA ConcludingLogged ==
    ASSUME NEW log, NEW now \in Nat, NEW clock \in Nat, NEW rows, NEW spent, NEW permits,
           NEW used, NEW tick \in Nat, clock <= tick, Len(rows) \in Nat,
           Logged(log, now, clock, rows, spent, permits, used, "nothing"),
           NEW first, first.kind = "search_completed", first.state.elapsed = tick,
           NEW second, second.kind = "candidate_nominated",
           NEW longer, longer = log \o <<first, second>>
    PROVE  Logged(longer, now, tick, rows, spent, permits, used, "nothing")
<1> DEFINE mid == log \o <<first>>
           last == mid \o <<second>>
<1>1. IsSequence(log) /\ Len(log) \in Nat
  BY LogFacts DEF Logged
<1>2. longer = last
  BY <1>1, PairAppended
<1>3. Logged(mid, now, tick, rows, spent, permits, used, "nothing")
  BY ClosingLogged
<1> HIDE DEF mid
<1>4. Logged(last, now, tick, rows, spent, permits, used, "nothing")
  BY <1>3, ClosingLogged
<1> HIDE DEF last
<1> QED
  BY <1>2, <1>4, Zenon

LEMMA ConcludingAt ==
    ASSUME NEW log, NEW longer, NEW state, NEW at, NEW candidate,
           Concluding(log, longer, state, at, candidate),
           At(log, "search_completed") = {}, At(log, "candidate_nominated") = {}
    PROVE  /\ At(longer, "search_completed") = {Len(log) + 1}
           /\ At(longer, "candidate_nominated") = {Len(log) + 2}
           /\ Len(log) + 1 \in DOMAIN longer
           /\ \A j \in (Len(log) + 2)..Len(longer) : longer[j].kind \notin SearchKinds
<1>1. /\ Len(log) \in Nat /\ DOMAIN longer = 1..(Len(log) + 2) /\ DOMAIN log = 1..Len(log)
      /\ \A i \in 1..Len(log) : longer[i] = log[i]
      /\ Len(longer) = Len(log) + 2
  BY DEF Concluding, Adds, Grown, IsLog
<1>2. \A i \in 1..(Len(log) + 2) : i \in 1..Len(log) \/ i = Len(log) + 1 \/ i = Len(log) + 2
  BY <1>1
<1>3. Len(log) + 1 \in 1..(Len(log) + 2) /\ Len(log) + 2 \in 1..(Len(log) + 2)
  BY <1>1
<1>4. /\ longer[Len(log) + 1].kind = "search_completed"
      /\ longer[Len(log) + 2].kind = "candidate_nominated"
  BY DEF Concluding
<1>5. \A i \in 1..Len(log) : /\ longer[i].kind # "search_completed"
                             /\ longer[i].kind # "candidate_nominated"
  BY <1>1 DEF At
<1>6. At(longer, "search_completed") = {Len(log) + 1}
  BY <1>1, <1>2, <1>3, <1>4, <1>5 DEF At
<1>7. At(longer, "candidate_nominated") = {Len(log) + 2}
  BY <1>1, <1>2, <1>3, <1>4, <1>5 DEF At
<1>8. \A j \in (Len(log) + 2)..Len(longer) : longer[j].kind \notin SearchKinds
  <2>1. \A j \in (Len(log) + 2)..Len(longer) : j = Len(log) + 2
    BY <1>1
  <2> QED
    BY <1>4, <2>1 DEF SearchKinds
<1> QED
  BY <1>1, <1>3, <1>6, <1>7, <1>8

LEMMA TalliedBefore ==
    ASSUME NEW log, NEW longer, Grown(log, longer), NEW used \in [Purposes -> Nat],
           Tallied(log, used)
    PROVE  CountsBefore(longer, Len(log) + 1) = used
<1>1. /\ Len(log) \in Nat /\ IsLog(log) /\ IsLog(longer)
      /\ \A i \in 1..Len(log) : longer[i] = log[i] /\ i \in 1..Len(longer)
  <2>1. Len(log) \in Nat /\ Len(longer) \in Nat /\ Len(log) <= Len(longer)
    BY DEF Grown, IsLog
  <2> QED
    BY <2>1 DEF Grown
<1>2. ASSUME NEW purpose \in Purposes
      PROVE  {j \in At(longer, "evaluation_attempt_started") :
                 j < Len(log) + 1 /\ longer[j].purpose = purpose} = Starts(log, purpose)
  <2>1. \A j \in 1..Len(longer) : j < Len(log) + 1 => j \in 1..Len(log)
    BY <1>1
  <2>2. \A j \in 1..Len(log) : j < Len(log) + 1
    BY <1>1
  <2> QED
    BY <1>1, <2>1, <2>2 DEF At, Starts, IsLog
<1>3. \A purpose \in Purposes : CountsBefore(longer, Len(log) + 1)[purpose] = used[purpose]
  <2> TAKE purpose \in Purposes
  <2>1. CountsBefore(longer, Len(log) + 1)[purpose]
           = Cardinality({j \in At(longer, "evaluation_attempt_started") :
                             j < Len(log) + 1 /\ longer[j].purpose = purpose})
    BY Zenon DEF CountsBefore
  <2>2. Cardinality(Starts(log, purpose)) = used[purpose]
    BY DEF Tallied
  <2> QED
    BY <1>2, <2>1, <2>2, Zenon
<1>4. CountsBefore(longer, Len(log) + 1)
         = [purpose \in Purposes |-> CountsBefore(longer, Len(log) + 1)[purpose]]
  BY Zenon DEF CountsBefore
<1>5. used = [purpose \in Purposes |-> used[purpose]]
  OBVIOUS
<1> DEFINE f == CountsBefore(longer, Len(log) + 1)
<1> HIDE DEF f
<1>6. f = [purpose \in Purposes |-> f[purpose]] /\ \A purpose \in Purposes : f[purpose] = used[purpose]
  BY <1>3, <1>4, Zenon DEF f
<1>7. f = used
  BY <1>5, <1>6
<1> QED
  BY <1>7 DEF f

(* What complete_search records, and whom it nominates. *)
Concludes(now, candidate) ==
    /\ ledger' = ledger \o <<[kind |-> "search_completed",
                              state |-> RalphState(now, {}, CloseReason(now))],
                             [kind |-> "candidate_nominated", turn |-> source',
                              candidate |-> candidate]>>
    /\ candidate = IF source' = 0 THEN NoCandidate ELSE observations[source'].candidate
    /\ source' = 0 => Nominee(observations) = {}
    /\ source' \in Nat /\ pc' \in {"seal", "confirm"}
    /\ source' # 0 => pc' = "confirm"

LEMMA TwoEvents ==
    ASSUME NEW a, NEW b
    PROVE  <<a>> \o <<b>> = <<a, b>>
<1>1. IsSequence(<<a>>) /\ IsSequence(<<b>>) /\ IsSequence(<<a, b>>)
  <2>1. <<a>> \in Seq({a, b}) /\ <<b>> \in Seq({a, b}) /\ <<a, b>> \in Seq({a, b})
    OBVIOUS
  <2> QED
    BY <2>1 DEF IsSequence
<1>2. /\ Len(<<a>>) = 1 /\ Len(<<b>>) = 1 /\ Len(<<a, b>>) = 2
      /\ <<a>>[1] = a /\ <<b>>[1] = b /\ <<a, b>>[1] = a /\ <<a, b>>[2] = b
  OBVIOUS
<1> DEFINE s == <<a>>
           t == <<b>>
           both == <<a, b>>
<1> HIDE DEF s, t, both
<1>3. /\ IsSequence(s) /\ IsSequence(t) /\ IsSequence(both)
      /\ Len(s) = 1 /\ Len(t) = 1 /\ Len(both) = 2
      /\ s[1] = a /\ t[1] = b /\ both[1] = a /\ both[2] = b
  BY <1>1, <1>2, Zenon DEF s, t, both
<1>4. /\ IsSequence(s \o t) /\ Len(s \o t) = 2
      /\ (s \o t)[1] = a /\ (s \o t)[2] = b
  BY <1>3, RowsJoined
<1>5. s \o t = both
  <2>1. \A n \in 1..2 : n = 1 \/ n = 2
    OBVIOUS
  <2>2. \A n \in 1..Len(s \o t) : (s \o t)[n] = both[n]
    BY <1>3, <1>4, <2>1
  <2> QED
    BY <1>3, <1>4, <2>2, SameSequence
<1> QED
  BY <1>5, Zenon DEF s, t, both

LEMMA SearchConcludes ==
    ASSUME IInv, JInv, KInv, CloseSearch, CloseReason(elapsed') # "none"
    PROVE  /\ elapsed \in Nat /\ elapsed' \in Nat /\ elapsed <= elapsed' /\ pc = "close"
           /\ reason' = CloseReason(elapsed') /\ CloseReason(elapsed') # "none"
           /\ closedAt' = {Rounded(elapsed')}
           /\ UNCHANGED <<authoring, counts, compilations, turnVars, turn, stage, tokens,
                          active, observations, confirmation, adherence>>
           /\ \E candidate : Concludes(elapsed', candidate)
<1>1. PICK duration \in Durations :
         /\ pc = "close"
         /\ elapsed' = elapsed + duration
         /\ UNCHANGED <<authoring, counts, compilations, turnVars>>
         /\ IF CloseReason(elapsed') = "none"
            THEN RecordFault(<< >>, stage, FaultOf(stage), 0) /\ UNCHANGED closedAt
            ELSE /\ reason' = CloseReason(elapsed')
                 /\ closedAt' = {Rounded(elapsed')}
                 /\ ledger' = ledger \o CloseEvents(elapsed')
                 /\ \/ /\ Nominee(observations) = {}
                       /\ source' = 0 /\ pc' = "seal"
                    \/ \E nominee \in Nominee(observations) :
                          source' = nominee.turn /\ pc' = "confirm"
                 /\ UNCHANGED <<turn, stage, tokens, active, observations,
                                confirmation, adherence>>
  BY DEF CloseSearch
<1>2. elapsed \in Nat /\ elapsed' \in Nat /\ elapsed <= elapsed' /\ duration \in Nat
  BY <1>1, InputAssumption DEF IInv, TypeOK
<1>5. /\ reason' = CloseReason(elapsed')
      /\ closedAt' = {Rounded(elapsed')}
      /\ ledger' = ledger \o CloseEvents(elapsed')
      /\ \/ /\ Nominee(observations) = {}
            /\ source' = 0 /\ pc' = "seal"
         \/ \E nominee \in Nominee(observations) :
               source' = nominee.turn /\ pc' = "confirm"
      /\ UNCHANGED <<turn, stage, tokens, active, observations, confirmation, adherence>>
  BY <1>1, Zenon
<1> DEFINE now == elapsed'
           first == [kind |-> "search_completed", state |-> RalphState(now, {}, CloseReason(now))]
<1>6. \E candidate : Concludes(now, candidate)
  <2>1. CASE Nominee(observations) = {} /\ source' = 0 /\ pc' = "seal"
    <3> DEFINE second == [kind |-> "candidate_nominated", turn |-> 0, candidate |-> NoCandidate]
    <3>1. CloseEvents(now) = <<first>> \o <<second>>
      BY <2>1, Zenon DEF CloseEvents
    <3> HIDE DEF first, second, now
    <3>2. <<first>> \o <<second>> = <<first, second>>
      BY TwoEvents
    <3>3. ledger' = ledger \o <<first, second>>
      BY <1>5, <3>1, <3>2, Zenon DEF now
    <3>4. ledger' = ledger \o <<[kind |-> "search_completed",
                              state |-> RalphState(now, {}, CloseReason(now))],
                             [kind |-> "candidate_nominated", turn |-> source',
                              candidate |-> NoCandidate]>>
      BY <2>1, <3>3, Zenon DEF first, second
    <3> QED
      BY <2>1, <3>4 DEF Concludes
  <2>2. ASSUME NEW nominee \in Nominee(observations), source' = nominee.turn, pc' = "confirm"
        PROVE  \E candidate : Concludes(now, candidate)
    <3>1. /\ nominee.turn \in 1..Len(observations)
          /\ nominee = observations[nominee.turn]
          /\ Nominee(observations) = {nominee}
      BY <1>1, <2>2, OneNominee
    <3>2. (CHOOSE o \in Nominee(observations) : TRUE) = nominee
      BY <3>1
    <3> DEFINE second == [kind |-> "candidate_nominated", turn |-> nominee.turn,
                          candidate |-> nominee.candidate]
    <3>3. Nominee(observations) # {}
      BY <2>2
    <3>4. CloseEvents(now) = <<first>> \o <<second>>
      BY <3>2, <3>3, Zenon DEF CloseEvents
    <3> HIDE DEF first, second, now
    <3>5. <<first>> \o <<second>> = <<first, second>>
      BY TwoEvents
    <3>6. ledger' = ledger \o <<first, second>>
      BY <1>5, <3>4, <3>5, Zenon DEF now
    <3>7. ledger' = ledger \o <<[kind |-> "search_completed",
                              state |-> RalphState(now, {}, CloseReason(now))],
                             [kind |-> "candidate_nominated", turn |-> source',
                              candidate |-> nominee.candidate]>>
      BY <2>2, <3>6, Zenon DEF first, second
    <3>8. source' \in Nat /\ source' # 0
      <4>1. Len(observations) \in Nat
        BY DEF IInv, TypeOK
      <4> QED
        BY <2>2, <3>1, <4>1
    <3>9. nominee.candidate = observations[source'].candidate
      BY <2>2, <3>1, Zenon
    <3> QED
      BY <2>2, <3>7, <3>8, <3>9 DEF Concludes
  <2> QED
    BY <1>5, <2>1, <2>2
<1> QED
  BY <1>1, <1>2, <1>5, <1>6

LEMMA CloseSearchStands ==
    IInv /\ JInv /\ KInv /\ CloseSearch /\ CloseReason(elapsed') # "none" => KInv'
<1> SUFFICES ASSUME IInv, JInv, KInv, CloseSearch, CloseReason(elapsed') # "none" PROVE KInv'
  OBVIOUS
<1> DEFINE state == RalphState(elapsed', {}, CloseReason(elapsed'))
           tick == Rounded(elapsed')
<1>1. /\ elapsed \in Nat /\ elapsed' \in Nat /\ elapsed <= elapsed' /\ pc = "close"
      /\ reason' = CloseReason(elapsed') /\ CloseReason(elapsed') # "none"
      /\ closedAt' = {tick}
      /\ authoring' = authoring /\ counts' = counts /\ compilations' = compilations
      /\ turn' = turn /\ stage' = stage /\ tokens' = tokens /\ active' = active
      /\ observations' = observations /\ confirmation' = confirmation
      /\ adherence' = adherence
  BY SearchConcludes
<1>2. PICK candidate : Concludes(elapsed', candidate)
  BY SearchConcludes
<1> DEFINE first == [kind |-> "search_completed", state |-> state]
           second == [kind |-> "candidate_nominated", turn |-> source',
                      candidate |-> candidate]
<1>3. /\ InOrder /\ Standing /\ Faulted /\ Unturned /\ Closed /\ Confirmed
      /\ source = 0 /\ closedAt = {} /\ confirmation = {}
      /\ IsSequence(ledger) /\ Len(ledger) \in Nat /\ IsLog(ledger)
      /\ Len(observations) \in Nat /\ turn \in Nat /\ authoring \in Nat
      /\ counts \in [Purposes -> Nat] /\ Rounded(elapsed) \in Nat
      /\ adherence = "adhered" /\ Faults(ledger) = {}
  <2>1. closedAt = {}
    BY <1>1 DEF IInv, InPhase
  <2> QED
    BY <1>1, <2>1, KFacts
<1>4. tick \in Nat /\ Rounded(elapsed) <= tick
  BY <1>1, RoundedGrows
<1>5. Logged(ledger, turn, Rounded(elapsed), observations, tokens, compilations, counts,
             "nothing")
  <2>1. (IF pc = "evaluate" THEN "answer" ELSE "nothing") = "nothing"
    BY <1>1
  <2> QED
    BY <1>3, <2>1, LoggedNow
<1>6. /\ first.kind = "search_completed" /\ first.state = state
      /\ second.kind = "candidate_nominated" /\ second.turn = source'
      /\ second.candidate = candidate
  OBVIOUS
<1>7. /\ state.iteration = NextIteration(observations) /\ state.tokens = tokens
      /\ state.elapsed = tick /\ state.authoring = Rounded(authoring)
      /\ state.counts = counts /\ state.compilations = compilations
      /\ state.searchElapsed = tick
      /\ state.exceeded = ExceededBudgets(tokens, Rounded(authoring), tick, tick)
      /\ state.reason = CloseReason(elapsed')
  BY DEF RalphState
<1>8. ledger' = ledger \o <<first, second>>
  BY <1>2, Zenon DEF Concludes
<1> HIDE DEF first, second, state, tick
<1>9. /\ Logged(ledger', turn, tick, observations, tokens, compilations, counts, "nothing")
      /\ Concluding(ledger, ledger', state, source', candidate)
  <2>1. first.state.elapsed = tick
    BY <1>6, <1>7
  <2>2. /\ Logged(ledger', turn, tick, observations, tokens, compilations, counts, "nothing")
        /\ Concluding(ledger, ledger', first.state, second.turn, second.candidate)
    <3>1. /\ turn \in Nat /\ Rounded(elapsed) \in Nat /\ tick \in Nat
          /\ Rounded(elapsed) <= tick /\ Len(observations) \in Nat
      BY <1>3, <1>4
    <3>2. first.kind = "search_completed" /\ second.kind = "candidate_nominated"
      BY <1>6
    <3>3. Logged(ledger', turn, tick, observations, tokens, compilations, counts, "nothing")
      BY ONLY <1>5, <1>8, <2>1, <3>1, <3>2, ConcludingLogged, Zenon
    <3>4. Concluding(ledger, ledger', first.state, second.turn, second.candidate)
      BY ONLY <1>3, <1>8, <3>2, ConcludesLog, Zenon
    <3> QED
      BY <3>3, <3>4
  <2> QED
    BY <1>6, <2>2, Zenon
<1> DEFINE kinds == {"search_completed", "candidate_nominated"}
<1>10. /\ Adds(ledger, ledger', kinds) /\ Grown(ledger, ledger')
       /\ IsSequence(ledger') /\ Len(ledger') = Len(ledger) + 2
       /\ ledger'[Len(ledger) + 1].kind = "search_completed"
       /\ ledger'[Len(ledger) + 1].state = state
       /\ ledger'[Len(ledger) + 2].kind = "candidate_nominated"
       /\ ledger'[Len(ledger) + 2].turn = source'
       /\ ledger'[Len(ledger) + 2].candidate = candidate
  BY <1>9 DEF Concluding, Adds
<1>11. /\ "candidate_evaluated" \notin kinds /\ "run_fault" \notin kinds
       /\ \A mark \in Marks : mark \notin kinds
  BY DEF Marks
<1> HIDE DEF kinds
<1>12. pc' \in {"seal", "confirm"} /\ source' \in Nat /\ (source' # 0 => pc' = "confirm")
  BY <1>2 DEF Concludes
<1>13. InOrder'
  <2>1. (IF pc' = "evaluate" THEN "answer" ELSE "nothing") = "nothing"
    BY <1>12
  <2>2. Logged(ledger', turn', Rounded(elapsed'), observations', tokens', compilations',
               counts', IF pc' = "evaluate" THEN "answer" ELSE "nothing")
    BY <1>1, <1>9, <2>1, Zenon DEF tick
  <2> QED
    BY <2>2, Zenon DEF InOrder
<1>14. \A mark \in Marks : Has(mark)' <=> Has(mark)
  BY <1>1, <1>10, <1>11, MarksKept
<1>15. Standing'
  <2>1. ~Measuring
    BY <1>1, <1>3 DEF Measuring
  <2>2. ~Measuring'
    BY <1>12 DEF Measuring
  <2>3. ~InSearch /\ ~InSearch'
    BY <1>1, <1>12 DEF InSearch
  <2>4. /\ Has("provider_turn_completed")' <=> Has("provider_turn_completed")
        /\ Has("author_actions_resolved")' <=> Has("author_actions_resolved")
        /\ Has("candidate_set_filtered")' <=> Has("candidate_set_filtered")
        /\ Has("candidate_selected")' <=> Has("candidate_selected")
    BY <1>14 DEF Marks
  <2> QED
    BY <1>1, <1>3, <1>12, <2>1, <2>2, <2>3, <2>4 DEF Standing
<1>16. Faulted'
  <2>1. Faults(ledger') = {}
    BY <1>3, <1>10, <1>11, AtSame DEF Faults
  <2>2. tokens = BeforeTokens
    <3>1. ~Measuring
      BY <1>1, <1>3 DEF Measuring
    <3> QED
      BY <1>3, <3>1 DEF Faulted
  <2>3. BeforeTokens' = BeforeTokens
    BY <1>1 DEF BeforeTokens
  <2> QED
    BY <1>1, <1>3, <2>1, <2>2, <2>3 DEF Faulted
<1>17. Unturned'
  <2>1. Has("provider_turn_completed")' <=> Has("provider_turn_completed")
    BY <1>14 DEF Marks
  <2>2. closedAt' # {}
    BY <1>1
  <2>3. observations = << >> /\ ~Has("provider_turn_completed") => Len(ledger) = 1
    BY <1>3 DEF Unturned
  <2>4. Len(ledger) = 1 => Len(ledger') = 3 /\ Len(ledger) + 1 = 2 /\ Len(ledger) + 2 = 3
    BY <1>10
  <2> QED
    BY <1>1, <1>3, <1>10, <2>1, <2>2, <2>3, <2>4 DEF Unturned
<1>18. Submitting' /\ Measured' /\ Launched'
  BY <1>12 DEF Submitting, Measured, Launched, InSearch
<1>19. Closed'
  <2> DEFINE i == Len(ledger) + 1
  <2>1. At(ledger, "search_completed") = {} /\ At(ledger, "candidate_nominated") = {}
    BY <1>3 DEF Closed
  <2>2. /\ At(ledger', "search_completed") = {i}
        /\ At(ledger', "candidate_nominated") = {Len(ledger) + 2}
        /\ i \in DOMAIN ledger'
        /\ \A j \in (Len(ledger) + 2)..Len(ledger') : ledger'[j].kind \notin SearchKinds
    BY <1>9, <2>1, ConcludingAt
  <2>3. CountsBefore(ledger', i) = counts
    BY <1>3, <1>5, <1>10, TalliedBefore DEF Logged
  <2>4. counts["confirmatory"] = 0
    BY <1>3 DEF IInv, ConfirmationReserved
  <2>5. authoring <= elapsed
    BY <1>3 DEF Closed
  <2>6. Rounded(authoring) <= tick /\ authoring <= elapsed'
    <3>1. authoring <= elapsed'
      BY <1>1, <1>3, <2>5
    <3> QED
      BY <1>1, <1>3, <3>1, RoundedGrows DEF tick
  <2>7. i + 1 = Len(ledger) + 2
    BY <1>3
  <2>8. /\ candidate = IF source' = 0 THEN NoCandidate ELSE observations[source'].candidate
        /\ source' = 0 => Nominee(observations) = {}
    BY <1>2 DEF Concludes
  <2>9. CloseReason(elapsed') = StopReason(state.iteration, tokens, state.elapsed,
                                    state.authoring, state.counts, compilations)
    BY <1>7, Zenon DEF CloseReason, tick
  <2> HIDE DEF i
  <2>10. ledger'[i].state = state /\ ledger'[i + 1].turn = source'
         /\ ledger'[i + 1].candidate = candidate
    BY <1>10, <2>7, Zenon DEF i
  <2>11. /\ At(ledger', "search_completed") = {i} /\ i \in DOMAIN ledger'
         /\ At(ledger', "candidate_nominated") = {i + 1}
         /\ \A j \in (i + 1)..Len(ledger') : ledger'[j].kind \notin SearchKinds
    BY <2>2, <2>7, Zenon
  <2>12. closedAt' # {} /\ closedAt' = {state.elapsed} /\ state.elapsed \in Nat
         /\ state.elapsed <= Rounded(elapsed')
    BY <1>1, <1>4, <1>7 DEF tick
  <2>13. /\ ledger'[i].state.iteration = NextIteration(observations')
         /\ ledger'[i].state.tokens = tokens'
         /\ closedAt' = {ledger'[i].state.elapsed}
         /\ ledger'[i].state.elapsed \in Nat /\ ledger'[i].state.elapsed <= Rounded(elapsed')
         /\ ledger'[i].state.authoring = Rounded(authoring')
         /\ Rounded(authoring') <= ledger'[i].state.elapsed
         /\ ledger'[i].state.counts = CountsBefore(ledger', i)
         /\ ledger'[i].state.counts["confirmatory"] = 0
         /\ ledger'[i].state.compilations = compilations'
         /\ ledger'[i].state.searchElapsed = ledger'[i].state.elapsed
         /\ ledger'[i].state.exceeded = ExceededBudgets(tokens', Rounded(authoring'),
                   ledger'[i].state.elapsed, ledger'[i].state.elapsed)
         /\ ledger'[i].state.reason # "none"
    BY <1>1, <1>7, <2>3, <2>4, <2>6, <2>10, <2>12, Zenon
  <2>14. /\ ledger'[i].state.reason = StopReason(ledger'[i].state.iteration, tokens',
                 ledger'[i].state.elapsed, ledger'[i].state.authoring,
                 ledger'[i].state.counts, compilations')
         /\ adherence' = "adhered" => reason' = ledger'[i].state.reason
         /\ ledger'[i + 1].turn = source'
         /\ ledger'[i + 1].candidate = IF source' = 0 THEN NoCandidate
                                       ELSE observations'[source'].candidate
         /\ source' = 0 => Nominee(observations') = {}
    BY <1>1, <1>7, <2>8, <2>9, <2>10, Zenon
  <2>15. authoring' <= elapsed'
    BY <1>1, <2>6
  <2> QED
    BY <2>11, <2>12, <2>13, <2>14, <2>15, Zenon DEF Closed
<1>20. Confirmed'
  <2>1. ConfirmationsAt(ledger) = {} /\ active = {}
    BY <1>1, <1>3 DEF JInv, Recorded, IInv, InPhase
  <2>2. /\ At(ledger', "candidate_evaluated") = At(ledger, "candidate_evaluated")
        /\ \A i \in At(ledger, "candidate_evaluated") : ledger'[i] = ledger[i]
        /\ ConfirmationsAt(ledger') = ConfirmationsAt(ledger)
    BY <1>10, <1>11, ConfirmationsSame
  <2>3. ~ProfileEach => \A i \in At(ledger', "candidate_evaluated") :
           ledger'[i].purpose # "attribution"
    BY <1>3, <2>2 DEF Confirmed
  <2>4. InFlight("attribution")' = 0
    BY <1>1, <2>1 DEF InFlight
  <2>5. pc' # "profile" /\ confirmation' = {}
    BY <1>1, <1>3, <1>12
  <2> QED
    BY <2>1, <2>2, <2>3, <2>4, <2>5 DEF Confirmed
<1> QED
  BY <1>13, <1>15, <1>16, <1>17, <1>18, <1>19, <1>20 DEF KInv

(* Nothing but its start is in the ledger of a Run that has just begun.    *)
LEMMA OnlyStarted ==
    ASSUME NEW log, log = <<[kind |-> "run_started"]>>
    PROVE  /\ IsSequence(log) /\ IsLog(log) /\ Len(log) = 1 /\ log[1].kind = "run_started"
           /\ \A i \in 1..Len(log) : log[i].kind = "run_started"
           /\ \A kind : kind # "run_started" => At(log, kind) = {}
           /\ \A kind : kind # "run_started" => \A t : AtTurn(log, kind, t) = {}
<1> DEFINE event == [kind |-> "run_started"]
<1>1. log \in Seq({event}) /\ Len(log) = 1 /\ log[1] = event /\ event.kind = "run_started"
  OBVIOUS
<1> HIDE DEF event
<1>2. IsSequence(log) /\ IsLog(log)
  <2>1. IsSequence(log)
    BY <1>1 DEF IsSequence
  <2> QED
    BY <2>1, LogFacts
<1>3. \A i \in 1..Len(log) : log[i].kind = "run_started"
  <2>1. \A i \in 1..1 : i = 1
    OBVIOUS
  <2> QED
    BY <1>1, <2>1
<1>4. ASSUME NEW kind, kind # "run_started"
      PROVE  At(log, kind) = {}
  BY <1>2, <1>3, <1>4 DEF At, IsLog
<1>5. ASSUME NEW kind, kind # "run_started", NEW t
      PROVE  AtTurn(log, kind, t) = {}
  BY <1>4, <1>5 DEF AtTurn
<1> QED
  BY <1>1, <1>2, <1>3, <1>4, <1>5

LEMMA StartedLogged ==
    ASSUME NEW log, log = <<[kind |-> "run_started"]>>, NEW now, NEW clock, NEW spent,
           NEW used, \A purpose \in Purposes : used[purpose] = 0
    PROVE  Logged(log, now, clock, << >>, spent, 0, used, "nothing")
<1>1. /\ IsSequence(log) /\ IsLog(log) /\ Len(log) = 1 /\ log[1].kind = "run_started"
      /\ \A i \in 1..Len(log) : log[i].kind = "run_started"
      /\ \A kind : kind # "run_started" => At(log, kind) = {}
      /\ \A kind : kind # "run_started" => \A t : AtTurn(log, kind, t) = {}
  BY OnlyStarted
<1>2. \A n \in 1..Len(<< >>) : FALSE
  OBVIOUS
<1>3. Formed(log)
  <2>1. \A i \in 2..1 : FALSE
    OBVIOUS
  <2> QED
    BY <1>1, <2>1 DEF Formed
<1>4. Ordered(log, now) /\ Dated(log, clock)
  <2>1. DOMAIN log = 1..Len(log)
    BY <1>1 DEF IsLog
  <2>2. "run_started" \notin SearchKinds \cup EvaluationKinds \cup {"run_fault"}
    BY DEF SearchKinds, EvaluationKinds
  <2>3. \A i \in 1..Len(log) : ~TurnBearing(log[i])
    BY <1>1, <2>2, Zenon DEF TurnBearing
  <2>4. \A i \in 1..Len(log) : ~Clocked(log[i])
    BY <1>1 DEF Clocked
  <2> QED
    BY <2>1, <2>3, <2>4 DEF Ordered, Dated, InTurnOrder, ClockMonotone
<1>5. Counted(log, 0)
  <2>1. \A t \in 1..0 : FALSE
    OBVIOUS
  <2>2. ASSUME NEW kind, kind # "run_started"
        PROVE  Numbered(log, kind, 0)
    BY <1>1, <2>1, <2>2 DEF Numbered
  <2> QED
    BY <2>2 DEF Counted
<1>6. Paid(log, << >>, spent)
  BY <1>1 DEF Paid
<1>7. Preceded(log)
  <2>1. \A i \in 1..Len(log) : log[i].kind \notin
           {"candidate_set_filtered", "candidate_rejected",
            "launchable_candidate_sealed", "candidate_selected"}
    BY <1>1
  <2> QED
    BY <1>1, <2>1 DEF Preceded
<1>8. Permits(log, 0)
  <2>1. At(log, "compilation_started") = {} /\ Cardinality({}) = 0
    BY <1>1, FS_EmptySet
  <2>2. CompilationCount(log) = 0
    BY <2>1, Zenon DEF CompilationCount
  <2> QED
    BY <1>1, <2>2 DEF Permits
<1>9. Chained(log, FALSE)
  BY <1>1 DEF Chained
<1>10. Tallied(log, used)
  <2>1. \A purpose : Starts(log, purpose) = {}
    BY <1>1 DEF Starts
  <2>2. Cardinality({}) = 0
    BY FS_EmptySet
  <2> QED
    BY <2>1, <2>2, Zenon DEF Tallied
<1>11. Sifted(log) /\ Sealed(log, FALSE)
  BY <1>1 DEF Sifted, Sealed
<1>12. Routed(log, 0) /\ Done(log, << >>)
  BY <1>1, <1>2 DEF Routed, Done
<1>13. Len(<< >>) = 0 /\ ("nothing" = "answer") = FALSE /\ ("nothing" = "start") = FALSE
       /\ (IF "nothing" = "selection" THEN Len(<< >>) + 1 ELSE Len(<< >>)) = 0
  OBVIOUS
<1> QED
  BY <1>1, <1>3, <1>4, <1>5, <1>6, <1>7, <1>8, <1>9, <1>10, <1>11, <1>12, <1>13, Zenon
     DEF Logged

LEMMA InitStands == Init => KInv
<1> SUFFICES ASSUME Init PROVE KInv
  OBVIOUS
<1>1. /\ pc = "loop" /\ turn = 1 /\ elapsed = 0 /\ authoring = 0
      /\ compilations = 0 /\ closedAt = {} /\ tokens = 0 /\ active = {}
      /\ observations = << >> /\ source = 0 /\ confirmation = {}
      /\ adherence = "adhered" /\ ledger = <<[kind |-> "run_started"]>>
      /\ \A purpose \in Purposes : counts[purpose] = 0
  BY DEF Init
<1>2. /\ IsSequence(ledger) /\ IsLog(ledger) /\ Len(ledger) = 1
      /\ \A kind : kind # "run_started" => At(ledger, kind) = {}
      /\ \A kind : kind # "run_started" => \A t : AtTurn(ledger, kind, t) = {}
  BY <1>1, OnlyStarted
<1>3. InOrder
  <2>1. Logged(ledger, turn, Rounded(elapsed), << >>, tokens, 0, counts, "nothing")
    BY <1>1, StartedLogged
  <2>2. (IF pc = "evaluate" THEN "answer" ELSE "nothing") = "nothing"
    BY <1>1
  <2> QED
    BY <1>1, <2>1, <2>2, Zenon DEF InOrder
<1>4. \A kind : kind # "run_started" => ~Has(kind)
  BY <1>2 DEF Has
<1>5. ~InSearch /\ ~Measuring
  BY <1>1 DEF InSearch, Measuring
<1>6. Standing
  BY <1>1, <1>4, <1>5 DEF Standing
<1>7. Faulted
  <2>1. Faults(ledger) = {} /\ BeforeTokens = 0
    BY <1>1, <1>2 DEF Faults, BeforeTokens
  <2> QED
    BY <1>1, <2>1 DEF Faulted
<1>8. Unturned
  BY <1>1, <1>2 DEF Unturned
<1>9. Submitting /\ Measured /\ Launched
  BY <1>1, <1>5 DEF Submitting, Measured, Launched
<1>10. Closed
  BY <1>1, <1>2 DEF Closed
<1>11. Confirmed
  <2>1. At(ledger, "candidate_evaluated") = {}
    BY <1>2
  <2>2. ConfirmationsAt(ledger) = {} /\ InFlight("attribution") = 0
    BY <1>1, <2>1 DEF ConfirmationsAt, InFlight
  <2> QED
    BY <1>1, <2>1, <2>2 DEF Confirmed
<1> QED
  BY <1>3, <1>6, <1>7, <1>8, <1>9, <1>10, <1>11 DEF KInv

LEMMA StutterStands == KInv /\ UNCHANGED vars => KInv'
<1> SUFFICES ASSUME KInv, UNCHANGED vars PROVE KInv'
  OBVIOUS
<1>1. /\ pc' = pc /\ turn' = turn /\ stage' = stage /\ elapsed' = elapsed
      /\ authoring' = authoring /\ counts' = counts /\ compilations' = compilations
      /\ closedAt' = closedAt /\ tokens' = tokens /\ resolved' = resolved /\ built' = built
      /\ plan' = plan /\ searched' = searched /\ active' = active
      /\ observations' = observations /\ source' = source /\ confirmation' = confirmation
      /\ adherence' = adherence /\ reason' = reason /\ ledger' = ledger
  BY DEF vars, clockVars, budgetVars, turnVars, resultVars, outcomeVars
<1>2. InOrder => InOrder'
  BY <1>1 DEF InOrder
<1>3. Standing => Standing'
  BY <1>1 DEF Standing, Measuring, InSearch, Has, Upcoming
<1>4. Faulted => Faulted'
  BY <1>1 DEF Faulted, Measuring, BeforeTokens, Origin, Has, Upcoming
<1>5. Unturned => Unturned'
  BY <1>1 DEF Unturned, Has, Upcoming
<1>6. Submitting => Submitting'
  BY <1>1 DEF Submitting, InSearch
<1>7. Measured => Measured'
  <2>1. /\ InSearch' <=> InSearch
        /\ FilterOrder' = FilterOrder
        /\ InFlight("search")' = InFlight("search")
        /\ InFlight("attribution")' = InFlight("attribution")
    BY <1>1 DEF InSearch, InFlight, FilterOrder, Survivors, Rejects
  <2> QED
    BY <1>1, <2>1 DEF Measured
<1>8. Launched => Launched'
  BY <1>1 DEF Launched, Origin
<1>9. Closed => Closed'
  BY <1>1 DEF Closed
<1>10. Confirmed => Confirmed'
  BY <1>1 DEF Confirmed, InFlight
<1> QED
  BY <1>1, <1>2, <1>3, <1>4, <1>5, <1>6, <1>7, <1>8, <1>9, <1>10 DEF KInv

LEMMA NextStands == IInv /\ JInv /\ KInv /\ Staged /\ [Next]_vars => KInv' \/ Undeclared'
<1> SUFFICES ASSUME IInv, JInv, KInv, Staged, [Next]_vars PROVE KInv' \/ Undeclared'
  OBVIOUS
<1>1. CASE Authoring
  BY <1>1, AuthorTurnStands, AuthorFaultStands, ResolveStands, ResolveFaultStands
     DEF Authoring
<1>2. CASE Building
  BY <1>2, BuildStands, BuildFaultStands, FilterEmptyStands, FilterRejectedStands,
     FilterSurvivorsStands DEF Building
<1>3. CASE Evaluating
  <2>1. source = 0 \/ source # 0
    OBVIOUS
  <2> QED
    BY <1>3, <2>1, StartSearchStands, ResolveFaultStands, StartProfileStands,
       StartNomineeProfileStands, StartConfirmationStands, AnswerSearchStands,
       AnswerConfirmationStands, AnswerProfileStands, AnswerNomineeProfileStands,
       EvaluationFaultStands, SelectStands DEF Evaluating
<1>4. CASE Closing
  <2>1. SealRun => pc' = "sealed"
    BY DEF SealRun
  <2> QED
    BY <1>4, <2>1, StopSearchStands, CloseSearchStands, CloseFaults DEF Closing, KInv
<1>5. CASE UNCHANGED vars
  BY <1>5, StutterStands
<1> QED
  BY <1>1, <1>2, <1>3, <1>4, <1>5 DEF Next

(* KInv at every step, whatever raises: the ledger of a Run in progress    *)
(* tells its turns, permits, Evaluations, budgets and nomination as the    *)
(* controller holds them, unless its search ended with no declared reason  *)
(* (lab/execution.py, _execute_run).                                       *)
THEOREM RunStands == Spec => [](IInv /\ JInv /\ (KInv \/ Undeclared))
<1> DEFINE Stands == IInv /\ JInv /\ Staged /\ (KInv \/ Undeclared)
<1>1. Init => Stands
  <2>1. Init => Staged
    BY DEF Init, Staged
  <2> QED
    BY <2>1, InitInvariant, InitOutcome, InitStands
<1>2. Stands /\ [Next]_vars => Stands'
  <2>1. ASSUME Undeclared, [Next]_vars PROVE KInv' \/ Undeclared'
    <3>1. CASE UNCHANGED vars
      BY <2>1, <3>1 DEF vars, budgetVars, outcomeVars, Undeclared, StopUndeclared
    <3>2. CASE Next
      <4>1. SealRun
        BY <2>1, <3>2, SealIsLast DEF Undeclared
      <4> QED
        BY <4>1 DEF SealRun, KInv
    <3> QED
      BY <2>1, <3>1, <3>2
  <2> QED
    BY <2>1, NextInvariant, NextOutcome, NextStaged, NextStands
<1> QED
  BY <1>1, <1>2, PTL DEF Spec

(* What an observation adds to the ones before it. *)
Observing ==
    \/ observations' = observations
    \/ /\ pc \in {"build", "search"}
       /\ \E candidate, latency :
             observations' = Append(observations, Observation(turn, tokens, candidate, latency))

LEMMA NextObserves == Next => Observing
<1> USE DEF clockVars, budgetVars, turnVars, resultVars
<1>1. Authoring => Observing
  BY DEF Authoring, AuthorTurn, AuthorFault, ResolveActions, ResolveFault, RecordFault, Observing
<1>2. Building => Observing
  <2>1. BuildCandidate \/ BuildFault \/ FilterSurvivors => Observing
    BY DEF BuildCandidate, BuildFault, FilterSurvivors, RecordFault, Observing
  <2>2. FilterEmpty \/ FilterAllRejected => Observing
    BY DEF FilterEmpty, FilterAllRejected, FilterReady, Observing
  <2> QED
    BY <2>1, <2>2 DEF Building
<1>3. Evaluating => Observing
  <2>1. StartSearch \/ SealFault \/ StartAttribution \/ StartConfirmation => Observing
    BY DEF StartSearch, SealFault, StartAttribution, StartConfirmation, Begin, RecordFault,
           Observing
  <2>2. AnswerSearch \/ AnswerConfirmation \/ AnswerAttribution \/ EvaluationFault => Observing
    BY DEF AnswerSearch, AnswerConfirmation, AnswerAttribution, Answer, EvaluationFault,
           RecordFault, Observing
  <2>3. SelectCandidate => Observing
    BY DEF SelectCandidate, Observing
  <2> QED
    BY <2>1, <2>2, <2>3 DEF Evaluating
<1>4. Closing => Observing
  BY DEF Closing, StopSearch, CloseSearch, RecordFault, SealRun, Observing
<1> QED
  BY <1>1, <1>2, <1>3, <1>4 DEF Next

LEMMA ObservationsRebuilt == Spec => []Rebuilt
<1>1. Init => Rebuilt
  <2>1. \A i \in 1..Len(<< >>) : FALSE
    OBVIOUS
  <2> QED
    BY <2>1 DEF Init, Rebuilt
<1>2. IInv /\ JInv /\ Rebuilt /\ [Next]_vars => Rebuilt'
  <2> SUFFICES ASSUME IInv, JInv, Rebuilt, [Next]_vars PROVE Rebuilt'
    OBVIOUS
  <2>1. Observing
    BY NextObserves DEF vars, resultVars, Observing
  <2>2. CASE observations' = observations
    BY <2>2 DEF Rebuilt
  <2>3. ASSUME pc \in {"build", "search"}, NEW candidate, NEW latency,
               observations' = Append(observations, Observation(turn, tokens, candidate, latency))
        PROVE  Rebuilt'
    <3> DEFINE seen == Observation(turn, tokens, candidate, latency)
    <3>1. /\ seen.tokens = tokens /\ seen.candidate = candidate /\ seen.latency = latency
      BY DEF Observation
    <3>2. turn = Len(observations) + 1 /\ Len(observations) \in Nat /\ IsSequence(observations)
          /\ turn \in Nat
      BY <2>3 DEF IInv, TypeOK, JInv, Turned, Measuring, IsSequence
    <3>3. seen = Observation(turn, seen.tokens, seen.candidate, seen.latency)
      BY <3>1, Zenon
    <3> HIDE DEF seen
    <3>4. /\ Len(observations') = Len(observations) + 1
          /\ observations'[Len(observations) + 1] = seen
          /\ \A i \in 1..Len(observations) : observations'[i] = observations[i]
      BY <2>3, <3>2 DEF seen, IsSequence
    <3>5. ASSUME NEW i \in 1..Len(observations')
          PROVE  observations'[i] = Observation(i, observations'[i].tokens,
                                       observations'[i].candidate, observations'[i].latency)
      <4>1. i \in 1..Len(observations) \/ i = turn
        BY <3>2, <3>4
      <4>2. CASE i \in 1..Len(observations)
        <5>1. observations'[i] = observations[i]
          BY <3>4, <4>2
        <5>2. observations[i] = Observation(i, observations[i].tokens,
                                    observations[i].candidate, observations[i].latency)
          BY <4>2 DEF Rebuilt
        <5> QED
          BY <5>1, <5>2, Zenon
      <4>3. CASE i = turn
        <5>1. observations'[i] = seen
          BY <3>2, <3>4, <4>3
        <5> QED
          BY <3>3, <4>3, <5>1, Zenon
      <4> QED
        BY <4>1, <4>2, <4>3
    <3> QED
      BY <3>5 DEF Rebuilt
  <2> QED
    BY <2>1, <2>2, <2>3 DEF Observing
<1> QED
  BY <1>1, <1>2, RunInvariant, PTL DEF Spec

(* What the ledger of a Run says when it is sealed. *)
Bookkept(log, rows, spent, permits, used) ==
    /\ IsSequence(log) /\ IsLog(log) /\ Len(log) \in Nat /\ Len(rows) \in Nat
    /\ Counted(log, Len(rows)) /\ Paid(log, rows, spent) /\ Preceded(log)
    /\ Permits(log, permits) /\ Chained(log, FALSE) /\ Tallied(log, used)
    /\ Sifted(log) /\ Sealed(log, FALSE) /\ Routed(log, Len(rows)) /\ Done(log, rows)

SealKinds == {"checkpoints_projected", "run_terminal"}

(* The two events that seal a Run. *)
ProjectedEvent(now) ==
    [kind |-> "checkpoints_projected", state |-> RalphState(now, closedAt, reason),
     checkpoints |-> Projection(observations, tokens)]
TerminalEvent(now) ==
    [kind |-> "run_terminal", adherence |-> adherence,
     endpoint |-> Endpoint(tokens, adherence, reason, confirmation,
                           RalphState(now, closedAt, reason).exceeded)]

Sealing(log, longer, projected, terminal) ==
    /\ IsSequence(longer) /\ IsLog(longer) /\ Len(longer) = Len(log) + 2
    /\ Adds(log, longer, SealKinds)
    /\ longer[Len(log) + 1] = projected /\ longer[Len(log) + 2] = terminal

LEMMA TwoMore ==
    ASSUME NEW log, IsSequence(log), NEW first, first.kind = "checkpoints_projected",
           NEW second, second.kind = "run_terminal"
    PROVE  Sealing(log, log \o <<first, second>>, first, second)
<1> DEFINE longer == log \o <<first, second>>
           mid == log \o <<first>>
           last == mid \o <<second>>
<1>1. Len(log) \in Nat
  BY LogFacts
<1>2. longer = last
  BY <1>1, PairAppended
<1>3. /\ IsSequence(mid) /\ Len(mid) = Len(log) + 1 /\ mid[Len(log) + 1] = first
      /\ Adds(log, mid, {first.kind})
  BY <1>1, GrowsOne
<1> HIDE DEF mid
<1>4. /\ IsSequence(last) /\ Len(last) = Len(mid) + 1 /\ last[Len(mid) + 1] = second
      /\ Adds(mid, last, {second.kind})
  BY <1>3, GrowsOne
<1> HIDE DEF last, longer
<1>5. last[Len(log) + 1] = first /\ last[Len(log) + 2] = second /\ Len(last) = Len(log) + 2
  BY <1>1, <1>3, <1>4 DEF Adds, Grown
<1>6. Adds(log, last, SealKinds)
  <2>1. Adds(log, last, {first.kind} \cup {second.kind})
    BY <1>3, <1>4, AddsMore
  <2>2. {first.kind} \cup {second.kind} = SealKinds
    BY DEF SealKinds
  <2> QED
    BY <2>1, <2>2, Zenon
<1>7. Sealing(log, last, first, second)
  BY <1>4, <1>5, <1>6, LogFacts DEF Sealing
<1> QED
  BY <1>2, <1>7, Zenon DEF longer

LEMMA SealedBookkept ==
    ASSUME NEW log, NEW longer, NEW projected, NEW terminal,
           Sealing(log, longer, projected, terminal),
           projected.kind = "checkpoints_projected", terminal.kind = "run_terminal",
           NEW now \in Nat, NEW clock \in Nat, NEW rows, NEW spent, NEW permits, NEW used,
           NEW tick \in Nat, clock <= tick, projected.state.elapsed = tick,
           Len(rows) \in Nat,
           Logged(log, now, clock, rows, spent, permits, used, "nothing")
    PROVE  /\ Bookkept(longer, rows, spent, permits, used)
           /\ Ordered(longer, now) /\ Dated(longer, tick)
<1>1. /\ Adds(log, longer, SealKinds) /\ Grown(log, longer) /\ IsLog(log)
      /\ Len(log) \in Nat /\ Len(longer) = Len(log) + 2 /\ IsSequence(longer) /\ IsLog(longer)
      /\ longer[Len(log) + 1] = projected /\ longer[Len(log) + 2] = terminal
  BY DEF Sealing, Adds, Grown, IsLog
<1> DEFINE kinds == SealKinds
<1>2. /\ kinds \cap Marks = {} /\ "provider_turn_completed" \notin kinds
      /\ kinds \cap {"author_actions_resolved", "candidate_set_filtered",
                     "candidate_rejected", "launchable_candidate_sealed",
                     "candidate_selected"} = {}
      /\ kinds \cap (Permissions \cup {"candidate_set_filtered",
                                       "author_actions_resolved"}) = {}
      /\ kinds \cap EvaluationKinds = {} /\ "evaluation_attempt_started" \notin kinds
      /\ kinds \cap {"candidate_set_filtered", "candidate_rejected",
                     "author_actions_resolved"} = {}
      /\ "launchable_candidate_sealed" \notin kinds /\ "diagnosis_routed" \notin kinds
  BY DEF SealKinds, Marks, Permissions, EvaluationKinds
<1>3. \A i \in 1..Len(longer) : i > Len(log) =>
         /\ longer[i].kind \in {"checkpoints_projected", "run_terminal"}
         /\ ~TurnBearing(longer[i]) /\ ~Settling(longer[i])
  <2>1. \A i \in 1..Len(longer) : i > Len(log) =>
           longer[i].kind \in {"checkpoints_projected", "run_terminal"}
    BY <1>1 DEF Adds, SealKinds
  <2> QED
    BY <2>1 DEF TurnBearing, Settling, SearchKinds, EvaluationKinds
<1>4. Adds(log, longer, kinds)
  BY <1>1
<1> HIDE DEF kinds
<1>5. /\ Ordered(longer, now) /\ Counted(longer, Len(rows)) /\ Paid(longer, rows, spent)
      /\ Preceded(longer) /\ Permits(longer, permits) /\ Chained(longer, FALSE)
      /\ Tallied(longer, used) /\ Sifted(longer) /\ Sealed(longer, FALSE)
      /\ Done(longer, rows)
      /\ Routed(longer, IF "nothing" = "selection" THEN Len(rows) + 1 ELSE Len(rows))
  <2>1. /\ (\A i \in 1..Len(longer) :
               i > Len(log) /\ TurnBearing(longer[i]) => longer[i].turn = now)
        /\ (\A i \in 1..Len(longer) : i > Len(log) /\ Settling(longer[i])
               => longer[i].turn \notin 1..Len(rows))
    BY <1>3
  <2>2. PICK owed : owed = "nothing"
    OBVIOUS
  <2>3. Logged(log, now, clock, rows, spent, permits, used, owed)
    BY <2>2
  <2>4. /\ (\A i \in 1..Len(longer) :
               i > Len(log) /\ TurnBearing(longer[i]) => longer[i].turn = now)
           => Ordered(longer, now)
        /\ kinds \cap Marks = {} => Counted(longer, Len(rows))
        /\ "provider_turn_completed" \notin kinds => Paid(longer, rows, spent)
        /\ kinds \cap {"author_actions_resolved", "candidate_set_filtered",
                       "candidate_rejected", "launchable_candidate_sealed",
                       "candidate_selected"} = {} => Preceded(longer)
        /\ kinds \cap (Permissions \cup {"candidate_set_filtered",
                                         "author_actions_resolved"}) = {}
           => Permits(longer, permits)
        /\ kinds \cap EvaluationKinds = {} /\ owed # "answer" => Chained(longer, FALSE)
        /\ "evaluation_attempt_started" \notin kinds => Tallied(longer, used)
        /\ kinds \cap {"candidate_set_filtered", "candidate_rejected",
                       "author_actions_resolved"} = {} => Sifted(longer)
        /\ "launchable_candidate_sealed" \notin kinds /\ owed # "start"
           => Sealed(longer, FALSE)
        /\ "diagnosis_routed" \notin kinds
           => Routed(longer, IF owed = "selection" THEN Len(rows) + 1 ELSE Len(rows))
        /\ (\A i \in 1..Len(longer) : i > Len(log) /\ Settling(longer[i])
               => longer[i].turn \notin 1..Len(rows))
           => Done(longer, rows)
    BY ONLY <1>4, <2>3, now \in Nat, Len(rows) \in Nat, LoggedKept
  <2>5. owed # "answer" /\ owed # "start"
    BY <2>2
  <2> QED
    BY <1>2, <2>1, <2>2, <2>4, <2>5
<1>6. Routed(longer, Len(rows))
  BY <1>5
<1>7. Dated(longer, tick)
  <2>1. \A i \in 1..Len(longer) : i > Len(log) => i = Len(log) + 1 \/ i = Len(log) + 2
    BY <1>1
  <2>2. ~Clocked(longer[Len(log) + 2]) /\ ClockOf(longer[Len(log) + 1]) = tick
    BY <1>1 DEF Clocked, ClockOf
  <2>3. \A i \in 1..Len(longer) : i > Len(log) /\ Clocked(longer[i])
              => /\ ClockOf(longer[i]) \in Nat
                 /\ clock <= ClockOf(longer[i]) /\ ClockOf(longer[i]) <= tick
    BY <2>1, <2>2
  <2>4. \A i, j \in 1..Len(longer) :
              i > Len(log) /\ i < j /\ Clocked(longer[i]) /\ Clocked(longer[j])
              => ClockOf(longer[i]) <= ClockOf(longer[j])
    <3>1. \A i, j \in 1..Len(longer) : i > Len(log) /\ i < j => j = Len(log) + 2
      BY <1>1, <2>1
    <3> QED
      BY <2>2, <3>1
  <2>5. Dated(log, clock)
    BY DEF Logged
  <2> QED
    BY <1>1, <2>3, <2>4, <2>5, DatedGrows
<1>8. Len(longer) \in Nat
  BY <1>1 DEF IsLog
<1> QED
  BY <1>1, <1>5, <1>6, <1>7, <1>8, Zenon DEF Bookkept

LEMMA SealStep ==
    ASSUME IInv, JInv, KInv, SealRun
    PROVE  /\ pc = "seal" /\ pc' = "sealed"
           /\ elapsed \in Nat /\ elapsed' \in Nat /\ elapsed <= elapsed'
           /\ UNCHANGED <<turn, stage, authoring, counts, compilations, closedAt, tokens, active,
                          observations, source, confirmation, adherence, reason>>
           /\ ProjectionDefined(observations, tokens)
           /\ EndpointDefined(observations, tokens, adherence, reason, confirmation)
           /\ Sealing(ledger, ledger', ProjectedEvent(elapsed'), TerminalEvent(elapsed'))
           /\ Bookkept(ledger', observations, tokens, compilations, counts)
           /\ Ordered(ledger', turn) /\ Dated(ledger', Rounded(elapsed'))
<1>1. PICK duration \in Durations :
         /\ pc = "seal"
         /\ elapsed' = elapsed + duration
         /\ ProjectionDefined(observations, tokens)
         /\ EndpointDefined(observations, tokens, adherence, reason, confirmation)
         /\ ledger' = ledger \o <<ProjectedEvent(elapsed'), TerminalEvent(elapsed')>>
         /\ pc' = "sealed"
         /\ UNCHANGED <<turn, stage, authoring, budgetVars, tokens, turnVars, active,
                        resultVars, outcomeVars>>
  BY DEF SealRun, ProjectedEvent, TerminalEvent
<1>2. elapsed \in Nat /\ elapsed' \in Nat /\ elapsed <= elapsed'
  BY <1>1, InputAssumption DEF IInv, TypeOK
<1>3. /\ InOrder /\ IsSequence(ledger) /\ Rounded(elapsed) \in Nat /\ turn \in Nat
      /\ Len(observations) \in Nat
  BY <1>1, KFacts
<1>4. Rounded(elapsed') \in Nat /\ Rounded(elapsed) <= Rounded(elapsed')
  BY <1>2, RoundedGrows
<1>5. Logged(ledger, turn, Rounded(elapsed), observations, tokens, compilations, counts,
             "nothing")
  <2>1. (IF pc = "evaluate" THEN "answer" ELSE "nothing") = "nothing"
    BY <1>1
  <2> QED
    BY <1>3, <2>1, LoggedNow
<1> DEFINE projected == ProjectedEvent(elapsed')
           terminal == TerminalEvent(elapsed')
<1>6. /\ projected.kind = "checkpoints_projected" /\ terminal.kind = "run_terminal"
      /\ projected.state.elapsed = Rounded(elapsed')
  BY DEF ProjectedEvent, TerminalEvent, RalphState
<1>7. ledger' = ledger \o <<projected, terminal>>
  BY <1>1
<1> HIDE DEF projected, terminal
<1>8. Sealing(ledger, ledger', projected, terminal)
  <2>1. Sealing(ledger, ledger \o <<projected, terminal>>, projected, terminal)
    BY ONLY <1>3, <1>6, TwoMore
  <2> QED
    BY <1>7, <2>1, Zenon
<1>9. /\ Bookkept(ledger', observations, tokens, compilations, counts)
      /\ Ordered(ledger', turn) /\ Dated(ledger', Rounded(elapsed'))
  <2>1. PICK tick, clock : tick = Rounded(elapsed') /\ clock = Rounded(elapsed)
    OBVIOUS
  <2>2. /\ tick \in Nat /\ clock \in Nat /\ clock <= tick /\ projected.state.elapsed = tick
        /\ Logged(ledger, turn, clock, observations, tokens, compilations, counts, "nothing")
    BY <1>3, <1>4, <1>5, <1>6, <2>1, Zenon
  <2>3. /\ Bookkept(ledger', observations, tokens, compilations, counts)
        /\ Ordered(ledger', turn) /\ Dated(ledger', tick)
    BY ONLY <1>3, <1>6, <1>8, <2>2, SealedBookkept
  <2> QED
    BY <2>1, <2>3, Zenon
<1>10. UNCHANGED <<turn, stage, authoring, counts, compilations, closedAt, tokens, active,
                   observations, source, confirmation, adherence, reason>>
  BY <1>1 DEF budgetVars, resultVars, outcomeVars
<1>11. Sealing(ledger, ledger', ProjectedEvent(elapsed'), TerminalEvent(elapsed'))
  BY <1>8, Zenon DEF projected, terminal
<1> QED
  BY <1>1, <1>2, <1>9, <1>10, <1>11

LEMMA ShapedReplays ==
    ASSUME NEW log, NEW longer, NEW projected, NEW terminal,
           Sealing(log, longer, projected, terminal),
           projected.kind = "checkpoints_projected", terminal.kind = "run_terminal",
           Formed(log)
    PROVE  Shaped(longer)
<1>1. /\ IsLog(log) /\ Len(log) \in Nat /\ Len(longer) = Len(log) + 2 /\ Len(log) >= 1
      /\ DOMAIN longer = 1..(Len(log) + 2)
      /\ longer[Len(log) + 1] = projected /\ longer[Len(log) + 2] = terminal
      /\ \A i \in 1..Len(log) : longer[i] = log[i]
  BY DEF Sealing, Adds, Grown, IsLog, Formed
<1>2. \A i \in 1..(Len(log) + 2) :
         \/ i = 1 \/ i \in 2..Len(log) \/ i = Len(log) + 1 \/ i = Len(log) + 2
  BY <1>1
<1>3. /\ longer[1].kind = "run_started" /\ 1 \in 1..(Len(log) + 2)
      /\ \A i \in 2..Len(log) : longer[i].kind \in OpenKinds
      /\ longer[Len(log) + 1].kind = "checkpoints_projected"
      /\ longer[Len(log) + 2].kind = "run_terminal"
      /\ Len(log) + 1 \in 1..(Len(log) + 2) /\ Len(log) + 2 \in 1..(Len(log) + 2)
  <2>1. \A i \in 2..Len(log) : i \in 1..Len(log)
    BY <1>1
  <2> QED
    BY <1>1, <2>1 DEF Formed
<1>4. At(longer, "run_started") = {1}
  BY <1>1, <1>2, <1>3 DEF At, OpenKinds
<1>5. At(longer, "checkpoints_projected") = {Len(log) + 1}
  BY <1>1, <1>2, <1>3 DEF At, OpenKinds
<1>6. At(longer, "run_terminal") = {Len(log) + 2}
  BY <1>1, <1>2, <1>3 DEF At, OpenKinds
<1>7. Unique(longer, "run_started") /\ Unique(longer, "checkpoints_projected")
      /\ Unique(longer, "run_terminal")
  <2>1. ASSUME NEW x PROVE Cardinality({x}) = 1
    BY FS_Singleton
  <2> QED
    BY <1>4, <1>5, <1>6, <2>1, Zenon DEF Unique
<1>8. \A i \in DOMAIN longer : longer[i].kind \in Kinds
  <2>1. {"run_started", "checkpoints_projected", "run_terminal"} \subseteq Kinds
    BY DEF Kinds
  <2>2. OpenKinds \subseteq Kinds
    BY DEF OpenKinds
  <2> QED
    BY <1>1, <1>2, <1>3, <2>1, <2>2
<1>9. Projected(longer).kind = "checkpoints_projected" /\ Terminal(longer).kind = "run_terminal"
  <2>1. Len(longer) - 1 = Len(log) + 1
    BY <1>1
  <2> QED
    BY <1>1, <2>1 DEF Projected, Terminal
<1>10. Len(longer) >= 3
  BY <1>1
<1> QED
  BY <1>3, <1>7, <1>8, <1>9, <1>10 DEF Shaped

(* The completed turns of a sealed ledger, and what they cost.             *)
LEMMA OneOnly ==
    ASSUME NEW log, NEW D, NEW i, D = {i}
    PROVE  The(log, D) = log[i] /\ Cardinality(D) = 1
<1>1. (CHOOSE j \in {i} : TRUE) = i
  OBVIOUS
<1>2. Cardinality({i}) = 1
  BY FS_Singleton
<1> QED
  BY <1>1, <1>2, Zenon DEF The

LEMMA TurnFacts ==
    ASSUME NEW log, NEW rows, NEW spent, NEW permits, NEW used,
           Bookkept(log, rows, spent, permits, used)
    PROVE  /\ \A kind \in Marks : \A t \in 1..Len(rows) :
                 \E i \in DOMAIN log : AtTurn(log, kind, t) = {i}
           /\ \A kind \in Marks : \A i \in At(log, kind) : log[i].turn \in 1..(Len(rows) + 1)
           /\ \A kind \in Marks : AtTurn(log, kind, Len(rows) + 1) # {} =>
                 \E i \in DOMAIN log : AtTurn(log, kind, Len(rows) + 1) = {i}
           /\ \A t \in 1..Len(rows) : TokensAt(log, t) = rows[t].tokens
           /\ AtTurn(log, "provider_turn_completed", Len(rows) + 1) # {} =>
                 TurnCount(log) = Len(rows) + 1 /\ TokensAt(log, Len(rows) + 1) = spent
           /\ AtTurn(log, "provider_turn_completed", Len(rows) + 1) = {} =>
                 TurnCount(log) = Len(rows)
<1>1. Len(rows) \in Nat /\ IsLog(log)
      /\ Counted(log, Len(rows)) /\ Paid(log, rows, spent)
  BY DEF Bookkept
<1>2. \A kind \in Marks : Numbered(log, kind, Len(rows))
  BY <1>1 DEF Counted, Marks
<1>3. ASSUME NEW kind \in Marks
      PROVE  AtTurn(log, kind, Len(rows) + 1) # {} =>
                \E i \in DOMAIN log : AtTurn(log, kind, Len(rows) + 1) = {i}
  <2> SUFFICES ASSUME AtTurn(log, kind, Len(rows) + 1) # {}
               PROVE  \E i \in DOMAIN log : AtTurn(log, kind, Len(rows) + 1) = {i}
    OBVIOUS
  <2>1. PICK i : i \in AtTurn(log, kind, Len(rows) + 1)
    OBVIOUS
  <2>2. \A j \in AtTurn(log, kind, Len(rows) + 1) : j = i
    BY <1>2, <2>1 DEF Numbered
  <2>3. i \in DOMAIN log
    BY <2>1 DEF AtTurn, At
  <2> QED
    BY <2>1, <2>2, <2>3
<1>4. \A kind \in Marks : \A t \in 1..Len(rows) :
         \E i \in DOMAIN log : AtTurn(log, kind, t) = {i}
  BY <1>2 DEF Numbered
<1>5. \A kind \in Marks : \A i \in At(log, kind) : log[i].turn \in 1..(Len(rows) + 1)
  BY <1>2 DEF Numbered
<1>6. "provider_turn_completed" \in Marks
  BY DEF Marks
<1>7. ASSUME NEW t, NEW i \in DOMAIN log, AtTurn(log, "provider_turn_completed", t) = {i}
      PROVE  TokensAt(log, t) = IF t <= Len(rows) THEN rows[t].tokens ELSE spent
  <2>1. TokensAt(log, t) = log[i].tokens
    BY <1>7, OneOnly, Zenon DEF TokensAt
  <2>2. i \in At(log, "provider_turn_completed") /\ log[i].turn = t
    BY <1>7 DEF AtTurn
  <2>3. log[i].tokens = IF log[i].turn <= Len(rows) THEN rows[log[i].turn].tokens ELSE spent
    BY <1>1, <2>2, Zenon DEF Paid
  <2> QED
    BY <2>1, <2>2, <2>3, Zenon
<1>8. \A t \in 1..Len(rows) : TokensAt(log, t) = rows[t].tokens
  <2> TAKE t \in 1..Len(rows)
  <2>1. PICK i \in DOMAIN log : AtTurn(log, "provider_turn_completed", t) = {i}
    BY <1>4, <1>6
  <2>2. TokensAt(log, t) = IF t <= Len(rows) THEN rows[t].tokens ELSE spent
    BY <1>7, <2>1
  <2>3. t <= Len(rows)
    BY <1>1
  <2> QED
    BY <2>2, <2>3
<1>9. AtTurn(log, "provider_turn_completed", Len(rows) + 1) # {} =>
         TokensAt(log, Len(rows) + 1) = spent
  <2> SUFFICES ASSUME AtTurn(log, "provider_turn_completed", Len(rows) + 1) # {}
               PROVE  TokensAt(log, Len(rows) + 1) = spent
    OBVIOUS
  <2>1. PICK i \in DOMAIN log : AtTurn(log, "provider_turn_completed", Len(rows) + 1) = {i}
    BY <1>3, <1>6
  <2> DEFINE t == Len(rows) + 1
  <2>2. ~(t <= Len(rows))
    BY <1>1
  <2> HIDE DEF t
  <2>3. AtTurn(log, "provider_turn_completed", t) = {i}
    BY <2>1 DEF t
  <2>4. TokensAt(log, t) = IF t <= Len(rows) THEN rows[t].tokens ELSE spent
    BY <1>7, <2>3
  <2> QED
    BY <2>2, <2>4 DEF t
<1>10. Cardinality(At(log, "provider_turn_completed")) =
          IF AtTurn(log, "provider_turn_completed", Len(rows) + 1) = {}
          THEN Len(rows) ELSE Len(rows) + 1
  BY <1>1, <1>2, <1>6, NumberedCount
<1> QED
  BY <1>3, <1>4, <1>5, <1>8, <1>9, <1>10 DEF TurnCount

(* replay/provider.py on the ledger of a sealed Run. *)
LEMMA TurnsReplayed ==
    ASSUME NEW log, NEW rows, NEW spent, NEW permits, NEW used,
           Bookkept(log, rows, spent, permits, used), ProjectionDefined(rows, spent),
           AtTurn(log, "provider_turn_completed", Len(rows) + 1) # {} =>
              \A i \in 1..Len(rows) : rows[i].tokens < spent
    PROVE  TurnsReplay(log)
<1> DEFINE completed(t) == AtTurn(log, "provider_turn_completed", t)
<1>1. Len(rows) \in Nat
  BY DEF Bookkept
<1>2. "provider_turn_completed" \in Marks
  BY DEF Marks
<1>3. /\ \A t \in 1..Len(rows) : \E i \in DOMAIN log : completed(t) = {i}
      /\ completed(Len(rows) + 1) # {} => \E i \in DOMAIN log : completed(Len(rows) + 1) = {i}
      /\ \A t \in 1..Len(rows) : TokensAt(log, t) = rows[t].tokens
      /\ completed(Len(rows) + 1) # {} =>
            TurnCount(log) = Len(rows) + 1 /\ TokensAt(log, Len(rows) + 1) = spent
      /\ completed(Len(rows) + 1) = {} => TurnCount(log) = Len(rows)
      /\ completed(Len(rows) + 1) # {} => \A i \in 1..Len(rows) : rows[i].tokens < spent
  BY <1>2, TurnFacts
<1> HIDE DEF completed
<1>4. ASSUME NEW t \in 1..TurnCount(log)
      PROVE  Cardinality(completed(t)) = 1 /\ (t > 1 => TokensAt(log, t - 1) < TokensAt(log, t))
  <2>1. t \in 1..Len(rows) \/ (t = Len(rows) + 1 /\ completed(Len(rows) + 1) # {})
    BY <1>1, <1>3
  <2>2. \E i \in DOMAIN log : completed(t) = {i}
    BY <1>3, <2>1
  <2>3. Cardinality(completed(t)) = 1
    BY <2>2, OneOnly
  <2>4. ASSUME t > 1 PROVE TokensAt(log, t - 1) < TokensAt(log, t)
    <3>1. t - 1 \in 1..Len(rows)
      BY <1>1, <2>1, <2>4
    <3>2. TokensAt(log, t - 1) = rows[t - 1].tokens
      BY <1>3, <3>1
    <3>3. CASE t \in 1..Len(rows)
      <4>1. rows[t - 1].tokens < rows[t].tokens
        BY <2>4, <3>3 DEF ProjectionDefined
      <4> QED
        BY <1>3, <3>2, <3>3, <4>1
    <3>4. CASE t = Len(rows) + 1 /\ completed(Len(rows) + 1) # {}
      <4>1. rows[t - 1].tokens < spent
        BY <1>3, <3>1, <3>4
      <4> QED
        BY <1>3, <3>2, <3>4, <4>1
    <3> QED
      BY <2>1, <3>3, <3>4
  <2> QED
    BY <2>3, <2>4
<1> QED
  BY <1>4 DEF TurnsReplay, completed

(* What cut the turn in progress short, if anything did.                   *)
Interruption(log, rows) ==
    /\ FaultTurn(log) \notin 1..Len(rows)
    /\ AtTurn(log, "provider_turn_completed", Len(rows) + 1) # {}
          => FaultTurn(log) = Len(rows) + 1
    /\ AtTurn(log, "candidate_selected", Len(rows) + 1) = {}

(* How a sealed ledger ends: the Run adhered and no turn is open, or its   *)
(* fault stands before the two events that seal it.                        *)
Before(rows) == IF rows = << >> THEN 0 ELSE rows[Len(rows)].tokens
FaultAt(log, rows, spent, why, fault) ==
    /\ Faults(log) = {Len(log) - 2} /\ fault = log[Len(log) - 2]
    /\ fault.fault = why /\ fault.tokens = spent
    /\ fault.stage # "provider" => fault.usage = 0
    /\ IF fault.origin = "turn"
       THEN /\ fault.turn = Len(rows) + 1
            /\ AtTurn(log, "provider_turn_completed", Len(rows) + 1) # {}
                  <=> fault.stage # "provider"
            /\ fault.stage = "provider" => spent = Before(rows) + fault.usage
            /\ fault.stage # "provider" => \A i \in 1..Len(rows) : rows[i].tokens < spent
       ELSE /\ fault.origin = "source_turn" /\ fault.stage = "evaluation"
            /\ AtTurn(log, "provider_turn_completed", Len(rows) + 1) = {}
            /\ spent = Before(rows)
Ending(log, rows, spent, why) ==
    /\ spent \in Nat /\ Terminal(log).adherence = why
    /\ AtTurn(log, "candidate_selected", Len(rows) + 1) = {}
    /\ why = "adhered" =>
          /\ Faults(log) = {} /\ spent = Before(rows)
          /\ AtTurn(log, "provider_turn_completed", Len(rows) + 1) = {}
    /\ why # "adhered" => FaultAt(log, rows, spent, why, log[Len(log) - 2])

LEMMA SealedSame ==
    ASSUME NEW log, NEW longer, NEW projected, NEW terminal,
           Sealing(log, longer, projected, terminal)
    PROVE  /\ \A kind : kind \notin SealKinds => At(longer, kind) = At(log, kind)
           /\ \A kind, t : kind \notin SealKinds => AtTurn(longer, kind, t) = AtTurn(log, kind, t)
           /\ \A i \in 1..Len(log) : longer[i] = log[i]
           /\ Len(log) \in Nat /\ Len(longer) = Len(log) + 2 /\ Len(longer) - 2 = Len(log)
           /\ Terminal(longer) = terminal /\ Projected(longer) = projected
<1>1. /\ Adds(log, longer, SealKinds) /\ Len(log) \in Nat /\ Len(longer) = Len(log) + 2
      /\ longer[Len(log) + 1] = projected /\ longer[Len(log) + 2] = terminal
      /\ \A i \in 1..Len(log) : longer[i] = log[i]
  BY DEF Sealing, Adds, Grown, IsLog
<1>2. ASSUME NEW kind, kind \notin SealKinds
      PROVE  At(longer, kind) = At(log, kind)
  BY ONLY <1>1, <1>2, AtSame
<1>3. ASSUME NEW kind, NEW t, kind \notin SealKinds
      PROVE  AtTurn(longer, kind, t) = AtTurn(log, kind, t)
  BY ONLY <1>1, <1>3, AtTurnSame
<1>4. Len(longer) - 1 = Len(log) + 1 /\ Len(longer) - 2 = Len(log)
  BY <1>1
<1>5. Terminal(longer) = terminal /\ Projected(longer) = projected
  BY <1>1, <1>4 DEF Terminal, Projected
<1> QED
  BY <1>1, <1>2, <1>3, <1>4, <1>5

LEMMA SealedEnding ==
    ASSUME IInv, JInv, KInv, SealRun
    PROVE  Ending(ledger', observations, tokens, adherence)
<1>1. /\ pc = "seal" /\ Sealing(ledger, ledger', ProjectedEvent(elapsed'), TerminalEvent(elapsed'))
  BY SealStep
<1>2. /\ Standing /\ Faulted /\ tokens \in Nat /\ Len(ledger) \in Nat
      /\ source # 0 => source \in 1..Len(observations)
  BY <1>1, KFacts
<1>3. PICK longer, terminal, projected :
         /\ longer = ledger' /\ terminal = TerminalEvent(elapsed')
         /\ projected = ProjectedEvent(elapsed')
  OBVIOUS
<1>4. Sealing(ledger, longer, projected, terminal)
  BY <1>1, <1>3, Zenon
<1>5. /\ \A kind : kind \notin SealKinds => At(longer, kind) = At(ledger, kind)
      /\ \A kind, t : kind \notin SealKinds => AtTurn(longer, kind, t) = AtTurn(ledger, kind, t)
      /\ \A i \in 1..Len(ledger) : longer[i] = ledger[i]
      /\ Len(longer) - 2 = Len(ledger) /\ Terminal(longer) = terminal
  BY <1>4, SealedSame
<1>6. /\ Faults(longer) = Faults(ledger)
      /\ AtTurn(longer, "provider_turn_completed", Upcoming)
            = AtTurn(ledger, "provider_turn_completed", Upcoming)
      /\ AtTurn(longer, "candidate_selected", Upcoming)
            = AtTurn(ledger, "candidate_selected", Upcoming)
  BY <1>5 DEF Faults, SealKinds
<1>7. terminal.adherence = adherence
  BY <1>3 DEF TerminalEvent
<1>8. ~Measuring
  BY <1>1 DEF Measuring
<1>9. BeforeTokens = Before(observations)
  BY DEF BeforeTokens, Before
<1>10. AtTurn(longer, "candidate_selected", Upcoming) = {}
  BY <1>2, <1>6 DEF Standing, Has
<1>11. ASSUME adherence = "adhered"
       PROVE  /\ Faults(longer) = {} /\ tokens = Before(observations)
              /\ AtTurn(longer, "provider_turn_completed", Upcoming) = {}
  BY <1>2, <1>6, <1>8, <1>9, <1>11 DEF Faulted, Standing, Has
<1>12. ASSUME adherence # "adhered"
       PROVE  FaultAt(longer, observations, tokens, adherence, longer[Len(longer) - 2])
  <2> DEFINE fault == ledger[Len(ledger)]
  <2>1. /\ Faults(ledger) = {Len(ledger)}
        /\ fault.fault = adherence
        /\ fault.origin = Origin.origin /\ fault.turn = Origin.turn
        /\ fault.tokens = tokens
        /\ fault.stage # "provider" => fault.usage = 0
        /\ source = 0 =>
              /\ turn = Upcoming
              /\ Has("provider_turn_completed") <=> fault.stage # "provider"
              /\ fault.stage = "provider" => tokens = BeforeTokens + fault.usage
              /\ fault.stage # "provider" =>
                    \A i \in 1..Len(observations) : observations[i].tokens < tokens
        /\ source # 0 => /\ fault.stage = "evaluation" /\ tokens = BeforeTokens
                         /\ ~Has("provider_turn_completed")
    BY <1>2, <1>12 DEF Faulted
  <2>2. Len(ledger) \in Faults(ledger)
    BY <2>1
  <2>3. Len(ledger) \in 1..Len(ledger)
    BY <1>2, <2>2, LogFacts DEF Faults, At, JInv, Recorded, IsLog
  <2>4. longer[Len(longer) - 2] = fault /\ Faults(longer) = {Len(longer) - 2}
    BY <1>5, <1>6, <2>1, <2>3
  <2>5. (source = 0 => Origin.origin = "turn" /\ Origin.turn = turn)
        /\ (source # 0 => Origin.origin = "source_turn")
    BY DEF Origin
  <2>6. Has("provider_turn_completed") <=> AtTurn(longer, "provider_turn_completed", Upcoming) # {}
    BY <1>6 DEF Has
  <2> HIDE DEF fault
  <2>7. FaultAt(longer, observations, tokens, adherence, fault)
    BY <1>9, <2>1, <2>4, <2>5, <2>6 DEF FaultAt, Upcoming
  <2> QED
    BY <2>4, <2>7, Zenon
<1>13. Ending(longer, observations, tokens, adherence)
  BY <1>2, <1>5, <1>7, <1>10, <1>11, <1>12 DEF Ending, Upcoming
<1> QED
  BY <1>3, <1>13, Zenon

(* What the replay reads off that ending. *)
LEMMA EndingFacts ==
    ASSUME NEW log, NEW rows, NEW spent, NEW permits, NEW used, NEW why,
           Bookkept(log, rows, spent, permits, used), Ending(log, rows, spent, why),
           IsSequence(rows)
    PROVE  /\ Interruption(log, rows) /\ FaultPlaced(log)
           /\ TerminalTokens(log) = spent
           /\ AtTurn(log, "provider_turn_completed", Len(rows) + 1) # {} =>
                 \A i \in 1..Len(rows) : rows[i].tokens < spent
<1> DEFINE next == Len(rows) + 1
           completed == AtTurn(log, "provider_turn_completed", next)
           fault == log[Len(log) - 2]
<1>1. Len(rows) \in Nat /\ Len(log) \in Nat /\ spent \in Nat /\ next = Len(rows) + 1 /\ next \notin 1..Len(rows)
  BY DEF Bookkept, Ending
<1>2. /\ completed # {} => TurnCount(log) = next /\ TokensAt(log, next) = spent
      /\ completed = {} => TurnCount(log) = Len(rows)
      /\ \A t \in 1..Len(rows) : TokensAt(log, t) = rows[t].tokens
  BY TurnFacts
<1>3. rows = << >> <=> Len(rows) = 0
  BY DEF IsSequence
<1>4. completed = {} => PriorTokens(log) = Before(rows)
  <2> SUFFICES ASSUME completed = {} PROVE PriorTokens(log) = Before(rows)
    OBVIOUS
  <2>1. TurnCount(log) = Len(rows)
    BY <1>2
  <2>2. CASE Len(rows) = 0
    BY <1>3, <2>1, <2>2 DEF PriorTokens, Before
  <2>3. CASE Len(rows) # 0
    <3>1. Len(rows) \in 1..Len(rows)
      BY <1>1, <2>3
    <3>2. TokensAt(log, Len(rows)) = rows[Len(rows)].tokens
      BY <1>2, <3>1
    <3> QED
      BY <1>3, <2>1, <2>3, <3>2, Zenon DEF PriorTokens, Before
  <2> QED
    BY <2>2, <2>3
<1>5. completed # {} => PriorTokens(log) = spent
  <2>1. next # 0
    BY <1>1
  <2> HIDE DEF next, completed
  <2> QED
    BY <1>2, <2>1, Zenon DEF PriorTokens
<1>6. /\ why = "adhered" => /\ Faults(log) = {} /\ spent = Before(rows) /\ completed = {}
      /\ why # "adhered" => FaultAt(log, rows, spent, why, fault)
      /\ AtTurn(log, "candidate_selected", next) = {} /\ Terminal(log).adherence = why
  BY DEF Ending
<1>7. CASE why = "adhered"
  <2>1. Faults(log) = {} /\ spent = Before(rows) /\ completed = {}
    BY <1>6, <1>7
  <2>2. FaultTurn(log) = 0
    BY <2>1 DEF FaultTurn
  <2>3. TerminalTokens(log) = spent
    BY <1>4, <2>1 DEF TerminalTokens
  <2>4. Interruption(log, rows)
    BY <1>1, <1>6, <2>1, <2>2 DEF Interruption
  <2>5. FaultPlaced(log)
    BY <2>1 DEF FaultPlaced
  <2> QED
    BY <2>1, <2>3, <2>4, <2>5
<1>8. CASE why # "adhered"
  <2>1. FaultAt(log, rows, spent, why, fault)
    BY <1>6, <1>8
  <2>2. Faults(log) = {Len(log) - 2}
    BY <2>1 DEF FaultAt
  <2>3. TheFault(log) = fault /\ Cardinality(Faults(log)) = 1
    BY <2>2, OneOnly, Zenon DEF TheFault
  <2>4. Faults(log) # {}
    BY <2>2
  <2>5. TerminalTokens(log) = spent
    BY <2>1, <2>3, <2>4 DEF TerminalTokens, FaultAt
  <2>6. FaultTurn(log) = IF fault.origin = "source_turn" THEN 0 ELSE fault.turn
    BY <2>3, <2>4, Zenon DEF FaultTurn
  <2> HIDE DEF fault
  <2>7. Interruption(log, rows)
    BY <1>1, <1>6, <2>1, <2>6 DEF Interruption, FaultAt
  <2>8. completed # {} => \A i \in 1..Len(rows) : rows[i].tokens < spent
    BY <2>1 DEF FaultAt
  <2>9. fault.tokens = PriorTokens(log) + fault.usage
    BY <1>1, <1>4, <1>5, <2>1 DEF FaultAt
  <2>10. /\ fault.origin = "source_turn" => fault.stage = "evaluation"
         /\ fault.origin # "source_turn" =>
               fault.turn = IF fault.stage = "provider" THEN TurnCount(log) + 1 ELSE TurnCount(log)
    BY <1>1, <1>2, <2>1 DEF FaultAt
  <2>11. Unique(log, "run_fault")
    BY <2>3 DEF Unique, Faults
  <2>12. FaultPlaced(log)
    <3>1. fault.fault = Terminal(log).adherence /\ (fault.stage # "provider" => fault.usage = 0)
      BY <1>6, <2>1 DEF FaultAt
    <3> QED
      BY <2>3, <2>9, <2>10, <2>11, <3>1, Zenon DEF FaultPlaced
  <2> QED
    BY <2>5, <2>7, <2>8, <2>12
<1> QED
  BY <1>7, <1>8

LEMMA OneMark ==
    ASSUME NEW log, NEW rows, NEW spent, NEW permits, NEW used,
           Bookkept(log, rows, spent, permits, used), NEW kind \in Marks, NEW t
    PROVE  \/ AtTurn(log, kind, t) = {} /\ t \notin 1..Len(rows)
           \/ \E i \in DOMAIN log : AtTurn(log, kind, t) = {i} /\ t \in 1..(Len(rows) + 1)
<1>1. Len(rows) \in Nat
  BY DEF Bookkept
<1>2. /\ \A u \in 1..Len(rows) : \E i \in DOMAIN log : AtTurn(log, kind, u) = {i}
      /\ \A i \in At(log, kind) : log[i].turn \in 1..(Len(rows) + 1)
      /\ AtTurn(log, kind, Len(rows) + 1) # {} =>
            \E i \in DOMAIN log : AtTurn(log, kind, Len(rows) + 1) = {i}
  BY TurnFacts
<1>3. CASE t \in 1..Len(rows)
  <2>1. t \in 1..(Len(rows) + 1)
    BY <1>1, <1>3
  <2> QED
    BY <1>2, <1>3, <2>1
<1>4. CASE t \notin 1..Len(rows) /\ AtTurn(log, kind, t) # {}
  <2>1. PICK i : i \in AtTurn(log, kind, t)
    BY <1>4
  <2>2. t \in 1..(Len(rows) + 1)
    BY <1>2, <2>1 DEF AtTurn
  <2>3. t = Len(rows) + 1
    BY <1>1, <1>4, <2>2
  <2> QED
    BY <1>2, <1>4, <2>2, <2>3
<1> QED
  BY <1>3, <1>4

(* The completed turns, by number. *)
LEMMA TurnNumbers ==
    ASSUME NEW log, NEW rows, NEW spent, NEW permits, NEW used,
           Bookkept(log, rows, spent, permits, used)
    PROVE  /\ \A t : t \in 1..TurnCount(log) <=> AtTurn(log, "provider_turn_completed", t) # {}
           /\ \A t \in 1..TurnCount(log) : t \in 1..Len(rows) \/ t = Len(rows) + 1
           /\ \A t \in 1..Len(rows) : t \in 1..TurnCount(log)
<1>1. Len(rows) \in Nat
  BY DEF Bookkept
<1>2. "provider_turn_completed" \in Marks
  BY DEF Marks
<1>3. /\ AtTurn(log, "provider_turn_completed", Len(rows) + 1) # {} =>
            TurnCount(log) = Len(rows) + 1
      /\ AtTurn(log, "provider_turn_completed", Len(rows) + 1) = {} =>
            TurnCount(log) = Len(rows)
  BY TurnFacts
<1>4. \A t : \/ AtTurn(log, "provider_turn_completed", t) = {} /\ t \notin 1..Len(rows)
             \/ AtTurn(log, "provider_turn_completed", t) # {} /\ t \in 1..(Len(rows) + 1)
  <2> TAKE t
  <2>1. \/ AtTurn(log, "provider_turn_completed", t) = {} /\ t \notin 1..Len(rows)
        \/ \E i \in DOMAIN log : AtTurn(log, "provider_turn_completed", t) = {i}
                                 /\ t \in 1..(Len(rows) + 1)
    BY <1>2, OneMark
  <2> QED
    BY <2>1
<1>5. /\ \A t \in 1..TurnCount(log) : t \in 1..Len(rows) \/ t = Len(rows) + 1
      /\ \A t \in 1..Len(rows) : t \in 1..TurnCount(log)
  BY <1>1, <1>3
<1>6. ASSUME NEW t
      PROVE  t \in 1..TurnCount(log) <=> AtTurn(log, "provider_turn_completed", t) # {}
  <2>1. CASE t \in 1..Len(rows)
    BY <1>4, <1>5, <2>1
  <2>2. CASE t = Len(rows) + 1
    BY <1>1, <1>3, <2>2
  <2>3. CASE t \notin 1..Len(rows) /\ t # Len(rows) + 1
    <3>1. t \notin 1..(Len(rows) + 1) /\ t \notin 1..TurnCount(log)
      BY <1>1, <1>3, <2>3
    <3> QED
      BY <1>4, <3>1
  <2> QED
    BY <2>1, <2>2, <2>3
<1> QED
  BY <1>5, <1>6

(* replay/actions.py on the ledger of a sealed Run. *)
LEMMA ActionsReplayed ==
    ASSUME NEW log, NEW rows, NEW spent, NEW permits, NEW used,
           Bookkept(log, rows, spent, permits, used), Interruption(log, rows)
    PROVE  ActionsReplay(log)
<1> DEFINE resolutions(t) == AtTurn(log, "author_actions_resolved", t)
<1>1. "author_actions_resolved" \in Marks /\ Preceded(log)
  BY DEF Marks, Bookkept
<1>2. ASSUME NEW i \in At(log, "author_actions_resolved")
      PROVE  log[i].turn \in 1..TurnCount(log)
  <2>1. AtTurn(log, "provider_turn_completed", log[i].turn) # {}
    BY <1>1 DEF Preceded
  <2> QED
    BY <2>1, TurnNumbers
<1>3. ASSUME NEW t \in 1..TurnCount(log)
      PROVE  /\ Cardinality(resolutions(t)) <= 1
             /\ resolutions(t) = {} => t = FaultTurn(log)
             /\ \A i \in resolutions(t) :
                   /\ \E j \in AtTurn(log, "provider_turn_completed", t) : j < i
                   /\ \A j \in DOMAIN log :
                         log[j].kind \in {"candidate_set_filtered", "candidate_rejected",
                                          "launchable_candidate_sealed", "candidate_selected"}
                         /\ log[j].turn = t => i < j
  <2>1. \/ resolutions(t) = {} /\ t \notin 1..Len(rows)
        \/ \E i \in DOMAIN log : resolutions(t) = {i}
    BY <1>1, OneMark
  <2>2. Cardinality(resolutions(t)) <= 1
    <3>1. Cardinality({}) = 0
      BY FS_EmptySet
    <3>2. (\E i \in DOMAIN log : resolutions(t) = {i}) => Cardinality(resolutions(t)) = 1
      BY OneOnly
    <3>3. resolutions(t) = {} => Cardinality(resolutions(t)) = 0
      BY <3>1, Zenon
    <3> QED
      BY <2>1, <3>2, <3>3
  <2>3. resolutions(t) = {} => t = FaultTurn(log)
    <3>1. ASSUME t \notin 1..Len(rows) PROVE t = FaultTurn(log)
      <4>1. t = Len(rows) + 1 /\ AtTurn(log, "provider_turn_completed", t) # {}
        BY <3>1, TurnNumbers
      <4> QED
        BY <4>1 DEF Interruption
    <3> QED
      BY <2>1, <3>1
  <2>4. ASSUME NEW i \in resolutions(t)
        PROVE  /\ \E j \in AtTurn(log, "provider_turn_completed", t) : j < i
               /\ \A j \in DOMAIN log :
                     log[j].kind \in {"candidate_set_filtered", "candidate_rejected",
                                      "launchable_candidate_sealed", "candidate_selected"}
                     /\ log[j].turn = t => i < j
    <3>1. i \in At(log, "author_actions_resolved") /\ log[i].turn = t
      BY DEF AtTurn
    <3>2. \E j \in AtTurn(log, "provider_turn_completed", t) : j < i
      BY <1>1, <3>1 DEF Preceded
    <3>3. ASSUME NEW j \in DOMAIN log, log[j].turn = t,
                 log[j].kind \in {"candidate_set_filtered", "candidate_rejected",
                                  "launchable_candidate_sealed", "candidate_selected"}
          PROVE  i < j
      <4>1. j \in 1..Len(log)
        BY DEF Bookkept, IsLog
      <4>2. \E k \in resolutions(log[j].turn) : k < j
        BY <1>1, <3>3, <4>1 DEF Preceded
      <4>3. PICK k \in resolutions(t) : k < j
        BY <3>3, <4>2
      <4>4. k = i
        BY <2>1
      <4> QED
        BY <4>3, <4>4
    <3> QED
      BY <3>2, <3>3
  <2> QED
    BY <2>2, <2>3, <2>4
<1> QED
  BY <1>2, <1>3 DEF ActionsReplay

(* replay/compilations.py on the ledger of a sealed Run. *)
LEMMA CompilationsReplayed ==
    ASSUME NEW log, NEW rows, NEW spent, NEW permits, NEW used,
           Bookkept(log, rows, spent, permits, used), permits <= MaximumCompilations,
           \A i \in At(log, "search_completed") \cup At(log, "checkpoints_projected") :
              log[i].state.compilations = permits
    PROVE  CompilationsReplay(log)
<1>1. Permits(log, permits)
  BY DEF Bookkept
<1>2. CompilationCount(log) = permits
  BY <1>1 DEF Permits
<1>3. ASSUME NEW i \in At(log, "compilation_started")
      PROVE  /\ PermitPlaced(log, i)
             /\ log[i].number = Earlier(At(log, "compilation_started"), i) + 1
             /\ log[i + 1].kind = "compilation_completed"
  BY <1>1 DEF Permits
<1>4. ASSUME NEW i \in At(log, "compilation_completed")
      PROVE  /\ log[i - 1].kind = "compilation_started"
             /\ \A field \in {"turn", "candidate", "number"} : log[i][field] = log[i - 1][field]
  BY <1>1 DEF Permits
<1>5. ASSUME NEW i \in At(log, "compilation_refused")
      PROVE  /\ PermitPlaced(log, i)
             /\ Earlier(At(log, "compilation_started"), i) = MaximumCompilations
             /\ \A j \in AtTurn(log, "candidate_set_filtered", log[i].turn) :
                   \A n \in DOMAIN log[j].order :
                       log[j].order[n].candidate = log[i].candidate
                           => ~log[j].order[n].launchable
  BY <1>1 DEF Permits, Unlaunched
<1> QED
  BY <1>2, <1>3, <1>4, <1>5 DEF CompilationsReplay

(* An Evaluation is evaluated at most once. *)
LEMMA EvaluatedOnce ==
    ASSUME NEW log, IsLog(log), Chained(log, FALSE), NEW key
    PROVE  \A i, j \in Evaluated(log, key) : i = j
<1>1. ASSUME NEW i \in At(log, "candidate_evaluated")
      PROVE  /\ i - 2 \in At(log, "evaluation_attempt_started") /\ i \in Nat
             /\ EvaluationKey(log[i - 2]) = EvaluationKey(log[i])
  <2>1. i > 1 /\ log[i - 1].kind = "evaluation_attempt_completed" /\ SameInvocation(log, i - 1, i)
    BY DEF Chained
  <2>2. i \in 1..Len(log) /\ Len(log) \in Nat
    BY DEF At, IsLog
  <2>3. i - 1 \in At(log, "evaluation_attempt_completed")
    BY <2>1, <2>2 DEF At, IsLog
  <2>4. /\ i - 1 > 1 /\ log[(i - 1) - 1].kind = "evaluation_attempt_started"
        /\ SameInvocation(log, (i - 1) - 1, i - 1)
    BY <2>3 DEF Chained
  <2>5. (i - 1) - 1 = i - 2
    BY <2>2
  <2>6. i - 2 \in At(log, "evaluation_attempt_started")
    BY <2>2, <2>4, <2>5 DEF At, IsLog
  <2> QED
    BY <2>1, <2>2, <2>4, <2>5, <2>6 DEF SameInvocation
<1>2. ASSUME NEW i \in Evaluated(log, key), NEW j \in Evaluated(log, key)
      PROVE  i = j
  <2>1. /\ i \in At(log, "candidate_evaluated") /\ j \in At(log, "candidate_evaluated")
        /\ EvaluationKey(log[i]) = EvaluationKey(log[j])
    BY DEF Evaluated
  <2>2. i - 2 = j - 2 /\ i \in Nat /\ j \in Nat
    BY <1>1, <2>1 DEF Chained
  <2> QED
    BY <2>2
<1> QED
  BY <1>2

LEMMA TheEvaluated ==
    ASSUME NEW log, IsLog(log), Chained(log, FALSE), NEW key, NEW i \in Evaluated(log, key)
    PROVE  Evaluated(log, key) = {i} /\ The(log, Evaluated(log, key)) = log[i]
<1>1. Evaluated(log, key) = {i}
  <2>1. \A j, k \in Evaluated(log, key) : j = k
    BY EvaluatedOnce
  <2> QED
    BY <2>1
<1> QED
  BY <1>1, OneOnly

LEMMA StartIsPlaced ==
    ASSUME NEW log, IsLog(log), Chained(log, FALSE),
           NEW i \in At(log, "evaluation_attempt_started")
    PROVE  StartPlaced(log, i)
<1> DEFINE event == log[i]
           searchKey == <<event.turn, "search", event.candidate>>
           confirmedKey == <<event.turn, "confirmatory", event.candidate>>
<1>1. Placed(log, i)
  BY DEF Chained
<1>2. \A j \in At(log, "evaluation_attempt_started") :
         EvaluationKey(log[j]) = EvaluationKey(event) => j = i
  BY DEF Chained
<1>3. i \in Nat /\ \A kind : \A j \in At(log, kind) : j \in Nat
  BY DEF At, IsLog
<1>4. \E j \in SealedAt(log, event.turn, event.candidate) : j < i
  BY <1>1 DEF Placed
<1>5. IF event.origin = "source_turn"
      THEN /\ event.purpose # "search"
           /\ \E j \in {k \in At(log, "candidate_nominated") : k < i} :
                 /\ log[j].turn = event.turn /\ log[j].candidate = event.candidate
      ELSE ~(\E j \in At(log, "search_completed") : j < i) /\ event.purpose # "confirmatory"
  <2>1. CASE event.origin = "source_turn"
    BY <1>1, <2>1 DEF Placed
  <2>2. CASE event.origin # "source_turn"
    <3>1. (\A j \in At(log, "search_completed") : i < j) /\ event.purpose # "confirmatory"
      BY <1>1, <2>2 DEF Placed
    <3>2. ~(\E j \in At(log, "search_completed") : j < i)
      <4> SUFFICES ASSUME NEW j \in At(log, "search_completed"), j < i PROVE FALSE
        OBVIOUS
      <4>1. i < j /\ j \in Nat
        BY <1>3, <3>1
      <4> QED
        BY <1>3, <4>1
    <3> QED
      BY <2>2, <3>1, <3>2
  <2> QED
    BY <2>1, <2>2
<1>6. event.purpose = "search" =>
         \E j \in AtTurn(log, "candidate_set_filtered", event.turn) :
            LET wanted == SearchPlan(log[j].order)
                prior == StartedBefore(log, i, event.turn, "search")
            IN j < i /\ prior < Len(wanted) /\ wanted[prior + 1] = event.candidate
  BY <1>1 DEF Placed, SearchPlaced
<1>7. event.purpose = "confirmatory" =>
         /\ \A j \in At(log, "evaluation_attempt_started") :
               j < i => log[j].purpose # "confirmatory"
         /\ \E j \in AtTurn(log, "candidate_selected", event.turn) :
               /\ j < i /\ log[j].candidate = event.candidate
               /\ \E n \in DOMAIN log[j].qualified : log[j].qualified[n] = event.candidate
         /\ CompletedBefore(log, i, searchKey)
  BY <1>1 DEF Placed, ConfirmatoryPlaced
<1>8. event.purpose = "attribution" =>
         \/ /\ Attribution = "each" /\ CompletedBefore(log, i, searchKey)
            /\ The(log, Evaluated(log, searchKey)).receipt.correct
         \/ /\ Attribution = "selected" /\ CompletedBefore(log, i, confirmedKey)
            /\ Qualifies(The(log, Evaluated(log, confirmedKey)).receipt)
  <2> SUFFICES ASSUME event.purpose = "attribution"
               PROVE  \/ /\ Attribution = "each" /\ CompletedBefore(log, i, searchKey)
                         /\ The(log, Evaluated(log, searchKey)).receipt.correct
                      \/ /\ Attribution = "selected" /\ CompletedBefore(log, i, confirmedKey)
                         /\ Qualifies(The(log, Evaluated(log, confirmedKey)).receipt)
    OBVIOUS
  <2>1. \/ /\ Attribution = "each"
           /\ \E j \in Evaluated(log, searchKey) : j < i /\ log[j].receipt.correct
        \/ /\ Attribution = "selected"
           /\ \E j \in Evaluated(log, confirmedKey) : j < i /\ Qualifies(log[j].receipt)
    BY <1>1 DEF Placed, AttributionPlaced
  <2> HIDE DEF searchKey, confirmedKey
  <2>2. ASSUME NEW j \in Evaluated(log, searchKey) PROVE The(log, Evaluated(log, searchKey)) = log[j]
    BY TheEvaluated
  <2>3. ASSUME NEW j \in Evaluated(log, confirmedKey) PROVE The(log, Evaluated(log, confirmedKey)) = log[j]
    BY TheEvaluated
  <2> QED
    BY <2>1, <2>2, <2>3, Zenon DEF CompletedBefore
<1>9. event.purpose \in {"search", "confirmatory", "attribution"}
  BY <1>1 DEF Placed, Purposes
<1> HIDE DEF event
<1>10. CASE event.purpose = "search"
  BY <1>2, <1>4, <1>5, <1>6, <1>10 DEF StartPlaced, event
<1>11. CASE event.purpose = "confirmatory"
  BY <1>2, <1>4, <1>5, <1>7, <1>11 DEF StartPlaced, event
<1>12. CASE event.purpose = "attribution"
  BY <1>2, <1>4, <1>5, <1>8, <1>12 DEF StartPlaced, event
<1> QED
  BY <1>9, <1>10, <1>11, <1>12

(* Search closes once, before the nomination. *)
Shut(log) ==
    /\ \A i \in At(log, "search_completed") : \A j \in (i + 1)..Len(log) :
          log[j].kind \notin SearchKinds
    /\ \A i \in At(log, "candidate_nominated") : \E j \in At(log, "search_completed") : j < i

(* replay/candidates.py on the ledger of a sealed Run. *)
LEMMA InvocationsReplayed ==
    ASSUME NEW log, NEW rows, NEW spent, NEW permits, NEW used,
           Bookkept(log, rows, spent, permits, used),
           \A purpose \in Purposes : used[purpose] <= EvaluationLimit[purpose],
           Shut(log), \A i \in Faults(log) : i = Len(log) - 2,
           \A i \in At(log, "evaluation_attempt_completed") :
              ~(log[i].answered /\ Interrupted(log, i))
    PROVE  InvocationsReplay(log)
<1>1. IsLog(log) /\ Chained(log, FALSE) /\ Tallied(log, used)
  BY DEF Bookkept
<1>2. ASSUME NEW i \in At(log, "evaluation_attempt_started")
      PROVE  /\ StartPlaced(log, i)
             /\ \/ Follows(log, i, "evaluation_attempt_completed")
                \/ Interrupted(log, i)
  <2>1. IF i = Len(log) THEN FALSE
        ELSE Follows(log, i, "evaluation_attempt_completed") \/ Interrupted(log, i)
    BY <1>1 DEF Chained
  <2> QED
    BY <1>1, <2>1, StartIsPlaced
<1>3. ASSUME NEW i \in At(log, "evaluation_attempt_completed")
      PROVE  /\ log[i - 1].kind = "evaluation_attempt_started"
             /\ SameInvocation(log, i - 1, i)
             /\ IF log[i].answered THEN Follows(log, i, "candidate_evaluated")
                ELSE Interrupted(log, i)
  <2>1. /\ log[i - 1].kind = "evaluation_attempt_started"
        /\ SameInvocation(log, i - 1, i)
        /\ IF i = Len(log) THEN FALSE
           ELSE Follows(log, i, "candidate_evaluated") \/ Interrupted(log, i)
    BY <1>1 DEF Chained
  <2>2. ASSUME Follows(log, i, "candidate_evaluated") PROVE log[i].answered
    <3>1. i + 1 \in 1..Len(log) /\ (i + 1) - 1 = i
      BY <1>1, <2>1 DEF At, IsLog
    <3>2. i + 1 \in At(log, "candidate_evaluated")
      BY <1>1, <2>2, <3>1 DEF At, IsLog, Follows
    <3> QED
      BY <1>1, <3>1, <3>2 DEF Chained
  <2> QED
    BY <2>1, <2>2
<1>4. ASSUME NEW i \in At(log, "candidate_evaluated")
      PROVE  /\ log[i - 1].kind = "evaluation_attempt_completed"
             /\ SameInvocation(log, i - 1, i)
  BY <1>1 DEF Chained
<1>5. \A purpose \in Purposes :
         Cardinality({i \in At(log, "evaluation_attempt_started") :
                         log[i].purpose = purpose}) <= EvaluationLimit[purpose]
  BY <1>1 DEF Tallied, Starts
<1> QED
  BY <1>2, <1>3, <1>4, <1>5 DEF InvocationsReplay, Receipted, Shut

(* replay/selection.py on the ledger of a sealed Run: the rejections.      *)
RejectedAt(log) ==
    UNION {{<<log[i].turn, log[i].order[n].candidate>> :
               n \in {m \in DOMAIN log[i].order : ~log[i].order[m].launchable}} :
              i \in At(log, "candidate_set_filtered")}

LEMMA RejectionsReplayed ==
    ASSUME NEW log, IsLog(log), Sifted(log)
    PROVE  RejectionsReplay(log)
<1> DEFINE observed == At(log, "candidate_rejected")
           pair(i) == <<log[i].turn, log[i].candidate>>
           f == [i \in observed |-> pair(i)]
<1>1. ASSUME NEW i \in observed
      PROVE  pair(i) \in RejectedAt(log)
  <2>1. PICK j \in AtTurn(log, "candidate_set_filtered", log[i].turn) :
           \E n \in DOMAIN log[j].order : /\ log[j].order[n].candidate = log[i].candidate
                                          /\ ~log[j].order[n].launchable
    BY DEF Sifted
  <2>2. PICK n \in DOMAIN log[j].order : /\ log[j].order[n].candidate = log[i].candidate
                                         /\ ~log[j].order[n].launchable
    BY <2>1
  <2>3. j \in At(log, "candidate_set_filtered") /\ log[j].turn = log[i].turn
    BY DEF AtTurn
  <2>4. pair(i) = <<log[j].turn, log[j].order[n].candidate>>
    BY <2>2, <2>3
  <2>5. pair(i) \in {<<log[j].turn, log[j].order[m].candidate>> :
                        m \in {k \in DOMAIN log[j].order : ~log[j].order[k].launchable}}
    BY <2>2, <2>4
  <2> HIDE DEF pair
  <2> QED
    BY <2>3, <2>5 DEF RejectedAt
<1>2. ASSUME NEW z \in RejectedAt(log)
      PROVE  \E i \in observed : pair(i) = z
  <2>1. PICK j \in At(log, "candidate_set_filtered") :
           z \in {<<log[j].turn, log[j].order[m].candidate>> :
                     m \in {k \in DOMAIN log[j].order : ~log[j].order[k].launchable}}
    BY <1>2 DEF RejectedAt
  <2>2. PICK n \in DOMAIN log[j].order :
           ~log[j].order[n].launchable /\ z = <<log[j].turn, log[j].order[n].candidate>>
    BY <2>1
  <2>3. PICK i \in AtTurn(log, "candidate_rejected", log[j].turn) :
           log[i].candidate = log[j].order[n].candidate
    BY <2>2 DEF Sifted
  <2>4. i \in observed /\ log[i].turn = log[j].turn
    BY <2>3 DEF AtTurn
  <2> QED
    BY <2>2, <2>3, <2>4
<1>3. \A i, j \in observed : pair(i) = pair(j) => i = j
  BY DEF Sifted
<1>4. IsFiniteSet(observed)
  BY LogIsFinite
<1>5. {<<log[i].turn, log[i].candidate>> : i \in observed} = RejectedAt(log)
  BY <1>1, <1>2
<1> HIDE DEF observed, pair
<1>6. /\ f \in [observed -> RejectedAt(log)]
      /\ \A x, y \in observed : f[x] = f[y] => x = y
      /\ \A z \in RejectedAt(log) : \E x \in observed : f[x] = z
  BY <1>1, <1>2, <1>3
<1> HIDE DEF f
<1>7. IsFiniteSet(RejectedAt(log))
  <2>1. f \in Surjection(observed, RejectedAt(log))
    BY <1>6 DEF Surjection
  <2> QED
    BY <1>4, <2>1, FS_Surjection
<1>8. Cardinality(observed) = Cardinality(RejectedAt(log))
  BY <1>6, <1>7, AsMany
<1> QED
  BY <1>5, <1>8, Zenon DEF RejectionsReplay, RejectedAt, observed

(* Which turns are filtered and which selected.                            *)
TurnsAt(log, kind) == {log[i].turn : i \in At(log, kind)}

LEMMA TurnsFiltered ==
    ASSUME NEW log, NEW rows, NEW spent, NEW permits, NEW used,
           Bookkept(log, rows, spent, permits, used), Interruption(log, rows)
    PROVE  /\ TurnsAt(log, "candidate_selected") = 1..Len(rows)
           /\ \A t \in TurnsAt(log, "candidate_set_filtered") :
                 /\ t \in 1..TurnCount(log)
                 /\ t \in 1..Len(rows) \/ (t = Len(rows) + 1 /\ t = FaultTurn(log))
           /\ \A t \in 1..Len(rows) : t \in TurnsAt(log, "candidate_set_filtered")
           /\ \A t \in 1..TurnCount(log) :
                 t \in 1..Len(rows) \/ (t = Len(rows) + 1 /\ t = FaultTurn(log))
           /\ \A t : t \in TurnsAt(log, "candidate_set_filtered") <=>
                     AtTurn(log, "candidate_set_filtered", t) # {}
<1>1. "candidate_set_filtered" \in Marks /\ "candidate_selected" \in Marks
      /\ IsLog(log) /\ Preceded(log) /\ Len(rows) \in Nat
  BY DEF Marks, Bookkept
<1>2. \A kind : \A t : t \in TurnsAt(log, kind) <=> AtTurn(log, kind, t) # {}
  BY DEF TurnsAt, AtTurn
<1>3. ASSUME NEW t \in 1..Len(rows), NEW kind \in Marks
      PROVE  t \in TurnsAt(log, kind)
  <2>1. AtTurn(log, kind, t) # {}
    BY OneMark
  <2> QED
    BY <1>2, <2>1
<1>4. ASSUME NEW t \in TurnsAt(log, "candidate_selected")
      PROVE  t \in 1..Len(rows)
  <2>1. AtTurn(log, "candidate_selected", t) # {}
    BY <1>2
  <2>2. t \in 1..(Len(rows) + 1)
    BY <1>1, <2>1, OneMark
  <2>3. t # Len(rows) + 1
    <3>1. AtTurn(log, "candidate_selected", Len(rows) + 1) = {}
      BY DEF Interruption
    <3> QED
      BY <2>1, <3>1, Zenon
  <2> QED
    BY <1>1, <2>2, <2>3
<1>5. \A t \in 1..TurnCount(log) :
         t \in 1..Len(rows) \/ (t = Len(rows) + 1 /\ t = FaultTurn(log))
  <2> TAKE t \in 1..TurnCount(log)
  <2>1. t \in 1..Len(rows)
        \/ (t = Len(rows) + 1 /\ AtTurn(log, "provider_turn_completed", t) # {})
    BY TurnNumbers
  <2>2. AtTurn(log, "provider_turn_completed", Len(rows) + 1) # {}
           => FaultTurn(log) = Len(rows) + 1
    BY DEF Interruption
  <2> QED
    BY <2>1, <2>2, Zenon
<1>6. ASSUME NEW t \in TurnsAt(log, "candidate_set_filtered")
      PROVE  t \in 1..TurnCount(log)
  <2>1. PICK i \in At(log, "candidate_set_filtered") : log[i].turn = t
    BY DEF TurnsAt
  <2>2. i \in 1..Len(log) /\ log[i].kind = "candidate_set_filtered"
    BY <1>1 DEF At, IsLog
  <2>3. PICK j \in AtTurn(log, "author_actions_resolved", t) : j < i
    BY <1>1, <2>1, <2>2 DEF Preceded
  <2>4. j \in At(log, "author_actions_resolved") /\ log[j].turn = t
    BY DEF AtTurn
  <2>5. AtTurn(log, "provider_turn_completed", t) # {}
    BY <1>1, <2>4 DEF Preceded
  <2> QED
    BY <2>5, TurnNumbers
<1> QED
  BY <1>1, <1>2, <1>3, <1>4, <1>5, <1>6

(* What was profiled, and why.                                             *)
Attributed(log, rows, at) ==
    /\ \A i \in ConfirmationsAt(log) :
          at \in 1..Len(rows) /\ log[i].turn = at /\ log[i].candidate = rows[at].candidate
    /\ ~ProfileEach => \A i \in At(log, "candidate_evaluated") :
          log[i].purpose = "attribution" =>
             /\ Attribution = "selected" /\ log[i].turn = at
             /\ log[i].candidate = rows[at].candidate
             /\ \E j \in ConfirmationsAt(log) : Qualifies(log[j].receipt)
    /\ Attribution = "selected" /\ (\E j \in ConfirmationsAt(log) : Qualifies(log[j].receipt))
       => \E i \in At(log, "candidate_evaluated") : log[i].purpose = "attribution"

LEMMA TurnSettled ==
    ASSUME NEW log, NEW rows, NEW spent, NEW permits, NEW used,
           Bookkept(log, rows, spent, permits, used), NEW t \in 1..Len(rows)
    PROVE  Chosen(log, t) /\ Observed(log, t, rows[t]) /\ Diagnosed(log, t) /\ Profiles(log, t)
BY DEF Bookkept, Done, Settled

LEMMA AttributionsReplayed ==
    ASSUME NEW log, NEW rows, NEW spent, NEW permits, NEW used, NEW at,
           Bookkept(log, rows, spent, permits, used), Attributed(log, rows, at),
           NEW t \in 1..Len(rows)
    PROVE  AttributionsReplay(log, t)
<1> DEFINE chosen == Selection(log, t).candidate
           confirmations == Evaluated(log, <<t, "confirmatory", chosen>>)
           profiled == {log[i].candidate : i \in AttributionsAt(log, t)}
<1>1. Profiles(log, t) /\ chosen = rows[t].candidate
  BY TurnSettled DEF Observed
<1>2. \A i \in AttributionsAt(log, t) :
         i \in At(log, "candidate_evaluated") /\ log[i].turn = t /\ log[i].purpose = "attribution"
  BY DEF AttributionsAt, AtTurn
<1>3. CASE Attribution = "each"
  <2>1. profiled = CorrectOf(TurnSearches(log, t))
    BY <1>1, <1>3 DEF Profiles, ProfileEach
  <2>2. RequiredAttributions(log, t) = CorrectOf(TurnSearches(log, t))
    BY <1>3 DEF RequiredAttributions, CorrectOf
  <2> QED
    BY <2>1, <2>2, Zenon DEF AttributionsReplay, AttributionsAt
<1>4. CASE Attribution = "none"
  <2>1. AttributionsAt(log, t) = {}
    BY <1>2, <1>4 DEF Attributed, ProfileEach
  <2>2. profiled = {}
    BY <2>1
  <2>3. RequiredAttributions(log, t) = {}
    BY <1>4 DEF RequiredAttributions
  <2> QED
    BY <2>2, <2>3, Zenon DEF AttributionsReplay, AttributionsAt
<1>5. CASE Attribution = "selected"
  <2>1. \A i \in confirmations :
           /\ i \in ConfirmationsAt(log) /\ log[i].turn = t
    BY DEF Evaluated, ConfirmationsAt, EvaluationKey
  <2>2. ~ProfileEach
    BY <1>5 DEF ProfileEach
  <2>3. RequiredAttributions(log, t) =
           IF \E i \in confirmations : Qualifies(log[i].receipt) THEN {chosen} ELSE {}
    BY <1>5 DEF RequiredAttributions
  <2>4. \A i \in AttributionsAt(log, t) :
           /\ t = at /\ log[i].candidate = chosen
           /\ \E j \in confirmations : Qualifies(log[j].receipt)
    <3> TAKE i \in AttributionsAt(log, t)
    <3>1. /\ t = at /\ log[i].candidate = rows[at].candidate
          /\ \E j \in ConfirmationsAt(log) : Qualifies(log[j].receipt)
      BY <1>2, <2>2 DEF Attributed
    <3>2. PICK j \in ConfirmationsAt(log) : Qualifies(log[j].receipt)
      BY <3>1
    <3>3. /\ log[j].turn = t /\ log[j].candidate = chosen /\ log[j].purpose = "confirmatory"
          /\ j \in At(log, "candidate_evaluated")
      BY <1>1, <3>1, <3>2 DEF Attributed, ConfirmationsAt
    <3> HIDE DEF chosen
    <3>4. j \in confirmations
      BY <3>3 DEF Evaluated, EvaluationKey
    <3> QED
      BY <1>1, <3>1, <3>2, <3>4
  <2>5. CASE \E i \in confirmations : Qualifies(log[i].receipt)
    <3>1. PICK i \in confirmations : Qualifies(log[i].receipt)
      BY <2>5
    <3>2. i \in ConfirmationsAt(log) /\ at = t
      BY <2>1, <3>1 DEF Attributed
    <3>3. PICK k \in At(log, "candidate_evaluated") : log[k].purpose = "attribution"
      BY <1>5, <3>1, <3>2 DEF Attributed
    <3>4. log[k].turn = t /\ log[k].candidate = chosen
      BY <1>1, <2>2, <3>2, <3>3 DEF Attributed
    <3>5. k \in AttributionsAt(log, t)
      BY <3>3, <3>4 DEF AttributionsAt, AtTurn
    <3> HIDE DEF chosen, confirmations
    <3>6. profiled = {chosen}
      BY <2>4, <3>4, <3>5
    <3> QED
      BY <2>3, <2>5, <3>6, Zenon DEF AttributionsReplay, AttributionsAt
  <2>6. CASE ~\E i \in confirmations : Qualifies(log[i].receipt)
    <3> HIDE DEF chosen, confirmations
    <3>1. AttributionsAt(log, t) = {}
      BY <2>4, <2>6
    <3>2. profiled = {}
      BY <3>1
    <3> QED
      BY <2>3, <2>6, <3>2, Zenon DEF AttributionsReplay, AttributionsAt
  <2> QED
    BY <2>5, <2>6
<1> QED
  BY <1>3, <1>4, <1>5, BudgetAssumption

LEMMA SelectionReplayed ==
    ASSUME NEW log, NEW rows, NEW spent, NEW permits, NEW used, NEW at,
           Bookkept(log, rows, spent, permits, used), Attributed(log, rows, at),
           NEW t \in 1..Len(rows), t # FaultTurn(log)
    PROVE  SelectionReplays(log, t)
<1>1. Chosen(log, t)
  BY TurnSettled
<1>2. AttributionsReplay(log, t)
  BY AttributionsReplayed
<1>3. CASE Rows(log, t) = << >>
  BY <1>1, <1>3 DEF Chosen, SelectionReplays
<1>4. CASE Rows(log, t) # << >> /\ Selection(log, t).reason = "all_candidates_rejected"
  BY <1>1, <1>4 DEF Chosen, SelectionReplays
<1>5. CASE Rows(log, t) # << >> /\ Selection(log, t).reason # "all_candidates_rejected"
  <2>1. /\ TurnSearches(log, t) # << >>
        /\ CandidatesOf(TurnSearches(log, t)) = SearchPlan(Rows(log, t))
        /\ Selection(log, t).qualified
              = CandidatesOf(AtPositions(TurnSearches(log, t),
                                         QualifiedSearches(TurnSearches(log, t))))
        /\ Selection(log, t).candidate
              = TurnSearches(log, t)[BestSearch(TurnSearches(log, t))].candidate
        /\ Selection(log, t).reason =
              IF QualifiedSearches(TurnSearches(log, t)) # {}
              THEN "lowest_qualified_search_latency" ELSE "no_qualified_search_candidate"
    BY <1>1, <1>5 DEF Chosen
  <2>2. CandidatesOf(TurnSearches(log, t)) =
           IF t = FaultTurn(log)
           THEN SubSeq(SearchPlan(Rows(log, t)), 1, Len(TurnSearches(log, t)))
           ELSE SearchPlan(Rows(log, t))
    BY <2>1
  <2> QED
    BY <1>2, <1>5, <2>1, <2>2, Zenon DEF SelectionReplays
<1> QED
  BY <1>3, <1>4, <1>5

LEMMA DiagnosesReplayed ==
    ASSUME NEW log, NEW rows, NEW spent, NEW permits, NEW used,
           Bookkept(log, rows, spent, permits, used), NEW t,
           t \in 1..Len(rows) \/ (t = Len(rows) + 1 /\ t = FaultTurn(log))
    PROVE  DiagnosesReplay(log, t)
<1>1. CASE t \in 1..Len(rows)
  <2>1. Diagnosed(log, t)
    BY <1>1, TurnSettled
  <2>2. CASE Collapsed(Rows(log, t)) = {}
    BY <2>1, <2>2 DEF Diagnosed, DiagnosesReplay
  <2>3. CASE Collapsed(Rows(log, t)) # {}
    <3>1. PICK i \in DOMAIN log : AtTurn(log, "diagnosis_routed", t) = {i}
                                  /\ log[i].collapsed = Collapsed(Rows(log, t))
      BY <2>1, <2>3 DEF Diagnosed
    <3>2. /\ The(log, AtTurn(log, "diagnosis_routed", t)) = log[i]
          /\ Cardinality(AtTurn(log, "diagnosis_routed", t)) = 1
      BY <3>1, OneOnly
    <3> QED
      BY <2>3, <3>1, <3>2, Zenon DEF DiagnosesReplay
  <2> QED
    BY <2>2, <2>3
<1>2. CASE t \notin 1..Len(rows) /\ t = FaultTurn(log)
  <2>1. AtTurn(log, "diagnosis_routed", t) = {}
    BY <1>2 DEF Bookkept, Routed, AtTurn
  <2> QED
    BY <1>2, <2>1 DEF DiagnosesReplay
<1> QED
  BY <1>1, <1>2

(* What search sealed is in a filtered turn, and launchable there.         *)
LEMMA SealsReplayed ==
    ASSUME NEW log, NEW rows, NEW spent, NEW permits, NEW used,
           Bookkept(log, rows, spent, permits, used),
           NEW i \in At(log, "launchable_candidate_sealed")
    PROVE  /\ SealedAt(log, log[i].turn, log[i].candidate) = {i}
           /\ log[i].turn \in TurnsAt(log, "candidate_set_filtered")
           /\ LaunchableRow(log, log[i].turn, log[i].candidate)
<1>1. IsLog(log) /\ Chained(log, FALSE) /\ Sealed(log, FALSE)
  BY DEF Bookkept
<1>2. ASSUME NEW j \in At(log, "launchable_candidate_sealed")
      PROVE  /\ j \in Nat /\ j + 1 \in At(log, "evaluation_attempt_started")
             /\ EvaluationKey(log[j + 1]) = <<log[j].turn, "search", log[j].candidate>>
  <2>1. j \in 1..Len(log) /\ Len(log) \in Nat
    BY <1>1 DEF At, IsLog
  <2>2. IF j = Len(log) THEN FALSE
        ELSE /\ log[j + 1].kind = "evaluation_attempt_started"
             /\ EvaluationKey(log[j + 1]) = <<log[j].turn, "search", log[j].candidate>>
    BY <1>1 DEF Sealed
  <2>3. j + 1 \in 1..Len(log)
    BY <2>1, <2>2
  <2> QED
    BY <1>1, <2>1, <2>2, <2>3 DEF At, IsLog
<1>3. SealedAt(log, log[i].turn, log[i].candidate) = {i}
  <2>1. i \in SealedAt(log, log[i].turn, log[i].candidate)
    BY DEF SealedAt, AtTurn
  <2>2. ASSUME NEW j \in SealedAt(log, log[i].turn, log[i].candidate) PROVE j = i
    <3>1. /\ j \in At(log, "launchable_candidate_sealed")
          /\ log[j].turn = log[i].turn /\ log[j].candidate = log[i].candidate
      BY DEF SealedAt, AtTurn
    <3>2. EvaluationKey(log[i + 1]) = EvaluationKey(log[j + 1])
      BY <1>2, <3>1
    <3>3. i + 1 = j + 1
      BY <1>1, <1>2, <3>1, <3>2 DEF Chained
    <3> QED
      BY <1>2, <3>1, <3>3
  <2> QED
    BY <2>1, <2>2
<1>4. PICK f \in AtTurn(log, "candidate_set_filtered", log[i].turn) :
         \E n \in DOMAIN log[f].order :
            log[f].order[n].candidate = log[i].candidate /\ log[f].order[n].launchable
  BY <1>1 DEF Sealed
<1>5. f \in At(log, "candidate_set_filtered") /\ log[f].turn = log[i].turn
  BY DEF AtTurn
<1>6. Rows(log, log[i].turn) = log[f].order
  <2>1. "candidate_set_filtered" \in Marks
    BY DEF Marks
  <2>2. PICK k \in DOMAIN log : AtTurn(log, "candidate_set_filtered", log[i].turn) = {k}
    BY <1>4, <2>1, OneMark
  <2>3. AtTurn(log, "candidate_set_filtered", log[i].turn) = {f}
    BY <1>4, <2>2
  <2> QED
    BY <2>3, OneOnly, Zenon DEF Rows
<1>7. log[i].turn \in TurnsAt(log, "candidate_set_filtered")
  BY <1>5 DEF TurnsAt
<1>8. LaunchableRow(log, log[i].turn, log[i].candidate)
  BY <1>4, <1>6 DEF LaunchableRow
<1> QED
  BY <1>3, <1>7, <1>8

(* replay/selection.py on the ledger of a sealed Run. *)
LEMMA SelectionsReplayed ==
    ASSUME NEW log, NEW rows, NEW spent, NEW permits, NEW used, NEW at,
           Bookkept(log, rows, spent, permits, used), Interruption(log, rows),
           Attributed(log, rows, at)
    PROVE  SelectionsReplay(log)
<1> DEFINE turns == 1..TurnCount(log)
           filtered == TurnsAt(log, "candidate_set_filtered")
           chosen == TurnsAt(log, "candidate_selected")
           cut == {FaultTurn(log)}
<1>1. /\ chosen = 1..Len(rows)
      /\ \A t \in filtered : /\ t \in turns
                             /\ t \in 1..Len(rows) \/ (t = Len(rows) + 1 /\ t = FaultTurn(log))
      /\ \A t \in 1..Len(rows) : t \in filtered
      /\ \A t \in turns : t \in 1..Len(rows) \/ (t = Len(rows) + 1 /\ t = FaultTurn(log))
      /\ \A t : t \in filtered <=> AtTurn(log, "candidate_set_filtered", t) # {}
  BY TurnsFiltered
<1>2. /\ "candidate_set_filtered" \in Marks /\ "candidate_selected" \in Marks
      /\ IsLog(log) /\ Sifted(log) /\ Routed(log, Len(rows))
  BY DEF Marks, Bookkept
<1> HIDE DEF turns, filtered, chosen, cut
<1>3. /\ filtered \subseteq turns /\ turns \ filtered \subseteq cut
      /\ chosen \subseteq filtered /\ filtered \ chosen \subseteq cut
  BY <1>1 DEF cut
<1>4. {log[i].turn : i \in At(log, "diagnosis_routed")} \subseteq filtered
  BY <1>1, <1>2 DEF Routed
<1>5. RejectionsReplay(log)
  BY <1>2, RejectionsReplayed
<1>6. ASSUME NEW t \in filtered
      PROVE  /\ Cardinality(AtTurn(log, "candidate_set_filtered", t)) = 1
             /\ FilterReplays(log, t) /\ DiagnosesReplay(log, t)
  <2>1. PICK i \in DOMAIN log : AtTurn(log, "candidate_set_filtered", t) = {i}
    BY <1>1, <1>2, OneMark
  <2>2. Cardinality(AtTurn(log, "candidate_set_filtered", t)) = 1
    BY <2>1, OneOnly
  <2>3. i \in At(log, "candidate_set_filtered") /\ log[i].turn = t
    BY <2>1 DEF AtTurn
  <2>4. FilterReplays(log, log[i].turn)
    BY <1>2, <2>3 DEF Sifted
  <2>5. t \in 1..Len(rows) \/ (t = Len(rows) + 1 /\ t = FaultTurn(log))
    BY <1>1
  <2>6. DiagnosesReplay(log, t)
    BY <2>5, DiagnosesReplayed
  <2> QED
    BY <2>2, <2>3, <2>4, <2>6
<1>7. ASSUME NEW t \in chosen
      PROVE  /\ Cardinality(AtTurn(log, "candidate_selected", t)) = 1
             /\ SelectionReplays(log, t)
  <2>1. t \in 1..Len(rows) /\ t # FaultTurn(log)
    BY <1>1 DEF Interruption
  <2>2. PICK i \in DOMAIN log : AtTurn(log, "candidate_selected", t) = {i}
    BY <1>2, <2>1, OneMark
  <2>3. Cardinality(AtTurn(log, "candidate_selected", t)) = 1
    BY <2>2, OneOnly
  <2> QED
    BY <2>1, <2>3, SelectionReplayed
<1>8. \A i \in At(log, "launchable_candidate_sealed") :
         /\ SealedAt(log, log[i].turn, log[i].candidate) = {i}
         /\ log[i].turn \in filtered
         /\ LaunchableRow(log, log[i].turn, log[i].candidate)
  BY SealsReplayed DEF filtered
<1> QED
  BY <1>3, <1>4, <1>5, <1>6, <1>7, <1>8, Zenon
     DEF SelectionsReplay, turns, filtered, chosen, cut, TurnsAt

(* What each completed turn observed, read off the ledger. *)
LEMMA ObservationsReplayed ==
    ASSUME NEW log, NEW rows, NEW spent, NEW permits, NEW used,
           Bookkept(log, rows, spent, permits, used), Interruption(log, rows), IsSequence(rows),
           \A t \in 1..Len(rows) :
              /\ rows[t].latency \in Nat
              /\ rows[t] = Observation(t, rows[t].tokens, rows[t].candidate, rows[t].latency)
    PROVE  /\ ObservedTurns(log) = 1..Len(rows)
           /\ Cardinality(ObservedTurns(log)) = Len(rows)
           /\ Observations(log) = rows
<1>1. Len(rows) \in Nat /\ IsLog(log) /\ Chained(log, FALSE)
  BY DEF Bookkept
<1>2. TurnsAt(log, "candidate_selected") = 1..Len(rows)
  BY TurnsFiltered
<1>3. ObservedTurns(log) = 1..Len(rows)
  <2>1. \A t \in 1..Len(rows) : t # FaultTurn(log)
    BY DEF Interruption
  <2>2. ObservedTurns(log) = {t \in TurnsAt(log, "candidate_selected") :
                                 t # FaultTurn(log) \/ Rows(log, t) = << >>}
    BY Zenon DEF ObservedTurns, TurnsAt
  <2> QED
    BY <1>2, <2>1, <2>2
<1>4. Cardinality(ObservedTurns(log)) = Len(rows)
  <2>1. Cardinality(1..Len(rows)) = Len(rows)
    <3>1. Cardinality(1..Len(rows)) = IF 1 > Len(rows) THEN 0 ELSE Len(rows) - 1 + 1
      <4>1. 1 \in Int /\ Len(rows) \in Int
        BY <1>1
      <4> QED
        BY ONLY <4>1, FS_Interval
    <3> QED
      BY <1>1, <3>1
  <2> QED
    BY <1>3, <2>1, Zenon
<1> DEFINE found(t) == Evaluated(log, <<t, "search", Selection(log, t).candidate>>)
           latency(t) == IF found(t) = {} THEN 0 ELSE The(log, found(t)).receipt.latency
           seen == [t \in 1..Len(rows) |->
                       Observation(t, TokensAt(log, t), Selection(log, t).candidate, latency(t))]
<1>5. ASSUME NEW t \in 1..Len(rows)
      PROVE  latency(t) = rows[t].latency
  <2>1. Observed(log, t, rows[t])
    BY TurnSettled
  <2>2. Selection(log, t).candidate = rows[t].candidate
    BY <2>1 DEF Observed
  <2>3. CASE found(t) = {}
    <3>1. ~rows[t].qualified
      <4> SUFFICES ASSUME rows[t].qualified PROVE FALSE
        OBVIOUS
      <4>1. PICK i \in SearchesAt(log, t) : log[i].candidate = rows[t].candidate
        BY <2>1 DEF Observed
      <4>2. i \in found(t)
        BY <2>2, <4>1 DEF SearchesAt, AtTurn, Evaluated, EvaluationKey
      <4> QED
        BY <2>3, <4>2
    <3>2. rows[t].qualified = (rows[t].latency > 0)
      <4>1. rows[t] = Observation(t, rows[t].tokens, rows[t].candidate, rows[t].latency)
        OBVIOUS
      <4>2. Observation(t, rows[t].tokens, rows[t].candidate, rows[t].latency).qualified
               = (rows[t].latency > 0)
        BY DEF Observation
      <4> QED
        BY <4>1, <4>2, Zenon
    <3>3. ~(rows[t].latency > 0)
      BY <3>1, <3>2, Zenon
    <3>4. rows[t].latency = 0
      BY <3>3
    <3> QED
      BY <2>3, <3>4
  <2>4. CASE found(t) # {}
    <3>1. PICK i : i \in found(t)
      BY <2>4
    <3>2. The(log, found(t)) = log[i]
      <4> DEFINE key == <<t, "search", Selection(log, t).candidate>>
      <4>1. i \in Evaluated(log, key)
        BY <3>1
      <4> HIDE DEF key
      <4>2. The(log, Evaluated(log, key)) = log[i]
        BY <1>1, <4>1, TheEvaluated
      <4> QED
        BY <4>2, Zenon DEF key
    <3>3. i \in SearchesAt(log, t) /\ log[i].candidate = rows[t].candidate
      BY <2>2, <3>1 DEF SearchesAt, AtTurn, Evaluated, EvaluationKey
    <3>4. log[i].receipt.latency = rows[t].latency
      BY <2>1, <3>3 DEF Observed
    <3> HIDE DEF found
    <3> QED
      BY <2>4, <3>2, <3>4
  <2> QED
    BY <2>3, <2>4
<1>6. ASSUME NEW t \in 1..Len(rows)
      PROVE  seen[t] = rows[t]
  <2>1. TokensAt(log, t) = rows[t].tokens
    BY TurnFacts
  <2>2. Selection(log, t).candidate = rows[t].candidate
    BY TurnSettled DEF Observed
  <2>3. latency(t) = rows[t].latency
    BY <1>5
  <2> HIDE DEF latency
  <2>4. seen[t] = Observation(t, TokensAt(log, t), Selection(log, t).candidate, latency(t))
    OBVIOUS
  <2>5. rows[t] = Observation(t, rows[t].tokens, rows[t].candidate, rows[t].latency)
    OBVIOUS
  <2> QED
    BY <2>1, <2>2, <2>3, <2>4, <2>5, Zenon
<1>7. Observations(log) = seen
  BY <1>4, Zenon DEF Observations
<1>8. IsSequence(seen) /\ Len(seen) = Len(rows)
  BY <1>1, FunctionIsSequence
<1> HIDE DEF seen
<1>9. seen = rows
  BY <1>6, <1>8, SameSequence
<1> QED
  BY <1>3, <1>4, <1>7, <1>9

(* What a sealed ledger says of the close of search and of the nomination. *)
Unclosed(log) ==
    /\ closedAt = {} /\ source = 0
    /\ At(log, "search_completed") = {} /\ At(log, "candidate_nominated") = {}
ClosedBy(log, i, tick) ==
    /\ closedAt = {log[i].state.elapsed}
    /\ At(log, "search_completed") = {i} /\ At(log, "candidate_nominated") = {i + 1}
    /\ i \in Nat /\ tick \in Nat
    /\ log[i].state.iteration = NextIteration(observations)
    /\ log[i].state.tokens = tokens
    /\ log[i].state.elapsed \in Nat /\ log[i].state.elapsed <= tick
    /\ log[i].state.authoring = Rounded(authoring)
    /\ Rounded(authoring) <= log[i].state.elapsed
    /\ log[i].state.counts = CountsBefore(log, i)
    /\ log[i].state.counts["confirmatory"] = 0
    /\ log[i].state.compilations = compilations
    /\ log[i].state.searchElapsed = log[i].state.elapsed
    /\ log[i].state.exceeded = ExceededBudgets(tokens, Rounded(authoring),
              log[i].state.elapsed, log[i].state.elapsed)
    /\ log[i].state.reason # "none"
    /\ log[i].state.reason = StopReason(log[i].state.iteration, tokens,
            log[i].state.elapsed, log[i].state.authoring, log[i].state.counts, compilations)
    /\ adherence = "adhered" => reason = log[i].state.reason
    /\ log[i + 1].turn = source
    /\ log[i + 1].candidate = IF source = 0 THEN NoCandidate ELSE observations[source].candidate
    /\ \A j \in (i + 1)..Len(log) : log[j].kind \notin SearchKinds
    /\ source = 0 => Nominee(observations) = {}

LEMMA SealedClosed ==
    ASSUME IInv, JInv, KInv, SealRun, NEW longer, longer = ledger',
           NEW tick, tick = Rounded(elapsed')
    PROVE  Unclosed(longer) \/ \E i : ClosedBy(longer, i, tick)
<1>1. /\ pc = "seal" /\ elapsed \in Nat /\ elapsed' \in Nat /\ elapsed <= elapsed'
      /\ Sealing(ledger, ledger', ProjectedEvent(elapsed'), TerminalEvent(elapsed'))
  BY SealStep
<1>2. PICK projected, terminal :
         projected = ProjectedEvent(elapsed') /\ terminal = TerminalEvent(elapsed')
  OBVIOUS
<1>3. Sealing(ledger, longer, projected, terminal)
  BY <1>1, <1>2, Zenon
<1>4. /\ Closed /\ (closedAt = {} => source = 0) /\ IsLog(ledger) /\ Rounded(elapsed) \in Nat
  BY <1>1, KFacts
<1>5. /\ \A kind : kind \notin SealKinds => At(longer, kind) = At(ledger, kind)
      /\ \A i \in 1..Len(ledger) : longer[i] = ledger[i]
      /\ Len(ledger) \in Nat /\ Len(longer) = Len(ledger) + 2
  BY <1>3, SealedSame
<1>6. /\ At(longer, "search_completed") = At(ledger, "search_completed")
      /\ At(longer, "candidate_nominated") = At(ledger, "candidate_nominated")
  BY <1>5 DEF SealKinds
<1>7. tick \in Nat /\ Rounded(elapsed) <= tick
  BY <1>1, RoundedGrows
<1>8. CASE closedAt = {}
  BY <1>4, <1>6, <1>8 DEF Closed, Unclosed
<1>9. CASE closedAt # {}
  <2>1. PICK i \in DOMAIN ledger :
          /\ At(ledger, "search_completed") = {i}
          /\ At(ledger, "candidate_nominated") = {i + 1}
          /\ ledger[i].state.iteration = NextIteration(observations)
          /\ ledger[i].state.tokens = tokens
          /\ closedAt = {ledger[i].state.elapsed}
          /\ ledger[i].state.elapsed \in Nat /\ ledger[i].state.elapsed <= Rounded(elapsed)
          /\ ledger[i].state.authoring = Rounded(authoring)
          /\ Rounded(authoring) <= ledger[i].state.elapsed
          /\ ledger[i].state.counts = CountsBefore(ledger, i)
          /\ ledger[i].state.counts["confirmatory"] = 0
          /\ ledger[i].state.compilations = compilations
          /\ ledger[i].state.searchElapsed = ledger[i].state.elapsed
          /\ ledger[i].state.exceeded = ExceededBudgets(tokens, Rounded(authoring),
                    ledger[i].state.elapsed, ledger[i].state.elapsed)
          /\ ledger[i].state.reason # "none"
          /\ ledger[i].state.reason = StopReason(ledger[i].state.iteration, tokens,
                  ledger[i].state.elapsed, ledger[i].state.authoring,
                  ledger[i].state.counts, compilations)
          /\ adherence = "adhered" => reason = ledger[i].state.reason
          /\ ledger[i + 1].turn = source
          /\ ledger[i + 1].candidate = IF source = 0 THEN NoCandidate
                                       ELSE observations[source].candidate
          /\ \A j \in (i + 1)..Len(ledger) : ledger[j].kind \notin SearchKinds
          /\ source = 0 => Nominee(observations) = {}
    BY <1>4, <1>9, Zenon DEF Closed
  <2>2. i \in 1..Len(ledger) /\ i \in Nat /\ i + 1 \in 1..Len(ledger)
    <3>1. i + 1 \in At(ledger, "candidate_nominated")
      BY <2>1
    <3> QED
      BY <1>4, <2>1, <3>1 DEF At, IsLog
  <2>3. longer[i] = ledger[i] /\ longer[i + 1] = ledger[i + 1]
    BY <1>5, <2>2
  <2>4. ledger[i].state.elapsed <= tick
    BY <1>4, <1>7, <2>1
  <2>5. CountsBefore(longer, i) = CountsBefore(ledger, i)
    <3>1. Grown(ledger, longer)
      BY <1>3 DEF Sealing, Adds
    <3> QED
      BY <2>2, <3>1, CountsBeforeSame
  <2>6. \A j \in (i + 1)..Len(longer) : longer[j].kind \notin SearchKinds
    <3> TAKE j \in (i + 1)..Len(longer)
    <3>1. CASE j <= Len(ledger)
      <4>1. j \in (i + 1)..Len(ledger) /\ j \in 1..Len(ledger)
        BY <1>5, <2>2, <3>1
      <4> QED
        BY <1>5, <2>1, <4>1
    <3>2. CASE j > Len(ledger)
      <4>1. j \in 1..Len(longer)
        BY <1>5, <2>2
      <4>2. longer[j].kind \in SealKinds
        BY <1>3, <3>2, <4>1 DEF Sealing, Adds
      <4> QED
        BY <4>2 DEF SealKinds, SearchKinds
    <3> QED
      BY <1>5, <2>2, <3>1, <3>2
  <2>7. /\ At(longer, "search_completed") = {i} /\ At(longer, "candidate_nominated") = {i + 1}
        /\ closedAt = {ledger[i].state.elapsed} /\ ledger[i].state.elapsed \in Nat
        /\ ledger[i].state.counts = CountsBefore(longer, i)
    BY <1>6, <2>1, <2>5, Zenon
  <2>8. ClosedBy(longer, i, tick)
    BY <1>7, <2>1, <2>2, <2>3, <2>4, <2>6, <2>7, Zenon DEF ClosedBy
  <2> QED
    BY <2>8
<1> QED
  BY <1>8, <1>9

(* Its confirmation, and what was profiled. *)
ConfirmedBy(log, i, c) ==
    /\ source # 0 /\ confirmation = {c} /\ ConfirmationsAt(log) = {i}
    /\ i \in At(log, "candidate_evaluated")
    /\ EvaluationKey(log[i]) = <<source, "confirmatory", observations[source].candidate>>
    /\ c = Confirmation(source, observations[source].candidate, tokens, log[i].receipt.latency)

LEMMA SealedConfirmed ==
    ASSUME IInv, JInv, KInv, SealRun, NEW longer, longer = ledger'
    PROVE  \/ confirmation = {} /\ ConfirmationsAt(longer) = {}
           \/ \E i, c : ConfirmedBy(longer, i, c)
<1>1. /\ pc = "seal"
      /\ Sealing(ledger, ledger', ProjectedEvent(elapsed'), TerminalEvent(elapsed'))
  BY SealStep
<1>2. PICK projected, terminal :
         projected = ProjectedEvent(elapsed') /\ terminal = TerminalEvent(elapsed')
  OBVIOUS
<1>3. Sealing(ledger, longer, projected, terminal)
  BY <1>1, <1>2, Zenon
<1>4. Confirmed /\ confirmation \subseteq ConfirmationType /\ AtMostOne(confirmation)
  BY <1>1, KFacts DEF IInv, TypeOK
<1>5. /\ At(longer, "candidate_evaluated") = At(ledger, "candidate_evaluated")
      /\ \A i \in At(ledger, "candidate_evaluated") : longer[i] = ledger[i]
      /\ ConfirmationsAt(longer) = ConfirmationsAt(ledger)
  <2>1. Adds(ledger, longer, SealKinds) /\ "candidate_evaluated" \notin SealKinds
    BY <1>3 DEF Sealing, SealKinds
  <2> QED
    BY ONLY <2>1, ConfirmationsSame
<1>6. CASE confirmation = {}
  BY <1>5, <1>6 DEF JInv, Recorded
<1>7. CASE confirmation # {}
  <2>1. PICK c \in confirmation : TRUE
    BY <1>7
  <2>2. confirmation = {c}
    BY <1>4, <2>1 DEF AtMostOne
  <2>3. PICK i \in DOMAIN ledger :
           /\ ConfirmationsAt(ledger) = {i} /\ ledger[i].candidate = c.candidate
           /\ ledger[i].receipt.latency = c.latency
    BY <2>1 DEF JInv, Recorded
  <2>4. /\ i \in ConfirmationsAt(ledger) /\ i \in At(ledger, "candidate_evaluated")
        /\ ledger[i].purpose = "confirmatory"
    BY <2>3 DEF ConfirmationsAt
  <2>5. /\ source # 0 /\ ledger[i].turn = source
        /\ ledger[i].candidate = observations[source].candidate
        /\ c.source = source /\ c.tokens = tokens
    BY <1>4, <2>1, <2>4 DEF Confirmed
  <2>6. c = Confirmation(c.source, c.candidate, c.tokens, c.latency)
    BY <1>4, <2>1 DEF ConfirmationType, Confirmation
  <2>7. longer[i] = ledger[i]
    BY <1>5, <2>4
  <2>8. c = Confirmation(source, observations[source].candidate, tokens, longer[i].receipt.latency)
    BY <2>3, <2>5, <2>6, <2>7, Zenon
  <2>9. EvaluationKey(longer[i]) = <<source, "confirmatory", observations[source].candidate>>
    BY <2>4, <2>5, <2>7 DEF EvaluationKey
  <2>10. ConfirmationsAt(longer) = {i} /\ i \in At(longer, "candidate_evaluated")
    BY <1>5, <2>3, <2>4, Zenon
  <2>11. ConfirmedBy(longer, i, c)
    BY <2>2, <2>5, <2>8, <2>9, <2>10, Zenon DEF ConfirmedBy
  <2> QED
    BY <2>11
<1> QED
  BY <1>6, <1>7

LEMMA SealedAttributed ==
    ASSUME IInv, JInv, KInv, SealRun, NEW longer, longer = ledger', ~ProfileFault
    PROVE  Attributed(longer, observations, source)
<1>1. /\ pc = "seal"
      /\ Sealing(ledger, ledger', ProjectedEvent(elapsed'), TerminalEvent(elapsed'))
  BY SealStep
<1>2. PICK projected, terminal :
         projected = ProjectedEvent(elapsed') /\ terminal = TerminalEvent(elapsed')
  OBVIOUS
<1>3. Sealing(ledger, longer, projected, terminal)
  BY <1>1, <1>2, Zenon
<1>4. Confirmed /\ (source # 0 => source \in 1..Len(observations))
  BY <1>1, KFacts
<1>5. /\ At(longer, "candidate_evaluated") = At(ledger, "candidate_evaluated")
      /\ \A i \in At(ledger, "candidate_evaluated") : longer[i] = ledger[i]
      /\ ConfirmationsAt(longer) = ConfirmationsAt(ledger)
  <2>1. Adds(ledger, longer, SealKinds) /\ "candidate_evaluated" \notin SealKinds
    BY <1>3 DEF Sealing, SealKinds
  <2> QED
    BY ONLY <2>1, ConfirmationsSame
<1>6. \/ confirmation = {} /\ ConfirmationsAt(longer) = {}
      \/ \E i, c : ConfirmedBy(longer, i, c)
  BY SealedConfirmed
<1>7. ASSUME NEW i \in ConfirmationsAt(longer)
      PROVE  /\ source \in 1..Len(observations) /\ longer[i].turn = source
             /\ longer[i].candidate = observations[source].candidate
  <2>1. i \in At(ledger, "candidate_evaluated") /\ i \in ConfirmationsAt(ledger)
    BY <1>5 DEF ConfirmationsAt
  <2>2. /\ source # 0 /\ ledger[i].turn = source
        /\ ledger[i].candidate = observations[source].candidate
    BY <1>4, <2>1 DEF Confirmed
  <2> QED
    BY <1>4, <1>5, <2>1, <2>2
<1>8. ASSUME ~ProfileEach, NEW i \in At(longer, "candidate_evaluated"),
             longer[i].purpose = "attribution"
      PROVE  /\ Attribution = "selected" /\ longer[i].turn = source
             /\ longer[i].candidate = observations[source].candidate
             /\ \E j \in ConfirmationsAt(longer) : Qualifies(longer[j].receipt)
  <2>1. i \in At(ledger, "candidate_evaluated") /\ ledger[i].purpose = "attribution"
        /\ longer[i] = ledger[i]
    BY <1>5, <1>8
  <2>2. /\ Attribution = "selected" /\ ledger[i].turn = source
        /\ ledger[i].candidate = observations[source].candidate
        /\ confirmation # {} /\ \A c \in confirmation : c.latency > 0
    BY <1>4, <1>8, <2>1 DEF Confirmed
  <2>3. PICK j, c : ConfirmedBy(longer, j, c)
    BY <1>6, <2>2
  <2>4. j \in ConfirmationsAt(longer) /\ c.latency > 0 /\ c.latency = longer[j].receipt.latency
    BY <2>2, <2>3 DEF ConfirmedBy, Confirmation
  <2> QED
    BY <2>1, <2>2, <2>4 DEF Qualifies
<1>9. ASSUME Attribution = "selected", NEW j \in ConfirmationsAt(longer),
             Qualifies(longer[j].receipt)
      PROVE  \E i \in At(longer, "candidate_evaluated") : longer[i].purpose = "attribution"
  <2>1. PICK i, c : ConfirmedBy(longer, i, c)
    BY <1>6, <1>9
  <2>2. c \in confirmation /\ c.latency = longer[j].receipt.latency /\ source # 0
    BY <2>1 DEF ConfirmedBy, Confirmation
  <2>3. adherence = "adhered"
    BY <2>2 DEF ProfileFault
  <2>4. c.latency > 0
    BY <1>9, <2>2 DEF Qualifies
  <2>5. \E k \in At(ledger, "candidate_evaluated") : ledger[k].purpose = "attribution"
    BY <1>1, <1>4, <1>9, <2>2, <2>3, <2>4 DEF Confirmed
  <2> QED
    BY <1>5, <2>5
<1> QED
  BY <1>7, <1>8, <1>9 DEF Attributed

LEMMA EvaluatedIsSealed ==
    ASSUME NEW log, IsLog(log), Chained(log, FALSE), NEW i \in At(log, "candidate_evaluated")
    PROVE  SealedAt(log, log[i].turn, log[i].candidate) # {}
<1>1. i \in 1..Len(log)
  BY DEF At, IsLog
<1>2. /\ i > 1 /\ log[i - 1].kind = "evaluation_attempt_completed"
      /\ SameInvocation(log, i - 1, i)
  BY DEF Chained
<1>3. i - 1 \in At(log, "evaluation_attempt_completed")
  BY <1>1, <1>2 DEF At, IsLog
<1>4. /\ i - 1 > 1 /\ log[(i - 1) - 1].kind = "evaluation_attempt_started"
      /\ SameInvocation(log, (i - 1) - 1, i - 1)
  BY <1>3 DEF Chained
<1>5. (i - 1) - 1 \in At(log, "evaluation_attempt_started")
  BY <1>1, <1>4 DEF At, IsLog
<1>6. \E j \in SealedAt(log, log[(i - 1) - 1].turn, log[(i - 1) - 1].candidate) : j < (i - 1) - 1
  BY <1>5 DEF Chained, Placed
<1>7. log[(i - 1) - 1].turn = log[i].turn /\ log[(i - 1) - 1].candidate = log[i].candidate
  BY <1>2, <1>4 DEF SameInvocation, EvaluationKey
<1> QED
  BY <1>6, <1>7

(* The fault of a Run that had nominated is its nominee's. *)
LEMMA SealedFault ==
    ASSUME IInv, JInv, KInv, SealRun, NEW longer, longer = ledger', adherence # "adhered"
    PROVE  /\ Faults(longer) # {} /\ reason = adherence
           /\ source # 0 => /\ TheFault(longer).origin = "source_turn"
                            /\ TheFault(longer).turn = source
<1>1. /\ pc = "seal"
      /\ Sealing(ledger, ledger', ProjectedEvent(elapsed'), TerminalEvent(elapsed'))
  BY SealStep
<1>2. PICK projected, terminal :
         projected = ProjectedEvent(elapsed') /\ terminal = TerminalEvent(elapsed')
  OBVIOUS
<1>3. Sealing(ledger, longer, projected, terminal)
  BY <1>1, <1>2, Zenon
<1>4. Faulted /\ IsLog(ledger)
  BY <1>1, KFacts
<1>5. /\ Faults(ledger) = {Len(ledger)} /\ reason = adherence
      /\ ledger[Len(ledger)].origin = Origin.origin /\ ledger[Len(ledger)].turn = Origin.turn
  BY <1>4 DEF Faulted
<1>6. Faults(longer) = {Len(ledger)} /\ longer[Len(ledger)] = ledger[Len(ledger)]
  <2>1. /\ \A kind : kind \notin SealKinds => At(longer, kind) = At(ledger, kind)
        /\ \A i \in 1..Len(ledger) : longer[i] = ledger[i]
    BY <1>3, SealedSame
  <2>2. Len(ledger) \in 1..Len(ledger)
    BY <1>4, <1>5 DEF Faults, At, IsLog
  <2> QED
    BY <1>5, <2>1, <2>2 DEF Faults, SealKinds
<1>7. TheFault(longer) = ledger[Len(ledger)]
  BY <1>6, OneOnly, Zenon DEF TheFault
<1>8. source # 0 => Origin.origin = "source_turn" /\ Origin.turn = source
  BY DEF Origin
<1> QED
  BY <1>5, <1>6, <1>7, <1>8

LEMMA CloseReplayed ==
    ASSUME NEW longer, NEW i, NEW tick, ClosedBy(longer, i, tick),
           Observations(longer) = observations, TerminalTokens(longer) = tokens
    PROVE  SearchCloseReplays(longer, i)
BY Zenon DEF ClosedBy, SearchCloseReplays

(* replay/nomination.py on the ledger of a sealed Run. *)
LEMMA NominationReplayed ==
    ASSUME IInv, JInv, KInv, SealRun, NEW longer, longer = ledger', NEW tick,
           tick = Rounded(elapsed'), Bookkept(longer, observations, tokens, compilations, counts),
           Observations(longer) = observations, TerminalTokens(longer) = tokens
    PROVE  NominationReplays(longer)
<1>1. Unclosed(longer) \/ \E i : ClosedBy(longer, i, tick)
  BY SealedClosed
<1>2. \/ confirmation = {} /\ ConfirmationsAt(longer) = {}
      \/ \E i, c : ConfirmedBy(longer, i, c)
  BY SealedConfirmed
<1>3. pc = "seal"
  BY SealStep
<1>4. adherence = "adhered" => closedAt # {} /\ (source = 0 \/ confirmation # {})
  BY <1>3 DEF JInv, Nominated
<1>5. adherence # "adhered" =>
         /\ Faults(longer) # {}
         /\ source # 0 => /\ TheFault(longer).origin = "source_turn"
                          /\ TheFault(longer).turn = source
  BY SealedFault
<1>6. CASE Unclosed(longer)
  <2>1. ConfirmationsAt(longer) = {}
    BY <1>2, <1>6 DEF Unclosed, ConfirmedBy
  <2>2. Faults(longer) # {}
    BY <1>4, <1>5, <1>6 DEF Unclosed
  <2> QED
    BY <1>6, <2>1, <2>2 DEF Unclosed, NominationReplays
<1>7. ASSUME NEW i, ClosedBy(longer, i, tick) PROVE NominationReplays(longer)
  <2>1. /\ At(longer, "search_completed") = {i} /\ At(longer, "candidate_nominated") = {i + 1}
        /\ longer[i + 1].turn = source
        /\ longer[i + 1].candidate = IF source = 0 THEN NoCandidate
                                     ELSE observations[source].candidate
        /\ source = 0 => Nominee(observations) = {}
    BY <1>7 DEF ClosedBy
  <2>2. /\ Cardinality(At(longer, "search_completed")) = 1
        /\ Cardinality(At(longer, "candidate_nominated")) = 1
        /\ The(longer, At(longer, "candidate_nominated")) = longer[i + 1]
    <3>1. ASSUME NEW D, NEW j, D = {j} PROVE The(longer, D) = longer[j] /\ Cardinality(D) = 1
      BY <3>1, OneOnly
    <3> QED
      BY <2>1, <3>1, Zenon
  <2>3. At(longer, "search_completed") # {}
    BY <2>1
  <2>4. \A j \in At(longer, "search_completed") : SearchCloseReplays(longer, j)
    BY <1>7, <2>1, CloseReplayed
  <2>5. ASSUME Nominee(observations) = {}
        PROVE  /\ The(longer, At(longer, "candidate_nominated")).turn = 0
               /\ The(longer, At(longer, "candidate_nominated")).candidate = NoCandidate
               /\ ConfirmationsAt(longer) = {}
    <3>1. source = 0
      BY <2>5 DEF JInv, Nominated
    <3>2. ConfirmationsAt(longer) = {}
      BY <1>2, <3>1 DEF ConfirmedBy
    <3> QED
      BY <2>1, <2>2, <3>1, <3>2
  <2>6. ASSUME NEW nominee \in Nominee(observations)
        PROVE  /\ The(longer, At(longer, "candidate_nominated")).turn = nominee.turn
               /\ The(longer, At(longer, "candidate_nominated")).candidate = nominee.candidate
               /\ SealedAt(longer, nominee.turn, nominee.candidate) # {}
               /\ Faults(longer) # {} =>
                     /\ Faults(longer) # {} /\ TheFault(longer).origin = "source_turn"
                     /\ TheFault(longer).turn = nominee.turn
               /\ ConfirmationsAt(longer) = {} =>
                     Faults(longer) # {} /\ TheFault(longer).origin = "source_turn"
               /\ Cardinality(ConfirmationsAt(longer)) <= 1
               /\ \A j \in ConfirmationsAt(longer) : EvaluationKey(longer[j]) =
                     <<nominee.turn, "confirmatory", nominee.candidate>>
    <3>1. source # 0 /\ observations[source] \in Nominee(observations)
      BY <2>1, <2>6 DEF JInv, Nominated
    <3>2. nominee = observations[source] /\ nominee.qualified
      BY <3>1, OneNominee
    <3>3. source \in 1..Len(observations)
      BY <3>1 DEF JInv, Nominated
    <3>4. nominee.turn = source
      BY <3>2, <3>3 DEF JInv, Turned
    <3>5. Observed(longer, source, nominee)
      BY <3>2, <3>3, TurnSettled
    <3>6. PICK k \in SearchesAt(longer, source) : longer[k].candidate = nominee.candidate
      BY <3>2, <3>5 DEF Observed
    <3>7. k \in At(longer, "candidate_evaluated") /\ longer[k].turn = source
      BY DEF SearchesAt, AtTurn
    <3>8. SealedAt(longer, source, nominee.candidate) # {}
      <4>1. IsLog(longer) /\ Chained(longer, FALSE)
        BY DEF Bookkept
      <4>2. SealedAt(longer, longer[k].turn, longer[k].candidate) # {}
        BY <3>7, <4>1, EvaluatedIsSealed
      <4> QED
        BY <3>6, <3>7, <4>2, Zenon
    <3>9. Faults(longer) # {} => adherence # "adhered"
      <4>1. Ending(longer, observations, tokens, adherence)
        <5>1. Ending(ledger', observations, tokens, adherence)
          BY SealedEnding
        <5> QED
          BY <5>1, Zenon
      <4> QED
        BY <4>1 DEF Ending
    <3>10. ConfirmationsAt(longer) = {} => adherence # "adhered"
      BY <1>2, <1>4, <3>1 DEF ConfirmedBy
    <3>11. Cardinality(ConfirmationsAt(longer)) <= 1
      <4>1. CASE ConfirmationsAt(longer) = {}
        <5>1. Cardinality({}) = 0
          BY FS_EmptySet
        <5>2. Cardinality(ConfirmationsAt(longer)) = 0
          BY <4>1, <5>1, Zenon
        <5> QED
          BY <5>2
      <4>2. ASSUME NEW j, NEW c, ConfirmedBy(longer, j, c)
            PROVE  Cardinality(ConfirmationsAt(longer)) <= 1
        <5>1. ConfirmationsAt(longer) = {j}
          BY <4>2 DEF ConfirmedBy
        <5>2. Cardinality(ConfirmationsAt(longer)) = 1
          BY <5>1, OneOnly
        <5> QED
          BY <5>2
      <4> QED
        BY <1>2, <4>1, <4>2
    <3>12. \A j \in ConfirmationsAt(longer) : EvaluationKey(longer[j]) =
              <<nominee.turn, "confirmatory", nominee.candidate>>
      <4> TAKE j \in ConfirmationsAt(longer)
      <4>1. PICK k2, c : ConfirmedBy(longer, k2, c)
        BY <1>2
      <4>2. j = k2
        BY <4>1 DEF ConfirmedBy
      <4> QED
        BY <3>2, <3>4, <4>1, <4>2, Zenon DEF ConfirmedBy
    <3>13. The(longer, At(longer, "candidate_nominated")).turn = nominee.turn
           /\ The(longer, At(longer, "candidate_nominated")).candidate = nominee.candidate
      BY <2>1, <2>2, <3>1, <3>2, <3>4
    <3> QED
      BY <1>5, <3>1, <3>4, <3>8, <3>9, <3>10, <3>11, <3>12, <3>13
  <2> QED
    BY <2>2, <2>3, <2>4, <2>5, <2>6, Zenon DEF NominationReplays
<1> QED
  BY <1>1, <1>6, <1>7

(* Every Evaluation starts before the terminal. *)
LEMMA CountedBeforeLast ==
    ASSUME NEW log, IsLog(log), NEW used \in [Purposes -> Nat], Tallied(log, used),
           Terminal(log).kind # "evaluation_attempt_started"
    PROVE  CountsBefore(log, Len(log)) = used
<1>1. ASSUME NEW purpose \in Purposes
      PROVE  {j \in At(log, "evaluation_attempt_started") :
                 j < Len(log) /\ log[j].purpose = purpose} = Starts(log, purpose)
  <2>1. \A j \in At(log, "evaluation_attempt_started") : j < Len(log)
    BY DEF At, IsLog, Terminal
  <2> QED
    BY <2>1 DEF Starts
<1>2. \A purpose \in Purposes : CountsBefore(log, Len(log))[purpose] = used[purpose]
  <2> TAKE purpose \in Purposes
  <2>1. CountsBefore(log, Len(log))[purpose]
           = Cardinality({j \in At(log, "evaluation_attempt_started") :
                             j < Len(log) /\ log[j].purpose = purpose})
    BY Zenon DEF CountsBefore
  <2>2. Cardinality(Starts(log, purpose)) = used[purpose]
    BY DEF Tallied
  <2> QED
    BY <1>1, <2>1, <2>2, Zenon
<1>3. CountsBefore(log, Len(log)) = [purpose \in Purposes |-> CountsBefore(log, Len(log))[purpose]]
  BY Zenon DEF CountsBefore
<1>4. used = [purpose \in Purposes |-> used[purpose]]
  OBVIOUS
<1> DEFINE f == CountsBefore(log, Len(log))
<1> HIDE DEF f
<1>5. f = [purpose \in Purposes |-> f[purpose]] /\ \A purpose \in Purposes : f[purpose] = used[purpose]
  BY <1>2, <1>3, Zenon DEF f
<1>6. f = used
  BY <1>4, <1>5
<1> QED
  BY <1>6 DEF f

LEMMA ConfirmationReplayed ==
    ASSUME IInv, JInv, KInv, SealRun, NEW longer, longer = ledger',
           TerminalTokens(longer) = tokens
    PROVE  FinalConfirmation(longer) = confirmation
<1>1. \/ confirmation = {} /\ ConfirmationsAt(longer) = {}
      \/ \E i, c : ConfirmedBy(longer, i, c)
  BY SealedConfirmed
<1>2. CASE confirmation = {} /\ ConfirmationsAt(longer) = {}
  BY <1>2 DEF FinalConfirmation
<1>3. ASSUME NEW i, NEW c, ConfirmedBy(longer, i, c)
      PROVE  FinalConfirmation(longer) = confirmation
  <2>1. /\ confirmation = {c} /\ ConfirmationsAt(longer) = {i}
        /\ EvaluationKey(longer[i]) = <<source, "confirmatory", observations[source].candidate>>
        /\ c = Confirmation(source, observations[source].candidate, tokens,
                            longer[i].receipt.latency)
    BY <1>3, Zenon DEF ConfirmedBy
  <2>2. longer[i].turn = source /\ longer[i].candidate = observations[source].candidate
    BY <2>1 DEF EvaluationKey
  <2>3. c = Confirmation(longer[i].turn, longer[i].candidate, TerminalTokens(longer),
                         longer[i].receipt.latency)
    BY <2>1, <2>2, Zenon
  <2>4. FinalConfirmation(longer) = {c}
    BY <2>1, <2>3, Zenon DEF FinalConfirmation
  <2> QED
    BY <2>1, <2>4, Zenon
<1> QED
  BY <1>1, <1>2, <1>3

(* replay/outcomes.py on the ledger of a sealed Run. *)
LEMMA TerminalReplayed ==
    ASSUME IInv, JInv, KInv, SealRun, NEW longer, longer = ledger', NEW tick,
           tick = Rounded(elapsed'), Bookkept(longer, observations, tokens, compilations, counts),
           Observations(longer) = observations, TerminalTokens(longer) = tokens,
           ObservedTurns(longer) = 1..Cardinality(ObservedTurns(longer))
    PROVE  TerminalReplays(longer)
<1> DEFINE state == Projected(longer).state
<1>1. /\ pc = "seal"
      /\ Sealing(ledger, ledger', ProjectedEvent(elapsed'), TerminalEvent(elapsed'))
      /\ ProjectionDefined(observations, tokens)
      /\ EndpointDefined(observations, tokens, adherence, reason, confirmation)
  BY SealStep
<1>2. PICK projected, terminal :
         projected = ProjectedEvent(elapsed') /\ terminal = TerminalEvent(elapsed')
  OBVIOUS
<1>3. Sealing(ledger, longer, projected, terminal)
  BY <1>1, <1>2, Zenon
<1>4. Projected(longer) = projected /\ Terminal(longer) = terminal
  BY <1>3, SealedSame
<1>5. /\ state.iteration = NextIteration(observations) /\ state.tokens = tokens
      /\ state.elapsed = tick /\ state.authoring = Rounded(authoring)
      /\ state.counts = counts /\ state.compilations = compilations
      /\ state.searchElapsed = IF closedAt = {} THEN tick ELSE CHOOSE time \in closedAt : TRUE
      /\ state.exceeded = ExceededBudgets(tokens, Rounded(authoring), state.searchElapsed, tick)
      /\ state.reason = reason
      /\ Projected(longer).checkpoints = Projection(observations, tokens)
      /\ terminal.adherence = adherence /\ terminal.kind = "run_terminal"
      /\ terminal.endpoint = Endpoint(tokens, adherence, reason, confirmation, state.exceeded)
  <2> DEFINE card == RalphState(elapsed', closedAt, reason)
  <2>1. /\ state = card /\ Projected(longer).checkpoints = Projection(observations, tokens)
        /\ terminal.adherence = adherence /\ terminal.kind = "run_terminal"
        /\ terminal.endpoint = Endpoint(tokens, adherence, reason, confirmation, card.exceeded)
    BY <1>2, <1>4 DEF ProjectedEvent, TerminalEvent
  <2>2. /\ card.iteration = NextIteration(observations) /\ card.tokens = tokens
        /\ card.elapsed = Rounded(elapsed') /\ card.authoring = Rounded(authoring)
        /\ card.counts = counts /\ card.compilations = compilations
        /\ card.reason = reason
    BY DEF RalphState
  <2>3. card.searchElapsed = IF closedAt = {} THEN Rounded(elapsed')
                             ELSE CHOOSE time \in closedAt : TRUE
    BY DEF RalphState
  <2>4. card.exceeded = ExceededBudgets(tokens, Rounded(authoring),
                IF closedAt = {} THEN Rounded(elapsed') ELSE CHOOSE time \in closedAt : TRUE,
                Rounded(elapsed'))
    BY Zenon DEF RalphState
  <2> HIDE DEF card, state
  <2>5. card.exceeded = ExceededBudgets(tokens, Rounded(authoring), card.searchElapsed, tick)
    BY <2>3, <2>4, Zenon
  <2> QED
    BY <2>1, <2>2, <2>3, <2>5, Zenon
<1>6. /\ IsLog(longer) /\ Tallied(longer, counts) /\ Permits(longer, compilations)
      /\ counts \in [Purposes -> Nat]
  BY <1>1, KFacts DEF Bookkept
<1>7. CountsBefore(longer, Len(longer)) = counts
  <2>1. Terminal(longer).kind # "evaluation_attempt_started"
    BY <1>4, <1>5
  <2> QED
    BY <1>6, <2>1, CountedBeforeLast
<1>8. CompilationCount(longer) = compilations
  BY <1>6 DEF Permits
<1>9. FinalConfirmation(longer) = confirmation
  BY ConfirmationReplayed
<1>10. Unclosed(longer) \/ \E i : ClosedBy(longer, i, tick)
  BY SealedClosed
<1>11. /\ adherence = "adhered" => closedAt # {} /\ Faults(longer) = {}
       /\ adherence # "adhered" => Faults(longer) # {} /\ reason = adherence
  <2>1. adherence = "adhered" => closedAt # {}
    BY <1>1 DEF JInv, Nominated
  <2>2. adherence # "adhered" => Faults(longer) # {} /\ reason = adherence
    BY SealedFault
  <2>3. Ending(ledger', observations, tokens, adherence)
    BY SealedEnding
  <2>4. Ending(longer, observations, tokens, adherence)
    BY <2>3, Zenon
  <2>5. adherence = "adhered" => Faults(longer) = {}
    BY <2>4 DEF Ending
  <2> QED
    BY <2>1, <2>2, <2>5
<1> DEFINE closes == At(longer, "search_completed")
           searchElapsed == IF closes = {} THEN state.elapsed ELSE The(longer, closes).state.elapsed
<1> HIDE DEF state
<1>12. /\ closes # {} => /\ state.elapsed >= searchElapsed
                         /\ state.authoring = The(longer, closes).state.authoring
       /\ state.searchElapsed = searchElapsed
       /\ reason = IF Faults(longer) # {} THEN adherence ELSE The(longer, closes).state.reason
  <2>1. CASE Unclosed(longer)
    <3>1. closes = {} /\ closedAt = {}
      BY <2>1 DEF Unclosed
    <3>2. Faults(longer) # {} /\ reason = adherence
      BY <1>11, <3>1
    <3> QED
      BY <1>5, <3>1, <3>2
  <2>2. ASSUME NEW i, ClosedBy(longer, i, tick)
        PROVE  /\ closes # {} => /\ state.elapsed >= searchElapsed
                                 /\ state.authoring = The(longer, closes).state.authoring
               /\ state.searchElapsed = searchElapsed
               /\ reason = IF Faults(longer) # {} THEN adherence
                           ELSE The(longer, closes).state.reason
    <3>1. /\ closes = {i} /\ closedAt = {longer[i].state.elapsed}
          /\ longer[i].state.elapsed \in Nat /\ tick \in Nat /\ longer[i].state.elapsed <= tick
          /\ longer[i].state.authoring = Rounded(authoring)
          /\ adherence = "adhered" => reason = longer[i].state.reason
      BY <2>2 DEF ClosedBy
    <3>2. The(longer, closes) = longer[i] /\ closes # {}
      <4>1. ASSUME NEW D, D = {i} PROVE The(longer, D) = longer[i]
        BY <4>1, OneOnly
      <4> QED
        BY <3>1, <4>1, Zenon
    <3>3. (CHOOSE time \in closedAt : TRUE) = longer[i].state.elapsed /\ closedAt # {}
      <4>1. PICK time : time = longer[i].state.elapsed
        OBVIOUS
      <4>2. (CHOOSE x \in {time} : TRUE) = time
        OBVIOUS
      <4>3. closedAt = {time}
        BY <3>1, <4>1, Zenon
      <4> QED
        BY <4>1, <4>2, <4>3, Zenon
    <3> HIDE DEF closes
    <3>4. searchElapsed = longer[i].state.elapsed
      BY <3>2
    <3>5. state.searchElapsed = longer[i].state.elapsed
      BY <1>5, <3>3
    <3> QED
      BY <1>5, <1>11, <3>1, <3>2, <3>4, <3>5
  <2> QED
    BY <1>10, <2>1, <2>2
<1>13. state.exceeded = ExceededBudgets(tokens, state.authoring, searchElapsed, state.elapsed)
  BY <1>5, <1>12, Zenon
<1> HIDE DEF closes, searchElapsed
<1>14. /\ EndpointDefined(observations, tokens, terminal.adherence, reason, confirmation)
       /\ terminal.endpoint = Endpoint(tokens, terminal.adherence, reason, confirmation,
                                       state.exceeded)
  BY <1>1, <1>5, Zenon
<1>15. reason = IF Faults(longer) # {} THEN terminal.adherence
                ELSE The(longer, closes).state.reason
  BY <1>5, <1>12, Zenon
<1>16. /\ ProjectionDefined(observations, tokens)
       /\ Projected(longer).checkpoints = Projection(observations, tokens)
       /\ NormalTerminal => state.iteration = NextIteration(observations)
       /\ closes # {} => /\ state.elapsed >= searchElapsed
                         /\ state.authoring = The(longer, closes).state.authoring
       /\ state.searchElapsed = searchElapsed
       /\ state.exceeded = ExceededBudgets(tokens, state.authoring, searchElapsed, state.elapsed)
       /\ state.tokens = tokens
       /\ state.counts = CountsBefore(longer, Len(longer))
       /\ state.compilations = CompilationCount(longer)
       /\ state.reason = IF Faults(longer) # {} THEN terminal.adherence
                         ELSE The(longer, closes).state.reason
  BY <1>1, <1>5, <1>7, <1>8, <1>12, <1>13, <1>15, Zenon
<1>17. /\ EndpointDefined(observations, tokens, terminal.adherence,
                          IF Faults(longer) # {} THEN terminal.adherence
                          ELSE The(longer, closes).state.reason, FinalConfirmation(longer))
       /\ terminal.endpoint = Endpoint(tokens, terminal.adherence,
                          IF Faults(longer) # {} THEN terminal.adherence
                          ELSE The(longer, closes).state.reason, FinalConfirmation(longer),
                          ExceededBudgets(tokens, state.authoring, searchElapsed, state.elapsed))
  BY <1>9, <1>13, <1>14, <1>15, Zenon
<1> QED
  BY <1>4, <1>16, <1>17, Zenon DEF TerminalReplays, state, closes, searchElapsed

(* A Run that closed without a completed turn. *)
LEMMA KindsAre ==
    ASSUME NEW log, IsLog(log), NEW names, IsSequence(names), Len(log) = Len(names),
           \A i \in 1..Len(names) : log[i].kind = names[i]
    PROVE  [i \in DOMAIN log |-> log[i].kind] = names
<1>1. Len(log) \in Nat /\ DOMAIN log = 1..Len(log)
  BY DEF IsLog
<1> DEFINE f == [i \in 1..Len(log) |-> log[i].kind]
<1>2. /\ f = [i \in DOMAIN log |-> log[i].kind] /\ f = [i \in 1..Len(log) |-> f[i]]
      /\ \A i \in 1..Len(log) : f[i] = log[i].kind
  BY <1>1
<1> HIDE DEF f
<1>3. IsSequence(f) /\ Len(f) = Len(log)
  BY <1>1, <1>2, FunctionIsSequence
<1>4. \A i \in 1..Len(f) : f[i] = names[i]
  BY <1>2, <1>3
<1>5. f = names
  BY <1>3, <1>4, SameSequence
<1> QED
  BY <1>2, <1>5, Zenon

LEMMA ZeroTurnReplayed ==
    ASSUME IInv, JInv, KInv, SealRun, NEW longer, longer = ledger',
           Bookkept(longer, observations, tokens, compilations, counts),
           TurnCount(longer) = 0
    PROVE  ZeroTurnReplays(longer)
<1>1. /\ pc = "seal"
      /\ Sealing(ledger, ledger', ProjectedEvent(elapsed'), TerminalEvent(elapsed'))
  BY SealStep
<1>2. PICK projected, terminal :
         projected = ProjectedEvent(elapsed') /\ terminal = TerminalEvent(elapsed')
  OBVIOUS
<1>3. Sealing(ledger, longer, projected, terminal)
  BY <1>1, <1>2, Zenon
<1>4. projected.kind = "checkpoints_projected" /\ terminal.kind = "run_terminal"
  BY <1>2 DEF ProjectedEvent, TerminalEvent
<1>5. /\ Unturned /\ Faulted /\ Formed(ledger) /\ IsSequence(observations)
      /\ Len(observations) \in Nat /\ (closedAt = {} => source = 0)
  BY <1>1, KFacts DEF InOrder, Logged
<1>6. /\ \A i \in 1..Len(ledger) : longer[i] = ledger[i]
      /\ Len(ledger) \in Nat /\ Len(longer) = Len(ledger) + 2
      /\ longer[Len(ledger) + 1] = projected /\ longer[Len(ledger) + 2] = terminal
      /\ IsLog(longer)
  BY <1>3, SealedSame DEF Sealing
<1>7. AtTurn(longer, "provider_turn_completed", Upcoming)
         = AtTurn(ledger, "provider_turn_completed", Upcoming)
  BY <1>3, SealedSame DEF SealKinds
<1>8. /\ AtTurn(longer, "provider_turn_completed", Len(observations) + 1) # {} =>
            TurnCount(longer) = Len(observations) + 1
      /\ AtTurn(longer, "provider_turn_completed", Len(observations) + 1) = {} =>
            TurnCount(longer) = Len(observations)
  BY TurnFacts
<1>9. /\ Len(observations) = 0
      /\ AtTurn(longer, "provider_turn_completed", Len(observations) + 1) = {}
  BY <1>5, <1>8
<1>10. observations = << >> /\ ~Has("provider_turn_completed") /\ Upcoming = 1
  <2>1. observations = << >>
    BY <1>5, <1>9 DEF IsSequence
  <2>2. ~Has("provider_turn_completed")
    BY <1>7, <1>9 DEF Has, Upcoming
  <2> QED
    BY <1>9, <2>1, <2>2 DEF Upcoming
<1>11. ledger[1].kind = "run_started"
  BY <1>5 DEF Formed
<1>12. adherence = "adhered" => closedAt # {}
  BY <1>1 DEF JInv, Nominated
<1>13. CASE closedAt # {}
  <2>1. /\ Len(ledger) = 3 /\ ledger[2].kind = "search_completed"
        /\ ledger[3].kind = "candidate_nominated"
    BY <1>5, <1>10, <1>13 DEF Unturned
  <2> DEFINE names == <<"run_started", "search_completed", "candidate_nominated",
                        "checkpoints_projected", "run_terminal">>
  <2>2. /\ names \in Seq({"run_started", "search_completed", "candidate_nominated",
                           "checkpoints_projected", "run_terminal"})
        /\ Len(names) = 5
    OBVIOUS
  <2>3. names[1] = "run_started" /\ names[2] = "search_completed"
        /\ names[3] = "candidate_nominated" /\ names[4] = "checkpoints_projected"
        /\ names[5] = "run_terminal"
    OBVIOUS
  <2> HIDE DEF names
  <2>4. IsSequence(names)
    BY <2>2 DEF IsSequence
  <2>5. /\ longer[1].kind = "run_started" /\ longer[2].kind = "search_completed"
        /\ longer[3].kind = "candidate_nominated" /\ longer[4].kind = "checkpoints_projected"
        /\ longer[5].kind = "run_terminal" /\ Len(longer) = 5
    BY <1>4, <1>6, <1>11, <2>1
  <2>6. \A i \in 1..5 : longer[i].kind = names[i]
    <3>1. \A i \in 1..5 : i = 1 \/ i = 2 \/ i = 3 \/ i = 4 \/ i = 5
      OBVIOUS
    <3> QED
      BY <2>3, <2>5, <3>1
  <2>7. [i \in DOMAIN longer |-> longer[i].kind] = names
    <3>1. /\ IsLog(longer) /\ IsSequence(names) /\ Len(longer) = Len(names)
          /\ \A i \in 1..Len(names) : longer[i].kind = names[i]
      BY <1>6, <2>2, <2>4, <2>5, <2>6
    <3> QED
      BY ONLY <3>1, KindsAre
  <2> QED
    BY <2>7, Zenon DEF ZeroTurnReplays, names
<1>14. CASE closedAt = {}
  <2>1. Len(ledger) = 2 /\ adherence # "adhered" /\ source = 0
    BY <1>5, <1>10, <1>12, <1>14 DEF Unturned
  <2> DEFINE fault == ledger[Len(ledger)]
  <2>2. /\ Faults(ledger) = {Len(ledger)} /\ fault.origin = Origin.origin
        /\ fault.turn = Origin.turn /\ turn = Upcoming
        /\ Has("provider_turn_completed") <=> fault.stage # "provider"
    BY <1>5, <2>1 DEF Faulted
  <2>3. 2 \in Faults(ledger)
    BY <2>1, <2>2
  <2>4. /\ ledger[2].kind = "run_fault" /\ ledger[2].origin = "turn" /\ ledger[2].turn = 1
        /\ ledger[2].stage = "provider"
    <3>1. ledger[2].kind = "run_fault"
      BY <2>3 DEF Faults, At
    <3>2. Origin.origin = "turn" /\ Origin.turn = turn
      BY <2>1 DEF Origin
    <3> QED
      BY <1>10, <2>1, <2>2, <3>1, <3>2
  <2> DEFINE names == <<"run_started", "run_fault", "checkpoints_projected", "run_terminal">>
  <2>5. /\ names \in Seq({"run_started", "run_fault", "checkpoints_projected",
                           "run_terminal"})
        /\ Len(names) = 4
    OBVIOUS
  <2>6. names[1] = "run_started" /\ names[2] = "run_fault"
        /\ names[3] = "checkpoints_projected" /\ names[4] = "run_terminal"
    OBVIOUS
  <2> HIDE DEF names
  <2>7. IsSequence(names)
    BY <2>5 DEF IsSequence
  <2>8. longer[2] = ledger[2]
    BY <1>6, <2>1
  <2>9. /\ longer[1].kind = "run_started" /\ longer[2].kind = "run_fault"
        /\ longer[3].kind = "checkpoints_projected" /\ longer[4].kind = "run_terminal"
        /\ Len(longer) = 4
    BY <1>4, <1>6, <1>11, <2>1, <2>4
  <2>10. \A i \in 1..4 : longer[i].kind = names[i]
    <3>1. \A i \in 1..4 : i = 1 \/ i = 2 \/ i = 3 \/ i = 4
      OBVIOUS
    <3> QED
      BY <2>6, <2>9, <3>1
  <2>11. [i \in DOMAIN longer |-> longer[i].kind] = names
    <3>1. /\ IsLog(longer) /\ IsSequence(names) /\ Len(longer) = Len(names)
          /\ \A i \in 1..Len(names) : longer[i].kind = names[i]
      BY <1>6, <2>5, <2>7, <2>9, <2>10
    <3> QED
      BY ONLY <3>1, KindsAre
  <2>12. longer[2].origin = "turn" /\ longer[2].turn = 1 /\ longer[2].stage = "provider"
    BY <2>4, <2>8
  <2> QED
    BY <2>11, <2>12, Zenon DEF ZeroTurnReplays, names
<1> QED
  BY <1>13, <1>14

(* The ledger SealRun leaves is one its replay accepts. *)
LEMMA SealReplays ==
    ASSUME IInv, JInv, KInv, Rebuilt, SealRun, ~ProfileFault, ~ReceiptStranded'
    PROVE  Replays(ledger')
<1>1. /\ pc = "seal" /\ elapsed \in Nat /\ elapsed' \in Nat
      /\ ProjectionDefined(observations, tokens)
      /\ Sealing(ledger, ledger', ProjectedEvent(elapsed'), TerminalEvent(elapsed'))
      /\ Bookkept(ledger', observations, tokens, compilations, counts)
      /\ Ordered(ledger', turn) /\ Dated(ledger', Rounded(elapsed'))
  BY SealStep
<1>2. PICK longer, projected, terminal, tick :
         /\ longer = ledger' /\ projected = ProjectedEvent(elapsed')
         /\ terminal = TerminalEvent(elapsed') /\ tick = Rounded(elapsed')
  OBVIOUS
<1>3. /\ Sealing(ledger, longer, projected, terminal)
      /\ Bookkept(longer, observations, tokens, compilations, counts)
      /\ Ordered(longer, turn) /\ Dated(longer, tick)
      /\ Ending(longer, observations, tokens, adherence)
  BY <1>1, <1>2, SealedEnding, Zenon
<1>4. /\ projected.kind = "checkpoints_projected" /\ terminal.kind = "run_terminal"
      /\ projected.state.compilations = compilations
  BY <1>2 DEF ProjectedEvent, TerminalEvent, RalphState
<1>5. /\ Formed(ledger) /\ IsSequence(observations) /\ Len(observations) \in Nat
  BY <1>1, KFacts DEF InOrder, Logged
<1>6. /\ Interruption(longer, observations) /\ FaultPlaced(longer)
      /\ TerminalTokens(longer) = tokens
      /\ AtTurn(longer, "provider_turn_completed", Len(observations) + 1) # {} =>
            \A i \in 1..Len(observations) : observations[i].tokens < tokens
  BY ONLY <1>3, <1>5, EndingFacts
<1>7. Shaped(longer)
  BY ONLY <1>3, <1>4, <1>5, ShapedReplays
<1>8. InTurnOrder(longer) /\ ClockMonotone(longer)
  BY <1>3 DEF Ordered, Dated
<1>9. TurnCount(longer) = 0 => ZeroTurnReplays(longer)
  BY <1>2, <1>3, ZeroTurnReplayed
<1>10. TurnsReplay(longer)
  BY ONLY <1>1, <1>3, <1>6, TurnsReplayed
<1>11. ActionsReplay(longer)
  BY ONLY <1>3, <1>6, ActionsReplayed
<1>12. Unclosed(longer) \/ \E i : ClosedBy(longer, i, tick)
  BY <1>2, SealedClosed
<1>13. CompilationsReplay(longer)
  <2>1. compilations <= MaximumCompilations
    BY DEF IInv, TypeOK
  <2>2. \A i \in At(longer, "checkpoints_projected") : longer[i].state.compilations = compilations
    <3>1. At(longer, "checkpoints_projected") \subseteq {Len(ledger) + 1}
      <4>1. /\ IsLog(longer) /\ IsLog(ledger) /\ Len(longer) = Len(ledger) + 2
            /\ longer[Len(ledger) + 2] = terminal
            /\ \A i \in 1..Len(ledger) : longer[i] = ledger[i]
        BY <1>3 DEF Sealing, Adds, Grown
      <4>2. \A i \in 1..Len(ledger) : longer[i].kind # "checkpoints_projected"
        <5>1. \A i \in 1..Len(ledger) : i = 1 \/ i \in 2..Len(ledger)
          BY <4>1 DEF IsLog
        <5> QED
          BY <1>5, <4>1, <5>1 DEF Formed, OpenKinds
      <4>3. longer[Len(ledger) + 2].kind # "checkpoints_projected"
        BY <1>4, <4>1
      <4> QED
        BY <4>1, <4>2, <4>3 DEF At, IsLog
    <3>2. longer[Len(ledger) + 1] = projected
      BY <1>3 DEF Sealing
    <3> QED
      BY <1>4, <3>1, <3>2
  <2>3. \A i \in At(longer, "search_completed") : longer[i].state.compilations = compilations
    <3>1. CASE Unclosed(longer)
      BY <3>1 DEF Unclosed
    <3>2. ASSUME NEW i, ClosedBy(longer, i, tick)
          PROVE  \A j \in At(longer, "search_completed") :
                    longer[j].state.compilations = compilations
      <4>1. At(longer, "search_completed") = {i} /\ longer[i].state.compilations = compilations
        BY <3>2, Zenon DEF ClosedBy
      <4> QED
        BY <4>1, Zenon
    <3> QED
      BY <1>12, <3>1, <3>2
  <2>4. \A i \in At(longer, "search_completed") \cup At(longer, "checkpoints_projected") :
           longer[i].state.compilations = compilations
    BY <2>2, <2>3
  <2> QED
    BY ONLY <1>3, <2>1, <2>4, CompilationsReplayed
<1>14. InvocationsReplay(longer)
  <2>1. \A purpose \in Purposes : counts[purpose] <= EvaluationLimit[purpose]
    BY DEF IInv, WithinLimits
  <2>2. Shut(longer)
    <3>1. CASE Unclosed(longer)
      BY <3>1 DEF Unclosed, Shut
    <3>2. ASSUME NEW i, ClosedBy(longer, i, tick)
          PROVE  Shut(longer)
      <4>1. /\ At(longer, "search_completed") = {i} /\ i \in Nat
            /\ At(longer, "candidate_nominated") = {i + 1}
            /\ \A j \in (i + 1)..Len(longer) : longer[j].kind \notin SearchKinds
        BY <3>2, Zenon DEF ClosedBy
      <4>2. i < i + 1
        BY <4>1
      <4> QED
        BY <4>1, <4>2, Zenon DEF Shut
    <3> QED
      BY <1>12, <3>1, <3>2
  <2>3. \A i \in Faults(longer) : i = Len(longer) - 2
    BY <1>3 DEF Ending, FaultAt
  <2>4. \A i \in At(longer, "evaluation_attempt_completed") :
           ~(longer[i].answered /\ Interrupted(longer, i))
    BY <1>2 DEF ReceiptStranded
  <2> QED
    BY ONLY <1>3, <2>1, <2>2, <2>3, <2>4, InvocationsReplayed
<1>15. SelectionsReplay(longer)
  <2>1. Attributed(longer, observations, source)
    BY <1>2, SealedAttributed
  <2> QED
    BY ONLY <1>3, <1>6, <2>1, SelectionsReplayed
<1>16. /\ ObservedTurns(longer) = 1..Len(observations)
       /\ Cardinality(ObservedTurns(longer)) = Len(observations)
       /\ Observations(longer) = observations
  <2>1. \A t \in 1..Len(observations) :
           /\ observations[t].latency \in Nat
           /\ observations[t] = Observation(t, observations[t].tokens,
                                   observations[t].candidate, observations[t].latency)
    <3> TAKE t \in 1..Len(observations)
    <3>1. observations[t].latency \in AnyLatency
      BY ObservationTypes
    <3>2. AnyLatency \subseteq Nat
      BY CandidateAssumption DEF AnyLatency
    <3>3. observations[t] = Observation(t, observations[t].tokens,
                               observations[t].candidate, observations[t].latency)
      BY Zenon DEF Rebuilt
    <3> QED
      BY <3>1, <3>2, <3>3
  <2> QED
    BY ONLY <1>3, <1>5, <1>6, <2>1, ObservationsReplayed
<1>17. NominationReplays(longer)
  BY <1>2, <1>3, <1>6, <1>16, NominationReplayed
<1>18. TerminalReplays(longer)
  <2>1. ObservedTurns(longer) = 1..Cardinality(ObservedTurns(longer))
    BY <1>16, Zenon
  <2> QED
    BY <1>2, <1>3, <1>6, <1>16, <2>1, TerminalReplayed
<1>19. Replays(longer)
  BY <1>6, <1>7, <1>8, <1>9, <1>10, <1>11, <1>13, <1>14, <1>15, <1>17, <1>18, Zenon DEF Replays
<1> QED
  BY <1>2, <1>19, Zenon

(* The seal adds no turn to the one an undeclared stop names. *)
LEMMA SealedUndeclared == Undeclared /\ SealRun => StopUndeclared'
<1> SUFFICES ASSUME Undeclared, SealRun PROVE StopUndeclared'
  OBVIOUS
<1>1. /\ UNCHANGED <<turn, stage, closedAt, adherence>>
      /\ ledger' = ledger \o <<ProjectedEvent(elapsed'), TerminalEvent(elapsed')>>
  BY DEF SealRun, budgetVars, outcomeVars, ProjectedEvent, TerminalEvent
<1>2. Sealing(ledger, ledger', ProjectedEvent(elapsed'), TerminalEvent(elapsed'))
  BY <1>1, TwoMore DEF Undeclared, ProjectedEvent, TerminalEvent
<1>3. AtTurn(ledger', "provider_turn_completed", turn)
         = AtTurn(ledger, "provider_turn_completed", turn)
  BY <1>2, AtTurnSame DEF Sealing, SealKinds
<1> QED
  BY <1>1, <1>3 DEF Undeclared, StopUndeclared

(* SealedRunReplays: every Run the live controller seals, however it ended, *)
(* is one the independent replay of its ledger accepts, but for the failed *)
(* profile of a confirmed winner, a stranded receipt and an undeclared stop.*)
THEOREM RunReplays == Spec => []SealedRunReplays
<1>1. Init => SealedRunReplays
  BY DEF Init, SealedRunReplays
<1>2. ASSUME IInv, JInv, KInv \/ Undeclared, Rebuilt, SealedRunReplays, [Next]_vars
      PROVE  SealedRunReplays'
  <2>1. CASE SealRun
    <3> SUFFICES ASSUME ~ProfileFault', ~ReceiptStranded', ~StopUndeclared'
                 PROVE Replays(ledger')
      BY DEF SealedRunReplays
    <3>0. KInv
      BY <1>2, <2>1, SealedUndeclared
    <3>1. UNCHANGED <<source, adherence, confirmation>>
      BY <1>2, <2>1, <3>0, SealStep
    <3>2. ~ProfileFault
      BY <3>1 DEF ProfileFault
    <3> QED
      BY <1>2, <2>1, <3>0, <3>2, SealReplays
  <2>2. CASE UNCHANGED vars
    <3>1. UNCHANGED <<pc, turn, stage, closedAt, source, adherence, confirmation, ledger>>
      BY <2>2 DEF vars, budgetVars, resultVars, outcomeVars
    <3> QED
      BY <1>2, <3>1 DEF SealedRunReplays, ProfileFault, ReceiptStranded, StopUndeclared
  <2>3. CASE Next /\ ~SealRun
    <3>1. pc' # "sealed"
      BY <2>3, OnlySealRunSeals
    <3> QED
      BY <3>1 DEF SealedRunReplays
  <2> QED
    BY <1>2, <2>1, <2>2, <2>3
<1>3. Spec => [](IInv /\ JInv /\ (KInv \/ Undeclared))
  BY RunStands
<1>4. Spec => []Rebuilt
  BY ObservationsRebuilt
<1> QED
  BY <1>1, <1>2, <1>3, <1>4, PTL DEF Spec

-------------------------------------------------------------------------------
(* A ledger with one event left out *)

(* Where what is left stood. *)
Place(i, k) == IF k < i THEN k ELSE k + 1
Omits(log, i, short) ==
    /\ IsLog(log) /\ IsLog(short) /\ i \in 1..Len(log) /\ Len(short) = Len(log) - 1
    /\ \A k \in 1..Len(short) : short[k] = log[Place(i, k)]

LEMMA OmittingOmits ==
    ASSUME NEW log, IsSequence(log), NEW i \in DOMAIN log, NEW short,
           short = SubSeq(log, 1, i - 1) \o SubSeq(log, i + 1, Len(log))
    PROVE  Omits(log, i, short)
<1>1. PICK S : log \in Seq(S)
  BY DEF IsSequence
<1>2. Len(log) \in Nat /\ i \in 1..Len(log) /\ DOMAIN log = 1..Len(log)
  BY <1>1
<1> DEFINE left == SubSeq(log, 1, i - 1)
           right == SubSeq(log, i + 1, Len(log))
<1>3. /\ left \in Seq(S) /\ Len(left) = i - 1
      /\ \A k \in 1..(i - 1) : left[k] = log[k]
  BY <1>1, <1>2
<1>4. /\ right \in Seq(S) /\ Len(right) = Len(log) - i
      /\ \A k \in 1..(Len(log) - i) : right[k] = log[i + k]
  <2>1. right \in Seq(S)
    BY <1>1, <1>2
  <2>2. Len(right) = Len(log) - i
    BY <1>1, <1>2
  <2>3. ASSUME NEW k \in 1..(Len(log) - i) PROVE right[k] = log[i + k]
    <3>1. right[k] = log[(i + 1) + k - 1]
      <4>1. i + 1 \in Int /\ Len(log) \in Int /\ (\A n \in (i + 1)..Len(log) : log[n] \in S)
            /\ k \in 1..(Len(log) - (i + 1) + 1)
        BY <1>1, <1>2, <2>3
      <4> QED
        BY ONLY <4>1, SubSeqProperties DEF right
    <3>2. (i + 1) + k - 1 = i + k
      BY <1>2
    <3> QED
      BY <3>1, <3>2, Zenon
  <2> QED
    BY <2>1, <2>2, <2>3
<1> HIDE DEF left, right
<1>5. /\ left \o right \in Seq(S) /\ Len(left \o right) = Len(log) - 1
      /\ \A k \in 1..(Len(log) - 1) :
            (left \o right)[k] = IF k <= i - 1 THEN left[k] ELSE right[k - (i - 1)]
  <2>1. /\ left \o right \in Seq(S) /\ Len(left \o right) = Len(left) + Len(right)
        /\ \A k \in 1..(Len(left) + Len(right)) :
              (left \o right)[k] = IF k <= Len(left) THEN left[k] ELSE right[k - Len(left)]
    BY ONLY <1>3, <1>4, ConcatProperties
  <2>2. Len(left) + Len(right) = Len(log) - 1
    BY <1>2, <1>3, <1>4
  <2> QED
    BY <1>3, <2>1, <2>2, Zenon
<1>6. short = left \o right
  BY DEF left, right
<1>7. IsLog(short) /\ Len(short) = Len(log) - 1
  BY <1>5, <1>6, LogFacts DEF IsSequence
<1>8. ASSUME NEW k \in 1..Len(short) PROVE short[k] = log[Place(i, k)]
  <2>1. k \in 1..(Len(log) - 1) /\ k \in Nat
    BY <1>2, <1>7
  <2>2. CASE k < i
    BY <1>2, <1>3, <1>5, <1>6, <2>1, <2>2 DEF Place
  <2>3. CASE k >= i
    <3>1. k - (i - 1) \in 1..(Len(log) - i) /\ i + (k - (i - 1)) = k + 1 /\ ~(k <= i - 1)
          /\ ~(k < i)
      BY <1>2, <2>1, <2>3, SMTT(30)
    <3>2. short[k] = right[k - (i - 1)]
      BY <1>5, <1>6, <2>1, <3>1
    <3>3. right[k - (i - 1)] = log[i + (k - (i - 1))]
      BY <1>4, <3>1
    <3>4. Place(i, k) = k + 1
      BY <3>1 DEF Place
    <3> QED
      BY <3>1, <3>2, <3>3, <3>4, Zenon
  <2> QED
    BY <1>2, <2>1, <2>2, <2>3, SMTT(30)
<1>9. IsLog(log)
  BY LogFacts
<1> QED
  BY <1>2, <1>7, <1>8, <1>9 DEF Omits

LEMMA OmittedFacts ==
    ASSUME NEW log, NEW i, NEW short, Omits(log, i, short)
    PROVE  /\ Len(log) \in Nat /\ Len(short) \in Nat /\ i \in 1..Len(log) /\ i \in Nat
           /\ Len(short) = Len(log) - 1
           /\ DOMAIN log = 1..Len(log) /\ DOMAIN short = 1..Len(short)
           /\ \A k \in 1..Len(short) : /\ Place(i, k) \in 1..Len(log) \ {i}
                                       /\ short[k] = log[Place(i, k)]
           /\ \A j \in 1..Len(log) \ {i} : \E k \in 1..Len(short) :
                 Place(i, k) = j /\ short[k] = log[j]
           /\ \A k, n \in 1..Len(short) : Place(i, k) = Place(i, n) => k = n
           /\ \A k \in 1..(i - 1) : k \in 1..Len(short) /\ short[k] = log[k]
           /\ i < Len(log) => i \in 1..Len(short) /\ short[i] = log[i + 1]
<1>1. /\ Len(log) \in Nat /\ Len(short) \in Nat /\ i \in 1..Len(log) /\ i \in Nat
      /\ Len(short) = Len(log) - 1
      /\ DOMAIN log = 1..Len(log) /\ DOMAIN short = 1..Len(short)
      /\ \A k \in 1..Len(short) : short[k] = log[Place(i, k)]
  BY DEF Omits, IsLog
<1>2. \A k \in 1..Len(short) : Place(i, k) \in 1..Len(log) \ {i}
  BY <1>1 DEF Place
<1>3. ASSUME NEW j \in 1..Len(log) \ {i}
      PROVE  \E k \in 1..Len(short) : Place(i, k) = j /\ short[k] = log[j]
  <2>1. CASE j < i
    <3>1. j \in 1..Len(short) /\ Place(i, j) = j
      BY <1>1, <2>1 DEF Place
    <3> QED
      BY <1>1, <3>1
  <2>2. CASE j > i
    <3> DEFINE k == j - 1
    <3>1. k \in 1..Len(short) /\ Place(i, k) = j
      BY <1>1, <2>2 DEF Place
    <3> HIDE DEF k
    <3>2. short[k] = log[j]
      BY <1>1, <3>1, Zenon
    <3> QED
      BY <3>1, <3>2
  <2> QED
    BY <1>1, <2>1, <2>2
<1>4. \A k, n \in 1..Len(short) : Place(i, k) = Place(i, n) => k = n
  BY <1>1 DEF Place
<1>5. \A k \in 1..(i - 1) : k \in 1..Len(short) /\ short[k] = log[k]
  <2> TAKE k \in 1..(i - 1)
  <2>1. k \in 1..Len(short) /\ Place(i, k) = k
    BY <1>1 DEF Place
  <2> QED
    BY <1>1, <2>1
<1>6. ASSUME i < Len(log) PROVE i \in 1..Len(short) /\ short[i] = log[i + 1]
  <2>1. i \in 1..Len(short) /\ Place(i, i) = i + 1
    BY <1>1, <1>6 DEF Place
  <2> QED
    BY <1>1, <2>1
<1> QED
  BY <1>1, <1>2, <1>3, <1>4, <1>5, <1>6

(* As many are left as there were, without the one left out. *)
LEMMA OmittedCount ==
    ASSUME NEW log, NEW i, NEW short, Omits(log, i, short), NEW S, S \subseteq 1..Len(log),
           NEW T, T = {k \in 1..Len(short) : Place(i, k) \in S}
    PROVE  /\ IsFiniteSet(S) /\ Cardinality(S) \in Nat
           /\ Cardinality(T) = IF i \in S THEN Cardinality(S) - 1 ELSE Cardinality(S)
<1>1. /\ Len(log) \in Nat /\ Len(short) \in Nat
      /\ \A k \in 1..Len(short) : Place(i, k) \in 1..Len(log) \ {i}
      /\ \A j \in 1..Len(log) \ {i} : \E k \in 1..Len(short) : Place(i, k) = j
      /\ \A k, n \in 1..Len(short) : Place(i, k) = Place(i, n) => k = n
  BY OmittedFacts
<1>2. IsFiniteSet(S) /\ IsFiniteSet(T)
  <2>1. IsFiniteSet(1..Len(log)) /\ IsFiniteSet(1..Len(short))
    BY ONLY <1>1, 1 \in Int, Len(log) \in Int, Len(short) \in Int, FS_Interval
  <2>2. T \subseteq 1..Len(short)
    OBVIOUS
  <2> QED
    BY <2>1, <2>2, FS_Subset
<1>3. Cardinality(S) \in Nat
  BY <1>2, FS_CardinalityType
<1> DEFINE f == [k \in T |-> Place(i, k)]
           R == S \ {i}
<1>4. f \in [T -> R]
  BY <1>1
<1>5. \A k, n \in T : f[k] = f[n] => k = n
  BY <1>1
<1>6. \A j \in R : \E k \in T : f[k] = j
  BY <1>1
<1> HIDE DEF f
<1>7. IsFiniteSet(R) /\ Cardinality(R) = IF i \in S THEN Cardinality(S) - 1 ELSE Cardinality(S)
  BY <1>2, FS_RemoveElement
<1> HIDE DEF R
<1>8. Cardinality(T) = Cardinality(R)
  BY ONLY <1>4, <1>5, <1>6, <1>7, AsMany
<1> QED
  BY <1>2, <1>3, <1>7, <1>8, Zenon

LEMMA OmittedKind ==
    ASSUME NEW log, NEW i, NEW short, Omits(log, i, short), NEW kind
    PROVE  /\ Cardinality(At(log, kind)) \in Nat
           /\ Cardinality(At(short, kind)) = IF log[i].kind = kind
                 THEN Cardinality(At(log, kind)) - 1 ELSE Cardinality(At(log, kind))
           /\ \A t, j : AtTurn(log, kind, t) = {j} /\ j # i =>
                 \E k : AtTurn(short, kind, t) = {k} /\ short[k] = log[j]
           /\ \A t : AtTurn(log, kind, t) = {i} => AtTurn(short, kind, t) = {}
           /\ At(log, kind) = {i} => At(short, kind) = {}
           /\ log[i].kind # kind => TurnsAt(short, kind) = TurnsAt(log, kind)
<1>1. /\ Len(log) \in Nat /\ Len(short) \in Nat /\ i \in 1..Len(log)
      /\ DOMAIN log = 1..Len(log) /\ DOMAIN short = 1..Len(short)
      /\ \A k \in 1..Len(short) : Place(i, k) \in 1..Len(log) \ {i} /\ short[k] = log[Place(i, k)]
      /\ \A j \in 1..Len(log) \ {i} : \E k \in 1..Len(short) :
            Place(i, k) = j /\ short[k] = log[j]
      /\ \A k, n \in 1..Len(short) : Place(i, k) = Place(i, n) => k = n
  BY OmittedFacts
<1>2. At(short, kind) = {k \in 1..Len(short) : Place(i, k) \in At(log, kind)}
  BY <1>1 DEF At
<1>3. \A t : AtTurn(short, kind, t) = {k \in 1..Len(short) : Place(i, k) \in AtTurn(log, kind, t)}
  BY <1>1, <1>2 DEF AtTurn, At
<1>4. At(log, kind) \subseteq 1..Len(log) /\ (i \in At(log, kind) <=> log[i].kind = kind)
  BY <1>1 DEF At
<1>5. /\ Cardinality(At(log, kind)) \in Nat
      /\ Cardinality(At(short, kind)) = IF i \in At(log, kind)
            THEN Cardinality(At(log, kind)) - 1 ELSE Cardinality(At(log, kind))
  BY ONLY Omits(log, i, short), <1>2, <1>4, OmittedCount
<1>6. ASSUME NEW t, NEW j, AtTurn(log, kind, t) = {j}, j # i
      PROVE  \E k : AtTurn(short, kind, t) = {k} /\ short[k] = log[j]
  <2>1. j \in 1..Len(log) \ {i}
    BY <1>1, <1>6 DEF AtTurn, At
  <2>2. PICK k \in 1..Len(short) : Place(i, k) = j /\ short[k] = log[j]
    BY <1>1, <2>1
  <2>3. AtTurn(short, kind, t) = {k}
    BY <1>1, <1>3, <1>6, <2>2
  <2> QED
    BY <2>2, <2>3
<1>7. ASSUME NEW t, AtTurn(log, kind, t) = {i} PROVE AtTurn(short, kind, t) = {}
  BY <1>1, <1>3, <1>7
<1>8. At(log, kind) = {i} => At(short, kind) = {}
  BY <1>1, <1>2
<1>9. ASSUME log[i].kind # kind PROVE TurnsAt(short, kind) = TurnsAt(log, kind)
  <2>1. ASSUME NEW k \in At(short, kind) PROVE \E j \in At(log, kind) : log[j].turn = short[k].turn
    BY <1>1, <1>2
  <2>2. ASSUME NEW j \in At(log, kind) PROVE \E k \in At(short, kind) : log[j].turn = short[k].turn
    <3>1. j \in 1..Len(log) \ {i}
      BY <1>4, <1>9
    <3>2. PICK k \in 1..Len(short) : Place(i, k) = j /\ short[k] = log[j]
      BY <1>1, <3>1
    <3>3. k \in At(short, kind)
      BY <1>2, <3>2
    <3> QED
      BY <3>2, <3>3
  <2> QED
    BY <2>1, <2>2 DEF TurnsAt
<1> QED
  BY <1>4, <1>5, <1>6, <1>7, <1>8, <1>9

(* The ledger of an adhered Run, as far as an omission goes. *)
Unbroken(log) ==
    /\ IsLog(log) /\ Replays(log) /\ Faults(log) = {}
    /\ \A j \in At(log, "provider_turn_completed") : log[j].turn \in 1..TurnCount(log)
    /\ Sealed(log, FALSE)

LEMMA UnbrokenFacts ==
    ASSUME NEW log, Unbroken(log)
    PROVE  /\ \A j \in DOMAIN log : log[j].kind \in Kinds /\ log[j].kind # "run_fault"
           /\ log[1].kind = "run_started" /\ log[Len(log)].kind = "run_terminal"
           /\ Len(log) \in Nat /\ DOMAIN log = 1..Len(log) /\ Len(log) >= 3
           /\ FaultTurn(log) = 0
<1>1. Shaped(log) /\ Faults(log) = {} /\ Len(log) \in Nat /\ DOMAIN log = 1..Len(log)
  BY DEF Unbroken, Replays, IsLog
<1>2. /\ \A j \in DOMAIN log : log[j].kind \in Kinds
      /\ log[1].kind = "run_started" /\ log[Len(log)].kind = "run_terminal" /\ Len(log) >= 3
  BY <1>1 DEF Shaped, Terminal
<1>3. \A j \in DOMAIN log : log[j].kind # "run_fault"
  BY <1>1 DEF Faults, At
<1>4. FaultTurn(log) = 0
  BY <1>1 DEF FaultTurn
<1> QED
  BY <1>1, <1>2, <1>3, <1>4

(* What is left has no fault either. *)
LEMMA OmittedFault ==
    ASSUME NEW log, Unbroken(log), NEW i, NEW short, Omits(log, i, short)
    PROVE  Faults(short) = {} /\ FaultTurn(short) = 0
<1>1. \A j \in DOMAIN log : log[j].kind # "run_fault"
  BY UnbrokenFacts
<1>2. /\ DOMAIN short = 1..Len(short) /\ DOMAIN log = 1..Len(log)
      /\ \A k \in 1..Len(short) : Place(i, k) \in 1..Len(log) \ {i} /\ short[k] = log[Place(i, k)]
  BY OmittedFacts
<1>3. Faults(short) = {}
  BY <1>1, <1>2 DEF Faults, At
<1> QED
  BY <1>3 DEF FaultTurn

(* One refusal for each kind of event. *)
Omission(log, i, short) == Unbroken(log) /\ Omits(log, i, short) /\ Replays(short)

LEMMA OmissionFacts ==
    ASSUME NEW log, NEW i, NEW short, Omission(log, i, short)
    PROVE  /\ Unbroken(log) /\ Omits(log, i, short) /\ Replays(log) /\ Replays(short)
           /\ Len(log) \in Nat /\ Len(short) = Len(log) - 1 /\ i \in 1..Len(log)
           /\ DOMAIN log = 1..Len(log) /\ DOMAIN short = 1..Len(short)
           /\ Faults(log) = {} /\ Faults(short) = {}
           /\ FaultTurn(log) = 0 /\ FaultTurn(short) = 0
           /\ log[i].kind \in Kinds
           /\ log[1].kind = "run_started" /\ log[Len(log)].kind = "run_terminal"
           /\ \A j \in 1..Len(log) : log[j].kind # "run_fault"
<1>1. /\ Unbroken(log) /\ Omits(log, i, short) /\ Replays(short) /\ Replays(log)
      /\ Faults(log) = {}
  BY DEF Omission, Unbroken
<1>2. /\ Len(log) \in Nat /\ Len(short) = Len(log) - 1 /\ i \in 1..Len(log)
      /\ DOMAIN log = 1..Len(log) /\ DOMAIN short = 1..Len(short)
  BY <1>1, OmittedFacts
<1>3. /\ \A j \in DOMAIN log : log[j].kind \in Kinds /\ log[j].kind # "run_fault"
      /\ log[1].kind = "run_started" /\ log[Len(log)].kind = "run_terminal"
      /\ FaultTurn(log) = 0
  BY <1>1, UnbrokenFacts
<1>4. Faults(short) = {} /\ FaultTurn(short) = 0
  BY <1>1, OmittedFault
<1> QED
  BY <1>1, <1>2, <1>3, <1>4

LEMMA FrameOmitted ==
    ASSUME NEW log, NEW i, NEW short, Omission(log, i, short)
    PROVE  log[i].kind \notin {"run_started", "checkpoints_projected", "run_terminal"}
<1>1. Omits(log, i, short) /\ Shaped(log) /\ Shaped(short)
  BY OmissionFacts DEF Replays
<1>2. ASSUME NEW kind \in {"run_started", "checkpoints_projected", "run_terminal"},
             log[i].kind = kind
      PROVE  FALSE
  <2>1. Cardinality(At(log, kind)) = 1 /\ Cardinality(At(short, kind)) = 1
    BY <1>1 DEF Shaped, Unique
  <2>2. Cardinality(At(short, kind)) = Cardinality(At(log, kind)) - 1
    BY <1>1, <1>2, OmittedKind
  <2> QED
    BY <2>1, <2>2
<1> QED
  BY <1>2

(* Without it, a turn's number or its actions are missing. *)
LEMMA TurnOmitted ==
    ASSUME NEW log, NEW i, NEW short, Omission(log, i, short)
    PROVE  log[i].kind \notin {"provider_turn_completed", "author_actions_resolved"}
<1> DEFINE completed == "provider_turn_completed"
           resolutions == "author_actions_resolved"
<1>1. /\ Omits(log, i, short) /\ TurnsReplay(log) /\ TurnsReplay(short)
      /\ ActionsReplay(log) /\ ActionsReplay(short)
      /\ FaultTurn(log) = 0 /\ FaultTurn(short) = 0
      /\ i \in 1..Len(log) /\ DOMAIN log = 1..Len(log) /\ DOMAIN short = 1..Len(short)
      /\ \A j \in At(log, completed) : log[j].turn \in 1..TurnCount(log)
  BY OmissionFacts DEF Replays, Unbroken
<1>2. /\ TurnCount(log) \in Nat
      /\ TurnCount(short) = IF log[i].kind = completed THEN TurnCount(log) - 1
                            ELSE TurnCount(log)
  BY <1>1, OmittedKind DEF TurnCount
<1>3. /\ \A t, j : AtTurn(log, resolutions, t) = {j} /\ j # i =>
            \E k : AtTurn(short, resolutions, t) = {k} /\ short[k] = log[j]
      /\ \A t : AtTurn(log, resolutions, t) = {i} => AtTurn(short, resolutions, t) = {}
      /\ \A t : AtTurn(log, completed, t) = {i} => AtTurn(short, completed, t) = {}
  <2>1. Omits(log, i, short)
    BY <1>1
  <2>2. ASSUME NEW kind
        PROVE  /\ \A t, j : AtTurn(log, kind, t) = {j} /\ j # i =>
                     \E k : AtTurn(short, kind, t) = {k} /\ short[k] = log[j]
               /\ \A t : AtTurn(log, kind, t) = {i} => AtTurn(short, kind, t) = {}
    BY ONLY <2>1, OmittedKind, SMTT(30)
  <2> QED
    BY <2>2, Zenon
<1>4. ASSUME NEW t \in 1..TurnCount(log)
      PROVE  \E j \in At(log, resolutions) : AtTurn(log, resolutions, t) = {j} /\ log[j].turn = t
  <2>1. Cardinality(AtTurn(log, resolutions, t)) <= 1 /\ AtTurn(log, resolutions, t) # {}
    BY <1>1, <1>4 DEF ActionsReplay
  <2>2. IsFiniteSet(AtTurn(log, resolutions, t))
    <3>1. IsFiniteSet(At(log, resolutions))
      BY <1>1, LogIsFinite DEF Omits
    <3> QED
      BY <3>1, FS_Subset DEF AtTurn
  <2>3. Cardinality(AtTurn(log, resolutions, t)) = 1
    BY <2>1, <2>2, FS_CardinalityType, FS_EmptySet
  <2>4. PICK j : AtTurn(log, resolutions, t) = {j}
    BY <2>2, <2>3, FS_Singleton
  <2> QED
    BY <2>4 DEF AtTurn
<1>5. ASSUME log[i].kind = resolutions PROVE FALSE
  <2>1. i \in At(log, resolutions)
    BY <1>1, <1>5 DEF At
  <2>2. log[i].turn \in 1..TurnCount(log)
    BY <1>1, <2>1 DEF ActionsReplay
  <2>3. AtTurn(log, resolutions, log[i].turn) = {i}
    BY <1>4, <2>1, <2>2 DEF AtTurn
  <2>4. AtTurn(short, resolutions, log[i].turn) = {}
    BY <1>3, <2>3
  <2>5. log[i].turn \in 1..TurnCount(short)
    BY <1>2, <1>5, <2>2
  <2>6. log[i].turn = 0
    BY <1>1, <2>4, <2>5 DEF ActionsReplay
  <2> QED
    BY <1>2, <2>2, <2>6
<1>6. ASSUME log[i].kind = completed PROVE FALSE
  <2> DEFINE t == log[i].turn
  <2>1. i \in AtTurn(log, completed, t) /\ t \in 1..TurnCount(log)
    BY <1>1, <1>6 DEF At, AtTurn
  <2>2. TurnCount(short) = TurnCount(log) - 1
    BY <1>2, <1>6
  <2>3. CASE t \in 1..TurnCount(short)
    <3>1. Cardinality(AtTurn(log, completed, t)) = 1 /\ Cardinality(AtTurn(short, completed, t)) = 1
      BY <1>1, <2>1, <2>3 DEF TurnsReplay
    <3>2. PICK j : AtTurn(log, completed, t) = {j}
      <4>1. IsFiniteSet(AtTurn(log, completed, t))
        <5>1. IsFiniteSet(At(log, completed))
          BY <1>1, LogIsFinite DEF Omits
        <5> QED
          BY <5>1, FS_Subset DEF AtTurn
      <4> QED
        BY <3>1, <4>1, FS_Singleton
    <3>3. AtTurn(log, completed, t) = {i}
      BY <2>1, <3>2
    <3>4. AtTurn(short, completed, t) = {}
      BY <1>3, <3>3
    <3> QED
      BY <3>1, <3>4, FS_EmptySet
  <2>4. CASE t \notin 1..TurnCount(short)
    <3>1. PICK j \in At(log, resolutions) :
             AtTurn(log, resolutions, t) = {j} /\ log[j].turn = t
      BY <1>4, <2>1
    <3>2. j # i
      BY <1>6, <3>1 DEF At
    <3>3. PICK k : AtTurn(short, resolutions, t) = {k} /\ short[k] = log[j]
      BY <1>3, <3>1, <3>2
    <3>4. k \in At(short, resolutions) /\ short[k].turn = t
      BY <3>1, <3>3 DEF AtTurn
    <3> QED
      BY <1>1, <2>4, <3>4 DEF ActionsReplay
  <2> QED
    BY <2>3, <2>4
<1> QED
  BY <1>5, <1>6

(* What stood on either side of it now meets. *)
LEMMA Joined ==
    ASSUME NEW log, NEW i, NEW short, Omission(log, i, short), 1 < i, i < Len(log)
    PROVE  /\ i \in 1..Len(log) /\ i - 1 \in 1..Len(log) /\ i + 1 \in 1..Len(log)
           /\ i \in 1..Len(short) /\ i - 1 \in 1..Len(short)
           /\ short[i] = log[i + 1] /\ short[i - 1] = log[i - 1]
           /\ (i - 1) + 1 = i /\ (i + 1) - 1 = i
           /\ log[i + 1].kind # "run_fault" /\ log[i].kind # "run_fault"
           /\ DOMAIN log = 1..Len(log) /\ DOMAIN short = 1..Len(short)
<1>1. /\ Omits(log, i, short) /\ Len(log) \in Nat /\ i \in 1..Len(log)
      /\ DOMAIN log = 1..Len(log) /\ DOMAIN short = 1..Len(short)
      /\ \A j \in 1..Len(log) : log[j].kind # "run_fault"
  BY OmissionFacts
<1>2. i - 1 \in 1..(i - 1) /\ i + 1 \in 1..Len(log) /\ i - 1 \in 1..Len(log)
  BY <1>1
<1>3. /\ \A k \in 1..(i - 1) : k \in 1..Len(short) /\ short[k] = log[k]
      /\ i < Len(log) => i \in 1..Len(short) /\ short[i] = log[i + 1]
  <2>1. Omits(log, i, short)
    BY <1>1
  <2> QED
    BY ONLY <2>1, OmittedFacts
<1> QED
  BY <1>1, <1>2, <1>3

LEMMA InsideFrame ==
    ASSUME NEW log, NEW i, NEW short, Omission(log, i, short),
           log[i].kind \notin {"run_started", "run_terminal"}
    PROVE  1 < i /\ i < Len(log)
<1>1. /\ i \in 1..Len(log) /\ Len(log) \in Nat
      /\ log[1].kind = "run_started" /\ log[Len(log)].kind = "run_terminal"
  BY OmissionFacts
<1>2. i # 1 /\ i # Len(log)
  BY <1>1
<1> QED
  BY <1>1, <1>2

(* Each step of the ledger's transactions has its counterpart as a neighbour. *)
LEMMA InTransactions ==
    ASSUME NEW log, DOMAIN log = 1..Len(log), InvocationsReplay(log)
    PROVE  /\ \A j \in 1..Len(log) : log[j].kind = "evaluation_attempt_started" =>
                 log[j + 1].kind \in {"evaluation_attempt_completed", "run_fault"}
           /\ \A j \in 1..Len(log) : log[j].kind = "evaluation_attempt_completed" =>
                 /\ log[j - 1].kind = "evaluation_attempt_started"
                 /\ log[j + 1].kind \in {"candidate_evaluated", "run_fault"}
           /\ \A j \in 1..Len(log) : log[j].kind = "candidate_evaluated" =>
                 log[j - 1].kind = "evaluation_attempt_completed"
<1>1. ASSUME NEW j \in 1..Len(log), log[j].kind = "evaluation_attempt_started"
      PROVE  log[j + 1].kind \in {"evaluation_attempt_completed", "run_fault"}
  <2>1. j \in At(log, "evaluation_attempt_started")
    BY <1>1 DEF At
  <2> QED
    BY <2>1 DEF InvocationsReplay, Follows, Interrupted
<1>2. ASSUME NEW j \in 1..Len(log), log[j].kind = "evaluation_attempt_completed"
      PROVE  /\ log[j - 1].kind = "evaluation_attempt_started"
             /\ log[j + 1].kind \in {"candidate_evaluated", "run_fault"}
  <2>1. j \in At(log, "evaluation_attempt_completed")
    BY <1>2 DEF At
  <2> QED
    BY <2>1 DEF InvocationsReplay, Receipted, Follows, Interrupted
<1>3. ASSUME NEW j \in 1..Len(log), log[j].kind = "candidate_evaluated"
      PROVE  log[j - 1].kind = "evaluation_attempt_completed"
  <2>1. j \in At(log, "candidate_evaluated")
    BY <1>3 DEF At
  <2> QED
    BY <2>1 DEF InvocationsReplay
<1> QED
  BY <1>1, <1>2, <1>3

(* A permit or a step of an Evaluation stands only next to its counterpart. *)
LEMMA PairOmitted ==
    ASSUME NEW log, NEW i, NEW short, Omission(log, i, short)
    PROVE  log[i].kind \notin {"compilation_started", "compilation_completed",
                               "evaluation_attempt_started",
                               "evaluation_attempt_completed", "candidate_evaluated"}
<1> SUFFICES ASSUME log[i].kind \in {"compilation_started", "compilation_completed",
                                     "evaluation_attempt_started",
                                     "evaluation_attempt_completed", "candidate_evaluated"}
             PROVE  FALSE
  OBVIOUS
<1>1. 1 < i /\ i < Len(log)
  BY InsideFrame
<1>2. /\ i \in 1..Len(log) /\ i - 1 \in 1..Len(log) /\ i + 1 \in 1..Len(log)
      /\ i \in 1..Len(short) /\ i - 1 \in 1..Len(short)
      /\ short[i] = log[i + 1] /\ short[i - 1] = log[i - 1]
      /\ (i - 1) + 1 = i /\ (i + 1) - 1 = i
      /\ log[i + 1].kind # "run_fault" /\ log[i].kind # "run_fault"
      /\ DOMAIN log = 1..Len(log) /\ DOMAIN short = 1..Len(short)
  BY <1>1, Joined
<1>3. /\ CompilationsReplay(log) /\ CompilationsReplay(short)
      /\ InvocationsReplay(log) /\ InvocationsReplay(short)
  BY OmissionFacts DEF Replays
<1>4. /\ \A j \in 1..Len(log) : log[j].kind = "compilation_started" =>
            log[j + 1].kind = "compilation_completed"
      /\ \A j \in 1..Len(log) : log[j].kind = "compilation_completed" =>
            log[j - 1].kind = "compilation_started"
      /\ \A j \in 1..Len(short) : short[j].kind = "compilation_started" =>
            short[j + 1].kind = "compilation_completed"
      /\ \A j \in 1..Len(short) : short[j].kind = "compilation_completed" =>
            short[j - 1].kind = "compilation_started"
  BY <1>2, <1>3 DEF CompilationsReplay, At
<1>5. /\ \A j \in 1..Len(log) : log[j].kind = "evaluation_attempt_started" =>
            log[j + 1].kind \in {"evaluation_attempt_completed", "run_fault"}
      /\ \A j \in 1..Len(log) : log[j].kind = "evaluation_attempt_completed" =>
            /\ log[j - 1].kind = "evaluation_attempt_started"
            /\ log[j + 1].kind \in {"candidate_evaluated", "run_fault"}
      /\ \A j \in 1..Len(log) : log[j].kind = "candidate_evaluated" =>
            log[j - 1].kind = "evaluation_attempt_completed"
  BY ONLY <1>2, <1>3, InTransactions
<1>6. /\ \A j \in 1..Len(short) : short[j].kind = "evaluation_attempt_started" =>
            short[j + 1].kind \in {"evaluation_attempt_completed", "run_fault"}
      /\ \A j \in 1..Len(short) : short[j].kind = "evaluation_attempt_completed" =>
            /\ short[j - 1].kind = "evaluation_attempt_started"
            /\ short[j + 1].kind \in {"candidate_evaluated", "run_fault"}
      /\ \A j \in 1..Len(short) : short[j].kind = "candidate_evaluated" =>
            short[j - 1].kind = "evaluation_attempt_completed"
  BY ONLY <1>2, <1>3, InTransactions
<1>7. log[i].kind # "compilation_started"
  BY <1>2, <1>4
<1>8. log[i].kind # "compilation_completed"
  BY <1>2, <1>4
<1>9. log[i].kind # "evaluation_attempt_started"
  BY <1>2, <1>5, <1>6
<1>10. log[i].kind # "evaluation_attempt_completed"
  BY <1>2, <1>5, <1>6
<1>11. log[i].kind # "candidate_evaluated"
  BY <1>2, <1>5, <1>6
<1> QED
  BY <1>7, <1>8, <1>9, <1>10, <1>11

(* Search closes once, and what it nominates is told once. *)
LEMMA CloseOmitted ==
    ASSUME NEW log, NEW i, NEW short, Omission(log, i, short)
    PROVE  log[i].kind \notin {"search_completed", "candidate_nominated"}
<1> DEFINE closes == "search_completed"
           nominations == "candidate_nominated"
<1>1. /\ Omits(log, i, short) /\ NominationReplays(log) /\ NominationReplays(short)
      /\ Faults(log) = {} /\ Faults(short) = {}
  BY OmissionFacts DEF Replays
<1>2. /\ Cardinality(At(log, closes)) = 1 /\ Cardinality(At(log, nominations)) = 1
      /\ Cardinality(At(short, closes)) = 1 /\ Cardinality(At(short, nominations)) = 1
  BY <1>1 DEF NominationReplays
<1>3. ASSUME NEW kind, log[i].kind = kind
      PROVE  Cardinality(At(short, kind)) = Cardinality(At(log, kind)) - 1
  BY <1>1, <1>3, OmittedKind
<1> QED
  BY <1>2, <1>3

(* A completed turn keeps its filter and its selection. *)
LEMMA FilterOmitted ==
    ASSUME NEW log, NEW i, NEW short, Omission(log, i, short)
    PROVE  log[i].kind \notin {"candidate_set_filtered", "candidate_selected"}
<1>1. /\ Omits(log, i, short) /\ SelectionsReplay(log) /\ SelectionsReplay(short)
      /\ FaultTurn(log) = 0 /\ FaultTurn(short) = 0
      /\ i \in 1..Len(log) /\ DOMAIN log = 1..Len(log) /\ DOMAIN short = 1..Len(short)
      /\ IsLog(log)
  BY OmissionFacts DEF Replays, Omits
<1> DEFINE filtered == "candidate_set_filtered"
           selected == "candidate_selected"
<1>2. ASSUME NEW s, SelectionsReplay(s), FaultTurn(s) = 0
      PROVE  /\ TurnsAt(s, filtered) \subseteq 1..TurnCount(s)
             /\ 1..TurnCount(s) \ TurnsAt(s, filtered) \subseteq {0}
             /\ TurnsAt(s, selected) \subseteq TurnsAt(s, filtered)
             /\ TurnsAt(s, filtered) \ TurnsAt(s, selected) \subseteq {0}
             /\ \A t \in TurnsAt(s, filtered) : Cardinality(AtTurn(s, filtered, t)) = 1
             /\ \A t \in TurnsAt(s, selected) : Cardinality(AtTurn(s, selected, t)) = 1
  BY <1>2 DEF SelectionsReplay, TurnsAt
<1>3. ASSUME NEW kind, log[i].kind = kind, Cardinality(AtTurn(log, kind, log[i].turn)) = 1
      PROVE  log[i].turn \notin TurnsAt(short, kind)
  <2> DEFINE t == log[i].turn
  <2>1. i \in AtTurn(log, kind, t)
    BY <1>1, <1>3 DEF At, AtTurn
  <2>2. IsFiniteSet(AtTurn(log, kind, t))
    <3>1. IsFiniteSet(At(log, kind))
      BY <1>1, LogIsFinite
    <3> QED
      BY <3>1, FS_Subset DEF AtTurn
  <2>3. PICK j : AtTurn(log, kind, t) = {j}
    BY <1>3, <2>2, FS_Singleton
  <2>4. AtTurn(log, kind, t) = {i}
    BY <2>1, <2>3
  <2> HIDE DEF t
  <2>5. AtTurn(short, kind, t) = {}
    <3>1. Omits(log, i, short)
      BY <1>1
    <3>2. \A u : AtTurn(log, kind, u) = {i} => AtTurn(short, kind, u) = {}
      BY ONLY <3>1, OmittedKind
    <3> QED
      BY <2>4, <3>2, Zenon
  <2> QED
    BY <2>5 DEF AtTurn, TurnsAt, t
<1>4. i \in At(log, log[i].kind) /\ log[i].turn \in TurnsAt(log, log[i].kind)
  BY <1>1 DEF At, TurnsAt
<1>5. ASSUME NEW kind, log[i].kind # kind
      PROVE  TurnsAt(short, kind) = TurnsAt(log, kind)
  BY ONLY <1>1, <1>5, OmittedKind
<1>6. ASSUME log[i].kind # "provider_turn_completed"
      PROVE  TurnCount(short) = TurnCount(log)
  <2>1. Omits(log, i, short)
    BY <1>1
  <2> QED
    BY ONLY <1>6, <2>1, OmittedKind DEF TurnCount
<1>7. TurnCount(log) \in Nat
  BY <1>1, OmittedKind DEF TurnCount
<1> HIDE DEF filtered, selected
<1>8. log[i].kind # filtered
  <2> SUFFICES ASSUME log[i].kind = filtered PROVE FALSE
    OBVIOUS
  <2> DEFINE t == log[i].turn
  <2>1. t \in TurnsAt(log, filtered) /\ t \in 1..TurnCount(log) /\ t # 0
    BY <1>1, <1>2, <1>4, <1>7
  <2>2. t \notin TurnsAt(short, filtered)
    BY <1>1, <1>2, <1>3, <2>1
  <2>3. t \in 1..TurnCount(short)
    BY <1>6, <2>1 DEF filtered
  <2> QED
    BY <1>1, <1>2, <2>1, <2>2, <2>3
<1>9. log[i].kind # selected
  <2> SUFFICES ASSUME log[i].kind = selected PROVE FALSE
    OBVIOUS
  <2> DEFINE t == log[i].turn
  <2>1. t \in TurnsAt(log, selected) /\ t \in TurnsAt(log, filtered) /\ t \in 1..TurnCount(log)
        /\ t # 0
    BY <1>1, <1>2, <1>4, <1>7
  <2>2. t \notin TurnsAt(short, selected)
    BY <1>1, <1>2, <1>3, <2>1
  <2>3. t \in TurnsAt(short, filtered)
    BY <1>5, <2>1 DEF filtered, selected
  <2> QED
    BY <1>1, <1>2, <2>1, <2>2, <2>3
<1> QED
  BY <1>8, <1>9 DEF filtered, selected

LEMMA RejectionOmitted ==
    ASSUME NEW log, NEW i, NEW short, Omission(log, i, short)
    PROVE  log[i].kind # "candidate_rejected"
<1> SUFFICES ASSUME log[i].kind = "candidate_rejected" PROVE FALSE
  OBVIOUS
<1>1. /\ Omits(log, i, short) /\ RejectionsReplay(log) /\ RejectionsReplay(short)
      /\ i \in 1..Len(log) /\ DOMAIN log = 1..Len(log) /\ DOMAIN short = 1..Len(short)
  BY OmissionFacts DEF Replays, SelectionsReplay
<1>2. /\ \A k \in 1..Len(short) : /\ Place(i, k) \in 1..Len(log) \ {i}
                                  /\ short[k] = log[Place(i, k)]
      /\ \A j \in 1..Len(log) \ {i} : \E k \in 1..Len(short) :
            Place(i, k) = j /\ short[k] = log[j]
  <2>1. Omits(log, i, short)
    BY <1>1
  <2> QED
    BY ONLY <2>1, OmittedFacts
<1> DEFINE pairs(event) == {<<event.turn, event.order[n].candidate>> :
                               n \in {m \in DOMAIN event.order : ~event.order[m].launchable}}
<1>3. /\ RejectedAt(log) = UNION {pairs(log[j]) : j \in At(log, "candidate_set_filtered")}
      /\ RejectedAt(short) = UNION {pairs(short[j]) : j \in At(short, "candidate_set_filtered")}
  BY Zenon DEF RejectedAt
<1> HIDE DEF pairs
<1>4. /\ \A k \in At(short, "candidate_set_filtered") :
            \E j \in At(log, "candidate_set_filtered") : log[j] = short[k]
      /\ \A j \in At(log, "candidate_set_filtered") :
            \E k \in At(short, "candidate_set_filtered") : log[j] = short[k]
  <2>1. \A j \in At(log, "candidate_set_filtered") : j \in 1..Len(log) \ {i}
    BY <1>1 DEF At
  <2> QED
    BY <1>1, <1>2, <2>1 DEF At
<1>5. {pairs(log[j]) : j \in At(log, "candidate_set_filtered")}
         = {pairs(short[k]) : k \in At(short, "candidate_set_filtered")}
  BY <1>4
<1>6. RejectedAt(log) = RejectedAt(short)
  BY <1>3, <1>5, Zenon
<1>7. /\ Cardinality(At(log, "candidate_rejected")) = Cardinality(RejectedAt(log))
      /\ Cardinality(At(short, "candidate_rejected")) = Cardinality(RejectedAt(short))
  BY <1>1, Zenon DEF RejectionsReplay, RejectedAt
<1>8. /\ Cardinality(At(log, "candidate_rejected")) \in Nat
      /\ Cardinality(At(short, "candidate_rejected"))
            = Cardinality(At(log, "candidate_rejected")) - 1
  BY <1>1, OmittedKind
<1> QED
  BY <1>6, <1>7, <1>8

(* A sealed candidate was measured, and cannot have been without its seal. *)
LEMMA SealOmitted ==
    ASSUME NEW log, NEW i, NEW short, Omission(log, i, short)
    PROVE  log[i].kind # "launchable_candidate_sealed"
<1> SUFFICES ASSUME log[i].kind = "launchable_candidate_sealed" PROVE FALSE
  OBVIOUS
<1>1. 1 < i /\ i < Len(log)
  BY InsideFrame
<1>2. /\ i \in 1..Len(log) /\ i \in 1..Len(short) /\ short[i] = log[i + 1]
      /\ DOMAIN log = 1..Len(log) /\ DOMAIN short = 1..Len(short)
  BY <1>1, Joined
<1>3. /\ Omits(log, i, short) /\ SelectionsReplay(log) /\ InvocationsReplay(short)
      /\ Sealed(log, FALSE)
  BY OmissionFacts DEF Replays, Unbroken
<1>4. i \in At(log, "launchable_candidate_sealed")
  BY <1>2 DEF At
<1>5. /\ log[i + 1].kind = "evaluation_attempt_started"
      /\ EvaluationKey(log[i + 1]) = <<log[i].turn, "search", log[i].candidate>>
  BY <1>1, <1>3, <1>4 DEF Sealed
<1>6. SealedAt(log, log[i].turn, log[i].candidate) = {i}
  BY <1>3, <1>4 DEF SelectionsReplay
<1>7. i \in At(short, "evaluation_attempt_started") /\ short[i].turn = log[i].turn
      /\ short[i].candidate = log[i].candidate
  BY <1>2, <1>5 DEF At, EvaluationKey
<1>8. \E j \in SealedAt(short, short[i].turn, short[i].candidate) : j < i
  <2>1. StartPlaced(short, i)
    BY <1>3, <1>7 DEF InvocationsReplay
  <2> QED
    BY <2>1, Zenon DEF StartPlaced
<1>9. PICK j \in SealedAt(short, log[i].turn, log[i].candidate) : j < i
  BY <1>7, <1>8, Zenon
<1>10. \A k \in 1..Len(short) : Place(i, k) \in 1..Len(log) \ {i} /\ short[k] = log[Place(i, k)]
  BY ONLY <1>3, OmittedFacts
<1>11. Place(i, j) \in SealedAt(log, log[i].turn, log[i].candidate) /\ Place(i, j) # i
  BY <1>2, <1>9, <1>10 DEF SealedAt, AtTurn, At
<1> QED
  BY <1>6, <1>11

(* A collapse is told. *)
LEMMA DiagnosisOmitted ==
    ASSUME NEW log, NEW i, NEW short, Omission(log, i, short)
    PROVE  log[i].kind # "diagnosis_routed"
<1> SUFFICES ASSUME log[i].kind = "diagnosis_routed" PROVE FALSE
  OBVIOUS
<1> DEFINE t == log[i].turn
<1>1. /\ Omits(log, i, short) /\ SelectionsReplay(log) /\ SelectionsReplay(short)
      /\ FaultTurn(log) = 0 /\ FaultTurn(short) = 0
      /\ i \in 1..Len(log) /\ DOMAIN log = 1..Len(log) /\ DOMAIN short = 1..Len(short)
      /\ IsLog(log)
  BY OmissionFacts DEF Replays, Omits
<1>2. ASSUME NEW s, SelectionsReplay(s)
      PROVE  /\ TurnsAt(s, "candidate_set_filtered") \subseteq 1..TurnCount(s)
             /\ TurnsAt(s, "diagnosis_routed") \subseteq TurnsAt(s, "candidate_set_filtered")
             /\ \A u \in TurnsAt(s, "candidate_set_filtered") :
                   /\ Cardinality(AtTurn(s, "candidate_set_filtered", u)) = 1
                   /\ DiagnosesReplay(s, u)
  BY <1>2 DEF SelectionsReplay, TurnsAt
<1>3. i \in AtTurn(log, "diagnosis_routed", t) /\ t \in TurnsAt(log, "diagnosis_routed")
  BY <1>1 DEF At, AtTurn, TurnsAt
<1>4. TurnCount(log) \in Nat
  BY <1>1, OmittedKind DEF TurnCount
<1>5. ASSUME NEW kind, NEW u, Cardinality(AtTurn(log, kind, u)) = 1
      PROVE  \E j : AtTurn(log, kind, u) = {j} /\ j \in At(log, kind)
  <2>1. IsFiniteSet(AtTurn(log, kind, u))
    <3>1. IsFiniteSet(At(log, kind))
      BY <1>1, LogIsFinite
    <3> QED
      BY <3>1, FS_Subset DEF AtTurn
  <2>2. PICK j : AtTurn(log, kind, u) = {j}
    BY <1>5, <2>1, FS_Singleton
  <2> QED
    BY <2>2 DEF AtTurn
<1> HIDE DEF t
<1>6. /\ t \in TurnsAt(log, "candidate_set_filtered") /\ t # 0
      /\ Cardinality(AtTurn(log, "candidate_set_filtered", t)) = 1
      /\ DiagnosesReplay(log, t)
  BY <1>1, <1>2, <1>3, <1>4
<1>7. /\ Cardinality(AtTurn(log, "diagnosis_routed", t)) = 1
      /\ Collapsed(Rows(log, t)) # {}
  BY <1>3, <1>6 DEF DiagnosesReplay
<1>8. AtTurn(log, "diagnosis_routed", t) = {i}
  BY <1>3, <1>5, <1>7
<1>9. PICK j : /\ AtTurn(log, "candidate_set_filtered", t) = {j}
               /\ j \in At(log, "candidate_set_filtered")
  BY <1>5, <1>6
<1>10. j # i
  BY <1>9 DEF At
<1>11. Omits(log, i, short)
  BY <1>1
<1>12. AtTurn(short, "diagnosis_routed", t) = {}
  <2>1. \A u : AtTurn(log, "diagnosis_routed", u) = {i} => AtTurn(short, "diagnosis_routed", u) = {}
    BY ONLY <1>11, OmittedKind
  <2> QED
    BY <1>8, <2>1, Zenon
<1>13. PICK k : AtTurn(short, "candidate_set_filtered", t) = {k} /\ short[k] = log[j]
  <2>1. /\ \A n \in 1..Len(short) :
              Place(i, n) \in 1..Len(log) \ {i} /\ short[n] = log[Place(i, n)]
        /\ \A m \in 1..Len(log) \ {i} : \E n \in 1..Len(short) :
              Place(i, n) = m /\ short[n] = log[m]
        /\ \A m, n \in 1..Len(short) : Place(i, m) = Place(i, n) => m = n
    BY ONLY <1>11, OmittedFacts
  <2>2. j \in 1..Len(log) \ {i}
    BY <1>1, <1>9, <1>10 DEF At
  <2>3. PICK n \in 1..Len(short) : Place(i, n) = j /\ short[n] = log[j]
    BY <2>1, <2>2
  <2>4. n \in AtTurn(short, "candidate_set_filtered", t)
    BY <1>1, <1>9, <2>3 DEF AtTurn, At
  <2>5. ASSUME NEW m \in AtTurn(short, "candidate_set_filtered", t) PROVE m = n
    <3>1. Place(i, m) \in AtTurn(log, "candidate_set_filtered", t) /\ m \in 1..Len(short)
      BY <1>1, <2>1 DEF AtTurn, At
    <3> QED
      BY <1>9, <2>1, <2>3, <3>1
  <2>6. AtTurn(short, "candidate_set_filtered", t) = {n}
    BY <2>4, <2>5
  <2> QED
    BY <2>3, <2>6
<1>14. Rows(short, t) = Rows(log, t)
  <2>1. The(log, AtTurn(log, "candidate_set_filtered", t)) = log[j]
    BY <1>9, OneOnly, Zenon
  <2>2. The(short, AtTurn(short, "candidate_set_filtered", t)) = short[k]
    BY <1>13, OneOnly, Zenon
  <2> QED
    BY <1>13, <2>1, <2>2, Zenon DEF Rows
<1>15. t \in TurnsAt(short, "candidate_set_filtered")
  BY <1>13 DEF AtTurn, TurnsAt
<1>16. DiagnosesReplay(short, t)
  BY <1>1, <1>2, <1>15
<1>17. Cardinality(AtTurn(short, "diagnosis_routed", t)) # 1
  BY <1>12, FS_EmptySet
<1>18. Collapsed(Rows(short, t)) = {} \/ t = FaultTurn(short)
  BY <1>16, <1>17, Zenon DEF DiagnosesReplay
<1> QED
  BY <1>1, <1>6, <1>7, <1>14, <1>18, Zenon

(* No event of an adhered Run but a refused permit may be left out. *)
LEMMA OmissionRefused ==
    ASSUME NEW log, Unbroken(log), NEW i, NEW short, Omits(log, i, short),
           log[i].kind # "compilation_refused"
    PROVE  ~Replays(short)
<1> SUFFICES ASSUME Replays(short) PROVE FALSE
  OBVIOUS
<1>1. Omission(log, i, short)
  BY DEF Omission
<1>2. log[i].kind \in Kinds /\ i \in 1..Len(log) /\ \A j \in 1..Len(log) : log[j].kind # "run_fault"
  BY <1>1, OmissionFacts
<1>3. /\ log[i].kind \notin {"run_started", "checkpoints_projected", "run_terminal"}
      /\ log[i].kind \notin {"provider_turn_completed", "author_actions_resolved"}
      /\ log[i].kind \notin {"compilation_started", "compilation_completed",
                             "evaluation_attempt_started",
                             "evaluation_attempt_completed", "candidate_evaluated"}
      /\ log[i].kind \notin {"search_completed", "candidate_nominated"}
      /\ log[i].kind \notin {"candidate_set_filtered", "candidate_selected"}
      /\ log[i].kind # "candidate_rejected" /\ log[i].kind # "launchable_candidate_sealed"
      /\ log[i].kind # "diagnosis_routed"
  BY ONLY <1>1, FrameOmitted, TurnOmitted, PairOmitted, CloseOmitted, FilterOmitted,
          RejectionOmitted, SealOmitted, DiagnosisOmitted
<1> QED
  BY <1>2, <1>3 DEF Kinds, SearchKinds, EvaluationKinds

(* Where nothing faulted no receipt is stranded. *)
LEMMA NoneStranded ==
    ASSUME NEW log, NEW rows, NEW spent, NEW permits, NEW used,
           Bookkept(log, rows, spent, permits, used), Ending(log, rows, spent, "adhered"),
           NEW i \in At(log, "evaluation_attempt_completed")
    PROVE  ~Interrupted(log, i)
<1>1. Len(log) \in Nat /\ DOMAIN log = 1..Len(log) /\ At(log, "run_fault") = {}
  BY DEF Bookkept, IsLog, Ending, Faults
<1>2. IF i = Len(log) THEN FALSE
      ELSE Follows(log, i, "candidate_evaluated") \/ Interrupted(log, i)
  BY DEF Bookkept, Chained
<1>3. i + 1 \in DOMAIN log
  BY <1>1, <1>2 DEF At
<1> QED
  BY <1>1, <1>3 DEF At, Interrupted

(* The ledger SealRun leaves of an adhered Run is such a one. *)
LEMMA SealUnbroken ==
    ASSUME IInv, JInv, KInv, Rebuilt, SealRun, adherence = "adhered"
    PROVE  Unbroken(ledger') /\ IsSequence(ledger')
<1>1. /\ Bookkept(ledger', observations, tokens, compilations, counts)
      /\ Ending(ledger', observations, tokens, adherence) /\ Replays(ledger')
  <2>1. /\ Bookkept(ledger', observations, tokens, compilations, counts)
        /\ Ending(ledger', observations, tokens, adherence)
    BY SealStep, SealedEnding
  <2>2. ~ReceiptStranded'
    BY <2>1, NoneStranded DEF ReceiptStranded
  <2> QED
    BY <2>1, <2>2, SealReplays DEF ProfileFault
<1>2. PICK longer : longer = ledger'
  OBVIOUS
<1>3. /\ Bookkept(longer, observations, tokens, compilations, counts)
      /\ Ending(longer, observations, tokens, adherence) /\ Replays(longer)
  BY <1>1, <1>2, Zenon
<1> DEFINE kind == "provider_turn_completed"
<1>4. /\ Faults(longer) = {} /\ AtTurn(longer, kind, Len(observations) + 1) = {}
  BY <1>3 DEF Ending
<1>5. /\ IsSequence(longer) /\ IsLog(longer) /\ Sealed(longer, FALSE)
  BY <1>3 DEF Bookkept
<1>6. \A t : t \in 1..TurnCount(longer) <=> AtTurn(longer, kind, t) # {}
  BY ONLY <1>3, TurnNumbers
<1>7. \A j \in At(longer, kind) : j \in AtTurn(longer, kind, longer[j].turn)
  BY DEF AtTurn
<1>8. \A j \in At(longer, kind) : longer[j].turn \in 1..TurnCount(longer)
  BY <1>6, <1>7
<1>9. Unbroken(longer) /\ IsSequence(longer)
  BY <1>3, <1>4, <1>5, <1>8 DEF Unbroken
<1> QED
  BY <1>2, <1>9, Zenon

(* OmissionIsRefused: whatever event of a sealed, adhered Run is missing, a *)
(* refused permit apart, the replay does not accept what is left.          *)
THEOREM RunOmitsNothing == Spec => []OmissionIsRefused
<1>1. Init => OmissionIsRefused
  BY DEF Init, OmissionIsRefused
<1>2. ASSUME IInv, JInv, KInv \/ Undeclared, Rebuilt, OmissionIsRefused, [Next]_vars
      PROVE  OmissionIsRefused'
  <2>1. CASE SealRun
    <3> SUFFICES ASSUME adherence' = "adhered", NEW i \in DOMAIN ledger',
                        ledger'[i].kind # "compilation_refused"
                 PROVE  ~Replays(Omitting(i)')
      BY DEF OmissionIsRefused
    <3>1. adherence = "adhered" /\ KInv
      BY <1>2, <2>1 DEF SealRun, outcomeVars, Undeclared, StopUndeclared
    <3>2. Unbroken(ledger') /\ IsSequence(ledger')
      BY <1>2, <2>1, <3>1, SealUnbroken
    <3>3. PICK log, short : log = ledger' /\ short = Omitting(i)'
      OBVIOUS
    <3>4. short = SubSeq(log, 1, i - 1) \o SubSeq(log, i + 1, Len(log))
      BY <3>3 DEF Omitting
    <3>5. Unbroken(log) /\ IsSequence(log) /\ i \in DOMAIN log
          /\ log[i].kind # "compilation_refused"
      BY <3>2, <3>3, Zenon
    <3>6. Omits(log, i, short)
      BY ONLY <3>4, <3>5, OmittingOmits
    <3>7. ~Replays(short)
      BY ONLY <3>5, <3>6, OmissionRefused
    <3> QED
      BY <3>3, <3>7, Zenon
  <2>2. CASE UNCHANGED vars
    <3>1. UNCHANGED <<pc, adherence, ledger>>
      BY <2>2 DEF vars, outcomeVars
    <3> QED
      BY <1>2, <3>1 DEF OmissionIsRefused, Omitting
  <2>3. CASE Next /\ ~SealRun
    <3>1. pc' # "sealed"
      BY <2>3, OnlySealRunSeals
    <3> QED
      BY <3>1 DEF OmissionIsRefused
  <2> QED
    BY <1>2, <2>1, <2>2, <2>3
<1>3. Spec => [](IInv /\ JInv /\ (KInv \/ Undeclared))
  BY RunStands
<1>4. Spec => []Rebuilt
  BY ObservationsRebuilt
<1> QED
  BY <1>1, <1>2, <1>3, <1>4, PTL DEF Spec
===============================================================================
